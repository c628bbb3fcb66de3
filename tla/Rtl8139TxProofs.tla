--------------------------- MODULE Rtl8139TxProofs ---------------------------
(***************************************************************************)
(* Proofs about Rtl8139Tx and Rtl8139UpDown on one CPU, for every number   *)
(* of descriptors, of packets and of openings.                             *)
(***************************************************************************)
EXTENDS Rtl8139UpDown, SequenceTheorems, TLAPS

(* Arithmetic of the ring                                                  *)

\* A quotient and a remainder determine a number.
LEMMA DivMod ==
  ASSUME NEW k \in Nat
  PROVE  /\ k \div NUM_TX_DESC \in Nat
         /\ Slot(k) \in Desc
         /\ k = NUM_TX_DESC * (k \div NUM_TX_DESC) + Slot(k)
BY DescAssumption, SMT DEF Slot, Desc

\* An index inside the ring is its own remainder.
LEMMA SlotOfDesc ==
  ASSUME NEW d \in Desc
  PROVE  d % NUM_TX_DESC = d
BY DescAssumption, SMT DEF Desc

\* A remainder is determined by any quotient that leaves it in the ring.
LEMMA ModUnique ==
  ASSUME NEW k \in Nat, NEW q \in Int, NEW r \in Desc, k = NUM_TX_DESC * q + r
  PROVE  Slot(k) = r
<1> DEFINE p == k \div NUM_TX_DESC
<1>1. /\ p \in Nat /\ Slot(k) \in Desc /\ r \in Desc
      /\ k = NUM_TX_DESC * p + Slot(k)
  BY DivMod
<1> HIDE DEF p
<1>2. NUM_TX_DESC * (q - p) = Slot(k) - r
  BY <1>1, DescAssumption, SMT DEF Desc
<1>3. CASE q - p >= 1
  <2>1. NUM_TX_DESC * (q - p) >= NUM_TX_DESC
    BY <1>1, <1>3, DescAssumption, SMT
  <2>2. QED
    BY <1>1, <1>2, <2>1, DescAssumption, SMT DEF Desc
<1>4. CASE p - q >= 1
  <2>1. NUM_TX_DESC * (p - q) >= NUM_TX_DESC
    BY <1>1, <1>4, DescAssumption, SMT
  <2>2. NUM_TX_DESC * (q - p) = 0 - NUM_TX_DESC * (p - q)
    BY <1>1, DescAssumption, SMT
  <2>3. QED
    BY <1>1, <1>2, <2>1, <2>2, DescAssumption, SMT DEF Desc
<1>5. CASE p = q
  BY <1>1, <1>5, DescAssumption, SMT DEF Desc
<1>6. QED
  BY <1>1, <1>3, <1>4, <1>5, SMT

\* Moving an index on by one, modulo the ring, is moving on to the next packet.
LEMMA SlotNext ==
  ASSUME NEW k \in Nat
  PROVE  (Slot(k) + 1) % NUM_TX_DESC = Slot(k + 1)
<1> DEFINE q == k \div NUM_TX_DESC
<1>1. q \in Nat /\ Slot(k) \in Desc /\ k = NUM_TX_DESC * q + Slot(k)
  BY DivMod
<1> HIDE DEF q
<1>2. CASE Slot(k) + 1 = NUM_TX_DESC
  <2>1. k + 1 = NUM_TX_DESC * (q + 1) + 0
    BY <1>1, <1>2, DescAssumption, SMT DEF Desc
  <2>2. Slot(k + 1) = 0
    <3>1. k + 1 \in Nat /\ q + 1 \in Int /\ 0 \in Desc
      BY <1>1, DescAssumption, SMT DEF Desc
    <3>2. QED
      BY <2>1, <3>1, ModUnique, Zenon
  <2>3. (Slot(k) + 1) % NUM_TX_DESC = 0
    BY <1>2, DescAssumption, SMT
  <2>4. QED
    BY <2>2, <2>3
<1>3. CASE Slot(k) + 1 \in Desc
  <2>1. k + 1 = NUM_TX_DESC * q + (Slot(k) + 1)
    BY <1>1, DescAssumption, SMT DEF Desc
  <2>2. Slot(k + 1) = Slot(k) + 1
    BY <1>1, <1>3, <2>1, ModUnique, DescAssumption, SMT
  <2>3. QED
    BY <1>3, <2>2, SlotOfDesc
<1>4. QED
  BY <1>1, <1>2, <1>3, DescAssumption, SMT DEF Desc

\* Two packets at most a ring apart share a descriptor only if they are equal
\* or exactly a ring apart.
LEMMA SlotInjective ==
  ASSUME NEW j \in Nat, NEW k \in Nat, j <= k, k - j <= NUM_TX_DESC,
         Slot(j) = Slot(k)
  PROVE  k = j \/ k - j = NUM_TX_DESC
<1> DEFINE p == j \div NUM_TX_DESC
           q == k \div NUM_TX_DESC
<1>1. /\ p \in Nat /\ Slot(j) \in Desc /\ j = NUM_TX_DESC * p + Slot(j)
      /\ q \in Nat /\ Slot(k) \in Desc /\ k = NUM_TX_DESC * q + Slot(k)
  BY DivMod
<1> HIDE DEF p, q
<1>2. k - j = NUM_TX_DESC * (q - p)
  BY <1>1, DescAssumption, SMT DEF Desc
<1>3. CASE q - p >= 2
  <2>1. NUM_TX_DESC * (q - p) >= NUM_TX_DESC * 2
    BY <1>1, <1>3, DescAssumption, SMT
  <2>2. QED
    BY <1>2, <2>1, DescAssumption, SMT
<1>4. CASE p - q >= 1
  <2>1. NUM_TX_DESC * (p - q) >= NUM_TX_DESC
    BY <1>1, <1>4, DescAssumption, SMT
  <2>2. NUM_TX_DESC * (q - p) = 0 - NUM_TX_DESC * (p - q)
    BY <1>1, DescAssumption, SMT
  <2>3. QED
    BY <1>1, <1>2, <2>1, <2>2, DescAssumption, SMT
<1>5. CASE q - p \in {0, 1}
  BY <1>1, <1>2, <1>5, DescAssumption, SMT
<1>6. QED
  BY <1>1, <1>3, <1>4, <1>5, SMT

\* A packet a ring later shares the descriptor.
LEMMA SlotPeriodic ==
  ASSUME NEW k \in Nat
  PROVE  Slot(k + NUM_TX_DESC) = Slot(k)
<1> DEFINE q == k \div NUM_TX_DESC
<1>1. q \in Nat /\ Slot(k) \in Desc /\ k = NUM_TX_DESC * q + Slot(k)
  BY DivMod
<1> HIDE DEF q
<1>2. k + NUM_TX_DESC = NUM_TX_DESC * (q + 1) + Slot(k)
  BY <1>1, DescAssumption, SMT DEF Desc
<1>3. k + NUM_TX_DESC \in Nat /\ q + 1 \in Int
  BY <1>1, DescAssumption, SMT
<1>4. QED
  BY <1>1, <1>2, <1>3, ModUnique, Zenon

-----------------------------------------------------------------------------
(* Type correctness                                                        *)

\* An index moved on stays inside the ring.
LEMMA WrapInRange ==
  ASSUME NEW d \in Desc
  PROVE  (d + 1) % NUM_TX_DESC \in Desc
BY DescAssumption, SMT DEF Desc

LEMMA TypeInit == Init => TypeOK
<1>1. 0 \in Desc
  BY DescAssumption, SMT DEF Desc
<1>2. Init => wire \in Seq([pkt: Nat, out: Outcome])
  BY DEF Init
<1>3. QED
  BY <1>1, <1>2, BoundAssumption DEF Init, TypeOK, NoPkt, Locked

LEMMA TypeStep == TypeOK /\ [Next]_vars => TypeOK'
<1> SUFFICES ASSUME TypeOK, [Next]_vars
             PROVE  TypeOK'
  OBVIOUS
<1> USE DEF TypeOK, driver, chip, ghost, Locked
<1>1. CASE XmitCopy
  BY <1>1, SlotOfDesc DEF XmitCopy, XmitBegins
<1>2. CASE XmitOversize
  BY <1>2 DEF XmitOversize, XmitBegins
<1>3. CASE XmitTrigger
  BY <1>3, SlotOfDesc DEF XmitTrigger
<1>4. CASE XmitAdvance
  BY <1>4, WrapInRange DEF XmitAdvance
<1>5. CASE XmitCompare
  BY <1>5 DEF XmitCompare
<1>6. CASE XmitStop
  BY <1>6 DEF XmitStop
<1>7. CASE ChipTransmit
  <2>1. PICK o \in Outcome:
           /\ tsd' = [tsd EXCEPT ![hw_tx] = o]
           /\ isr' = isr \cup {IF o = "ok" THEN "TxOK" ELSE "TxErr"}
           /\ wire' = Append(wire, [pkt |-> tx_buf[hw_tx], out |-> o])
    BY <1>7 DEF ChipTransmit
  <2>2. wire' \in Seq([pkt: Nat, out: Outcome])
    BY <2>1
  <2>3. isr' \subseteq IsrBits
    BY <2>1 DEF IsrBits, TxBits
  <2>4. tsd' \in [Desc -> Outcome \cup {"reset", "busy"}]
    BY <2>1
  <2>5. QED
    BY <1>7, <2>2, <2>3, <2>4, WrapInRange DEF ChipTransmit
<1>8. CASE ChipReceive
  BY <1>8 DEF IsrBits, ChipReceive
<1>9. CASE IrqReadIsr
  BY <1>9 DEF IrqReadIsr
<1>10. CASE IrqAck
  BY <1>10 DEF IsrBits, TxBits, IrqAck
<1>11. CASE IrqScan
  BY <1>11 DEF IrqScan
<1>12. CASE IrqFlag
  BY <1>12 DEF IrqFlag
<1>13. CASE IrqBreak
  BY <1>13 DEF IrqBreak
<1>14. CASE IrqReap
  BY <1>14, WrapInRange DEF IrqReap
<1>15. CASE IrqCompare
  BY <1>15 DEF IrqCompare
<1>16. CASE IrqWake
  BY <1>16 DEF IrqWake
<1>17. CASE UNCHANGED vars
  BY <1>17 DEF vars
<1>18. QED
  BY <1>1, <1>2, <1>3, <1>4, <1>5, <1>6, <1>7, <1>8, <1>9, <1>10, <1>11, <1>12, <1>13, <1>14, <1>15, <1>16, <1>17
     DEF Next, Xmit, Irq

\* Every reachable state is well typed: the ring indices never leave the ring.
THEOREM TypeCorrect == Spec => []TypeOK
<1>1. Init => TypeOK
  BY TypeInit
<1>2. TypeOK /\ [Next]_vars => TypeOK'
  BY TypeStep
<1>3. QED
  BY <1>1, <1>2, PTL DEF Spec

-----------------------------------------------------------------------------
(* The ring on one CPU                                                     *)

\* Packets less than a ring apart have descriptors of their own.
LEMMA SlotsApart ==
  ASSUME NEW j \in Nat, NEW k \in Nat, j # k,
         j - k < NUM_TX_DESC, k - j < NUM_TX_DESC
  PROVE  Slot(j) # Slot(k)
<1>1. CASE j < k
  BY <1>1, SlotInjective, DescAssumption, SMT
<1>2. CASE k < j
  BY <1>2, SlotInjective, DescAssumption, SMT
<1>3. QED
  BY <1>1, <1>2, SMT

\* What comparing the two indices tells about the ring.
LEMMA FullOrEmpty ==
  ASSUME NEW r \in Nat, NEW a \in Nat, r <= a, a - r <= NUM_TX_DESC
  PROVE  Slot(a) = Slot(r) <=> a - r \in {0, NUM_TX_DESC}
<1>1. ASSUME Slot(a) = Slot(r)
      PROVE  a - r \in {0, NUM_TX_DESC}
  BY <1>1, SlotInjective, SMT
<1>2. ASSUME a - r = NUM_TX_DESC
      PROVE  Slot(a) = Slot(r)
  <2>1. a = r + NUM_TX_DESC
    BY <1>2, DescAssumption, SMT
  <2>2. QED
    BY <2>1, SlotPeriodic
<1>3. ASSUME a - r = 0
      PROVE  Slot(a) = Slot(r)
  BY <1>3, SMT
<1>4. QED
  BY <1>1, <1>2, <1>3

LEMMA RingInit == Init => RingInv
<1>1. Slot(0) = 0 /\ 0 \in Desc
  BY DescAssumption, SlotOfDesc, SMT DEF Slot, Desc
<1>2. Init => IndexInv
  BY <1>1, DescAssumption DEF Init, IndexInv, Outstanding, Transmitted
<1>3. Init => SlotInv
  BY DEF Init, SlotInv
<1>4. Init => XmitInv
  BY DescAssumption DEF Init, XmitInv, Outstanding, Locked
<1>5. Init => IrqInv
  BY DEF Init, IrqInv, StoppedHasWork
<1>6. QED
  BY <1>2, <1>3, <1>4, <1>5, TypeInit DEF RingInv

LEMMA RingStep ==
  ASSUME ~SMP, RingInv, [Next]_vars
  PROVE  RingInv'
<1> USE DescAssumption DEF RingInv, driver, chip, ghost, Locked, Outstanding,
                           Transmitted
<1>1. TypeOK'
  BY TypeStep
<1>2. /\ accepted \in Nat /\ reported \in Nat /\ Len(wire) \in Nat
      /\ NUM_TX_DESC \in Nat \ {0}
  BY DEF TypeOK
<1>3. CASE XmitCopy
  <2>21. IndexInv'
    BY <1>3 DEF XmitCopy, XmitBegins, XmitMayRun, IndexInv
  <2>22. SlotInv'
    <3>1. /\ cur_tx = Slot(accepted) /\ accepted - reported < NUM_TX_DESC
          /\ cur_tx \in Desc /\ cur_tx % NUM_TX_DESC = cur_tx
      BY <1>3, SlotOfDesc DEF XmitCopy, XmitBegins, IndexInv, XmitInv, TypeOK
    <3>2. /\ tx_buf' = [tx_buf EXCEPT ![cur_tx] = accepted]
          /\ UNCHANGED <<tsd, wire, accepted, reported, cur_tx>>
      BY <1>3, <3>1 DEF XmitCopy
    <3>3. tx_buf'[cur_tx] = accepted
      BY <3>1, <3>2 DEF TypeOK
    <3>4. ASSUME NEW k \in reported .. accepted - 1
          PROVE  tx_buf'[Slot(k)] = k
      <4>1. k \in Nat /\ Slot(k) \in Desc /\ Slot(k) # Slot(accepted)
        <5>1. /\ k \in Nat /\ k # accepted
              /\ k - accepted < NUM_TX_DESC /\ accepted - k < NUM_TX_DESC
          BY <1>2, <3>1, SMT
        <5>2. QED
          BY <1>2, <5>1, SlotsApart, DivMod
      <4>2. QED
        BY <3>1, <3>2, <4>1 DEF TypeOK, SlotInv
    <3>5. QED
      BY <3>2, <3>3, <3>4 DEF SlotInv
  <2>23. XmitInv'
    BY <1>2, <1>3 DEF XmitCopy, XmitBegins, XmitMayRun, XmitInv
  <2>24. IrqInv'
    BY <1>2, <1>3 DEF XmitCopy, XmitBegins, XmitMayRun, IrqInv, StoppedHasWork
  <2>25. QED
    BY <1>1, <2>21, <2>22, <2>23, <2>24
<1>4. CASE XmitOversize
  <2>21. IndexInv'
    BY <1>4 DEF XmitOversize, XmitBegins, IndexInv
  <2>22. SlotInv'
    BY <1>4 DEF XmitOversize, XmitBegins, SlotInv
  <2>23. XmitInv'
    BY <1>2, <1>4 DEF XmitOversize, XmitBegins, XmitInv
  <2>24. IrqInv'
    BY <1>2, <1>4 DEF XmitOversize, XmitBegins, IrqInv, StoppedHasWork
  <2>25. QED
    BY <1>1, <2>21, <2>22, <2>23, <2>24
<1>5. CASE XmitTrigger
  <2>21. IndexInv'
    BY <1>2, <1>5 DEF XmitTrigger, IndexInv, XmitInv
  <2>22. SlotInv'
    <3>1. /\ cur_tx = Slot(accepted) /\ accepted - reported < NUM_TX_DESC
          /\ cur_tx \in Desc /\ cur_tx % NUM_TX_DESC = cur_tx
          /\ tx_buf[cur_tx] = accepted /\ Len(wire) <= accepted
          /\ reported <= accepted
      BY <1>5, SlotOfDesc DEF XmitTrigger, IndexInv, XmitInv, SlotInv, TypeOK
    <3>2. /\ tsd' = [tsd EXCEPT ![cur_tx] = "busy"]
          /\ accepted' = accepted + 1
          /\ UNCHANGED <<tx_buf, wire, reported, cur_tx>>
          /\ xpc' = "triggered"
      BY <1>5, <3>1 DEF XmitTrigger
    <3>3. ASSUME NEW k \in reported' .. accepted' - 1
          PROVE  /\ tx_buf'[Slot(k)] = k
                 /\ tsd'[Slot(k)] = IF k < Len(wire)' THEN wire'[k + 1].out
                                    ELSE "busy"
      <4>1. CASE k = accepted
        BY <1>2, <3>1, <3>2, <4>1 DEF TypeOK
      <4>2. CASE k # accepted
        <5>1. k \in reported .. accepted - 1
          BY <1>2, <3>2, <4>2, SMT
        <5>2. k \in Nat /\ Slot(k) \in Desc /\ Slot(k) # Slot(accepted)
          <6>1. /\ k \in Nat /\ k # accepted
                /\ k - accepted < NUM_TX_DESC /\ accepted - k < NUM_TX_DESC
            BY <1>2, <3>1, <5>1, SMT
          <6>2. QED
            BY <1>2, <6>1, SlotsApart, DivMod
        <5>3. QED
          BY <3>1, <3>2, <5>1, <5>2 DEF TypeOK, SlotInv
      <4>3. QED
        BY <4>1, <4>2
    <3>4. ASSUME NEW d \in Desc, tsd'[d] = "busy"
          PROVE  \E k \in Len(wire)' .. accepted' - 1: d = Slot(k)
      <4>1. CASE d = cur_tx
        BY <1>2, <3>1, <3>2, <4>1
      <4>2. CASE d # cur_tx
        <5>1. tsd[d] = "busy"
          BY <3>2, <3>4, <4>2 DEF TypeOK
        <5>2. PICK k \in Len(wire) .. accepted - 1: d = Slot(k)
          BY <5>1 DEF SlotInv
        <5>3. QED
          BY <1>2, <3>2, <5>2
      <4>3. QED
        BY <4>1, <4>2
    <3>5. QED
      BY <3>2, <3>3, <3>4 DEF SlotInv
  <2>23. XmitInv'
    BY <1>2, <1>5 DEF XmitTrigger, XmitMayRun, XmitInv, IndexInv
  <2>24. IrqInv'
    BY <1>2, <1>5 DEF XmitTrigger, XmitMayRun, XmitInv, IrqInv, StoppedHasWork
  <2>25. QED
    BY <1>1, <2>21, <2>22, <2>23, <2>24
<1>6. CASE XmitAdvance
  <2>21. IndexInv'
    <3>1. accepted - 1 \in Nat /\ cur_tx = Slot(accepted - 1)
      BY <1>2, <1>6 DEF XmitAdvance, IndexInv, XmitInv
    <3>2. cur_tx' = Slot(accepted)
      <4>1. (Slot(accepted - 1) + 1) % NUM_TX_DESC = Slot(accepted - 1 + 1)
        BY <3>1, SlotNext
      <4>2. accepted - 1 + 1 = accepted
        BY <1>2
      <4>3. QED
        BY <1>6, <3>1, <4>1, <4>2 DEF XmitAdvance
    <3>3. QED
      BY <1>6, <3>2 DEF XmitAdvance, IndexInv
  <2>22. SlotInv'
    BY <1>6 DEF XmitAdvance, XmitMayRun, SlotInv
  <2>23. XmitInv'
    BY <1>2, <1>6 DEF XmitAdvance, XmitMayRun, XmitInv
  <2>24. IrqInv'
    BY <1>2, <1>6 DEF XmitAdvance, XmitMayRun, IrqInv, StoppedHasWork
  <2>25. QED
    BY <1>1, <2>21, <2>22, <2>23, <2>24
<1>7. CASE XmitCompare
  <2>21. IndexInv'
    BY <1>7 DEF XmitCompare, XmitMayRun, IndexInv
  <2>22. SlotInv'
    BY <1>7 DEF XmitCompare, XmitMayRun, SlotInv
  <2>23. XmitInv'
    <3>1. /\ cur_tx = Slot(accepted) /\ dirty_tx = Slot(reported)
          /\ reported < accepted /\ accepted - reported <= NUM_TX_DESC
      BY <1>2, <1>7 DEF XmitCompare, IndexInv, XmitInv
    <3>2. cur_tx = dirty_tx <=> accepted - reported = NUM_TX_DESC
      BY <1>2, <3>1, FullOrEmpty
    <3>3. QED
      BY <1>2, <1>7, <3>1, <3>2 DEF XmitCompare, XmitInv
  <2>24. IrqInv'
    BY <1>2, <1>7 DEF XmitCompare, XmitMayRun, IrqInv, StoppedHasWork
  <2>25. QED
    BY <1>1, <2>21, <2>22, <2>23, <2>24
<1>8. CASE XmitStop
  <2>21. IndexInv'
    BY <1>8 DEF XmitStop, XmitMayRun, IndexInv
  <2>22. SlotInv'
    BY <1>8 DEF XmitStop, XmitMayRun, SlotInv
  <2>23. XmitInv'
    BY <1>2, <1>8 DEF XmitStop, XmitMayRun, XmitInv
  <2>24. IrqInv'
    BY <1>2, <1>8 DEF XmitStop, XmitMayRun, XmitInv, IrqInv, StoppedHasWork
  <2>25. QED
    BY <1>1, <2>21, <2>22, <2>23, <2>24
<1>9. CASE ChipTransmit
  <2>1. /\ Len(wire) < accepted /\ hw_tx = Slot(Len(wire)) /\ hw_tx \in Desc
        /\ reported <= Len(wire) /\ accepted - reported <= NUM_TX_DESC
    <3>1. PICK k \in Len(wire) .. accepted - 1: hw_tx = Slot(k)
      BY <1>9 DEF ChipTransmit, SlotInv, TypeOK
    <3>2. QED
      BY <1>2, <3>1 DEF IndexInv, TypeOK
  <2>2. PICK o \in Outcome:
           /\ tsd' = [tsd EXCEPT ![hw_tx] = o]
           /\ wire' = Append(wire, [pkt |-> tx_buf[hw_tx], out |-> o])
    BY <1>9 DEF ChipTransmit
  <2>3. /\ Len(wire') = Len(wire) + 1
        /\ wire'[Len(wire) + 1].out = o
        /\ \A k \in 1 .. Len(wire): wire'[k] = wire[k]
    BY <2>2 DEF TypeOK
  <2>21. IndexInv'
    <3>1. hw_tx' = Slot(Len(wire) + 1)
      BY <1>2, <1>9, <2>1, SlotNext DEF ChipTransmit
    <3>2. QED
      BY <1>2, <1>9, <2>1, <2>3, <3>1 DEF ChipTransmit, IndexInv
  <2>22. SlotInv'
    <3>1. ASSUME NEW k \in reported .. accepted - 1
          PROVE  tsd'[Slot(k)] = IF k < Len(wire') THEN wire'[k + 1].out
                                 ELSE "busy"
      <4>1. CASE k = Len(wire)
        BY <1>2, <2>1, <2>2, <2>3, <4>1 DEF TypeOK
      <4>2. CASE k # Len(wire)
        <5>1. k \in Nat /\ Slot(k) \in Desc /\ Slot(k) # hw_tx
          <6>1. /\ k \in Nat
                /\ k - Len(wire) < NUM_TX_DESC /\ Len(wire) - k < NUM_TX_DESC
            BY <1>2, <2>1, SMT
          <6>2. QED
            BY <1>2, <2>1, <4>2, <6>1, SlotsApart, DivMod
        <5>2. tsd'[Slot(k)] = tsd[Slot(k)]
          BY <2>2, <5>1 DEF TypeOK
        <5>3. tsd[Slot(k)] = IF k < Len(wire) THEN wire[k + 1].out ELSE "busy"
          BY DEF SlotInv
        <5>4. k < Len(wire) => wire'[k + 1] = wire[k + 1]
          BY <1>2, <2>3, <5>1
        <5>5. k < Len(wire) <=> k < Len(wire')
          BY <1>2, <2>3, <4>2, <5>1
        <5>6. QED
          BY <5>2, <5>3, <5>4, <5>5
      <4>3. QED
        BY <4>1, <4>2
    <3>2. ASSUME NEW d \in Desc, tsd'[d] = "busy"
          PROVE  \E k \in Len(wire') .. accepted - 1: d = Slot(k)
      <4>1. d # hw_tx /\ tsd[d] = "busy"
        BY <2>1, <2>2, <3>2 DEF TypeOK, Outcome
      <4>2. PICK k \in Len(wire) .. accepted - 1: d = Slot(k)
        BY <4>1 DEF SlotInv
      <4>3. k # Len(wire)
        BY <2>1, <4>1, <4>2
      <4>4. QED
        BY <1>2, <2>3, <4>2, <4>3
    <3>3. UNCHANGED <<tx_buf, accepted, reported, xpc, cur_tx>>
      BY <1>9 DEF ChipTransmit
    <3>4. QED
      BY <3>1, <3>2, <3>3 DEF SlotInv
  <2>23. XmitInv'
    BY <1>2, <1>9 DEF ChipTransmit, XmitInv
  <2>24. IrqInv'
    BY <1>2, <1>9 DEF ChipTransmit, IrqInv, StoppedHasWork
  <2>25. QED
    BY <1>1, <2>21, <2>22, <2>23, <2>24
<1>10. CASE ChipReceive
  <2>21. IndexInv'
    BY <1>10 DEF ChipReceive, IndexInv
  <2>22. SlotInv'
    BY <1>10 DEF ChipReceive, SlotInv
  <2>23. XmitInv'
    BY <1>2, <1>10 DEF ChipReceive, XmitInv
  <2>24. IrqInv'
    BY <1>2, <1>10 DEF ChipReceive, IrqInv, StoppedHasWork
  <2>25. QED
    BY <1>1, <2>21, <2>22, <2>23, <2>24
<1>11. CASE IrqReadIsr
  <2>21. IndexInv'
    BY <1>11 DEF IrqReadIsr, IrqMayRun, IndexInv
  <2>22. SlotInv'
    BY <1>11 DEF IrqReadIsr, IrqMayRun, SlotInv
  <2>23. XmitInv'
    BY <1>2, <1>11 DEF IrqReadIsr, IrqMayRun, XmitInv
  <2>24. IrqInv'
    BY <1>2, <1>11 DEF IrqReadIsr, IrqMayRun, IrqInv, StoppedHasWork
  <2>25. QED
    BY <1>1, <2>21, <2>22, <2>23, <2>24
<1>12. CASE IrqAck
  <2>21. IndexInv'
    BY <1>12 DEF IrqAck, IndexInv
  <2>22. SlotInv'
    BY <1>12 DEF IrqAck, SlotInv
  <2>23. XmitInv'
    BY <1>2, <1>12 DEF IrqAck, XmitInv
  <2>24. IrqInv'
    BY <1>2, <1>12 DEF IrqAck, IrqInv, StoppedHasWork
  <2>25. QED
    BY <1>1, <2>21, <2>22, <2>23, <2>24
<1>13. CASE IrqScan
  <2>21. IndexInv'
    BY <1>13 DEF IrqScan, IndexInv
  <2>22. SlotInv'
    BY <1>13 DEF IrqScan, SlotInv
  <2>23. XmitInv'
    BY <1>2, <1>13 DEF IrqScan, XmitInv
  <2>24. IrqInv'
    <3>1. /\ cur_tx = Slot(accepted) /\ dirty_tx = Slot(reported)
          /\ reported <= accepted /\ accepted - reported <= NUM_TX_DESC
      BY <1>2, <1>13 DEF IrqScan, IndexInv, XmitInv, TypeOK
    <3>2. cur_tx = dirty_tx <=> accepted - reported \in {0, NUM_TX_DESC}
      BY <1>2, <3>1, FullOrEmpty
    <3>3. QED
      BY <1>2, <1>13, <3>1, <3>2 DEF IrqScan, IrqInv, StoppedHasWork
  <2>25. QED
    BY <1>1, <2>21, <2>22, <2>23, <2>24
<1>14. CASE IrqFlag
  <2>21. IndexInv'
    BY <1>14 DEF IrqFlag, IndexInv
  <2>22. SlotInv'
    BY <1>14 DEF IrqFlag, SlotInv
  <2>23. XmitInv'
    BY <1>2, <1>14 DEF IrqFlag, XmitInv
  <2>24. IrqInv'
    BY <1>2, <1>14 DEF IrqFlag, IrqInv, StoppedHasWork
  <2>25. QED
    BY <1>1, <2>21, <2>22, <2>23, <2>24
<1>15. CASE IrqBreak
  <2>21. IndexInv'
    BY <1>15 DEF IrqBreak, IndexInv
  <2>22. SlotInv'
    BY <1>15 DEF IrqBreak, SlotInv
  <2>23. XmitInv'
    BY <1>2, <1>15 DEF IrqBreak, XmitInv
  <2>24. IrqInv'
    BY <1>2, <1>15 DEF IrqBreak, IrqInv, StoppedHasWork
  <2>25. QED
    BY <1>1, <2>21, <2>22, <2>23, <2>24
<1>16. CASE IrqReap
  <2>1. /\ reported < Len(wire) /\ dirty_tx = Slot(reported)
        /\ Len(wire) <= accepted /\ accepted - reported <= NUM_TX_DESC
    <3>1. reported \in reported .. accepted - 1
      BY <1>2, <1>16 DEF IrqReap, IrqInv, IndexInv
    <3>2. tsd[Slot(reported)] = IF reported < Len(wire) THEN wire[reported + 1].out
                                ELSE "busy"
      BY <3>1 DEF SlotInv
    <3>3. "busy" \notin Outcome
      BY DEF Outcome
    <3>4. QED
      BY <1>2, <1>16, <3>2, <3>3 DEF IrqReap, IndexInv
  <2>21. IndexInv'
    <3>1. dirty_tx' = Slot(reported + 1)
      BY <1>2, <1>16, <2>1, SlotNext DEF IrqReap
    <3>2. QED
      BY <1>2, <1>16, <2>1, <3>1 DEF IrqReap, IndexInv
  <2>22. SlotInv'
    BY <1>2, <1>16 DEF IrqReap, SlotInv
  <2>23. XmitInv'
    BY <1>2, <1>16 DEF IrqReap, XmitInv
  <2>24. IrqInv'
    BY <1>2, <1>16, <2>1 DEF IrqReap, IrqInv, StoppedHasWork
  <2>25. QED
    BY <1>1, <2>21, <2>22, <2>23, <2>24
<1>17. CASE IrqCompare
  <2>21. IndexInv'
    BY <1>17 DEF IrqCompare, IndexInv
  <2>22. SlotInv'
    BY <1>17 DEF IrqCompare, SlotInv
  <2>23. XmitInv'
    BY <1>2, <1>17 DEF IrqCompare, XmitInv
  <2>24. IrqInv'
    <3>1. /\ cur_tx = Slot(accepted) /\ dirty_tx = Slot(reported)
          /\ reported <= accepted /\ accepted - reported < NUM_TX_DESC
      BY <1>2, <1>17 DEF IrqCompare, IndexInv, XmitInv, IrqInv, TypeOK
    <3>2. cur_tx = dirty_tx <=> accepted - reported = 0
      BY <1>2, <3>1, FullOrEmpty
    <3>3. QED
      BY <1>2, <1>17, <3>1, <3>2 DEF IrqCompare, IrqInv, StoppedHasWork
  <2>25. QED
    BY <1>1, <2>21, <2>22, <2>23, <2>24
<1>18. CASE IrqWake
  <2>21. IndexInv'
    BY <1>18 DEF IrqWake, IndexInv
  <2>22. SlotInv'
    BY <1>18 DEF IrqWake, SlotInv
  <2>23. XmitInv'
    BY <1>2, <1>18 DEF IrqWake, XmitInv, IrqInv
  <2>24. IrqInv'
    <3>1. accepted - reported # 0 => accepted - reported > 0
      BY <1>2, SMT DEF IndexInv
    <3>2. /\ stopped' => accepted - reported # 0
          /\ ipc' = "scan" /\ UNCHANGED <<accepted, reported>>
      BY <1>18, Zenon DEF IrqWake, IrqInv, ghost
    <3>3. QED
      BY <3>1, <3>2 DEF IrqInv, StoppedHasWork
  <2>25. QED
    BY <1>1, <2>21, <2>22, <2>23, <2>24
<1>19. CASE UNCHANGED vars
  BY <1>1, <1>19
     DEF vars, IndexInv, SlotInv, XmitInv, IrqInv, StoppedHasWork
<1>20. QED
  BY <1>3, <1>4, <1>5, <1>6, <1>7, <1>8, <1>9, <1>10, <1>11, <1>12, <1>13,
     <1>14, <1>15, <1>16, <1>17, <1>18, <1>19
     DEF Next, Xmit, Irq

-----------------------------------------------------------------------------
(* The theorems                                                            *)

\* On one CPU, the ring invariant holds in every reachable state.
THEOREM RingCorrect ==
  ASSUME ~SMP
  PROVE  Spec => []RingInv
<1>1. Init => RingInv
  BY RingInit
<1>2. RingInv /\ [Next]_vars => RingInv'
  BY RingStep
<1>3. QED
  BY <1>1, <1>2, PTL DEF Spec

LEMMA RingSpares == RingInv => CopyTargetFree
<1> SUFFICES ASSUME RingInv, xpc = "copied"
             PROVE  Outstanding < NUM_TX_DESC /\ tsd[cur_tx] # "busy"
  BY DEF CopyTargetFree
<1>1. /\ accepted \in Nat /\ reported \in Nat /\ Len(wire) \in Nat
      /\ NUM_TX_DESC \in Nat \ {0} /\ cur_tx \in Desc
  BY DescAssumption DEF RingInv, TypeOK
<1>2. /\ Outstanding < NUM_TX_DESC /\ cur_tx = Slot(accepted)
      /\ reported <= Len(wire)
  BY DEF RingInv, XmitInv, IndexInv, Transmitted
<1>3. ASSUME tsd[cur_tx] = "busy"
      PROVE  FALSE
  <2>1. PICK k \in Len(wire) .. accepted - 1: cur_tx = Slot(k)
    BY <1>1, <1>3 DEF RingInv, SlotInv, Transmitted
  <2>2. /\ k \in Nat /\ k # accepted
        /\ k - accepted < NUM_TX_DESC /\ accepted - k < NUM_TX_DESC
    BY <1>1, <1>2, SMT DEF Outstanding
  <2>3. QED
    BY <1>1, <1>2, <2>1, <2>2, SlotsApart
<1>4. QED
  BY <1>2, <1>3

\* On one CPU, start_xmit never copies a packet into a buffer that is still
\* in use: the queue is stopped in time and never woken too early.
THEOREM NoOverwrite ==
  ASSUME ~SMP
  PROVE  Spec => []CopyTargetFree
BY RingSpares, RingCorrect, PTL

LEMMA RingFullStops == RingInv => FullRingIsStopped
BY DescAssumption
   DEF RingInv, TypeOK, XmitInv, IndexInv, FullRingIsStopped, Outstanding

\* On one CPU, a full ring has its queue stopped whenever start_xmit returns.
THEOREM FullStops ==
  ASSUME ~SMP
  PROVE  Spec => []FullRingIsStopped
BY RingFullStops, RingCorrect, PTL

\* On one CPU, a stopped queue is never left with an empty ring and no
\* handler to wake it.
THEOREM StoppedIsServed ==
  ASSUME ~SMP
  PROVE  Spec => []StoppedHasWork
<1>1. RingInv => StoppedHasWork
  BY DEF RingInv, IrqInv
<1>2. QED
  BY <1>1, RingCorrect, PTL

LEMMA PendingStep ==
  ASSUME ~SMP, RingInv, PendingInv, [Next]_vars
  PROVE  PendingInv'
<1> USE DEF PendingInv, NothingLeftBehind, driver, chip, ghost, Transmitted,
            TxBits
<1>1. CASE XmitCopy \/ XmitOversize \/ Xmit
  BY <1>1 DEF XmitCopy, XmitOversize, Xmit, XmitTrigger, XmitAdvance,
              XmitCompare, XmitStop
<1>2. CASE ChipTransmit
  <2>1. isr' \cap TxBits # {}
    BY <1>2 DEF ChipTransmit
  <2>2. QED
    BY <2>1
<1>3. CASE ChipReceive
  BY <1>3 DEF ChipReceive
<1>4. CASE IrqReadIsr
  BY <1>4 DEF IrqReadIsr
<1>5. CASE IrqAck
  BY <1>5 DEF IrqAck
<1>6. CASE IrqScan
  BY <1>6 DEF IrqScan
<1>7. CASE IrqFlag
  <2>1. ASSUME ~stopped
        PROVE  reported = Len(wire)
    <3>1. /\ Outstanding \in {0, NUM_TX_DESC} /\ Outstanding < NUM_TX_DESC
      BY <1>7, <2>1 DEF IrqFlag, RingInv, IrqInv, XmitInv, TypeOK, Locked
    <3>2. QED
      BY <3>1, DescAssumption DEF RingInv, IndexInv, TypeOK, Outstanding
  <2>2. QED
    BY <1>7, <2>1 DEF IrqFlag
<1>8. CASE IrqBreak
  <2>1. reported \in reported .. accepted - 1
    BY <1>8 DEF IrqBreak, RingInv, IrqInv, TypeOK, Outstanding
  <2>2. tsd[dirty_tx] = IF reported < Len(wire) THEN wire[reported + 1].out
                        ELSE "busy"
    BY <2>1 DEF RingInv, SlotInv, IndexInv
  <2>3. reported < Len(wire) => wire[reported + 1].out \in Outcome
    <3>1. wire \in Seq([pkt: Nat, out: Outcome]) /\ reported \in Nat
      BY DEF RingInv, TypeOK
    <3>2. ASSUME reported < Len(wire)
          PROVE  wire[reported + 1] \in [pkt: Nat, out: Outcome]
      <4>1. reported + 1 \in 1 .. Len(wire)
        BY <3>1, <3>2
      <4>2. QED
        BY <3>1, <4>1, ElementOfSeq, Zenon
    <3>3. ASSUME NEW w \in [pkt: Nat, out: Outcome]
          PROVE  w.out \in Outcome
      OBVIOUS
    <3>4. QED
      BY <3>2, <3>3
  <2>4. reported = Len(wire)
    BY <1>8, <2>2, <2>3 DEF IrqBreak, RingInv, IndexInv, TypeOK
  <2>5. QED
    BY <1>8, <2>4 DEF IrqBreak
<1>9. CASE IrqReap
  BY <1>9 DEF IrqReap
<1>10. CASE IrqCompare
  BY <1>10 DEF IrqCompare
<1>11. CASE IrqWake
  BY <1>11 DEF IrqWake
<1>12. CASE UNCHANGED vars
  BY <1>12 DEF vars
<1>13. QED
  BY <1>1, <1>2, <1>3, <1>4, <1>5, <1>6, <1>7, <1>8, <1>9, <1>10, <1>11, <1>12
     DEF Next, Irq

\* On one CPU clearing ISR ahead of the loop loses no completion but one whose
\* interrupt came between the read and the clearing of a handler that was
\* entered for something else: when the handler is done and no transmit
\* interrupt is pending, everything else the chip transmitted has been reported.
THEOREM NoLostCompletion ==
  ASSUME ~SMP
  PROVE  Spec => []NothingLeftBehind
<1>1. Init => RingInv /\ PendingInv
  BY RingInit DEF Init, PendingInv, NothingLeftBehind, Transmitted
<1>2. RingInv /\ PendingInv /\ [Next]_vars => (RingInv /\ PendingInv)'
  BY RingStep, PendingStep
<1>3. RingInv /\ PendingInv => NothingLeftBehind
  BY DEF PendingInv
<1>4. QED
  BY <1>1, <1>2, <1>3, PTL DEF Spec

LEMMA RefineInit == Init => Ring!Init
BY DEF Init, Ring!Init

LEMMA RefineStep ==
  ASSUME RingInv, RingInv', ~SMP, [Next]_vars
  PROVE  [Ring!Next]_(Ring!vars)
<1> USE DEF driver, chip, ghost, Ring!vars
<1>1. /\ accepted \in Nat /\ reported \in Nat /\ Len(wire) \in Nat
      /\ accepted' \in Nat /\ reported' \in Nat
      /\ NUM_TX_DESC \in Nat \ {0}
  BY DescAssumption DEF RingInv, TypeOK
<1>2. CASE XmitTrigger
  <2>1. accepted - reported < NUM_TX_DESC
    BY <1>2 DEF XmitTrigger, RingInv, XmitInv, Outstanding
  <2>2. Ring!Accept
    BY <1>2, <2>1 DEF XmitTrigger, Ring!Accept
  <2>3. QED
    BY <2>2 DEF Ring!Next
<1>3. CASE ChipTransmit
  <2>1. /\ Len(wire) < accepted /\ tx_buf[hw_tx] = Len(wire)
    <3>1. PICK k \in Len(wire) .. accepted - 1: hw_tx = Slot(k)
      BY <1>3 DEF ChipTransmit, RingInv, SlotInv, TypeOK, Transmitted
    <3>2. /\ Len(wire) \in reported .. accepted - 1
          /\ hw_tx = Slot(Len(wire))
      BY <1>1, <3>1 DEF RingInv, IndexInv, Transmitted
    <3>3. QED
      BY <1>1, <3>2 DEF RingInv, SlotInv
  <2>2. PICK o \in Outcome:
           wire' = Append(wire, [pkt |-> tx_buf[hw_tx], out |-> o])
    BY <1>3 DEF ChipTransmit
  <2>3. Ring!Transmit
    BY <1>3, <2>1, <2>2 DEF ChipTransmit, Ring!Transmit, Ring!Outcome, Outcome
  <2>4. QED
    BY <2>3 DEF Ring!Next
<1>4. CASE IrqReap
  <2>1. /\ reported < Len(wire)
        /\ tsd[dirty_tx] = wire[reported + 1].out
    <3>1. reported \in reported .. accepted - 1
      BY <1>1, <1>4 DEF IrqReap, RingInv, IrqInv, Outstanding
    <3>2. tsd[dirty_tx] = IF reported < Len(wire) THEN wire[reported + 1].out
                          ELSE "busy"
      BY <3>1 DEF RingInv, SlotInv, IndexInv, Transmitted
    <3>3. "busy" \notin Outcome
      BY DEF Outcome
    <3>4. QED
      BY <1>4, <3>2, <3>3 DEF IrqReap
  <2>2. Ring!Report
    BY <1>4, <2>1 DEF IrqReap, Ring!Report
  <2>3. QED
    BY <2>2 DEF Ring!Next
<1>5. CASE XmitCopy \/ XmitOversize \/ XmitAdvance \/ XmitCompare \/ XmitStop
  BY <1>5 DEF XmitCopy, XmitOversize, XmitAdvance, XmitCompare, XmitStop
<1>6. CASE ChipReceive
  BY <1>6 DEF ChipReceive
<1>7. CASE IrqReadIsr \/ IrqAck \/ IrqScan \/ IrqFlag \/ IrqBreak
  BY <1>7 DEF IrqReadIsr, IrqAck, IrqScan, IrqFlag, IrqBreak
<1>8. CASE IrqCompare \/ IrqWake
  BY <1>8 DEF IrqCompare, IrqWake
<1>9. CASE UNCHANGED vars
  BY <1>9 DEF vars
<1>10. QED
  BY <1>2, <1>3, <1>4, <1>5, <1>6, <1>7, <1>8, <1>9 DEF Next, Xmit, Irq

\* On one CPU, the driver implements the bounded FIFO of TxRing: packets go
\* to the wire once each, unharmed and in order, and are counted as such.
THEOREM Refinement ==
  ASSUME ~SMP
  PROVE  Spec => RefinesTxRing
<1>1. Init => Ring!Init
  BY RefineInit
<1>2. RingInv /\ RingInv' /\ [Next]_vars => [Ring!Next]_(Ring!vars)
  BY RefineStep
<1>3. QED
  BY <1>1, <1>2, RingCorrect, PTL DEF Spec, RefinesTxRing, Ring!Spec

-----------------------------------------------------------------------------
(* The interface that is closed and opened again                           *)

LEMMA Counts ==
  ASSUME TypeOK
  PROVE  /\ accepted \in Nat /\ reported \in Nat /\ Len(wire) \in Nat
         /\ cur_tx \in Desc /\ dirty_tx \in Desc /\ hw_tx \in Desc
         /\ NUM_TX_DESC \in Nat /\ NUM_TX_DESC > 0
         /\ Desc = 0 .. NUM_TX_DESC - 1
BY DescAssumption, SMT DEF TypeOK, Desc

\* The first packets of an opening sit in the descriptors of their number.
LEMMA SlotOfFirst ==
  ASSUME NEW k \in Nat, k < NUM_TX_DESC
  PROVE  Slot(k) = k
BY DescAssumption, SMT DEF Slot

LEMMA SkewXmit ==
  ASSUME TypeOK, SkewInv, XmitCopy \/ Xmit
  PROVE  SkewInv'
<1> USE DEF driver, chip, ghost, Transmitted
<1>1. /\ accepted \in Nat /\ Len(wire) \in Nat /\ NUM_TX_DESC \in Nat
      /\ cur_tx \in Desc /\ dirty_tx \in Desc /\ Desc = 0 .. NUM_TX_DESC - 1
  BY Counts
<1>2. CASE XmitCopy
  <2>1. cur_tx = accepted /\ cur_tx % NUM_TX_DESC = cur_tx
    BY <1>1, <1>2, SlotOfDesc DEF XmitCopy, XmitBegins, SkewInv
  <2>2. /\ tx_buf' = [tx_buf EXCEPT ![cur_tx] = accepted] /\ xpc' = "copied"
        /\ UNCHANGED <<accepted, reported, wire, dirty_tx, cur_tx, hw_tx, tsd, stopped, ipc>>
        /\ xpc = "idle" /\ ~stopped
    BY <1>2, <2>1, Zenon DEF XmitCopy, XmitBegins
  <2>3. tx_buf'[cur_tx] = accepted
    BY <1>1, <2>2 DEF TypeOK
  <2>4. ASSUME NEW k \in Len(wire) .. accepted - 1 PROVE tx_buf'[k] = k
    <3>1. k # cur_tx /\ k \in Desc /\ tx_buf[k] = k
      BY <1>1, <2>1, SMT DEF SkewInv
    <3>2. QED
      BY <2>2, <3>1 DEF TypeOK
  <2>5. QED
    BY <2>2, <2>3, <2>4, Zenon DEF SkewInv
<1>3. CASE XmitTrigger
  <2>1. cur_tx = accepted /\ cur_tx % NUM_TX_DESC = cur_tx /\ accepted < dirty_tx
    BY <1>1, <1>3, SlotOfDesc DEF XmitTrigger, SkewInv
  <2>2. /\ tsd' = [tsd EXCEPT ![cur_tx] = "busy"] /\ xpc' = "triggered"
        /\ accepted' = accepted + 1
        /\ UNCHANGED <<reported, wire, dirty_tx, cur_tx, hw_tx, tx_buf, stopped, ipc>>
        /\ xpc = "copied"
    BY <1>3, <2>1, Zenon DEF XmitTrigger
  <2>3. /\ Len(wire) <= accepted + 1 /\ accepted + 1 <= dirty_tx
        /\ accepted + 1 > 0 /\ cur_tx = (accepted + 1) - 1
    BY <1>1, <2>1, SMT DEF SkewInv
  <2>4. ASSUME NEW d \in Desc
        PROVE  /\ d >= accepted + 1 => tsd'[d] = "reset"
               /\ tsd'[d] = "busy" => Len(wire) <= d
    <3>1. CASE d = cur_tx
      BY <1>1, <2>1, <3>1, SMT DEF SkewInv
    <3>2. CASE d # cur_tx
      <4>1. tsd'[d] = tsd[d]
        BY <2>2, <3>2 DEF TypeOK
      <4>2. d >= accepted + 1 => d >= accepted
        BY <1>1, SMT
      <4>3. QED
        BY <4>1, <4>2 DEF SkewInv
    <3>3. QED
      BY <3>1, <3>2
  <2>5. ASSUME NEW k \in Len(wire) .. (accepted + 1) - 1 PROVE tx_buf[k] = k
    <3>1. k = cur_tx \/ k \in Len(wire) .. accepted - 1
      BY <1>1, <2>1, SMT
    <3>2. QED
      BY <2>1, <2>2, <3>1 DEF SkewInv
  <2>6. QED
    BY <2>2, <2>3, <2>4, <2>5, Zenon DEF SkewInv
<1>4. CASE XmitAdvance
  <2>1. cur_tx' = accepted
    BY <1>1, <1>4, SMT DEF XmitAdvance, SkewInv
  <2>2. /\ xpc' = "advanced" /\ xpc = "triggered"
        /\ UNCHANGED <<accepted, reported, wire, dirty_tx, hw_tx, tx_buf, tsd, stopped, ipc>>
    BY <1>4, Zenon DEF XmitAdvance
  <2>3. QED
    BY <2>1, <2>2, Zenon DEF SkewInv
<1>5. CASE XmitCompare
  <2>1. /\ UNCHANGED <<accepted, reported, wire, dirty_tx, cur_tx, hw_tx, tx_buf, tsd,
                       stopped, ipc>>
        /\ xpc = "advanced" /\ xpc' = IF cur_tx = dirty_tx THEN "full" ELSE "idle"
    BY <1>5, Zenon DEF XmitCompare
  <2>2. cur_tx = accepted /\ accepted <= dirty_tx
    BY <2>1 DEF SkewInv
  <2>3. cur_tx # dirty_tx => accepted < dirty_tx
    BY <1>1, <2>2, SMT
  <2>4. QED
    BY <2>1, <2>2, <2>3, Zenon DEF SkewInv
<1>6. CASE XmitStop
  BY <1>6, Zenon DEF XmitStop, SkewInv
<1>7. QED
  BY <1>2, <1>3, <1>4, <1>5, <1>6 DEF Xmit

LEMMA SkewChip ==
  ASSUME TypeOK, SkewInv, ChipTransmit \/ ChipReceive
  PROVE  SkewInv'
<1> USE DEF driver, chip, ghost, Transmitted
<1>1. /\ accepted \in Nat /\ Len(wire) \in Nat /\ NUM_TX_DESC \in Nat
      /\ hw_tx \in Desc /\ dirty_tx \in Desc /\ Desc = 0 .. NUM_TX_DESC - 1
  BY Counts
<1>2. CASE ChipReceive
  BY <1>2, Zenon DEF ChipReceive, SkewInv
<1>3. CASE ChipTransmit
  <2>1. PICK o \in Outcome: /\ tsd' = [tsd EXCEPT ![hw_tx] = o]
                            /\ wire' = Append(wire, [pkt |-> tx_buf[hw_tx], out |-> o])
    BY <1>3, Zenon DEF ChipTransmit
  <2>2. /\ hw_tx' = (hw_tx + 1) % NUM_TX_DESC /\ tsd[hw_tx] = "busy"
        /\ UNCHANGED <<accepted, reported, dirty_tx, cur_tx, tx_buf, stopped, xpc, ipc>>
    BY <1>3, Zenon DEF ChipTransmit
  <2>3. hw_tx = Len(wire) /\ accepted <= dirty_tx
    BY DEF SkewInv
  <2>4. hw_tx < accepted
    <3>1. hw_tx >= accepted => tsd[hw_tx] = "reset"
      BY <1>1 DEF SkewInv
    <3>2. QED
      BY <1>1, <2>2, <3>1, SMT
  <2>5. Len(wire') = Len(wire) + 1
    BY <2>1, SMT DEF TypeOK
  <2>6. hw_tx' = Len(wire') /\ Len(wire') <= accepted
    BY <1>1, <2>2, <2>3, <2>4, <2>5, SMT
  <2>7. ASSUME NEW d \in Desc
        PROVE  /\ d >= accepted => tsd'[d] = "reset"
               /\ tsd'[d] = "busy" => Len(wire') <= d
    <3>1. CASE d = hw_tx
      <4>1. tsd'[d] = o /\ o # "busy"
        BY <1>1, <2>1, <3>1 DEF TypeOK, Outcome
      <4>2. QED
        BY <1>1, <2>4, <3>1, <4>1, SMT
    <3>2. CASE d # hw_tx
      <4>1. tsd'[d] = tsd[d]
        BY <2>1, <3>2 DEF TypeOK
      <4>2. Len(wire) <= d => Len(wire') <= d
        BY <1>1, <2>3, <2>5, <3>2, SMT
      <4>3. QED
        BY <4>1, <4>2 DEF SkewInv
    <3>3. QED
      BY <3>1, <3>2
  <2>8. ASSUME NEW k \in Len(wire') .. accepted - 1 PROVE tx_buf[k] = k
    <3>1. k \in Len(wire) .. accepted - 1
      BY <1>1, <2>5, SMT
    <3>2. QED
      BY <3>1 DEF SkewInv
  <2>9. QED
    BY <2>2, <2>6, <2>7, <2>8, Zenon DEF SkewInv
<1>4. QED
  BY <1>2, <1>3

\* The handler finds nothing to reclaim, whether the queue is stopped or not.
LEMMA SkewIrq ==
  ASSUME TypeOK, SkewInv, Irq
  PROVE  SkewInv' /\ ~IrqReap
<1> USE DEF driver, chip, ghost, Transmitted
<1>1. tsd[dirty_tx] = "reset"
  <2>1. dirty_tx \in Desc /\ dirty_tx >= accepted
    BY Counts, SMT DEF SkewInv
  <2>2. QED
    BY <2>1 DEF SkewInv
<1>2. ~IrqReap /\ ~IrqCompare /\ ~IrqWake
  BY <1>1 DEF IrqReap, IrqCompare, IrqWake, Outcome, SkewInv
<1>3. CASE IrqReadIsr \/ IrqAck \/ IrqScan \/ IrqFlag \/ IrqBreak
  <2>1. /\ UNCHANGED <<accepted, reported, wire, dirty_tx, cur_tx, hw_tx, tx_buf, tsd,
                       stopped, xpc>>
        /\ ipc' \notin {"compare", "wake"}
    BY <1>3, Zenon DEF IrqReadIsr, IrqAck, IrqScan, IrqFlag, IrqBreak
  <2>2. QED
    BY <1>2, <2>1, Zenon DEF SkewInv
<1>4. QED
  BY <1>2, <1>3 DEF Irq

\* Both ways to be up agree on what the chip has still to send.
LEMMA UpSends ==
  ASSUME TypeOK, RingInv \/ SkewInv
  PROVE  ChipInv
<1> USE DEF Transmitted
<1>1. /\ accepted \in Nat /\ reported \in Nat /\ Len(wire) \in Nat /\ NUM_TX_DESC \in Nat
      /\ hw_tx \in Desc /\ dirty_tx \in Desc /\ Desc = 0 .. NUM_TX_DESC - 1
  BY Counts
<1>2. CASE RingInv
  <2>1. /\ reported <= Len(wire) /\ Len(wire) <= accepted
        /\ accepted - reported <= NUM_TX_DESC /\ hw_tx = Slot(Len(wire))
    BY <1>2 DEF RingInv, IndexInv, Outstanding
  <2>2. accepted - Len(wire) <= NUM_TX_DESC
    BY <1>1, <2>1, SMT
  <2>3. \A k \in Len(wire) .. accepted - 1: k \in reported .. accepted - 1
    BY <1>1, <2>1, SMT
  <2>4. QED
    BY <1>2, <2>1, <2>2, <2>3, Zenon DEF RingInv, SlotInv, ChipInv
<1>3. CASE SkewInv
  <2>1. /\ Len(wire) <= accepted /\ accepted < NUM_TX_DESC /\ hw_tx = Len(wire)
        /\ accepted - Len(wire) <= NUM_TX_DESC
    BY <1>1, <1>3, SMT DEF SkewInv
  <2>2. Slot(Len(wire)) = Len(wire)
    BY <1>1, <2>1, SlotOfFirst, SMT
  <2>3. ASSUME NEW k \in Len(wire) .. accepted - 1 PROVE tx_buf[Slot(k)] = k
    <3>1. Slot(k) = k
      BY <1>1, <2>1, SlotOfFirst, SMT
    <3>2. QED
      BY <1>3, <3>1 DEF SkewInv
  <2>4. ASSUME NEW d \in Desc, tsd[d] = "busy"
        PROVE  \E k \in Len(wire) .. accepted - 1: d = Slot(k)
    <3>1. Len(wire) <= d /\ ~(d >= accepted)
      BY <1>3, <2>4 DEF SkewInv
    <3>2. d \in Len(wire) .. accepted - 1 /\ Slot(d) = d
      BY <1>1, <3>1, SlotOfFirst, SMT
    <3>3. QED
      BY <3>2
  <2>5. QED
    BY <2>1, <2>2, <2>3, <2>4, Zenon DEF ChipInv
<1>4. QED
  BY <1>2, <1>3

\* The chip sends the packet that is next.
LEMMA SendsNext ==
  ASSUME TypeOK, ChipInv, ChipTransmit
  PROVE  /\ Len(wire) < accepted
         /\ tx_buf[hw_tx] = Len(wire)
<1> USE DEF Transmitted
<1>1. /\ accepted \in Nat /\ Len(wire) \in Nat /\ NUM_TX_DESC \in Nat /\ NUM_TX_DESC > 0
      /\ hw_tx \in Desc
  BY Counts
<1>2. tsd[hw_tx] = "busy"
  BY DEF ChipTransmit
<1>3. PICK k \in Len(wire) .. accepted - 1: hw_tx = Slot(k)
  BY <1>1, <1>2 DEF ChipInv
<1>4. /\ k \in Nat /\ Len(wire) <= k /\ k < accepted /\ k - Len(wire) < NUM_TX_DESC
      /\ Slot(Len(wire)) = Slot(k)
  BY <1>1, <1>3, SMT DEF ChipInv
<1>5. k = Len(wire) \/ k - Len(wire) = NUM_TX_DESC
  BY <1>1, <1>4, SlotInjective, SMT
<1>6. k = Len(wire)
  BY <1>1, <1>4, <1>5, SMT
<1>7. QED
  BY <1>3, <1>4, <1>6 DEF ChipInv

LEMMA ChipKeeps ==
  ASSUME TypeOK, ChipInv, ChipTransmit \/ ChipReceive \/ Irq
  PROVE  ChipInv'
<1> USE DEF driver, chip, ghost, Transmitted
<1>1. CASE ChipReceive \/ Irq
  <2>1. UNCHANGED <<accepted, wire, hw_tx, tx_buf, tsd>>
    BY <1>1, Zenon DEF ChipReceive, Irq, IrqReadIsr, IrqAck, IrqScan, IrqFlag, IrqBreak,
                       IrqReap, IrqCompare, IrqWake
  <2>2. QED
    BY <2>1, Zenon DEF ChipInv
<1>2. CASE ChipTransmit
  <2>1. /\ accepted \in Nat /\ Len(wire) \in Nat /\ NUM_TX_DESC \in Nat
        /\ hw_tx \in Desc
    BY Counts
  <2>2. PICK o \in Outcome: /\ tsd' = [tsd EXCEPT ![hw_tx] = o]
                            /\ wire' = Append(wire, [pkt |-> tx_buf[hw_tx], out |-> o])
    BY <1>2, Zenon DEF ChipTransmit
  <2>3. /\ hw_tx' = (hw_tx + 1) % NUM_TX_DESC
        /\ UNCHANGED <<accepted, tx_buf>>
    BY <1>2, Zenon DEF ChipTransmit
  <2>4. Len(wire') = Len(wire) + 1
    BY <2>2, SMT DEF TypeOK
  <2>5. Len(wire) < accepted
    BY <1>2, SendsNext
  <2>6. /\ Len(wire') <= accepted /\ accepted - Len(wire') <= NUM_TX_DESC
    BY <2>1, <2>4, <2>5, SMT DEF ChipInv
  <2>7. hw_tx' = Slot(Len(wire'))
    BY <2>1, <2>3, <2>4, SlotNext DEF ChipInv
  <2>8. ASSUME NEW k \in Len(wire') .. accepted - 1 PROVE k \in Len(wire) .. accepted - 1
    BY <2>1, <2>4, SMT
  <2>9. ASSUME NEW d \in Desc, tsd'[d] = "busy"
        PROVE  \E k \in Len(wire') .. accepted - 1: d = Slot(k)
    <3>1. d # hw_tx /\ tsd[d] = "busy"
      BY <2>2, <2>9 DEF TypeOK, Outcome
    <3>2. PICK k \in Len(wire) .. accepted - 1: d = Slot(k)
      BY <3>1 DEF ChipInv
    <3>3. k # Len(wire)
      BY <3>1, <3>2 DEF ChipInv
    <3>4. k \in Len(wire') .. accepted - 1
      BY <2>1, <2>4, <3>3, SMT
    <3>5. QED
      BY <3>2, <3>4
  <2>10. QED
    BY <2>3, <2>6, <2>7, <2>8, <2>9, Zenon DEF ChipInv
<1>3. QED
  BY <1>1, <1>2

\* Only start_xmit, the chip and the handler touch the ring of an interface
\* that is up, and what was true of the ring stays true.
LEMMA UpKeeps ==
  ASSUME ~SMP, TypeOK, RingInv \/ SkewInv, UpXmit \/ UpChip \/ UpIrq
  PROVE  RingInv' \/ SkewInv'
<1>1. /\ Next
      /\ XmitCopy \/ Xmit \/ ChipTransmit \/ ChipReceive \/ Irq
  BY DEF UpXmit, UpChip, UpIrq, Next
<1>2. CASE RingInv
  BY <1>1, <1>2, RingStep
<1>3. CASE SkewInv
  BY <1>1, <1>3, SkewXmit, SkewChip, SkewIrq
<1>4. QED
  BY <1>2, <1>3

\* Until the queue is started there is nothing to send and nothing to reclaim.
LEMMA FreshKeeps ==
  ASSUME TypeOK, FreshInv, xpc = "idle", ChipTransmit \/ ChipReceive \/ Irq
  PROVE  FreshInv' /\ UNCHANGED cur_tx
<1> USE DEF driver, chip, ghost
<1>1. tsd[hw_tx] = "reset" /\ tsd[dirty_tx] = "reset"
  BY Counts DEF FreshInv
<1>2. ~ChipTransmit /\ ~IrqReap /\ ~IrqCompare /\ ~IrqWake
  BY <1>1 DEF ChipTransmit, IrqReap, IrqCompare, IrqWake, Outcome, FreshInv
<1>3. CASE ChipReceive
  BY <1>3, Zenon DEF ChipReceive, FreshInv
<1>4. CASE IrqReadIsr \/ IrqAck \/ IrqScan \/ IrqFlag \/ IrqBreak
  <2>1. /\ UNCHANGED <<accepted, reported, wire, hw_tx, tsd, cur_tx>>
        /\ ipc' \notin {"compare", "wake"}
    BY <1>4, Zenon DEF IrqReadIsr, IrqAck, IrqScan, IrqFlag, IrqBreak
  <2>2. QED
    BY <2>1, Zenon DEF FreshInv
<1>5. QED
  BY <1>2, <1>3, <1>4 DEF Irq

\* The queue is started over an empty ring, or over indices that differ.
LEMMA StartIsUp ==
  ASSUME ~SMP, TypeOK, TypeOK', FreshInv, cur_tx = 0, xpc = "idle", OpenStart
  PROVE  RingInv' \/ SkewInv'
<1> USE DEF driver, chip, ghost, Transmitted
<1>1. /\ UNCHANGED <<cur_tx, dirty_tx, tx_buf, tsd, hw_tx, xpc, ipc, drained, accepted,
                     reported, wire>>
      /\ stopped' = FALSE /\ ipc = "idle"
  BY Zenon DEF OpenStart, XmitMayRun
<1>2. /\ NUM_TX_DESC \in Nat /\ NUM_TX_DESC > 0 /\ dirty_tx \in Desc
      /\ Desc = 0 .. NUM_TX_DESC - 1
  BY Counts
<1>3. Len(wire) = 0
  BY SMT DEF FreshInv
<1>4. CASE dirty_tx = 0
  <2>1. Slot(0) = 0
    BY <1>2, SlotOfFirst, SMT
  <2>2. IndexInv'
    BY <1>1, <1>2, <1>3, <1>4, <2>1, SMT DEF FreshInv, IndexInv, Outstanding, Slot
  <2>3. SlotInv'
    <3>1. \A d \in Desc: tsd'[d] # "busy"
      BY <1>1 DEF FreshInv
    <3>2. \A k \in reported' .. accepted' - 1: FALSE
      BY <1>1, SMT DEF FreshInv
    <3>3. QED
      BY <1>1, <3>1, <3>2, Zenon DEF SlotInv
  <2>4. XmitInv' /\ IrqInv'
    BY <1>1, <1>2, SMT DEF FreshInv, XmitInv, IrqInv, StoppedHasWork, Outstanding, Locked
  <2>5. QED
    BY <2>2, <2>3, <2>4 DEF RingInv
<1>5. CASE dirty_tx # 0
  <2>1. /\ accepted = 0 /\ reported = 0 /\ hw_tx = 0 /\ \A d \in Desc: tsd[d] = "reset"
    BY DEF FreshInv
  <2>2. 0 < dirty_tx /\ \A k \in 0 .. 0 - 1: FALSE
    BY <1>2, <1>5, SMT
  <2>3. ~(0 > 0) /\ 0 <= 0 /\ 0 <= dirty_tx
    BY <1>2, SMT
  <2>4. QED
    BY <1>1, <1>3, <1>5, <2>1, <2>2, <2>3, Zenon DEF SkewInv
<1>6. QED
  BY <1>4, <1>5

\* Open and stop keep the types of what they set.
LEMMA LifeKeepsTypes ==
  ASSUME TypeOK, LifeTypeOK, [LifeNext]_lives
  PROVE  TypeOK' /\ LifeTypeOK'
<1> USE BoundAssumption, OpensAssumption DEF driver, chip, ghost, life
<1>1. CASE UpXmit \/ UpChip \/ UpIrq
  <2>1. Next /\ UNCHANGED life
    BY <1>1 DEF UpXmit, UpChip, UpIrq, Next
  <2>2. TypeOK'
    BY <2>1, TypeStep
  <2>3. disturbed' \in BOOLEAN
    BY <1>1, Zenon DEF UpXmit, UpChip, UpIrq, LifeTypeOK
  <2>4. QED
    BY <2>1, <2>2, <2>3, Zenon DEF LifeTypeOK
<1>2. CASE UNCHANGED lives
  <2>1. UNCHANGED vars /\ UNCHANGED <<life, disturbed>>
    BY <1>2 DEF lives
  <2>2. TypeOK'
    BY <2>1, TypeStep
  <2>3. QED
    BY <2>1, <2>2, Zenon DEF LifeTypeOK
<1>3. 0 \in Desc
  BY DescAssumption, SMT DEF Desc
<1>4. CASE OpenRequest
  <2>1. tx_buf' \in [Desc -> Nat]
    BY <1>4 DEF OpenRequest, NoPkt
  <2>2. opens' \in 0 .. MaxOpens
    BY <1>4, SMT DEF OpenRequest, LifeTypeOK
  <2>3. QED
    BY <1>4, <2>1, <2>2, Zenon DEF OpenRequest, TypeOK, LifeTypeOK
<1>5. CASE OpenDirty
  BY <1>3, <1>5, Zenon DEF OpenDirty, TypeOK, LifeTypeOK
<1>6. CASE OpenCur
  BY <1>3, <1>6, Zenon DEF OpenCur, TypeOK, LifeTypeOK
<1>7. CASE OpenReset
  <2>1. /\ tsd' \in [Desc -> Outcome \cup {"reset", "busy"}]
        /\ isr' \subseteq IsrBits
        /\ wire' \in Seq([pkt: Nat, out: Outcome])
        /\ accepted' \in Nat /\ reported' \in Nat
    BY <1>7 DEF OpenReset
  <2>2. QED
    BY <1>3, <1>7, <2>1, Zenon DEF OpenReset, TypeOK, LifeTypeOK
<1>8. CASE OpenUnmask
  BY <1>8, Zenon DEF OpenUnmask, TypeOK, LifeTypeOK, vars
<1>9. CASE OpenStart
  BY <1>9, Zenon DEF OpenStart, TypeOK, LifeTypeOK
<1>10. CASE StopQueue
  BY <1>10, Zenon DEF StopQueue, TypeOK, LifeTypeOK
<1>11. CASE StopChip \/ StopFree
  BY <1>11, Zenon DEF StopChip, StopFree, TypeOK, LifeTypeOK, vars
<1>12. QED
  BY <1>1, <1>2, <1>4, <1>5, <1>6, <1>7, <1>8, <1>9, <1>10, <1>11
     DEF LifeNext, Open, Stop

LEMMA OpenAndStop ==
  ASSUME ~SMP, TypeOK, TypeOK', PhaseInv, Open \/ Stop
  PROVE  PhaseInv'
<1> USE DEF driver, chip, ghost
<1>1. CASE OpenRequest
  BY <1>1, Zenon DEF OpenRequest, PhaseInv
<1>2. CASE OpenDirty
  BY <1>2, Zenon DEF OpenDirty, PhaseInv
<1>3. CASE OpenCur
  BY <1>3, Zenon DEF OpenCur, PhaseInv
<1>4. CASE OpenReset
  <2>1. FreshInv'
    BY <1>4 DEF OpenReset, XmitMayRun, FreshInv
  <2>2. QED
    BY <1>4, <2>1, Zenon DEF OpenReset, PhaseInv
<1>5. CASE OpenUnmask
  <2>1. FreshInv'
    BY <1>5, Zenon DEF OpenUnmask, PhaseInv, FreshInv, vars
  <2>2. QED
    BY <1>5, <2>1, Zenon DEF OpenUnmask, PhaseInv, vars
<1>6. CASE OpenStart
  <2>1. FreshInv /\ cur_tx = 0 /\ xpc = "idle"
    BY <1>6, Zenon DEF OpenStart, PhaseInv
  <2>2. RingInv' \/ SkewInv'
    BY <1>6, <2>1, StartIsUp
  <2>3. QED
    BY <1>6, <2>2, Zenon DEF OpenStart, PhaseInv
<1>7. CASE StopQueue
  <2>1. ChipInv
    BY <1>7, UpSends DEF StopQueue, PhaseInv
  <2>2. ChipInv'
    BY <1>7, <2>1, Zenon DEF StopQueue, ChipInv, Transmitted
  <2>3. QED
    BY <1>7, <2>2, Zenon DEF StopQueue, PhaseInv
<1>8. CASE StopChip
  BY <1>8, Zenon DEF StopChip, PhaseInv, vars
<1>9. CASE StopFree
  BY <1>9, Zenon DEF StopFree, PhaseInv, vars
<1>10. QED
  BY <1>1, <1>2, <1>3, <1>4, <1>5, <1>6, <1>7, <1>8, <1>9 DEF Open, Stop

LEMMA UpSteps ==
  ASSUME ~SMP, TypeOK, PhaseInv, UpXmit \/ UpChip \/ UpIrq
  PROVE  PhaseInv'
<1> USE DEF life
<1>1. UNCHANGED <<npc, chip_on>>
  BY Zenon DEF UpXmit, UpChip, UpIrq
<1>2. CASE npc = "up"
  <2>1. RingInv' \/ SkewInv'
    BY <1>2, UpKeeps DEF PhaseInv
  <2>2. QED
    BY <1>1, <1>2, <2>1, Zenon DEF PhaseInv
<1>3. CASE npc # "up"
  <2>1. ChipTransmit \/ ChipReceive \/ Irq
    BY <1>3, Zenon DEF UpXmit, UpChip, UpIrq
  <2>2. xpc = "idle" /\ UNCHANGED <<xpc, cur_tx>>
    BY <1>3, <2>1, Zenon DEF PhaseInv, ChipTransmit, ChipReceive, Irq, IrqReadIsr,
       IrqAck, IrqScan, IrqFlag, IrqBreak, IrqReap, IrqCompare, IrqWake, driver
  <2>3. npc = "stopping" => ChipInv'
    BY <2>1, ChipKeeps DEF PhaseInv
  <2>4. npc \in {"reset", "unmasked"} => FreshInv'
    BY <2>1, <2>2, FreshKeeps DEF PhaseInv
  <2>5. QED
    BY <1>1, <1>3, <2>2, <2>3, <2>4, Zenon DEF PhaseInv
<1>4. QED
  BY <1>2, <1>3

\* The chip appends the packet that is next, whether the interface is up or
\* about to be closed.
LEMMA WireStep ==
  ASSUME TypeOK, PhaseInv, WireInOrder, [LifeNext]_lives
  PROVE  WireInOrder'
<1> USE DEF driver, chip, ghost
<1>1. CASE UpChip /\ ChipTransmit
  <2>1. tsd[hw_tx] = "busy" /\ npc \in {"reset", "unmasked", "up", "stopping"}
    BY <1>1 DEF UpChip, ChipTransmit, PhaseInv
  <2>2. ~FreshInv
    BY <2>1, Counts DEF FreshInv
  <2>3. ChipInv
    BY <2>1, <2>2, UpSends DEF PhaseInv
  <2>4. tx_buf[hw_tx] = Len(wire) /\ Len(wire) \in Nat
    BY <1>1, <2>3, SendsNext, Counts
  <2>5. PICK o \in Outcome: wire' = Append(wire, [pkt |-> Len(wire), out |-> o])
    BY <1>1, <2>4 DEF ChipTransmit
  <2>6. wire \in Seq([pkt: Nat, out: Outcome])
    BY DEF TypeOK
  <2>7. /\ Len(wire') = Len(wire) + 1
        /\ wire'[Len(wire) + 1].pkt = Len(wire)
        /\ \A i \in 1 .. Len(wire): wire'[i] = wire[i]
        /\ DOMAIN wire = 1 .. Len(wire) /\ DOMAIN wire' = 1 .. Len(wire')
    BY <2>4, <2>5, <2>6, SMT
  <2>8. ASSUME NEW i \in 1 .. Len(wire')
        PROVE  wire'[i].pkt = i - 1
    <3>1. i \in 1 .. Len(wire) \/ i = Len(wire) + 1
      BY <2>4, <2>7, SMT
    <3>2. CASE i \in 1 .. Len(wire)
      BY <2>7, <3>2 DEF WireInOrder
    <3>3. CASE i = Len(wire) + 1
      BY <2>4, <2>7, <3>3, SMT
    <3>4. QED
      BY <3>1, <3>2, <3>3
  <2>9. QED
    BY <2>7, <2>8, Zenon DEF WireInOrder
<1>2. CASE OpenReset
  BY <1>2 DEF OpenReset, WireInOrder
<1>3. UNCHANGED wire => WireInOrder'
  BY Zenon DEF WireInOrder
<1>4. CASE UpXmit
  BY <1>3, <1>4, Zenon DEF UpXmit, XmitCopy, Xmit, XmitTrigger, XmitAdvance, XmitCompare,
     XmitStop
<1>5. CASE UpChip /\ ChipReceive
  BY <1>3, <1>5, Zenon DEF ChipReceive
<1>6. CASE UpIrq
  BY <1>3, <1>6, Zenon DEF UpIrq, Irq, IrqReadIsr, IrqAck, IrqScan, IrqFlag, IrqBreak,
     IrqReap, IrqCompare, IrqWake
<1>7. CASE OpenRequest \/ OpenDirty \/ OpenCur \/ OpenUnmask \/ OpenStart
  BY <1>3, <1>7, Zenon DEF OpenRequest, OpenDirty, OpenCur, OpenUnmask, OpenStart, vars
<1>8. CASE Stop
  BY <1>3, <1>8, Zenon DEF Stop, StopQueue, StopChip, StopFree, vars
<1>9. CASE UNCHANGED lives
  BY <1>3, <1>9, Zenon DEF vars, lives
<1>10. CASE Open
  BY <1>2, <1>7, <1>10 DEF Open
<1>11. CASE UpChip
  BY <1>1, <1>5, <1>11 DEF UpChip
<1>12. QED
  BY <1>4, <1>6, <1>8, <1>9, <1>10, <1>11 DEF LifeNext

LEMMA UpDownInit == LifeInit => UpDownInv
<1> SUFFICES ASSUME LifeInit PROVE UpDownInv
  OBVIOUS
<1>1. TypeOK
  BY TypeInit DEF LifeInit
<1>2. LifeTypeOK
  <2>1. 0 \in 0 .. MaxOpens
    BY OpensAssumption, SMT
  <2>2. QED
    BY <2>1, Zenon DEF LifeInit, LifeTypeOK
<1>3. PhaseInv
  BY Zenon DEF LifeInit, Init, PhaseInv
<1>4. WireInOrder
  BY DEF LifeInit, Init, WireInOrder
<1>5. QED
  BY <1>1, <1>2, <1>3, <1>4 DEF UpDownInv

\* On one CPU, the interface that is opened and closed again and again keeps
\* its invariant: whatever an earlier opening left in the driver or in the
\* chip, and wherever the handler moved dirty_tx while open was resetting the
\* indices, it comes up over an empty ring or over one that is never reclaimed.
THEOREM UpDownCorrect ==
  ASSUME ~SMP
  PROVE  LifeSpec => []UpDownInv
<1>1. LifeInit => UpDownInv
  BY UpDownInit
<1>2. ASSUME UpDownInv, [LifeNext]_lives
      PROVE  UpDownInv'
  <2>1. TypeOK' /\ LifeTypeOK'
    BY <1>2, LifeKeepsTypes DEF UpDownInv
  <2>2. WireInOrder'
    BY <1>2, WireStep DEF UpDownInv
  <2>3. CASE Open \/ Stop
    BY <1>2, <2>1, <2>2, <2>3, OpenAndStop DEF UpDownInv
  <2>4. CASE UpXmit \/ UpChip \/ UpIrq
    BY <1>2, <2>1, <2>2, <2>4, UpSteps DEF UpDownInv
  <2>5. CASE UNCHANGED lives
    <3>1. PhaseInv'
      <4>1. UNCHANGED vars /\ UNCHANGED <<npc, chip_on>>
        BY <2>5, Zenon DEF lives, life
      <4>2. /\ UNCHANGED <<cur_tx, dirty_tx, stopped, tx_buf, tsd, hw_tx, xpc, ipc>>
            /\ UNCHANGED <<drained, accepted, wire, reported>>
        BY <4>1, Zenon DEF vars, driver, chip, ghost
      <4>3. /\ FreshInv => FreshInv'
            /\ SkewInv => SkewInv'
            /\ ChipInv => ChipInv'
        BY <4>2, Zenon DEF FreshInv, SkewInv, ChipInv, Transmitted
      <4>4. RingInv => RingInv'
        BY <4>1, RingStep
      <4>5. QED
        BY <1>2, <4>1, <4>2, <4>3, <4>4, Zenon DEF UpDownInv, PhaseInv
    <3>2. QED
      BY <2>1, <2>2, <3>1 DEF UpDownInv
  <2>6. QED
    BY <1>2, <2>3, <2>4, <2>5 DEF LifeNext
<1>3. UpDownInv /\ [LifeNext]_lives => UpDownInv'
  BY <1>2
<1>4. QED
  BY <1>1, <1>3, PTL DEF LifeSpec

\* On one CPU, the packets of an opening go to the wire once each, in the order
\* of their calls and as they were handed over, whatever openings came before.
THEOREM WiresInOrder ==
  ASSUME ~SMP
  PROVE  LifeSpec => []WireInOrder
<1>1. UpDownInv => WireInOrder
  BY DEF UpDownInv
<1>2. QED
  BY <1>1, UpDownCorrect, PTL

\* On one CPU, while the interface is up the handler counts only packets of
\* this opening, in their order and under their own outcome.
THEOREM CountsOnce ==
  ASSUME ~SMP
  PROVE  LifeSpec => CountsOnceWhileUp
<1> USE DEF driver, chip, ghost, Transmitted
<1>1. ASSUME UpDownInv, [LifeNext]_lives, npc = "up",
             tx_packets + tx_errors # tx_packets' + tx_errors'
      PROVE  /\ reported < Len(wire)
             /\ tx_packets' # tx_packets <=> wire[reported + 1].out = "ok"
  <2>1. TypeOK /\ (RingInv \/ SkewInv)
    BY <1>1 DEF UpDownInv, PhaseInv
  <2>2. IrqReap
    <3>1. ~(UNCHANGED <<tx_packets, tx_errors>>)
      BY <1>1
    <3>2. QED
      BY <1>1, <3>1, Zenon DEF LifeNext, Open, OpenRequest, OpenDirty, OpenCur, OpenReset,
         OpenUnmask, OpenStart, Stop, StopQueue, StopChip, StopFree, UpXmit, XmitCopy,
         Xmit, XmitTrigger, XmitAdvance, XmitCompare, XmitStop, UpChip, ChipTransmit,
         ChipReceive, UpIrq, Irq, IrqReadIsr, IrqAck, IrqScan, IrqFlag, IrqBreak,
         IrqCompare, IrqWake, vars, lives
  <2>3. RingInv
    <3>1. Irq
      BY <2>2 DEF Irq
    <3>2. QED
      BY <2>1, <2>2, <3>1, SkewIrq
  <2>4. /\ accepted \in Nat /\ reported \in Nat /\ Len(wire) \in Nat
    BY <2>1, Counts
  <2>5. /\ tsd[dirty_tx] \in Outcome /\ dirty_tx = Slot(reported)
        /\ accepted - reported > 0
    BY <2>2, <2>3 DEF IrqReap, RingInv, IndexInv, IrqInv, Outstanding
  <2>6. reported \in reported .. accepted - 1
    BY <2>4, <2>5, SMT
  <2>7. tsd[dirty_tx] = IF reported < Len(wire) THEN wire[reported + 1].out ELSE "busy"
    BY <2>3, <2>5, <2>6 DEF RingInv, SlotInv
  <2>8. reported < Len(wire) /\ tsd[dirty_tx] = wire[reported + 1].out
    BY <2>5, <2>7 DEF Outcome
  <2>9. tx_packets' # tx_packets <=> tsd[dirty_tx] = "ok"
    BY <2>1, <2>2, SMT DEF IrqReap, TypeOK
  <2>10. QED
    BY <2>8, <2>9
<1>2. UpDownInv /\ [LifeNext]_lives =>
        [npc = "up" /\ tx_packets + tx_errors # tx_packets' + tx_errors' =>
           /\ reported < Len(wire)
           /\ tx_packets' # tx_packets <=> wire[reported + 1].out = "ok"]_lives
  BY <1>1
<1>3. QED
  BY <1>2, UpDownCorrect, PTL DEF LifeSpec, CountsOnceWhileUp

(* What the invariant says of an interface that is up.                     *)

LEMMA UpParts ==
  ASSUME UpDownInv, npc = "up"
  PROVE  TypeOK /\ (RingInv \/ SkewInv)
BY DEF UpDownInv, PhaseInv

\* The indices differ only on an interface that was disturbed.
LEMMA AgreeIsRing ==
  ASSUME UpDownInv, AgreeInv, npc = "up", ~disturbed
  PROVE  RingInv
<1>1. SkewInv => FALSE
  <2>1. SkewInv => reported = 0 /\ dirty_tx # 0
    BY DEF SkewInv
  <2>2. dirty_tx = Slot(reported)
    BY DEF AgreeInv
  <2>3. Slot(0) = 0
    BY DescAssumption, SlotOfFirst, SMT
  <2>4. QED
    BY <2>1, <2>2, <2>3
<1>2. QED
  BY <1>1, UpParts

LEMMA AgreeInit == LifeInit => AgreeInv
BY Zenon DEF LifeInit, AgreeInv

LEMMA AgreeOpenStop ==
  ASSUME ~SMP, UpDownInv, AgreeInv, Open \/ Stop
  PROVE  AgreeInv'
<1> USE DEF driver, chip, ghost
<1>1. CASE OpenRequest
  BY <1>1, Zenon DEF OpenRequest, AgreeInv
<1>2. CASE OpenDirty
  BY <1>2, Zenon DEF OpenDirty, AgreeInv
<1>3. CASE OpenCur
  BY <1>3, Zenon DEF OpenCur, AgreeInv
<1>4. CASE OpenReset
  BY <1>4, Zenon DEF OpenReset, AgreeInv
<1>5. CASE OpenUnmask
  BY <1>5, Zenon DEF OpenUnmask, AgreeInv, vars
<1>6. CASE OpenStart
  <2>1. FreshInv /\ ipc = "idle" /\ (~disturbed => dirty_tx = 0)
    BY <1>6, Zenon DEF OpenStart, XmitMayRun, UpDownInv, PhaseInv, AgreeInv
  <2>2. /\ UNCHANGED <<dirty_tx, reported, wire, ipc, disturbed>>
        /\ npc' = "up"
    BY <1>6, Zenon DEF OpenStart
  <2>3. reported' = 0 /\ Len(wire') = 0 /\ ipc' = "idle"
    BY <2>1, <2>2, SMT DEF FreshInv
  <2>4. Slot(0) = 0
    BY DescAssumption, SlotOfFirst, SMT
  <2>5. PendingInv'
    BY <2>3, Zenon DEF PendingInv, NothingLeftBehind, Transmitted
  <2>6. ~disturbed' => dirty_tx' = Slot(reported')
    BY <2>1, <2>2, <2>3, <2>4
  <2>7. QED
    BY <2>2, <2>5, <2>6, Zenon DEF AgreeInv, Slot
<1>7. CASE Stop
  BY <1>7, Zenon DEF Stop, StopQueue, StopChip, StopFree, AgreeInv, vars
<1>8. QED
  BY <1>1, <1>2, <1>3, <1>4, <1>5, <1>6, <1>7 DEF Open

LEMMA AgreeSteps ==
  ASSUME ~SMP, UpDownInv, AgreeInv, UpXmit \/ UpChip \/ UpIrq
  PROVE  AgreeInv'
<1> USE DEF driver, chip, ghost, life
<1>1. UNCHANGED npc /\ (disturbed => disturbed')
  <2>1. UpIrq /\ disturbed => disturbed'
    BY Zenon DEF UpIrq
  <2>2. (UpXmit \/ UpChip) /\ disturbed => disturbed'
    BY Zenon DEF UpXmit, UpChip
  <2>3. UNCHANGED npc
    BY Zenon DEF UpXmit, UpChip, UpIrq
  <2>4. QED
    BY <2>1, <2>2, <2>3, Zenon
<1>2. CASE npc = "up"
  <2>1. Next
    BY Zenon DEF UpXmit, UpChip, UpIrq, Next
  <2>2. ASSUME ~disturbed
        PROVE  RingInv /\ PendingInv
    BY <1>2, <2>2, AgreeIsRing DEF AgreeInv
  <2>3. ASSUME ~disturbed
        PROVE  RingInv' /\ PendingInv'
    BY <2>1, <2>2, <2>3, RingStep, PendingStep
  <2>4. RingInv' => dirty_tx' = Slot(reported')
    BY DEF RingInv, IndexInv, Slot
  <2>5. QED
    BY <1>1, <1>2, <2>3, <2>4, Zenon DEF AgreeInv, Slot
<1>3. CASE npc \in {"dirty", "indexed", "reset", "unmasked"}
  <2>1. npc \in {"reset", "unmasked"} => tsd[dirty_tx] = "reset"
    BY Counts DEF UpDownInv, PhaseInv, FreshInv
  <2>2. ~disturbed' => ~IrqReap
    <3>1. ASSUME IrqReap, npc \in {"reset", "unmasked"} PROVE FALSE
      BY <2>1, <3>1 DEF IrqReap, Outcome
    <3>2. ASSUME IrqReap, npc \in {"dirty", "indexed"} PROVE disturbed'
      <4>1. UpIrq
        BY <1>3, <3>2, Zenon DEF UpXmit, UpChip, ChipTransmit, ChipReceive, IrqReap
      <4>2. Disturbs
        BY <3>2 DEF Disturbs, IrqReap
      <4>3. QED
        BY <4>1, <4>2 DEF UpIrq
    <3>3. QED
      BY <1>3, <3>1, <3>2
  <2>3. ~IrqReap => UNCHANGED dirty_tx
    BY Zenon DEF UpXmit, XmitCopy, Xmit, XmitTrigger, XmitAdvance, XmitCompare, XmitStop,
       UpChip, ChipTransmit, ChipReceive, UpIrq, Irq, IrqReadIsr, IrqAck, IrqScan, IrqFlag,
       IrqBreak, IrqCompare, IrqWake
  <2>4. QED
    BY <1>1, <1>3, <2>2, <2>3, Zenon DEF AgreeInv
<1>4. CASE npc \notin {"dirty", "indexed", "reset", "unmasked", "up"}
  BY <1>1, <1>4, Zenon DEF AgreeInv
<1>5. QED
  BY <1>2, <1>3, <1>4

\* On one CPU, an interface that comes up undisturbed comes up with indices that
\* agree with what the handler has counted, and loses no interrupt but one that
\* was swallowed.
THEOREM AgreeCorrect ==
  ASSUME ~SMP
  PROVE  LifeSpec => []AgreeInv
<1>1. ASSUME UpDownInv, AgreeInv, [LifeNext]_lives
      PROVE  AgreeInv'
  <2>1. CASE UNCHANGED lives
    <3>1. UNCHANGED <<npc, disturbed, dirty_tx, reported, wire, ipc, isr, status, swallowed>>
      BY <2>1, Zenon DEF lives, life, vars, driver, chip, ghost
    <3>2. PendingInv => PendingInv'
      BY <3>1, Zenon DEF PendingInv, NothingLeftBehind, Transmitted
    <3>3. QED
      BY <1>1, <3>1, <3>2, Zenon DEF AgreeInv, Slot
  <2>2. QED
    BY <1>1, <2>1, AgreeOpenStop, AgreeSteps DEF LifeNext
<1>2. UpDownInv /\ AgreeInv /\ [LifeNext]_lives => AgreeInv'
  BY <1>1
<1>3. QED
  BY <1>2, AgreeInit, UpDownCorrect, PTL DEF LifeSpec

\* While the queue is stopped somebody goes on.
LEMMA StoppedMoves ==
  ASSUME RingInv, PendingInv
  PROVE  StoppedGoesOn
<1> SUFFICES ASSUME stopped, ipc = "idle", isr = {}, ~swallowed
             PROVE  tsd[hw_tx] = "busy"
  BY DEF StoppedGoesOn
<1>1. /\ accepted \in Nat /\ reported \in Nat /\ Len(wire) \in Nat
  BY Counts DEF RingInv
<1>2. reported = Len(wire)
  BY Zenon DEF PendingInv, NothingLeftBehind, Transmitted, TxBits
<1>3. accepted - reported > 0
  BY DEF RingInv, IrqInv, StoppedHasWork, Outstanding
<1>4. Len(wire) \in reported .. accepted - 1 /\ ~(Len(wire) < Len(wire))
  BY <1>1, <1>2, <1>3, SMT
<1>5. tsd[Slot(Len(wire))] = "busy" /\ hw_tx = Slot(Len(wire))
  BY <1>4, Zenon DEF RingInv, SlotInv, IndexInv, Transmitted
<1>6. QED
  BY <1>5

\* On one CPU, a stopped queue is never left with nobody to go on: the handler
\* runs or has an interrupt to answer, or the chip has a packet to send, unless an
\* interrupt was swallowed.
THEOREM StoppedNeverAbandoned ==
  ASSUME ~SMP
  PROVE  Spec => []StoppedGoesOn
<1>1. Init => RingInv /\ PendingInv
  BY RingInit DEF Init, PendingInv, NothingLeftBehind, Transmitted
<1>2. RingInv /\ PendingInv /\ [Next]_vars => (RingInv /\ PendingInv)'
  BY RingStep, PendingStep
<1>3. RingInv /\ PendingInv => StoppedGoesOn
  BY StoppedMoves
<1>4. QED
  BY <1>1, <1>2, <1>3, PTL DEF Spec

\* On one CPU, while it is up, an interface that was opened undisturbed keeps all
\* that one keeps that is never closed.
THEOREM UndisturbedKeepsAll ==
  ASSUME ~SMP
  PROVE  LifeSpec => []UpUndisturbed
<1>1. ASSUME UpDownInv, AgreeInv, npc = "up", ~disturbed
      PROVE  FullRingIsStopped /\ StoppedHasWork /\ NothingLeftBehind /\ StoppedGoesOn
  <2>1. RingInv /\ PendingInv
    BY <1>1, AgreeIsRing DEF AgreeInv
  <2>2. QED
    BY <2>1, RingFullStops, StoppedMoves DEF RingInv, IrqInv, PendingInv
<1>2. UpDownInv /\ AgreeInv => UpUndisturbed
  BY <1>1 DEF UpUndisturbed
<1>3. QED
  BY <1>2, UpDownCorrect, AgreeCorrect, PTL

\* On one CPU, start_xmit never copies a packet into a buffer that is still in use,
\* whatever openings came before and whether the indices agree or not.
THEOREM UpCopiesFree ==
  ASSUME ~SMP
  PROVE  LifeSpec => []CopyTargetFree
<1>1. ASSUME UpDownInv PROVE CopyTargetFree
  <2>1. CASE RingInv
    BY <2>1, RingSpares
  <2>2. CASE SkewInv
    <3> SUFFICES ASSUME xpc = "copied"
                 PROVE  Outstanding < NUM_TX_DESC /\ tsd[cur_tx] # "busy"
      BY DEF CopyTargetFree
    <3>1. /\ accepted \in Nat /\ reported = 0 /\ accepted < dirty_tx
          /\ cur_tx = accepted
      BY <1>1, <2>2, Counts DEF UpDownInv, SkewInv
    <3>2. accepted - reported < NUM_TX_DESC /\ accepted \in Desc /\ accepted >= accepted
      BY <1>1, <3>1, Counts, SMT DEF UpDownInv
    <3>3. tsd[cur_tx] = "reset"
      BY <2>2, <3>1, <3>2 DEF SkewInv
    <3>4. QED
      BY <3>2, <3>3 DEF Outstanding
  <2>3. CASE npc # "up"
    BY <1>1, <2>3 DEF UpDownInv, PhaseInv, CopyTargetFree
  <2>4. QED
    BY <1>1, <2>1, <2>2, <2>3, UpParts
<1>2. QED
  BY <1>1, UpDownCorrect, PTL

LEMMA SkewRefines ==
  ASSUME TypeOK, SkewInv, UpXmit \/ UpChip \/ UpIrq
  PROVE  [Ring!Next]_(Ring!vars)
<1> USE DEF driver, chip, ghost, Ring!vars
<1>1. /\ accepted \in Nat /\ reported = 0 /\ Len(wire) \in Nat /\ dirty_tx \in Desc
      /\ NUM_TX_DESC \in Nat /\ Desc = 0 .. NUM_TX_DESC - 1
  BY Counts DEF SkewInv
<1>2. CASE XmitTrigger
  <2>1. accepted < dirty_tx
    BY <1>2 DEF XmitTrigger, SkewInv
  <2>2. accepted - reported < NUM_TX_DESC
    BY <1>1, <2>1, SMT
  <2>3. QED
    BY <1>2, <2>2, Zenon DEF XmitTrigger, Ring!Accept, Ring!Next
<1>3. CASE ChipTransmit
  <2>1. Len(wire) < accepted /\ tx_buf[hw_tx] = Len(wire)
    BY <1>3, UpSends, SendsNext
  <2>2. PICK o \in Outcome: wire' = Append(wire, [pkt |-> Len(wire), out |-> o])
    BY <1>3, <2>1, Zenon DEF ChipTransmit
  <2>3. QED
    BY <1>3, <2>1, <2>2, Zenon DEF ChipTransmit, Ring!Transmit, Ring!Outcome, Outcome,
       Ring!Next
<1>4. CASE XmitCopy \/ XmitAdvance \/ XmitCompare \/ XmitStop \/ ChipReceive
  BY <1>4, Zenon DEF XmitCopy, XmitAdvance, XmitCompare, XmitStop, ChipReceive
<1>5. CASE Irq
  <2>1. ~IrqReap
    BY <1>5, SkewIrq
  <2>2. UNCHANGED <<accepted, wire, reported, tx_packets, tx_errors>>
    BY <1>5, <2>1, Zenon DEF Irq, IrqReadIsr, IrqAck, IrqScan, IrqFlag, IrqBreak,
       IrqCompare, IrqWake
  <2>3. QED
    BY <2>2
<1>6. QED
  BY <1>2, <1>3, <1>4, <1>5, Zenon DEF UpXmit, Xmit, UpChip, UpIrq

\* On one CPU, each opening of the interface is a ring of TxRing that begins empty:
\* every step while it is up is one of the ring's or none, whether the indices agree
\* or not.
THEOREM EachOpeningIsRing ==
  ASSUME ~SMP
  PROVE  LifeSpec => UpIsRing
<1> USE DEF driver, chip, ghost
<1>1. ASSUME UpDownInv, UpDownInv', [LifeNext]_lives, npc = "up"
      PROVE  [Ring!Next]_(Ring!vars)
  <2>1. CASE UpXmit \/ UpChip \/ UpIrq
    <3>1. CASE RingInv
      <4>1. Next
        BY <2>1, Zenon DEF UpXmit, UpChip, UpIrq, Next
      <4>2. RingInv'
        BY <3>1, <4>1, RingStep
      <4>3. QED
        BY <3>1, <4>1, <4>2, RefineStep
    <3>2. CASE SkewInv
      BY <1>1, <2>1, <3>2, SkewRefines, UpParts
    <3>3. QED
      BY <1>1, <3>1, <3>2, UpParts
  <2>2. CASE StopQueue \/ UNCHANGED lives
    BY <2>2, Zenon DEF StopQueue, lives, vars, Ring!vars
  <2>3. ~Open /\ ~StopChip /\ ~StopFree
    BY <1>1 DEF Open, OpenRequest, OpenDirty, OpenCur, OpenReset, OpenUnmask, OpenStart,
       StopChip, StopFree
  <2>4. QED
    BY <1>1, <2>1, <2>2, <2>3 DEF LifeNext, Stop
<1>2. ASSUME UpDownInv, [LifeNext]_lives, npc # "up", npc' = "up"
      PROVE  accepted = 0 /\ wire = << >> /\ reported = 0
  <2>1. OpenStart
    BY <1>2, Zenon DEF LifeNext, Open, OpenRequest, OpenDirty, OpenCur, OpenReset,
       OpenUnmask, Stop, StopQueue, StopChip, StopFree, UpXmit, UpChip, UpIrq, life, lives
  <2>2. FreshInv
    BY <1>2, <2>1, Zenon DEF OpenStart, UpDownInv, PhaseInv
  <2>3. QED
    BY <2>2 DEF FreshInv
<1>3. UpDownInv /\ UpDownInv' /\ [LifeNext]_lives =>
        [/\ npc = "up" => [Ring!Next]_(Ring!vars)
         /\ npc # "up" /\ npc' = "up" => accepted = 0 /\ wire = << >> /\ reported = 0]_lives
  BY <1>1, <1>2
<1>4. QED
  BY <1>3, UpDownCorrect, PTL DEF LifeSpec, UpIsRing

\* On one CPU, an interface that came up with indices that differ and has stopped
\* its queue is stuck until it is closed: what UpStopEnds leaves out does happen.
THEOREM StuckIsStuck ==
  ASSUME ~SMP
  PROVE  LifeSpec => StuckUntilClosed
<1> USE DEF driver, chip, ghost
<1>1. ASSUME UpDownInv, [LifeNext]_lives, Skewed, stopped
      PROVE  stopped' /\ reported' = 0 /\ UNCHANGED <<tx_packets, tx_errors>>
  <2>1. npc = "up" /\ reported = 0 /\ dirty_tx # 0
    BY <1>1 DEF Skewed
  <2>2. TypeOK /\ SkewInv
    <3>1. RingInv => dirty_tx = Slot(0)
      BY <2>1 DEF RingInv, IndexInv
    <3>2. Slot(0) = 0
      BY DescAssumption, SlotOfFirst, SMT
    <3>3. QED
      BY <1>1, <2>1, <3>1, <3>2, UpParts
  <2>3. CASE UpXmit
    <3>1. xpc = "idle"
      BY <1>1, <2>2, Zenon DEF SkewInv
    <3>2. ~XmitCopy /\ ~Xmit
      BY <1>1, <3>1, Zenon DEF XmitCopy, Xmit, XmitTrigger, XmitAdvance, XmitCompare,
         XmitStop
    <3>3. QED
      BY <2>3, <3>2 DEF UpXmit
  <2>4. CASE UpChip
    BY <1>1, <2>1, <2>4, Zenon DEF UpChip, ChipTransmit, ChipReceive
  <2>5. CASE UpIrq
    <3>1. Irq /\ ~IrqReap
      BY <2>2, <2>5, SkewIrq DEF UpIrq
    <3>2. ~IrqWake
      BY <2>2 DEF SkewInv, IrqWake
    <3>3. QED
      BY <1>1, <2>1, <3>1, <3>2, Zenon DEF Irq, IrqReadIsr, IrqAck, IrqScan, IrqFlag,
         IrqBreak, IrqCompare
  <2>6. CASE Stop
    BY <1>1, <2>1, <2>6, Zenon DEF Stop, StopQueue, StopChip, StopFree, vars
  <2>7. CASE UNCHANGED lives
    BY <1>1, <2>1, <2>7, Zenon DEF lives, vars
  <2>8. ~Open
    BY <2>1 DEF Open, OpenRequest, OpenDirty, OpenCur, OpenReset, OpenUnmask, OpenStart
  <2>9. QED
    BY <1>1, <2>3, <2>4, <2>5, <2>6, <2>7, <2>8 DEF LifeNext
<1>2. UpDownInv /\ [LifeNext]_lives =>
        [Skewed /\ stopped =>
           stopped' /\ reported' = 0 /\ UNCHANGED <<tx_packets, tx_errors>>]_lives
  BY <1>1
<1>3. QED
  BY <1>2, UpDownCorrect, PTL DEF LifeSpec, StuckUntilClosed

-----------------------------------------------------------------------------
(* The handler comes to an end.                                            *)

\* Once the handler has begun, its steps before and after the descriptor it
\* reclaims are counted in IrqLeft.
LEMMA HandlerShortens ==
  ASSUME TypeOK, Outstanding >= 0, ipc # "idle", Irq,
         IrqReap => Outstanding > 0
  PROVE  IrqLeft' < IrqLeft
<1> USE DEF driver, chip, ghost
<1>1. accepted \in Nat /\ reported \in Nat /\ Outstanding \in Nat
  BY DEF TypeOK, Outstanding
<1>2. CASE IrqReap
  <2>1. Outstanding' = Outstanding - 1 /\ ipc = "reap" /\ ipc' = "compare"
    BY <1>1, <1>2 DEF IrqReap, Outstanding
  <2>2. QED
    BY <1>1, <2>1 DEF IrqLeft
<1>3. ASSUME ~IrqReap
      PROVE  Outstanding' = Outstanding
  BY <1>3, Zenon DEF Irq, IrqReadIsr, IrqAck, IrqScan, IrqFlag, IrqBreak, IrqCompare,
     IrqWake, Outstanding
<1>4. CASE IrqAck
  <2>1. ipc = "read" /\ ipc' \in {"scan", "idle"}
    BY <1>4 DEF IrqAck
  <2>2. QED
    BY <1>1, <1>3, <1>4, <2>1 DEF IrqLeft, IrqAck, IrqReap
<1>5. CASE IrqScan \/ IrqFlag \/ IrqBreak
  <2>1. \/ ipc = "scan" /\ ipc' \in {"reap", "flag"}
        \/ ipc = "flag" /\ ipc' \in {"reap", "idle"}
        \/ ipc = "reap" /\ ipc' = "idle"
    BY <1>5 DEF IrqScan, IrqFlag, IrqBreak
  <2>2. ~IrqReap
    BY <1>5 DEF IrqScan, IrqFlag, IrqBreak, IrqReap
  <2>3. QED
    BY <1>1, <1>3, <2>1, <2>2 DEF IrqLeft
<1>6. CASE IrqCompare \/ IrqWake
  <2>1. \/ ipc = "compare" /\ ipc' = "wake"
        \/ ipc = "wake" /\ ipc' = "scan"
    BY <1>6 DEF IrqCompare, IrqWake
  <2>2. ~IrqReap
    BY <2>1 DEF IrqReap
  <2>3. QED
    BY <1>1, <1>3, <2>1, <2>2 DEF IrqLeft
<1>7. ~IrqReadIsr
  BY DEF IrqReadIsr
<1>8. QED
  BY <1>2, <1>4, <1>5, <1>6, <1>7 DEF Irq

\* On one CPU nobody else adds to them: the handler keeps start_xmit out, and the
\* chip only concludes what it was given.
LEMMA HandlerAlone ==
  ASSUME ~SMP, ipc # "idle",
         \/ XmitCopy \/ XmitOversize \/ Xmit
         \/ ChipTransmit \/ ChipReceive \/ UNCHANGED <<ipc, accepted, reported>>
  PROVE  IrqLeft' = IrqLeft /\ ipc' = ipc
<1> USE DEF driver, chip, ghost
<1>1. ~XmitCopy /\ ~XmitOversize /\ ~Xmit
  BY Zenon DEF XmitCopy, XmitOversize, Xmit, XmitTrigger, XmitAdvance, XmitCompare,
     XmitStop, XmitBegins, XmitMayRun
<1>2. UNCHANGED <<ipc, accepted, reported>>
  BY <1>1, Zenon DEF ChipTransmit, ChipReceive
<1>3. QED
  BY <1>2 DEF IrqLeft, Outstanding

\* On one CPU the handler is at its end after IrqLeft steps at most, whatever the
\* chip raises meanwhile.
THEOREM HandlerComesToEnd ==
  ASSUME ~SMP
  PROVE  Spec => []HandlerBounded /\ HandlerEnds
<1>1. ASSUME RingInv
      PROVE  Outstanding \in 0 .. NUM_TX_DESC
  BY <1>1, DescAssumption DEF RingInv, TypeOK, IndexInv, Outstanding, Transmitted
<1>2. RingInv => HandlerBounded
  BY <1>1, DescAssumption DEF HandlerBounded, IrqLeft
<1>3. ASSUME RingInv, [Next]_vars, ipc # "idle"
      PROVE  \/ Irq /\ IrqLeft' < IrqLeft
             \/ IrqLeft' = IrqLeft /\ ipc' = ipc
  <2>1. CASE Irq
    <3>1. TypeOK /\ (IrqReap => Outstanding > 0)
      BY <1>3 DEF RingInv, IrqInv, IrqReap
    <3>2. Outstanding >= 0
      BY <1>1, <1>3, DescAssumption
    <3>3. QED
      BY <1>3, <2>1, <3>1, <3>2, HandlerShortens
  <2>2. CASE UNCHANGED vars
    BY <1>3, <2>2, HandlerAlone DEF vars, ghost
  <2>3. QED
    BY <1>3, <2>1, <2>2, HandlerAlone DEF Next
<1>4. RingInv /\ [Next]_vars =>
        [ipc # "idle" => \/ Irq /\ IrqLeft' < IrqLeft
                         \/ IrqLeft' = IrqLeft /\ ipc' = ipc]_vars
  BY <1>3
<1>5. QED
  BY <1>2, <1>4, RingCorrect, PTL DEF Spec, HandlerEnds

\* On one CPU the handler of an interface that is up comes to its end too, over
\* indices that agree or differ.
THEOREM UpHandlerComesToEnd ==
  ASSUME ~SMP
  PROVE  LifeSpec => UpHandlerEnds
<1>1. ASSUME UpDownInv, [LifeNext]_lives, npc = "up", ipc # "idle"
      PROVE  \/ Irq /\ IrqLeft' < IrqLeft
             \/ IrqLeft' = IrqLeft /\ ipc' = ipc
  <2>1. TypeOK /\ (RingInv \/ SkewInv)
    BY <1>1, UpParts
  <2>2. CASE UpIrq
    <3>1. Irq
      BY <2>2 DEF UpIrq
    <3>2. Outstanding >= 0
      BY <2>1, Counts DEF RingInv, IndexInv, SkewInv, Outstanding, Transmitted
    <3>3. IrqReap => Outstanding > 0
      <4>1. RingInv => (IrqReap => Outstanding > 0)
        BY DEF RingInv, IrqInv, IrqReap
      <4>2. SkewInv => ~IrqReap
        BY <2>1, <3>1, SkewIrq
      <4>3. QED
        BY <2>1, <4>1, <4>2
    <3>4. QED
      BY <1>1, <2>1, <3>1, <3>2, <3>3, HandlerShortens
  <2>3. CASE UpXmit \/ UpChip
    BY <1>1, <2>3, HandlerAlone DEF UpXmit, UpChip
  <2>4. CASE StopQueue \/ UNCHANGED lives
    <3>1. UNCHANGED <<ipc, accepted, reported>>
      BY <2>4 DEF StopQueue, lives, vars, ghost
    <3>2. QED
      BY <1>1, <3>1, HandlerAlone
  <2>5. ~Open /\ ~StopChip /\ ~StopFree
    BY <1>1 DEF Open, OpenRequest, OpenDirty, OpenCur, OpenReset, OpenUnmask, OpenStart,
       StopChip, StopFree
  <2>6. QED
    BY <1>1, <2>2, <2>3, <2>4, <2>5 DEF LifeNext, Stop
<1>2. UpDownInv /\ [LifeNext]_lives =>
        [npc = "up" /\ ipc # "idle" => \/ Irq /\ IrqLeft' < IrqLeft
                                       \/ IrqLeft' = IrqLeft /\ ipc' = ipc]_lives
  BY <1>1
<1>3. QED
  BY <1>2, UpDownCorrect, PTL DEF LifeSpec, UpHandlerEnds

-----------------------------------------------------------------------------
(* On any number of CPUs                                                   *)

LEMMA AnyInit == Init => AnyCpuInv
<1> SUFFICES ASSUME Init PROVE AnyCpuInv
  OBVIOUS
<1>1. Slot(0) = 0
  BY DescAssumption, SlotOfFirst
<1>2. CallsBound
  BY DEF Init, CallsBound, Transmitted
<1>3. QED
  BY <1>1, <1>2 DEF Init, AnyCpuInv, Transmitted

\* What a step has to keep for the descriptors the chip owns.
Given(d) ==
  /\ tx_buf[d] <= accepted
  /\ \E k \in Transmitted .. accepted - 1: d = Slot(k) /\ k <= tx_buf[d]

LEMMA AnyXmit ==
  ASSUME TypeOK, AnyCpuInv, XmitCopy \/ XmitOversize \/ Xmit
  PROVE  AnyCpuInv'
<1> USE DEF driver, chip, ghost, Transmitted
<1>1. /\ accepted \in Nat /\ Len(wire) \in Nat /\ Len(wire) <= accepted
      /\ cur_tx \in Desc /\ cur_tx % NUM_TX_DESC = cur_tx
  BY Counts, SlotOfDesc DEF AnyCpuInv, CallsBound
<1>2. \A d \in Desc: tsd[d] = "busy" => Given(d)
  BY Zenon DEF AnyCpuInv, Given
<1>3. UNCHANGED <<dirty_tx, hw_tx, wire, reported, tx_packets, tx_errors>>
  BY Zenon DEF XmitCopy, XmitOversize, Xmit, XmitTrigger, XmitAdvance, XmitCompare, XmitStop
<1>4. accepted' \in Nat /\ accepted' >= accepted
  BY <1>1 DEF XmitCopy, XmitOversize, Xmit, XmitTrigger, XmitAdvance, XmitCompare, XmitStop
<1>5. CallsBound'
  <2>1. ASSUME NEW k \in DOMAIN wire PROVE wire[k].pkt \in Nat
    <3>1. wire[k] \in [pkt: Nat, out: Outcome]
      BY ElementOfSeq, LenProperties, Zenon DEF TypeOK
    <3>2. QED
      BY <3>1
  <2>2. QED
    BY <1>1, <1>3, <1>4, <2>1 DEF AnyCpuInv, CallsBound
<1>6. dirty_tx' = Slot(reported') /\ hw_tx' = Slot(Transmitted')
  BY <1>3 DEF AnyCpuInv
<1>7. CASE XmitCopy
  <2>1. /\ tx_buf' = [tx_buf EXCEPT ![cur_tx] = accepted]
        /\ UNCHANGED <<tsd, accepted, cur_tx, wire>>
        /\ xpc = "idle" /\ xpc' = "copied"
    BY <1>1, <1>7 DEF XmitCopy, XmitBegins
  <2>2. tx_buf'[cur_tx] = accepted /\ \A d \in Desc: d # cur_tx => tx_buf'[d] = tx_buf[d]
    BY <1>1, <2>1 DEF TypeOK
  <2>3. ASSUME NEW d \in Desc, tsd'[d] = "busy"
        PROVE  Given(d)'
    <3>1. PICK k \in Len(wire) .. accepted - 1: d = Slot(k) /\ k <= tx_buf[d]
      BY <1>2, <2>1, <2>3 DEF Given
    <3>2. tx_buf[d] <= accepted
      BY <1>2, <2>1, <2>3 DEF Given
    <3>3. k <= tx_buf'[d] /\ tx_buf'[d] <= accepted
      BY <1>1, <2>2, <3>1, <3>2
    <3>4. QED
      BY <2>1, <3>1, <3>3 DEF Given
  <2>4. QED
    BY <1>5, <1>6, <2>1, <2>2, <2>3 DEF AnyCpuInv, Given
<1>8. CASE XmitTrigger
  <2>1. /\ tsd' = [tsd EXCEPT ![cur_tx] = "busy"] /\ accepted' = accepted + 1
        /\ UNCHANGED <<tx_buf, cur_tx, wire>>
        /\ xpc = "copied" /\ xpc' = "triggered"
    BY <1>1, <1>8 DEF XmitTrigger
  <2>2. cur_tx = Slot(accepted) /\ tx_buf[cur_tx] = accepted
    BY <2>1 DEF AnyCpuInv
  <2>3. ASSUME NEW d \in Desc, tsd'[d] = "busy"
        PROVE  Given(d)'
    <3>1. CASE d = cur_tx
      <4>1. accepted \in Len(wire) .. accepted' - 1 /\ accepted <= accepted'
        BY <1>1, <2>1
      <4>2. QED
        BY <1>1, <2>1, <2>2, <3>1, <4>1 DEF Given
    <3>2. CASE d # cur_tx
      <4>1. tsd[d] = "busy"
        BY <2>1, <2>3, <3>2 DEF TypeOK
      <4>2. PICK k \in Len(wire) .. accepted - 1: d = Slot(k) /\ k <= tx_buf[d]
        BY <1>2, <4>1 DEF Given
      <4>3. tx_buf[d] \in Nat /\ tx_buf[d] <= accepted
        BY <1>2, <4>1 DEF Given, TypeOK
      <4>4. k \in Len(wire) .. accepted' - 1 /\ tx_buf[d] <= accepted'
        BY <1>1, <2>1, <4>2, <4>3
      <4>5. QED
        BY <2>1, <4>2, <4>4 DEF Given
    <3>3. QED
      BY <3>1, <3>2
  <2>4. cur_tx' = Slot(accepted' - 1) /\ accepted' > 0
    <3>1. accepted' - 1 = accepted /\ accepted' > 0
      BY <1>1, <2>1
    <3>2. QED
      BY <2>1, <2>2, <3>1
  <2>5. QED
    BY <1>5, <1>6, <2>1, <2>3, <2>4 DEF AnyCpuInv, Given
<1>9. CASE XmitAdvance
  <2>1. cur_tx' = Slot(accepted)
    <3>1. accepted > 0 /\ cur_tx = Slot(accepted - 1)
      BY <1>9 DEF XmitAdvance, AnyCpuInv
    <3>2. accepted - 1 \in Nat /\ (accepted - 1) + 1 = accepted
      BY <1>1, <3>1
    <3>3. (Slot(accepted - 1) + 1) % NUM_TX_DESC = Slot((accepted - 1) + 1)
      BY <3>2, SlotNext
    <3>4. QED
      BY <1>9, <3>1, <3>2, <3>3 DEF XmitAdvance
  <2>2. UNCHANGED <<tx_buf, tsd, accepted, wire>> /\ xpc' = "advanced"
    BY <1>9 DEF XmitAdvance
  <2>3. QED
    BY <1>5, <1>6, <2>1, <2>2 DEF AnyCpuInv
<1>10. CASE XmitOversize \/ XmitCompare \/ XmitStop
  <2>1. /\ UNCHANGED <<tx_buf, tsd, accepted, cur_tx, wire>>
        /\ xpc # "triggered" /\ xpc' \notin {"triggered", "copied"}
    BY <1>10 DEF XmitOversize, XmitCompare, XmitStop, XmitBegins
  <2>2. QED
    BY <1>5, <1>6, <2>1 DEF AnyCpuInv
<1>11. QED
  BY <1>7, <1>8, <1>9, <1>10 DEF Xmit

LEMMA AnyChip ==
  ASSUME TypeOK, AnyCpuInv, ChipTransmit
  PROVE  AnyCpuInv'
<1> USE DEF driver, chip, ghost, Transmitted
<1>1. /\ accepted \in Nat /\ Len(wire) \in Nat /\ hw_tx \in Desc
  BY Counts
<1>2. \A d \in Desc: tsd[d] = "busy" => Given(d)
  BY Zenon DEF AnyCpuInv, Given
<1>3. PICK o \in Outcome:
        /\ tsd' = [tsd EXCEPT ![hw_tx] = o]
        /\ wire' = Append(wire, [pkt |-> tx_buf[hw_tx], out |-> o])
  BY Zenon DEF ChipTransmit
<1>4. /\ tsd[hw_tx] = "busy" /\ hw_tx = Slot(Len(wire))
      /\ hw_tx' = (hw_tx + 1) % NUM_TX_DESC
      /\ UNCHANGED <<tx_buf, xpc, cur_tx, dirty_tx, accepted, reported, tx_packets, tx_errors>>
  BY DEF ChipTransmit, AnyCpuInv
<1>5. PICK k \in Len(wire) .. accepted - 1: k <= tx_buf[hw_tx] /\ tx_buf[hw_tx] <= accepted
  BY <1>1, <1>2, <1>4 DEF Given
<1>6. Len(wire) < accepted /\ Len(wire) <= tx_buf[hw_tx] /\ tx_buf[hw_tx] \in Nat
  BY <1>1, <1>5 DEF TypeOK
<1>7. /\ Len(wire') = Len(wire) + 1 /\ DOMAIN wire' = 1 .. Len(wire) + 1
      /\ DOMAIN wire = 1 .. Len(wire)
      /\ \A j \in 1 .. Len(wire): wire'[j] = wire[j]
      /\ wire'[Len(wire) + 1].pkt = tx_buf[hw_tx]
  BY <1>3 DEF TypeOK
<1>8. CallsBound'
  <2>1. ASSUME NEW j \in DOMAIN wire'
        PROVE  wire'[j].pkt >= j - 1 /\ wire'[j].pkt <= accepted
    <3>1. CASE j \in 1 .. Len(wire)
      BY <1>7, <3>1 DEF AnyCpuInv, CallsBound
    <3>2. CASE j = Len(wire) + 1
      BY <1>1, <1>5, <1>6, <1>7, <3>2
    <3>3. QED
      BY <1>1, <1>7, <2>1, <3>1, <3>2
  <2>2. Len(wire') <= accepted
    BY <1>1, <1>6, <1>7
  <2>3. QED
    BY <1>4, <2>1, <2>2 DEF AnyCpuInv, CallsBound
<1>9. hw_tx' = Slot(Len(wire'))
  BY <1>1, <1>4, <1>7, SlotNext
<1>10. ASSUME NEW d \in Desc, tsd'[d] = "busy"
       PROVE  Given(d)'
  <2>1. d # hw_tx /\ tsd[d] = "busy"
    BY <1>1, <1>3, <1>10 DEF TypeOK, Outcome
  <2>2. PICK j \in Len(wire) .. accepted - 1: d = Slot(j) /\ j <= tx_buf[d]
    BY <1>2, <2>1 DEF Given
  <2>3. j # Len(wire)
    BY <1>4, <2>1, <2>2
  <2>4. j \in Len(wire') .. accepted - 1
    BY <1>1, <1>7, <2>2, <2>3
  <2>5. tx_buf[d] <= accepted
    BY <1>2, <2>1 DEF Given
  <2>6. QED
    BY <1>4, <2>2, <2>4, <2>5 DEF Given
<1>11. QED
  BY <1>4, <1>8, <1>9, <1>10 DEF AnyCpuInv, Given

LEMMA AnyIrq ==
  ASSUME TypeOK, AnyCpuInv, Irq \/ ChipReceive \/ UNCHANGED vars
  PROVE  AnyCpuInv'
<1> USE DEF driver, chip, ghost, Transmitted
<1>1. CASE IrqReap
  <2>1. /\ reported' = reported + 1 /\ dirty_tx' = (dirty_tx + 1) % NUM_TX_DESC
        /\ UNCHANGED <<tx_buf, tsd, hw_tx, xpc, cur_tx, accepted, wire>>
    BY <1>1 DEF IrqReap
  <2>2. reported \in Nat /\ dirty_tx = Slot(reported)
    BY DEF TypeOK, AnyCpuInv
  <2>3. dirty_tx' = Slot(reported')
    BY <2>1, <2>2, SlotNext
  <2>4. tx_packets' + tx_errors' = reported'
    <3>1. tx_packets \in Nat /\ tx_errors \in Nat /\ tx_packets + tx_errors = reported
      BY DEF TypeOK, AnyCpuInv, CallsBound
    <3>2. \/ tx_packets' = tx_packets + 1 /\ tx_errors' = tx_errors
          \/ tx_errors' = tx_errors + 1 /\ tx_packets' = tx_packets
      BY <1>1, Zenon DEF IrqReap
    <3>3. QED
      BY <2>1, <3>1, <3>2
  <2>5. QED
    BY <2>1, <2>3, <2>4 DEF AnyCpuInv, CallsBound
<1>2. CASE ~IrqReap
  <2>1. UNCHANGED <<tx_buf, tsd, hw_tx, xpc, cur_tx, dirty_tx, accepted, wire, reported,
                    tx_packets, tx_errors>>
    BY <1>2, Zenon DEF vars, Irq, IrqReadIsr, IrqAck, IrqScan, IrqFlag, IrqBreak,
       IrqCompare, IrqWake, ChipReceive
  <2>2. QED
    BY <2>1 DEF AnyCpuInv, CallsBound
<1>3. QED
  BY <1>1, <1>2

\* On any number of CPUs, overrun or not: the chip sends for calls of start_xmit
\* only, each in its turn, the packet of that call or of a later one.
THEOREM AnyCpuBound == Spec => []CallsBound
<1>1. Init => TypeOK /\ AnyCpuInv
  BY TypeInit, AnyInit
<1>2. TypeOK /\ AnyCpuInv /\ [Next]_vars => (TypeOK /\ AnyCpuInv)'
  <2> SUFFICES ASSUME TypeOK, AnyCpuInv, [Next]_vars PROVE TypeOK' /\ AnyCpuInv'
    OBVIOUS
  <2>1. TypeOK'
    BY TypeStep
  <2>2. AnyCpuInv'
    BY AnyXmit, AnyChip, AnyIrq DEF Next
  <2>3. QED
    BY <2>1, <2>2
<1>3. AnyCpuInv => CallsBound
  BY DEF AnyCpuInv
<1>4. QED
  BY <1>1, <1>2, <1>3, PTL DEF Spec

=============================================================================
