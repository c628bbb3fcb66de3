---------------------------- MODULE Rtl8139RxProofs ----------------------------
(***************************************************************************)
(* Proofs about Rtl8139Rx, for any length of the ring and any sizes of the *)
(* frames that are shorter than it.                                        *)
(***************************************************************************)
EXTENDS Rtl8139Rx, TLAPS

(* The arithmetic of the ring                                              *)

LEMMA ModOnce ==
  ASSUME NEW n \in Nat, n > 0, NEW x \in Int, x < 2 * n, -n <= x
  PROVE  x % n = IF x < 0 THEN x + n ELSE IF x < n THEN x ELSE x - n
<1>1. CASE x < 0
  BY <1>1, SMT
<1>2. CASE 0 <= x /\ x < n
  BY <1>2, SMT
<1>3. CASE n <= x
  BY <1>3, SMT
<1>4. QED
  BY <1>1, <1>2, <1>3, SMT

LEMMA SizesType ==
  /\ RX_BUF_LEN \in Nat /\ MaxSize \in Nat /\ MaxSize < RX_BUF_LEN /\ MaxSize >= 2
  /\ \A n \in Sizes: n \in Nat /\ 2 <= n /\ n <= MaxSize
<1>1. PICK m \in Sizes: TRUE
  BY SizesAssumption
<1>2. \A n \in Sizes: n \in 2 .. MaxSize
  BY SizesAssumption
<1>3. QED
  BY <1>1, <1>2, SizesAssumption, SMT

LEMMA UsedIs ==
  ASSUME hw_wr \in 0 .. RX_BUF_LEN - 1, hw_rd \in 0 .. RX_BUF_LEN - 1
  PROVE  /\ Used = IF hw_rd <= hw_wr THEN hw_wr - hw_rd ELSE hw_wr - hw_rd + RX_BUF_LEN
         /\ Used \in 0 .. RX_BUF_LEN - 1
         /\ Used = 0 <=> RxBufEmpty
<1> DEFINE x == hw_wr - hw_rd
<1>1. RX_BUF_LEN \in Nat /\ RX_BUF_LEN > 0
  BY SizesType, SMT
<1>2. x \in Int /\ -RX_BUF_LEN <= x /\ x < RX_BUF_LEN
  BY <1>1, SMT
<1>3. x % RX_BUF_LEN = IF x < 0 THEN x + RX_BUF_LEN ELSE x
  <2> HIDE DEF x
  <2>1. QED
    BY <1>1, <1>2, ModOnce, SMT
<1>4. QED
  BY <1>1, <1>2, <1>3, SMT DEF Used, RxBufEmpty

(* Reports of frames: no arithmetic is needed.                             *)

LEMMA ReportStep == ASSUME ReportInv, Next PROVE ReportInv'
<1> USE DEF ReportInv, RxBufEmpty, stats, chip
<1>1. CASE ChipReceive \/ ChipOverflow \/ ChipError
  BY <1>1, Zenon DEF ChipReceive, ChipOverflow, ChipError
<1>2. CASE IrqReadIsr \/ IrqAck
  BY <1>2, Zenon DEF IrqReadIsr, IrqAck
<1>3. CASE RxTest
  BY <1>3, Zenon DEF RxTest
<1>4. CASE RxHeader \/ RxCopy \/ RxAdvance
  BY <1>4, Zenon DEF RxHeader, RxCopy, RxAdvance
<1>5. QED
  BY <1>1, <1>2, <1>3, <1>4, Zenon DEF Next, Irq

(* What the handler finds in the ring                                      *)

\* The frame next to be read lies whole where the chip thinks it does.
LEMMA FirstLaid ==
  ASSUME TypeOK, PlaceInv, NEW dist, Laid(dist), Freed < accepted
  PROVE  /\ dist[Freed + 1] \in Sizes
         /\ Stored(Freed, hw_rd, dist[Freed + 1])
<1>1. Freed \in Nat /\ accepted \in Nat /\ hw_rd \in 0 .. RX_BUF_LEN - 1
  <2>1. Len(handled) \in Nat /\ accepted \in Nat
    BY SMT DEF TypeOK
  <2>2. QED
    BY <2>1, SMT DEF Freed, PlaceInv, TypeOK
<1>2. Freed \in Freed .. accepted - 1 /\ dist[Freed] = 0
  BY <1>1, SMT DEF Laid
<1>3. /\ dist[Freed + 1] - dist[Freed] \in Sizes
      /\ Stored(Freed, Cell(dist[Freed]), dist[Freed + 1] - dist[Freed])
  BY <1>2, Zenon DEF Laid
<1>4. Freed + 1 \in Freed .. accepted
  BY <1>1, SMT
<1>5. dist[Freed + 1] \in Nat
  BY <1>4, SizesType, SMT DEF Laid
<1>6. dist[Freed + 1] - dist[Freed] = dist[Freed + 1] /\ Cell(dist[Freed]) = hw_rd
  BY <1>1, <1>2, <1>5, SizesType, SMT DEF Cell
<1>7. QED
  BY <1>3, <1>6

\* It is found there, unless the position stands at the very end of the ring.
LEMMA HeaderRead ==
  ASSUME TypeOK, PlaceInv, NEW dist, Laid(dist), RxHeader
  PROVE  IF cur_rx = RX_BUF_LEN
         THEN cur_rx' = cur_rx /\ rx_size' = 0 /\ rpc' = "lost"
         ELSE cur_rx' = hw_rd /\ rx_size' = dist[Freed + 1] /\ rpc' = "copy"
<1>1. hw_rd \in 0 .. RX_BUF_LEN - 1 /\ RX_BUF_LEN \in Nat
  BY SizesType DEF TypeOK
<1>2. CASE cur_rx = RX_BUF_LEN
  <2>1. Wrapped = RX_BUF_LEN
    BY <1>1, <1>2, SMT DEF Wrapped
  <2>2. ~ (rx_ring[RX_BUF_LEN].frame >= 0 /\ rx_ring[RX_BUF_LEN].part = 0)
    BY Zenon DEF PlaceInv
  <2>3. QED
    BY <1>2, <2>1, <2>2, Zenon DEF RxHeader
<1>3. CASE cur_rx # RX_BUF_LEN
  <2>1. cur_rx = hw_rd \/ (cur_rx = hw_rd + RX_BUF_LEN /\ hw_rd > 0)
    BY <1>1, <1>3, SMT DEF PlaceInv
  <2>2. Wrapped = hw_rd
    <3>1. CASE cur_rx = hw_rd
      BY <1>1, <3>1, SMT DEF Wrapped
    <3>2. CASE cur_rx = hw_rd + RX_BUF_LEN /\ hw_rd > 0
      BY <1>1, <3>2, ModOnce, SMT DEF Wrapped
    <3>3. QED
      BY <2>1, <3>1, <3>2
  <2>3. Freed < accepted
    BY Zenon DEF RxHeader, PlaceInv
  <2>4. dist[Freed + 1] \in Sizes /\ Stored(Freed, hw_rd, dist[Freed + 1])
    BY <2>3, FirstLaid
  <2>5. rx_ring[hw_rd + 0] = [frame |-> Freed, part |-> 0, size |-> dist[Freed + 1]]
    <3>1. 0 \in 0 .. dist[Freed + 1] - 1
      BY <2>4, SizesType, SMT
    <3>2. QED
      BY <2>4, <3>1, Zenon DEF Stored
  <2>6. hw_rd + 0 = hw_rd /\ Freed >= 0
    <3>1. Len(handled) \in Nat
      BY SMT DEF TypeOK
    <3>2. QED
      BY <1>1, <3>1, SMT DEF Freed, PlaceInv
  <2>7. /\ rx_ring[hw_rd].frame >= 0 /\ rx_ring[hw_rd].part = 0
        /\ rx_ring[hw_rd].size = dist[Freed + 1]
    BY <2>5, <2>6, SMT
  <2>8. QED
    BY <1>3, <2>2, <2>7, Zenon DEF RxHeader
<1>4. QED
  BY <1>2, <1>3

(* The types                                                               *)

LEMMA TypeStep ==
  ASSUME TypeOK, PlaceInv, RingInv, Next
  PROVE  TypeOK'
<1> USE DEF TypeOK, stats, chip
<1>1. /\ RX_BUF_LEN \in Nat /\ MaxSize \in Nat /\ MaxSize < RX_BUF_LEN
      /\ \A n \in Sizes: n \in Nat /\ n <= MaxSize
  BY SizesType
<1>2. CASE ChipReceive
  <2>1. PICK n \in Sizes:
          /\ Used + n < RX_BUF_LEN
          /\ rx_ring' = [c \in Cells |->
               IF c \in hw_wr .. hw_wr + n - 1
               THEN [frame |-> accepted, part |-> c - hw_wr, size |-> n]
               ELSE rx_ring[c]]
          /\ hw_wr' = (hw_wr + n) % RX_BUF_LEN
    BY <1>2, Zenon DEF ChipReceive
  <2>2. hw_wr' \in 0 .. RX_BUF_LEN - 1
    <3>1. /\ hw_wr \in 0 .. RX_BUF_LEN - 1 /\ n \in Nat /\ n < RX_BUF_LEN
          /\ hw_wr' = (hw_wr + n) % RX_BUF_LEN
      BY <1>1, <2>1
    <3> DEFINE w == hw_wr + n
    <3>2. /\ w \in Int /\ w < 2 * RX_BUF_LEN /\ -RX_BUF_LEN <= w /\ ~(w < 0)
          /\ RX_BUF_LEN > 0
      BY <1>1, <3>1, SMT
    <3>3. hw_wr' = w % RX_BUF_LEN
      BY <3>1
    <3> HIDE DEF w
    <3>4. w % RX_BUF_LEN = IF w < 0 THEN w + RX_BUF_LEN
                           ELSE IF w < RX_BUF_LEN THEN w ELSE w - RX_BUF_LEN
      BY <1>1, <3>2, ModOnce
    <3>5. w % RX_BUF_LEN \in 0 .. RX_BUF_LEN - 1
      BY <1>1, <3>2, <3>4, SMT
    <3>6. QED
      BY <3>3, <3>5, Zenon
  <2>3. ASSUME NEW c \in Cells PROVE rx_ring'[c] \in [frame: Int, part: Nat, size: Nat]
    <3>1. rx_ring[c] \in [frame: Int, part: Nat, size: Nat]
      OBVIOUS
    <3>2. n \in Nat /\ accepted \in Nat /\ hw_wr \in Nat
      BY <1>1
    <3>3. CASE c \in hw_wr .. hw_wr + n - 1
      <4>1. c - hw_wr \in Nat
        BY <3>2, <3>3, SMT
      <4>2. rx_ring'[c] = [frame |-> accepted, part |-> c - hw_wr, size |-> n]
        BY <2>1, <3>3, Zenon
      <4>3. QED
        BY <3>2, <4>1, <4>2, SMT
    <3>4. CASE c \notin hw_wr .. hw_wr + n - 1
      <4>1. rx_ring'[c] = rx_ring[c]
        BY <2>1, <3>4, Zenon
      <4>2. QED
        BY <3>1, <4>1, Zenon
    <3>5. QED
      BY <3>3, <3>4
  <2>4. rx_ring' \in [Cells -> [frame: Int, part: Nat, size: Nat]]
    BY <2>1, <2>3, Zenon
  <2>5. isr' \subseteq IsrBits /\ accepted' \in Nat
    BY <1>2, SMT DEF ChipReceive, IsrBits
  <2>6. QED
    BY <1>2, <2>2, <2>4, <2>5, Zenon DEF ChipReceive
<1>3. CASE ChipOverflow \/ ChipError
  <2>1. isr' \subseteq IsrBits
    BY <1>3, Zenon DEF ChipOverflow, ChipError, IsrBits
  <2>2. QED
    BY <1>3, <2>1, Zenon DEF ChipOverflow, ChipError
<1>4. CASE IrqReadIsr
  BY <1>4, Zenon DEF IrqReadIsr
<1>5. CASE IrqAck
  <2>1. rx_errors' \in Nat
    BY <1>5, SMT DEF IrqAck
  <2>2. swallowed' \in BOOLEAN
    BY <1>5, Zenon DEF IrqAck
  <2>3. rpc' \in {"idle", "read", "test", "header", "copy", "advance", "lost"}
    BY <1>5, Zenon DEF IrqAck
  <2>4. QED
    BY <1>5, <2>1, <2>2, <2>3, Zenon DEF IrqAck
<1>6. CASE RxTest
  BY <1>6, Zenon DEF RxTest
<1>7. CASE RxHeader
  <2>1. Wrapped \in Cells
    BY <1>1, SMT DEF Wrapped, Cells
  <2>2. rx_size' \in Sizes \cup {0}
    <3>1. PICK dist: Laid(dist)
      BY DEF RingInv
    <3>2. IF cur_rx = RX_BUF_LEN THEN rx_size' = 0 ELSE rx_size' = dist[Freed + 1]
      BY <1>7, <3>1, HeaderRead, Zenon
    <3>3. dist[Freed + 1] \in Sizes
      BY <1>7, <3>1, FirstLaid, Zenon DEF RxHeader, PlaceInv
    <3>4. QED
      BY <3>2, <3>3, Zenon
  <2>3. rpc' \in {"copy", "lost"}
    BY <1>7, Zenon DEF RxHeader
  <2>4. QED
    BY <1>7, <2>1, <2>2, <2>3, Zenon DEF RxHeader
<1>8. CASE RxCopy
  <2>1. PICK skb \in BOOLEAN:
          /\ handled' = Append(handled, [frame |-> Copied, up |-> skb])
          /\ IF skb THEN rx_packets' = rx_packets + 1 /\ UNCHANGED rx_dropped
                    ELSE rx_dropped' = rx_dropped + 1 /\ UNCHANGED rx_packets
    BY <1>8, Zenon DEF RxCopy
  <2>2. rx_packets' \in Nat /\ rx_dropped' \in Nat
    BY <2>1, SMT
  <2>3. Copied \in Int
    <3>1. cur_rx \in Cells
      OBVIOUS
    <3>2. rx_ring[cur_rx].frame \in Int
      BY <3>1, SMT
    <3>3. QED
      BY <3>2, SMT DEF Copied
  <2>4. handled' \in Seq([frame: Int, up: BOOLEAN])
    BY <2>1, <2>3, SMT
  <2>5. QED
    BY <1>8, <2>2, <2>4, Zenon DEF RxCopy
<1>9. CASE RxAdvance
  <2>1. cur_rx \in 0 .. RX_BUF_LEN - 1
    BY <1>9, Zenon DEF RxAdvance, PlaceInv
  <2>2. cur_rx' \in Cells
    <3>1. rx_size \in Nat /\ rx_size <= MaxSize
      BY <1>1, SMT
    <3>2. QED
      BY <1>1, <1>9, <2>1, <3>1, SMT DEF RxAdvance, Cells
  <2>3. hw_rd' \in 0 .. RX_BUF_LEN - 1
    BY <1>1, <1>9, <2>1, SMT DEF RxAdvance
  <2>4. QED
    BY <1>9, <2>2, <2>3, Zenon DEF RxAdvance
<1>10. QED
  BY <1>2, <1>3, <1>4, <1>5, <1>6, <1>7, <1>8, <1>9, Zenon DEF Next, Irq

(* What keeps the ring                                                     *)

\* The layout depends on what the chip and CAPR say, and on the frame in hand.
LEMMA LaidSame ==
  ASSUME NEW dist, Laid(dist), Freed' = Freed,
         UNCHANGED <<rx_ring, hw_wr, hw_rd, accepted>>,
         rpc' \in {"copy", "advance"} => rx_size' = dist[Freed + 1]
  PROVE  Laid(dist)'
<1>1. Used' = Used
  BY Zenon DEF Used
<1>2. \A d: Cell(d)' = Cell(d)
  BY Zenon DEF Cell
<1>3. \A k, c, n: Stored(k, c, n)' <=> Stored(k, c, n)
  BY Zenon DEF Stored
<1>4. QED
  BY <1>1, <1>2, <1>3, Zenon DEF Laid

\* A dword the chip writes is none of a frame that is laid.
LEMMA WritesNoFrame ==
  ASSUME TypeOK, PlaceInv, NEW dist, Laid(dist), NEW n \in Sizes, Used + n < RX_BUF_LEN,
         NEW k \in Freed .. accepted - 1, NEW i \in 0 .. dist[k + 1] - dist[k] - 1
  PROVE  /\ Cell(dist[k]) + i \in Cells
         /\ Cell(dist[k]) + i \notin hw_wr .. hw_wr + n - 1
<1>1. /\ RX_BUF_LEN \in Nat /\ MaxSize \in Nat /\ n \in Nat /\ n >= 2
      /\ hw_rd \in 0 .. RX_BUF_LEN - 1 /\ hw_wr \in 0 .. RX_BUF_LEN - 1
  BY SizesType, SMT DEF TypeOK
<1>2. Freed \in Nat /\ accepted \in Nat
  <2>1. Len(handled) \in Nat /\ accepted \in Nat
    BY SMT DEF TypeOK
  <2>2. QED
    BY <2>1, SMT DEF Freed, PlaceInv
<1>3. /\ k \in Freed .. accepted /\ k + 1 \in Freed .. accepted
      /\ accepted \in k + 1 .. accepted
  BY <1>2, SMT
<1>4. /\ dist[k] \in 0 .. RX_BUF_LEN - 1 /\ dist[k + 1] \in 0 .. RX_BUF_LEN - 1
      /\ dist[k + 1] - dist[k] \in Sizes /\ dist[k + 1] <= Used
  <2>1. /\ dist[k] \in 0 .. RX_BUF_LEN - 1 /\ dist[k + 1] \in 0 .. RX_BUF_LEN - 1
        /\ dist[k + 1] - dist[k] \in Sizes
    BY <1>3, SMT DEF Laid
  <2>2. dist[k + 1] + 2 * (accepted - k - 1) <= Used
    <3>1. \A j \in Freed .. accepted - 1: \A m \in j + 1 .. accepted:
             dist[j + 1] + 2 * (m - j - 1) <= dist[m]
      BY Zenon DEF Laid
    <3>2. dist[accepted] = Used
      BY Zenon DEF Laid
    <3>3. QED
      BY <1>3, <3>1, <3>2, Zenon
  <2>3. Used \in Int
    BY UsedIs DEF TypeOK
  <2>4. QED
    BY <1>2, <2>1, <2>2, <2>3, SMT
<1>5. dist[k + 1] - dist[k] <= MaxSize
  BY <1>4, SizesType, SMT
<1>6. Used = IF hw_rd <= hw_wr THEN hw_wr - hw_rd ELSE hw_wr - hw_rd + RX_BUF_LEN
  BY <1>1, UsedIs
<1>7. Cell(dist[k]) = IF hw_rd + dist[k] < RX_BUF_LEN
                      THEN hw_rd + dist[k] ELSE hw_rd + dist[k] - RX_BUF_LEN
  BY DEF Cell
<1>8. Cell(dist[k]) + i \in 0 .. RX_BUF_LEN + MaxSize - 1
  BY <1>1, <1>4, <1>5, <1>7, SMT
<1>9. Cell(dist[k]) + i \notin hw_wr .. hw_wr + n - 1
  <2> DEFINE c == Cell(dist[k])
  <2>1. c \in Int /\ i \in Nat /\ i <= dist[k + 1] - dist[k] - 1
    BY <1>1, <1>4, <1>7, SMT
  <2> HIDE DEF c
  <2>2. CASE hw_rd <= hw_wr
    BY <1>1, <1>4, <1>6, <1>7, <2>1, <2>2, SMT DEF c
  <2>3. CASE hw_wr < hw_rd /\ hw_rd + dist[k] < RX_BUF_LEN
    BY <1>1, <1>4, <1>6, <1>7, <2>1, <2>3, SMT DEF c
  <2>4. CASE hw_wr < hw_rd /\ hw_rd + dist[k] >= RX_BUF_LEN
    BY <1>1, <1>4, <1>6, <1>7, <2>1, <2>4, SMT DEF c
  <2>5. QED
    BY <1>1, <1>4, <2>2, <2>3, <2>4, SMT DEF c
<1>10. QED
  BY <1>8, <1>9 DEF Cells

\* The chip lays a frame behind the last and disturbs none.
LEMMA ReceiveLays ==
  ASSUME TypeOK, PlaceInv, RingInv, ChipReceive
  PROVE  RingInv' /\ PlaceInv'
<1> USE DEF stats
<1>1. PICK n \in Sizes:
        /\ Used + n < RX_BUF_LEN
        /\ rx_ring' = [c \in Cells |->
             IF c \in hw_wr .. hw_wr + n - 1
             THEN [frame |-> accepted, part |-> c - hw_wr, size |-> n]
             ELSE rx_ring[c]]
        /\ hw_wr' = (hw_wr + n) % RX_BUF_LEN
  BY Zenon DEF ChipReceive
<1>2. PICK dist: Laid(dist)
  BY DEF RingInv
<1>3. /\ accepted' = accepted + 1
      /\ UNCHANGED <<cur_rx, hw_rd, rpc, rx_size, handled>>
  BY Zenon DEF ChipReceive
<1>4. /\ RX_BUF_LEN \in Nat /\ MaxSize \in Nat /\ n \in Nat /\ n >= 2 /\ n <= MaxSize
      /\ MaxSize < RX_BUF_LEN
      /\ hw_rd \in 0 .. RX_BUF_LEN - 1 /\ hw_wr \in 0 .. RX_BUF_LEN - 1
  BY SizesType, SMT DEF TypeOK
<1>5. Freed' = Freed
  BY <1>3, Zenon DEF Freed
<1>6. Freed \in Nat /\ accepted \in Nat /\ Freed <= accepted
  <2>1. Len(handled) \in Nat /\ accepted \in Nat
    BY SMT DEF TypeOK
  <2>2. QED
    BY <2>1, SMT DEF Freed, PlaceInv
<1>7. /\ Used \in 0 .. RX_BUF_LEN - 1
      /\ Used = IF hw_rd <= hw_wr THEN hw_wr - hw_rd ELSE hw_wr - hw_rd + RX_BUF_LEN
  BY <1>4, UsedIs
<1>8. hw_wr' = IF hw_wr + n < RX_BUF_LEN THEN hw_wr + n ELSE hw_wr + n - RX_BUF_LEN
  BY <1>1, <1>4, ModOnce, SMT
<1>9. Used' = Used + n
  <2>1. hw_wr' \in 0 .. RX_BUF_LEN - 1 /\ hw_rd' \in 0 .. RX_BUF_LEN - 1
    BY <1>3, <1>4, <1>8, SMT
  <2>2. (hw_wr \in 0 .. RX_BUF_LEN - 1 /\ hw_rd \in 0 .. RX_BUF_LEN - 1 =>
         Used = IF hw_rd <= hw_wr THEN hw_wr - hw_rd ELSE hw_wr - hw_rd + RX_BUF_LEN)'
    BY UsedIs, PTL
  <2>3. Used' = IF hw_rd <= hw_wr' THEN hw_wr' - hw_rd ELSE hw_wr' - hw_rd + RX_BUF_LEN
    BY <1>3, <2>1, <2>2, Zenon
  <2>4. QED
    BY <1>1, <1>4, <1>7, <1>8, <2>3, SMT
<1>0. PICK far: far = [k \in Freed .. accepted + 1 |->
                       IF k = accepted + 1 THEN Used + n ELSE dist[k]]
  OBVIOUS
<1>10. far \in [Freed .. accepted + 1 -> 0 .. RX_BUF_LEN - 1]
  <2>1. ASSUME NEW k \in Freed .. accepted + 1, k # accepted + 1
        PROVE  dist[k] \in 0 .. RX_BUF_LEN - 1
    <3>1. k \in Freed .. accepted
      BY <1>6, <2>1, SMT
    <3>2. QED
      BY <1>2, <3>1, Zenon DEF Laid
  <2>2. Used + n \in 0 .. RX_BUF_LEN - 1
    BY <1>1, <1>4, <1>7, SMT
  <2>3. QED
    BY <1>0, <2>1, <2>2, Zenon
<1>11. PlaceInv'
  <2>1. /\ Freed' <= accepted'
        /\ rpc' \in {"header", "copy", "advance"} => Freed' < accepted'
    BY <1>3, <1>5, <1>6, SMT
  <2>2. rx_ring'[RX_BUF_LEN].frame >= 0 => rx_ring'[RX_BUF_LEN].part # 0
    BY <1>1, <1>4, SMT DEF PlaceInv, Cells
  <2>3. QED
    BY <1>3, <2>1, <2>2, Zenon DEF PlaceInv
<1>12. Laid(far)'
  <2>1. /\ accepted + 1 \in Freed .. accepted + 1 /\ Freed \in Freed .. accepted + 1
        /\ Freed # accepted + 1 /\ accepted # accepted + 1
        /\ \A k \in Freed .. accepted: k \in Freed .. accepted + 1 /\ k # accepted + 1
    BY <1>6, SMT
  <2>2. \A k \in Freed .. accepted: far[k] = dist[k]
    BY <1>0, <2>1, Zenon
  <2>3. far[accepted + 1] = Used + n
    BY <1>0, <2>1, Zenon
  <2>4. far[Freed] = 0 /\ far[accepted] = Used
    BY <1>2, <1>6, <2>2, SMT DEF Laid
  <2>5. ASSUME NEW j \in Freed .. accepted, NEW k \in j + 1 .. accepted + 1
        PROVE  far[j + 1] + 2 * (k - j - 1) <= far[k]
    <3>1. CASE k = accepted + 1
      <4>1. CASE j = accepted
        BY <1>4, <1>6, <1>7, <2>3, <3>1, <4>1, SMT
      <4>2. CASE j # accepted
        <5>1. j \in Freed .. accepted - 1 /\ accepted \in j + 1 .. accepted
              /\ j + 1 \in Freed .. accepted
          BY <1>6, <4>2, SMT
        <5>2. /\ dist[j + 1] + 2 * (accepted - j - 1) <= Used
              /\ dist[j + 1] \in 0 .. RX_BUF_LEN - 1
          BY <1>2, <5>1, Zenon DEF Laid
        <5>3. QED
          BY <1>4, <1>6, <1>7, <2>2, <2>3, <3>1, <5>1, <5>2, SMT
      <4>3. QED
        BY <4>1, <4>2
    <3>2. CASE k # accepted + 1
      <4>1. j \in Freed .. accepted - 1 /\ k \in j + 1 .. accepted
            /\ j + 1 \in Freed .. accepted /\ k \in Freed .. accepted
        BY <1>6, <3>2, SMT
      <4>2. dist[j + 1] + 2 * (k - j - 1) <= dist[k]
        BY <1>2, <4>1, Zenon DEF Laid
      <4>3. QED
        BY <2>2, <4>1, <4>2, Zenon
    <3>3. QED
      BY <3>1, <3>2
  <2>6. ASSUME NEW d PROVE Cell(d)' = Cell(d)
    BY <1>3, Zenon DEF Cell
  <2>7. ASSUME NEW k \in Freed .. accepted
        PROVE  /\ far[k + 1] - far[k] \in Sizes
               /\ Stored(k, Cell(far[k]), far[k + 1] - far[k])'
    <3>1. CASE k = accepted
      <4>1. far[k + 1] - far[k] = n /\ far[k] = Used
        BY <1>4, <1>7, <2>3, <2>4, <3>1, SMT
      <4>2. Cell(Used) = hw_wr
        BY <1>4, <1>7, SMT DEF Cell
      <4>3. ASSUME NEW i \in 0 .. n - 1
            PROVE  rx_ring'[hw_wr + i] = [frame |-> k, part |-> i, size |-> n]
        <5>1. hw_wr + i \in Cells /\ hw_wr + i \in hw_wr .. hw_wr + n - 1 /\ (hw_wr + i) - hw_wr = i
          BY <1>4, SMT DEF Cells
        <5>2. rx_ring'[hw_wr + i] = [frame |-> accepted, part |-> (hw_wr + i) - hw_wr, size |-> n]
          BY <1>1, <5>1, Zenon
        <5>3. QED
          BY <3>1, <5>1, <5>2, Zenon
      <4>4. Cell(far[k])' = hw_wr
        BY <2>6, <4>1, <4>2, Zenon DEF Cell
      <4>5. QED
        BY <4>1, <4>3, <4>4, Zenon DEF Stored
    <3>2. CASE k # accepted
      <4>1. k \in Freed .. accepted - 1 /\ k + 1 \in Freed .. accepted
        BY <1>6, <3>2, SMT
      <4>2. far[k] = dist[k] /\ far[k + 1] = dist[k + 1]
        BY <2>2, <4>1, Zenon
      <4>3. dist[k + 1] - dist[k] \in Sizes /\ Stored(k, Cell(dist[k]), dist[k + 1] - dist[k])
        BY <1>2, <4>1, Zenon DEF Laid
      <4>4. ASSUME NEW i \in 0 .. dist[k + 1] - dist[k] - 1
            PROVE  rx_ring'[Cell(dist[k]) + i] = rx_ring[Cell(dist[k]) + i]
        <5>1. /\ Cell(dist[k]) + i \in Cells
              /\ Cell(dist[k]) + i \notin hw_wr .. hw_wr + n - 1
          BY <1>1, <1>2, <4>1, WritesNoFrame
        <5>2. QED
          BY <1>1, <5>1, Zenon
      <4>5. Cell(far[k])' = Cell(dist[k])
        BY <2>6, <4>2, Zenon DEF Cell
      <4>6. QED
        BY <4>2, <4>3, <4>4, <4>5, Zenon DEF Stored
    <3>3. QED
      BY <3>1, <3>2
  <2>8. rpc' \in {"copy", "advance"} => rx_size' = far[Freed + 1]
    <3>1. rpc \in {"copy", "advance"} => Freed + 1 \in Freed .. accepted
      BY <1>6, SMT DEF PlaceInv
    <3>2. QED
      BY <1>2, <1>3, <2>2, <3>1, Zenon DEF Laid
  <2>9. /\ accepted' = accepted + 1 /\ accepted' - 1 = accepted
        /\ far[accepted'] = Used'
    BY <1>3, <1>6, <1>9, <2>3, SMT
  <2>10. QED
    BY <1>5, <1>10, <2>4, <2>5, <2>7, <2>8, <2>9, Zenon DEF Laid
<1>13. RingInv'
  BY <1>3, <1>5, <1>10, <1>12, Zenon DEF RingInv
<1>14. QED
  BY <1>11, <1>13

\* CAPR moves on by the frame that was handled: those behind it come nearer.
LEMMA AdvanceLays ==
  ASSUME TypeOK, PlaceInv, RingInv, RxAdvance
  PROVE  RingInv' /\ PlaceInv'
<1> USE DEF stats, chip
<1>1. PICK dist: Laid(dist)
  BY DEF RingInv
<1>2. /\ rpc = "advance" /\ rpc' = "test" /\ cur_rx = hw_rd /\ rx_size = dist[Freed + 1]
      /\ cur_rx' = cur_rx + rx_size /\ hw_rd' = (cur_rx + rx_size) % RX_BUF_LEN
      /\ UNCHANGED <<rx_ring, hw_wr, accepted, handled>>
  BY <1>1, Zenon DEF RxAdvance, PlaceInv, Laid
<1> DEFINE n == dist[Freed + 1]
<1>3. n \in Sizes
  BY <1>1, <1>2, FirstLaid, Zenon DEF PlaceInv
<1>4. /\ RX_BUF_LEN \in Nat /\ n \in Nat /\ n >= 2 /\ n < RX_BUF_LEN
      /\ hw_rd \in 0 .. RX_BUF_LEN - 1 /\ hw_wr \in 0 .. RX_BUF_LEN - 1
  BY <1>3, SizesType, SMT DEF TypeOK
<1>5. /\ Freed \in Nat /\ accepted \in Nat /\ Freed < accepted /\ Freed' = Freed + 1
  <2>1. Len(handled) \in Nat /\ accepted \in Nat
    BY SMT DEF TypeOK
  <2>2. QED
    BY <1>2, <2>1, SMT DEF Freed, PlaceInv
<1>6. /\ Freed + 1 \in Freed .. accepted /\ accepted \in Freed + 1 .. accepted
      /\ Freed \in Freed .. accepted - 1
      /\ \A k \in Freed + 1 .. accepted: k \in Freed .. accepted
      /\ \A k \in Freed + 1 .. accepted - 1: k \in Freed .. accepted - 1
                                             /\ k \in Freed + 1 .. accepted
                                             /\ k + 1 \in Freed + 1 .. accepted
  BY <1>5, SMT
<1>7. ASSUME NEW k \in Freed + 1 .. accepted
      PROVE  n <= dist[k] /\ dist[k] \in 0 .. RX_BUF_LEN - 1
  <2>1. n + 2 * (k - Freed - 1) <= dist[k] /\ dist[k] \in 0 .. RX_BUF_LEN - 1
    BY <1>1, <1>6, <1>7, Zenon DEF Laid
  <2> HIDE DEF n
  <2>2. QED
    BY <1>4, <1>5, <1>7, <2>1, SMT
<1>8. Used \in 0 .. RX_BUF_LEN - 1 /\ n <= Used
  BY <1>1, <1>4, <1>6, <1>7, UsedIs, Zenon DEF Laid
<1>9. hw_rd' = IF hw_rd + n < RX_BUF_LEN THEN hw_rd + n ELSE hw_rd + n - RX_BUF_LEN
  BY <1>2, <1>4, ModOnce, SMT
<1>10. Used' = Used - n
  <2>1. hw_wr' \in 0 .. RX_BUF_LEN - 1 /\ hw_rd' \in 0 .. RX_BUF_LEN - 1
    BY <1>2, <1>4, <1>9, SMT
  <2>2. (hw_wr \in 0 .. RX_BUF_LEN - 1 /\ hw_rd \in 0 .. RX_BUF_LEN - 1 =>
         Used = IF hw_rd <= hw_wr THEN hw_wr - hw_rd ELSE hw_wr - hw_rd + RX_BUF_LEN)'
    BY UsedIs, PTL
  <2>3. Used' = IF hw_rd' <= hw_wr THEN hw_wr - hw_rd' ELSE hw_wr - hw_rd' + RX_BUF_LEN
    BY <1>2, <2>1, <2>2, Zenon
  <2>4. Used = IF hw_rd <= hw_wr THEN hw_wr - hw_rd ELSE hw_wr - hw_rd + RX_BUF_LEN
    BY <1>4, UsedIs
  <2> HIDE DEF n
  <2>5. CASE hw_rd + n < RX_BUF_LEN
    BY <1>4, <1>8, <1>9, <2>3, <2>4, <2>5, SMT
  <2>6. CASE hw_rd + n >= RX_BUF_LEN
    BY <1>4, <1>8, <1>9, <2>3, <2>4, <2>6, SMT
  <2>7. QED
    BY <1>4, <2>5, <2>6, SMT
<1>0. PICK near: near = [k \in Freed + 1 .. accepted |-> dist[k] - n]
  OBVIOUS
<1>11. near \in [Freed + 1 .. accepted -> 0 .. RX_BUF_LEN - 1]
  <2>1. ASSUME NEW k \in Freed + 1 .. accepted PROVE dist[k] - n \in 0 .. RX_BUF_LEN - 1
    <3>1. n <= dist[k] /\ dist[k] \in 0 .. RX_BUF_LEN - 1
      BY <1>7
    <3>2. QED
      BY <1>4, <3>1, SMT
  <2>2. QED
    BY <1>0, <2>1, Zenon
<1>12. ASSUME NEW k \in Freed + 1 .. accepted
       PROVE  near[k] = dist[k] - n /\ Cell(near[k])' = Cell(dist[k])
  <2>1. near[k] = dist[k] - n
    BY <1>0, <1>12, Zenon
  <2>2. n <= dist[k] /\ dist[k] \in 0 .. RX_BUF_LEN - 1
    BY <1>7
  <2>3. Cell(near[k])' = IF hw_rd' + near[k] < RX_BUF_LEN
                         THEN hw_rd' + near[k] ELSE hw_rd' + near[k] - RX_BUF_LEN
    BY DEF Cell
  <2> HIDE DEF n
  <2>4. QED
    BY <1>4, <1>9, <2>1, <2>2, <2>3, SMT DEF Cell
<1>13. Laid(near)'
  <2>1. near[Freed + 1] = 0
    BY <1>4, <1>6, <1>12, SMT
  <2>2. near[accepted] = Used'
    BY <1>1, <1>6, <1>10, <1>12, Zenon DEF Laid
  <2>3. ASSUME NEW j \in Freed + 1 .. accepted - 1, NEW k \in j + 1 .. accepted
        PROVE  near[j + 1] + 2 * (k - j - 1) <= near[k]
    <3>1. /\ j \in Freed .. accepted - 1 /\ j + 1 \in Freed + 1 .. accepted
          /\ k \in Freed + 1 .. accepted
      BY <1>5, SMT
    <3>2. dist[j + 1] + 2 * (k - j - 1) <= dist[k]
      BY <1>1, <3>1, Zenon DEF Laid
    <3>3. /\ near[j + 1] = dist[j + 1] - n /\ near[k] = dist[k] - n
          /\ dist[j + 1] \in 0 .. RX_BUF_LEN - 1 /\ dist[k] \in 0 .. RX_BUF_LEN - 1
      BY <1>7, <1>12, <3>1, Zenon
    <3> HIDE DEF n
    <3>4. QED
      BY <1>4, <1>5, <3>2, <3>3, SMT
  <2>4. ASSUME NEW k \in Freed + 1 .. accepted - 1
        PROVE  /\ near[k + 1] - near[k] \in Sizes
               /\ Stored(k, Cell(near[k]), near[k + 1] - near[k])'
    <3>1. dist[k + 1] - dist[k] \in Sizes /\ Stored(k, Cell(dist[k]), dist[k + 1] - dist[k])
      BY <1>1, <1>6, Zenon DEF Laid
    <3>2. /\ near[k + 1] = dist[k + 1] - n /\ near[k] = dist[k] - n
          /\ dist[k + 1] \in 0 .. RX_BUF_LEN - 1 /\ dist[k] \in 0 .. RX_BUF_LEN - 1
          /\ Cell(near[k])' = Cell(dist[k])
      BY <1>6, <1>7, <1>12, Zenon
    <3>3. near[k + 1] - near[k] = dist[k + 1] - dist[k]
      <4> HIDE DEF n
      <4>1. QED
        BY <1>4, <3>2, SMT
    <3>4. QED
      BY <1>2, <3>1, <3>2, <3>3, Zenon DEF Stored
  <2>5. accepted' = accepted /\ Freed' = Freed + 1 /\ rpc' = "test"
    BY <1>2, <1>5
  <2>6. QED
    BY <1>11, <2>1, <2>2, <2>3, <2>4, <2>5, Zenon DEF Laid
<1>14. RingInv'
  BY <1>2, <1>5, <1>11, <1>13, Zenon DEF RingInv
<1>15. PlaceInv'
  <2>1. Freed' <= accepted'
    BY <1>2, <1>5, SMT
  <2>2. cur_rx' = hw_rd' \/ cur_rx' = hw_rd' + RX_BUF_LEN
    BY <1>2, <1>4, <1>9, SMT
  <2>3. QED
    BY <1>2, <2>1, <2>2, Zenon DEF PlaceInv
<1>16. QED
  BY <1>14, <1>15

\* The ring is empty for the chip when every frame has been given back, only then.
LEMMA EmptyIs ==
  ASSUME TypeOK, PlaceInv, RingInv
  PROVE  RxBufEmpty <=> Freed = accepted
<1>1. PICK dist: Laid(dist)
  BY DEF RingInv
<1>2. Used = 0 <=> RxBufEmpty
  BY UsedIs DEF TypeOK
<1>3. Freed \in Nat /\ accepted \in Nat /\ Freed <= accepted
  <2>1. Len(handled) \in Nat /\ accepted \in Nat
    BY SMT DEF TypeOK
  <2>2. QED
    BY <2>1, SMT DEF Freed, PlaceInv
<1>4. CASE Freed = accepted
  BY <1>1, <1>2, <1>4, Zenon DEF Laid
<1>5. CASE Freed < accepted
  <2>1. dist[Freed + 1] \in Sizes
    BY <1>1, <1>5, FirstLaid
  <2>2. Freed \in Freed .. accepted - 1 /\ accepted \in Freed + 1 .. accepted
    BY <1>3, <1>5, SMT
  <2>3. dist[Freed + 1] + 2 * (accepted - Freed - 1) <= Used
    BY <1>1, <2>2, Zenon DEF Laid
  <2>4. Used # 0
    BY <1>3, <1>5, <2>1, <2>3, SizesType, SMT
  <2>5. Freed # accepted
    BY <1>3, <1>5, SMT
  <2>6. QED
    BY <1>2, <2>4, <2>5, Zenon
<1>6. QED
  BY <1>3, <1>4, <1>5, SMT

\* The chip's other steps and the handler's first ones leave the ring alone.
LEMMA OthersKeep ==
  ASSUME TypeOK, PlaceInv, RingInv,
         ChipOverflow \/ ChipError \/ IrqReadIsr \/ IrqAck \/ RxTest
  PROVE  RingInv' /\ PlaceInv'
<1> USE DEF stats, chip
<1>1. /\ UNCHANGED <<rx_ring, hw_wr, hw_rd, accepted, handled, cur_rx, rx_size>>
      /\ rpc' = "advance" <=> rpc = "advance"
      /\ rpc' = "copy" <=> rpc = "copy"
      /\ rpc' = "header" => rpc = "header" \/ (rpc = "test" /\ ~RxBufEmpty)
  BY Zenon DEF ChipOverflow, ChipError, IrqReadIsr, IrqAck, RxTest
<1>2. Freed' = Freed
  BY <1>1, Zenon DEF Freed
<1>3. RingInv'
  <2>1. PICK dist \in [Freed .. accepted -> 0 .. RX_BUF_LEN - 1]: Laid(dist)
    BY DEF RingInv
  <2>2. rpc' \in {"copy", "advance"} => rx_size' = dist[Freed + 1]
    BY <1>1, <2>1, Zenon DEF Laid
  <2>3. Laid(dist)'
    BY <1>1, <1>2, <2>1, <2>2, LaidSame, Zenon
  <2>4. QED
    BY <1>1, <1>2, <2>1, <2>3, Zenon DEF RingInv
<1>4. rpc' = "header" => Freed < accepted
  <2>1. ~RxBufEmpty => Freed # accepted
    BY EmptyIs
  <2>2. ~RxBufEmpty => Freed < accepted
    <3>1. Len(handled) \in Nat /\ accepted \in Nat /\ Freed <= accepted
      BY SMT DEF TypeOK, PlaceInv
    <3>2. QED
      BY <2>1, <3>1, SMT DEF Freed
  <2>3. QED
    BY <1>1, <2>2, Zenon DEF PlaceInv
<1>5. QED
  BY <1>1, <1>2, <1>3, <1>4, Zenon DEF PlaceInv

LEMMA HeaderKeeps ==
  ASSUME TypeOK, PlaceInv, RingInv, RxHeader
  PROVE  RingInv' /\ PlaceInv' /\ LostOnlyAtEnd'
<1> USE DEF stats, chip
<1>1. PICK dist \in [Freed .. accepted -> 0 .. RX_BUF_LEN - 1]: Laid(dist)
  BY DEF RingInv
<1>2. IF cur_rx = RX_BUF_LEN
      THEN cur_rx' = cur_rx /\ rx_size' = 0 /\ rpc' = "lost"
      ELSE cur_rx' = hw_rd /\ rx_size' = dist[Freed + 1] /\ rpc' = "copy"
  BY <1>1, HeaderRead
<1>3. /\ UNCHANGED <<rx_ring, hw_wr, hw_rd, accepted, handled>>
      /\ rpc = "header"
  BY Zenon DEF RxHeader
<1>4. Freed' = Freed /\ rpc' \in {"copy", "lost"}
  BY <1>2, <1>3, Zenon DEF Freed
<1>5. Laid(dist)'
  BY <1>1, <1>2, <1>3, <1>4, LaidSame, Zenon
<1>6. RingInv'
  BY <1>1, <1>3, <1>4, <1>5, Zenon DEF RingInv
<1>7. PlaceInv'
  BY <1>2, <1>3, <1>4, Zenon DEF PlaceInv
<1>8. QED
  BY <1>2, <1>6, <1>7, Zenon DEF LostOnlyAtEnd

\* A copy leaves the room of its frame to be given back by the next step.
LEMMA CopyKeeps ==
  ASSUME TypeOK, PlaceInv, RingInv, RxCopy
  PROVE  RingInv' /\ PlaceInv'
<1> USE DEF stats, chip
<1>1. PICK dist \in [Freed .. accepted -> 0 .. RX_BUF_LEN - 1]: Laid(dist)
  BY DEF RingInv
<1>2. /\ UNCHANGED <<rx_ring, hw_wr, hw_rd, accepted, cur_rx, rx_size>>
      /\ rpc = "copy" /\ rpc' = "advance"
  BY Zenon DEF RxCopy
<1>3. Len(handled) \in Nat /\ Len(handled') = Len(handled) + 1
  BY SMT DEF TypeOK, RxCopy
<1>4. Freed' = Freed
  BY <1>2, <1>3, SMT DEF Freed
<1>5. Laid(dist)'
  <2>1. rx_size' = dist[Freed + 1]
    BY <1>1, <1>2, Zenon DEF Laid
  <2>2. QED
    BY <1>1, <1>2, <1>4, <2>1, LaidSame, Zenon
<1>6. RingInv'
  BY <1>1, <1>2, <1>4, <1>5, Zenon DEF RingInv
<1>7. Len(handled') > 0
  BY <1>3, SMT
<1>8. PlaceInv'
  BY <1>2, <1>4, <1>7, Zenon DEF PlaceInv
<1>9. QED
  BY <1>6, <1>8

LEMMA RingStep ==
  ASSUME RxRingInv, Next
  PROVE  RxRingInv'
<1> USE DEF RxRingInv
<1>1. TypeOK'
  BY TypeStep
<1>2. CASE ChipReceive
  <2>1. RingInv' /\ PlaceInv'
    BY <1>2, ReceiveLays
  <2>2. LostOnlyAtEnd'
    BY <1>2, Zenon DEF ChipReceive, LostOnlyAtEnd
  <2>3. QED
    BY <1>1, <2>1, <2>2
<1>3. CASE ChipOverflow \/ ChipError \/ IrqReadIsr \/ IrqAck \/ RxTest
  <2>1. RingInv' /\ PlaceInv'
    BY <1>3, OthersKeep
  <2>2. LostOnlyAtEnd'
    BY <1>3, Zenon
       DEF ChipOverflow, ChipError, IrqReadIsr, IrqAck, RxTest, LostOnlyAtEnd
  <2>3. QED
    BY <1>1, <2>1, <2>2
<1>4. CASE RxHeader
  BY <1>1, <1>4, HeaderKeeps
<1>5. CASE RxCopy
  <2>1. RingInv' /\ PlaceInv'
    BY <1>5, CopyKeeps
  <2>2. LostOnlyAtEnd'
    BY <1>5, Zenon DEF RxCopy, LostOnlyAtEnd
  <2>3. QED
    BY <1>1, <2>1, <2>2
<1>6. CASE RxAdvance
  <2>1. RingInv' /\ PlaceInv'
    BY <1>6, AdvanceLays
  <2>2. LostOnlyAtEnd'
    BY <1>6, Zenon DEF RxAdvance, LostOnlyAtEnd
  <2>3. QED
    BY <1>1, <2>1, <2>2
<1>7. QED
  BY <1>2, <1>3, <1>4, <1>5, <1>6, Zenon DEF Next, Irq

LEMMA RingStart == Init => RxRingInv
<1> SUFFICES ASSUME Init PROVE RxRingInv
  OBVIOUS
<1>1. RX_BUF_LEN \in Nat /\ RX_BUF_LEN > 0 /\ MaxSize \in Nat /\ MaxSize < RX_BUF_LEN /\ MaxSize > 0
  BY SizesType, SMT
<1>2. Len(handled) = 0 /\ Freed = 0
  BY SMT DEF Init, Freed
<1>3. TypeOK
  <2>1. rx_ring \in [Cells -> [frame: Int, part: Nat, size: Nat]]
    <3>1. NoCell \in [frame: Int, part: Nat, size: Nat]
      BY SMT DEF NoCell
    <3>2. QED
      BY <3>1, Zenon DEF Init
  <2>2. cur_rx \in Cells /\ hw_wr \in 0 .. RX_BUF_LEN - 1 /\ hw_rd \in 0 .. RX_BUF_LEN - 1
    BY <1>1, SMT DEF Init, Cells
  <2>3. handled \in Seq([frame: Int, up: BOOLEAN])
    BY SMT DEF Init
  <2>4. rx_packets \in Nat /\ rx_dropped \in Nat /\ rx_errors \in Nat /\ accepted \in Nat
    BY SMT DEF Init
  <2>5. isr \subseteq IsrBits /\ status \subseteq IsrBits /\ swallowed \in BOOLEAN
    BY Zenon DEF Init
  <2>6. QED
    BY <2>1, <2>2, <2>3, <2>4, <2>5, Zenon DEF Init, TypeOK
<1>4. PlaceInv
  <2>1. rx_ring[RX_BUF_LEN].frame = -1
    BY <1>1, SMT DEF Init, Cells, NoCell
  <2>2. Freed <= accepted /\ cur_rx = hw_rd
    BY <1>2, SMT DEF Init
  <2>3. QED
    BY <2>1, <2>2, SMT DEF PlaceInv, Init
<1>5. RingInv
  <2>1. PICK dist: dist = [k \in 0 .. 0 |-> 0]
    OBVIOUS
  <2>2. dist \in [0 .. 0 -> 0 .. RX_BUF_LEN - 1] /\ dist[0] = 0
    BY <1>1, <2>1, SMT
  <2>3. Used = 0 /\ accepted = 0 /\ 0 .. 0 - 1 = {}
    <3>1. Used = 0
      BY <1>1, UsedIs, SMT DEF Init, RxBufEmpty
    <3>2. QED
      BY <3>1, SMT DEF Init
  <2>4. Laid(dist)
    BY <1>2, <2>2, <2>3, Zenon DEF Laid, Init
  <2>5. QED
    BY <1>2, <2>2, <2>3, <2>4, Zenon DEF RingInv
<1>6. QED
  BY <1>3, <1>4, <1>5, Zenon DEF RxRingInv, LostOnlyAtEnd, Init

\* The frames not yet given back always lie whole and one behind the other, from
\* where CAPR stands to where the chip writes.
THEOREM RingCorrect == Spec => []RxRingInv
<1>1. RxRingInv /\ [Next]_vars => RxRingInv'
  <2> SUFFICES ASSUME RxRingInv, [Next]_vars PROVE RxRingInv'
    OBVIOUS
  <2>1. CASE Next
    BY <2>1, RingStep
  <2>2. CASE UNCHANGED vars
    <3> USE DEF vars, stats, chip
    <3>1. Freed' = Freed
      BY <2>2, Zenon DEF Freed
    <3>2. RingInv'
      <4>1. PICK dist \in [Freed .. accepted -> 0 .. RX_BUF_LEN - 1]: Laid(dist)
        BY DEF RxRingInv, RingInv
      <4>2. rpc' \in {"copy", "advance"} => rx_size' = dist[Freed + 1]
        BY <2>2, <4>1, Zenon DEF Laid
      <4>3. UNCHANGED <<rx_ring, hw_wr, hw_rd, accepted>>
        BY <2>2
      <4>4. Laid(dist)'
        BY <3>1, <4>1, <4>2, <4>3, LaidSame, Zenon
      <4>5. QED
        BY <3>1, <4>1, <4>3, <4>4, Zenon DEF RingInv
    <3>3. TypeOK'
      BY <2>2 DEF RxRingInv, TypeOK
    <3>4. PlaceInv' /\ LostOnlyAtEnd'
      BY <2>2, <3>1, Zenon DEF RxRingInv, PlaceInv, LostOnlyAtEnd
    <3>5. QED
      BY <3>2, <3>3, <3>4 DEF RxRingInv
  <2>3. QED
    BY <2>1, <2>2
<1>2. QED
  BY <1>1, RingStart, PTL DEF Spec

\* A position never leaves the memory allocated for the ring and its padding.
THEOREM TypeCorrect == Spec => []TypeOK
<1>1. RxRingInv => TypeOK
  BY DEF RxRingInv
<1>2. QED
  BY <1>1, RingCorrect, PTL

\* The handler can miss a header at the very end of the ring and nowhere else.
THEOREM LosesOnlyAtEnd == Spec => []LostOnlyAtEnd
<1>1. RxRingInv => LostOnlyAtEnd
  BY DEF RxRingInv
<1>2. QED
  BY <1>1, RingCorrect, PTL

\* A ring that is empty for the chip has no frame the driver has yet to handle.
THEOREM EmptyIsHandled == Spec => []EmptyMeansHandled
<1>1. RxRingInv => EmptyMeansHandled
  <2> SUFFICES ASSUME RxRingInv, RxBufEmpty, rpc \in {"idle", "read", "test"}
               PROVE  Len(handled) = accepted
    BY DEF EmptyMeansHandled
  <2>1. Freed = accepted
    BY EmptyIs DEF RxRingInv
  <2>2. Freed = Len(handled)
    BY Zenon DEF Freed
  <2>3. QED
    BY <2>1, <2>2
<1>2. QED
  BY <1>1, RingCorrect, PTL

\* Without an RxOK that was cleared unread, no frame is left behind in the ring.
THEOREM LeavesOnlySwallowed == Spec => []LeftOnlyIfSwallowed
<1>1. Init => ReportInv
  BY Zenon DEF Init, ReportInv, RxBufEmpty
<1>2. ReportInv /\ [Next]_vars => ReportInv'
  <2>1. ReportInv /\ UNCHANGED vars => ReportInv'
    <3> SUFFICES ASSUME ReportInv, UNCHANGED vars PROVE ReportInv'
      OBVIOUS
    <3>1. UNCHANGED <<hw_wr, hw_rd, rpc, isr, status, swallowed>>
      BY DEF vars, chip
    <3>2. QED
      BY <3>1 DEF ReportInv, RxBufEmpty
  <2>2. QED
    BY <2>1, ReportStep
<1>3. ReportInv => LeftOnlyIfSwallowed
  BY Zenon DEF ReportInv, LeftOnlyIfSwallowed
<1>4. QED
  BY <1>1, <1>2, <1>3, PTL DEF Spec

(* The stream of frames                                                    *)

\* What is copied is the first frame that has not been handled, whole.
LEMMA CopiedIs ==
  ASSUME RxRingInv, RxCopy
  PROVE  Copied = Len(handled) /\ Len(handled) < accepted
<1> USE DEF RxRingInv
<1>1. PICK dist: Laid(dist)
  BY DEF RingInv
<1>2. rpc = "copy" /\ Freed = Len(handled) /\ Freed < accepted
  BY Zenon DEF RxCopy, Freed, PlaceInv
<1>3. cur_rx = hw_rd /\ rx_size = dist[Freed + 1]
  BY <1>1, <1>2, Zenon DEF PlaceInv, Laid
<1>4. dist[Freed + 1] \in Sizes /\ Stored(Freed, hw_rd, dist[Freed + 1])
  BY <1>1, <1>2, FirstLaid
<1>5. rx_size \in Nat /\ rx_size >= 2 /\ hw_rd \in 0 .. RX_BUF_LEN - 1
  BY <1>3, <1>4, SizesType, SMT DEF TypeOK
<1>6. ASSUME NEW k \in 0 .. rx_size - 1
      PROVE  rx_ring[cur_rx + k] = [frame |-> Len(handled), part |-> k, size |-> rx_size]
  BY <1>2, <1>3, <1>4, Zenon DEF Stored
<1>7. rx_ring[cur_rx] = [frame |-> Len(handled), part |-> 0, size |-> rx_size]
  <2>1. 0 \in 0 .. rx_size - 1 /\ cur_rx + 0 = cur_rx
    BY <1>3, <1>5, SMT
  <2>2. QED
    BY <1>6, <2>1, Zenon
<1>8. ASSUME NEW k \in 0 .. rx_size - 1
      PROVE  rx_ring[cur_rx + k] = [rx_ring[cur_rx] EXCEPT !.part = k]
  <2>1. [rx_ring[cur_rx] EXCEPT !.part = k]
        = [frame |-> Len(handled), part |-> k, size |-> rx_size]
    BY <1>7, SMT
  <2>2. QED
    BY <1>6, <2>1
<1>9. rx_ring[cur_rx].size = rx_size /\ rx_ring[cur_rx].frame = Len(handled)
  BY <1>7, SMT
<1>10. QED
  BY <1>2, <1>8, <1>9, Zenon DEF Copied

LEMMA StreamStep ==
  RxRingInv /\ [Next]_vars => [Stream!Next]_(Stream!vars)
<1> SUFFICES ASSUME RxRingInv, [Next]_vars PROVE [Stream!Next]_(Stream!vars)
  OBVIOUS
<1> USE DEF stats, chip, Stream!vars, Stream!Next
<1>1. CASE ChipReceive
  BY <1>1, Zenon DEF ChipReceive, Stream!Arrive
<1>2. CASE ChipOverflow \/ ChipError \/ IrqReadIsr \/ IrqAck \/ RxTest
  BY <1>2, Zenon DEF ChipOverflow, ChipError, IrqReadIsr, IrqAck, RxTest
<1>3. CASE RxHeader \/ RxAdvance
  BY <1>3, Zenon DEF RxHeader, RxAdvance
<1>4. CASE RxCopy
  <2>1. Copied = Len(handled) /\ Len(handled) < accepted
    BY <1>4, CopiedIs
  <2>2. PICK skb \in BOOLEAN:
          /\ handled' = Append(handled, [frame |-> Copied, up |-> skb])
          /\ IF skb THEN rx_packets' = rx_packets + 1 /\ UNCHANGED rx_dropped
                    ELSE rx_dropped' = rx_dropped + 1 /\ UNCHANGED rx_packets
    BY <1>4, Zenon DEF RxCopy
  <2>3. UNCHANGED accepted
    BY <1>4, Zenon DEF RxCopy
  <2>4. CASE skb = TRUE
    BY <2>1, <2>2, <2>3, <2>4, Zenon DEF Stream!GoUp
  <2>5. CASE skb = FALSE
    BY <2>1, <2>2, <2>3, <2>5, Zenon DEF Stream!Drop
  <2>6. QED
    BY <2>4, <2>5, Zenon
<1>5. CASE UNCHANGED vars
  BY <1>5, Zenon DEF vars
<1>6. QED
  BY <1>1, <1>2, <1>3, <1>4, <1>5, Zenon DEF Next, Irq

\* Every frame the chip took in is handled once, in order of arrival, and whole,
\* for a ring of any length.
THEOREM Refinement == Spec => RefinesFrameStream
<1>1. Init => Stream!Init
  BY Zenon DEF Init, Stream!Init
<1>2. QED
  BY <1>1, StreamStep, RingCorrect, PTL DEF Spec, RefinesFrameStream, Stream!Spec

-----------------------------------------------------------------------------
(* The handler comes to an end.                                            *)

\* A frame is a header and a dword at least, and they do not overlap.
LEMMA FramesFit ==
  ASSUME TypeOK, PlaceInv, RingInv
  PROVE  2 * (accepted - Freed) <= Used /\ Used < RX_BUF_LEN
<1>1. PICK dist: Laid(dist)
  BY DEF RingInv
<1>2. accepted \in Nat /\ Freed \in Int /\ Freed <= accepted
  <2>1. Len(handled) \in Nat /\ accepted \in Nat
    BY SMT DEF TypeOK
  <2>2. QED
    BY <2>1, SMT DEF Freed, PlaceInv
<1>3. Used \in 0 .. RX_BUF_LEN - 1
  BY UsedIs DEF TypeOK
<1>4. CASE Freed < accepted
  <2>1. dist[Freed + 1] \in Sizes
    BY <1>1, <1>4, FirstLaid
  <2>2. Freed \in Freed .. accepted - 1 /\ accepted \in Freed + 1 .. accepted
    BY <1>2, <1>4, SMT
  <2>3. dist[Freed + 1] + 2 * (accepted - Freed - 1) <= Used
    BY <1>1, <2>2, Zenon DEF Laid
  <2>4. QED
    BY <1>2, <1>3, <2>1, <2>3, SizesType, SMT
<1>5. QED
  BY <1>2, <1>3, <1>4, SizesType, SMT

LEMMA RxBounded == RxRingInv => HandlerBounded
<1> SUFFICES ASSUME RxRingInv PROVE HandlerBounded
  OBVIOUS
<1>1. accepted \in Nat /\ Len(handled) \in Nat
  BY DEF RxRingInv, TypeOK
<1>2. /\ Freed <= accepted
      /\ rpc \in {"header", "copy", "advance"} => Freed < accepted
  BY Zenon DEF RxRingInv, PlaceInv
<1>3. Freed \in Int
  BY <1>1 DEF Freed
<1>4. rpc \in {"idle", "read", "test", "header", "copy", "advance", "lost"}
  BY DEF RxRingInv, TypeOK
<1>5. 2 * (accepted - Freed) < RX_BUF_LEN
  <2>1. TypeOK /\ PlaceInv /\ RingInv
    BY Zenon DEF RxRingInv
  <2>2. 2 * (accepted - Freed) <= Used /\ Used < RX_BUF_LEN
    BY <2>1, FramesFit, Zenon
  <2>3. Used \in Int
    BY <2>1, UsedIs DEF TypeOK
  <2>4. QED
    BY <1>1, <1>3, <2>2, <2>3, SizesType, SMT
<1>6. QED
  BY <1>1, <1>2, <1>3, <1>4, <1>5, SizesType DEF HandlerBounded, RxLeft

\* On the way through the loop the room of a frame is given back once.
LEMMA RxShortens ==
  ASSUME RxRingInv, Irq, rpc \notin {"idle", "lost"}
  PROVE  RxLeft' < RxLeft
<1> USE DEF stats, chip
<1>1. /\ accepted \in Nat /\ Len(handled) \in Nat /\ Freed <= accepted
      /\ handled \in Seq([frame: Int, up: BOOLEAN])
  <2>1. Freed <= accepted
    BY Zenon DEF RxRingInv, PlaceInv
  <2>2. QED
    BY <2>1 DEF RxRingInv, TypeOK
<1>2. Freed \in Int /\ (rpc \in {"header", "copy", "advance"} => Freed < accepted)
  <2>1. rpc \in {"header", "copy", "advance"} => Freed < accepted
    BY Zenon DEF RxRingInv, PlaceInv
  <2>2. QED
    BY <1>1, <2>1 DEF Freed
<1>3. accepted' = accepted
  BY Zenon DEF Irq, IrqReadIsr, IrqAck, RxTest, RxHeader, RxCopy, RxAdvance
<1>4. ~IrqReadIsr
  BY DEF IrqReadIsr
<1>5. CASE IrqAck \/ RxTest \/ RxHeader
  <2>1. /\ handled' = handled
        /\ \/ rpc = "read" /\ rpc' \in {"test", "idle"}
           \/ rpc = "test" /\ rpc' \in {"idle", "header"}
           \/ rpc = "header" /\ rpc' \in {"copy", "lost"}
    BY <1>5 DEF IrqAck, RxTest, RxHeader
  <2>2. Freed' = Freed
    BY <2>1 DEF Freed
  <2>3. QED
    BY <1>1, <1>2, <1>3, <2>1, <2>2 DEF RxLeft
<1>6. CASE RxCopy
  <2>1. rpc = "copy" /\ rpc' = "advance" /\ Len(handled') = Len(handled) + 1
    BY <1>1, <1>6 DEF RxCopy
  <2>2. Freed' = Freed
    BY <1>1, <2>1 DEF Freed
  <2>3. QED
    BY <1>1, <1>2, <1>3, <2>1, <2>2 DEF RxLeft
<1>7. CASE RxAdvance
  <2>1. rpc = "advance" /\ rpc' = "test" /\ handled' = handled
    BY <1>7 DEF RxAdvance
  <2>2. Freed' = Freed + 1
    BY <1>1, <2>1 DEF Freed
  <2>3. QED
    BY <1>1, <1>2, <1>3, <2>1, <2>2 DEF RxLeft
<1>8. QED
  BY <1>4, <1>5, <1>6, <1>7 DEF Irq

\* The handler is at its end when it has handled what is in the ring, unless the
\* chip receives faster than it goes on: nothing in the driver bounds that.
THEOREM HandlerComesToEnd == Spec => []HandlerBounded /\ HandlerEnds
<1>1. ASSUME RxRingInv, [Next]_vars, rpc \notin {"idle", "lost"}
      PROVE  \/ Irq /\ RxLeft' < RxLeft
             \/ ChipReceive /\ RxLeft' = RxLeft + 4
             \/ RxLeft' = RxLeft /\ rpc' = rpc
  <2>1. CASE Irq
    BY <1>1, <2>1, RxShortens
  <2>2. CASE ChipReceive
    <3>1. accepted' = accepted + 1 /\ UNCHANGED <<rpc, handled>>
      BY <2>2 DEF ChipReceive
    <3>2. Freed' = Freed /\ Freed \in Int /\ accepted \in Nat
      BY <1>1, <3>1 DEF Freed, RxRingInv, TypeOK
    <3>3. QED
      BY <1>1, <2>2, <3>1, <3>2 DEF RxLeft
  <2>3. CASE ChipOverflow \/ ChipError \/ UNCHANGED vars
    <3>1. UNCHANGED <<accepted, rpc, handled>>
      BY <2>3, Zenon DEF ChipOverflow, ChipError, vars
    <3>2. QED
      BY <3>1 DEF RxLeft, Freed
  <2>4. QED
    BY <1>1, <2>1, <2>2, <2>3 DEF Next
<1>2. RxRingInv /\ [Next]_vars =>
        [rpc \notin {"idle", "lost"} =>
           \/ Irq /\ RxLeft' < RxLeft
           \/ ChipReceive /\ RxLeft' = RxLeft + 4
           \/ RxLeft' = RxLeft /\ rpc' = rpc]_vars
  BY <1>1
<1>3. QED
  BY <1>2, RxBounded, RingCorrect, PTL DEF Spec, HandlerEnds

=============================================================================
