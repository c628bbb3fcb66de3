--------------------------- MODULE BlockDeviceProofs ---------------------------
(***************************************************************************)
(* Proofs about BlockDevice5, for every capacity, every set of requests    *)
(* and every way to cut a request into segments; about BlockDevice26, for  *)
(* every way to cut it into chunks; and about the two side by side.        *)
(***************************************************************************)
EXTENDS VirtualBlockDev, TLAPS

\* A sector can hold something.
LEMMA AnyValueType == AnyValue \in Value
BY ValueAssumption, Zenon DEF AnyValue

\* An empty buffer is a buffer.
LEMMA BlankType == Blank \in Buffer
BY AnyValueType, Zenon DEF Blank, Buffer

\* The clamp leaves alone what ends on the device.
LEMMA ClampIdle ==
  ASSUME NEW p \in Nat, NEW n \in Nat, p + n <= capacity
  PROVE  Clamped(p, n) = n
BY CapacityAssumption, SMT DEF Clamped

(* The typing of each step                                                 *)

LEMMA InitType == Init => TypeOK
<1> SUFFICES ASSUME Init PROVE TypeOK
  OBVIOUS
<1>1. 0 \in Sector /\ 0 \in 0 .. capacity
  BY CapacityAssumption, SMT DEF Sector
<1>2. data \in Buffer /\ buf \in [Req -> Buffer]
  BY BlankType, Zenon DEF Init
<1>3. QED
  BY <1>1, <1>2, SMT DEF Init, TypeOK

\* A request that is made lies on the device, and nothing of it is done yet.
LEMMA SubmitKeeps ==
  ASSUME ServeInv, NEW r \in Req, Submit(r)
  PROVE  ServeInv'
<1> USE DEF ServeInv
<1>1. PICK f \in Sector, n \in 1 .. capacity:
        /\ f + n <= capacity
        /\ first' = [first EXCEPT ![r] = f] /\ len' = [len EXCEPT ![r] = n]
        /\ \/ op' = op /\ buf' = buf
           \/ /\ op' = [op EXCEPT ![r] = "write"]
              /\ \E b \in [f .. f + n - 1 -> Value]:
                   buf' = [buf EXCEPT ![r] = [s \in Sector |->
                             IF s \in DOMAIN b THEN b[s] ELSE AnyValue]]
  BY Zenon DEF Submit
<1>2. /\ st[r] = "free" /\ st' = [st EXCEPT ![r] = "queued"] /\ data' = data
      /\ it' = it /\ bv_len' = bv_len /\ b_len' = b_len /\ pos' = pos
      /\ copied' = copied /\ nr_bytes' = nr_bytes
  BY Zenon DEF Submit, local
<1>3. buf' \in [Req -> Buffer] /\ op' \in [Req -> {"read", "write"}]
  <2>1. CASE op' = op /\ buf' = buf
    BY <2>1 DEF TypeOK
  <2>2. CASE /\ op' = [op EXCEPT ![r] = "write"]
             /\ \E b \in [f .. f + n - 1 -> Value]:
                  buf' = [buf EXCEPT ![r] = [s \in Sector |->
                            IF s \in DOMAIN b THEN b[s] ELSE AnyValue]]
    <3>1. PICK b \in [f .. f + n - 1 -> Value]:
            buf' = [buf EXCEPT ![r] = [s \in Sector |->
                      IF s \in DOMAIN b THEN b[s] ELSE AnyValue]]
      BY <2>2
    <3>2. [s \in Sector |-> IF s \in DOMAIN b THEN b[s] ELSE AnyValue] \in Buffer
      BY AnyValueType DEF Buffer
    <3>3. QED
      BY <2>2, <3>1, <3>2 DEF TypeOK
  <2>3. QED
    BY <1>1, <2>1, <2>2
<1>4. first' \in [Req -> Sector] /\ len' \in [Req -> 0 .. capacity]
  BY <1>1, CapacityAssumption, SMT DEF TypeOK
<1>5. TypeOK'
  <2>1. st' \in [Req -> {"free", "queued", "serving", "done", "bug"}]
    BY <1>2, SMT DEF TypeOK
  <2>2. QED
    BY <1>2, <1>3, <1>4, <2>1, Zenon DEF TypeOK
<1>6. ASSUME NEW q \in Req PROVE Place(q)'
  <2>1. CASE q = r
    <3>1. End(r)' <= capacity
      BY <1>1, CapacityAssumption, SMT DEF End, TypeOK, Sector
    <3>2. QED
      BY <1>2, <2>1, <3>1, SMT DEF Place, TypeOK
  <2>2. CASE q # r
    <3>1. /\ st'[q] = st[q] /\ first'[q] = first[q] /\ len'[q] = len[q]
          /\ op'[q] = op[q]
      BY <1>1, <1>2, <2>2, SMT DEF TypeOK
    <3>2. QED
      BY <1>2, <3>1, SMT DEF Place, End
  <2>3. QED
    BY <2>1, <2>2
<1>7. QED
  BY <1>5, <1>6

\* While a request is served, its own positions move and nothing else of any
\* request does.
LEMMA ServeKeeps ==
  ASSUME ServeInv, NEW r \in Req, Serve(r)
  PROVE  ServeInv'
<1> USE DEF ServeInv
<1>0. Place(r) /\ End(r) \in Nat /\ first[r] \in Nat
  BY SMT DEF End, TypeOK, Sector
<1>1. CASE Start(r)
  <2>1. TypeOK'
    BY <1>1, CapacityAssumption, SMT DEF Start, request, TypeOK, Sector
  <2>2. Place(r)'
    BY <1>0, <1>1, SMT DEF Start, request, TypeOK, Sector, Place, End
  <2>3. \A q \in Req \ {r}: Place(q)'
    BY <1>1, SMT DEF Start, request, TypeOK, Place, End
  <2>4. QED
    BY <2>1, <2>2, <2>3
<1>2. CASE Segment(r)
  <2>1. PICK n \in 1 .. End(r) - it[r]:
          /\ bv_len' = [bv_len EXCEPT ![r] = n]
          /\ b_len' = [b_len EXCEPT ![r] = Clamped(pos[r], n)]
    BY <1>2, Zenon DEF Segment
  <2>2. Clamped(pos[r], n) = n /\ n \in 0 .. capacity /\ it[r] + n <= End(r)
    <3>1. /\ pos[r] \in Nat /\ it[r] \in Nat /\ n \in Nat /\ pos[r] = it[r]
          /\ it[r] + n <= End(r) /\ End(r) <= capacity
      BY <1>0, <1>2, CapacityAssumption, SMT DEF Place, TypeOK, Segment
    <3>2. QED
      <4>1. pos[r] + n <= capacity
        BY <3>1, CapacityAssumption, SMT DEF End, TypeOK, Sector
      <4>2. Clamped(pos[r], n) = n
        BY <3>1, <4>1, ClampIdle, Zenon
      <4>3. QED
        BY <3>1, <4>1, <4>2, CapacityAssumption, SMT
  <2>3. /\ st[r] = "serving" /\ bv_len[r] = 0 /\ st' = st /\ data' = data
        /\ op' = op /\ first' = first /\ len' = len /\ buf' = buf
        /\ it' = it /\ pos' = pos /\ nr_bytes' = nr_bytes
        /\ copied' = [copied EXCEPT ![r] = 0]
    BY <1>2, Zenon DEF Segment, request
  <2>4. TypeOK'
    BY <2>1, <2>2, <2>3, CapacityAssumption, SMT DEF TypeOK
  <2>5. Place(r)'
    BY <1>0, <2>1, <2>2, <2>3, SMT DEF TypeOK, Place, End
  <2>6. \A q \in Req \ {r}: Place(q)'
    BY <2>1, <2>3, SMT DEF TypeOK, Place, End
  <2>7. QED
    BY <2>4, <2>5, <2>6
<1>3. CASE Copy(r)
  <2>1. /\ st[r] = "serving" /\ copied[r] < b_len[r]
        /\ st' = st /\ op' = op /\ first' = first /\ len' = len /\ it' = it
        /\ bv_len' = bv_len /\ b_len' = b_len /\ pos' = pos /\ nr_bytes' = nr_bytes
        /\ copied' = [copied EXCEPT ![r] = copied[r] + 1]
    BY <1>3, Zenon DEF Copy, request
  <2>2. it[r] + copied[r] \in Sector /\ pos[r] + copied[r] \in Sector
    BY <1>0, <2>1, CapacityAssumption, SMT DEF TypeOK, Place, Sector
  <2>3. data' \in Buffer /\ buf' \in [Req -> Buffer]
    <3>1. CASE /\ data' = [data EXCEPT ![pos[r] + copied[r]] = buf[r][it[r] + copied[r]]]
               /\ buf' = buf
      <4>1. buf[r][it[r] + copied[r]] \in Value
        BY <2>2 DEF TypeOK, Buffer
      <4>2. QED
        BY <2>2, <3>1, <4>1 DEF TypeOK, Buffer
    <3>2. CASE /\ buf' = [buf EXCEPT ![r][it[r] + copied[r]] = data[pos[r] + copied[r]]]
               /\ data' = data
      <4>1. data[pos[r] + copied[r]] \in Value /\ buf[r] \in Buffer
        BY <2>2 DEF TypeOK, Buffer
      <4>2. [buf[r] EXCEPT ![it[r] + copied[r]] = data[pos[r] + copied[r]]] \in Buffer
        BY <2>2, <4>1 DEF Buffer
      <4>3. QED
        BY <3>2, <4>2 DEF TypeOK
    <3>3. QED
      BY <1>3, <3>1, <3>2, Zenon DEF Copy
  <2>4. TypeOK'
    <3>1. copied' \in [Req -> 0 .. capacity]
      BY <1>0, <2>1, CapacityAssumption, SMT DEF TypeOK
    <3>2. QED
      BY <2>1, <2>3, <3>1, Zenon DEF TypeOK
  <2>5. Place(r)'
    BY <1>0, <2>1, SMT DEF TypeOK, Place, End
  <2>6. \A q \in Req \ {r}: Place(q)'
    BY <2>1, SMT DEF TypeOK, Place, End
  <2>7. QED
    BY <2>4, <2>5, <2>6
<1>4. CASE SegmentDone(r)
  <2>1. /\ st[r] = "serving" /\ copied[r] = b_len[r] /\ data' = data
        /\ st' = st /\ op' = op /\ first' = first /\ len' = len /\ buf' = buf
        /\ pos' = [pos EXCEPT ![r] = pos[r] + b_len[r]]
        /\ nr_bytes' = [nr_bytes EXCEPT ![r] = nr_bytes[r] + b_len[r]]
        /\ it' = [it EXCEPT ![r] = it[r] + bv_len[r]]
        /\ bv_len' = [bv_len EXCEPT ![r] = 0] /\ b_len' = [b_len EXCEPT ![r] = 0]
        /\ copied' = [copied EXCEPT ![r] = 0]
    BY <1>4, Zenon DEF SegmentDone, request
  <2>2. /\ pos[r] + b_len[r] \in 0 .. capacity /\ it[r] + bv_len[r] \in 0 .. capacity
        /\ nr_bytes[r] + b_len[r] \in 0 .. capacity
    BY <1>0, <2>1, CapacityAssumption, SMT DEF TypeOK, Place, Sector
  <2>3. TypeOK'
    BY <2>1, <2>2, CapacityAssumption, SMT DEF TypeOK
  <2>4. Place(r)'
    BY <1>0, <2>1, SMT DEF TypeOK, Place, End
  <2>5. \A q \in Req \ {r}: Place(q)'
    BY <2>1, SMT DEF TypeOK, Place, End
  <2>6. QED
    BY <2>3, <2>4, <2>5
<1>5. CASE Finish(r)
  <2>1. /\ st[r] = "serving" /\ bv_len[r] = 0 /\ it[r] = End(r) /\ data' = data
        /\ op' = op /\ first' = first /\ len' = len /\ buf' = buf /\ it' = it
        /\ bv_len' = bv_len /\ b_len' = b_len /\ pos' = pos /\ copied' = copied
        /\ nr_bytes' = nr_bytes
        /\ st' = [st EXCEPT ![r] = IF nr_bytes[r] < len[r] THEN "bug" ELSE "done"]
    BY <1>5, Zenon DEF Finish, request, local
  <2>2. nr_bytes[r] = len[r]
    BY <1>0, <2>1, SMT DEF TypeOK, Place, End, Sector
  <2>3. st' = [st EXCEPT ![r] = "done"]
    <3>1. ~ (nr_bytes[r] < len[r])
      BY <2>2, SMT DEF TypeOK
    <3>2. QED
      BY <2>1, <3>1, Zenon
  <2>4. TypeOK'
    <3>1. st' \in [Req -> {"free", "queued", "serving", "done", "bug"}]
      BY <2>3, SMT DEF TypeOK
    <3>2. QED
      BY <2>1, <3>1, Zenon DEF TypeOK
  <2>5. Place(r)'
    BY <1>0, <2>1, <2>3, SMT DEF TypeOK, Place, End
  <2>6. \A q \in Req \ {r}: Place(q)'
    BY <2>1, <2>3, SMT DEF TypeOK, Place, End
  <2>7. QED
    BY <2>4, <2>5, <2>6
<1>6. QED
  BY <1>1, <1>2, <1>3, <1>4, <1>5 DEF Serve

\* A request that was served becomes a free one.
LEMMA CollectKeeps ==
  ASSUME ServeInv, NEW r \in Req, Collect(r)
  PROVE  ServeInv'
<1> USE DEF ServeInv
<1>1. 0 \in Sector
  BY CapacityAssumption, SMT DEF Sector
<1>2. buf' \in [Req -> Buffer]
  BY BlankType, Zenon DEF Collect, TypeOK
<1>3. TypeOK'
  BY <1>1, <1>2, CapacityAssumption, SMT DEF Collect, TypeOK
<1>4. Place(r)'
  BY <1>1, CapacityAssumption, SMT DEF Collect, TypeOK, Place, End
<1>5. \A q \in Req \ {r}: Place(q)'
  BY SMT DEF Collect, TypeOK, Place, End
<1>6. QED
  BY <1>3, <1>4, <1>5

\* The positions of every request always agree: however it is cut, each segment
\* begins where the one before it ended, on the device as in the request.
THEOREM PositionsAgree == Spec => []ServeInv
<1>1. Init => ServeInv
  <2> SUFFICES ASSUME Init PROVE ServeInv
    OBVIOUS
  <2>1. TypeOK
    BY InitType
  <2>2. ASSUME NEW r \in Req PROVE Place(r)
    BY CapacityAssumption, SMT DEF Init, Place, End
  <2>3. QED
    BY <2>1, <2>2 DEF ServeInv
<1>2. ServeInv /\ [Next]_vars => ServeInv'
  <2> SUFFICES ASSUME ServeInv, [Next]_vars PROVE ServeInv'
    OBVIOUS
  <2>1. CASE Next
    BY <2>1, SubmitKeeps, ServeKeeps, CollectKeeps, Zenon DEF Next
  <2>2. CASE UNCHANGED vars
    BY <2>2, Zenon DEF ServeInv, vars, request, local, TypeOK, Place, End
  <2>3. QED
    BY <2>1, <2>2
<1>3. QED
  BY <1>1, <1>2, PTL DEF Spec

\* Every variable keeps its type, and no position leaves the device.
THEOREM BlockTyped == Spec => []TypeOK
<1>1. ServeInv => TypeOK
  BY DEF ServeInv
<1>2. QED
  BY <1>1, PositionsAgree, PTL

\* What do_request reports is what was asked for: BUG() is not reached.
THEOREM BugIsNotReached == Spec => []NeverBug
<1>1. ServeInv => NeverBug
  BY DEF ServeInv, Place, NeverBug
<1>2. QED
  BY <1>1, PositionsAgree, PTL

-----------------------------------------------------------------------------
(* The driver keeps the promise of Disk: a step of it is a step of Disk or  *)
(* none.                                                                    *)

LEMMA InitMaps == Init => Promise!Init
<1> SUFFICES ASSUME Init PROVE Promise!Init
  OBVIOUS
<1>1. /\ stBar = [r \in Req |-> "free"] /\ wantBar = [r \in Req |-> {}]
      /\ movedBar = [r \in Req |-> {}]
  BY DEF Init, stBar, wantBar, movedBar
<1>2. data \in Promise!Buffer /\ buf \in [Req -> Promise!Buffer]
  BY BlankType, Zenon DEF Init, Buffer, Promise!Buffer
<1>3. QED
  BY <1>1, <1>2, Zenon DEF Init, Promise!Init

\* Making a request is making it, with the sectors it asks for.
LEMMA SubmitMaps ==
  ASSUME ServeInv, ServeInv', NEW r \in Req, Submit(r)
  PROVE  Promise!Submit(r)
<1>1. PICK f \in Sector, n \in 1 .. capacity:
        /\ f + n <= capacity
        /\ first' = [first EXCEPT ![r] = f] /\ len' = [len EXCEPT ![r] = n]
        /\ \/ op' = op /\ buf' = buf
           \/ /\ op' = [op EXCEPT ![r] = "write"]
              /\ \E b \in [f .. f + n - 1 -> Value]:
                   buf' = [buf EXCEPT ![r] = [s \in Sector |->
                             IF s \in DOMAIN b THEN b[s] ELSE AnyValue]]
  BY Zenon DEF Submit
<1>2. /\ st[r] = "free" /\ st' = [st EXCEPT ![r] = "queued"] /\ data' = data
      /\ pos' = pos /\ copied' = copied
  BY Zenon DEF Submit, local
<1> DEFINE S == f .. f + n - 1
<1>3. S \in (SUBSET Sector) \ {{}}
  BY <1>1, CapacityAssumption, SMT DEF Sector
<1>4. TypeOK /\ TypeOK' /\ op[r] = "read"
  BY <1>2 DEF ServeInv, Place
<1>5. /\ op' = [op EXCEPT ![r] = op'[r]] /\ op'[r] \in {"read", "write"}
      /\ buf' = [buf EXCEPT ![r] = buf'[r]] /\ buf'[r] \in Promise!Buffer
  BY <1>1, <1>4 DEF TypeOK, Buffer, Promise!Buffer
<1>6. ASSUME NEW q \in Req
      PROVE  /\ stBar'[q] = [stBar EXCEPT ![r] = "pending"][q]
             /\ wantBar'[q] = [wantBar EXCEPT ![r] = S][q]
             /\ movedBar'[q] = movedBar[q]
  <2>1. CASE q = r
    <3>1. st'[q] = "queued" /\ st[q] = "free" /\ first'[q] = f /\ End(q)' = f + n
      BY <1>1, <1>2, <1>4, <2>1, SMT DEF TypeOK, End
    <3>2. QED
      <4>1. stBar'[q] = "pending" /\ wantBar'[q] = S /\ movedBar'[q] = {}
        <5>1. stBar'[q] = "pending"
          BY <3>1, SMT DEF stBar
        <5>2. wantBar'[q] = S
          <6>1. wantBar'[q] = first'[q] .. End(q)' - 1
            BY <3>1, SMT DEF wantBar
          <6>2. End(q)' - 1 = f + n - 1
            BY <3>1, CapacityAssumption, SMT DEF Sector
          <6>3. QED
            BY <3>1, <6>1, <6>2
        <5>3. movedBar'[q] = {}
          BY <3>1, SMT DEF movedBar
        <5>4. QED
          BY <5>1, <5>2, <5>3
      <4>2. movedBar[q] = {}
        BY <3>1, Zenon DEF movedBar
      <4>3. /\ [stBar EXCEPT ![r] = "pending"][q] = "pending"
            /\ [wantBar EXCEPT ![r] = S][q] = S
        BY <2>1, Zenon DEF stBar, wantBar
      <4>4. QED
        BY <4>1, <4>2, <4>3, Zenon
  <2>2. CASE q # r
    <3>1. /\ st'[q] = st[q] /\ first'[q] = first[q] /\ End(q)' = End(q)
          /\ pos'[q] = pos[q] /\ copied'[q] = copied[q]
      BY <1>1, <1>2, <1>4, <2>2, SMT DEF TypeOK, End
    <3>2. QED
      BY <2>2, <3>1, Zenon DEF stBar, wantBar, movedBar
  <2>3. QED
    BY <2>1, <2>2
<1>7. /\ stBar' = [stBar EXCEPT ![r] = "pending"]
      /\ wantBar' = [wantBar EXCEPT ![r] = S] /\ movedBar' = movedBar
  BY <1>6, Zenon DEF stBar, wantBar, movedBar
<1>8. stBar[r] = "free"
  BY <1>2 DEF stBar
<1> HIDE DEF S
<1>9. QED
  BY <1>2, <1>3, <1>5, <1>7, <1>8, Zenon DEF Promise!Submit

\* One sector copied is one sector moved, and it is the next that was wanted.
LEMMA CopyMaps ==
  ASSUME ServeInv, ServeInv', NEW r \in Req, Copy(r)
  PROVE  Promise!Transfer(r)
<1> DEFINE d == pos[r] + copied[r]
<1>1. /\ st[r] = "serving" /\ copied[r] < b_len[r]
      /\ st' = st /\ op' = op /\ first' = first /\ len' = len /\ pos' = pos
      /\ copied' = [copied EXCEPT ![r] = copied[r] + 1]
  BY Zenon DEF Copy, request
<1>2. TypeOK /\ Place(r)
  BY DEF ServeInv
<1>3. /\ it[r] + copied[r] = d /\ d \in first[r] .. End(r) - 1 /\ d \in Sector
      /\ first[r] .. pos[r] + (copied[r] + 1) - 1
           = (first[r] .. pos[r] + copied[r] - 1) \cup {d}
      /\ d \notin first[r] .. pos[r] + copied[r] - 1
  <2>1. /\ it[r] + copied[r] = d /\ first[r] \in Nat /\ first[r] <= d /\ d < End(r)
        /\ End(r) <= capacity /\ End(r) \in Nat
        /\ pos[r] \in Nat /\ copied[r] \in Nat
    BY <1>1, <1>2, CapacityAssumption, SMT DEF TypeOK, Place, End, Sector
  <2>2. d \in first[r] .. End(r) - 1 /\ d \in Sector
    BY <2>1, CapacityAssumption, SMT DEF Sector
  <2>3. /\ first[r] .. pos[r] + (copied[r] + 1) - 1
             = (first[r] .. pos[r] + copied[r] - 1) \cup {d}
        /\ d \notin first[r] .. pos[r] + copied[r] - 1
    BY <2>1, SMT
  <2>4. QED
    BY <2>1, <2>2, <2>3
<1>4. stBar' = stBar /\ wantBar' = wantBar /\ stBar[r] = "pending"
  BY <1>1, <1>2 DEF stBar, wantBar, End
<1>5. movedBar[r] = first[r] .. pos[r] + copied[r] - 1
  BY <1>1, Zenon DEF movedBar
<1>6. wantBar[r] = first[r] .. End(r) - 1
  BY <1>1, Zenon DEF wantBar
<1>7. movedBar' = [movedBar EXCEPT ![r] = movedBar[r] \cup {d}]
  <2>1. ASSUME NEW q \in Req
        PROVE  movedBar'[q] = [movedBar EXCEPT ![r] = movedBar[r] \cup {d}][q]
    <3>1. CASE q = r
      <4>1. copied'[r] = copied[r] + 1
        BY <1>1, <1>2 DEF TypeOK
      <4>2. movedBar'[r] = first[r] .. pos[r] + (copied[r] + 1) - 1
        BY <1>1, <4>1, Zenon DEF movedBar
      <4>3. [movedBar EXCEPT ![r] = movedBar[r] \cup {d}][r] = movedBar[r] \cup {d}
        BY Zenon DEF movedBar
      <4>4. QED
        BY <1>3, <1>5, <3>1, <4>2, <4>3, Zenon
    <3>2. CASE q # r
      <4>1. copied'[q] = copied[q]
        BY <1>1, <1>2, <3>2 DEF TypeOK
      <4>2. QED
        BY <1>1, <3>2, <4>1, Zenon DEF movedBar, End
    <3>3. QED
      BY <3>1, <3>2
  <2>2. QED
    BY <2>1, Zenon DEF movedBar
<1>8. {d} \in (SUBSET (wantBar[r] \ movedBar[r])) \ {{}}
  BY <1>3, <1>5, <1>6, Zenon
<1>9. \/ /\ op[r] = "write"
         /\ data' = Promise!Over(data, buf[r], {d})
         /\ UNCHANGED buf
      \/ /\ op[r] = "read"
         /\ buf' = [buf EXCEPT ![r] = Promise!Over(buf[r], data, {d})]
         /\ UNCHANGED data
  <2>1. data \in Buffer /\ buf \in [Req -> Buffer] /\ buf[r] \in Buffer
    BY <1>2 DEF TypeOK
  <2>2. CASE /\ op[r] = "write" /\ data' = [data EXCEPT ![d] = buf[r][d]]
             /\ UNCHANGED buf
    <3>1. [data EXCEPT ![d] = buf[r][d]] = Promise!Over(data, buf[r], {d})
      BY <2>1, Zenon DEF Buffer, Promise!Over
    <3>2. QED
      BY <2>2, <3>1
  <2>3. CASE /\ op[r] = "read" /\ buf' = [buf EXCEPT ![r] = [@ EXCEPT ![d] = data[d]]]
             /\ UNCHANGED data
    <3>1. [buf[r] EXCEPT ![d] = data[d]] = Promise!Over(buf[r], data, {d})
      BY <2>1, Zenon DEF Buffer, Promise!Over
    <3>2. QED
      BY <2>3, <3>1
  <2>4. QED
    BY <1>3, <2>2, <2>3, Zenon DEF Copy
<1> HIDE DEF d
<1>10. QED
  BY <1>1, <1>4, <1>7, <1>8, <1>9, Zenon DEF Promise!Transfer

\* A request is completed when everything it wants was moved.
LEMMA FinishMaps ==
  ASSUME ServeInv, ServeInv', NEW r \in Req, Finish(r)
  PROVE  Promise!Complete(r)
<1>1. /\ st[r] = "serving" /\ bv_len[r] = 0 /\ it[r] = End(r) /\ data' = data
      /\ op' = op /\ first' = first /\ len' = len /\ buf' = buf
      /\ pos' = pos /\ copied' = copied
      /\ st' = [st EXCEPT ![r] = IF nr_bytes[r] < len[r] THEN "bug" ELSE "done"]
  BY Zenon DEF Finish, request, local
<1>2. TypeOK /\ TypeOK' /\ Place(r) /\ Place(r)'
  BY DEF ServeInv
<1>3. st'[r] = "done"
  BY <1>1, <1>2 DEF TypeOK, Place
<1>4. pos[r] + copied[r] - 1 = End(r) - 1
  BY <1>1, <1>2, SMT DEF TypeOK, Place, End, Sector
<1>5. ASSUME NEW q \in Req
      PROVE  /\ stBar'[q] = [stBar EXCEPT ![r] = "done"][q]
             /\ wantBar'[q] = wantBar[q] /\ movedBar'[q] = movedBar[q]
  <2>1. CASE q = r
    BY <1>1, <1>3, <1>4, <2>1, Zenon DEF stBar, wantBar, movedBar, End
  <2>2. CASE q # r
    <3>1. st'[q] = st[q]
      BY <1>1, <1>2, <2>2 DEF TypeOK
    <3>2. QED
      BY <1>1, <2>2, <3>1, Zenon DEF stBar, wantBar, movedBar, End
  <2>3. QED
    BY <2>1, <2>2
<1>6. /\ stBar' = [stBar EXCEPT ![r] = "done"]
      /\ wantBar' = wantBar /\ movedBar' = movedBar
  BY <1>5, Zenon DEF stBar, wantBar, movedBar
<1>7. stBar[r] = "pending" /\ movedBar[r] = wantBar[r]
  BY <1>1, <1>4, Zenon DEF stBar, wantBar, movedBar
<1>8. QED
  BY <1>1, <1>6, <1>7, Zenon DEF Promise!Complete

\* Collecting is collecting.
LEMMA CollectMaps ==
  ASSUME ServeInv, ServeInv', NEW r \in Req, Collect(r)
  PROVE  Promise!Collect(r)
<1>1. /\ st[r] = "done" /\ st' = [st EXCEPT ![r] = "free"] /\ data' = data
      /\ op' = [op EXCEPT ![r] = "read"]
      /\ first' = [first EXCEPT ![r] = 0] /\ len' = [len EXCEPT ![r] = 0]
      /\ buf' = [buf EXCEPT ![r] = Blank]
      /\ pos' = [pos EXCEPT ![r] = 0] /\ copied' = copied
  BY Zenon DEF Collect
<1>2. TypeOK /\ TypeOK'
  BY DEF ServeInv
<1>3. ASSUME NEW q \in Req
      PROVE  /\ stBar'[q] = [stBar EXCEPT ![r] = "free"][q]
             /\ wantBar'[q] = [wantBar EXCEPT ![r] = {}][q]
             /\ movedBar'[q] = [movedBar EXCEPT ![r] = {}][q]
  <2>1. CASE q = r
    <3>1. st'[q] = "free"
      BY <1>1, <1>2, <2>1 DEF TypeOK
    <3>2. QED
      BY <2>1, <3>1, Zenon DEF stBar, wantBar, movedBar
  <2>2. CASE q # r
    <3>1. /\ st'[q] = st[q] /\ first'[q] = first[q] /\ End(q)' = End(q)
          /\ pos'[q] = pos[q] /\ copied'[q] = copied[q]
      BY <1>1, <1>2, <2>2, SMT DEF TypeOK, End
    <3>2. QED
      BY <2>2, <3>1, Zenon DEF stBar, wantBar, movedBar
  <2>3. QED
    BY <2>1, <2>2
<1>4. /\ stBar' = [stBar EXCEPT ![r] = "free"]
      /\ wantBar' = [wantBar EXCEPT ![r] = {}]
      /\ movedBar' = [movedBar EXCEPT ![r] = {}]
  BY <1>3, Zenon DEF stBar, wantBar, movedBar
<1>5. stBar[r] = "done" /\ Blank \in Promise!Buffer
  BY <1>1, BlankType, Zenon DEF stBar, Buffer, Promise!Buffer
<1>6. QED
  BY <1>1, <1>4, <1>5, Zenon DEF Promise!Collect

\* Everything else the driver does is its own affair.
LEMMA RestStutters ==
  ASSUME ServeInv, ServeInv', NEW r \in Req,
         Start(r) \/ Segment(r) \/ SegmentDone(r)
  PROVE  UNCHANGED Promise!vars
<1>1. TypeOK /\ TypeOK' /\ Place(r) /\ Place(r)'
  BY DEF ServeInv
<1>2. data' = data /\ op' = op /\ first' = first /\ len' = len /\ buf' = buf
  BY Zenon DEF Start, Segment, SegmentDone, request
<1>3. ASSUME NEW q \in Req
      PROVE  /\ stBar'[q] = stBar[q] /\ wantBar'[q] = wantBar[q]
             /\ movedBar'[q] = movedBar[q]
  <2>1. CASE q = r
    <3>1. CASE Start(r)
      <4>1. st[q] = "queued" /\ st'[q] = "serving"
        BY <1>1, <2>1, <3>1 DEF Start, TypeOK
      <4>2. first[q] .. pos'[q] + copied'[q] - 1 = {}
        BY <1>1, <2>1, <3>1, SMT DEF Start, TypeOK, Place, Sector
      <4>3. QED
        BY <1>2, <4>1, <4>2, Zenon DEF stBar, wantBar, movedBar, End
    <3>2. CASE Segment(r)
      <4>1. st[q] = "serving" /\ st'[q] = "serving"
        BY <1>1, <2>1, <3>2 DEF Segment, TypeOK
      <4>2. pos'[q] + copied'[q] = pos[q] + copied[q]
        BY <1>1, <2>1, <3>2, SMT DEF Segment, TypeOK, Place
      <4>3. /\ movedBar[q] = first[q] .. pos[q] + copied[q] - 1
            /\ movedBar'[q] = first[q] .. pos[q] + copied[q] - 1
        <5>1. movedBar[q] = first[q] .. pos[q] + copied[q] - 1
          BY <4>1, SMT DEF movedBar
        <5>2. movedBar'[q] = first'[q] .. pos'[q] + copied'[q] - 1
          BY <4>1, SMT DEF movedBar
        <5>3. QED
          <6>1. pos'[q] + copied'[q] - 1 = pos[q] + copied[q] - 1
            BY <1>1, <4>2, SMT DEF TypeOK
          <6>2. QED
            BY <1>2, <5>1, <5>2, <6>1
      <4>4. stBar'[q] = stBar[q] /\ wantBar'[q] = wantBar[q]
        BY <1>2, <4>1, Zenon DEF stBar, wantBar, End
      <4>5. QED
        BY <4>3, <4>4
    <3>3. CASE SegmentDone(r)
      <4>1. st[q] = "serving" /\ st'[q] = "serving"
        BY <1>1, <2>1, <3>3 DEF SegmentDone, TypeOK
      <4>2. pos'[q] + copied'[q] = pos[q] + copied[q]
        BY <1>1, <2>1, <3>3, SMT DEF SegmentDone, TypeOK, Place
      <4>3. /\ movedBar[q] = first[q] .. pos[q] + copied[q] - 1
            /\ movedBar'[q] = first[q] .. pos[q] + copied[q] - 1
        <5>1. movedBar[q] = first[q] .. pos[q] + copied[q] - 1
          BY <4>1, SMT DEF movedBar
        <5>2. movedBar'[q] = first'[q] .. pos'[q] + copied'[q] - 1
          BY <4>1, SMT DEF movedBar
        <5>3. QED
          <6>1. pos'[q] + copied'[q] - 1 = pos[q] + copied[q] - 1
            BY <1>1, <4>2, SMT DEF TypeOK
          <6>2. QED
            BY <1>2, <5>1, <5>2, <6>1
      <4>4. stBar'[q] = stBar[q] /\ wantBar'[q] = wantBar[q]
        BY <1>2, <4>1, Zenon DEF stBar, wantBar, End
      <4>5. QED
        BY <4>3, <4>4
    <3>4. QED
      BY <3>1, <3>2, <3>3
  <2>2. CASE q # r
    <3>1. st'[q] = st[q] /\ pos'[q] = pos[q] /\ copied'[q] = copied[q]
      BY <1>1, <2>2 DEF Start, Segment, SegmentDone, TypeOK
    <3>2. QED
      BY <1>2, <3>1, Zenon DEF stBar, wantBar, movedBar, End
  <2>3. QED
    BY <2>1, <2>2
<1>4. stBar' = stBar /\ wantBar' = wantBar /\ movedBar' = movedBar
  BY <1>3, Zenon DEF stBar, wantBar, movedBar
<1>5. QED
  BY <1>2, <1>4, Zenon DEF Promise!vars

\* A step of the driver is a step of Disk, or nothing of it changes.
LEMMA StepMaps ==
  ServeInv /\ ServeInv' /\ [Next]_vars => [Promise!Next]_(Promise!vars)
<1> SUFFICES ASSUME ServeInv, ServeInv', [Next]_vars
             PROVE  [Promise!Next]_(Promise!vars)
  OBVIOUS
<1>1. ASSUME NEW r \in Req, Submit(r) \/ Serve(r) \/ Collect(r)
      PROVE  [Promise!Next]_(Promise!vars)
  <2>1. CASE Submit(r)
    BY <2>1, SubmitMaps, Zenon DEF Promise!Next
  <2>2. CASE Copy(r)
    BY <2>2, CopyMaps, Zenon DEF Promise!Next
  <2>3. CASE Finish(r)
    BY <2>3, FinishMaps, Zenon DEF Promise!Next
  <2>4. CASE Collect(r)
    BY <2>4, CollectMaps, Zenon DEF Promise!Next
  <2>5. CASE Start(r) \/ Segment(r) \/ SegmentDone(r)
    BY <2>5, RestStutters, Zenon
  <2>6. QED
    BY <1>1, <2>1, <2>2, <2>3, <2>4, <2>5, Zenon DEF Serve
<1>2. CASE UNCHANGED vars
  BY <1>2, Zenon
     DEF vars, request, local, Promise!vars, stBar, wantBar, movedBar, End
<1>3. QED
  BY <1>1, <1>2, Zenon DEF Next

\* Each request moves each of its sectors once, and no other, and is completed
\* after that, whatever other requests are served beside it.
THEOREM DiskRefined == Spec => RefinesDisk
<1>1. ServeInv /\ ServeInv' /\ [Next]_vars => [Promise!Next]_(Promise!vars)
  BY StepMaps
<1>2. QED
  BY <1>1, InitMaps, PositionsAgree, PTL DEF Spec, RefinesDisk, Promise!Spec

\* The tutorial built for kernels 5 does the same, with the other one beside it.
THEOREM EitherDiskRefined == EitherSpec => RefinesDisk
<1>1. [EitherNext]_<<kernel, vars, vars26>> => [Next]_vars
  BY Zenon DEF EitherNext
<1>2. EitherInit => Init
  BY DEF EitherInit
<1>3. EitherSpec => Spec
  BY <1>1, <1>2, PTL DEF EitherSpec, Spec
<1>4. QED
  BY <1>3, DiskRefined, PTL

-----------------------------------------------------------------------------
(* How serving a request comes to its end.                                 *)

LEMMA ServeShortens ==
  ASSUME ServeInv, NEW r \in Req, Serve(r)
  PROVE  StepsLeft(r)' < StepsLeft(r)
<1>0. TypeOK /\ Place(r)
  BY DEF ServeInv
<1>1. CASE Start(r)
  BY <1>0, <1>1, SMT DEF Start, request, StepsLeft, End, TypeOK, Place, Sector
<1>2. CASE Segment(r)
  <2>1. PICK n \in 1 .. End(r) - it[r]: bv_len' = [bv_len EXCEPT ![r] = n]
    BY <1>2, Zenon DEF Segment
  <2>2. bv_len'[r] > 0 /\ bv_len[r] = 0 /\ copied[r] = 0 /\ copied'[r] = 0
    BY <1>0, <1>2, <2>1, SMT DEF Segment, TypeOK, Place, End, Sector
  <2>3. /\ st[r] = "serving" /\ st'[r] = "serving" /\ it'[r] = it[r]
        /\ first'[r] = first[r] /\ len'[r] = len[r]
    BY <1>2, Zenon DEF Segment, request
  <2>4. QED
    BY <1>0, <2>2, <2>3, SMT DEF StepsLeft, End, TypeOK, Sector
<1>3. CASE Copy(r)
  BY <1>0, <1>3, SMT DEF Copy, request, StepsLeft, End, TypeOK, Sector
<1>4. CASE SegmentDone(r)
  BY <1>0, <1>4, SMT DEF SegmentDone, request, StepsLeft, End, TypeOK, Place, Sector
<1>5. CASE Finish(r)
  BY <1>0, <1>5, SMT DEF Finish, request, local, StepsLeft, End, TypeOK, Place, Sector
<1>6. QED
  BY <1>1, <1>2, <1>3, <1>4, <1>5 DEF Serve

\* Another request changes nothing of this one.
LEMMA OthersKeep ==
  ASSUME ServeInv, NEW r \in Req, NEW q \in Req, q # r,
         Submit(q) \/ Serve(q) \/ Collect(q)
  PROVE  /\ st'[r] = st[r] /\ op'[r] = op[r] /\ first'[r] = first[r] /\ len'[r] = len[r]
         /\ buf'[r] = buf[r] /\ it'[r] = it[r] /\ bv_len'[r] = bv_len[r]
         /\ b_len'[r] = b_len[r] /\ pos'[r] = pos[r] /\ copied'[r] = copied[r]
<1>0. TypeOK
  BY DEF ServeInv
<1>1. CASE Submit(q)
  BY <1>0, <1>1 DEF Submit, local, TypeOK
<1>2. CASE Start(q) \/ Segment(q)
  BY <1>0, <1>2 DEF Start, Segment, request, TypeOK
<1>3. CASE Copy(q)
  BY <1>0, <1>3 DEF Copy, request, TypeOK
<1>4. CASE SegmentDone(q) \/ Finish(q)
  BY <1>0, <1>4 DEF SegmentDone, Finish, request, local, TypeOK
<1>5. CASE Collect(q)
  BY <1>0, <1>5 DEF Collect, TypeOK
<1>6. QED
  BY <1>1, <1>2, <1>3, <1>4, <1>5 DEF Serve

LEMMA InvGoesOn == ServeInv => NeverStuck
<1> SUFFICES ASSUME ServeInv, NEW r \in Req
             PROVE  /\ Waiting(r) => CanServe(r)
                    /\ StepsLeft(r) \in Nat /\ (Waiting(r) <=> StepsLeft(r) > 0)
  BY DEF NeverStuck
<1>0. TypeOK /\ Place(r)
  BY DEF ServeInv
<1>1. Waiting(r) => CanServe(r)
  BY <1>0, SMT DEF Waiting, CanServe, TypeOK, Place, End, Sector
<1>2. CASE st[r] = "queued"
  <2>1. StepsLeft(r) = 3 * len[r] + 2 /\ len[r] \in Nat
    BY <1>0, <1>2, SMT DEF StepsLeft, TypeOK
  <2>2. StepsLeft(r) \in Nat /\ StepsLeft(r) > 0
    BY <2>1, SMT
  <2>3. QED
    BY <1>1, <1>2, <2>2 DEF Waiting
<1>3. CASE st[r] = "serving"
  <2>1. /\ it[r] \in Nat /\ End(r) \in Nat /\ copied[r] \in Nat /\ bv_len[r] \in Nat
        /\ it[r] + bv_len[r] <= End(r) /\ copied[r] <= bv_len[r]
    BY <1>0, <1>3, SMT DEF TypeOK, Place, End, Sector
  <2>2. StepsLeft(r) = 3 * (End(r) - it[r]) + 1 - copied[r] - (IF bv_len[r] > 0 THEN 1 ELSE 0)
    BY <1>3, Zenon DEF StepsLeft
  <2>3. StepsLeft(r) \in Nat /\ StepsLeft(r) > 0
    BY <2>1, <2>2, SMT
  <2>4. QED
    BY <1>1, <1>3, <2>3 DEF Waiting
<1>4. CASE ~Waiting(r)
  <2>1. StepsLeft(r) = 0
    BY <1>4, Zenon DEF Waiting, StepsLeft
  <2>2. QED
    BY <1>4, <2>1, SMT
<1>5. QED
  BY <1>1, <1>2, <1>3, <1>4 DEF Waiting

\* However a request is cut into segments, and whatever is served beside it, the
\* driver always has a step to make for a request that waits.
THEOREM ServingGoesOn == Spec => []NeverStuck
BY InvGoesOn, PositionsAgree, PTL

\* Every step the driver makes for a request brings its end nearer, and no other
\* step puts it off: it is ended within three steps for each sector, and two.
THEOREM ServingEnds == Spec => Shortens
<1>1. ASSUME ServeInv, [Next]_vars, NEW r \in Req, Waiting(r)
      PROVE  \/ Serve(r) /\ StepsLeft(r)' < StepsLeft(r)
             \/ ~Serve(r) /\ StepsLeft(r)' = StepsLeft(r)
  <2>1. CASE Serve(r)
    BY <1>1, <2>1, ServeShortens
  <2>2. CASE ~Serve(r)
    <3>1. ASSUME NEW q \in Req, Submit(q) \/ Serve(q) \/ Collect(q)
          PROVE  StepsLeft(r)' = StepsLeft(r)
      <4>1. q # r
        BY <1>1, <2>2, <3>1 DEF Waiting, Submit, Collect
      <4>2. /\ st'[r] = st[r] /\ first'[r] = first[r] /\ len'[r] = len[r]
            /\ it'[r] = it[r] /\ bv_len'[r] = bv_len[r] /\ copied'[r] = copied[r]
        BY <1>1, <3>1, <4>1, OthersKeep
      <4>3. QED
        BY <4>2, Zenon DEF StepsLeft, End
    <3>2. ASSUME UNCHANGED vars
          PROVE  StepsLeft(r)' = StepsLeft(r)
      BY <3>2, Zenon DEF StepsLeft, End, vars, request, local
    <3>3. QED
      BY <1>1, <2>2, <3>1, <3>2, Zenon DEF Next
  <2>3. QED
    BY <2>1, <2>2
<1>2. ServeInv /\ [Next]_vars =>
        [\A r \in Req: Waiting(r) =>
           \/ Serve(r) /\ StepsLeft(r)' < StepsLeft(r)
           \/ ~Serve(r) /\ StepsLeft(r)' = StepsLeft(r)]_vars
  BY <1>1
<1>3. QED
  BY <1>2, PositionsAgree, PTL DEF Spec, Shortens

-----------------------------------------------------------------------------
(* What the lock would be for.                                             *)

\* The sectors of r that are moved stay the same on both sides.
LEMMA WholeKeeps ==
  ASSUME ServeInv, ServeInv', Apart, Whole, NEW r \in Req, NEW q \in Req,
         Submit(q) \/ Serve(q) \/ Collect(q), st'[r] = "serving",
         NEW s \in first'[r] .. pos'[r] + copied'[r] - 1
  PROVE  buf'[r][s] = data'[s]
<1>0. /\ TypeOK /\ Place(r) /\ Place(q) /\ TypeOK'
      /\ st[r] = "serving" => \A t \in first[r] .. pos[r] + copied[r] - 1: buf[r][t] = data[t]
  BY DEF ServeInv, Whole
<1>1. CASE q = r
  <2>1. ~Submit(r) /\ ~Finish(r) /\ ~Collect(r)
    <3>1. Submit(r) => st'[r] = "queued"
      BY <1>0 DEF Submit, TypeOK
    <3>2. Finish(r) => st'[r] \in {"bug", "done"}
      BY <1>0 DEF Finish, TypeOK
    <3>3. Collect(r) => st'[r] = "free"
      BY <1>0 DEF Collect, TypeOK
    <3>4. QED
      BY <3>1, <3>2, <3>3
  <2>2. CASE Start(r)
    <3>1. pos'[r] = first'[r] /\ copied'[r] = 0 /\ first'[r] \in Nat
      BY <1>0, <2>2, SMT DEF Start, request, TypeOK, Place, Sector
    <3>2. QED
      BY <3>1, SMT
  <2>3. CASE Segment(r) \/ SegmentDone(r)
    <3>1. /\ st[r] = "serving" /\ first' = first /\ data' = data /\ buf' = buf
          /\ pos'[r] + copied'[r] = pos[r] + copied[r]
      BY <1>0, <2>3, SMT DEF Segment, SegmentDone, request, TypeOK, Place
    <3>2. s \in first[r] .. pos[r] + copied[r] - 1
      <4>1. pos'[r] + copied'[r] - 1 = pos[r] + copied[r] - 1
        <5>1. pos[r] \in 0 .. capacity /\ copied[r] \in 0 .. capacity
          BY <1>0 DEF TypeOK
        <5>2. pos'[r] \in 0 .. capacity /\ copied'[r] \in 0 .. capacity
          BY <1>0 DEF TypeOK
        <5>3. pos'[r] + copied'[r] = pos[r] + copied[r]
          BY <3>1, Zenon
        <5>4. QED
          BY <5>1, <5>2, <5>3, CapacityAssumption, SMT
      <4>2. first'[r] = first[r]
        BY <3>1, Zenon
      <4>3. QED
        BY <4>1, <4>2, Zenon
    <3>3. buf[r][s] = data[s]
      BY <1>0, <3>1, <3>2
    <3>4. QED
      BY <3>1, <3>3
  <2>4. CASE Copy(r)
    <3>1. /\ st[r] = "serving" /\ first' = first /\ pos' = pos /\ pos[r] = it[r]
          /\ copied'[r] = copied[r] + 1
      BY <1>0, <2>4, SMT DEF Copy, request, TypeOK, Place
    <3>2. s \in first[r] .. pos[r] + copied[r] - 1 \/ s = pos[r] + copied[r]
      <4>1. /\ pos[r] \in 0 .. capacity /\ copied[r] \in 0 .. capacity
            /\ first[r] \in Sector
        BY <1>0 DEF TypeOK
      <4>2. first'[r] = first[r] /\ pos'[r] = pos[r]
        BY <3>1, Zenon
      <4>3. s \in first[r] .. pos[r] + (copied[r] + 1) - 1
        BY <3>1, <4>2, Zenon
      <4>4. QED
        BY <4>1, <4>3, CapacityAssumption, SMT DEF Sector
    <3>3. s \in Sector /\ pos[r] + copied[r] \in Sector
      <4>1. /\ copied[r] < b_len[r] /\ pos[r] + b_len[r] <= End(r) /\ End(r) <= capacity
            /\ pos[r] \in Nat /\ copied[r] \in Nat /\ b_len[r] \in Nat
            /\ first[r] \in Nat /\ End(r) \in Nat /\ capacity \in Nat
        BY <1>0, <2>4, <3>1, CapacityAssumption, SMT DEF Copy, TypeOK, Place, End, Sector
      <4>2. QED
        BY <3>2, <4>1, SMT DEF Sector
    <3>4. \/ data' = [data EXCEPT ![pos[r] + copied[r]] = buf[r][pos[r] + copied[r]]] /\ buf' = buf
          \/ buf' = [buf EXCEPT ![r][pos[r] + copied[r]] = data[pos[r] + copied[r]]] /\ data' = data
      BY <2>4, <3>1, SMT DEF Copy
    <3>5. data \in Buffer /\ buf[r] \in Buffer /\ buf \in [Req -> Buffer]
      BY <1>0 DEF TypeOK
    <3>6. CASE s = pos[r] + copied[r]
      BY <3>3, <3>4, <3>5, <3>6, SMT DEF Buffer
    <3>7. CASE s # pos[r] + copied[r]
      <4>1. buf[r][s] = data[s]
        BY <1>0, <3>1, <3>2, <3>7
      <4>2. data'[s] = data[s] /\ buf'[r][s] = buf[r][s]
        BY <3>3, <3>4, <3>5, <3>7, SMT DEF Buffer
      <4>3. QED
        BY <4>1, <4>2
    <3>8. QED
      BY <3>6, <3>7
  <2>5. QED
    BY <1>1, <2>1, <2>2, <2>3, <2>4 DEF Serve
<1>2. CASE q # r
  <2>1. /\ st[r] = "serving" /\ first'[r] = first[r] /\ pos'[r] = pos[r]
        /\ copied'[r] = copied[r] /\ buf'[r] = buf[r]
    BY <1>2, OthersKeep
  <2>2. buf[r][s] = data[s]
    BY <1>0, <2>1
  <2>3. data'[s] = data[s]
    <3>1. CASE Copy(q) /\ op[q] = "write"
      <4>1. /\ st[q] = "serving" /\ copied[q] < b_len[q]
            /\ data' = [data EXCEPT ![pos[q] + copied[q]] = buf[q][it[q] + copied[q]]]
        BY <3>1, SMT DEF Copy
      <4>2. End(q) <= first[r] \/ End(r) <= first[q]
        BY <1>2, <2>1, <3>1, <4>1, Zenon DEF Apart, Waiting
      <4>3. /\ first[q] <= pos[q] + copied[q] /\ pos[q] + copied[q] < End(q)
            /\ pos[q] + copied[q] \in Nat /\ End(q) \in Nat /\ first[q] \in Nat
        BY <1>0, <4>1, SMT DEF TypeOK, Place, End, Sector
      <4>4. first[r] <= s /\ s < End(r) /\ s \in Nat /\ first[r] \in Nat /\ End(r) \in Nat
        BY <1>0, <2>1, SMT DEF TypeOK, Place, End, Sector
      <4>5. s # pos[q] + copied[q]
        BY <4>2, <4>3, <4>4, SMT
      <4>6. QED
        BY <4>1, <4>5, SMT
    <3>2. CASE ~(Copy(q) /\ op[q] = "write")
      <4>1. data' = data
        BY <3>2, Zenon DEF Submit, Serve, Start, Segment, Copy, SegmentDone, Finish, Collect
      <4>2. QED
        BY <4>1
    <3>3. QED
      BY <3>1, <3>2
  <2>4. QED
    BY <2>1, <2>2, <2>3
<1>3. QED
  BY <1>1, <1>2

\* As long as the block layer has no request waiting that writes where another
\* one waits, every request of the driver without a lock is served as a whole.
THEOREM WholeWithoutLock == WholeIfApart
<1>1. Init => Whole
  BY DEF Init, Whole
<1>2. ASSUME ServeInv, ServeInv', Apart, Whole, [Next]_vars
      PROVE  Whole'
  <2>1. ASSUME NEW q \in Req, Submit(q) \/ Serve(q) \/ Collect(q)
        PROVE  Whole'
    BY <1>2, <2>1, WholeKeeps DEF Whole
  <2>2. CASE UNCHANGED vars
    BY <1>2, <2>2, Zenon DEF Whole, vars, request, local
  <2>3. QED
    BY <1>2, <2>1, <2>2, Zenon DEF Next
<1>3. ServeInv /\ ServeInv' /\ Apart /\ Whole /\ [Next]_vars => Whole'
  BY <1>2
<1>4. QED
  BY <1>1, <1>3, PositionsAgree, PTL DEF WholeIfApart, Spec

-----------------------------------------------------------------------------
(* The driver for kernels 2.6: the invariant                               *)

\* What has been copied of a request, by its state.
LEMMA MovedIs ==
  ASSUME NEW r \in Req
  PROVE  /\ st26[r] = "queued" /\ head = r /\ fetched =>
              V26!Moved(r) = first26[r] .. sector[r] - 1 + current_nr_sectors[r]
         /\ st26[r] = "queued" /\ ~(head = r /\ fetched) =>
              V26!Moved(r) = first26[r] .. sector[r] - 1 + 0
         /\ st26[r] = "done" => V26!Moved(r) = first26[r] .. last26[r]
         /\ st26[r] = "free" => V26!Moved(r) = {}
BY SMT DEF V26!Moved

\* The same of the next state.
LEMMA MovedBecomes ==
  ASSUME NEW r \in Req
  PROVE  /\ st26'[r] = "queued" /\ head' = r /\ fetched' =>
              V26!Moved(r)' = first26'[r] .. sector'[r] - 1 + current_nr_sectors'[r]
         /\ st26'[r] = "queued" /\ ~(head' = r /\ fetched') =>
              V26!Moved(r)' = first26'[r] .. sector'[r] - 1 + 0
         /\ st26'[r] = "done" => V26!Moved(r)' = first26'[r] .. last26'[r]
         /\ st26'[r] = "free" => V26!Moved(r)' = {}
BY SMT DEF V26!Moved

LEMMA ZeroBuffer == V26!Zero \in Value /\ V26!Blank \in V26!Buffer
BY ValueAssumption, Zenon DEF V26!Zero, V26!Blank, V26!Buffer

\* Nothing has been copied of a request that waits.
LEMMA WaitingIsUnmoved ==
  ASSUME V26!QueueInv, NEW r \in Req, st26[r] = "queued", head # r
  PROVE  V26!Moved(r) = {}
<1>1. sector[r] = first26[r] /\ first26[r] \in Nat
  BY SMT DEF V26!QueueInv, V26!Place, V26!TypeOK, V26!Sector
<1>2. first26[r] .. sector[r] - 1 + 0 = {}
  BY <1>1, SMT
<1>3. QED
  BY <1>2, MovedIs

LEMMA Init26 == V26!Init => V26!QueueInv
<1> SUFFICES ASSUME V26!Init PROVE V26!QueueInv
  OBVIOUS
<1>1. 0 \in V26!Sector /\ 0 \in 0 .. capacity
  BY CapacityAssumption, SMT DEF V26!Sector
<1>2. V26!TypeOK
  BY <1>1, ZeroBuffer, Zenon DEF V26!Init, V26!TypeOK
<1>3. V26!HeadInv /\ (\A r \in Req: V26!Place(r)) /\ V26!Undivided
  BY DEF V26!Init, V26!HeadInv, V26!Place, V26!Undivided
<1>4. QED
  BY <1>2, <1>3 DEF V26!QueueInv

LEMMA Submit26 ==
  ASSUME V26!QueueInv, NEW r \in Req, V26!Submit(r)
  PROVE  V26!QueueInv'
<1>0. /\ V26!TypeOK /\ V26!HeadInv /\ (\A q \in Req: V26!Place(q)) /\ V26!Undivided
  BY DEF V26!QueueInv
<1>1. PICK f \in V26!Sector, l \in V26!Sector:
        /\ f <= l
        /\ first26' = [first26 EXCEPT ![r] = f] /\ last26' = [last26 EXCEPT ![r] = l]
        /\ sector' = [sector EXCEPT ![r] = f]
        /\ \E n \in 1 .. l - f + 1:
             current_nr_sectors' = [current_nr_sectors EXCEPT ![r] = n]
        /\ \/ op26' = op26 /\ buf26' = buf26
           \/ /\ op26' = [op26 EXCEPT ![r] = "write"]
              /\ \E b \in [f .. l -> Value]:
                   buf26' = [buf26 EXCEPT ![r] = [s \in V26!Sector |->
                               IF s \in DOMAIN b THEN b[s] ELSE V26!Zero]]
  BY Zenon DEF V26!Submit
<1>2. PICK n \in 1 .. l - f + 1:
        current_nr_sectors' = [current_nr_sectors EXCEPT ![r] = n]
  BY <1>1
<1>3. /\ st26[r] = "free" /\ st26' = [st26 EXCEPT ![r] = "queued"]
      /\ unplugged' = TRUE
      /\ UNCHANGED <<block_buf, memblock_lock, head, fetched>>
  BY Zenon DEF V26!Submit
<1>4. head # r
  BY <1>0, <1>3, NoneAssumption DEF V26!HeadInv
<1>5. /\ buf26' \in [Req -> V26!Buffer] /\ op26' \in [Req -> {"read", "write"}]
      /\ \A q \in Req \ {r}: buf26'[q] = buf26[q] /\ op26'[q] = op26[q]
  <2>1. CASE op26' = op26 /\ buf26' = buf26
    BY <1>0, <2>1 DEF V26!TypeOK
  <2>2. CASE /\ op26' = [op26 EXCEPT ![r] = "write"]
             /\ \E b \in [f .. l -> Value]:
                  buf26' = [buf26 EXCEPT ![r] = [s \in V26!Sector |->
                              IF s \in DOMAIN b THEN b[s] ELSE V26!Zero]]
    <3>1. PICK b \in [f .. l -> Value]:
            buf26' = [buf26 EXCEPT ![r] = [s \in V26!Sector |->
                        IF s \in DOMAIN b THEN b[s] ELSE V26!Zero]]
      BY <2>2
    <3>2. [s \in V26!Sector |-> IF s \in DOMAIN b THEN b[s] ELSE V26!Zero] \in V26!Buffer
      BY ZeroBuffer DEF V26!Buffer
    <3>3. QED
      BY <1>0, <2>2, <3>1, <3>2 DEF V26!TypeOK
  <2>3. QED
    BY <1>1, <2>1, <2>2
<1>6. V26!TypeOK'
  <2>1. n \in 0 .. capacity
    BY CapacityAssumption, SMT DEF V26!Sector
  <2>2. /\ st26' \in [Req -> {"free", "queued", "done"}]
        /\ first26' \in [Req -> V26!Sector] /\ last26' \in [Req -> V26!Sector]
        /\ sector' \in [Req -> V26!Sector]
        /\ current_nr_sectors' \in [Req -> 0 .. capacity]
    BY <1>0, <1>1, <1>2, <1>3, <2>1, SMT DEF V26!TypeOK
  <2>3. QED
    BY <1>0, <1>3, <1>5, <2>2, Zenon DEF V26!TypeOK
<1>7. V26!HeadInv'
  BY <1>0, <1>3, <1>4 DEF V26!HeadInv, V26!TypeOK
<1>8. /\ st26'[r] = "queued" /\ first26'[r] = f /\ last26'[r] = l /\ sector'[r] = f
      /\ current_nr_sectors'[r] = n
  BY <1>0, <1>1, <1>2, <1>3 DEF V26!TypeOK
<1>9. ASSUME NEW q \in Req, q # r
      PROVE  /\ st26'[q] = st26[q] /\ first26'[q] = first26[q] /\ last26'[q] = last26[q]
             /\ sector'[q] = sector[q] /\ current_nr_sectors'[q] = current_nr_sectors[q]
             /\ op26'[q] = op26[q] /\ buf26'[q] = buf26[q]
  BY <1>0, <1>1, <1>2, <1>3, <1>5, <1>9 DEF V26!TypeOK
<1>10. ASSUME NEW q \in Req PROVE V26!Place(q)'
  <2>1. CASE q = r
    <3>1. f <= f /\ n > 0 /\ f + n - 1 <= l
      BY <1>1, CapacityAssumption, SMT DEF V26!Sector
    <3>2. QED
      BY <1>8, <2>1, <3>1, Zenon DEF V26!Place
  <2>2. CASE q # r
    <3>1. V26!Place(q)
      BY <1>0
    <3>2. QED
      BY <1>3, <1>9, <2>2, <3>1, Zenon DEF V26!Place
  <2>3. QED
    BY <2>1, <2>2
<1>11. ASSUME NEW q \in Req, st26'[q] = "queued", NEW s \in V26!Moved(q)'
       PROVE  buf26'[q][s] = block_buf'[s]
  <2>1. CASE q = r
    <3>1. V26!Moved(q)' = f .. f - 1 + 0
      BY <1>3, <1>4, <1>8, <2>1, MovedBecomes
    <3>2. f .. f - 1 + 0 = {}
      BY CapacityAssumption, SMT DEF V26!Sector
    <3>3. QED
      BY <1>11, <3>1, <3>2
  <2>2. CASE q # r
    <3>1. V26!Moved(q)' = V26!Moved(q) /\ st26[q] = "queued"
      BY <1>3, <1>9, <1>11, <2>2, MovedIs, MovedBecomes, Zenon
    <3>2. QED
      BY <1>0, <1>3, <1>9, <1>11, <2>2, <3>1 DEF V26!Undivided
  <2>3. QED
    BY <2>1, <2>2
<1>12. QED
  BY <1>6, <1>7, <1>10, <1>11 DEF V26!QueueInv, V26!Undivided

\* Taking the lock, giving it back and looking at the next request change
\* nothing of any request.
LEMMA Look26 ==
  ASSUME V26!QueueInv, V26!Call \/ V26!Return \/ V26!NextRequest
  PROVE  /\ V26!QueueInv'
         /\ \A q \in Req: V26!Moved(q)' = V26!Moved(q)
<1> USE DEF V26!request
<1>0. /\ V26!TypeOK /\ V26!HeadInv /\ (\A q \in Req: V26!Place(q)) /\ V26!Undivided
  BY DEF V26!QueueInv
<1>1. /\ UNCHANGED <<block_buf, fetched, st26, op26, first26, last26, sector>>
      /\ UNCHANGED <<current_nr_sectors, buf26>>
      /\ unplugged' \in BOOLEAN /\ memblock_lock' \in BOOLEAN
  BY <1>0, Zenon DEF V26!Call, V26!Return, V26!NextRequest, V26!TypeOK
<1>2. \/ head' = head
      \/ head = None /\ head' \in Req /\ st26[head'] = "queued"
  BY Zenon DEF V26!Call, V26!Return, V26!NextRequest
<1>3. head = None => ~fetched /\ \A q \in Req: head # q
  BY <1>0, NoneAssumption, Zenon DEF V26!HeadInv
<1>4. V26!TypeOK'
  BY <1>0, <1>1, <1>2, Zenon DEF V26!TypeOK
<1>5. V26!HeadInv'
  BY <1>0, <1>1, <1>2, <1>3, Zenon DEF V26!HeadInv
<1>6. ASSUME NEW q \in Req PROVE V26!Place(q)'
  BY <1>0, <1>1, <1>2, <1>3, Zenon DEF V26!Place
<1>7. ASSUME NEW q \in Req PROVE V26!Moved(q)' = V26!Moved(q)
  <2>1. st26[q] \in {"free", "queued", "done"}
    BY <1>0 DEF V26!TypeOK
  <2>2. head = q /\ fetched <=> head' = q /\ fetched'
    BY <1>1, <1>2, <1>3
  <2>3. CASE st26[q] = "queued" /\ head = q /\ fetched
    BY <1>1, <2>2, <2>3, MovedIs, MovedBecomes, Zenon
  <2>4. CASE st26[q] = "queued" /\ ~(head = q /\ fetched)
    BY <1>1, <2>2, <2>4, MovedIs, MovedBecomes, Zenon
  <2>5. CASE st26[q] \in {"free", "done"}
    BY <1>1, <2>5, MovedIs, MovedBecomes, Zenon
  <2>6. QED
    BY <2>1, <2>3, <2>4, <2>5
<1>8. V26!Undivided'
  BY <1>0, <1>1, <1>7, Zenon DEF V26!Undivided
<1>9. QED
  BY <1>4, <1>5, <1>6, <1>7, <1>8, Zenon DEF V26!QueueInv

\* The chunk that is copied is the next of its request, and afterwards it is
\* the same on both sides.
LEMMA Copy26 ==
  ASSUME V26!QueueInv, V26!Copy
  PROVE  /\ V26!QueueInv'
         /\ head \in Req /\ st26[head] = "queued"
         /\ V26!Chunk(head) \in (SUBSET ((first26[head] .. last26[head])
                                           \ V26!Moved(head))) \ {{}}
         /\ \A q \in Req: V26!Moved(q)' =
              IF q = head THEN V26!Moved(q) \cup V26!Chunk(q) ELSE V26!Moved(q)
<1> USE DEF V26!request
<1>0. /\ V26!TypeOK /\ V26!HeadInv /\ (\A q \in Req: V26!Place(q)) /\ V26!Undivided
  BY DEF V26!QueueInv
<1> DEFINE C == V26!Chunk(head)
<1>1. /\ head # None /\ ~fetched /\ fetched' = TRUE
      /\ UNCHANGED <<unplugged, memblock_lock, head, st26, op26, first26, last26, sector>>
      /\ UNCHANGED current_nr_sectors
  BY Zenon DEF V26!Copy
<1>2. head \in Req /\ st26[head] = "queued"
  BY <1>0, <1>1 DEF V26!HeadInv, V26!TypeOK
<1>3. /\ first26[head] \in Nat /\ last26[head] \in Nat /\ sector[head] \in Nat
      /\ current_nr_sectors[head] \in Nat /\ last26[head] < capacity
      /\ first26[head] <= sector[head] /\ current_nr_sectors[head] > 0
      /\ sector[head] + current_nr_sectors[head] - 1 <= last26[head]
  BY <1>0, <1>2, CapacityAssumption, SMT DEF V26!TypeOK, V26!Place, V26!Sector
<1>4. /\ V26!Moved(head) = first26[head] .. sector[head] - 1 + 0
      /\ \A q \in Req: q = head =>
           V26!Moved(q)' = first26[q] .. sector[q] - 1 + current_nr_sectors[q]
  BY <1>1, <1>2, MovedIs, MovedBecomes, Zenon
<1>5. C = sector[head] .. sector[head] + current_nr_sectors[head] - 1
  BY Zenon DEF V26!Chunk
<1> HIDE DEF C
<1>6. /\ C \in (SUBSET ((first26[head] .. last26[head]) \ V26!Moved(head))) \ {{}}
      /\ \A q \in Req: q = head => V26!Moved(q)' = V26!Moved(q) \cup C
      /\ C \subseteq V26!Sector
  <2>1. sector[head] \in C
    BY <1>3, <1>5, SMT
  <2>2. \A s \in C: s \in first26[head] .. last26[head] /\ s \in V26!Sector
    BY <1>3, <1>5, CapacityAssumption, SMT DEF V26!Sector
  <2>3. \A s \in C: s \notin V26!Moved(head)
    BY <1>3, <1>4, <1>5, SMT
  <2>4. first26[head] .. sector[head] - 1 + current_nr_sectors[head]
          = (first26[head] .. sector[head] - 1 + 0) \cup C
    BY <1>3, <1>5, SMT
  <2>5. \A q \in Req: q = head => V26!Moved(q)' = V26!Moved(q) \cup C
    BY <1>4, <2>4, Zenon
  <2>6. QED
    BY <2>1, <2>2, <2>3, <2>5, Zenon
<1>7. ASSUME NEW q \in Req, q # head
      PROVE  V26!Moved(q)' = V26!Moved(q)
  <2>1. st26[q] \in {"free", "queued", "done"}
    BY <1>0 DEF V26!TypeOK
  <2>2. QED
    BY <1>1, <1>7, <2>1, MovedIs, MovedBecomes, Zenon
<1>8. \/ /\ block_buf' = [s \in V26!Sector |-> IF s \in C THEN buf26[head][s] ELSE block_buf[s]]
         /\ buf26' = buf26
      \/ /\ buf26' = [buf26 EXCEPT ![head] =
              [s \in V26!Sector |-> IF s \in C THEN block_buf[s] ELSE buf26[head][s]]]
         /\ block_buf' = block_buf
  BY Zenon DEF V26!Copy, C
<1>9. /\ block_buf' \in V26!Buffer /\ buf26' \in [Req -> V26!Buffer]
      /\ \A s \in V26!Sector: buf26'[head][s] =
           IF s \in C THEN block_buf'[s] ELSE buf26[head][s]
      /\ \A s \in V26!Sector: s \notin C => block_buf'[s] = block_buf[s]
  <2>1. block_buf \in V26!Buffer /\ buf26 \in [Req -> V26!Buffer] /\ buf26[head] \in V26!Buffer
    BY <1>0, <1>2 DEF V26!TypeOK
  <2>2. CASE /\ block_buf' = [s \in V26!Sector |->
                                IF s \in C THEN buf26[head][s] ELSE block_buf[s]]
             /\ buf26' = buf26
    <3>1. block_buf' \in V26!Buffer
      BY <2>1, <2>2 DEF V26!Buffer
    <3>2. \A s \in V26!Sector: block_buf'[s] = IF s \in C THEN buf26[head][s] ELSE block_buf[s]
      BY <2>2
    <3>3. QED
      BY <2>1, <2>2, <3>1, <3>2
  <2>3. CASE /\ buf26' = [buf26 EXCEPT ![head] =
                  [s \in V26!Sector |-> IF s \in C THEN block_buf[s] ELSE buf26[head][s]]]
             /\ block_buf' = block_buf
    <3>1. [s \in V26!Sector |-> IF s \in C THEN block_buf[s] ELSE buf26[head][s]] \in V26!Buffer
      BY <2>1 DEF V26!Buffer
    <3>2. buf26' \in [Req -> V26!Buffer]
      BY <2>1, <2>3, <3>1
    <3>3. buf26'[head] =
            [s \in V26!Sector |-> IF s \in C THEN block_buf[s] ELSE buf26[head][s]]
      BY <1>2, <2>1, <2>3
    <3>4. QED
      BY <2>1, <2>3, <3>2, <3>3
  <2>4. QED
    BY <1>8, <2>2, <2>3
<1>10. V26!TypeOK'
  BY <1>0, <1>1, <1>9, Zenon DEF V26!TypeOK
<1>11. V26!HeadInv' /\ \A q \in Req: V26!Place(q)'
  BY <1>0, <1>1, Zenon DEF V26!HeadInv, V26!Place
<1>12. ASSUME NEW q \in Req, st26'[q] = "queued", NEW s \in V26!Moved(q)'
       PROVE  buf26'[q][s] = block_buf'[s]
  <2>1. CASE q = head
    <3>1. s \in C \/ s \in V26!Moved(q)
      <4>1. V26!Moved(q)' = V26!Moved(q) \cup C
        BY <1>6, <2>1, Zenon
      <4>2. s \in V26!Moved(q) \cup C
        BY <1>12, <4>1
      <4>3. QED
        BY <4>2
    <3>2. s \in V26!Sector
      <4>1. \A i \in first26[head] .. sector[head] - 1 + 0: i \in V26!Sector
        BY <1>3, CapacityAssumption, SMT DEF V26!Sector
      <4>2. QED
        BY <1>4, <1>6, <2>1, <3>1, <4>1, Zenon
    <3>3. s \in V26!Moved(q) => buf26[q][s] = block_buf[s]
      BY <1>0, <1>1, <1>12 DEF V26!Undivided
    <3>4. QED
      BY <1>9, <2>1, <3>1, <3>2, <3>3
  <2>2. CASE q # head
    <3>1. V26!Moved(q) = {}
      BY <1>1, <1>12, <2>2, WaitingIsUnmoved
    <3>2. QED
      BY <1>7, <1>12, <2>2, <3>1
  <2>3. QED
    BY <2>1, <2>2
<1>13. V26!QueueInv'
  BY <1>10, <1>11, <1>12 DEF V26!QueueInv, V26!Undivided
<1>14. QED
  BY <1>2, <1>6, <1>7, <1>13, Zenon DEF C

\* The next chunk of a request begins behind the one that is ended.
LEMMA EndChunk26 ==
  ASSUME V26!QueueInv, V26!EndChunk
  PROVE  /\ V26!QueueInv'
         /\ \A q \in Req: V26!Moved(q)' = V26!Moved(q)
<1>0. /\ V26!TypeOK /\ V26!HeadInv /\ (\A q \in Req: V26!Place(q)) /\ V26!Undivided
  BY DEF V26!QueueInv
<1> DEFINE next == sector[head] + current_nr_sectors[head]
<1>1. /\ head # None /\ fetched /\ fetched' = FALSE /\ next <= last26[head]
      /\ sector' = [sector EXCEPT ![head] = next]
      /\ \E n \in 1 .. last26[head] - next + 1:
           current_nr_sectors' = [current_nr_sectors EXCEPT ![head] = n]
      /\ UNCHANGED <<block_buf, unplugged, memblock_lock, head, st26, op26, first26>>
      /\ UNCHANGED <<last26, buf26>>
  BY Zenon DEF V26!EndChunk, V26!request
<1>2. PICK n \in 1 .. last26[head] - next + 1:
        current_nr_sectors' = [current_nr_sectors EXCEPT ![head] = n]
  BY <1>1
<1>3. head \in Req /\ st26[head] = "queued"
  BY <1>0, <1>1 DEF V26!HeadInv, V26!TypeOK
<1>4. /\ first26[head] \in Nat /\ last26[head] \in Nat /\ sector[head] \in Nat
      /\ current_nr_sectors[head] \in Nat /\ last26[head] < capacity
      /\ first26[head] <= sector[head] /\ current_nr_sectors[head] > 0
  BY <1>0, <1>3, CapacityAssumption, SMT DEF V26!TypeOK, V26!Place, V26!Sector
<1>5. /\ next \in V26!Sector /\ n \in 0 .. capacity /\ n > 0
      /\ first26[head] <= next /\ next + n - 1 <= last26[head]
  BY <1>1, <1>4, CapacityAssumption, SMT DEF V26!Sector
<1>6. /\ sector' \in [Req -> V26!Sector] /\ current_nr_sectors' \in [Req -> 0 .. capacity]
      /\ sector'[head] = next /\ current_nr_sectors'[head] = n
      /\ \A q \in Req: q # head => /\ sector'[q] = sector[q]
                                   /\ current_nr_sectors'[q] = current_nr_sectors[q]
  BY <1>0, <1>1, <1>2, <1>3, <1>5 DEF V26!TypeOK
<1>7. V26!TypeOK'
  BY <1>0, <1>1, <1>6, Zenon DEF V26!TypeOK
<1>8. V26!HeadInv'
  BY <1>0, <1>1, Zenon DEF V26!HeadInv
<1>9. ASSUME NEW q \in Req PROVE V26!Place(q)'
  <2>1. CASE q = head
    BY <1>0, <1>1, <1>5, <1>6, <2>1, Zenon DEF V26!Place
  <2>2. CASE q # head
    BY <1>0, <1>1, <1>6, <2>2, Zenon DEF V26!Place
  <2>3. QED
    BY <2>1, <2>2
<1>10. ASSUME NEW q \in Req PROVE V26!Moved(q)' = V26!Moved(q)
  <2>0. st26[q] \in {"free", "queued", "done"}
    BY <1>0 DEF V26!TypeOK
  <2>1. CASE q = head
    <3>1. V26!Moved(q) = first26[q] .. sector[q] - 1 + current_nr_sectors[q]
      BY <1>1, <1>3, <2>1, MovedIs, Zenon
    <3>2. V26!Moved(q)' = first26[q] .. next - 1 + 0
      BY <1>1, <1>3, <1>6, <2>1, MovedBecomes, Zenon
    <3>3. next - 1 + 0 = sector[q] - 1 + current_nr_sectors[q]
      BY <1>4, <2>1, SMT
    <3>4. QED
      BY <3>1, <3>2, <3>3
  <2>2. CASE q # head
    BY <1>1, <1>6, <2>0, <2>2, MovedIs, MovedBecomes, Zenon
  <2>3. QED
    BY <2>1, <2>2
<1>11. V26!Undivided'
  BY <1>0, <1>1, <1>10, Zenon DEF V26!Undivided
<1>12. QED
  BY <1>7, <1>8, <1>9, <1>10, <1>11, Zenon DEF V26!QueueInv

\* A request is ended when all of it has been copied.
LEMMA EndRequest26 ==
  ASSUME V26!QueueInv, V26!EndRequest
  PROVE  /\ V26!QueueInv'
         /\ head \in Req /\ st26[head] = "queued"
         /\ V26!Moved(head) = first26[head] .. last26[head]
         /\ \A q \in Req: V26!Moved(q)' = V26!Moved(q)
<1> USE DEF V26!request
<1>0. /\ V26!TypeOK /\ V26!HeadInv /\ (\A q \in Req: V26!Place(q)) /\ V26!Undivided
  BY DEF V26!QueueInv
<1>1. /\ head # None /\ fetched /\ fetched' = FALSE /\ head' = None
      /\ sector[head] + current_nr_sectors[head] > last26[head]
      /\ st26' = [st26 EXCEPT ![head] = "done"]
      /\ UNCHANGED <<block_buf, unplugged, memblock_lock, op26, first26, last26, sector>>
      /\ UNCHANGED <<current_nr_sectors, buf26>>
  BY Zenon DEF V26!EndRequest
<1>2. head \in Req /\ st26[head] = "queued"
  BY <1>0, <1>1 DEF V26!HeadInv, V26!TypeOK
<1>3. sector[head] - 1 + current_nr_sectors[head] = last26[head]
  BY <1>0, <1>1, <1>2, CapacityAssumption, SMT DEF V26!TypeOK, V26!Place, V26!Sector
<1>4. /\ V26!Moved(head) = first26[head] .. last26[head]
  BY <1>1, <1>2, <1>3, MovedIs
<1>5. /\ st26'[head] = "done" /\ st26' \in [Req -> {"free", "queued", "done"}]
      /\ \A q \in Req: q # head => st26'[q] = st26[q]
  BY <1>0, <1>1, <1>2 DEF V26!TypeOK
<1>6. ASSUME NEW q \in Req PROVE V26!Moved(q)' = V26!Moved(q)
  <2>0. st26[q] \in {"free", "queued", "done"}
    BY <1>0 DEF V26!TypeOK
  <2>1. CASE q = head
    BY <1>1, <1>4, <1>5, <2>1, MovedBecomes, Zenon
  <2>2. CASE q # head
    BY <1>1, <1>5, <2>0, <2>2, MovedIs, MovedBecomes, Zenon
  <2>3. QED
    BY <2>1, <2>2
<1>7. V26!TypeOK' /\ V26!HeadInv'
  BY <1>0, <1>1, <1>5, Zenon DEF V26!TypeOK, V26!HeadInv
<1>8. ASSUME NEW q \in Req PROVE V26!Place(q)'
  <2>1. CASE q = head
    BY <1>5, <2>1 DEF V26!Place
  <2>2. CASE q # head
    BY <1>0, <1>1, <1>5, <2>2, Zenon DEF V26!Place
  <2>3. QED
    BY <2>1, <2>2
<1>9. ASSUME NEW q \in Req, st26'[q] = "queued", NEW s \in V26!Moved(q)'
      PROVE  buf26'[q][s] = block_buf'[s]
  <2>1. st26[q] = "queued"
    BY <1>5, <1>9
  <2>2. QED
    BY <1>0, <1>1, <1>6, <1>9, <2>1, Zenon DEF V26!Undivided
<1>10. QED
  BY <1>2, <1>4, <1>6, <1>7, <1>8, <1>9, Zenon DEF V26!QueueInv, V26!Undivided

LEMMA Collect26 ==
  ASSUME V26!QueueInv, NEW r \in Req, V26!Collect(r)
  PROVE  V26!QueueInv'
<1>0. /\ V26!TypeOK /\ V26!HeadInv /\ (\A q \in Req: V26!Place(q)) /\ V26!Undivided
  BY DEF V26!QueueInv
<1>1. /\ st26[r] = "done" /\ st26' = [st26 EXCEPT ![r] = "free"]
      /\ op26' = [op26 EXCEPT ![r] = "read"]
      /\ first26' = [first26 EXCEPT ![r] = 0] /\ last26' = [last26 EXCEPT ![r] = 0]
      /\ sector' = [sector EXCEPT ![r] = 0]
      /\ current_nr_sectors' = [current_nr_sectors EXCEPT ![r] = 0]
      /\ buf26' = [buf26 EXCEPT ![r] = V26!Blank]
      /\ UNCHANGED <<block_buf, unplugged, memblock_lock, head, fetched>>
  BY Zenon DEF V26!Collect
<1>2. 0 \in V26!Sector /\ 0 \in 0 .. capacity
  BY CapacityAssumption, SMT DEF V26!Sector
<1>3. head # r
  BY <1>0, <1>1, NoneAssumption DEF V26!HeadInv
<1>4. V26!TypeOK'
  <2>1. /\ st26' \in [Req -> {"free", "queued", "done"}]
        /\ op26' \in [Req -> {"read", "write"}]
        /\ first26' \in [Req -> V26!Sector] /\ last26' \in [Req -> V26!Sector]
        /\ sector' \in [Req -> V26!Sector]
        /\ current_nr_sectors' \in [Req -> 0 .. capacity]
        /\ buf26' \in [Req -> V26!Buffer]
    BY <1>0, <1>1, <1>2, ZeroBuffer DEF V26!TypeOK
  <2>2. QED
    BY <1>0, <1>1, <2>1, Zenon DEF V26!TypeOK
<1>5. V26!HeadInv'
  BY <1>0, <1>1, <1>3 DEF V26!HeadInv, V26!TypeOK
<1>6. ASSUME NEW q \in Req
      PROVE  /\ V26!Place(q)'
             /\ st26'[q] = "queued" => \A s \in V26!Moved(q)': buf26'[q][s] = block_buf'[s]
  <2>1. CASE q = r
    <3>1. st26'[q] = "free" /\ op26'[q] = "read"
      BY <1>0, <1>1, <2>1 DEF V26!TypeOK
    <3>2. QED
      BY <3>1 DEF V26!Place
  <2>2. CASE q # r
    <3>1. /\ st26'[q] = st26[q] /\ first26'[q] = first26[q] /\ last26'[q] = last26[q]
          /\ sector'[q] = sector[q] /\ current_nr_sectors'[q] = current_nr_sectors[q]
          /\ op26'[q] = op26[q] /\ buf26'[q] = buf26[q]
      BY <1>0, <1>1, <2>2 DEF V26!TypeOK
    <3>2. V26!Place(q)'
      BY <1>0, <1>1, <3>1, Zenon DEF V26!Place
    <3>3. st26[q] = "queued" => V26!Moved(q)' = V26!Moved(q)
      BY <1>1, <3>1, MovedIs, MovedBecomes, Zenon
    <3>4. QED
      BY <1>0, <1>1, <3>1, <3>2, <3>3, Zenon DEF V26!Undivided
  <2>3. QED
    BY <2>1, <2>2
<1>7. QED
  BY <1>4, <1>5, <1>6, Zenon DEF V26!QueueInv, V26!Undivided

LEMMA Step26 ==
  ASSUME V26!QueueInv, [V26!Next]_vars26
  PROVE  V26!QueueInv'
<1>1. CASE V26!Next
  <2>1. \/ V26!Call \/ V26!Return \/ V26!NextRequest \/ V26!Copy \/ V26!EndChunk
        \/ V26!EndRequest
        \/ \E r \in Req: V26!Submit(r) \/ V26!Collect(r)
    BY <1>1, Zenon DEF V26!Next, V26!Serve
  <2>2. QED
    BY <2>1, Look26, Copy26, EndChunk26, EndRequest26, Submit26, Collect26
<1>2. CASE UNCHANGED vars26
  <2>1. /\ UNCHANGED <<block_buf, unplugged, memblock_lock, head, fetched, st26, op26>>
        /\ UNCHANGED <<first26, last26, sector, current_nr_sectors, buf26>>
    BY <1>2, Zenon DEF vars26
  <2>2. V26!TypeOK' /\ V26!HeadInv' /\ (\A q \in Req: V26!Place(q)') /\ V26!Undivided'
    BY <2>1, Zenon DEF V26!QueueInv, V26!TypeOK, V26!HeadInv, V26!Place, V26!Undivided,
       V26!Moved
  <2>3. QED
    BY <2>2, Zenon DEF V26!QueueInv
<1>3. QED
  BY <1>1, <1>2

\* However a request is cut into chunks, what is at the head of the queue is a
\* piece of it that is still to be copied, and the others are untouched.
THEOREM QueueCorrect == EitherSpec => []V26!QueueInv
<1>1. EitherInit => V26!QueueInv
  BY Init26 DEF EitherInit
<1>2. V26!QueueInv /\ [EitherNext]_<<kernel, vars, vars26>> => V26!QueueInv'
  <2> SUFFICES ASSUME V26!QueueInv, [EitherNext]_<<kernel, vars, vars26>>
               PROVE  V26!QueueInv'
    OBVIOUS
  <2>1. [V26!Next]_vars26
    BY Zenon DEF EitherNext
  <2>2. QED
    BY <2>1, Step26
<1>3. QED
  BY <1>1, <1>2, PTL DEF EitherSpec

\* With kernels 2.6 no read finds half of a write: a request that is being
\* served agrees with the disk in all it has moved.
THEOREM ServedWhole == EitherSpec => []Undivided
<1>1. V26!QueueInv => Undivided
  BY DEF V26!QueueInv, Undivided
<1>2. QED
  BY <1>1, QueueCorrect, PTL

(* How the queue is emptied.                                               *)

LEMMA Forgotten26 ==
  ASSUME V26!QueueInv, V26!NothingForgotten, [V26!Next]_vars26
  PROVE  V26!NothingForgotten'
<1> USE DEF V26!request
<1>0. V26!TypeOK /\ V26!HeadInv
  BY DEF V26!QueueInv
<1>1. CASE \E r \in Req: V26!Submit(r)
  BY <1>1, Zenon DEF V26!Submit, V26!NothingForgotten
<1>2. CASE \E r \in Req: V26!Collect(r)
  <2>1. PICK r \in Req: V26!Collect(r)
    BY <1>2
  <2>2. st26' = [st26 EXCEPT ![r] = "free"] /\ UNCHANGED <<unplugged, memblock_lock, head>>
    BY <2>1, Zenon DEF V26!Collect
  <2>3. \A q \in Req: st26'[q] = "queued" => st26[q] = "queued"
    BY <1>0, <2>2 DEF V26!TypeOK
  <2>4. QED
    BY <2>2, <2>3, Zenon DEF V26!NothingForgotten
<1>3. CASE V26!Call
  BY <1>3, Zenon DEF V26!Call, V26!NothingForgotten
<1>4. CASE V26!Return
  BY <1>4, Zenon DEF V26!Return, V26!NothingForgotten
<1>5. CASE V26!NextRequest
  BY <1>5, Zenon DEF V26!NextRequest, V26!NothingForgotten
<1>6. CASE V26!Copy \/ V26!EndChunk
  BY <1>6, Zenon DEF V26!Copy, V26!EndChunk, V26!NothingForgotten
<1>7. CASE V26!EndRequest
  BY <1>7, Zenon DEF V26!EndRequest, V26!NothingForgotten
<1>8. CASE UNCHANGED vars26
  BY <1>8, Zenon DEF vars26, V26!NothingForgotten
<1>9. QED
  BY <1>1, <1>2, <1>3, <1>4, <1>5, <1>6, <1>7, <1>8, Zenon DEF V26!Next, V26!Serve

\* With kernels 2.6 nothing is left in the queue with the function neither running
\* nor about to be called.
THEOREM NothingLeftInQueue == EitherSpec => []V26!NothingForgotten
<1>1. EitherInit => V26!NothingForgotten
  BY Zenon DEF EitherInit, V26!Init, V26!NothingForgotten
<1>2. V26!QueueInv /\ V26!NothingForgotten /\ [EitherNext]_<<kernel, vars, vars26>>
        => V26!NothingForgotten'
  <2> SUFFICES ASSUME V26!QueueInv, V26!NothingForgotten,
                      [EitherNext]_<<kernel, vars, vars26>>
               PROVE  V26!NothingForgotten'
    OBVIOUS
  <2>1. [V26!Next]_vars26
    BY Zenon DEF EitherNext
  <2>2. QED
    BY <2>1, Forgotten26
<1>3. QED
  BY <1>1, <1>2, QueueCorrect, PTL DEF EitherSpec

LEMMA HeadPlace ==
  ASSUME V26!QueueInv, head # None
  PROVE  /\ head \in Req /\ sector[head] \in Nat /\ current_nr_sectors[head] \in Nat
         /\ last26[head] \in Nat /\ current_nr_sectors[head] > 0
         /\ sector[head] <= last26[head]
<1>1. /\ head \in Req /\ st26[head] = "queued" /\ V26!Place(head) /\ V26!TypeOK
  BY Zenon DEF V26!QueueInv, V26!HeadInv, V26!TypeOK
<1>2. QED
  BY <1>1, CapacityAssumption, SMT DEF V26!TypeOK, V26!Place, V26!Sector

\* With kernels 2.6 the function goes on while a request is in the queue.
THEOREM QueueGoesOn == EitherSpec => []V26!NeverStuck
<1>1. ASSUME V26!QueueInv, V26!NothingForgotten
      PROVE  V26!NeverStuck
  <2>1. CASE head = None
    <3>1. V26!StepsLeft = 0
      BY <2>1 DEF V26!StepsLeft
    <3>2. (\E r \in Req: st26[r] = "queued") => V26!CanServe
      BY <1>1, <2>1, Zenon DEF V26!NothingForgotten, V26!CanServe
    <3>3. QED
      BY <2>1, <3>1, <3>2 DEF V26!NeverStuck
  <2>2. CASE head # None
    <3>1. V26!CanServe
      BY <1>1, <2>2, HeadPlace, SMT DEF V26!CanServe
    <3>2. V26!StepsLeft \in Nat /\ V26!StepsLeft > 0
      BY <1>1, <2>2, HeadPlace, SMT DEF V26!StepsLeft
    <3>3. QED
      BY <3>1, <3>2 DEF V26!NeverStuck
  <2>3. QED
    BY <2>1, <2>2
<1>2. V26!QueueInv /\ V26!NothingForgotten => V26!NeverStuck
  BY <1>1
<1>3. QED
  BY <1>2, QueueCorrect, NothingLeftInQueue, PTL

\* Each step for the request at the head of the queue brings its end nearer: two
\* steps at most for each of its sectors.
THEOREM QueueEnds == EitherSpec => V26!Shortens
<1> USE DEF V26!request
<1>1. ASSUME V26!QueueInv, V26!NothingForgotten, head # None, V26!Serve
      PROVE  V26!StepsLeft' < V26!StepsLeft
  <2>0. /\ head \in Req /\ sector[head] \in Nat /\ current_nr_sectors[head] \in Nat
        /\ last26[head] \in Nat /\ current_nr_sectors[head] > 0
        /\ sector[head] <= last26[head] /\ memblock_lock
        /\ fetched \in BOOLEAN /\ sector \in [Req -> Nat]
    <3>1. V26!TypeOK
      BY <1>1 DEF V26!QueueInv
    <3>2. memblock_lock
      BY <1>1, Zenon DEF V26!NothingForgotten
    <3>3. sector \in [Req -> Nat]
      BY <3>1, SMT DEF V26!TypeOK, V26!Sector
    <3>4. QED
      BY <1>1, <3>1, <3>2, <3>3, HeadPlace DEF V26!TypeOK
  <2>1. CASE V26!Call \/ V26!NextRequest \/ V26!Return
    BY <1>1, <2>0, <2>1, Zenon DEF V26!Call, V26!NextRequest, V26!Return
  <2>2. CASE V26!Copy
    <3>1. /\ ~fetched /\ fetched'
          /\ UNCHANGED <<head, last26, sector>>
      BY <2>2, Zenon DEF V26!Copy
    <3>2. V26!StepsLeft = 2 * (last26[head] - sector[head]) + 2
      BY <1>1, <2>0, <3>1, SMT DEF V26!StepsLeft
    <3>3. V26!StepsLeft' = 2 * (last26[head] - sector[head]) + 1
      BY <1>1, <2>0, <3>1, SMT DEF V26!StepsLeft
    <3>4. QED
      BY <2>0, <3>2, <3>3, SMT
  <2>3. CASE V26!EndChunk
    <3>1. /\ fetched /\ ~fetched' /\ UNCHANGED <<head, last26>>
          /\ sector' = [sector EXCEPT ![head] = sector[head] + current_nr_sectors[head]]
      BY <2>3, Zenon DEF V26!EndChunk
    <3>2. V26!StepsLeft = 2 * (last26[head] - sector[head]) + 1
      BY <1>1, <2>0, <3>1, SMT DEF V26!StepsLeft
    <3>3. sector'[head] = sector[head] + current_nr_sectors[head]
      BY <2>0, <3>1
    <3>4. V26!StepsLeft' = 2 * (last26[head] - sector'[head]) + 2
      BY <1>1, <2>0, <3>1, <3>3, SMT DEF V26!StepsLeft
    <3>5. QED
      BY <2>0, <3>2, <3>3, <3>4, SMT
  <2>4. CASE V26!EndRequest
    <3>1. fetched /\ head' = None
      BY <2>4, Zenon DEF V26!EndRequest
    <3>2. V26!StepsLeft' = 0
      BY <3>1, Zenon DEF V26!StepsLeft
    <3>3. V26!StepsLeft > 0
      BY <1>1, <2>0, <3>1, SMT DEF V26!StepsLeft
    <3>4. QED
      BY <3>2, <3>3
  <2>5. QED
    BY <1>1, <2>1, <2>2, <2>3, <2>4, Zenon DEF V26!Serve
<1>2. V26!QueueInv /\ V26!NothingForgotten /\ [EitherNext]_<<kernel, vars, vars26>> =>
        [head # None /\ V26!Serve => V26!StepsLeft' < V26!StepsLeft]_(V26!vars)
  BY <1>1
<1>3. QED
  BY <1>2, QueueCorrect, NothingLeftInQueue, PTL DEF EitherSpec, V26!Shortens

-----------------------------------------------------------------------------
(* It keeps the promise of Disk as well.                                   *)

LEMMA InitMaps26 == V26!Init => V26!Promise!Init
<1> SUFFICES ASSUME V26!Init PROVE V26!Promise!Init
  OBVIOUS
<1>1. \A r \in Req: st26[r] = "free"
  BY DEF V26!Init
<1>2. /\ V26!stBar = [r \in Req |-> "free"] /\ V26!wantBar = [r \in Req |-> {}]
      /\ V26!movedBar = [r \in Req |-> {}]
  BY <1>1, MovedIs, Zenon DEF V26!stBar, V26!wantBar, V26!movedBar
<1>3. /\ block_buf \in V26!Promise!Buffer /\ buf26 \in [Req -> V26!Promise!Buffer]
      /\ op26 = [r \in Req |-> "read"]
  BY ZeroBuffer, Zenon DEF V26!Init, V26!Buffer, V26!Promise!Buffer
<1>4. QED
  BY <1>2, <1>3, Zenon DEF V26!Promise!Init

LEMMA SubmitMaps26 ==
  ASSUME V26!QueueInv, V26!QueueInv', NEW r \in Req, V26!Submit(r)
  PROVE  V26!Promise!Submit(r)
<1>0. V26!TypeOK /\ V26!TypeOK' /\ V26!HeadInv /\ V26!Place(r)
  BY DEF V26!QueueInv
<1>1. PICK f \in V26!Sector, l \in V26!Sector:
        /\ f <= l
        /\ first26' = [first26 EXCEPT ![r] = f] /\ last26' = [last26 EXCEPT ![r] = l]
        /\ sector' = [sector EXCEPT ![r] = f]
        /\ \E n \in 1 .. l - f + 1:
             current_nr_sectors' = [current_nr_sectors EXCEPT ![r] = n]
        /\ \/ op26' = op26 /\ buf26' = buf26
           \/ /\ op26' = [op26 EXCEPT ![r] = "write"]
              /\ \E b \in [f .. l -> Value]:
                   buf26' = [buf26 EXCEPT ![r] = [s \in V26!Sector |->
                               IF s \in DOMAIN b THEN b[s] ELSE V26!Zero]]
  BY Zenon DEF V26!Submit
<1>2. /\ st26[r] = "free" /\ st26' = [st26 EXCEPT ![r] = "queued"]
      /\ UNCHANGED <<block_buf, head, fetched>>
  BY Zenon DEF V26!Submit
<1> DEFINE S == f .. l
<1>3. S \in (SUBSET Sector) \ {{}}
  BY <1>1, CapacityAssumption, SMT DEF Sector, V26!Sector
<1>4. op26[r] = "read" /\ head # r
  BY <1>0, <1>2, NoneAssumption DEF V26!Place, V26!HeadInv
<1>5. /\ op26' = [op26 EXCEPT ![r] = op26'[r]] /\ op26'[r] \in {"read", "write"}
      /\ buf26' = [buf26 EXCEPT ![r] = buf26'[r]] /\ buf26'[r] \in V26!Promise!Buffer
  BY <1>0, <1>1 DEF V26!TypeOK, V26!Buffer, V26!Promise!Buffer, V26!Sector, Sector
<1>6. ASSUME NEW q \in Req
      PROVE  /\ V26!stBar'[q] = [V26!stBar EXCEPT ![r] = "pending"][q]
             /\ V26!wantBar'[q] = [V26!wantBar EXCEPT ![r] = S][q]
             /\ V26!Moved(q)' = V26!Moved(q)
  <2>1. CASE q = r
    <3>1. /\ st26'[r] = "queued" /\ first26'[r] = f /\ last26'[r] = l /\ sector'[r] = f
      BY <1>0, <1>1, <1>2 DEF V26!TypeOK
    <3>2. V26!Moved(r)' = f .. f - 1 + 0
      BY <1>2, <1>4, <3>1, MovedBecomes
    <3>3. f .. f - 1 + 0 = {}
      BY CapacityAssumption, SMT DEF V26!Sector
    <3>4. V26!Moved(r)' = {} /\ V26!Moved(r) = {}
      BY <1>2, <3>2, <3>3, MovedIs
    <3>5. V26!stBar'[r] = "pending" /\ V26!wantBar'[r] = S
      BY <3>1, Zenon DEF V26!stBar, V26!wantBar
    <3>6. /\ [V26!stBar EXCEPT ![r] = "pending"][r] = "pending"
          /\ [V26!wantBar EXCEPT ![r] = S][r] = S
      BY Zenon DEF V26!stBar, V26!wantBar
    <3>7. QED
      BY <2>1, <3>4, <3>5, <3>6, Zenon
  <2>2. CASE q # r
    <3>1. /\ st26'[q] = st26[q] /\ first26'[q] = first26[q] /\ last26'[q] = last26[q]
          /\ sector'[q] = sector[q] /\ current_nr_sectors'[q] = current_nr_sectors[q]
      BY <1>0, <1>1, <1>2, <2>2 DEF V26!TypeOK
    <3>2. st26[q] \in {"free", "queued", "done"}
      BY <1>0 DEF V26!TypeOK
    <3>3. V26!Moved(q)' = V26!Moved(q)
      BY <1>2, <3>1, <3>2, MovedIs, MovedBecomes, Zenon
    <3>4. QED
      BY <2>2, <3>1, <3>3, Zenon DEF V26!stBar, V26!wantBar
  <2>3. QED
    BY <2>1, <2>2
<1>7. /\ V26!stBar' = [V26!stBar EXCEPT ![r] = "pending"]
      /\ V26!wantBar' = [V26!wantBar EXCEPT ![r] = S] /\ V26!movedBar' = V26!movedBar
  BY <1>6, Zenon DEF V26!stBar, V26!wantBar, V26!movedBar
<1>8. V26!stBar[r] = "free"
  BY <1>2 DEF V26!stBar
<1> HIDE DEF S
<1>9. S \in (SUBSET V26!Sector) \ {{}}
  BY <1>3, Zenon DEF Sector, V26!Sector
<1>10. QED
  BY <1>2, <1>5, <1>7, <1>8, <1>9, Zenon DEF V26!Promise!Submit

\* A chunk that is copied is a set of sectors that is moved.
LEMMA CopyMaps26 ==
  ASSUME V26!QueueInv, V26!QueueInv', V26!Copy
  PROVE  head \in Req /\ V26!Promise!Transfer(head)
<1>0. V26!TypeOK /\ V26!TypeOK'
  BY DEF V26!QueueInv
<1> DEFINE C == V26!Chunk(head)
<1>1. UNCHANGED <<head, st26, op26, first26, last26>>
  BY Zenon DEF V26!Copy, V26!request
<1>2. /\ head \in Req /\ st26[head] = "queued"
      /\ C \in (SUBSET ((first26[head] .. last26[head]) \ V26!Moved(head))) \ {{}}
      /\ \A q \in Req: V26!Moved(q)' =
           IF q = head THEN V26!Moved(q) \cup V26!Chunk(q) ELSE V26!Moved(q)
  BY Copy26
<1>3. \A q \in Req: V26!movedBar[q] = V26!Moved(q) /\ V26!movedBar'[q] = V26!Moved(q)'
  BY Zenon DEF V26!movedBar
<1>4. V26!movedBar' = [V26!movedBar EXCEPT ![head] = V26!movedBar[head] \cup C]
  <2>1. ASSUME NEW q \in Req
        PROVE  V26!movedBar'[q] = [V26!movedBar EXCEPT ![head] = V26!movedBar[head] \cup C][q]
    <3>1. CASE q = head
      <4>1. V26!Moved(q)' = V26!Moved(q) \cup V26!Chunk(q)
        BY <1>2, <3>1, Zenon
      <4>2. V26!Chunk(q) = C
        BY <3>1, Zenon DEF V26!Chunk
      <4>3. V26!movedBar'[q] = V26!movedBar[q] \cup C
        BY <1>3, <4>1, <4>2, Zenon
      <4>4. [V26!movedBar EXCEPT ![head] = V26!movedBar[head] \cup C][head]
              = V26!movedBar[head] \cup C
        BY <1>2, Zenon DEF V26!movedBar
      <4>5. QED
        BY <3>1, <4>3, <4>4, Zenon
    <3>2. CASE q # head
      BY <1>2, <1>3, <3>2, Zenon DEF V26!movedBar
    <3>3. QED
      BY <3>1, <3>2
  <2>2. QED
    BY <2>1, Zenon DEF V26!movedBar
<1>5. /\ V26!stBar' = V26!stBar /\ V26!wantBar' = V26!wantBar
      /\ V26!stBar[head] = "pending"
      /\ V26!wantBar[head] = first26[head] .. last26[head]
      /\ V26!movedBar[head] = V26!Moved(head)
  BY <1>1, <1>2, Zenon DEF V26!stBar, V26!wantBar, V26!movedBar
<1>6. \/ /\ op26[head] = "write"
         /\ block_buf' = V26!Promise!Over(block_buf, buf26[head], C)
         /\ UNCHANGED buf26
      \/ /\ op26[head] = "read"
         /\ buf26' = [buf26 EXCEPT ![head] = V26!Promise!Over(buf26[head], block_buf, C)]
         /\ UNCHANGED block_buf
  BY Zenon DEF V26!Copy, V26!Promise!Over
<1> HIDE DEF C
<1>7. C \in (SUBSET (V26!wantBar[head] \ V26!movedBar[head])) \ {{}}
  BY <1>2, <1>5, Zenon
<1>8. QED
  BY <1>1, <1>2, <1>4, <1>5, <1>6, <1>7, Zenon DEF V26!Promise!Transfer

LEMMA EndRequestMaps26 ==
  ASSUME V26!QueueInv, V26!QueueInv', V26!EndRequest
  PROVE  head \in Req /\ V26!Promise!Complete(head)
<1>0. V26!TypeOK
  BY DEF V26!QueueInv
<1>1. /\ head \in Req /\ st26[head] = "queued"
      /\ V26!Moved(head) = first26[head] .. last26[head]
      /\ \A q \in Req: V26!Moved(q)' = V26!Moved(q)
  BY EndRequest26
<1>2. /\ st26' = [st26 EXCEPT ![head] = "done"]
      /\ UNCHANGED <<block_buf, op26, first26, last26, buf26>>
  BY Zenon DEF V26!EndRequest, V26!request
<1>3. V26!movedBar' = V26!movedBar
  BY <1>1, Zenon DEF V26!movedBar
<1>4. ASSUME NEW q \in Req
      PROVE  /\ V26!stBar'[q] = [V26!stBar EXCEPT ![head] = "done"][q]
             /\ V26!wantBar'[q] = V26!wantBar[q]
  <2>1. CASE q = head
    <3>1. st26'[q] = "done" /\ st26[q] = "queued"
      BY <1>0, <1>1, <1>2, <2>1 DEF V26!TypeOK
    <3>2. QED
      BY <1>2, <2>1, <3>1, Zenon DEF V26!stBar, V26!wantBar
  <2>2. CASE q # head
    <3>1. st26'[q] = st26[q]
      BY <1>0, <1>2, <2>2 DEF V26!TypeOK
    <3>2. QED
      BY <1>2, <2>2, <3>1, Zenon DEF V26!stBar, V26!wantBar
  <2>3. QED
    BY <2>1, <2>2
<1>5. /\ V26!stBar' = [V26!stBar EXCEPT ![head] = "done"]
      /\ V26!wantBar' = V26!wantBar
  BY <1>4, Zenon DEF V26!stBar, V26!wantBar
<1>6. V26!stBar[head] = "pending" /\ V26!movedBar[head] = V26!wantBar[head]
  BY <1>1, Zenon DEF V26!stBar, V26!wantBar, V26!movedBar
<1>7. QED
  BY <1>1, <1>2, <1>3, <1>5, <1>6, Zenon DEF V26!Promise!Complete

LEMMA CollectMaps26 ==
  ASSUME V26!QueueInv, V26!QueueInv', NEW r \in Req, V26!Collect(r)
  PROVE  V26!Promise!Collect(r)
<1>0. V26!TypeOK
  BY DEF V26!QueueInv
<1>1. /\ st26[r] = "done" /\ st26' = [st26 EXCEPT ![r] = "free"]
      /\ op26' = [op26 EXCEPT ![r] = "read"]
      /\ first26' = [first26 EXCEPT ![r] = 0] /\ last26' = [last26 EXCEPT ![r] = 0]
      /\ sector' = [sector EXCEPT ![r] = 0]
      /\ current_nr_sectors' = [current_nr_sectors EXCEPT ![r] = 0]
      /\ buf26' = [buf26 EXCEPT ![r] = V26!Blank]
      /\ UNCHANGED <<block_buf, head, fetched>>
  BY Zenon DEF V26!Collect
<1>2. ASSUME NEW q \in Req
      PROVE  /\ V26!stBar'[q] = [V26!stBar EXCEPT ![r] = "free"][q]
             /\ V26!wantBar'[q] = [V26!wantBar EXCEPT ![r] = {}][q]
             /\ V26!movedBar'[q] = [V26!movedBar EXCEPT ![r] = {}][q]
  <2>1. CASE q = r
    <3>1. st26'[q] = "free"
      BY <1>0, <1>1, <2>1 DEF V26!TypeOK
    <3>2. V26!Moved(q)' = {}
      BY <3>1, MovedBecomes
    <3>3. QED
      BY <2>1, <3>1, <3>2, Zenon DEF V26!stBar, V26!wantBar, V26!movedBar
  <2>2. CASE q # r
    <3>1. /\ st26'[q] = st26[q] /\ first26'[q] = first26[q] /\ last26'[q] = last26[q]
          /\ sector'[q] = sector[q] /\ current_nr_sectors'[q] = current_nr_sectors[q]
          /\ st26[q] \in {"free", "queued", "done"}
      BY <1>0, <1>1, <2>2 DEF V26!TypeOK
    <3>2. V26!Moved(q)' = V26!Moved(q)
      BY <1>1, <3>1, MovedIs, MovedBecomes, Zenon
    <3>3. QED
      BY <2>2, <3>1, <3>2, Zenon DEF V26!stBar, V26!wantBar, V26!movedBar
  <2>3. QED
    BY <2>1, <2>2
<1>3. /\ V26!stBar' = [V26!stBar EXCEPT ![r] = "free"]
      /\ V26!wantBar' = [V26!wantBar EXCEPT ![r] = {}]
      /\ V26!movedBar' = [V26!movedBar EXCEPT ![r] = {}]
  BY <1>2, Zenon DEF V26!stBar, V26!wantBar, V26!movedBar
<1>4. V26!stBar[r] = "done" /\ V26!Blank \in V26!Promise!Buffer
  BY <1>1, ZeroBuffer, Zenon DEF V26!stBar, V26!Buffer, V26!Promise!Buffer
<1>5. QED
  BY <1>1, <1>3, <1>4, Zenon DEF V26!Promise!Collect

\* Everything else the driver does is its own affair.
LEMMA RestStutters26 ==
  ASSUME V26!QueueInv, V26!Call \/ V26!Return \/ V26!NextRequest \/ V26!EndChunk
  PROVE  UNCHANGED V26!Promise!vars
<1>1. UNCHANGED <<block_buf, st26, op26, first26, last26, buf26>>
  BY Zenon DEF V26!Call, V26!Return, V26!NextRequest, V26!EndChunk, V26!request
<1>2. \A q \in Req: V26!Moved(q)' = V26!Moved(q)
  BY Look26, EndChunk26
<1>3. /\ V26!stBar' = V26!stBar /\ V26!wantBar' = V26!wantBar
      /\ V26!movedBar' = V26!movedBar
  BY <1>1, <1>2, Zenon DEF V26!stBar, V26!wantBar, V26!movedBar
<1>4. QED
  BY <1>1, <1>3, Zenon DEF V26!Promise!vars

LEMMA StepMaps26 ==
  ASSUME V26!QueueInv, V26!QueueInv', [V26!Next]_vars26
  PROVE  [V26!Promise!Next]_(V26!Promise!vars)
<1>1. CASE V26!Next
  <2>1. CASE \E r \in Req: V26!Submit(r) \/ V26!Collect(r)
    <3>1. PICK r \in Req: V26!Submit(r) \/ V26!Collect(r)
      BY <2>1
    <3>2. V26!Promise!Submit(r) \/ V26!Promise!Collect(r)
      BY <3>1, SubmitMaps26, CollectMaps26
    <3>3. QED
      BY <3>2, Zenon DEF V26!Promise!Next
  <2>2. CASE V26!Copy
    BY <2>2, CopyMaps26, Zenon DEF V26!Promise!Next
  <2>3. CASE V26!EndRequest
    BY <2>3, EndRequestMaps26, Zenon DEF V26!Promise!Next
  <2>4. CASE V26!Call \/ V26!Return \/ V26!NextRequest \/ V26!EndChunk
    BY <2>4, RestStutters26, Zenon
  <2>5. QED
    BY <1>1, <2>1, <2>2, <2>3, <2>4, Zenon DEF V26!Next, V26!Serve
<1>2. CASE UNCHANGED vars26
  <2>1. /\ UNCHANGED <<block_buf, head, fetched, st26, op26>>
        /\ UNCHANGED <<first26, last26, sector, current_nr_sectors, buf26>>
    BY <1>2, Zenon DEF vars26
  <2>2. /\ V26!stBar' = V26!stBar /\ V26!wantBar' = V26!wantBar
        /\ V26!movedBar' = V26!movedBar
    BY <2>1, Zenon DEF V26!stBar, V26!wantBar, V26!movedBar, V26!Moved
  <2>3. QED
    BY <2>1, <2>2, Zenon DEF V26!Promise!vars
<1>3. QED
  BY <1>1, <1>2

\* With kernels 2.6 each request moves each of its sectors once, chunk by chunk,
\* and no other, and is completed after that.
THEOREM DiskRefined26 == EitherSpec => RefinesDisk26
<1>1. EitherInit => V26!Promise!Init
  BY InitMaps26 DEF EitherInit
<1>2. V26!QueueInv /\ V26!QueueInv' /\ [EitherNext]_<<kernel, vars, vars26>>
        => [V26!Promise!Next]_(V26!Promise!vars)
  <2> SUFFICES ASSUME V26!QueueInv, V26!QueueInv', [EitherNext]_<<kernel, vars, vars26>>
               PROVE  [V26!Promise!Next]_(V26!Promise!vars)
    OBVIOUS
  <2>1. [V26!Next]_vars26
    BY Zenon DEF EitherNext
  <2>2. QED
    BY <2>1, StepMaps26
<1>3. QED
  BY <1>1, <1>2, QueueCorrect, PTL
     DEF EitherSpec, RefinesDisk26, V26!RefinesDisk, V26!Promise!Spec

=============================================================================
