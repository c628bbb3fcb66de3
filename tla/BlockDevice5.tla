---------------------------- MODULE BlockDevice5 ----------------------------
(***************************************************************************)
(* The virtual block device for kernels from 5.3 (virtual_block_dev/v5):   *)
(* queue_rq and do_request, called by the block layer for one request      *)
(* after another, on several CPUs at once and with no lock of the          *)
(* driver's. Positions and lengths, in bytes in the code, are whole        *)
(* sectors here.                                                           *)
(***************************************************************************)
EXTENDS Integers

CONSTANTS
  capacity,    \* sectors of the device
  Value,       \* what a sector can hold
  Req          \* requests the block layer has

ASSUME CapacityAssumption == capacity \in Nat \ {0}
ASSUME ValueAssumption == Value # {}

VARIABLES
  data,        \* the memory that is the disk
  st,          \* "free", "queued", "serving", "done", or "bug": BUG() was reached
  op,          \* rq_data_dir
  first, len,  \* blk_rq_pos and blk_rq_sectors
  buf,         \* the pages of the request, addressed by sector
  it,          \* where the current segment begins
  bv_len,      \* its length; 0 before rq_for_each_segment has the next
  b_len,       \* how much of it is copied
  pos,         \* where on the device
  copied,      \* how far memcpy has got
  nr_bytes     \* bytes reported

request == <<op, first, len>>
local   == <<it, bv_len, b_len, pos, copied, nr_bytes>>
vars    == <<data, st, request, buf, local>>

Sector == 0 .. capacity - 1
Buffer == [Sector -> Value]
AnyValue == CHOOSE v \in Value: TRUE
Blank == [s \in Sector |-> AnyValue]

Init ==
  /\ data = Blank
  /\ st = [r \in Req |-> "free"]
  /\ op = [r \in Req |-> "read"]
  /\ first = [r \in Req |-> 0] /\ len = [r \in Req |-> 0]
  /\ buf = [r \in Req |-> Blank]
  /\ it = [r \in Req |-> 0] /\ bv_len = [r \in Req |-> 0]
  /\ b_len = [r \in Req |-> 0] /\ pos = [r \in Req |-> 0]
  /\ copied = [r \in Req |-> 0] /\ nr_bytes = [r \in Req |-> 0]

End(r) == first[r] + len[r]

\* The block layer gives the device no bio that reaches past its capacity.  A
\* request is made as a read, whose buffer holds nothing of interest.
Submit(r) ==
  /\ st[r] = "free"
  /\ \E f \in Sector, n \in 1 .. capacity:
       /\ f + n <= capacity
       /\ first' = [first EXCEPT ![r] = f] /\ len' = [len EXCEPT ![r] = n]
       /\ \/ op' = op /\ buf' = buf
          \/ /\ op' = [op EXCEPT ![r] = "write"]
             /\ \E b \in [f .. f + n - 1 -> Value]:
                  buf' = [buf EXCEPT ![r] = [s \in Sector |->
                            IF s \in DOMAIN b THEN b[s] ELSE AnyValue]]
  /\ st' = [st EXCEPT ![r] = "queued"]
  /\ UNCHANGED <<data, local>>

\* queue_rq: nr_bytes is zero, blk_mq_start_request, and do_request computes pos.
Start(r) ==
  /\ st[r] = "queued"
  /\ st' = [st EXCEPT ![r] = "serving"]
  /\ it' = [it EXCEPT ![r] = first[r]] /\ pos' = [pos EXCEPT ![r] = first[r]]
  /\ nr_bytes' = [nr_bytes EXCEPT ![r] = 0]
  /\ UNCHANGED <<data, request, buf, bv_len, b_len, copied>>

Clamped(p, n) == IF p + n > capacity THEN capacity - p ELSE n

\* rq_for_each_segment: the next piece of the request, of whatever length.
Segment(r) ==
  /\ st[r] = "serving" /\ bv_len[r] = 0
  /\ \E n \in 1 .. End(r) - it[r]:
       /\ bv_len' = [bv_len EXCEPT ![r] = n]
       /\ b_len' = [b_len EXCEPT ![r] = Clamped(pos[r], n)]
  /\ copied' = [copied EXCEPT ![r] = 0]
  /\ UNCHANGED <<data, st, request, buf, it, pos, nr_bytes>>

\* memcpy, a sector at a time.
Copy(r) ==
  /\ st[r] = "serving" /\ copied[r] < b_len[r]
  /\ LET s == it[r] + copied[r]
         d == pos[r] + copied[r] IN
     \/ /\ op[r] = "write"
        /\ data' = [data EXCEPT ![d] = buf[r][s]]
        /\ UNCHANGED buf
     \/ /\ op[r] = "read"
        /\ buf' = [buf EXCEPT ![r][s] = data[d]]
        /\ UNCHANGED data
  /\ copied' = [copied EXCEPT ![r] = @ + 1]
  /\ UNCHANGED <<st, request, it, bv_len, b_len, pos, nr_bytes>>

\* Mutant: pos stays where the request begins.
SegmentDoneInPlace(r) ==
  /\ st[r] = "serving" /\ bv_len[r] > 0 /\ copied[r] = b_len[r]
  /\ nr_bytes' = [nr_bytes EXCEPT ![r] = @ + b_len[r]]
  /\ it' = [it EXCEPT ![r] = @ + bv_len[r]]
  /\ bv_len' = [bv_len EXCEPT ![r] = 0] /\ b_len' = [b_len EXCEPT ![r] = 0]
  /\ copied' = [copied EXCEPT ![r] = 0]
  /\ UNCHANGED <<data, st, request, buf, pos>>

\* pos += b_len, *nr_bytes += b_len
SegmentDone(r) ==
  /\ st[r] = "serving" /\ bv_len[r] > 0 /\ copied[r] = b_len[r]
  /\ pos' = [pos EXCEPT ![r] = @ + b_len[r]]
  /\ nr_bytes' = [nr_bytes EXCEPT ![r] = @ + b_len[r]]
  /\ it' = [it EXCEPT ![r] = @ + bv_len[r]]
  /\ bv_len' = [bv_len EXCEPT ![r] = 0] /\ b_len' = [b_len EXCEPT ![r] = 0]
  /\ copied' = [copied EXCEPT ![r] = 0]
  /\ UNCHANGED <<data, st, request, buf>>

\* blk_update_request is true when bytes of the request are left: BUG().
Finish(r) ==
  /\ st[r] = "serving" /\ bv_len[r] = 0 /\ it[r] = End(r)
  /\ st' = [st EXCEPT ![r] = IF nr_bytes[r] < len[r] THEN "bug" ELSE "done"]
  /\ UNCHANGED <<data, request, buf, local>>

\* The block layer has looked at the request that was ended, and frees it.
Collect(r) ==
  /\ st[r] = "done"
  /\ st' = [st EXCEPT ![r] = "free"]
  /\ op' = [op EXCEPT ![r] = "read"]
  /\ first' = [first EXCEPT ![r] = 0] /\ len' = [len EXCEPT ![r] = 0]
  /\ buf' = [buf EXCEPT ![r] = Blank]
  /\ it' = [it EXCEPT ![r] = 0] /\ pos' = [pos EXCEPT ![r] = 0]
  /\ nr_bytes' = [nr_bytes EXCEPT ![r] = 0]
  /\ UNCHANGED <<data, bv_len, b_len, copied>>

Serve(r) == Start(r) \/ Segment(r) \/ Copy(r) \/ SegmentDone(r) \/ Finish(r)

Next == \E r \in Req: Submit(r) \/ Serve(r) \/ Collect(r)

Spec == Init /\ [][Next]_vars

-----------------------------------------------------------------------------
(* Properties                                                              *)

\* Every variable has its type; the positions stay on the device.
TypeOK ==
  /\ data \in Buffer /\ buf \in [Req -> Buffer]
  /\ st \in [Req -> {"free", "queued", "serving", "done", "bug"}]
  /\ op \in [Req -> {"read", "write"}]
  /\ first \in [Req -> Sector] /\ len \in [Req -> 0 .. capacity]
  /\ it \in [Req -> 0 .. capacity] /\ pos \in [Req -> 0 .. capacity]
  /\ bv_len \in [Req -> 0 .. capacity] /\ b_len \in [Req -> 0 .. capacity]
  /\ copied \in [Req -> 0 .. capacity] /\ nr_bytes \in [Req -> 0 .. capacity]

\* "Shouldn't fail" (main.c:125): what do_request reports is what was asked
\* for, however the request is cut into segments: the clamp never shortens one.
NeverBug == \A r \in Req: st[r] # "bug"

\* How a request looks to the block layer: its state, the sectors it asks for
\* and those already moved.
stBar    == [r \in Req |-> IF st[r] \in {"queued", "serving"} THEN "pending" ELSE st[r]]
wantBar  == [r \in Req |-> IF st[r] = "free" THEN {} ELSE first[r] .. End(r) - 1]
movedBar == [r \in Req |-> IF st[r] \in {"serving", "done"}
                             THEN first[r] .. pos[r] + copied[r] - 1 ELSE {}]

Promise == INSTANCE Disk WITH
  disk <- data, st <- stBar, want <- wantBar, moved <- movedBar

\* Each request moves each of its sectors once, and no other, and is completed
\* after that, beside any other requests (main.c:81-104, 119-130).
RefinesDisk == Promise!Spec

\* Every request the block layer makes is ended.
Served == \A r \in Req: st[r] = "queued" ~> st[r] = "done"

-----------------------------------------------------------------------------
(* The inductive invariant behind these properties.                        *)

\* Where the code is with a request: the segments are pieces of it, one behind
\* the other, none reaches past the device, and the three positions agree.
Place(r) ==
  /\ End(r) <= capacity
  /\ st[r] = "free" => op[r] = "read"
  /\ st[r] # "bug"
  /\ st[r] # "serving" => bv_len[r] = 0 /\ b_len[r] = 0 /\ copied[r] = 0
  /\ st[r] = "done" => pos[r] = End(r)
  /\ st[r] = "serving" =>
       /\ first[r] <= it[r] /\ it[r] + bv_len[r] <= End(r)
       /\ pos[r] = it[r] /\ nr_bytes[r] = it[r] - first[r]
       /\ b_len[r] = bv_len[r] /\ copied[r] <= b_len[r]

ServeInv == TypeOK /\ \A r \in Req: Place(r)

-----------------------------------------------------------------------------
(* What follows from it.                                                   *)

Waiting(r) == st[r] \in {"queued", "serving"}

\* A bound on the steps that queue_rq and do_request still make for a request:
\* at most three for each sector, one of them the memcpy.
StepsLeft(r) ==
  IF st[r] = "queued" THEN 3 * len[r] + 2
  ELSE IF st[r] = "serving"
       THEN 3 * (End(r) - it[r]) + 1 - copied[r] - (IF bv_len[r] > 0 THEN 1 ELSE 0)
       ELSE 0

\* The guards of the steps of Serve.
CanServe(r) ==
  \/ st[r] = "queued"
  \/ st[r] = "serving" /\ bv_len[r] = 0 /\ it[r] < End(r)
  \/ st[r] = "serving" /\ copied[r] < b_len[r]
  \/ st[r] = "serving" /\ bv_len[r] > 0 /\ copied[r] = b_len[r]
  \/ st[r] = "serving" /\ bv_len[r] = 0 /\ it[r] = End(r)

\* Serving comes to an end: there is always a step to make for a request that
\* waits, each step leaves fewer, no other request adds any, and none are left
\* only of one that is ended (main.c:81-130).  Served without the fairness.
NeverStuck == \A r \in Req: /\ Waiting(r) => CanServe(r)
                            /\ StepsLeft(r) \in Nat /\ (Waiting(r) <=> StepsLeft(r) > 0)

Shortens ==
  [][\A r \in Req: Waiting(r) =>
       \/ Serve(r) /\ StepsLeft(r)' < StepsLeft(r)
       \/ ~Serve(r) /\ StepsLeft(r)' = StepsLeft(r)]_vars

\* No request that waits shares a sector with another of which one writes.
Apart ==
  \A q, r \in Req: q # r /\ Waiting(q) /\ Waiting(r) /\ op[q] = "write" =>
    End(q) <= first[r] \/ End(r) <= first[q]

\* What a request that is served has moved is the same on both sides: without a
\* lock, this is what the driver needs of the block layer to serve requests as a
\* whole (main.c:81-104).
Whole ==
  \A r \in Req: st[r] = "serving" =>
    \A s \in first[r] .. pos[r] + copied[r] - 1: buf[r][s] = data[s]

WholeIfApart == Spec /\ []Apart => []Whole

=============================================================================
