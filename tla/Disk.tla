-------------------------------- MODULE Disk --------------------------------
(***************************************************************************)
(* What a block driver promises the block layer: every request it is given *)
(* is completed once, and by then each of its sectors, and no other, has   *)
(* been moved once between the disk and the request's own buffer.  In what *)
(* order and in how many pieces, beside which other requests, is left to   *)
(* the driver.                                                             *)
(***************************************************************************)
CONSTANTS Sector, Value, Req

VARIABLES
  disk,    \* what each sector holds
  st,      \* of each request: "free", "pending" or "done"
  op,      \* "read" or "write"
  want,    \* its sectors
  moved,   \* those already moved
  buf      \* its buffer, addressed by the sectors it stands for

vars == <<disk, st, op, want, moved, buf>>

Buffer == [Sector -> Value]

Init ==
  /\ disk \in Buffer
  /\ st = [r \in Req |-> "free"] /\ op = [r \in Req |-> "read"]
  /\ want = [r \in Req |-> {}] /\ moved = [r \in Req |-> {}]
  /\ buf \in [Req -> Buffer]

Submit(r) ==
  /\ st[r] = "free"
  /\ \E o \in {"read", "write"}, S \in (SUBSET Sector) \ {{}}, b \in Buffer:
       /\ op' = [op EXCEPT ![r] = o]
       /\ want' = [want EXCEPT ![r] = S]
       /\ buf' = [buf EXCEPT ![r] = b]
  /\ st' = [st EXCEPT ![r] = "pending"]
  /\ UNCHANGED <<disk, moved>>

\* The function that is f outside S, and g in it.
Over(f, g, S) == [s \in Sector |-> IF s \in S THEN g[s] ELSE f[s]]

Transfer(r) ==
  /\ st[r] = "pending"
  /\ \E S \in (SUBSET (want[r] \ moved[r])) \ {{}}:
       /\ moved' = [moved EXCEPT ![r] = @ \cup S]
       /\ \/ /\ op[r] = "write"
             /\ disk' = Over(disk, buf[r], S)
             /\ UNCHANGED buf
          \/ /\ op[r] = "read"
             /\ buf' = [buf EXCEPT ![r] = Over(@, disk, S)]
             /\ UNCHANGED disk
  /\ UNCHANGED <<st, op, want>>

Complete(r) ==
  /\ st[r] = "pending" /\ moved[r] = want[r]
  /\ st' = [st EXCEPT ![r] = "done"]
  /\ UNCHANGED <<disk, op, want, moved, buf>>

Collect(r) ==
  /\ st[r] = "done"
  /\ st' = [st EXCEPT ![r] = "free"]
  /\ op' = [op EXCEPT ![r] = "read"]
  /\ want' = [want EXCEPT ![r] = {}] /\ moved' = [moved EXCEPT ![r] = {}]
  /\ \E b \in Buffer: buf' = [buf EXCEPT ![r] = b]
  /\ UNCHANGED disk

Next == \E r \in Req: Submit(r) \/ Transfer(r) \/ Complete(r) \/ Collect(r)

Spec == Init /\ [][Next]_vars

=============================================================================
