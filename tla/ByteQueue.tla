----------------------------- MODULE ByteQueue -----------------------------
(***************************************************************************)
(* What /dev/poll_dev promises: one bounded stream of bytes, for as long as *)
(* anybody has it open.  Bytes are numbered in the order writers stored    *)
(* them; readers get each of them once, in that order.  The open that      *)
(* finds nobody else, and no other, discards what is left.                 *)
(***************************************************************************)
EXTENDS Integers

CONSTANTS Capacity, NoByte, User

VARIABLES
  sent,     \* bytes stored so far
  next,     \* number of the oldest byte not yet delivered
  last,     \* the byte delivered last
  holders   \* who has it open

vars == <<sent, next, last, holders>>

Init == sent = 0 /\ next = 0 /\ last = NoByte /\ holders = {}

Open(u) ==
  /\ u \notin holders
  /\ holders' = holders \cup {u}
  /\ next' = IF holders = {} THEN sent ELSE next
  /\ UNCHANGED <<sent, last>>

Close(u) ==
  /\ u \in holders
  /\ holders' = holders \ {u}
  /\ UNCHANGED <<sent, next, last>>

Put ==
  /\ holders # {}
  /\ sent - next < Capacity
  /\ sent' = sent + 1
  /\ UNCHANGED <<next, last, holders>>

Get ==
  /\ holders # {}
  /\ next < sent
  /\ last' = next
  /\ next' = next + 1
  /\ UNCHANGED <<sent, holders>>

Next == Put \/ Get \/ \E u \in User: Open(u) \/ Close(u)

Spec == Init /\ [][Next]_vars

=============================================================================
