----------------------------- MODULE FrameStream -----------------------------
(***************************************************************************)
(* What a network driver promises of reception, with nothing said of rings *)
(* or registers: every frame the chip has taken in is handled once, in the *)
(* order of arrival, whole; it goes up to the protocol stack, or is        *)
(* dropped when there is no memory for it, and is counted as such.         *)
(***************************************************************************)
EXTENDS Integers, Sequences

VARIABLES
  accepted,    \* frames the chip has taken in; frame k is the k-th, from 0
  handled,     \* what the driver has made of them, in order
  packets,     \* of those, how many went up
  dropped      \* and how many were dropped

vars == <<accepted, handled, packets, dropped>>

Init == accepted = 0 /\ handled = << >> /\ packets = 0 /\ dropped = 0

Arrive == accepted' = accepted + 1 /\ UNCHANGED <<handled, packets, dropped>>

GoUp ==
  /\ Len(handled) < accepted
  /\ handled' = Append(handled, [frame |-> Len(handled), up |-> TRUE])
  /\ packets' = packets + 1
  /\ UNCHANGED <<accepted, dropped>>

Drop ==
  /\ Len(handled) < accepted
  /\ handled' = Append(handled, [frame |-> Len(handled), up |-> FALSE])
  /\ dropped' = dropped + 1
  /\ UNCHANGED <<accepted, packets>>

Next == Arrive \/ GoUp \/ Drop

Spec == Init /\ [][Next]_vars

=============================================================================
