------------------------------- MODULE TxRing -------------------------------
(***************************************************************************)
(* What a network driver promises of its transmit ring, with nothing said  *)
(* of descriptors, registers or interrupts: a bounded buffer whose packets *)
(* are numbered in the order the protocol stack handed them over, go to    *)
(* the wire in that order, once each, and are then reported, in that order *)
(* again, under the outcome the chip gave them.                            *)
(***************************************************************************)
EXTENDS Integers, Sequences

CONSTANT Capacity    \* packets the ring holds

VARIABLES
  accepted,    \* packets handed over so far; packet k is the k-th, from 0
  wire,        \* what the chip put on the wire: packet and outcome, in order
  reported,    \* packets whose outcome the driver has counted
  packets,     \* of those, how many were sent
  errors       \* and how many failed

vars == <<accepted, wire, reported, packets, errors>>

Outcome == {"ok", "err"}

Init ==
  /\ accepted = 0
  /\ wire = << >>
  /\ reported = 0
  /\ packets = 0
  /\ errors = 0

Accept ==
  /\ accepted - reported < Capacity
  /\ accepted' = accepted + 1
  /\ UNCHANGED <<wire, reported, packets, errors>>

Transmit ==
  /\ Len(wire) < accepted
  /\ \E o \in Outcome: wire' = Append(wire, [pkt |-> Len(wire), out |-> o])
  /\ UNCHANGED <<accepted, reported, packets, errors>>

Report ==
  /\ reported < Len(wire)
  /\ reported' = reported + 1
  /\ IF wire[reported + 1].out = "ok"
     THEN packets' = packets + 1 /\ UNCHANGED errors
     ELSE errors' = errors + 1 /\ UNCHANGED packets
  /\ UNCHANGED <<accepted, wire>>

Next == Accept \/ Transmit \/ Report

Spec == Init /\ [][Next]_vars

=============================================================================
