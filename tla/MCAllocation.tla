----------------------------- MODULE MCAllocation -----------------------------
(* Instances of the allocators for TLC. *)
EXTENDS Allocation

CONSTANTS usb1, usb2, s1, s2, m1, m2

TwoBuses == {usb1, usb2}
TwoStates == {s1, s2}
TwoMemories == {m1, m2}

ThreeAndFive == [s \in States |-> IF s = s1 THEN 3 ELSE 5]
Adjacent == [m \in Memories |-> IF m = m1 THEN 100 ELSE 1700]
ThreePackets == [m \in Memories |-> 1600]

ControlAndIn == {0, 1, 3}
AboutTheClamp == {512, 1025}
=============================================================================
