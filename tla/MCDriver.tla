------------------------------- MODULE MCDriver -------------------------------
(* Instances of the driver for TLC. *)
EXTENDS DriverProperties, DriverClaims

Control == {0, 1}
ControlAndBulk == {0, 1, 2, 3}
TwoOutOneIn == {0, 1, 2, 3, 4}
NoEndpoint == {}
BulkPair == {2, 3}

FullSpeed == [a \in Endpoints |-> 8]
ShortFullLong == {0, 8, 9}
Full == {8}

ShortAndFull == {0, 8}
=============================================================================
