------------------------------ MODULE MCTransfer ------------------------------
(* Instances of the transfers for TLC. *)
EXTENDS Transfer

\* On and across a cache line and a page, below and above the 1024 bytes of a
\* packet.
Placed == [ptr : {8192, 8200, 12272}, len : {8, 64, 1025}]
AboutALine == {0, 1, 31, 32, 33, 2000}
=============================================================================
