---------------------------- MODULE MCEndpointControl ----------------------------
(***************************************************************************)
(* The control endpoint; endpoint 1, OUT and IN, of two types; OUT 2       *)
(* alone, isochronous and asynchronous, with attributes of four bits.  The *)
(* bus is also asked about IN 2, not allocated, and about IN 3 and OUT 9,  *)
(* beyond the lists.                                                       *)
(***************************************************************************)
EXTENDS EndpointControl

MCAllocated == {0, 1, 2, 3, 4}
MCAddresses == {0, 1, 2, 3, 4, 5, 7, 18}
MCAttributes == [a \in MCAllocated |-> CASE a \in {0, 1} -> 0 [] a = 2 -> 2 [] a = 3 -> 3 [] a = 4 -> 5]
=============================================================================
