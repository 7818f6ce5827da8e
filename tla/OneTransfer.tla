----------------------------- MODULE OneTransfer -----------------------------
(***************************************************************************)
(* What Td and Endpoint promise of a transfer, and what Driver takes one   *)
(* for: a descriptor is lent to the controller with a length on it and     *)
(* comes back with what is left of the length and whether it failed, or is *)
(* taken back untouched.                                                   *)
(* Words, fields, the overlay and the cache are out of sight.              *)
(***************************************************************************)
EXTENDS Integers

CONSTANT Lengths  \* the room of the callers that read

VARIABLES
    descriptor,  \* its status, what is left, and what was asked for
    lent,        \* the controller has it
    returned,    \* what the last read returned
    limit        \* the packet length; set from outside

transfer == <<descriptor, lent, returned>>

Init ==
    /\ descriptor = [status |-> "idle", total |-> 0, last |-> 0]
    /\ lent = FALSE
    /\ returned = 0

\* Whatever came of the transfer before, the next is as asked for.
Lend(n) ==
    /\ ~lent /\ n <= limit
    /\ descriptor' = [status |-> "active", total |-> n, last |-> n]
    /\ lent' = TRUE
    /\ UNCHANGED returned

GiveBack(outcome, left) ==
    /\ lent /\ left <= descriptor.total
    /\ descriptor' = [status |-> outcome, total |-> left, last |-> descriptor.last]
    /\ lent' = FALSE
    /\ UNCHANGED returned

\* A bus reset takes it back as it is.
TakeBack ==
    /\ lent /\ lent' = FALSE
    /\ UNCHANGED <<descriptor, returned>>

Least(m, n) == IF m <= n THEN m ELSE n

\* What was moved, cut to the room there is; none of it after a failure.
Read(room) ==
    /\ ~lent /\ descriptor.status # "error"
    /\ returned' = Least(limit, Least(room, descriptor.last - descriptor.total))
    /\ UNCHANGED <<descriptor, lent>>

Next ==
    \/ \E n \in 0 .. limit : Lend(n)
    \/ \E outcome \in {"idle", "error"}, left \in 0 .. descriptor.total :
         GiveBack(outcome, left)
    \/ TakeBack
    \/ \E room \in Lengths : Read(room)

Spec == Init /\ [][Next]_transfer
=============================================================================
