----------------------------- MODULE SetupMailbox -----------------------------
(***************************************************************************)
(* What the driver promises of SETUP packets: a mailbox with room for one. *)
(* The host puts a SETUP in over the last, read or not; reading takes the  *)
(* one that is there, whole, in an instant.  The flag, the tripwire and    *)
(* the loads of read_setup are out of sight.                               *)
(***************************************************************************)
EXTENDS Integers

VARIABLES
    latest,   \* the number of the SETUP the mailbox holds
    taken,    \* how often one has been taken, and the number of the last
    pending   \* there is a SETUP for the class to take

mailbox == <<latest, taken, pending>>

Init == latest = 0 /\ taken = [n |-> 0, id |-> 0] /\ pending = FALSE

Arrive ==
    /\ latest' = latest + 1
    /\ pending' = TRUE
    /\ UNCHANGED taken

\* What is taken may be left pending, to be taken once more and not again: a
\* SETUP that comes while the one before it is about to be read is taken in its
\* place, and flagged all the same.
Take ==
    /\ pending
    /\ taken' = [n |-> taken.n + 1, id |-> latest]
    /\ pending' \in BOOLEAN
    /\ pending' => taken.id # latest
    /\ UNCHANGED latest

Next == Arrive \/ Take

Spec == Init /\ [][Next]_mailbox
=============================================================================
