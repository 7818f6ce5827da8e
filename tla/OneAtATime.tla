------------------------------ MODULE OneAtATime ------------------------------
(***************************************************************************)
(* What with_usb and with_usb_mut promise to the Driver: any number of     *)
(* calls that only look at it, or one that may change it, and a panic only *)
(* for a call that would break this.  Interrupts, critical sections and    *)
(* the RefCell are out of sight.                                           *)
(***************************************************************************)
CONSTANT Callers

VARIABLES
    looking,   \* the callers inside with_usb
    changing,  \* the callers inside with_usb_mut
    panicked

bus == <<looking, changing, panicked>>

Init == looking = {} /\ changing = {} /\ panicked = FALSE

Look(c) ==
    /\ changing = {}
    /\ looking' = looking \cup {c}
    /\ UNCHANGED <<changing, panicked>>

Change(c) ==
    /\ looking = {} /\ changing = {}
    /\ changing' = {c}
    /\ UNCHANGED <<looking, panicked>>

Leave(c) ==
    /\ looking' = looking \ {c}
    /\ changing' = changing \ {c}
    /\ UNCHANGED panicked

Panic ==
    /\ looking # {} \/ changing # {}
    /\ panicked' = TRUE
    /\ UNCHANGED <<looking, changing>>

Next ==
    /\ ~panicked
    /\ Panic \/ \E c \in Callers : Look(c) \/ Change(c) \/ Leave(c)

Spec == Init /\ [][Next]_bus
=============================================================================
