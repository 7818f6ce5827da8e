----------------------------- MODULE OwnSettings -----------------------------
(***************************************************************************)
(* What enable, initialize and set_stalled promise, and what Driver takes  *)
(* them for: each endpoint has an enable, a type and a stall of its own,   *)
(* switched in an instant.  Registers, and who shares one, are out of      *)
(* sight.                                                                  *)
(***************************************************************************)
EXTENDS Integers

CONSTANTS
    Endpoints,  \* all there can be,
    Used,       \*   those that are in use,
    Control,    \*   and those of number 0, always enabled
    Types       \* the type each one used is to have when enabled

VARIABLES
    enabled,  \* the endpoints enabled,
    stalled,  \*   those stalled,
    type,     \*   and the type of each
    flagged   \* a SETUP has come that is not read

settings == <<enabled, stalled, type, flagged>>

NoType == 0
Bulk == 2

Init ==
    /\ enabled = Control /\ stalled = {}
    /\ type = [a \in Endpoints |-> NoType]
    /\ flagged = FALSE

Enable(a) ==
    /\ enabled' = enabled \cup {a}
    /\ type' = [type EXCEPT ![a] = Types[a]]
    /\ UNCHANGED <<stalled, flagged>>

Disable(a) ==
    /\ enabled' = enabled \ {a}
    /\ type' = [type EXCEPT ![a] = Bulk]
    /\ UNCHANGED <<stalled, flagged>>

\* The control endpoint is not stalled as long as there is a SETUP to read.
Stall(a) ==
    /\ ~(a \in Control /\ flagged)
    /\ stalled' = stalled \cup {a}
    /\ UNCHANGED <<enabled, type, flagged>>

Unstall(a) ==
    /\ stalled' = stalled \ {a}
    /\ UNCHANGED <<enabled, type, flagged>>

\* A SETUP lifts the stall, whatever is being switched.
Setup ==
    /\ flagged' = TRUE
    /\ stalled' = stalled \ Control
    /\ UNCHANGED <<enabled, type>>

Read ==
    /\ flagged
    /\ flagged' = FALSE
    /\ UNCHANGED <<enabled, stalled, type>>

Next ==
    \/ \E a \in Used \ Control : Enable(a) \/ Disable(a)
    \/ \E a \in Used : Stall(a) \/ Unstall(a)
    \/ Setup \/ Read

Spec == Init /\ [][Next]_settings
=============================================================================
