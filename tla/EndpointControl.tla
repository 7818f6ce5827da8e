---------------------------- MODULE EndpointControl ----------------------------
(***************************************************************************)
(* The ENDPTCTRL registers under configure(), reset() and set_stalled() of *)
(* bus.rs.  Each holds the settings of two endpoints, OUT and IN; the calls*)
(* change one half of it at a time, with modify_reg: a load and a store,   *)
(* between which a SETUP may lift the stall of endpoint 0.  Endpoint and   *)
(* Driver see the settings as two sets, enabled and stalled, and have what *)
(* else these calls do.                                                    *)
(***************************************************************************)
EXTENDS Integers

CONSTANTS
    COUNT,       \* of the EndpointState
    Allocated,   \* the endpoints allocated, named by index() of state.rs
    Addresses,   \* those the bus is asked to stall
    Attributes   \* each allocated endpoint's EndpointType as bmAttributes

ASSUME ControlAssumption ==
    /\ COUNT \in 0 .. 16
    /\ Allocated \subseteq 0 .. COUNT - 1
    /\ Addresses \subseteq 0 .. 31
    /\ Attributes \in [Allocated -> Nat]

VARIABLES
    ENDPTCTRL,  \* the registers, a half for each endpoint there can be
    setupstat,  \* ENDPTSETUPSTAT of endpoint 0
    pc,         \* where the call in progress stands: "idle", "load", "store"
    op,         \* what it does to each of its endpoints
    todo,       \* the endpoints it has still to do it to
    word,       \* the register loaded
    session,    \* history: the last of configure() and reset(), if any
    meant       \* history: the endpoints to be stalled, by the last call for each

vars == <<ENDPTCTRL, setupstat, pc, op, todo, word, session, meant>>

Places == 0 .. 15
Zero == {0, 1}
NonZero == Allocated \ Zero

Bulk == 2
Bit(b) == IF b THEN 1 ELSE 0

Half == [E : 0 .. 1, S : 0 .. 1, T : 0 .. 3]
Cleared == [E |-> 0, S |-> 0, T |-> 0]

\* ENDPTCTRL0 and ENDPTCTRL[endpoint - 1] of the register block are eight
\* registers in a row; the halves of one are those of its two endpoints.
\* A defect to try in the place of register: the array is taken to start at 0.
register_from_0(a) == {b \in Places : b \div 2 = IF a \in Zero THEN 0 ELSE a \div 2 + 1}

register(a) == {b \in Places : b \div 2 = a \div 2}

\* A defect to try in the place of into_raw_endpoint_type: all of the attributes.
into_raw_endpoint_type_unmasked(attributes) == attributes

into_raw_endpoint_type(attributes) == attributes % 4

\* EP0 is always enabled.
Init ==
    /\ ENDPTCTRL = [a \in Places |-> [Cleared EXCEPT !.E = Bit(a \in Zero)]]
    /\ setupstat = FALSE
    /\ pc = "idle" /\ op = "none" /\ todo = {} /\ word = ENDPTCTRL
    /\ session = "none" /\ meant = {}
-----------------------------------------------------------------------------
\* A call begins that does o to the endpoints of eps.
Begin(o, eps) ==
    /\ pc = "idle"
    /\ pc' = IF eps = {} THEN "idle" ELSE "load"
    /\ op' = o
    /\ todo' = eps
    /\ UNCHANGED <<ENDPTCTRL, setupstat, word>>

\* enable_endpoints of configure().
configure == Begin("enable", NonZero) /\ session' = "configured" /\ UNCHANGED meant

\* initialize_endpoints of reset().
reset == Begin("initialize", NonZero) /\ session' = "reset" /\ UNCHANGED meant

\* endpoint_mut() finds what is allocated within the lists.
is_allocated(a) == a < COUNT /\ a \in Allocated

\* Does nothing to an endpoint that is not allocated.  As long as a SETUP is
\* flagged the controller keeps endpoint 0 from being stalled.
set_stalled(a, stall) ==
    /\ is_allocated(a)
    /\ Begin(IF stall THEN "stall" ELSE "unstall", {a})
    /\ meant' = IF stall /\ ~(a \in Zero /\ setupstat) THEN meant \cup {a} ELSE meant \ {a}
    /\ UNCHANGED session

\* ctrl0_read of a SETUP clears its flag.
read_setup ==
    /\ pc = "idle" /\ setupstat
    /\ setupstat' = FALSE
    /\ UNCHANGED <<ENDPTCTRL, pc, op, todo, word, session, meant>>
-----------------------------------------------------------------------------
\* The endpoint the iterator is at.
Current(a) == a \in todo /\ \A b \in todo : a <= b

\* modify_reg on its register: first the load ...
modify_reg_load ==
    /\ pc = "load"
    /\ \E a \in todo : Current(a) /\ word' = [b \in register(a) |-> ENDPTCTRL[b]]
    /\ pc' = "store"
    /\ UNCHANGED <<ENDPTCTRL, setupstat, op, todo, session, meant>>

\* What enable, initialize and set_stalled make of their own half.
enable(a, half) == [E |-> 1, S |-> half.S, T |-> into_raw_endpoint_type(Attributes[a])]

initialize(half) == [E |-> 0, S |-> half.S, T |-> Bulk]

modified(a, half) ==
    CASE op = "enable" -> enable(a, half)
      [] op = "initialize" -> initialize(half)
      [] OTHER -> [half EXCEPT !.S = Bit(op = "stall")]

\* A defect to try in the place of stored: as write_reg would do it, the other
\* half is zeroed.
stored_zeroing(a, b) == IF b = a THEN modified(a, word[b]) ELSE Cleared

stored(a, b) == IF b = a THEN modified(a, word[b]) ELSE word[b]

\* ... then the store.
modify_reg_store(a) ==
    /\ pc = "store" /\ Current(a)
    /\ ENDPTCTRL' =
         [b \in Places |->
            IF b \notin register(a) THEN ENDPTCTRL[b]
            ELSE IF b \in Zero /\ setupstat THEN [stored(a, b) EXCEPT !.S = 0]
            ELSE stored(a, b)]
    /\ todo' = todo \ {a}
    /\ pc' = IF todo = {a} THEN "idle" ELSE "load"
    /\ UNCHANGED <<setupstat, op, word, session, meant>>

\* A SETUP comes: the controller lifts the stall of endpoint 0.
HostSetup ==
    /\ setupstat' = TRUE
    /\ ENDPTCTRL' = [a \in Places |-> IF a \in Zero
                                        THEN [ENDPTCTRL[a] EXCEPT !.S = 0]
                                        ELSE ENDPTCTRL[a]]
    /\ meant' = meant \ Zero
    /\ UNCHANGED <<pc, op, todo, word, session>>

Next ==
    \/ configure \/ reset \/ read_setup
    \/ \E a \in Addresses, stall \in BOOLEAN : set_stalled(a, stall)
    \/ modify_reg_load
    \/ \E a \in todo : modify_reg_store(a)
    \/ HostSetup

Spec == Init /\ [][Next]_vars
-----------------------------------------------------------------------------
(***************************************************************************)
(* Each half of a register holds an enable, a stall and a type of two      *)
(* bits, and a load is of the register of the endpoint it is to change.    *)
(***************************************************************************)
TypeOK ==
    /\ ENDPTCTRL \in [Places -> Half] /\ setupstat \in BOOLEAN
    /\ pc \in {"idle", "load", "store"}
    /\ op \in {"none", "enable", "initialize", "stall", "unstall"}
    /\ todo \subseteq Allocated /\ (todo = {} <=> pc = "idle")
    /\ pc = "store" => \E a \in todo : Current(a) /\ word \in [register(a) -> Half]
    /\ session \in {"none", "configured", "reset"} /\ meant \subseteq Allocated

(***************************************************************************)
(* Between calls each half says what the calls so far have asked of its    *)
(* own endpoint, whatever they did to the other half, and SETUPs to        *)
(* either, between a load and a store: stalled by the last set_stalled and *)
(* not lifted since; the non-zero endpoints enabled with their own type by *)
(* configure() and disabled as bulk endpoints by reset(), which leaves     *)
(* their stalls; endpoint 0 enabled and a control endpoint throughout; and *)
(* what is not allocated as the controller's reset left it.                *)
(***************************************************************************)
Type(a) ==
    IF a \notin NonZero \/ session = "none" THEN 0
    ELSE IF session = "reset" THEN Bulk ELSE into_raw_endpoint_type(Attributes[a])

Enabled(a) == Bit(a \in Zero \/ (a \in NonZero /\ session = "configured"))

Stalled(a) == Bit(a \in meant)

Setting(a) == [E |-> Enabled(a), S |-> Stalled(a), T |-> Type(a)]

Settled == pc = "idle" => \A a \in Places : ENDPTCTRL[a] = Setting(a)

(***************************************************************************)
(* Also in the middle of a call over many endpoints, and of a modify_reg   *)
(* that a SETUP comes into: every store switches what is asked of its own  *)
(* endpoint and nothing else, as if each setting stood alone.              *)
(***************************************************************************)
Switches == INSTANCE OwnSettings WITH
    Endpoints <- Places, Used <- Allocated, Control <- Zero,
    Types <- [a \in Allocated |-> Attributes[a] % 4],
    enabled <- {a \in Places : ENDPTCTRL[a].E = 1},
    stalled <- {a \in Places : ENDPTCTRL[a].S = 1},
    type <- [a \in Places |-> ENDPTCTRL[a].T],
    flagged <- setupstat

ImplementsSettings == Switches!Spec
=============================================================================
