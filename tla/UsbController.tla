---------------------------- MODULE UsbController ----------------------------
(***************************************************************************)
(* The i.MX RT USB device controller and the host behind it, as the driver *)
(* in src/ uses them: the registers it reads and writes, the queue heads,  *)
(* transfer descriptors and buffers both sides share, and the steps the    *)
(* controller takes on its own between any two register accesses of the    *)
(* driver.  Nothing here is code of the repository.                        *)
(*                                                                         *)
(* An endpoint is named by its place in the endpoint arrays, the value of  *)
(* index() in state.rs: 2 * number, plus one for IN.  Even is OUT.         *)
(***************************************************************************)
EXTENDS Integers

CONSTANTS
    Endpoints,     \* the allocated endpoints
    MaxPacketLen,  \* each endpoint's packet length, as its queue head holds it
    Lengths,       \* the lengths of packets and of the callers' buffers
    StallEps,      \* the endpoints the device stalls and unstalls
    MaxSetups,     \* bounds on what the host does: SETUP packets,
    MaxPackets,    \*   data packets per endpoint (IN: what the class writes),
    MaxFaults,     \*   transfers that fail,
    MaxResets      \*   bus resets

CtrlOut == 0
CtrlIn  == 1
OutEps  == {a \in Endpoints : a % 2 = 0}
InEps   == Endpoints \ OutEps
NonZero == Endpoints \ {CtrlOut, CtrlIn}

ASSUME EndpointsAssumption ==
    /\ Endpoints \subseteq 0 .. 15
    /\ {CtrlOut, CtrlIn} \subseteq Endpoints
    /\ StallEps \subseteq Endpoints
ASSUME LengthsAssumption ==
    /\ MaxPacketLen \in [Endpoints -> 0 .. 1024]
    /\ Lengths \subseteq Nat
ASSUME BoundsAssumption ==
    /\ MaxSetups \in Nat /\ MaxPackets \in Nat
    /\ MaxFaults \in Nat /\ MaxResets \in Nat

VARIABLES
    \* registers
    usbsts,     \* USBSTS: the set of flags raised among "URI" and "UI"
    setupstat,  \* ENDPTSETUPSTAT of endpoint 0
    complete,   \* ENDPTCOMPLETE, both halves, as a set of endpoints
    stat,       \* ENDPTSTAT: the endpoints with a primed transfer
    prime,      \* ENDPTPRIME: the prime requests the controller has not taken
    flush,      \* ENDPTFLUSH # 0; the driver flushes all endpoints or none
    enabled,    \* ENDPTCTRL.RXE / TXE of the non-zero endpoints
    stalled,    \* ENDPTCTRL.RXS / TXS
    sutw,       \* USBCMD.SUTW, the setup tripwire
    \* memory shared with the driver
    setup,      \* the setup buffer of the control OUT queue head
    td,         \* each endpoint's transfer descriptor
    buffer,     \* the packet in each endpoint's buffer
    \* the host
    session,    \* "on" while the device is configured and the host knows it
    resets, faults,
    before,     \* sent, as it was when the last bus reset had been handled
    \* history
    sent,       \* the number of packets given to each endpoint for the other side
    got,        \* the last packet the other side took from each endpoint
    unreported  \* the endpoints with a completion neither reported, nor read, nor
                \*   discarded by a bus reset

arming    == <<stat, prime, flush>>
endptctrl == <<enabled, stalled>>
memory    == <<setup, td, buffer>>
host      == <<session, resets, faults, before>>
hist      == <<sent, got, unreported>>
controllerVars == <<usbsts, setupstat, complete, sutw, arming, endptctrl,
                    memory, host, hist>>

Packet == [id : Nat, len : Nat]
Receipt == [n : Nat, id : Nat, len : Nat]
TransferDescriptor ==
    [status : {"idle", "active", "error"}, total : Nat, last : Nat]

\* What a failed reception leaves in a buffer.
Garbage == [id |-> 0, len |-> 0]

ControllerTypeOK ==
    /\ usbsts \subseteq {"URI", "UI"}
    /\ complete \subseteq Endpoints /\ stat \subseteq Endpoints
    /\ prime \subseteq Endpoints /\ enabled \subseteq NonZero
    /\ stalled \subseteq Endpoints /\ unreported \subseteq Endpoints
    /\ setupstat \in BOOLEAN /\ flush \in BOOLEAN /\ sutw \in BOOLEAN
    /\ setup \in Nat
    /\ td \in [Endpoints -> TransferDescriptor]
    /\ buffer \in [Endpoints -> Packet]
    /\ session \in {"off", "on", "lost"}
    /\ resets \in Nat /\ faults \in Nat
    /\ before \in [Endpoints -> Nat]
    /\ sent \in [Endpoints -> Nat]
    /\ got \in [Endpoints -> Receipt]

\* After BusAdapter::new: Endpoint::new has cleared every descriptor, no
\* packet has moved and the host has not reset the bus yet.
ControllerInit ==
    /\ usbsts = {} /\ setupstat = FALSE /\ complete = {}
    /\ stat = {} /\ prime = {} /\ flush = FALSE
    /\ enabled = {} /\ stalled = {} /\ sutw = FALSE
    /\ setup = 0
    /\ td = [a \in Endpoints |-> [status |-> "idle", total |-> 0, last |-> 0]]
    /\ buffer = [a \in Endpoints |-> Garbage]
    /\ session = "off" /\ resets = 0 /\ faults = 0
    /\ sent = [a \in Endpoints |-> 0] /\ before = sent
    /\ got = [a \in Endpoints |-> [n |-> 0, id |-> 0, len |-> 0]]
    /\ unreported = {}
-----------------------------------------------------------------------------
\* The controller takes a prime request: a descriptor that is active is armed.
PrimeDone(a) ==
    /\ a \in prime
    /\ prime' = prime \ {a}
    /\ stat' = IF td[a].status = "active" THEN stat \cup {a} ELSE stat
    /\ UNCHANGED <<usbsts, setupstat, complete, sutw, flush, endptctrl, memory,
                   host, hist>>

\* The controller finishes a flush: nothing is armed any more, and the
\* descriptors of the transfers it dropped stay as they were.
FlushDone ==
    /\ flush
    /\ flush' = FALSE
    /\ stat' = {}
    /\ UNCHANGED <<usbsts, setupstat, complete, sutw, prime, endptctrl, memory,
                   host, hist>>

\* The host can run a transaction on an armed endpoint that is not stalled.
\* It addresses a non-zero endpoint only while it has the device configured.
Open(a) ==
    /\ a \in stat /\ a \notin stalled
    /\ a \in NonZero => a \in enabled /\ session = "on"

\* A transfer ends: the descriptor is written back, the endpoint is no longer
\* armed, and, every descriptor having IOC set, completion and UI are raised.
Retire(a, status, total) ==
    /\ td' = [td EXCEPT ![a] = [status |-> status, total |-> total, last |-> @.last]]
    /\ stat' = stat \ {a}
    /\ complete' = complete \cup {a}
    /\ usbsts' = usbsts \cup {"UI"}
    /\ unreported' = unreported \cup {a}
    /\ UNCHANGED <<setupstat, sutw, prime, flush, endptctrl, setup, session, resets,
                   before>>

\* The host sends a packet that fits the descriptor.
HostOut(a, len) ==
    /\ a \in OutEps /\ Open(a)
    /\ sent[a] < MaxPackets
    /\ len <= td[a].total
    /\ sent' = [sent EXCEPT ![a] = @ + 1]
    /\ buffer' = [buffer EXCEPT ![a] = [id |-> sent[a] + 1, len |-> len]]
    /\ Retire(a, "idle", td[a].total - len)
    /\ UNCHANGED <<faults, got>>

\* The host sends a packet that the descriptor has no room for.
HostOverrun(a, len) ==
    /\ a \in OutEps /\ Open(a)
    /\ sent[a] < MaxPackets
    /\ len <= MaxPacketLen[a] /\ len > td[a].total
    /\ sent' = [sent EXCEPT ![a] = @ + 1]
    /\ buffer' = [buffer EXCEPT ![a] = Garbage]
    /\ Retire(a, "error", 0)
    /\ UNCHANGED <<faults, got>>

\* The host takes the packet of an armed IN endpoint.
HostIn(a) ==
    /\ a \in InEps /\ Open(a)
    /\ got' = [got EXCEPT ![a] = [n |-> @.n + 1, id |-> buffer[a].id,
                                  len |-> td[a].total]]
    /\ Retire(a, "idle", 0)
    /\ UNCHANGED <<buffer, faults, sent>>

\* A transfer fails: HALTED, DATA_BUFFER_ERROR or TRANSACTION_ERROR.
Fault(a) ==
    /\ Open(a)
    /\ faults < MaxFaults
    /\ faults' = faults + 1
    /\ buffer' = IF a \in OutEps THEN [buffer EXCEPT ![a] = Garbage] ELSE buffer
    /\ Retire(a, "error", td[a].total)
    /\ UNCHANGED <<sent, got>>

\* A SETUP packet needs no armed transfer.  It overwrites the setup buffer,
\* trips the tripwire and lifts the stall of endpoint 0.
HostSetup ==
    /\ setup < MaxSetups
    /\ setup' = setup + 1
    /\ setupstat' = TRUE
    /\ sutw' = FALSE
    /\ stalled' = stalled \ {CtrlOut, CtrlIn}
    /\ usbsts' = usbsts \cup {"UI"}
    /\ UNCHANGED <<complete, arming, enabled, td, buffer, host, hist>>

\* The host resets the bus: the device has to be configured again.
HostReset ==
    /\ resets < MaxResets
    /\ resets' = resets + 1
    /\ usbsts' = usbsts \cup {"URI"}
    /\ session' = IF session = "on" THEN "lost" ELSE session
    /\ UNCHANGED <<setupstat, complete, sutw, arming, endptctrl, memory, faults,
                   before, hist>>

ControllerStep == FlushDone \/ \E a \in Endpoints : PrimeDone(a)

HostStep ==
    \/ \E a \in Endpoints, len \in Lengths : HostOut(a, len) \/ HostOverrun(a, len)
    \/ \E a \in Endpoints : HostIn(a) \/ Fault(a)
    \/ HostSetup
    \/ HostReset
=============================================================================
