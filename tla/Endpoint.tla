------------------------------- MODULE Endpoint -------------------------------
(***************************************************************************)
(* The endpoint operations of endpoint.rs, td.rs and qh.rs that the driver *)
(* composes, and the state of a driver call in progress.                   *)
(*                                                                         *)
(* Every UsbBus call runs under with_usb_mut, so at most one is in         *)
(* progress.  pc is its position: a step of the model is a run of the code *)
(* that the controller cannot tell apart from an instant, and between two  *)
(* steps the controller and the host may act.                              *)
(***************************************************************************)
EXTENDS UsbController

VARIABLES
    ep_out,     \* Driver::ep_out: the OUT endpoints last seen complete
    ep_setup,   \* PollResult::Data::ep_setup, until the class reads the SETUP
    pc,         \* where the call in progress stands
    call,       \* its endpoint and the length of its caller's buffer
    etce,       \* poll: the local ep_in_complete
    lo, hi,     \* read_setup: the two words loaded from the setup buffer
    todo,       \* prime_endpoints: the endpoints the iterator has not reached
    setupRead   \* history: the SETUP last handed to the class, as two words, and
                \*   how many there have been

locals == <<etce, lo, hi, todo>>
driverVars == <<ep_out, ep_setup, pc, call, locals, setupRead>>
vars == <<controllerVars, driverVars>>

SetupLen == 8

ReadSetupSteps == {"read_setup", "read_setup_arm", "read_setup_lo",
                   "read_setup_hi", "read_setup_check"}
SpinSteps == {"spin", "spin_status", "spin_prime"}
Steps == {"idle", "poll_uri", "poll_ui", "poll_erce", "poll_etce", "poll_clear",
          "poll_setup", "reset", "reset_flush", "reset_init", "ctrl0_read",
          "ctrl0_prime", "ctrl0_write", "ctrl0_status", "ep_read", "ep_write",
          "ep_stall", "prime_endpoints"} \cup ReadSetupSteps \cup SpinSteps

NoCall == [ep |-> CtrlOut, len |-> 0]

DriverTypeOK ==
    /\ ep_out \subseteq OutEps /\ etce \subseteq InEps
    /\ todo \subseteq OutEps \cap NonZero
    /\ ep_setup \in BOOLEAN
    /\ pc \in Steps
    /\ call \in [ep : Endpoints, len : Nat]
    /\ lo \in Nat /\ hi \in Nat
    /\ setupRead \in [n : Nat, lo : Nat, hi : Nat]

DriverInit ==
    /\ ep_out = {} /\ ep_setup = FALSE
    /\ pc = "idle" /\ call = NoCall
    /\ etce = {} /\ lo = 0 /\ hi = 0 /\ todo = {}
    /\ setupRead = [n |-> 0, lo |-> 0, hi |-> 0]
-----------------------------------------------------------------------------
Least(m, n) == IF m <= n THEN m ELSE n

is_primed(a) == a \in stat

is_enabled(a) == a \in {CtrlOut, CtrlIn} \cup enabled

\* A defect to try in the place of check_errors: no error is reported.
check_errors_none(a) == TRUE

check_errors(a) == td[a].status # "error"

has_setup == setupstat

max_packet_len(a) == MaxPacketLen[a]

\* Td::bytes_transferred subtracts unsigned numbers, with overflow checks on.
bytes_transferred(a) == td[a].last - td[a].total

clear_complete(a) == complete' = complete \ {a}

\* A defect to try in the place of schedule_transfer: the descriptor keeps the
\* last_transfer_size of the transfer before.
schedule_transfer_keeping_last(a, size) ==
    /\ td' = [td EXCEPT ![a] = [status |-> "active", total |-> size, last |-> @.last]]
    /\ prime' = prime \cup {a}

\* Endpoint::schedule_transfer up to the write of ENDPTPRIME; the loop that
\* waits for ENDPTPRIME = 0 is the step spin of the caller.
schedule_transfer(a, size) ==
    /\ td' = [td EXCEPT ![a] = [status |-> "active", total |-> size, last |-> size]]
    /\ prime' = prime \cup {a}

\* Endpoint::read into a buffer of len bytes.
read(a, len) ==
    got' = [got EXCEPT ![a] =
              [n |-> @.n + 1, id |-> buffer[a].id,
               len |-> Least(max_packet_len(a), Least(len, bytes_transferred(a)))]]

\* A defect to try in the place of written: the length is not clamped.
written_unclamped(a, len) == len

\* Endpoint::write of len bytes; written(a, len) is what it returns.
written(a, len) == Least(max_packet_len(a), len)
write(a, len) ==
    /\ sent' = [sent EXCEPT ![a] = @ + 1]
    /\ buffer' = [buffer EXCEPT ![a] = [id |-> sent[a] + 1, len |-> written(a, len)]]

\* Endpoint::enable and Endpoint::initialize do nothing to endpoint 0, which is
\* always enabled.
enable(eps) == enabled' = enabled \cup (eps \cap NonZero)
initialize(eps) == enabled' = enabled \ (eps \cap NonZero)

\* Endpoint::set_stalled changes its own half of ENDPTCTRL.
set_stalled(a, stall) ==
    stalled' = IF stall THEN stalled \cup {a} ELSE stalled \ {a}
-----------------------------------------------------------------------------
\* A call on endpoint a begins, the caller's buffer holding len bytes.
Begin(step, a, len) ==
    /\ pc = "idle"
    /\ pc' = step
    /\ call' = [ep |-> a, len |-> len]

\* The call in progress goes on at step.
Goto(step) == pc' = step /\ UNCHANGED call

\* It has nothing left to do but step, which needs none of its arguments.
Finish(step) == pc' = step /\ call' = NoCall

\* A read or write that finds its endpoint armed returns WouldBlock.
would_block(step) ==
    /\ pc = step
    /\ Finish("idle")
    /\ UNCHANGED <<controllerVars, ep_out, ep_setup, locals, setupRead>>

\* The rest of ctrl0_read and of ep_read: take the packet, arm the endpoint.
take_packet(step, a, len) ==
    /\ pc = step
    /\ clear_complete(a)
    /\ read(a, len)
    /\ unreported' = unreported \ {a}
    /\ schedule_transfer(a, max_packet_len(a))
    /\ Finish("spin")
    /\ UNCHANGED <<usbsts, setupstat, sutw, stat, flush, endptctrl, setup, buffer,
                   host, sent, ep_out, ep_setup, locals, setupRead>>

\* The rest of ctrl0_read after a SETUP and of ep_stall: arm the endpoint unless
\* it is armed.
prime_unprimed(step, a) ==
    /\ pc = step
    /\ IF is_primed(a) THEN Finish("idle") /\ UNCHANGED <<td, prime>>
                       ELSE schedule_transfer(a, max_packet_len(a)) /\ Finish("spin")
    /\ UNCHANGED <<usbsts, setupstat, complete, sutw, stat, flush, endptctrl, setup,
                   buffer, host, hist, ep_out, ep_setup, locals, setupRead>>

\* The rest of ctrl0_write and of ep_write: copy the packet, arm the endpoint.
put_packet(step, a, len, next) ==
    /\ pc = step
    /\ write(a, len)
    /\ schedule_transfer(a, written(a, len))
    /\ Finish(next)
    /\ UNCHANGED <<usbsts, setupstat, complete, sutw, stat, flush, endptctrl, setup,
                   host, got, unreported, ep_out, ep_setup, locals, setupRead>>
=============================================================================
