-------------------------------- MODULE Driver --------------------------------
(***************************************************************************)
(* The driver of driver.rs behind the UsbBus implementation of bus.rs: one *)
(* action per run of a call that the controller cannot come between, each  *)
(* named for the function it is in, composed with the controller and the   *)
(* host.  A step with a plausible defect stands before the step itself,    *)
(* named for it and for what is wrong: nothing uses it, and put in the     *)
(* place of the step it makes a property of DriverProperties fail.         *)
(***************************************************************************)
EXTENDS Endpoint

Init == ControllerInit /\ DriverInit

(***************************************************************************)
(* poll                                                                    *)
(***************************************************************************)

\* Reads USBSTS.
poll ==
    /\ usbsts # {}
    /\ Begin(IF "URI" \in usbsts THEN "poll_uri" ELSE "poll_ui", CtrlOut, 0)
    /\ UNCHANGED <<controllerVars, ep_out, ep_setup, locals, setupRead>>

\* With neither flag up it returns PollResult::None.
poll_none ==
    /\ pc = "idle"
    /\ usbsts = {}
    /\ UNCHANGED vars

\* A defect, to be caught in the place of poll_uri: USBSTS is acknowledged
\* as it was read, UI with URI.
poll_uri_acks_all ==
    /\ pc = "poll_uri"
    /\ usbsts' = {}
    /\ Goto("reset")
    /\ UNCHANGED <<setupstat, complete, sutw, arming, endptctrl, memory, host, hist,
                   ep_out, ep_setup, locals, setupRead>>

\* Returns PollResult::Reset, which UsbDevice::poll answers with reset().
poll_uri ==
    /\ pc = "poll_uri"
    /\ usbsts' = usbsts \ {"URI"}
    /\ Goto("reset")
    /\ UNCHANGED <<setupstat, complete, sutw, arming, endptctrl, memory, host, hist,
                   ep_out, ep_setup, locals, setupRead>>

poll_ui ==
    /\ pc = "poll_ui"
    /\ usbsts' = usbsts \ {"UI"}
    /\ Goto("poll_erce")
    /\ UNCHANGED <<setupstat, complete, sutw, arming, endptctrl, memory, host, hist,
                   ep_out, ep_setup, locals, setupRead>>

\* A defect, to be caught in the place of poll_erce: the OUT completions
\* are cleared with the IN ones, before they are read.
poll_erce_clears ==
    /\ pc = "poll_erce"
    /\ ep_out' = complete \cap OutEps
    /\ complete' = complete \ OutEps
    /\ unreported' = unreported \ (complete \cap OutEps)
    /\ Goto("poll_etce")
    /\ UNCHANGED <<usbsts, setupstat, sutw, arming, endptctrl, memory, host, sent,
                   got, ep_setup, locals, setupRead>>

poll_erce ==
    /\ pc = "poll_erce"
    /\ ep_out' = complete \cap OutEps
    /\ unreported' = unreported \ (complete \cap OutEps)
    /\ Goto("poll_etce")
    /\ UNCHANGED <<usbsts, setupstat, complete, sutw, arming, endptctrl, memory,
                   host, sent, got, ep_setup, locals, setupRead>>

poll_etce ==
    /\ pc = "poll_etce"
    /\ etce' = complete \cap InEps
    /\ Goto("poll_clear")
    /\ UNCHANGED <<controllerVars, ep_out, ep_setup, lo, hi, todo, setupRead>>

\* A defect, to be caught in the place of poll_clear: UI is acknowledged
\* once more after the completions were sampled.
poll_clear_acks_late ==
    /\ pc = "poll_clear"
    /\ usbsts' = usbsts \ {"UI"}
    /\ complete' = complete \ etce
    /\ unreported' = unreported \ etce
    /\ etce' = {}
    /\ Goto("poll_setup")
    /\ UNCHANGED <<setupstat, sutw, arming, endptctrl, memory, host, sent, got,
                   ep_out, ep_setup, lo, hi, todo, setupRead>>

poll_clear ==
    /\ pc = "poll_clear"
    /\ complete' = complete \ etce
    /\ unreported' = unreported \ etce
    /\ etce' = {}
    /\ Goto("poll_setup")
    /\ UNCHANGED <<usbsts, setupstat, sutw, arming, endptctrl, memory, host, sent,
                   got, ep_out, ep_setup, lo, hi, todo, setupRead>>

\* Returns PollResult::Data.
poll_setup ==
    /\ pc = "poll_setup"
    /\ ep_setup' = setupstat
    /\ Finish("idle")
    /\ UNCHANGED <<controllerVars, ep_out, locals, setupRead>>

(***************************************************************************)
(* reset                                                                   *)
(***************************************************************************)

\* bus_reset clears ENDPTCOMPLETE: the completions poll() has not reported are
\* discarded with the session they belong to.  What it writes back to ENDPTSTAT
\* does nothing, that register being read-only, and ENDPTNAK is read by no one.
bus_reset ==
    /\ pc = "reset"
    /\ complete' = {}
    /\ unreported' = {}
    /\ Goto("reset_flush")
    /\ UNCHANGED <<usbsts, setupstat, sutw, arming, endptctrl, memory, host, sent,
                   got, ep_out, ep_setup, locals, setupRead>>

\* A defect, to be caught in the place of bus_reset_flush: the transfers
\* are not flushed.
bus_reset_no_flush ==
    /\ pc = "reset_flush"
    /\ prime = {}
    /\ Goto("reset_init")
    /\ UNCHANGED <<controllerVars, ep_out, ep_setup, locals, setupRead>>

bus_reset_flush ==
    /\ pc = "reset_flush"
    /\ prime = {}
    /\ flush' = TRUE
    /\ Goto("reset_init")
    /\ UNCHANGED <<usbsts, setupstat, complete, sutw, stat, prime, endptctrl, memory,
                   host, hist, ep_out, ep_setup, locals, setupRead>>

\* initialize_endpoints disables every allocated non-zero endpoint.
bus_reset_init ==
    /\ pc = "reset_init"
    /\ ~flush
    /\ initialize(NonZero)
    /\ session' = "off"
    /\ before' = sent
    /\ Finish("idle")
    /\ UNCHANGED <<usbsts, setupstat, complete, sutw, arming, stalled, memory,
                   resets, faults, hist, ep_out, ep_setup, locals, setupRead>>

(***************************************************************************)
(* read and write on endpoint 0                                            *)
(***************************************************************************)

\* UsbDevice::poll reads endpoint 0 when poll() reported a SETUP, into a
\* buffer with room for it, and otherwise when poll() reported EP0 OUT.
ControlReadDue(len) ==
    IF ep_setup THEN len >= SetupLen ELSE CtrlOut \in ep_out

\* ctrl0_read up to has_setup and check_errors; on an error it returns
\* InvalidState and changes nothing.
ctrl0_read(len) ==
    /\ ControlReadDue(len)
    /\ IF has_setup /\ len >= SetupLen
         THEN Begin("read_setup", CtrlOut, len)
         ELSE check_errors(CtrlOut) /\ Begin("ctrl0_read", CtrlOut, len)
    /\ UNCHANGED <<controllerVars, ep_out, ep_setup, locals, setupRead>>

\* A defect, to be caught in the place of read_setup: ENDPTSETUPSTAT is left
\* as it is.
read_setup_keeping_flag ==
    /\ pc = "read_setup"
    /\ ep_setup' = FALSE
    /\ Goto("read_setup_arm")
    /\ UNCHANGED <<controllerVars, ep_out, locals, setupRead>>

\* read_setup first clears ENDPTSETUPSTAT ...
read_setup ==
    /\ pc = "read_setup"
    /\ setupstat' = FALSE
    /\ ep_setup' = FALSE
    /\ Goto("read_setup_arm")
    /\ UNCHANGED <<usbsts, complete, sutw, arming, endptctrl, memory, host, hist,
                   ep_out, locals, setupRead>>

\* ... then arms the tripwire ...
read_setup_arm ==
    /\ pc = "read_setup_arm"
    /\ sutw' = TRUE
    /\ Goto("read_setup_lo")
    /\ UNCHANGED <<usbsts, setupstat, complete, arming, endptctrl, memory, host, hist,
                   ep_out, ep_setup, locals, setupRead>>

\* ... and loads the 64-bit setup buffer, two words on a 32-bit core.
read_setup_lo ==
    /\ pc = "read_setup_lo"
    /\ lo' = setup
    /\ Goto("read_setup_hi")
    /\ UNCHANGED <<controllerVars, ep_out, ep_setup, etce, hi, todo, setupRead>>

read_setup_hi ==
    /\ pc = "read_setup_hi"
    /\ hi' = setup
    /\ Goto("read_setup_check")
    /\ UNCHANGED <<controllerVars, ep_out, ep_setup, etce, lo, todo, setupRead>>

\* A defect, to be caught in the place of read_setup_retry: the tripwire is
\* armed before the loop and not in it.
read_setup_retry_unarmed ==
    /\ pc = "read_setup_check"
    /\ ~sutw
    /\ lo' = 0 /\ hi' = 0
    /\ Goto("read_setup_lo")
    /\ UNCHANGED <<controllerVars, ep_out, ep_setup, etce, todo, setupRead>>

\* A SETUP that came meanwhile has tripped the wire: load the buffer again.
read_setup_retry ==
    /\ pc = "read_setup_check"
    /\ ~sutw
    /\ lo' = 0 /\ hi' = 0
    /\ Goto("read_setup_arm")
    /\ UNCHANGED <<controllerVars, ep_out, ep_setup, etce, todo, setupRead>>

\* A defect, to be caught in the place of read_setup_done: the tripwire is
\* not checked.
read_setup_done_unchecked ==
    /\ pc = "read_setup_check"
    /\ sutw' = FALSE
    /\ setupRead' = [n |-> setupRead.n + 1, lo |-> lo, hi |-> hi]
    /\ lo' = 0 /\ hi' = 0
    /\ Finish("ctrl0_prime")
    /\ UNCHANGED <<usbsts, setupstat, complete, arming, endptctrl, memory, host, hist,
                   ep_out, ep_setup, etce, todo>>

\* Otherwise the wire is disarmed and the SETUP returned.
read_setup_done ==
    /\ pc = "read_setup_check"
    /\ sutw
    /\ sutw' = FALSE
    /\ setupRead' = [n |-> setupRead.n + 1, lo |-> lo, hi |-> hi]
    /\ lo' = 0 /\ hi' = 0
    /\ Finish("ctrl0_prime")
    /\ UNCHANGED <<usbsts, setupstat, complete, arming, endptctrl, memory, host, hist,
                   ep_out, ep_setup, etce, todo>>

\* ctrl0_read schedules an EP0 OUT transfer after a SETUP unless one is armed.
ctrl0_read_prime == prime_unprimed("ctrl0_prime", CtrlOut)

ctrl0_read_data ==
    IF is_primed(CtrlOut) THEN would_block("ctrl0_read")
                          ELSE take_packet("ctrl0_read", CtrlOut, call.len)

\* UsbDevice writes to endpoint 0 in answer to a SETUP.
ctrl0_write(len) ==
    /\ setupRead.lo > 0
    /\ sent[CtrlIn] < MaxPackets
    /\ check_errors(CtrlIn)
    /\ Begin("ctrl0_write", CtrlIn, len)
    /\ UNCHANGED <<controllerVars, ep_out, ep_setup, locals, setupRead>>

ctrl0_write_data ==
    IF is_primed(CtrlIn) THEN would_block("ctrl0_write")
                         ELSE put_packet("ctrl0_write", CtrlIn, call.len, "spin_status")

\* ctrl0_write ends by arming EP0 OUT for the status phase if it is not armed.
ctrl0_write_status ==
    /\ pc = "ctrl0_status"
    /\ IF is_primed(CtrlOut)
         THEN Finish("idle") /\ UNCHANGED <<complete, td, prime>>
         ELSE /\ clear_complete(CtrlOut)
              /\ schedule_transfer(CtrlOut, 0)
              /\ Finish("spin")
    /\ UNCHANGED <<usbsts, setupstat, sutw, stat, flush, endptctrl, setup, buffer,
                   host, hist, ep_out, ep_setup, locals, setupRead>>

(***************************************************************************)
(* read, write and set_stalled on the other endpoints                      *)
(***************************************************************************)

\* ep_read and ep_write up to check_errors; on an error they return
\* InvalidState and change nothing.
ep_read(a, len) ==
    /\ a \in OutEps \cap NonZero
    /\ check_errors(a)
    /\ Begin("ep_read", a, len)
    /\ UNCHANGED <<controllerVars, ep_out, ep_setup, locals, setupRead>>

\* A defect, to be caught in the place of ep_read_data: the completion
\* poll() reported is trusted: is_primed is not asked.
ep_read_data_trusting ==
    IF call.ep \notin ep_out THEN would_block("ep_read")
                             ELSE take_packet("ep_read", call.ep, call.len)

ep_read_data ==
    IF is_primed(call.ep) \/ call.ep \notin ep_out
      THEN would_block("ep_read")
      ELSE take_packet("ep_read", call.ep, call.len)

ep_write(a, len) ==
    /\ a \in InEps \cap NonZero
    /\ sent[a] < MaxPackets
    /\ check_errors(a)
    /\ Begin("ep_write", a, len)
    /\ UNCHANGED <<controllerVars, ep_out, ep_setup, locals, setupRead>>

ep_write_data ==
    IF is_primed(call.ep) THEN would_block("ep_write")
                          ELSE put_packet("ep_write", call.ep, call.len, "spin")

\* ep_stall; only unstalling an OUT endpoint has a second half.
ep_stall(a, stall) ==
    /\ a \in StallEps
    /\ set_stalled(a, stall)
    /\ IF stall \/ a \in InEps
         THEN pc = "idle" /\ UNCHANGED <<pc, call>>
         ELSE Begin("ep_stall", a, 0)
    /\ UNCHANGED <<usbsts, setupstat, complete, sutw, arming, enabled, memory, host,
                   hist, ep_out, ep_setup, locals, setupRead>>

\* A defect, to be caught in the place of ep_stall_prime: unstalling
\* re-primes an OUT endpoint that is primed.
ep_stall_prime_always ==
    /\ pc = "ep_stall"
    /\ schedule_transfer(call.ep, max_packet_len(call.ep))
    /\ Finish("spin")
    /\ UNCHANGED <<usbsts, setupstat, complete, sutw, stat, flush, endptctrl, setup,
                   buffer, host, hist, ep_out, ep_setup, locals, setupRead>>

ep_stall_prime == prime_unprimed("ep_stall", call.ep)

(***************************************************************************)
(* configure, and the loop that ends schedule_transfer                     *)
(***************************************************************************)

\* on_configured, called once per bus reset, as configure() documents, after
\* the host has set the configuration: enable_endpoints.
on_configured ==
    /\ session = "off"
    /\ Begin("prime_endpoints", CtrlOut, 0)
    /\ enable(NonZero)
    /\ session' = IF "URI" \in usbsts THEN "lost" ELSE "on"
    /\ todo' = NonZero \cap OutEps
    /\ UNCHANGED <<usbsts, setupstat, complete, sutw, arming, stalled, memory, resets,
                   faults, before, hist, ep_out, ep_setup, etce, lo, hi, setupRead>>

\* prime_endpoints, the endpoints in the order of the iterator.
prime_endpoints ==
    /\ pc = "prime_endpoints"
    /\ \E a \in todo :
         /\ \A b \in todo : a <= b
         /\ todo' = todo \ {a}
         /\ IF is_enabled(a)
              THEN /\ schedule_transfer(a, max_packet_len(a))
                   /\ Goto("spin_prime")
              ELSE UNCHANGED <<td, prime, pc, call>>
    /\ UNCHANGED <<usbsts, setupstat, complete, sutw, stat, flush, endptctrl, setup,
                   buffer, host, hist, ep_out, ep_setup, etce, lo, hi, setupRead>>

prime_endpoints_done ==
    /\ pc = "prime_endpoints" /\ todo = {}
    /\ Finish("idle")
    /\ UNCHANGED <<controllerVars, ep_out, ep_setup, locals, setupRead>>

AfterSpin(step) == CASE step = "spin" -> "idle"
                     [] step = "spin_status" -> "ctrl0_status"
                     [] step = "spin_prime" -> "prime_endpoints"

spin ==
    /\ pc \in SpinSteps
    /\ prime = {}
    /\ Goto(AfterSpin(pc))
    /\ UNCHANGED <<controllerVars, ep_out, ep_setup, locals, setupRead>>
-----------------------------------------------------------------------------
\* The calls the class and UsbDevice choose to make.
ClassCall ==
    \/ \E len \in Lengths : ctrl0_read(len) \/ ctrl0_write(len)
    \/ \E a \in Endpoints, len \in Lengths : ep_read(a, len) \/ ep_write(a, len)
    \/ \E a \in Endpoints, stall \in BOOLEAN : ep_stall(a, stall)
    \/ on_configured

\* The steps of a call in progress.
CallStep ==
    \/ poll_uri \/ poll_ui \/ poll_erce \/ poll_etce \/ poll_clear \/ poll_setup
    \/ bus_reset \/ bus_reset_flush \/ bus_reset_init
    \/ read_setup \/ read_setup_arm \/ read_setup_lo \/ read_setup_hi
    \/ read_setup_retry \/ read_setup_done \/ ctrl0_read_prime
    \/ ctrl0_read_data \/ ctrl0_write_data \/ ctrl0_write_status
    \/ ep_read_data \/ ep_write_data \/ ep_stall_prime
    \/ prime_endpoints \/ prime_endpoints_done
    \/ spin

\* The controller and the host act between any two steps of the driver.
EnvironmentStep ==
    /\ ControllerStep \/ HostStep
    /\ UNCHANGED driverVars

Next == poll \/ poll_none \/ ClassCall \/ CallStep \/ EnvironmentStep

Spec == Init /\ [][Next]_vars

(***************************************************************************)
(* A call that has begun goes on, the controller takes prime and flush     *)
(* requests, the event loop of the application keeps calling poll(), and   *)
(* UsbDevice::poll reads the SETUP that poll() reports.                    *)
(***************************************************************************)
Fairness ==
    /\ WF_vars(CallStep)
    /\ WF_vars(ControllerStep /\ UNCHANGED driverVars)
    /\ SF_vars(poll)
    /\ SF_vars(ep_setup /\ \E len \in Lengths : ctrl0_read(len))

FairSpec == Spec /\ Fairness
=============================================================================
