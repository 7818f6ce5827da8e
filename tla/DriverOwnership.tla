---------------------------- MODULE DriverOwnership ----------------------------
(***************************************************************************)
(* Proofs of the two properties that rest on who may arm a transfer, and   *)
(* when: TransferOwned and NeverDeaf.                                      *)
(***************************************************************************)
EXTENDS DriverProofs

(***************************************************************************)
(* Where a call stands bounds what the controller still has to do: prime   *)
(* requests are pending only while their call spins on ENDPTPRIME, and a   *)
(* flush only while bus_reset spins on ENDPTFLUSH; configure() alone has   *)
(* endpoints left to prime, which it has enabled; and a bus reset that is  *)
(* flagged or being handled has ended the session.                         *)
(***************************************************************************)
ResetSteps == {"poll_uri", "reset", "reset_flush", "reset_init"}

Quiescent ==
    /\ prime # {} => pc \in SpinSteps
    /\ flush => pc = "reset_init"
    /\ todo # {} => pc \in {"prime_endpoints", "spin_prime"}
    /\ todo \subseteq enabled
    /\ "URI" \in usbsts \/ pc \in ResetSteps => session # "on"

\* A step of a call, outside spins and resets, that schedules nothing.
LEMMA QuietQuiescent ==
    ASSUME Quiescent, pc \notin SpinSteps \cup ResetSteps \cup {"prime_endpoints"},
           pc' \notin ResetSteps,
           UNCHANGED <<prime, flush, todo, enabled, session>>,
           "URI" \in usbsts' => "URI" \in usbsts
    PROVE  Quiescent'
BY DEF Quiescent, SpinSteps, ResetSteps

\* A step of a call that schedules and goes on to spin.
LEMMA ScheduleQuiescent ==
    ASSUME Quiescent, pc \notin SpinSteps \cup ResetSteps \cup {"prime_endpoints"},
           pc' \in SpinSteps,
           UNCHANGED <<flush, todo, enabled, session, usbsts>>
    PROVE  Quiescent'
BY DEF Quiescent, SpinSteps, ResetSteps

LEMMA EnvironmentQuiescent ==
    ASSUME Quiescent, EnvironmentStep
    PROVE  Quiescent'
<1> USE DEF Quiescent
<1>1. UNCHANGED <<pc, todo>>
  BY DEF EnvironmentStep, driverVars, locals
<1>2. CASE FlushDone
  BY <1>1, <1>2 DEF FlushDone, endptctrl, host
<1>3. ASSUME NEW a \in Endpoints, PrimeDone(a) PROVE Quiescent'
  BY <1>1, <1>3 DEF PrimeDone, endptctrl, host
<1>4. ASSUME NEW a, NEW status, NEW total, Retire(a, status, total)
      PROVE  Quiescent'
  BY <1>1, <1>4 DEF Retire, endptctrl
<1>5. ASSUME NEW a \in Endpoints, NEW len \in Lengths,
             HostOut(a, len) \/ HostOverrun(a, len)
      PROVE  Quiescent'
  BY <1>4, <1>5 DEF HostOut, HostOverrun
<1>6. ASSUME NEW a \in Endpoints, HostIn(a) \/ Fault(a) PROVE Quiescent'
  BY <1>4, <1>6 DEF HostIn, Fault
<1>7. CASE HostSetup
  BY <1>1, <1>7 DEF HostSetup, arming, host
<1>8. CASE HostReset
  BY <1>1, <1>8 DEF HostReset, arming, endptctrl
<1>9. QED
  BY <1>2, <1>3, <1>5, <1>6, <1>7, <1>8 DEF EnvironmentStep, ControllerStep, HostStep

LEMMA PollQuiescent ==
    ASSUME Quiescent,
           \/ poll \/ poll_none \/ poll_uri \/ poll_ui \/ poll_erce \/ poll_etce
           \/ poll_clear \/ poll_setup \/ bus_reset \/ bus_reset_flush
           \/ bus_reset_init
    PROVE  Quiescent'
<1> USE DEF Quiescent, Begin, Goto, Finish, SpinSteps, ResetSteps, arming, endptctrl,
            host, locals
<1>1. CASE poll
  BY <1>1 DEF poll, controllerVars
<1>2. CASE poll_none
  BY <1>2 DEF poll_none, vars, driverVars, controllerVars
<1>3. CASE poll_uri
  BY <1>3 DEF poll_uri
<1>4. CASE poll_ui
  BY <1>4 DEF poll_ui
<1>5. CASE poll_erce
  BY <1>5 DEF poll_erce
<1>6. CASE poll_etce
  BY <1>6 DEF poll_etce, controllerVars
<1>7. CASE poll_clear
  BY <1>7 DEF poll_clear
<1>8. CASE poll_setup
  BY <1>8 DEF poll_setup, controllerVars
<1>9. CASE bus_reset
  BY <1>9 DEF bus_reset
<1>10. CASE bus_reset_flush
  BY <1>10 DEF bus_reset_flush
<1>11. CASE bus_reset_init
  BY <1>11 DEF bus_reset_init, initialize
<1>12. QED
  BY <1>1, <1>2, <1>3, <1>4, <1>5, <1>6, <1>7, <1>8, <1>9, <1>10, <1>11

LEMMA ReadSetupQuiescent ==
    ASSUME Quiescent,
           \/ read_setup \/ read_setup_arm \/ read_setup_lo \/ read_setup_hi
           \/ read_setup_retry \/ read_setup_done
    PROVE  Quiescent'
<1> USE DEF Goto, Finish, SpinSteps, ResetSteps, arming, endptctrl, host, locals
<1>1. CASE \/ read_setup \/ read_setup_arm \/ read_setup_lo \/ read_setup_hi
           \/ read_setup_retry
  BY <1>1, QuietQuiescent
     DEF read_setup, read_setup_arm, read_setup_lo, read_setup_hi, read_setup_retry,
         controllerVars
<1>2. CASE read_setup_done
  BY <1>2, QuietQuiescent DEF read_setup_done
<1>3. QED
  BY <1>1, <1>2

LEMMA TransferQuiescent ==
    ASSUME Quiescent,
           \/ ctrl0_read_prime \/ ctrl0_read_data
           \/ ctrl0_write_data \/ ctrl0_write_status
           \/ ep_read_data \/ ep_write_data \/ ep_stall_prime
    PROVE  Quiescent'
<1> USE DEF Finish, SpinSteps, ResetSteps, arming, endptctrl, host, locals
<1>1. ASSUME NEW step \in {"ctrl0_read", "ctrl0_write", "ep_read", "ep_write"},
             would_block(step)
      PROVE  Quiescent'
  BY <1>1, QuietQuiescent DEF would_block, controllerVars
<1>2. ASSUME NEW step \in {"ctrl0_read", "ep_read"}, NEW a, NEW len,
             take_packet(step, a, len)
      PROVE  Quiescent'
  BY <1>2, ScheduleQuiescent DEF take_packet
<1>3. ASSUME NEW step \in {"ctrl0_write", "ep_write"}, NEW a, NEW len,
             NEW next \in SpinSteps, put_packet(step, a, len, next)
      PROVE  Quiescent'
  BY <1>3, ScheduleQuiescent DEF put_packet
<1>4. CASE ctrl0_read_data
  BY <1>1, <1>2, <1>4 DEF ctrl0_read_data
<1>5. CASE ctrl0_write_data
  BY <1>1, <1>3, <1>5 DEF ctrl0_write_data
<1>6. CASE ep_read_data
  BY <1>1, <1>2, <1>6 DEF ep_read_data
<1>7. CASE ep_write_data
  BY <1>1, <1>3, <1>7 DEF ep_write_data
<1>8. CASE ctrl0_read_prime \/ ctrl0_write_status \/ ep_stall_prime
  <2> USE DEF ctrl0_read_prime, ctrl0_write_status, ep_stall_prime, prime_unprimed
  <2>1. CASE pc' = "idle" /\ prime' = prime
    BY <1>8, <2>1, QuietQuiescent
  <2>2. CASE pc' = "spin"
    BY <1>8, <2>2, ScheduleQuiescent
  <2>3. QED
    BY <1>8, <2>1, <2>2
<1>9. QED
  BY <1>4, <1>5, <1>6, <1>7, <1>8

LEMMA ConfigureQuiescent ==
    ASSUME TypeOK, Quiescent,
           on_configured \/ prime_endpoints \/ prime_endpoints_done \/ spin
    PROVE  Quiescent'
<1> USE DEF Quiescent, Begin, Goto, Finish, SpinSteps, ResetSteps, arming, endptctrl,
            host, locals
<1>1. CASE on_configured
  BY <1>1 DEF on_configured, enable
<1>2. CASE prime_endpoints
  BY <1>2 DEF prime_endpoints
<1>3. CASE prime_endpoints_done
  BY <1>3 DEF prime_endpoints_done, controllerVars
<1>4. CASE spin
  BY <1>4 DEF spin, AfterSpin, controllerVars
<1>5. QED
  BY <1>1, <1>2, <1>3, <1>4

LEMMA BeginQuiescent ==
    ASSUME Quiescent, ClassCall, ~on_configured
    PROVE  Quiescent'
<1>1. /\ pc = "idle" /\ pc' \notin ResetSteps
      /\ UNCHANGED <<prime, flush, todo, enabled, session, usbsts>>
  BY DEF ClassCall, ctrl0_read, ctrl0_write, ep_read, ep_write, ep_stall, Begin,
         ResetSteps, controllerVars, arming, endptctrl, host, locals
<1>2. QED
  BY <1>1, QuietQuiescent DEF SpinSteps, ResetSteps

LEMMA QuiescentAlways == Spec => []Quiescent
<1>1. Init => Quiescent
  BY DEF Init, ControllerInit, DriverInit, Quiescent, ResetSteps
<1>2. TypeOK /\ Quiescent /\ [Next]_vars => Quiescent'
  <2>1. ASSUME Quiescent, UNCHANGED vars PROVE Quiescent'
    BY <2>1 DEF vars, driverVars, locals, controllerVars, arming, endptctrl, host,
                Quiescent
  <2>2. QED
    BY <2>1, PollQuiescent, ReadSetupQuiescent, TransferQuiescent, ConfigureQuiescent,
       BeginQuiescent, EnvironmentQuiescent DEF Next, CallStep
<1>3. QED
  BY <1>1, <1>2, TypeCorrect, PTL DEF Spec

(***************************************************************************)
(* Ownership.  Outside configure() a call schedules a transfer only after  *)
(* it has found the endpoint not armed, and then no prime is pending.      *)
(***************************************************************************)

UntouchedOwned == \A a \in Endpoints : Owned(a) => Untouched(a)

\* A step that changes no descriptor, no buffer and no prime request.
LEMMA NoTouch ==
    ASSUME UNCHANGED <<td, buffer, prime>>
    PROVE  UntouchedOwned
BY DEF UntouchedOwned, Untouched

\* A step that schedules a transfer on an endpoint that is not armed, and
\* changes no other's buffer, while no prime is pending.
LEMMA ScheduleUnowned ==
    ASSUME TypeOK, prime = {}, NEW a \in Endpoints, ~is_primed(a), NEW size,
           schedule_transfer(a, size),
           \A b \in Endpoints \ {a} : buffer'[b] = buffer[b]
    PROVE  UntouchedOwned
<1>1. td \in [Endpoints -> TransferDescriptor]
  BY DEF TypeOK, ControllerTypeOK
<1>2. ASSUME NEW b \in Endpoints, Owned(b) PROVE Untouched(b)
  <2>1. b # a
    BY <1>2 DEF Owned, is_primed
  <2>2. td'[b] = td[b] /\ (b \in prime' => b \in prime)
    BY <1>1, <2>1 DEF schedule_transfer
  <2>3. QED
    BY <2>1, <2>2 DEF Untouched
<1>3. QED
  BY <1>2 DEF UntouchedOwned

LEMMA CallStepOwned ==
    ASSUME TypeOK, Quiescent, CallStep, pc # "prime_endpoints"
    PROVE  UntouchedOwned
<1>1. /\ call.ep \in Endpoints /\ CtrlOut \in Endpoints /\ CtrlIn \in Endpoints
      /\ buffer \in [Endpoints -> Packet]
  BY EndpointsAssumption DEF TypeOK, ControllerTypeOK, DriverTypeOK
<1>2. ASSUME NEW step, would_block(step) PROVE UntouchedOwned
  BY <1>2, NoTouch DEF would_block, controllerVars, arming, memory
<1>3. ASSUME NEW step \in {"ctrl0_read", "ep_read"}, NEW a \in Endpoints, NEW len,
             ~is_primed(a), take_packet(step, a, len)
      PROVE  UntouchedOwned
  BY <1>3, ScheduleUnowned DEF take_packet, Quiescent, SpinSteps
<1>4. ASSUME NEW step \in {"ctrl0_write", "ep_write"}, NEW a \in Endpoints, NEW len,
             NEW next, ~is_primed(a), put_packet(step, a, len, next)
      PROVE  UntouchedOwned
  <2>1. \A b \in Endpoints \ {a} : buffer'[b] = buffer[b]
    BY <1>1, <1>4 DEF put_packet, write
  <2>2. QED
    BY <1>4, <2>1, ScheduleUnowned DEF put_packet, Quiescent, SpinSteps
<1>5. CASE \/ poll_uri \/ poll_ui \/ poll_erce \/ poll_etce \/ poll_clear
           \/ poll_setup \/ bus_reset \/ bus_reset_flush \/ bus_reset_init
  BY <1>5, NoTouch
     DEF poll_uri, poll_ui, poll_erce, poll_etce, poll_clear, poll_setup, bus_reset,
         bus_reset_flush, bus_reset_init, initialize, controllerVars, arming, memory
<1>6. CASE \/ read_setup \/ read_setup_arm \/ read_setup_lo \/ read_setup_hi
           \/ read_setup_retry \/ read_setup_done
  BY <1>6, NoTouch
     DEF read_setup, read_setup_arm, read_setup_lo, read_setup_hi, read_setup_retry,
         read_setup_done, controllerVars, arming, memory
<1>7. ASSUME NEW step \in {"ctrl0_prime", "ep_stall"}, NEW a \in Endpoints,
             prime_unprimed(step, a)
      PROVE  UntouchedOwned
  <2>1. CASE is_primed(a)
    BY <1>7, <2>1, NoTouch DEF prime_unprimed
  <2>2. CASE ~is_primed(a)
    BY <1>7, <2>2, ScheduleUnowned DEF prime_unprimed, Quiescent, SpinSteps
  <2>3. QED
    BY <2>1, <2>2
<1>8. CASE ctrl0_read_data
  BY <1>1, <1>2, <1>3, <1>8 DEF ctrl0_read_data
<1>9. CASE ctrl0_write_data
  BY <1>1, <1>2, <1>4, <1>9 DEF ctrl0_write_data
<1>10. CASE ctrl0_write_status
  <2>1. CASE is_primed(CtrlOut)
    BY <1>10, <2>1, NoTouch DEF ctrl0_write_status
  <2>2. CASE ~is_primed(CtrlOut)
    BY <1>1, <1>10, <2>2, ScheduleUnowned
       DEF ctrl0_write_status, Quiescent, SpinSteps
  <2>3. QED
    BY <2>1, <2>2
<1>11. CASE ep_read_data
  BY <1>1, <1>2, <1>3, <1>11 DEF ep_read_data
<1>12. CASE ep_write_data
  BY <1>1, <1>2, <1>4, <1>12 DEF ep_write_data
<1>13. CASE ctrl0_read_prime \/ ep_stall_prime
  BY <1>1, <1>7, <1>13 DEF ctrl0_read_prime, ep_stall_prime
<1>14. CASE spin
  BY <1>14, NoTouch DEF spin, controllerVars, arming, memory
<1>15. QED
  BY <1>5, <1>6, <1>8, <1>9, <1>10, <1>11, <1>12, <1>13, <1>14
     DEF CallStep, prime_endpoints, prime_endpoints_done

\* No call but configure() changes what the controller owns.
THEOREM OwnershipRespected == Spec => TransferOwned
<1>1. TypeOK /\ Quiescent /\ [Next]_vars =>
        [pc' # pc /\ pc # "prime_endpoints" =>
           \A a \in Endpoints : Owned(a) => Untouched(a)]_vars
  <2> SUFFICES ASSUME TypeOK, Quiescent, Next, pc' # pc, pc # "prime_endpoints"
               PROVE  UntouchedOwned
    BY DEF UntouchedOwned, vars, driverVars
  <2>1. CASE poll \/ poll_none \/ ClassCall
    BY <2>1, NoTouch
       DEF poll, poll_none, vars, ClassCall, ctrl0_read, ctrl0_write, ep_read, ep_write,
           ep_stall, on_configured, enable, controllerVars, arming, memory
  <2>2. CASE CallStep
    BY <2>2, CallStepOwned
  <2>3. ~EnvironmentStep
    BY DEF EnvironmentStep, driverVars
  <2>4. QED
    BY <2>1, <2>2, <2>3 DEF Next
<1>2. QED
  BY <1>1, TypeCorrect, QuiescentAlways, PTL DEF Spec, TransferOwned

(***************************************************************************)
(* NeverDeaf.  It is not inductive: configure() may prime an endpoint that *)
(* is armed, whose transfer may end before the controller takes the        *)
(* request, and the request then arms nothing.  A prime request counts     *)
(* only with an active descriptor behind it; otherwise the completion is   *)
(* already there.                                                          *)
(***************************************************************************)

Listening(a) ==
    \/ a \in todo
    \/ a \in stat
    \/ a \in prime /\ td[a].status = "active"
    \/ a \in complete /\ a \in ep_out \cup unreported
    \/ ~check_errors(a)

DeafInv == session = "on" => \A a \in NonZero \cap OutEps : Listening(a)

\* A step that leaves the endpoints as they are.
LEMMA QuietListening ==
    ASSUME DeafInv, session' = "on" => session = "on",
           UNCHANGED <<todo, stat, prime, td, complete, ep_out, unreported>>
    PROVE  DeafInv'
BY DEF DeafInv, Listening, check_errors

\* Scheduling a transfer on one endpoint, and taking its completion.
LEMMA ScheduleListening ==
    ASSUME TypeOK, DeafInv, NEW a \in Endpoints, NEW size,
           schedule_transfer(a, size),
           UNCHANGED <<session, stat, ep_out>>,
           complete \ {a} \subseteq complete',
           unreported \ {a} \subseteq unreported',
           todo \ {a} \subseteq todo'
    PROVE  DeafInv'
<1>1. td \in [Endpoints -> TransferDescriptor]
  BY DEF TypeOK, ControllerTypeOK
<1>2. a \in prime' /\ td'[a].status = "active"
  BY <1>1 DEF schedule_transfer
<1>3. \A b \in Endpoints \ {a} : td'[b] = td[b]
  BY <1>1 DEF schedule_transfer
<1>4. prime \subseteq prime'
  BY DEF schedule_transfer
<1>5. QED
  BY <1>2, <1>3, <1>4 DEF DeafInv, Listening, check_errors, NonZero

LEMMA EnvironmentListening ==
    ASSUME TypeOK, Quiescent, DeafInv, EnvironmentStep
    PROVE  DeafInv'
<1>1. UNCHANGED <<pc, todo, ep_out>>
  BY DEF EnvironmentStep, driverVars, locals
<1>2. CASE FlushDone
  BY <1>2 DEF FlushDone, Quiescent, ResetSteps, host, DeafInv
<1>3. ASSUME NEW a \in Endpoints, PrimeDone(a) PROVE DeafInv'
  BY <1>1, <1>3 DEF PrimeDone, memory, host, hist, DeafInv, Listening, check_errors
<1>4. ASSUME NEW a \in Endpoints, NEW status, NEW total, Retire(a, status, total)
      PROVE  DeafInv'
  <2>1. td \in [Endpoints -> TransferDescriptor]
    BY DEF TypeOK, ControllerTypeOK
  <2>2. \A b \in Endpoints \ {a} : td'[b] = td[b]
    BY <1>4, <2>1 DEF Retire
  <2>3. a \in complete' /\ a \in unreported'
    BY <1>4 DEF Retire
  <2>4. QED
    BY <1>1, <1>4, <2>2, <2>3
       DEF Retire, DeafInv, Listening, check_errors, NonZero
<1>5. ASSUME NEW a \in Endpoints, NEW len \in Lengths,
             HostOut(a, len) \/ HostOverrun(a, len)
      PROVE  DeafInv'
  BY <1>4, <1>5 DEF HostOut, HostOverrun
<1>6. ASSUME NEW a \in Endpoints, HostIn(a) \/ Fault(a) PROVE DeafInv'
  BY <1>4, <1>6 DEF HostIn, Fault
<1>7. CASE HostSetup
  BY <1>1, <1>7, QuietListening DEF HostSetup, arming, host, hist
<1>8. CASE HostReset
  BY <1>1, <1>8, QuietListening DEF HostReset, arming, memory, hist
<1>9. QED
  BY <1>2, <1>3, <1>5, <1>6, <1>7, <1>8 DEF EnvironmentStep, ControllerStep, HostStep

LEMMA PollListening ==
    ASSUME TypeOK, Quiescent, DeafInv,
           \/ poll \/ poll_none \/ poll_uri \/ poll_ui \/ poll_erce \/ poll_etce
           \/ poll_clear \/ poll_setup \/ bus_reset \/ bus_reset_flush
           \/ bus_reset_init
    PROVE  DeafInv'
<1> USE DEF arming, memory, host, hist, locals
<1>1. CASE poll \/ poll_none \/ poll_uri \/ poll_ui \/ poll_etce \/ poll_setup
  BY <1>1, QuietListening
     DEF poll, poll_none, poll_uri, poll_ui, poll_etce, poll_setup, vars, driverVars,
         controllerVars
<1>2. CASE poll_erce
  BY <1>2 DEF poll_erce, DeafInv, Listening, check_errors
<1>3. CASE poll_clear
  <2>1. \A a \in OutEps : a \notin etce
    BY DEF TypeOK, DriverTypeOK, InEps
  <2>2. QED
    BY <1>3, <2>1 DEF poll_clear, DeafInv, Listening, check_errors
<1>4. CASE bus_reset \/ bus_reset_flush
  BY <1>4 DEF bus_reset, bus_reset_flush, Quiescent, ResetSteps, DeafInv
<1>5. CASE bus_reset_init
  BY <1>5 DEF bus_reset_init, initialize, DeafInv
<1>6. QED
  BY <1>1, <1>2, <1>3, <1>4, <1>5

LEMMA CallListening ==
    ASSUME TypeOK, Quiescent, DeafInv, CallStep,
           ~(\/ poll_uri \/ poll_ui \/ poll_erce \/ poll_etce \/ poll_clear
             \/ poll_setup \/ bus_reset \/ bus_reset_flush \/ bus_reset_init)
    PROVE  DeafInv'
<1> USE DEF host, hist, locals
<1>1. call.ep \in Endpoints /\ CtrlOut \in Endpoints /\ CtrlIn \in Endpoints
  BY EndpointsAssumption DEF TypeOK, DriverTypeOK
<1>2. ASSUME NEW step, would_block(step) PROVE DeafInv'
  BY <1>2, QuietListening DEF would_block, controllerVars, arming, memory
<1>3. ASSUME NEW step, NEW a \in Endpoints, NEW len, take_packet(step, a, len)
      PROVE  DeafInv'
  BY <1>3, ScheduleListening DEF take_packet, clear_complete
<1>4. ASSUME NEW step, NEW a \in Endpoints, NEW len, NEW next,
             put_packet(step, a, len, next)
      PROVE  DeafInv'
  BY <1>4, ScheduleListening DEF put_packet
<1>5. CASE \/ read_setup \/ read_setup_arm \/ read_setup_lo \/ read_setup_hi
           \/ read_setup_retry \/ read_setup_done \/ prime_endpoints_done \/ spin
  BY <1>5, QuietListening
     DEF read_setup, read_setup_arm, read_setup_lo, read_setup_hi, read_setup_retry,
         read_setup_done, prime_endpoints_done, spin, controllerVars, arming, memory
<1>6. ASSUME NEW step, NEW a \in Endpoints, prime_unprimed(step, a) PROVE DeafInv'
  <2>1. CASE is_primed(a)
    BY <1>6, <2>1, QuietListening DEF prime_unprimed
  <2>2. CASE ~is_primed(a)
    BY <1>6, <2>2, ScheduleListening DEF prime_unprimed
  <2>3. QED
    BY <2>1, <2>2
<1>7. CASE ctrl0_read_data \/ ep_read_data
  BY <1>1, <1>2, <1>3, <1>7 DEF ctrl0_read_data, ep_read_data
<1>8. CASE ctrl0_write_data \/ ep_write_data
  BY <1>1, <1>2, <1>4, <1>8 DEF ctrl0_write_data, ep_write_data
<1>9. CASE ctrl0_write_status
  <2>1. CASE is_primed(CtrlOut)
    BY <1>9, <2>1, QuietListening DEF ctrl0_write_status
  <2>2. CASE ~is_primed(CtrlOut)
    BY <1>1, <1>9, <2>2, ScheduleListening DEF ctrl0_write_status, clear_complete
  <2>3. QED
    BY <2>1, <2>2
<1>10. CASE ctrl0_read_prime \/ ep_stall_prime
  BY <1>1, <1>6, <1>10 DEF ctrl0_read_prime, ep_stall_prime
<1>11. CASE prime_endpoints
  <2>1. PICK a \in todo :
          /\ todo' = todo \ {a}
          /\ is_enabled(a) => schedule_transfer(a, max_packet_len(a))
    BY <1>11 DEF prime_endpoints
  <2>2. a \in Endpoints /\ is_enabled(a)
    BY DEF TypeOK, DriverTypeOK, NonZero, Quiescent, is_enabled
  <2>3. QED
    BY <1>11, <2>1, <2>2, ScheduleListening DEF prime_endpoints
<1>12. QED
  BY <1>5, <1>6, <1>7, <1>8, <1>9, <1>10, <1>11 DEF CallStep

LEMMA ClassCallListening ==
    ASSUME DeafInv, ClassCall
    PROVE  DeafInv'
<1>1. CASE on_configured
  BY <1>1 DEF on_configured, enable, DeafInv, Listening
<1>2. CASE ~on_configured
  BY <1>2, QuietListening
     DEF ClassCall, ctrl0_read, ctrl0_write, ep_read, ep_write, ep_stall,
         controllerVars, arming, memory, host, hist, locals
<1>3. QED
  BY <1>1, <1>2

\* A configured OUT endpoint never goes deaf.
THEOREM OutNeverDeaf == Spec => []NeverDeaf
<1>1. Init => DeafInv
  BY DEF Init, ControllerInit, DeafInv
<1>2. TypeOK /\ Quiescent /\ DeafInv /\ [Next]_vars => DeafInv'
  <2>1. ASSUME DeafInv, UNCHANGED vars PROVE DeafInv'
    BY <2>1, QuietListening
       DEF vars, driverVars, locals, controllerVars, arming, memory, host, hist
  <2>2. QED
    BY <2>1, PollListening, CallListening, ClassCallListening, EnvironmentListening
       DEF Next
<1>3. DeafInv => NeverDeaf
  BY DEF DeafInv, NeverDeaf, Listening, Owned
<1>4. QED
  BY <1>1, <1>2, <1>3, TypeCorrect, QuiescentAlways, PTL DEF Spec

(***************************************************************************)
(* FailedStaysOut.  An armed transfer is active, so that the host finds    *)
(* nothing at an endpoint that has failed; and of the steps that schedule  *)
(* a transfer on an IN endpoint each is the second half of a write.        *)
(***************************************************************************)
ArmedActive == \A a \in stat : td[a].status = "active"

\* No call makes a descriptor anything but active, or arms one.
LEMMA CallsActivate ==
    ASSUME TypeOK, CallStep \/ ClassCall \/ poll \/ poll_none
    PROVE  /\ stat' = stat
           /\ \A a \in Endpoints : td'[a] = td[a] \/ td'[a].status = "active"
<1> USE DEF controllerVars, arming, memory
<1>1. ASSUME NEW a, NEW size, schedule_transfer(a, size)
      PROVE  \A b \in Endpoints : td'[b] = td[b] \/ td'[b].status = "active"
  BY <1>1 DEF schedule_transfer, TypeOK, ControllerTypeOK
<1>2. ASSUME NEW step, would_block(step) PROVE UNCHANGED <<stat, td>>
  BY <1>2 DEF would_block
<1>3. CASE \/ poll_uri \/ poll_ui \/ poll_erce \/ poll_etce \/ poll_clear \/ poll_setup
           \/ bus_reset \/ bus_reset_flush \/ bus_reset_init
           \/ prime_endpoints_done \/ spin
  BY <1>3
     DEF poll_uri, poll_ui, poll_erce, poll_etce, poll_clear, poll_setup, bus_reset,
         bus_reset_flush, bus_reset_init, prime_endpoints_done, spin
<1>4. CASE \/ read_setup \/ read_setup_arm \/ read_setup_lo \/ read_setup_hi
           \/ read_setup_retry \/ read_setup_done
  BY <1>4 DEF read_setup, read_setup_arm, read_setup_lo, read_setup_hi,
              read_setup_retry, read_setup_done
<1>5. CASE ctrl0_read_prime \/ ctrl0_write_status \/ ep_stall_prime \/ prime_endpoints
  BY <1>1, <1>5 DEF ctrl0_read_prime, ctrl0_write_status, ep_stall_prime,
                    prime_unprimed, prime_endpoints
<1>6. CASE ctrl0_read_data \/ ep_read_data
  BY <1>1, <1>2, <1>6 DEF ctrl0_read_data, ep_read_data, take_packet
<1>7. CASE ctrl0_write_data \/ ep_write_data
  BY <1>1, <1>2, <1>7 DEF ctrl0_write_data, ep_write_data, put_packet
<1>8. CASE ClassCall \/ poll \/ poll_none
  BY <1>8 DEF ClassCall, ctrl0_read, ctrl0_write, ep_read, ep_write, ep_stall,
              on_configured, poll, poll_none, vars
<1>9. QED
  BY <1>3, <1>4, <1>5, <1>6, <1>7, <1>8 DEF CallStep

\* A transfer that ends is no longer armed, and no other changes.
LEMMA RetireDisarms ==
    ASSUME TypeOK, NEW a \in Endpoints, NEW status, NEW total, Retire(a, status, total)
    PROVE  /\ stat' = stat \ {a}
           /\ \A b \in Endpoints \ {a} : td'[b] = td[b]
BY DEF Retire, TypeOK, ControllerTypeOK

\* What the controller and the host do to descriptors.
LEMMA EnvironmentDisarms ==
    ASSUME TypeOK, EnvironmentStep
    PROVE  \/ /\ UNCHANGED <<td, got>>
              /\ \A a \in stat' : a \in stat \/ td[a].status = "active"
           \/ \E a \in stat :
                /\ stat' = stat \ {a}
                /\ \A b \in Endpoints \ {a} : td'[b] = td[b] /\ got'[b] = got[b]
<1>1. CASE FlushDone \/ HostSetup \/ HostReset
  BY <1>1 DEF FlushDone, HostSetup, HostReset, memory, arming, hist
<1>2. ASSUME NEW a \in Endpoints, PrimeDone(a)
      PROVE  UNCHANGED <<td, got>> /\ \A b \in stat' : b \in stat \/ td[b].status = "active"
  BY <1>2 DEF PrimeDone, memory, hist
<1>3. ASSUME NEW a \in Endpoints, NEW status, NEW total, Retire(a, status, total), Open(a),
             \A b \in Endpoints \ {a} : got'[b] = got[b]
      PROVE  \E b \in stat :
               /\ stat' = stat \ {b}
               /\ \A c \in Endpoints \ {b} : td'[c] = td[c] /\ got'[c] = got[c]
  BY <1>3, RetireDisarms DEF Open
<1>4. ASSUME NEW a \in Endpoints, NEW len \in Lengths,
             HostOut(a, len) \/ HostOverrun(a, len)
      PROVE  \E b \in stat :
               /\ stat' = stat \ {b}
               /\ \A c \in Endpoints \ {b} : td'[c] = td[c] /\ got'[c] = got[c]
  BY <1>3, <1>4 DEF HostOut, HostOverrun
<1>5. ASSUME NEW a \in Endpoints, HostIn(a) \/ Fault(a)
      PROVE  \E b \in stat :
               /\ stat' = stat \ {b}
               /\ \A c \in Endpoints \ {b} : td'[c] = td[c] /\ got'[c] = got[c]
  BY <1>3, <1>5 DEF HostIn, Fault, TypeOK, ControllerTypeOK
<1>6. QED
  BY <1>1, <1>2, <1>4, <1>5 DEF EnvironmentStep, ControllerStep, HostStep

LEMMA ArmedActiveStep == TypeOK /\ ArmedActive /\ [Next]_vars => ArmedActive'
<1> SUFFICES ASSUME TypeOK, ArmedActive, [Next]_vars PROVE ArmedActive'
  OBVIOUS
<1>1. stat \subseteq Endpoints
  BY DEF TypeOK, ControllerTypeOK
<1>2. CASE UNCHANGED vars
  BY <1>2 DEF vars, controllerVars, arming, memory, ArmedActive
<1>3. CASE CallStep \/ ClassCall \/ poll \/ poll_none
  BY <1>1, <1>3, CallsActivate DEF ArmedActive
<1>4. CASE EnvironmentStep
  BY <1>1, <1>4, EnvironmentDisarms DEF ArmedActive
<1>5. QED
  BY <1>2, <1>3, <1>4 DEF Next

LEMMA ArmedActiveAlways == Spec => []ArmedActive
<1>1. Init => ArmedActive
  BY DEF Init, ControllerInit, ArmedActive
<1>2. QED
  BY <1>1, ArmedActiveStep, TypeCorrect, PTL DEF Spec

\* What ep_read, ep_write and ep_stall checked of their endpoint still holds
\* when they go on.
CallOK ==
    /\ pc = "ep_read" => call.ep \in OutEps \cap NonZero
    /\ pc = "ep_write" => call.ep \in InEps \cap NonZero
    /\ pc = "ep_stall" => call.ep \in OutEps \cap StallEps

LEMMA CallOKStep == CallOK /\ [Next]_vars => CallOK'
<1> SUFFICES ASSUME CallOK, [Next]_vars PROVE CallOK'
  OBVIOUS
<1> DEFINE Later == {"ep_read", "ep_write", "ep_stall"}
<1>1. CASE UNCHANGED <<pc, call>>
  BY <1>1 DEF CallOK
<1>2. CASE pc' \notin Later
  BY <1>2 DEF CallOK
<1>3. CASE ClassCall
  BY <1>3 DEF ClassCall, ctrl0_read, ctrl0_write, ep_read, ep_write, ep_stall,
              on_configured, Begin, CallOK, InEps, OutEps
<1>4. CASE UNCHANGED vars \/ poll_none \/ EnvironmentStep
  BY <1>1, <1>4 DEF vars, driverVars, poll_none, EnvironmentStep
<1>5. CASE poll
  BY <1>2, <1>5 DEF poll, Begin
<1>6. CASE \/ poll_uri \/ poll_ui \/ poll_erce \/ poll_etce \/ poll_clear \/ poll_setup
           \/ bus_reset \/ bus_reset_flush \/ bus_reset_init
           \/ read_setup \/ read_setup_arm \/ read_setup_lo \/ read_setup_hi
           \/ read_setup_retry \/ read_setup_done
  BY <1>2, <1>6
     DEF poll_uri, poll_ui, poll_erce, poll_etce, poll_clear, poll_setup, bus_reset,
         bus_reset_flush, bus_reset_init, read_setup, read_setup_arm, read_setup_lo,
         read_setup_hi, read_setup_retry, read_setup_done, Goto, Finish
<1>7. CASE \/ ctrl0_read_prime \/ ctrl0_write_status \/ ep_stall_prime
           \/ prime_endpoints_done
  BY <1>2, <1>7 DEF ctrl0_read_prime, ctrl0_write_status, ep_stall_prime, prime_unprimed,
                    prime_endpoints_done, Finish
<1>8. CASE ctrl0_read_data \/ ctrl0_write_data \/ ep_read_data \/ ep_write_data
  BY <1>2, <1>8 DEF ctrl0_read_data, ctrl0_write_data, ep_read_data, ep_write_data,
                    would_block, take_packet, put_packet, Finish
<1>9. CASE prime_endpoints
  BY <1>1, <1>2, <1>9 DEF prime_endpoints, Goto
<1>10. CASE spin
  BY <1>2, <1>10 DEF spin, Goto, AfterSpin, SpinSteps
<1> QED
  BY <1>3, <1>4, <1>5, <1>6, <1>7, <1>8, <1>9, <1>10 DEF Next, CallStep

LEMMA CallOKAlways == Spec => []CallOK
<1>1. Init => CallOK
  BY DEF Init, DriverInit, CallOK
<1> QED
  BY <1>1, CallOKStep, PTL DEF Spec

\* A call begins a write only where it finds no failure, and schedules a transfer
\* on an IN endpoint only in a write.
LEMMA CallsLeaveFailed ==
    ASSUME TypeOK, CallOK, CallStep \/ ClassCall \/ poll \/ poll_none,
           NEW a \in InEps \cap NonZero, Failed(a)
    PROVE  Failed(a)' /\ got'[a] = got[a]
<1> USE DEF controllerVars, arming, memory, hist
<1>1. /\ a \in Endpoints /\ a \notin {CtrlOut, CtrlIn} /\ a \notin OutEps
      /\ td \in [Endpoints -> TransferDescriptor] /\ got \in [Endpoints -> Receipt]
  BY DEF InEps, OutEps, NonZero, CtrlOut, CtrlIn, TypeOK, ControllerTypeOK
<1>2. ASSUME td'[a] = td[a], got'[a] = got[a], pc' # "ep_write"
      PROVE  Failed(a)' /\ got'[a] = got[a]
  BY <1>2 DEF Failed, WritePastCheck
<1>3. ASSUME NEW b \in Endpoints \ {a}, NEW size, schedule_transfer(b, size)
      PROVE  td'[a] = td[a]
  BY <1>1, <1>3 DEF schedule_transfer
<1>4. ASSUME NEW step, would_block(step)
      PROVE  UNCHANGED <<td, got>> /\ pc' = "idle"
  BY <1>4 DEF would_block, Finish
<1>5. ASSUME NEW step, NEW b \in Endpoints \ {a}, NEW len, take_packet(step, b, len)
      PROVE  td'[a] = td[a] /\ got'[a] = got[a] /\ pc' = "spin"
  BY <1>1, <1>3, <1>5 DEF take_packet, read, Finish
<1>6. ASSUME NEW step, NEW b \in Endpoints \ {a}, NEW len,
             NEW next \in {"spin", "spin_status"}, put_packet(step, b, len, next)
      PROVE  td'[a] = td[a] /\ got'[a] = got[a] /\ pc' = next
  BY <1>3, <1>6 DEF put_packet, Finish
<1>7. CASE \/ poll_uri \/ poll_ui \/ poll_erce \/ poll_etce \/ poll_clear \/ poll_setup
           \/ bus_reset \/ bus_reset_flush \/ bus_reset_init \/ prime_endpoints_done
  BY <1>2, <1>7
     DEF poll_uri, poll_ui, poll_erce, poll_etce, poll_clear, poll_setup, bus_reset,
         bus_reset_flush, bus_reset_init, prime_endpoints_done, Goto, Finish
<1>8. CASE \/ read_setup \/ read_setup_arm \/ read_setup_lo \/ read_setup_hi
           \/ read_setup_retry \/ read_setup_done
  BY <1>2, <1>8 DEF read_setup, read_setup_arm, read_setup_lo, read_setup_hi,
                    read_setup_retry, read_setup_done, Goto, Finish
<1>9. CASE spin
  BY <1>2, <1>9 DEF spin, Goto, AfterSpin, SpinSteps
<1>10. CASE ctrl0_read_prime \/ ctrl0_write_status
  <2>1. td'[a] = td[a]
    BY <1>1, <1>3, <1>10, EndpointsAssumption
       DEF ctrl0_read_prime, prime_unprimed, ctrl0_write_status
  <2>2. got'[a] = got[a] /\ pc' # "ep_write"
    BY <1>10 DEF ctrl0_read_prime, prime_unprimed, ctrl0_write_status, Finish
  <2>3. QED
    BY <1>2, <2>1, <2>2
<1>11. CASE ctrl0_read_data
  BY <1>1, <1>2, <1>4, <1>5, <1>11, EndpointsAssumption DEF ctrl0_read_data
<1>12. CASE ep_read_data
  <2>1. CASE would_block("ep_read")
    BY <1>2, <1>4, <2>1
  <2>2. CASE call.ep \in ep_out /\ take_packet("ep_read", call.ep, call.len)
    <3>1. call.ep \in Endpoints \ {a}
      BY <1>1, <2>2 DEF TypeOK, DriverTypeOK, OutEps
    <3>2. QED
      BY <1>2, <1>5, <2>2, <3>1
  <2>3. QED
    BY <1>12, <2>1, <2>2 DEF ep_read_data
<1>13. CASE ctrl0_write_data
  <2>1. CASE would_block("ctrl0_write")
    BY <1>2, <1>4, <2>1
  <2>2. CASE put_packet("ctrl0_write", CtrlIn, call.len, "spin_status")
    <3>1. CtrlIn \in Endpoints \ {a}
      BY <1>1, EndpointsAssumption
    <3>2. QED
      BY <1>2, <1>6, <2>2, <3>1
  <2>3. QED
    BY <1>13, <2>1, <2>2 DEF ctrl0_write_data
<1>14. CASE ep_write_data
  <2>1. CASE would_block("ep_write")
    BY <1>2, <1>4, <2>1
  <2>2. CASE put_packet("ep_write", call.ep, call.len, "spin")
    <3>1. pc = "ep_write"
      BY <2>2 DEF put_packet
    <3>2. call.ep \in Endpoints \ {a}
      BY <3>1 DEF Failed, WritePastCheck, TypeOK, DriverTypeOK
    <3>3. QED
      BY <1>2, <1>6, <2>2, <3>2
  <2>3. QED
    BY <1>14, <2>1, <2>2 DEF ep_write_data
<1>15. CASE ep_stall_prime
  <2>1. got'[a] = got[a] /\ pc' # "ep_write"
    BY <1>15 DEF ep_stall_prime, prime_unprimed, Finish
  <2>2. td'[a] = td[a]
    <3>1. call.ep \in Endpoints \ {a}
      BY <1>1, <1>15 DEF ep_stall_prime, prime_unprimed, CallOK, OutEps
    <3>2. QED
      BY <1>3, <1>15, <3>1 DEF ep_stall_prime, prime_unprimed
  <2>3. QED
    BY <1>2, <2>1, <2>2
<1>16. CASE prime_endpoints
  <2>1. got'[a] = got[a] /\ pc' # "ep_write"
    BY <1>16 DEF prime_endpoints, Goto
  <2>2. \A b \in todo : b \in Endpoints \ {a}
    BY <1>1 DEF TypeOK, DriverTypeOK, NonZero
  <2>3. td'[a] = td[a]
    BY <1>3, <1>16, <2>2 DEF prime_endpoints
  <2>4. QED
    BY <1>2, <2>1, <2>3
<1>17. CASE ClassCall
  <2>1. UNCHANGED <<td, got>>
    BY <1>17 DEF ClassCall, ctrl0_read, ctrl0_write, ep_read, ep_write, ep_stall,
                 on_configured
  <2>2. ~WritePastCheck(a)'
    BY <1>17 DEF ClassCall, ctrl0_read, ctrl0_write, ep_read, ep_write, ep_stall,
                 on_configured, Begin, check_errors, Failed, WritePastCheck
  <2>3. QED
    BY <2>1, <2>2 DEF Failed
<1>18. CASE poll \/ poll_none
  <2>1. UNCHANGED <<td, got>> /\ ~WritePastCheck(a)'
    BY <1>18 DEF poll, poll_none, vars, driverVars, Begin, Failed, WritePastCheck
  <2>2. QED
    BY <2>1 DEF Failed
<1>19. QED
  BY <1>7, <1>8, <1>9, <1>10, <1>11, <1>12, <1>13, <1>14, <1>15, <1>16, <1>17, <1>18
     DEF CallStep

(***************************************************************************)
(* An IN endpoint whose transfer failed with no write past its check sends *)
(* nothing more in its session: no call re-arms it over the failure.       *)
(***************************************************************************)
THEOREM FailedSendNothing == Spec => FailedStaysOut
<1>1. TypeOK /\ ArmedActive /\ CallOK /\ [Next]_vars =>
        [\A a \in InEps \cap NonZero :
           Failed(a) => got'[a] = got[a] /\ (Failed(a)' \/ Renews)]_vars
  <2> SUFFICES ASSUME TypeOK, ArmedActive, CallOK, Next,
                      NEW a \in InEps \cap NonZero, Failed(a)
               PROVE  Failed(a)' /\ got'[a] = got[a]
    OBVIOUS
  <2>1. CASE EnvironmentStep
    <3>1. a \in Endpoints /\ a \notin stat
      BY DEF InEps, ArmedActive, Failed
    <3>2. td'[a] = td[a] /\ got'[a] = got[a]
      BY <2>1, <3>1, EnvironmentDisarms
    <3>3. UNCHANGED <<pc, call>>
      BY <2>1 DEF EnvironmentStep, driverVars
    <3>4. QED
      BY <3>2, <3>3 DEF Failed, WritePastCheck
  <2>2. QED
    BY <2>1, CallsLeaveFailed DEF Next
<1>2. QED
  BY <1>1, ArmedActiveAlways, CallOKAlways, TypeCorrect, PTL DEF Spec, FailedStaysOut
=============================================================================
