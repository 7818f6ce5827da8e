------------------------------ MODULE DriverPipes ------------------------------
(***************************************************************************)
(* Proofs that the endpoints, EP0 OUT aside, are the pipes of PacketPipe,  *)
(* and that a bus reset leaves nothing of the old session in them.         *)
(***************************************************************************)
EXTENDS DriverOwnership

\* The pipes: the non-zero endpoints and EP0 IN, and so all that send.
LEMMA PipesAre ==
    /\ PipeEps \subseteq Endpoints /\ NonZero \subseteq PipeEps
    /\ CtrlIn \in PipeEps /\ CtrlOut \notin PipeEps
    /\ CtrlIn \in InEps /\ InEps \subseteq PipeEps
    /\ PipeEps \cap OutEps \subseteq NonZero
    /\ PipeEps \subseteq InEps \cup OutEps
BY EndpointsAssumption DEF PipeEps, NonZero, InEps, OutEps, CtrlIn, CtrlOut

(***************************************************************************)
(* What a step does to one endpoint.  Each step works on one endpoint at   *)
(* most and leaves every other the Same: poll() and the resets only forget *)
(* completions.                                                            *)
(***************************************************************************)
Told(a) == a \in complete \cup ep_out

Same(a) ==
    /\ td'[a] = td[a] /\ buffer'[a] = buffer[a]
    /\ sent'[a] = sent[a] /\ got'[a] = got[a] /\ before'[a] = before[a]
    /\ a \in stat' <=> a \in stat
    /\ a \in prime' <=> a \in prime
    /\ Told(a)' => Told(a)

SameBut(a) == \A b \in PipeEps \ {a} : Same(b)
Quiet == \A a \in PipeEps : Same(a)

\* ep_read past its guards, both writes past theirs, and the two ways to arm an
\* OUT endpoint anew: unstalling it, and configure().
Reading(a) ==
    /\ a \in OutEps /\ a = call.ep
    /\ a \notin stat /\ a \in ep_out
    /\ prime = {} /\ todo = {}
    /\ take_packet("ep_read", a, call.len)

Writing(a) ==
    /\ a \in InEps
    /\ a \notin stat /\ prime = {}
    /\ \E step, next : put_packet(step, a, call.len, next)

Arming(a) ==
    /\ a \in OutEps
    /\ schedule_transfer(a, MaxPacketLen[a])
    /\ (pc = "ep_stall" /\ a = call.ep /\ a \in StallEps) \/ a \in todo
    /\ todo' \subseteq todo \ {a}
    /\ UNCHANGED <<stat, complete, buffer, sent, got, host, ep_out>>

Stepped(a) ==
    /\ SameBut(a)
    /\ \/ /\ UNCHANGED driverVars
          /\ \/ \E len \in Lengths : HostOut(a, len) \/ HostOverrun(a, len)
             \/ HostIn(a) \/ Fault(a) \/ PrimeDone(a)
       \/ Reading(a) \/ Writing(a) \/ Arming(a)

(***************************************************************************)
(* Every step is Quiet, ends a flush or a reset, or works on one endpoint. *)
(***************************************************************************)
LEMMA QuietStep ==
    ASSUME UNCHANGED <<td, buffer, sent, got, before, stat, prime>>,
           complete' \subseteq complete, ep_out' \subseteq complete \cup ep_out
    PROVE  Quiet
BY DEF Quiet, Same, Told

\* Scheduling a transfer on an endpoint changes no other.
LEMMA ScheduleOthers ==
    ASSUME TypeOK, NEW a, NEW size, schedule_transfer(a, size), NEW b \in Endpoints \ {a}
    PROVE  td'[b] = td[b] /\ (b \in prime' <=> b \in prime)
BY DEF schedule_transfer, TypeOK, ControllerTypeOK

LEMMA TakeOthers ==
    ASSUME TypeOK, NEW step, NEW a, NEW len, take_packet(step, a, len)
    PROVE  SameBut(a)
<1> SUFFICES ASSUME NEW b \in PipeEps \ {a} PROVE Same(b)
  BY DEF SameBut
<1>1. b \in Endpoints \ {a}
  BY PipesAre
<1>2. td'[b] = td[b] /\ (b \in prime' <=> b \in prime)
  BY <1>1, ScheduleOthers DEF take_packet
<1>3. got'[b] = got[b]
  BY <1>1 DEF take_packet, read, TypeOK, ControllerTypeOK
<1> QED
  BY <1>2, <1>3 DEF take_packet, clear_complete, host, Same, Told

LEMMA PutOthers ==
    ASSUME TypeOK, NEW step, NEW a, NEW len, NEW next, put_packet(step, a, len, next)
    PROVE  SameBut(a)
<1> SUFFICES ASSUME NEW b \in PipeEps \ {a} PROVE Same(b)
  BY DEF SameBut
<1>1. b \in Endpoints \ {a}
  BY PipesAre
<1>2. td'[b] = td[b] /\ (b \in prime' <=> b \in prime)
  BY <1>1, ScheduleOthers DEF put_packet
<1>3. buffer'[b] = buffer[b] /\ sent'[b] = sent[b]
  BY <1>1 DEF put_packet, write, TypeOK, ControllerTypeOK
<1> QED
  BY <1>2, <1>3 DEF put_packet, host, Same, Told

\* So does scheduling without a packet.
LEMMA ArmOthers ==
    ASSUME TypeOK, NEW a, NEW size, schedule_transfer(a, size),
           UNCHANGED <<buffer, sent, got, before, stat, ep_out>>,
           complete' \subseteq complete
    PROVE  SameBut(a)
<1> SUFFICES ASSUME NEW b \in PipeEps \ {a} PROVE Same(b)
  BY DEF SameBut
<1>1. b \in Endpoints \ {a}
  BY PipesAre
<1>2. td'[b] = td[b] /\ (b \in prime' <=> b \in prime)
  BY <1>1, ScheduleOthers
<1> QED
  BY <1>2 DEF Same, Told

\* And a transaction with the host, or the controller's taking of a request.
LEMMA RetireOthers ==
    ASSUME TypeOK, NEW a, NEW status, NEW total, Retire(a, status, total),
           UNCHANGED driverVars,
           \A b \in Endpoints \ {a} :
              buffer'[b] = buffer[b] /\ sent'[b] = sent[b] /\ got'[b] = got[b]
    PROVE  SameBut(a)
<1> SUFFICES ASSUME NEW b \in PipeEps \ {a} PROVE Same(b)
  BY DEF SameBut
<1>1. b \in Endpoints \ {a}
  BY PipesAre
<1>2. td'[b] = td[b]
  BY <1>1 DEF Retire, TypeOK, ControllerTypeOK
<1> QED
  BY <1>1, <1>2 DEF Retire, driverVars, Same, Told

LEMMA QuietUnlessPipe ==
    ASSUME NEW a, a \notin PipeEps, SameBut(a)
    PROVE  Quiet
BY DEF SameBut, Quiet

LEMMA EnvironmentSteps ==
    ASSUME TypeOK, EnvironmentStep
    PROVE  Quiet \/ FlushDone \/ \E a \in PipeEps : Stepped(a)
<1>1. UNCHANGED driverVars
  BY DEF EnvironmentStep
<1>2. ASSUME NEW a \in Endpoints, SameBut(a),
             \/ \E len \in Lengths : HostOut(a, len) \/ HostOverrun(a, len)
             \/ HostIn(a) \/ Fault(a) \/ PrimeDone(a)
      PROVE  Quiet \/ \E b \in PipeEps : Stepped(b)
  BY <1>1, <1>2, QuietUnlessPipe DEF Stepped
<1>3. ASSUME NEW a \in Endpoints, NEW len \in Lengths, HostOut(a, len)
      PROVE  SameBut(a)
  BY <1>1, <1>3, RetireOthers DEF HostOut, TypeOK, ControllerTypeOK
<1>4. ASSUME NEW a \in Endpoints, NEW len \in Lengths, HostOverrun(a, len)
      PROVE  SameBut(a)
  BY <1>1, <1>4, RetireOthers DEF HostOverrun, TypeOK, ControllerTypeOK
<1>5. ASSUME NEW a \in Endpoints, HostIn(a) PROVE SameBut(a)
  BY <1>1, <1>5, RetireOthers DEF HostIn, TypeOK, ControllerTypeOK
<1>6. ASSUME NEW a \in Endpoints, Fault(a) PROVE SameBut(a)
  BY <1>1, <1>6, RetireOthers DEF Fault, TypeOK, ControllerTypeOK
<1>7. ASSUME NEW a \in Endpoints, PrimeDone(a) PROVE SameBut(a)
  BY <1>1, <1>7 DEF PrimeDone, memory, host, hist, driverVars, SameBut, Same, Told
<1>8. CASE HostSetup \/ HostReset
  BY <1>1, <1>8, QuietStep
     DEF HostSetup, HostReset, arming, memory, host, hist, driverVars
<1> QED
  BY <1>2, <1>3, <1>4, <1>5, <1>6, <1>7, <1>8
     DEF EnvironmentStep, ControllerStep, HostStep

LEMMA CallSteps ==
    ASSUME TypeOK, Quiescent, CallOK, CallStep
    PROVE  Quiet \/ bus_reset_init \/ \E a \in PipeEps : Stepped(a)
<1>1. CtrlOut \notin PipeEps /\ CtrlIn \in PipeEps /\ CtrlIn \in InEps
  BY PipesAre
<1>2. ASSUME NEW step, would_block(step) PROVE Quiet
  BY <1>2, QuietStep DEF would_block, controllerVars, memory, hist, host, arming
<1>3. CASE \/ poll_uri \/ poll_ui \/ poll_erce \/ poll_etce \/ poll_clear \/ poll_setup
           \/ bus_reset \/ bus_reset_flush
  BY <1>3, QuietStep
     DEF poll_uri, poll_ui, poll_erce, poll_etce, poll_clear, poll_setup, bus_reset,
         bus_reset_flush, controllerVars, memory, hist, host, arming
<1>4. CASE \/ read_setup \/ read_setup_arm \/ read_setup_lo \/ read_setup_hi
           \/ read_setup_retry \/ read_setup_done \/ prime_endpoints_done \/ spin
  BY <1>4, QuietStep
     DEF read_setup, read_setup_arm, read_setup_lo, read_setup_hi, read_setup_retry,
         read_setup_done, prime_endpoints_done, spin, controllerVars, memory, hist, host, arming
<1>5. CASE ctrl0_read_prime \/ ctrl0_write_status
  <2> USE DEF ctrl0_read_prime, prime_unprimed, ctrl0_write_status
  <2>1. CASE UNCHANGED <<td, prime, complete>>
    BY <1>5, <2>1, QuietStep DEF hist, host
  <2>2. CASE \E size : schedule_transfer(CtrlOut, size)
    BY <1>1, <1>5, <2>2, ArmOthers, QuietUnlessPipe DEF clear_complete, hist, host
  <2> QED
    BY <1>5, <2>1, <2>2
<1>6. CASE ctrl0_read_data
  BY <1>1, <1>2, <1>6, TakeOthers, QuietUnlessPipe DEF ctrl0_read_data
<1>7. CASE ctrl0_write_data
  <2>1. CASE put_packet("ctrl0_write", CtrlIn, call.len, "spin_status")
             /\ ~is_primed(CtrlIn)
    <3>1. Writing(CtrlIn)
      BY <1>1, <2>1 DEF put_packet, Quiescent, SpinSteps, Writing, is_primed
    <3> QED
      BY <1>1, <2>1, <3>1, PutOthers DEF Stepped
  <2> QED
    BY <1>2, <1>7, <2>1 DEF ctrl0_write_data
<1>8. CASE ep_read_data
  <2>1. CASE take_packet("ep_read", call.ep, call.len) /\ ~is_primed(call.ep)
                                                       /\ call.ep \in ep_out
    <3>1. Reading(call.ep) /\ call.ep \in PipeEps
      BY <2>1, PipesAre
         DEF take_packet, CallOK, Quiescent, SpinSteps, Reading, is_primed
    <3> QED
      BY <2>1, <3>1, TakeOthers DEF Stepped
  <2> QED
    BY <1>2, <1>8, <2>1 DEF ep_read_data
<1>9. CASE ep_write_data
  <2>1. CASE put_packet("ep_write", call.ep, call.len, "spin") /\ ~is_primed(call.ep)
    <3>1. Writing(call.ep) /\ call.ep \in PipeEps
      BY <2>1, PipesAre
         DEF put_packet, CallOK, Quiescent, SpinSteps, Writing, is_primed
    <3> QED
      BY <2>1, <3>1, PutOthers DEF Stepped
  <2> QED
    BY <1>2, <1>9, <2>1 DEF ep_write_data
<1>10. CASE ep_stall_prime
  <2> USE DEF ep_stall_prime, prime_unprimed
  <2>1. CASE UNCHANGED <<td, prime>>
    BY <1>10, <2>1, QuietStep DEF hist, host
  <2>2. CASE schedule_transfer(call.ep, max_packet_len(call.ep))
    <3>1. SameBut(call.ep)
      BY <1>10, <2>2, ArmOthers DEF hist, host
    <3>2. call.ep \in StallEps /\ call.ep \in OutEps /\ call.ep \notin todo
      BY <1>10, <2>2 DEF CallOK, TypeOK, DriverTypeOK, Quiescent
    <3>3. Arming(call.ep)
      BY <1>10, <2>2, <3>2 DEF Arming, max_packet_len, locals, hist, host
    <3> QED
      BY <3>1, <3>3, QuietUnlessPipe DEF Stepped
  <2> QED
    BY <1>10, <2>1, <2>2
<1>11. CASE prime_endpoints
  <2>1. PICK a \in todo :
          /\ todo' = todo \ {a}
          /\ IF is_enabled(a) THEN schedule_transfer(a, max_packet_len(a))
                              ELSE UNCHANGED <<td, prime>>
    BY <1>11 DEF prime_endpoints
  <2>2. a \in OutEps /\ a \in PipeEps
    BY PipesAre DEF TypeOK, DriverTypeOK
  <2>3. CASE UNCHANGED <<td, prime>>
    BY <1>11, <2>3, QuietStep DEF prime_endpoints, hist, host
  <2>4. CASE schedule_transfer(a, max_packet_len(a))
    <3>1. SameBut(a)
      BY <1>11, <2>4, ArmOthers DEF prime_endpoints, hist, host
    <3>2. Arming(a)
      BY <1>11, <2>1, <2>2, <2>4
         DEF prime_endpoints, Arming, max_packet_len, hist, host
    <3> QED
      BY <2>2, <3>1, <3>2 DEF Stepped
  <2> QED
    BY <2>1, <2>3, <2>4
<1> QED
  BY <1>3, <1>4, <1>5, <1>6, <1>7, <1>8, <1>9, <1>10, <1>11 DEF CallStep

LEMMA AllSteps ==
    ASSUME TypeOK, Quiescent, CallOK, [Next]_vars
    PROVE  Quiet \/ FlushDone \/ bus_reset_init \/ \E a \in PipeEps : Stepped(a)
<1>1. CASE UNCHANGED vars \/ poll \/ poll_none
  BY <1>1, QuietStep
     DEF vars, driverVars, controllerVars, memory, hist, host, arming, poll, poll_none
<1>2. CASE ClassCall
  BY <1>2, QuietStep
     DEF ClassCall, ctrl0_read, ctrl0_write, ep_read, ep_write, ep_stall, on_configured,
         controllerVars, memory, hist, host, arming
<1> QED
  BY <1>1, <1>2, CallSteps, EnvironmentSteps DEF Next

(***************************************************************************)
(* A bus reset.  While bus_reset goes on the session is over, so that no   *)
(* transfer ends on a non-zero endpoint after ENDPTCOMPLETE is cleared;    *)
(* and no prime request is pending, so that nothing is armed again after   *)
(* the flush.                                                              *)
(***************************************************************************)
ResetInv ==
    /\ "URI" \in usbsts \/ pc \in ResetSteps => resets > 0
    /\ pc \in {"reset_flush", "reset_init"} => complete \cap NonZero = {}
    /\ pc = "reset_init" /\ ~flush => stat = {}

LEMMA EnvironmentReset ==
    ASSUME TypeOK, Quiescent, ResetInv, EnvironmentStep
    PROVE  ResetInv'
<1> USE DEF ResetInv
<1>1. UNCHANGED pc
  BY DEF EnvironmentStep, driverVars
<1>2. CASE FlushDone
  BY <1>1, <1>2 DEF FlushDone, host
<1>3. ASSUME NEW a \in Endpoints, PrimeDone(a) PROVE ResetInv'
  <2>1. pc \in SpinSteps
    BY <1>3 DEF PrimeDone, Quiescent
  <2> QED
    BY <1>1, <1>3, <2>1 DEF PrimeDone, host, SpinSteps, ResetSteps
<1>4. ASSUME NEW a \in Endpoints, Open(a), NEW status, NEW total,
             Retire(a, status, total)
      PROVE  ResetInv'
  <2>1. pc \in ResetSteps => a \notin NonZero
    BY <1>4 DEF Open, Quiescent
  <2> QED
    BY <1>1, <1>4, <2>1 DEF Retire, ResetSteps
<1>5. ASSUME NEW a \in Endpoints, NEW len \in Lengths,
             HostOut(a, len) \/ HostOverrun(a, len)
      PROVE  ResetInv'
  BY <1>4, <1>5 DEF HostOut, HostOverrun
<1>6. ASSUME NEW a \in Endpoints, HostIn(a) \/ Fault(a) PROVE ResetInv'
  BY <1>4, <1>6 DEF HostIn, Fault
<1>7. CASE HostSetup
  BY <1>1, <1>7 DEF HostSetup, arming, host
<1>8. CASE HostReset
  BY <1>1, <1>8 DEF HostReset, arming, TypeOK, ControllerTypeOK
<1> QED
  BY <1>2, <1>3, <1>5, <1>6, <1>7, <1>8 DEF EnvironmentStep, ControllerStep, HostStep

\* Elsewhere the driver neither raises URI nor takes a step of a reset.
LEMMA QuietReset ==
    ASSUME ResetInv, pc' \notin ResetSteps, usbsts' \subseteq usbsts, resets' = resets
    PROVE  ResetInv'
BY DEF ResetInv, ResetSteps

LEMMA ResetInvStep == TypeOK /\ Quiescent /\ ResetInv /\ [Next]_vars => ResetInv'
<1> SUFFICES ASSUME TypeOK, Quiescent, ResetInv, [Next]_vars PROVE ResetInv'
  OBVIOUS
<1>1. CASE UNCHANGED vars \/ poll_none
  BY <1>1 DEF vars, driverVars, controllerVars, arming, host, poll_none, ResetInv
<1>2. CASE \/ poll \/ poll_uri \/ poll_ui \/ poll_erce \/ poll_etce \/ poll_clear
           \/ poll_setup
  BY <1>2 DEF poll, poll_uri, poll_ui, poll_erce, poll_etce, poll_clear, poll_setup,
              Begin, Goto, Finish, controllerVars, arming, host, ResetInv, ResetSteps
<1>3. CASE bus_reset \/ bus_reset_flush \/ bus_reset_init
  BY <1>3 DEF bus_reset, bus_reset_flush, bus_reset_init, Goto, Finish, arming, host,
              ResetInv, ResetSteps
<1>4. CASE ClassCall
  BY <1>4, QuietReset
     DEF ClassCall, ctrl0_read, ctrl0_write, ep_read, ep_write, ep_stall,
         on_configured, Begin, controllerVars, host, ResetSteps
<1>5. CASE \/ read_setup \/ read_setup_arm \/ read_setup_lo \/ read_setup_hi
           \/ read_setup_retry \/ read_setup_done
  BY <1>5, QuietReset
     DEF read_setup, read_setup_arm, read_setup_lo, read_setup_hi, read_setup_retry,
         read_setup_done, Goto, Finish, controllerVars, host, ResetSteps
<1>6. CASE \/ ctrl0_read_data \/ ctrl0_write_data \/ ctrl0_write_status
           \/ ep_read_data \/ ep_write_data \/ ctrl0_read_prime \/ ep_stall_prime
  BY <1>6, QuietReset
     DEF ctrl0_read_data, ctrl0_write_data, ctrl0_write_status, ep_read_data,
         ep_write_data, ctrl0_read_prime, ep_stall_prime, prime_unprimed, would_block,
         take_packet, put_packet, Finish, controllerVars, host, ResetSteps
<1>7. CASE prime_endpoints \/ prime_endpoints_done
  BY <1>7, QuietReset
     DEF prime_endpoints, prime_endpoints_done, Goto, Finish, controllerVars, host,
         ResetSteps
<1>8. CASE spin
  <2>1. AfterSpin(pc) \in {"idle", "ctrl0_status", "prime_endpoints"}
    BY <1>8 DEF spin, SpinSteps, AfterSpin
  <2> QED
    BY <1>8, <2>1, QuietReset DEF spin, Goto, controllerVars, host, ResetSteps
<1> QED
  BY <1>1, <1>2, <1>3, <1>4, <1>5, <1>6, <1>7, <1>8, EnvironmentReset
     DEF Next, CallStep

LEMMA ResetInvAlways == Spec => []ResetInv
<1>1. Init => ResetInv
  BY DEF Init, ControllerInit, DriverInit, ResetInv, ResetSteps
<1> QED
  BY <1>1, ResetInvStep, TypeCorrect, QuiescentAlways, PTL DEF Spec

(***************************************************************************)
(* When bus_reset re-initialises the endpoints nothing of the old session  *)
(* is armed, being primed or pending.                                      *)
(***************************************************************************)
THEOREM ResetLeavesNothing == Spec => []ResetQuiesces
<1>1. Quiescent /\ ResetInv => ResetQuiesces
  BY DEF Quiescent, ResetInv, ResetQuiesces, SpinSteps
<1> QED
  BY <1>1, QuiescentAlways, ResetInvAlways, PTL

(***************************************************************************)
(* What a step leaves behind of the time before the first trouble and the  *)
(* first configuration: nothing brings either back.                        *)
(***************************************************************************)
Calm == resets = 0 /\ faults = 0
New(a) == Calm /\ (session = "off" \/ a \in todo)

Configuring == todo # {} => session # "off"

LEMMA CalmStep ==
    ASSUME TypeOK, Quiescent, ResetInv, Configuring, [Next]_vars
    PROVE  /\ Calm' => Calm
           /\ \A a \in PipeEps : New(a)' => New(a)
           /\ Configuring'
<1> USE DEF Calm, New, Configuring
<1>1. CASE UNCHANGED <<resets, faults, session>> /\ todo' \subseteq todo
  BY <1>1
<1>2. CASE UNCHANGED vars \/ poll_none \/ poll
  BY <1>1, <1>2 DEF vars, driverVars, controllerVars, host, locals, poll_none, poll
<1>3. CASE on_configured
  BY <1>3 DEF on_configured
<1>4. CASE ClassCall /\ ~on_configured
  BY <1>1, <1>4 DEF ClassCall, ctrl0_read, ctrl0_write, ep_read, ep_write, ep_stall,
                    controllerVars, host, locals
<1>5. CASE \/ poll_uri \/ poll_ui \/ poll_erce \/ poll_etce \/ poll_clear \/ poll_setup
           \/ bus_reset \/ bus_reset_flush
  BY <1>1, <1>5
     DEF poll_uri, poll_ui, poll_erce, poll_etce, poll_clear, poll_setup, bus_reset,
         bus_reset_flush, controllerVars, host, locals
<1>6. CASE bus_reset_init
  BY <1>6 DEF bus_reset_init, ResetInv, ResetSteps, Quiescent, locals,
              TypeOK, ControllerTypeOK
<1>7. CASE \/ read_setup \/ read_setup_arm \/ read_setup_lo \/ read_setup_hi
           \/ read_setup_retry \/ read_setup_done
  BY <1>1, <1>7
     DEF read_setup, read_setup_arm, read_setup_lo, read_setup_hi, read_setup_retry,
         read_setup_done, controllerVars, host, locals
<1>8. CASE \/ ctrl0_read_data \/ ctrl0_write_data \/ ctrl0_write_status
           \/ ep_read_data \/ ep_write_data \/ ctrl0_read_prime \/ ep_stall_prime
  BY <1>1, <1>8
     DEF ctrl0_read_data, ctrl0_write_data, ctrl0_write_status, ep_read_data,
         ep_write_data, ctrl0_read_prime, ep_stall_prime, prime_unprimed, would_block,
         take_packet, put_packet, controllerVars, host, locals
<1>9. CASE prime_endpoints \/ prime_endpoints_done \/ spin
  BY <1>1, <1>9 DEF prime_endpoints, prime_endpoints_done, spin, controllerVars, host,
                    locals
<1>10. CASE EnvironmentStep
  <2>1. todo' = todo
    BY <1>10 DEF EnvironmentStep, driverVars, locals
  <2>2. /\ session' = session \/ (session = "on" /\ session' = "lost")
        /\ resets' = 0 => resets = 0
        /\ faults' = 0 => faults = 0
    <3>1. CASE FlushDone \/ \E a \in Endpoints : PrimeDone(a)
      BY <3>1 DEF FlushDone, PrimeDone, host
    <3>2. CASE \E a \in Endpoints, len \in Lengths : HostOut(a, len) \/ HostOverrun(a, len)
      BY <3>2 DEF HostOut, HostOverrun, Retire
    <3>3. CASE \E a \in Endpoints : HostIn(a) \/ Fault(a)
      BY <3>3 DEF HostIn, Fault, Retire, TypeOK, ControllerTypeOK
    <3>4. CASE HostSetup \/ HostReset
      BY <3>4 DEF HostSetup, HostReset, host, TypeOK, ControllerTypeOK
    <3> QED
      BY <1>10, <3>1, <3>2, <3>3, <3>4 DEF EnvironmentStep, ControllerStep, HostStep
  <2> QED
    BY <2>1, <2>2
<1> QED
  BY <1>2, <1>3, <1>4, <1>5, <1>6, <1>7, <1>8, <1>9, <1>10 DEF Next, CallStep

(***************************************************************************)
(* IN endpoints.  An armed descriptor, or one about to be, is that of the  *)
(* packet in the buffer, and the packet has been written since the last    *)
(* bus reset.                                                              *)
(***************************************************************************)
InPipe(a) ==
    /\ a \in stat => a \notin prime
    /\ Owned(a) => /\ td[a].status = "active"
                   /\ td[a].total = buffer[a].len
                   /\ buffer[a].id > before[a]
    /\ before[a] <= sent[a]

(***************************************************************************)
(* OUT endpoints.  Armed means for a whole packet; a packet that waits has *)
(* the length bytes_transferred gives; as long as nothing has gone wrong a *)
(* completion that poll() has reported and no one has read is that of a    *)
(* packet that waits; and an endpoint that only configure() arms is        *)
(* untouched until it does.                                                *)
(***************************************************************************)
Waiting(a) == td[a].status = "idle" /\ buffer[a].id > got[a].id

OutPipe(a) ==
    /\ a \in stat => td[a].status = "active"
    /\ td[a].status = "active" =>
         td[a].total = MaxPacketLen[a] /\ td[a].last = MaxPacketLen[a]
    /\ buffer[a].id <= sent[a] /\ got[a].id <= sent[a]
    /\ Waiting(a) => td[a].last - td[a].total = buffer[a].len
    /\ Calm /\ Told(a) => (td[a].status = "active" /\ Owned(a)) \/ Waiting(a)
    /\ New(a) /\ a \notin StallEps =>
         td[a].status # "active" /\ ~Owned(a) /\ ~Told(a) /\ ~Waiting(a)

PipeInv ==
    /\ \A a \in PipeEps \cap InEps : InPipe(a)
    /\ \A a \in PipeEps \cap OutEps : OutPipe(a)

\* The strengthening the steps start from.
Base == TypeOK /\ Quiescent /\ CallOK /\ ResetInv /\ Configuring

\* An endpoint a step leaves the same keeps its part of the invariant.
LEMMA SamePipe ==
    ASSUME NEW a \in PipeEps, Same(a), Calm' => Calm, New(a)' => New(a)
    PROVE  /\ InPipe(a) => InPipe(a)'
           /\ OutPipe(a) => OutPipe(a)'
BY DEF Same, InPipe, OutPipe, Owned, Waiting

\* What the controller does when it ends a transfer, seen from the endpoint.
LEMMA RetireHere ==
    ASSUME TypeOK, NEW a \in Endpoints, NEW status, NEW total, Retire(a, status, total)
    PROVE  /\ td'[a] = [status |-> status, total |-> total, last |-> td[a].last]
           /\ a \notin stat' /\ prime' = prime /\ before' = before
BY DEF Retire, TypeOK, ControllerTypeOK

LEMMA ScheduleHere ==
    ASSUME TypeOK, NEW a \in Endpoints, NEW size, schedule_transfer(a, size)
    PROVE  /\ td'[a] = [status |-> "active", total |-> size, last |-> size]
           /\ a \in prime'
BY DEF schedule_transfer, TypeOK, ControllerTypeOK

\* The step of an IN endpoint.
LEMMA InSteps ==
    ASSUME Base, NEW a \in PipeEps \cap InEps, InPipe(a), Stepped(a)
    PROVE  InPipe(a)'
<1> USE DEF Base, InPipe, Owned
<1>1. a \in Endpoints /\ a \notin OutEps
  BY DEF InEps
<1>2. /\ td[a] \in TransferDescriptor /\ buffer[a] \in Packet
      /\ sent[a] \in Nat /\ before[a] \in Nat
  BY <1>1 DEF TypeOK, ControllerTypeOK
<1>3. ASSUME NEW status, NEW total, Retire(a, status, total), a \in stat,
             sent'[a] = sent[a]
      PROVE  InPipe(a)'
  BY <1>1, <1>3, RetireHere
<1>4. CASE HostIn(a)
  BY <1>3, <1>4 DEF HostIn, Open
<1>5. CASE Fault(a)
  BY <1>3, <1>5 DEF Fault, Open
<1>6. CASE PrimeDone(a)
  BY <1>6 DEF PrimeDone, memory, host, hist
<1>7. CASE Writing(a)
  <2>1. schedule_transfer(a, written(a, call.len)) /\ write(a, call.len)
    BY <1>7 DEF Writing, put_packet
  <2>2. /\ td'[a] = [status |-> "active", total |-> written(a, call.len),
                     last |-> written(a, call.len)]
        /\ a \in prime'
    BY <1>1, <2>1, ScheduleHere
  <2>3. /\ buffer'[a].len = written(a, call.len)
        /\ buffer'[a].id = sent[a] + 1 /\ sent'[a] = sent[a] + 1
    BY <1>1, <2>1 DEF write, TypeOK, ControllerTypeOK
  <2>4. a \notin stat' /\ before'[a] = before[a]
    BY <1>7 DEF Writing, put_packet, host
  <2> QED
    BY <1>2, <2>2, <2>3, <2>4
<1> QED
  BY <1>1, <1>4, <1>5, <1>6, <1>7 DEF Stepped, HostOut, HostOverrun, Reading, Arming

\* The step of an OUT endpoint.
LEMMA OutSteps ==
    ASSUME Base, NEW a \in PipeEps \cap OutEps, OutPipe(a), Stepped(a),
           Calm' => Calm, New(a)' => New(a)
    PROVE  OutPipe(a)'
<1> USE DEF Base, OutPipe, Owned
<1>1. a \in Endpoints /\ a \notin InEps
  BY DEF InEps, OutEps
<1>2. /\ td[a] \in TransferDescriptor /\ buffer[a] \in Packet /\ got[a] \in Receipt
      /\ sent[a] \in Nat /\ MaxPacketLen[a] \in Nat
  BY <1>1, PacketLength DEF TypeOK, ControllerTypeOK
<1>3. ASSUME NEW len \in Lengths, HostOut(a, len) PROVE OutPipe(a)'
  <2>1. /\ a \in stat /\ len \in Nat
        /\ td[a].total = MaxPacketLen[a] /\ td[a].last = MaxPacketLen[a]
    BY <1>3, LengthsAssumption DEF HostOut, Open
  <2>2. /\ td'[a] = [status |-> "idle", total |-> td[a].total - len, last |-> td[a].last]
        /\ a \notin stat'
    BY <1>1, <1>3, RetireHere DEF HostOut
  <2>3. /\ buffer'[a] = [id |-> sent[a] + 1, len |-> len]
        /\ sent'[a] = sent[a] + 1 /\ got'[a] = got[a]
    BY <1>1, <1>3 DEF HostOut, TypeOK, ControllerTypeOK
  <2>4. Waiting(a)'
    BY <1>2, <2>2, <2>3 DEF Waiting, Receipt
  <2>5. ~(New(a)' /\ a \notin StallEps)
    BY <2>1
  <2> QED
    BY <1>2, <2>1, <2>2, <2>3, <2>4, <2>5 DEF Receipt
<1>4. ASSUME NEW len \in Lengths PROVE ~HostOverrun(a, len)
  <2>1. len \in Nat
    BY LengthsAssumption
  <2> QED
    BY <1>2, <2>1 DEF HostOverrun, Open
<1>5. CASE Fault(a)
  <2>1. /\ td'[a] = [status |-> "error", total |-> td[a].total, last |-> td[a].last]
        /\ a \notin stat'
    BY <1>1, <1>5, RetireHere DEF Fault
  <2>2. buffer'[a].id = 0 /\ sent'[a] = sent[a] /\ got'[a] = got[a]
    BY <1>1, <1>5 DEF Fault, TypeOK, ControllerTypeOK, Garbage
  <2>3. ~Calm'
    BY <1>5 DEF Fault, Calm, TypeOK, ControllerTypeOK
  <2> QED
    BY <1>2, <2>1, <2>2, <2>3 DEF Waiting, New, Receipt
<1>6. CASE PrimeDone(a) /\ UNCHANGED driverVars
  <2>1. /\ td' = td /\ buffer' = buffer /\ sent' = sent /\ got' = got
        /\ a \in prime /\ a \notin prime'
        /\ a \in stat' <=> td[a].status = "active" \/ a \in stat
        /\ complete' = complete
    BY <1>6 DEF PrimeDone, memory, hist
  <2>2. Told(a)' => Told(a)
    BY <1>6, <2>1 DEF Told, driverVars
  <2> QED
    BY <2>1, <2>2 DEF Waiting
<1>7. CASE Reading(a)
  <2>1. schedule_transfer(a, MaxPacketLen[a]) /\ read(a, call.len) /\ a \in ep_out
    BY <1>7 DEF Reading, take_packet, max_packet_len
  <2>2. /\ td'[a] = [status |-> "active", total |-> MaxPacketLen[a],
                     last |-> MaxPacketLen[a]]
        /\ a \in prime'
    BY <1>1, <2>1, ScheduleHere
  <2>3. got'[a].id = buffer[a].id
    BY <1>1, <2>1 DEF read, TypeOK, ControllerTypeOK
  <2>4. buffer' = buffer /\ sent' = sent
    BY <1>7 DEF Reading, take_packet
  <2>5. ~(New(a)' /\ a \notin StallEps)
    BY <2>1 DEF Told
  <2> QED
    BY <2>2, <2>3, <2>4, <2>5 DEF Waiting
<1>8. CASE Arming(a)
  <2>1. /\ td'[a] = [status |-> "active", total |-> MaxPacketLen[a],
                     last |-> MaxPacketLen[a]]
        /\ a \in prime'
    BY <1>1, <1>8, ScheduleHere DEF Arming
  <2>2. buffer' = buffer /\ sent' = sent /\ got' = got
    BY <1>8 DEF Arming
  <2>3. ~(New(a)' /\ a \notin StallEps)
    BY <1>8 DEF Arming, New, host, Configuring
  <2> QED
    BY <2>1, <2>2, <2>3 DEF Waiting
<1> QED
  BY <1>1, <1>3, <1>4, <1>5, <1>6, <1>7, <1>8 DEF Stepped, HostIn, Writing

LEMMA PipeInvStep ==
    Base /\ PipeInv /\ [Next]_vars => PipeInv'
<1> SUFFICES ASSUME Base, PipeInv, [Next]_vars PROVE PipeInv'
  OBVIOUS
<1>1. (Calm' => Calm) /\ \A a \in PipeEps : New(a)' => New(a)
  BY CalmStep DEF Base
<1>2. ASSUME NEW a \in PipeEps, Same(a)
      PROVE  (InPipe(a) => InPipe(a)') /\ (OutPipe(a) => OutPipe(a)')
  BY <1>1, <1>2, SamePipe
<1>3. CASE Quiet
  BY <1>2, <1>3 DEF Quiet, PipeInv
<1>4. CASE FlushDone
  <2>1. ~Calm' /\ prime = {}
    BY <1>1, <1>4
       DEF FlushDone, Base, Quiescent, ResetInv, ResetSteps, SpinSteps, Calm,
           TypeOK, ControllerTypeOK
  <2>2. /\ stat' = {} /\ prime' = prime
        /\ UNCHANGED <<td, buffer, sent, got, before>>
    BY <1>4 DEF FlushDone, memory, host, hist
  <2> QED
    BY <2>1, <2>2 DEF PipeInv, InPipe, OutPipe, Owned, Waiting, New
<1>5. CASE bus_reset_init
  <2>1. ~Calm' /\ prime = {} /\ stat = {}
    BY <1>1, <1>5
       DEF bus_reset_init, Base, Quiescent, ResetInv, ResetSteps, SpinSteps, Calm,
           TypeOK, ControllerTypeOK
  <2>2. /\ stat' = stat /\ prime' = prime /\ before' = sent
        /\ UNCHANGED <<td, buffer, sent, got>>
    BY <1>5 DEF bus_reset_init, arming, memory, hist
  <2>3. sent \in [Endpoints -> Nat]
    BY DEF Base, TypeOK, ControllerTypeOK
  <2> QED
    BY <2>1, <2>2, <2>3, PipesAre DEF PipeInv, InPipe, OutPipe, Owned, Waiting, New
<1>6. ASSUME NEW a \in PipeEps, Stepped(a) PROVE PipeInv'
  <2>1. \A b \in PipeEps \ {a} : Same(b)
    BY <1>6 DEF Stepped, SameBut
  <2>2. \A b \in PipeEps \ {a} : (InPipe(b) => InPipe(b)') /\ (OutPipe(b) => OutPipe(b)')
    BY <1>2, <2>1
  <2>3. a \in InEps => InPipe(a)'
    BY <1>6, InSteps DEF PipeInv
  <2>4. a \in OutEps => OutPipe(a)'
    BY <1>1, <1>6, OutSteps DEF PipeInv
  <2> QED
    BY <2>2, <2>3, <2>4 DEF PipeInv
<1> QED
  BY <1>3, <1>4, <1>5, <1>6, AllSteps DEF Base

LEMMA PipeInvAlways == Spec => [](Base /\ PipeInv)
<1>1. Init => Configuring
  BY DEF Init, DriverInit, Configuring
<1>2. Init => PipeInv
  BY PipesAre
     DEF Init, ControllerInit, DriverInit, PipeInv, InPipe, OutPipe, Owned, Waiting,
         Told, Garbage, OutEps
<1>3. TypeOK /\ Quiescent /\ ResetInv /\ Configuring /\ [Next]_vars => Configuring'
  BY CalmStep
<1>4. Spec => []Configuring
  BY <1>1, <1>3, TypeCorrect, QuiescentAlways, ResetInvAlways, PTL DEF Spec
<1>5. Spec => []Base
  BY <1>4, TypeCorrect, QuiescentAlways, CallOKAlways, ResetInvAlways, PTL DEF Base
<1> QED
  BY <1>2, <1>5, PipeInvStep, PTL DEF Spec

(***************************************************************************)
(* A packet written before a bus reset, to endpoint 0 or another, never    *)
(* reaches the host after it.                                              *)
(***************************************************************************)
THEOREM NothingStaleSent == Spec => FreshAfterReset
<1>1. ASSUME Base, PipeInv, [Next]_vars, NEW a \in InEps, got'[a] # got[a]
      PROVE  got'[a].id > before[a]
  <2>1. a \in Endpoints /\ a \notin OutEps /\ a \in PipeEps
    BY PipesAre DEF InEps
  <2>2. ~Same(a)
    BY <1>1 DEF Same
  <2>3. ~Quiet /\ ~FlushDone /\ ~bus_reset_init
    BY <1>1, <2>1, <2>2 DEF Quiet, FlushDone, bus_reset_init, hist
  <2>4. Stepped(a)
    BY <1>1, <2>1, <2>2, <2>3, AllSteps DEF Base, Stepped, SameBut
  <2>5. HostIn(a)
    BY <1>1, <2>1, <2>4
       DEF Stepped, HostOut, HostOverrun, Fault, PrimeDone, Reading, Writing, Arming,
           put_packet, hist
  <2>6. got'[a].id = buffer[a].id /\ a \in stat
    BY <1>1, <2>1, <2>5 DEF HostIn, Open, Base, TypeOK, ControllerTypeOK
  <2> QED
    BY <1>1, <2>1, <2>6 DEF PipeInv, InPipe, Owned
<1>2. Base /\ PipeInv /\ [Next]_vars =>
        [\A a \in InEps : got'[a] # got[a] => got'[a].id > before[a]]_vars
  BY <1>1
<1> QED
  BY <1>2, PipeInvAlways, PTL DEF Spec, FreshAfterReset

(***************************************************************************)
(* The refinement.  Under the mapping every step is one of the pipe's, or  *)
(* loses nothing and so changes nothing.                                   *)
(***************************************************************************)
Held(a) == IF Filled(a) THEN buffer[a] ELSE Garbage
Trouble == faults > 0 \/ resets > 0

\* Nothing but the packet in a pipe may change, and it may only be lost.
LEMMA LoseStep ==
    ASSUME \A a \in PipeEps : /\ sent'[a] = sent[a] /\ got'[a] = got[a]
                              /\ Held(a)' = Held(a) \/ Held(a)' = Garbage
                              /\ Held(a)' # Held(a) => Trouble' \/ a \in Restarting,
           Trouble => Trouble'
    PROVE  Pipe!Next
<1> DEFINE Lost == {a \in PipeEps : Held(a)' # Held(a)}
<1>1. /\ Lost \in SUBSET PipeEps
      /\ Trouble' \/ Lost \subseteq Restarting
      /\ [a \in PipeEps |-> Held(a)]' =
           [a \in PipeEps |-> IF a \in Lost THEN Garbage ELSE [b \in PipeEps |-> Held(b)][a]]
  OBVIOUS
<1>2. /\ [a \in PipeEps |-> sent[a]]' = [a \in PipeEps |-> sent[a]]
      /\ [a \in PipeEps |-> got[a]]' = [a \in PipeEps |-> got[a]]
  OBVIOUS
<1> HIDE DEF Lost
<1>3. Pipe!Lose
  BY <1>1, <1>2 DEF Pipe!Lose, Pipe!Empty, Held, Trouble, Garbage
<1> QED
  BY <1>3 DEF Pipe!Next

\* An endpoint a step leaves the same keeps its packet.
LEMMA SameHeld ==
    ASSUME NEW a \in PipeEps, Same(a)
    PROVE  Held(a)' = Held(a)
BY DEF Same, Held, Filled, Owned

LEMMA PutStep ==
    ASSUME NEW a \in PipeEps, SameBut(a), Trouble' = Trouble,
           Held(a) = Garbage, NEW len, Held(a)' = [id |-> sent[a] + 1, len |-> len],
           sent'[a] = sent[a] + 1, got'[a] = got[a]
    PROVE  Pipe!Next
<1>1. /\ \A b \in PipeEps \ {a} : /\ Held(b)' = Held(b)
                                  /\ sent'[b] = sent[b] /\ got'[b] = got[b]
  BY SameHeld DEF SameBut, Same
<1>2. [b \in PipeEps |-> sent'[b]] = [[b \in PipeEps |-> sent[b]] EXCEPT ![a] = sent[a] + 1]
  BY <1>1
<1>3. [b \in PipeEps |-> Held(b)]' =
        [[b \in PipeEps |-> Held(b)] EXCEPT ![a] = [id |-> sent[a] + 1, len |-> len]]
  BY <1>1
<1>4. [b \in PipeEps |-> got[b]]' = [b \in PipeEps |-> got[b]]
  BY <1>1
<1>5. [b \in PipeEps |-> Held(b)]'[a].len = len
  BY <1>3
<1>6. Pipe!Put(a)
  BY <1>2, <1>3, <1>4, <1>5 DEF Pipe!Put, Pipe!Empty, Held, Trouble, Garbage
<1> QED
  BY <1>6 DEF Pipe!Next

LEMMA TakeStep ==
    ASSUME NEW a \in PipeEps, SameBut(a), Trouble' = Trouble,
           Held(a) # Garbage, Held(a)' = Garbage, sent'[a] = sent[a],
           NEW room, room = (IF a \in InEps THEN MaxPacketLen[a] ELSE call.len),
           got'[a] = [n |-> got[a].n + 1, id |-> Held(a).id,
                      len |-> IF Held(a).len <= room THEN Held(a).len ELSE room]
    PROVE  Pipe!Next
<1>1. /\ \A b \in PipeEps \ {a} : /\ Held(b)' = Held(b)
                                  /\ sent'[b] = sent[b] /\ got'[b] = got[b]
  BY SameHeld DEF SameBut, Same
<1>2. [b \in PipeEps |-> got'[b]] =
        [[b \in PipeEps |-> got[b]] EXCEPT
           ![a] = [n |-> got[a].n + 1, id |-> Held(a).id,
                   len |-> IF Held(a).len <= room THEN Held(a).len ELSE room]]
  BY <1>1
<1>3. [b \in PipeEps |-> Held(b)]' = [[b \in PipeEps |-> Held(b)] EXCEPT ![a] = Garbage]
  BY <1>1
<1>4. [b \in PipeEps |-> sent[b]]' = [b \in PipeEps |-> sent[b]]
  BY <1>1
<1>5. Pipe!Take(a)
  BY <1>2, <1>3, <1>4 DEF Pipe!Take, Pipe!Empty, Held, Trouble, Garbage
<1> QED
  BY <1>5 DEF Pipe!Next

LEMMA StrayStep ==
    ASSUME NEW a \in PipeEps \cap OutEps, SameBut(a), Trouble, Trouble',
           Held(a) = Garbage, Held(a)' = Garbage, sent'[a] = sent[a],
           NEW id, NEW len, got'[a] = [n |-> got[a].n + 1, id |-> id, len |-> len]
    PROVE  Pipe!Next
<1>1. /\ \A b \in PipeEps \ {a} : /\ Held(b)' = Held(b)
                                  /\ sent'[b] = sent[b] /\ got'[b] = got[b]
  BY SameHeld DEF SameBut, Same
<1>2. [b \in PipeEps |-> got'[b]] =
        [[b \in PipeEps |-> got[b]] EXCEPT
           ![a] = [n |-> got[a].n + 1, id |-> id, len |-> len]]
  BY <1>1
<1>3. [b \in PipeEps |-> Held(b)]' = [b \in PipeEps |-> Held(b)]
  BY <1>1
<1>4. [b \in PipeEps |-> sent[b]]' = [b \in PipeEps |-> sent[b]]
  BY <1>1
<1>5. got'[a].id = id /\ got'[a].len = len
  OBVIOUS
<1>6. Pipe!Stray(a)
  BY <1>2, <1>3, <1>4, <1>5 DEF Pipe!Stray, Pipe!Empty, Held, Trouble, Garbage
<1> QED
  BY <1>6 DEF Pipe!Next

LEMMA TroubleStays ==
    ASSUME Base, [Next]_vars
    PROVE  (Trouble => Trouble') /\ (Trouble <=> ~Calm)
<1>1. TypeOK /\ TypeOK'
  BY TypeOKStep DEF Base
<1>2. Calm' => Calm
  BY CalmStep DEF Base
<1> QED
  BY <1>1, <1>2 DEF Trouble, Calm, TypeOK, ControllerTypeOK

\* A step that does no more to its endpoint than lose the packet of it.
LEMMA LoseHere ==
    ASSUME NEW a \in PipeEps, SameBut(a), Trouble => Trouble',
           sent'[a] = sent[a], got'[a] = got[a],
           Held(a)' = Held(a) \/ Held(a)' = Garbage,
           Held(a)' # Held(a) => Trouble' \/ a \in Restarting
    PROVE  Pipe!Next
<1>1. \A b \in PipeEps \ {a} :
        sent'[b] = sent[b] /\ got'[b] = got[b] /\ Held(b)' = Held(b)
  BY SameHeld DEF SameBut, Same
<1>2. \A b \in PipeEps : /\ sent'[b] = sent[b] /\ got'[b] = got[b]
                         /\ Held(b)' = Held(b) \/ Held(b)' = Garbage
                         /\ Held(b)' # Held(b) => Trouble' \/ b \in Restarting
  BY <1>1
<1> QED
  BY <1>2, LoseStep

\* The steps of an IN endpoint.
LEMMA InRefines ==
    ASSUME Base, PipeInv, NEW a \in PipeEps \cap InEps, Stepped(a), Trouble => Trouble'
    PROVE  Pipe!Next
<1>1. /\ a \in Endpoints /\ a \notin OutEps /\ SameBut(a)
      /\ InPipe(a)
  BY DEF InEps, Stepped, PipeInv
<1>2. /\ td[a] \in TransferDescriptor /\ buffer[a] \in Packet
      /\ sent[a] \in Nat /\ before[a] \in Nat /\ MaxPacketLen[a] \in Nat
      /\ td[a].total <= td[a].last /\ td[a].last <= MaxPacketLen[a]
  BY <1>1, PacketLength DEF Base, TypeOK, ControllerTypeOK, DescriptorsInBounds
<1>3. CASE HostIn(a)
  <2>1. a \in stat /\ got'[a] = [n |-> got[a].n + 1, id |-> buffer[a].id, len |-> td[a].total]
    BY <1>1, <1>3 DEF HostIn, Open, Base, TypeOK, ControllerTypeOK
  <2>2. a \notin stat' /\ a \notin prime' /\ sent' = sent /\ buffer' = buffer
    BY <1>1, <1>3, <2>1, RetireHere DEF HostIn, Base, InPipe
  <2>3. /\ Held(a) = buffer[a] /\ Held(a)' = Garbage
        /\ Held(a).id > 0 /\ Held(a).len = td[a].total
    BY <1>1, <1>2, <2>1, <2>2 DEF Held, Filled, Owned, InPipe, Packet
  <2>4. td[a].total <= MaxPacketLen[a]
    BY <1>2 DEF TransferDescriptor
  <2>5. Held(a) # Garbage
    BY <2>3 DEF Garbage
  <2>6. Trouble' = Trouble
    BY <1>3 DEF HostIn, Retire, Trouble
  <2> QED
    BY <1>1, <2>1, <2>2, <2>3, <2>4, <2>5, <2>6, TakeStep
<1>4. CASE Fault(a)
  <2>1. a \in stat /\ a \notin stat' /\ a \notin prime' /\ sent' = sent /\ got' = got
    BY <1>1, <1>4, RetireHere DEF Fault, Open, Base, InPipe
  <2>2. Held(a)' = Garbage /\ Trouble'
    BY <1>1, <1>4, <2>1 DEF Held, Filled, Owned, Fault, Trouble, Base, TypeOK,
                             ControllerTypeOK
  <2> QED
    BY <1>1, <2>1, <2>2, LoseHere
<1>5. CASE PrimeDone(a)
  <2>1. /\ a \in prime /\ a \in stat' /\ buffer' = buffer /\ sent' = sent /\ got' = got
    BY <1>1, <1>5 DEF PrimeDone, memory, hist, InPipe, Owned
  <2>2. Held(a)' = Held(a)
    BY <1>1, <2>1 DEF Held, Filled, Owned
  <2> QED
    BY <1>1, <2>1, <2>2, LoseHere
<1>6. CASE Writing(a)
  <2>1. /\ schedule_transfer(a, written(a, call.len)) /\ write(a, call.len)
        /\ got' = got /\ a \notin stat /\ a \notin prime
        /\ resets' = resets /\ faults' = faults
    BY <1>6 DEF Writing, put_packet, host
  <2>2. a \in prime'
    BY <1>1, <2>1, ScheduleHere DEF Base
  <2>3. /\ buffer'[a] = [id |-> sent[a] + 1, len |-> written(a, call.len)]
        /\ sent'[a] = sent[a] + 1
    BY <1>1, <2>1 DEF write, Base, TypeOK, ControllerTypeOK
  <2>4. /\ Held(a) = Garbage
        /\ Held(a)' = [id |-> sent[a] + 1, len |-> written(a, call.len)]
    BY <1>1, <2>1, <2>2, <2>3 DEF Held, Filled, Owned
  <2>5. Trouble' = Trouble
    BY <2>1 DEF Trouble
  <2> QED
    BY <1>1, <2>1, <2>3, <2>4, <2>5, PutStep
<1> QED
  BY <1>1, <1>3, <1>4, <1>5, <1>6 DEF Stepped, HostOut, HostOverrun, Reading, Arming

\* The steps of an OUT endpoint.
LEMMA OutRefines ==
    ASSUME Base, PipeInv, NEW a \in PipeEps \cap OutEps, Stepped(a), Trouble => Trouble',
           Trouble <=> ~Calm
    PROVE  Pipe!Next
<1>1. /\ a \in Endpoints /\ a \notin InEps /\ SameBut(a)
      /\ OutPipe(a)
  BY DEF InEps, OutEps, Stepped, PipeInv
<1>2. /\ td[a] \in TransferDescriptor /\ buffer[a] \in Packet /\ got[a] \in Receipt
      /\ sent[a] \in Nat /\ MaxPacketLen[a] \in Nat /\ call.len \in Nat
      /\ td[a].total <= td[a].last /\ td[a].last <= MaxPacketLen[a]
  BY <1>1, PacketLength
     DEF Base, TypeOK, ControllerTypeOK, DriverTypeOK, DescriptorsInBounds
<1>3. /\ Held(a) = IF Waiting(a) THEN buffer[a] ELSE Garbage
      /\ Held(a)' = IF Waiting(a)' THEN buffer'[a] ELSE Garbage
  BY <1>1 DEF Held, Filled, Waiting
<1>4. ASSUME NEW len \in Lengths, HostOut(a, len) PROVE Pipe!Next
  <2>1. a \in stat /\ ~Waiting(a)
    BY <1>1, <1>4 DEF HostOut, Open, OutPipe, Waiting
  <2>2. td'[a] = [status |-> "idle", total |-> td[a].total - len, last |-> td[a].last]
    BY <1>1, <1>4, RetireHere DEF HostOut, Base
  <2>3. /\ buffer'[a] = [id |-> sent[a] + 1, len |-> len]
        /\ sent'[a] = sent[a] + 1 /\ got'[a] = got[a]
    BY <1>1, <1>4 DEF HostOut, Base, TypeOK, ControllerTypeOK
  <2>4. Waiting(a)'
    BY <1>1, <1>2, <2>2, <2>3 DEF Waiting, OutPipe, Receipt
  <2>5. Trouble' = Trouble
    BY <1>4 DEF HostOut, Retire, Trouble
  <2> QED
    BY <1>1, <1>3, <2>1, <2>3, <2>4, <2>5, PutStep
<1>5. ASSUME NEW len \in Lengths PROVE ~HostOverrun(a, len)
  <2>1. len \in Nat
    BY LengthsAssumption
  <2> QED
    BY <1>1, <1>2, <2>1 DEF HostOverrun, Open, OutPipe
<1>6. CASE Fault(a)
  <2>1. /\ td'[a] = [status |-> "error", total |-> td[a].total, last |-> td[a].last]
        /\ sent' = sent /\ got' = got
    BY <1>1, <1>6, RetireHere DEF Fault, Base
  <2>2. Held(a)' = Garbage /\ Trouble'
    BY <1>3, <1>6, <2>1 DEF Waiting, Fault, Trouble, Base, TypeOK, ControllerTypeOK
  <2> QED
    BY <1>1, <2>1, <2>2, LoseHere
<1>7. CASE PrimeDone(a)
  <2>1. td' = td /\ buffer' = buffer /\ sent' = sent /\ got' = got
    BY <1>7 DEF PrimeDone, memory, hist
  <2>2. Held(a)' = Held(a)
    BY <1>3, <2>1 DEF Waiting
  <2> QED
    BY <1>1, <2>1, <2>2, LoseHere
<1>8. CASE Reading(a)
  <2>1. /\ schedule_transfer(a, MaxPacketLen[a]) /\ read(a, call.len)
        /\ a \in ep_out /\ a \notin stat /\ a \notin prime
        /\ sent' = sent /\ resets' = resets /\ faults' = faults
    BY <1>8 DEF Reading, take_packet, max_packet_len, host
  <2>2. /\ td'[a] = [status |-> "active", total |-> MaxPacketLen[a],
                     last |-> MaxPacketLen[a]]
        /\ Trouble' = Trouble
    BY <1>1, <2>1, ScheduleHere DEF Base, Trouble
  <2>3. Held(a)' = Garbage
    BY <1>3, <2>2 DEF Waiting
  <2> DEFINE count == Least(MaxPacketLen[a], Least(call.len, td[a].last - td[a].total))
  <2>4. got'[a] = [n |-> got[a].n + 1, id |-> buffer[a].id, len |-> count]
    BY <1>1, <2>1
       DEF read, max_packet_len, bytes_transferred, Base, TypeOK, ControllerTypeOK
  <2>5. CASE Waiting(a)
    <3>1. /\ Held(a) = buffer[a] /\ buffer[a].id > 0
          /\ td[a].last - td[a].total = buffer[a].len
      BY <1>1, <1>2, <1>3, <2>5 DEF Waiting, OutPipe, Packet, Receipt
    <3>2. Held(a) # Garbage
      BY <3>1 DEF Garbage
    <3>3. count = IF buffer[a].len <= call.len THEN buffer[a].len ELSE call.len
      BY <1>2, <3>1 DEF Least, TransferDescriptor, Packet
    <3> QED
      BY <1>1, <2>1, <2>2, <2>3, <2>4, <3>1, <3>2, <3>3, TakeStep
  <2>6. CASE ~Waiting(a)
    <3>1. Trouble /\ Held(a) = Garbage
      BY <1>1, <1>3, <2>1, <2>6 DEF OutPipe, Told, Owned
    <3> HIDE DEF count
    <3> QED
      BY <1>1, <2>1, <2>2, <2>3, <2>4, <3>1, StrayStep
  <2> QED
    BY <2>5, <2>6
<1>9. CASE Arming(a)
  <2>1. /\ td'[a] = [status |-> "active", total |-> MaxPacketLen[a],
                     last |-> MaxPacketLen[a]]
        /\ sent' = sent /\ got' = got
        /\ (pc = "ep_stall" /\ a = call.ep /\ a \in StallEps) \/ a \in todo
    BY <1>1, <1>9, ScheduleHere DEF Arming, Base
  <2>2. Held(a)' = Garbage
    BY <1>3, <2>1 DEF Waiting
  <2>3. Held(a) # Garbage => Trouble \/ a \in Restarting
    BY <1>1, <1>3, <2>1 DEF OutPipe, New, Restarting
  <2> QED
    BY <1>1, <2>1, <2>2, <2>3, LoseHere
<1> QED
  BY <1>1, <1>4, <1>5, <1>6, <1>7, <1>8, <1>9 DEF Stepped, HostIn, Writing

LEMMA StepRefines ==
    ASSUME Base, PipeInv, [Next]_vars
    PROVE  Pipe!Next
<1>1. (Trouble => Trouble') /\ (Trouble <=> ~Calm)
  BY TroubleStays
<1>2. ASSUME NEW a \in PipeEps, Stepped(a) PROVE Pipe!Next
  <2>1. a \in InEps \/ a \in OutEps
    BY PipesAre
  <2> QED
    BY <1>1, <1>2, <2>1, InRefines, OutRefines
<1>3. CASE Quiet
  <2>1. \A a \in PipeEps : sent'[a] = sent[a] /\ got'[a] = got[a] /\ Held(a)' = Held(a)
    BY <1>3, SameHeld DEF Quiet, Same
  <2> QED
    BY <1>1, <2>1, LoseStep
<1>4. CASE FlushDone
  <2>1. /\ Trouble /\ prime = {}
    BY <1>4 DEF FlushDone, Base, Quiescent, ResetInv, ResetSteps, SpinSteps, Trouble
  <2>2. /\ stat' = {} /\ prime' = prime
        /\ UNCHANGED <<td, buffer, sent, got>>
    BY <1>4 DEF FlushDone, memory, host, hist
  <2>3. \A a \in PipeEps : Held(a)' = Held(a) \/ Held(a)' = Garbage
    BY <2>1, <2>2 DEF Held, Filled, Owned
  <2> QED
    BY <1>1, <2>1, <2>2, <2>3, LoseStep
<1>5. CASE bus_reset_init
  <2>1. UNCHANGED <<stat, prime, td, buffer, sent, got>>
    BY <1>5 DEF bus_reset_init, arming, memory, hist
  <2>2. \A a \in PipeEps : Held(a)' = Held(a)
    BY <2>1 DEF Held, Filled, Owned
  <2> QED
    BY <1>1, <2>1, <2>2, LoseStep
<1> QED
  BY <1>2, <1>3, <1>4, <1>5, AllSteps DEF Base

(***************************************************************************)
(* The driver, the controller and the host implement the pipes of          *)
(* PacketPipe, whatever the endpoints, the packet lengths and the bounds   *)
(* on what the host does.                                                  *)
(***************************************************************************)
THEOREM EndpointsArePipes == Spec => ImplementsPipe
<1>1. Init => Pipe!Init
  <2> SUFFICES ASSUME Init PROVE Pipe!Init
    OBVIOUS
  <2>1. \A a \in PipeEps : /\ a \in Endpoints /\ sent[a] = 0
                           /\ got[a] = [n |-> 0, id |-> 0, len |-> 0]
                           /\ Held(a) = Garbage
    BY PipesAre DEF Init, ControllerInit, Held
  <2>2. ~Trouble
    BY DEF Init, ControllerInit, Trouble
  <2> QED
    BY <2>1, <2>2 DEF Pipe!Init, Pipe!Empty, Held, Garbage, Trouble
<1>2. Base /\ PipeInv /\ [Next]_vars => [Pipe!Next]_Pipe!pipeVars
  BY StepRefines
<1> QED
  BY <1>1, <1>2, PipeInvAlways, PTL DEF Spec, ImplementsPipe, Pipe!Spec
=============================================================================
