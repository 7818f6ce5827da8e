------------------------------ MODULE DriverProofs ------------------------------
(***************************************************************************)
(* Proofs, for every set of endpoints, every packet length and every bound *)
(* on the host, of the safety properties the runs check on instances.      *)
(***************************************************************************)
EXTENDS DriverProperties, TLAPS

(***************************************************************************)
(* Types and descriptor bounds                                             *)
(***************************************************************************)


\* A transfer that ends with no more left of its total than it had keeps the
\* types and the bounds of everything it touches.
LEMMA RetireTypeOK ==
    ASSUME TypeOK, NEW a \in Endpoints,
           NEW status \in {"idle", "error"}, NEW total \in Nat,
           total <= td[a].total, Retire(a, status, total)
    PROVE  /\ td' \in [Endpoints -> TransferDescriptor]
           /\ DescriptorsInBounds'
           /\ usbsts' \subseteq {"URI", "UI"}
           /\ stat' \subseteq Endpoints
           /\ complete' \subseteq Endpoints
           /\ unreported' \subseteq Endpoints
<1> USE DEF TypeOK, ControllerTypeOK
<1>1. td[a] \in TransferDescriptor
  OBVIOUS
<1>2. td' = [td EXCEPT ![a] = [status |-> status, total |-> total, last |-> td[a].last]]
  BY DEF Retire
<1>3. [status |-> status, total |-> total, last |-> td[a].last] \in TransferDescriptor
  BY <1>1 DEF TransferDescriptor
<1>4. td' \in [Endpoints -> TransferDescriptor]
  BY <1>2, <1>3
<1>5. ASSUME NEW b \in Endpoints
      PROVE  td'[b].total <= td'[b].last /\ td'[b].last <= MaxPacketLen[b]
  <2>1. CASE b = a
    BY <1>1, <1>2, <2>1, LengthsAssumption DEF DescriptorsInBounds, TransferDescriptor
  <2>2. CASE b # a
    BY <1>2, <2>2 DEF DescriptorsInBounds
  <2>3. QED
    BY <2>1, <2>2
<1>6. QED
  BY <1>4, <1>5 DEF DescriptorsInBounds, Retire

\* The controller and the host keep the types and the descriptor bounds.
LEMMA EnvironmentTypeOK ==
    ASSUME TypeOK, EnvironmentStep
    PROVE  TypeOK'
<1>1. UNCHANGED driverVars
  BY DEF EnvironmentStep
<1>2. DriverTypeOK'
  BY <1>1 DEF TypeOK, DriverTypeOK, driverVars, locals
<1>3. CASE FlushDone
  BY <1>2, <1>3 DEF TypeOK, ControllerTypeOK, DescriptorsInBounds, FlushDone,
                    endptctrl, memory, host, hist
<1>4. ASSUME NEW a \in Endpoints, PrimeDone(a) PROVE TypeOK'
  BY <1>2, <1>4 DEF TypeOK, ControllerTypeOK, DescriptorsInBounds, PrimeDone,
                    endptctrl, memory, host, hist
<1>5. ASSUME NEW a \in Endpoints, NEW len \in Lengths, HostOut(a, len) PROVE TypeOK'
  <2>1. /\ td[a] \in TransferDescriptor /\ len \in Nat
        /\ len <= td[a].total /\ Retire(a, "idle", td[a].total - len)
    BY <1>5, LengthsAssumption DEF TypeOK, ControllerTypeOK, HostOut
  <2>2. td[a].total - len \in Nat /\ td[a].total - len <= td[a].total
    BY <2>1 DEF TransferDescriptor
  <2>3. buffer' \in [Endpoints -> Packet] /\ sent' \in [Endpoints -> Nat]
    BY <1>5, <2>1 DEF HostOut, TypeOK, ControllerTypeOK, Packet
  <2>4. QED
    BY <1>2, <1>5, <2>1, <2>2, <2>3, RetireTypeOK
       DEF HostOut, Retire, TypeOK, ControllerTypeOK, endptctrl
<1>6. ASSUME NEW a \in Endpoints, NEW len \in Lengths, HostOverrun(a, len) PROVE TypeOK'
  <2>1. td[a] \in TransferDescriptor /\ Retire(a, "error", 0)
    BY <1>6 DEF TypeOK, ControllerTypeOK, HostOverrun
  <2>2. 0 <= td[a].total
    BY <2>1 DEF TransferDescriptor
  <2>3. buffer' \in [Endpoints -> Packet] /\ sent' \in [Endpoints -> Nat]
    BY <1>6 DEF HostOverrun, TypeOK, ControllerTypeOK, Packet, Garbage
  <2>4. QED
    BY <1>2, <1>6, <2>1, <2>2, <2>3, RetireTypeOK
       DEF HostOverrun, Retire, TypeOK, ControllerTypeOK, endptctrl
<1>7. ASSUME NEW a \in Endpoints, HostIn(a) PROVE TypeOK'
  <2>1. td[a] \in TransferDescriptor /\ Retire(a, "idle", 0)
    BY <1>7 DEF TypeOK, ControllerTypeOK, HostIn
  <2>2. 0 <= td[a].total /\ td[a].total \in Nat
    BY <2>1 DEF TransferDescriptor
  <2>3. got' \in [Endpoints -> Receipt]
    BY <1>7, <2>2 DEF HostIn, TypeOK, ControllerTypeOK, Receipt, Packet
  <2>4. QED
    BY <1>2, <1>7, <2>1, <2>2, <2>3, RetireTypeOK
       DEF HostIn, Retire, TypeOK, ControllerTypeOK, endptctrl
<1>8. ASSUME NEW a \in Endpoints, Fault(a) PROVE TypeOK'
  <2>1. td[a] \in TransferDescriptor /\ Retire(a, "error", td[a].total)
    BY <1>8 DEF TypeOK, ControllerTypeOK, Fault
  <2>2. td[a].total \in Nat /\ td[a].total <= td[a].total
    BY <2>1 DEF TransferDescriptor
  <2>3. buffer' \in [Endpoints -> Packet] /\ faults' \in Nat
    BY <1>8 DEF Fault, TypeOK, ControllerTypeOK, Packet, Garbage
  <2>4. QED
    BY <1>2, <1>8, <2>1, <2>2, <2>3, RetireTypeOK
       DEF Fault, Retire, TypeOK, ControllerTypeOK, endptctrl
<1>9. CASE HostSetup
  <2>1. setup' \in Nat
    BY <1>9 DEF HostSetup, TypeOK, ControllerTypeOK
  <2>2. /\ stalled' \subseteq Endpoints
        /\ usbsts' \subseteq {"URI", "UI"}
        /\ setupstat' \in BOOLEAN /\ sutw' \in BOOLEAN
    BY <1>9 DEF HostSetup, TypeOK, ControllerTypeOK
  <2>3. QED
    BY <1>2, <1>9, <2>1, <2>2
       DEF TypeOK, ControllerTypeOK, DescriptorsInBounds, HostSetup, arming, host, hist
<1>10. CASE HostReset
  BY <1>2, <1>10 DEF TypeOK, ControllerTypeOK, DescriptorsInBounds, HostReset,
                     arming, endptctrl, memory, hist
<1>11. QED
  BY <1>3, <1>4, <1>5, <1>6, <1>7, <1>8, <1>9, <1>10
     DEF EnvironmentStep, ControllerStep, HostStep

\* A packet length is at most 1024 and never negative.
LEMMA PacketLength == \A a \in Endpoints : MaxPacketLen[a] \in Nat
BY LengthsAssumption

\* A scheduled transfer that fits the endpoint's packet length keeps the
\* types and the bounds of what schedule_transfer touches.
LEMMA ScheduleTypeOK ==
    ASSUME TypeOK, NEW a \in Endpoints, NEW size \in Nat,
           size <= MaxPacketLen[a], schedule_transfer(a, size)
    PROVE  /\ td' \in [Endpoints -> TransferDescriptor]
           /\ DescriptorsInBounds'
           /\ prime' \subseteq Endpoints
<1> USE DEF TypeOK, ControllerTypeOK
<1>1. td' = [td EXCEPT ![a] = [status |-> "active", total |-> size, last |-> size]]
  BY DEF schedule_transfer
<1>2. [status |-> "active", total |-> size, last |-> size] \in TransferDescriptor
  BY DEF TransferDescriptor
<1>3. td' \in [Endpoints -> TransferDescriptor]
  BY <1>1, <1>2
<1>4. DescriptorsInBounds'
  BY <1>1 DEF DescriptorsInBounds
<1>5. QED
  BY <1>3, <1>4 DEF schedule_transfer

\* read and write return lengths, and written is at most the packet length.
LEMMA Lengths0 ==
    ASSUME TypeOK, NEW a \in Endpoints, NEW len \in Nat
    PROVE  /\ written(a, len) \in Nat /\ written(a, len) <= MaxPacketLen[a]
           /\ bytes_transferred(a) \in Nat
           /\ Least(max_packet_len(a), Least(len, bytes_transferred(a))) \in Nat
<1>1. MaxPacketLen[a] \in Nat
  BY PacketLength
<1>2. bytes_transferred(a) \in Nat
  <2>1. td[a].total \in Nat /\ td[a].last \in Nat /\ td[a].total <= td[a].last
    BY DEF TypeOK, ControllerTypeOK, DescriptorsInBounds, TransferDescriptor
  <2>2. QED
    BY <2>1 DEF bytes_transferred
<1>3. QED
  BY <1>1, <1>2 DEF written, Least, max_packet_len

\* The common tail of ctrl0_read and ep_read keeps the types.
LEMMA TakePacketTypeOK ==
    ASSUME TypeOK, NEW a \in Endpoints, NEW len \in Nat, NEW step,
           take_packet(step, a, len)
    PROVE  TypeOK'
<1>1. max_packet_len(a) \in Nat /\ max_packet_len(a) <= MaxPacketLen[a]
  BY PacketLength DEF max_packet_len
<1>2. /\ td' \in [Endpoints -> TransferDescriptor]
      /\ DescriptorsInBounds'
      /\ prime' \subseteq Endpoints
  BY <1>1, ScheduleTypeOK DEF take_packet
<1>3. got' \in [Endpoints -> Receipt]
  BY Lengths0 DEF take_packet, read, TypeOK, ControllerTypeOK, Receipt, Packet
<1>4. DriverTypeOK'
  BY EndpointsAssumption
     DEF take_packet, Finish, NoCall, Steps, SpinSteps, locals, TypeOK, DriverTypeOK
<1>5. QED
  BY <1>2, <1>3, <1>4
     DEF take_packet, clear_complete, endptctrl, host, TypeOK, ControllerTypeOK

\* So does that of ctrl0_write and ep_write.
LEMMA PutPacketTypeOK ==
    ASSUME TypeOK, NEW a \in Endpoints, NEW len \in Nat, NEW step,
           NEW next \in Steps, put_packet(step, a, len, next)
    PROVE  TypeOK'
<1>1. written(a, len) \in Nat /\ written(a, len) <= MaxPacketLen[a]
  BY Lengths0
<1>2. /\ td' \in [Endpoints -> TransferDescriptor]
      /\ DescriptorsInBounds'
      /\ prime' \subseteq Endpoints
  BY <1>1, ScheduleTypeOK DEF put_packet
<1>3. buffer' \in [Endpoints -> Packet] /\ sent' \in [Endpoints -> Nat]
  BY <1>1 DEF put_packet, write, TypeOK, ControllerTypeOK, Packet
<1>4. DriverTypeOK'
  BY EndpointsAssumption
     DEF put_packet, Finish, NoCall, locals, TypeOK, DriverTypeOK
<1>5. QED
  BY <1>2, <1>3, <1>4
     DEF put_packet, endptctrl, host, TypeOK, ControllerTypeOK

\* would_block and the calls that only begin keep the types.
LEMMA BeginTypeOK ==
    ASSUME TypeOK, UNCHANGED controllerVars, UNCHANGED <<ep_out, ep_setup, locals, setupRead>>,
           pc' \in Steps, call' \in [ep : Endpoints, len : Nat]
    PROVE  TypeOK'
BY DEF TypeOK, ControllerTypeOK, DriverTypeOK, DescriptorsInBounds, controllerVars,
       arming, endptctrl, memory, host, hist, locals

LEMMA WouldBlockTypeOK ==
    ASSUME TypeOK, NEW step, would_block(step)
    PROVE  TypeOK'
BY EndpointsAssumption, BeginTypeOK
   DEF would_block, Finish, NoCall, Steps, SpinSteps

\* poll and bus_reset keep the types.
LEMMA PollTypeOK ==
    ASSUME TypeOK,
           \/ poll \/ poll_none \/ poll_uri \/ poll_ui \/ poll_erce \/ poll_etce
           \/ poll_clear \/ poll_setup \/ bus_reset \/ bus_reset_flush
           \/ bus_reset_init
    PROVE  TypeOK'
<1> USE EndpointsAssumption
    DEF TypeOK, ControllerTypeOK, DriverTypeOK, DescriptorsInBounds, Begin, Goto,
        Finish, NoCall, Steps, arming, endptctrl, memory, host, hist, locals
<1>1. CASE poll
  BY <1>1 DEF poll, controllerVars
<1>2. CASE poll_none
  BY <1>2 DEF poll_none, vars, controllerVars, driverVars
<1>3. CASE poll_uri
  BY <1>3 DEF poll_uri
<1>4. CASE poll_ui
  BY <1>4 DEF poll_ui
<1>5. CASE poll_erce
  BY <1>5 DEF poll_erce
<1>6. CASE poll_etce
  BY <1>6 DEF poll_etce, controllerVars
<1>7. CASE poll_clear
  BY <1>7 DEF poll_clear
<1>8. CASE poll_setup
  BY <1>8 DEF poll_setup, controllerVars
<1>9. CASE bus_reset
  BY <1>9 DEF bus_reset
<1>10. CASE bus_reset_flush
  BY <1>10 DEF bus_reset_flush
<1>11. CASE bus_reset_init
  BY <1>11 DEF bus_reset_init, initialize
<1>12. QED
  BY <1>1, <1>2, <1>3, <1>4, <1>5, <1>6, <1>7, <1>8, <1>9, <1>10, <1>11

\* The steps of read_setup keep the types.
LEMMA ReadSetupTypeOK ==
    ASSUME TypeOK,
           \/ read_setup \/ read_setup_arm \/ read_setup_lo \/ read_setup_hi
           \/ read_setup_retry \/ read_setup_done
    PROVE  TypeOK'
<1> USE EndpointsAssumption
    DEF TypeOK, ControllerTypeOK, DriverTypeOK, Goto, Finish, NoCall, Steps,
        ReadSetupSteps, SpinSteps, arming, endptctrl, memory, host, hist, locals
<1>1. CASE read_setup
  BY <1>1 DEF read_setup, DescriptorsInBounds
<1>2. CASE read_setup_arm
  BY <1>2 DEF read_setup_arm, DescriptorsInBounds
<1>3. CASE read_setup_lo
  BY <1>3 DEF read_setup_lo, controllerVars, DescriptorsInBounds
<1>4. CASE read_setup_hi
  BY <1>4 DEF read_setup_hi, controllerVars, DescriptorsInBounds
<1>5. CASE read_setup_retry
  BY <1>5 DEF read_setup_retry, controllerVars, DescriptorsInBounds
<1>6. CASE read_setup_done
  <2>1. setupRead' \in [n : Nat, lo : Nat, hi : Nat] /\ pc' \in Steps
    BY <1>6 DEF read_setup_done
  <2>2. QED
    BY <1>6, <2>1 DEF read_setup_done, DescriptorsInBounds
<1>7. QED
  BY <1>1, <1>2, <1>3, <1>4, <1>5, <1>6

\* So does arming an endpoint that is not armed.
LEMMA PrimeUnprimedTypeOK ==
    ASSUME TypeOK, NEW a \in Endpoints, NEW step, prime_unprimed(step, a)
    PROVE  TypeOK'
<1>1. /\ td' \in [Endpoints -> TransferDescriptor]
      /\ DescriptorsInBounds'
      /\ prime' \subseteq Endpoints
  <2>1. CASE is_primed(a)
    BY <2>1 DEF prime_unprimed, TypeOK, ControllerTypeOK, DescriptorsInBounds
  <2>2. CASE ~is_primed(a)
    <3>1. schedule_transfer(a, MaxPacketLen[a]) /\ MaxPacketLen[a] \in Nat
      BY <2>2, PacketLength DEF prime_unprimed, max_packet_len
    <3>2. QED
      BY <3>1, ScheduleTypeOK
  <2>3. QED
    BY <2>1, <2>2
<1>2. DriverTypeOK'
  BY EndpointsAssumption
     DEF prime_unprimed, Finish, NoCall, Steps, SpinSteps, locals, TypeOK, DriverTypeOK
<1>3. QED
  BY <1>1, <1>2 DEF prime_unprimed, endptctrl, host, hist, TypeOK, ControllerTypeOK

\* The reads and writes keep the types.
LEMMA TransferTypeOK ==
    ASSUME TypeOK,
           \/ ctrl0_read_data \/ ctrl0_write_data \/ ctrl0_write_status
           \/ ep_read_data \/ ep_write_data
    PROVE  TypeOK'
<1>1. /\ call.ep \in Endpoints /\ call.len \in Nat
      /\ CtrlOut \in Endpoints /\ CtrlIn \in Endpoints
      /\ "spin" \in Steps /\ "spin_status" \in Steps
  BY EndpointsAssumption DEF TypeOK, DriverTypeOK, Steps, SpinSteps
<1>2. CASE ctrl0_read_data
  BY <1>1, <1>2, WouldBlockTypeOK, TakePacketTypeOK DEF ctrl0_read_data
<1>3. CASE ctrl0_write_data
  BY <1>1, <1>3, WouldBlockTypeOK, PutPacketTypeOK DEF ctrl0_write_data
<1>4. CASE ctrl0_write_status
  <2>1. /\ td' \in [Endpoints -> TransferDescriptor]
        /\ DescriptorsInBounds'
        /\ prime' \subseteq Endpoints /\ complete' \subseteq Endpoints
    <3>1. CASE is_primed(CtrlOut)
      BY <1>4, <3>1 DEF ctrl0_write_status, TypeOK, ControllerTypeOK, DescriptorsInBounds
    <3>2. CASE ~is_primed(CtrlOut)
      <4>1. 0 <= MaxPacketLen[CtrlOut]
        BY <1>1, PacketLength
      <4>2. QED
        BY <1>1, <1>4, <3>2, <4>1, ScheduleTypeOK
           DEF ctrl0_write_status, clear_complete, TypeOK, ControllerTypeOK
    <3>3. QED
      BY <3>1, <3>2
  <2>2. DriverTypeOK'
    BY <1>1, <1>4
       DEF ctrl0_write_status, Finish, NoCall, Steps, locals, TypeOK, DriverTypeOK
  <2>3. QED
    BY <1>4, <2>1, <2>2
       DEF ctrl0_write_status, endptctrl, host, hist, TypeOK, ControllerTypeOK
<1>5. CASE ep_read_data
  BY <1>1, <1>5, WouldBlockTypeOK, TakePacketTypeOK DEF ep_read_data
<1>6. CASE ep_write_data
  BY <1>1, <1>6, WouldBlockTypeOK, PutPacketTypeOK DEF ep_write_data
<1>7. QED
  BY <1>2, <1>3, <1>4, <1>5, <1>6

\* The remaining steps of calls keep the types.
LEMMA RestTypeOK ==
    ASSUME TypeOK,
           \/ ctrl0_read_prime \/ ep_stall_prime
           \/ prime_endpoints \/ prime_endpoints_done \/ spin
    PROVE  TypeOK'
<1>1. CASE ctrl0_read_prime \/ ep_stall_prime
  BY <1>1, PrimeUnprimedTypeOK, EndpointsAssumption
     DEF ctrl0_read_prime, ep_stall_prime, TypeOK, DriverTypeOK
<1>2. CASE prime_endpoints
  <2>1. PICK a \in todo :
          /\ todo' = todo \ {a}
          /\ IF is_enabled(a)
               THEN /\ schedule_transfer(a, max_packet_len(a))
                    /\ Goto("spin_prime")
               ELSE UNCHANGED <<td, prime, pc, call>>
    BY <1>2 DEF prime_endpoints
  <2>2. a \in Endpoints
    BY <2>1 DEF TypeOK, DriverTypeOK, NonZero
  <2>3. /\ td' \in [Endpoints -> TransferDescriptor]
        /\ DescriptorsInBounds'
        /\ prime' \subseteq Endpoints
    <3>1. CASE td' = td /\ prime' = prime
      BY <3>1 DEF TypeOK, ControllerTypeOK, DescriptorsInBounds
    <3>2. CASE schedule_transfer(a, max_packet_len(a))
      BY <2>2, <3>2, PacketLength, ScheduleTypeOK DEF max_packet_len
    <3>3. QED
      BY <2>1, <3>1, <3>2
  <2>4. DriverTypeOK'
    BY <1>2, <2>1
       DEF prime_endpoints, Goto, Steps, SpinSteps, TypeOK, DriverTypeOK
  <2>5. QED
    BY <1>2, <2>3, <2>4
       DEF prime_endpoints, endptctrl, host, hist, TypeOK, ControllerTypeOK
<1>3. CASE prime_endpoints_done
  BY <1>3, EndpointsAssumption, BeginTypeOK
     DEF prime_endpoints_done, Finish, NoCall, Steps
<1>4. CASE spin
  <2>1. AfterSpin(pc) \in Steps
    BY <1>4 DEF spin, SpinSteps, AfterSpin, Steps
  <2>2. QED
    BY <1>4, <2>1, BeginTypeOK DEF spin, Goto, TypeOK, DriverTypeOK
<1>5. QED
  BY <1>1, <1>2, <1>3, <1>4

\* Every call begins in the types.
LEMMA ClassCallTypeOK ==
    ASSUME TypeOK, ClassCall
    PROVE  TypeOK'
<1> USE EndpointsAssumption, LengthsAssumption
<1>1. ASSUME NEW len \in Lengths, ctrl0_read(len) PROVE TypeOK'
  BY <1>1, BeginTypeOK DEF ctrl0_read, Begin, Steps, ReadSetupSteps
<1>2. ASSUME NEW len \in Lengths, ctrl0_write(len) PROVE TypeOK'
  BY <1>2, BeginTypeOK DEF ctrl0_write, Begin, Steps
<1>3. ASSUME NEW a \in Endpoints, NEW len \in Lengths, ep_read(a, len) PROVE TypeOK'
  BY <1>3, BeginTypeOK DEF ep_read, Begin, Steps
<1>4. ASSUME NEW a \in Endpoints, NEW len \in Lengths, ep_write(a, len) PROVE TypeOK'
  BY <1>4, BeginTypeOK DEF ep_write, Begin, Steps
<1>5. ASSUME NEW a \in Endpoints, NEW stall \in BOOLEAN, ep_stall(a, stall) PROVE TypeOK'
  BY <1>5 DEF ep_stall, set_stalled, Begin, Steps, TypeOK, ControllerTypeOK,
              DriverTypeOK, DescriptorsInBounds, arming, memory, host, hist, locals
<1>6. CASE on_configured
  BY <1>6 DEF on_configured, enable, Begin, Steps, TypeOK, ControllerTypeOK, DriverTypeOK,
              DescriptorsInBounds, arming, memory, hist
<1>7. QED
  BY <1>1, <1>2, <1>3, <1>4, <1>5, <1>6 DEF ClassCall

\* Every step keeps the types and the bounds.
LEMMA TypeOKStep == TypeOK /\ [Next]_vars => TypeOK'
<1>1. ASSUME TypeOK, UNCHANGED vars PROVE TypeOK'
  BY <1>1, BeginTypeOK DEF vars, driverVars, TypeOK, DriverTypeOK
<1>2. QED
  BY <1>1, PollTypeOK, ReadSetupTypeOK, TransferTypeOK, RestTypeOK,
     ClassCallTypeOK, EnvironmentTypeOK DEF Next, CallStep

\* Types, and no descriptor out of bounds: bytes_transferred never underflows.
THEOREM TypeCorrect == Spec => []TypeOK
<1>1. Init => TypeOK
  <2> SUFFICES ASSUME Init PROVE TypeOK
    OBVIOUS
  <2>1. ControllerTypeOK
    <3>1. td \in [Endpoints -> TransferDescriptor]
      BY DEF Init, ControllerInit, TransferDescriptor
    <3>2. buffer \in [Endpoints -> Packet]
      BY DEF Init, ControllerInit, Packet, Garbage
    <3>3. got \in [Endpoints -> Receipt]
      BY DEF Init, ControllerInit, Receipt
    <3>4. sent \in [Endpoints -> Nat] /\ before \in [Endpoints -> Nat]
      BY DEF Init, ControllerInit
    <3>5. QED
      BY <3>1, <3>2, <3>3, <3>4 DEF Init, ControllerInit, ControllerTypeOK
  <2>2. DriverTypeOK
    BY EndpointsAssumption DEF Init, DriverInit, DriverTypeOK, NoCall, Steps
  <2>3. DescriptorsInBounds
    <3>1. ASSUME NEW a \in Endpoints
          PROVE  td[a].total <= td[a].last /\ td[a].last <= MaxPacketLen[a]
      <4>1. td[a] = [status |-> "idle", total |-> 0, last |-> 0]
        BY DEF Init, ControllerInit
      <4>2. td[a].total = 0 /\ td[a].last = 0
        BY <4>1
      <4>3. 0 <= MaxPacketLen[a]
        BY PacketLength
      <4>4. QED
        BY <4>2, <4>3
    <3>2. QED
      BY <3>1 DEF DescriptorsInBounds
  <2>4. QED
    BY <2>1, <2>2, <2>3 DEF TypeOK
<1>2. QED
  BY <1>1, TypeOKStep, PTL DEF Spec

(***************************************************************************)
(* No lost wake-up.  EventsReported is inductive: most steps either raise  *)
(* UI, or leave what it reads alone outside the steps of poll().           *)
(***************************************************************************)

SamplingSteps == {"poll_erce", "poll_etce", "poll_clear", "poll_setup"}

\* A step outside the sampling of poll() that changes no event.
LEMMA QuietEvents ==
    ASSUME EventsReported, pc \notin SamplingSteps,
           UNCHANGED <<usbsts, setupstat, complete, unreported, ep_setup>>
    PROVE  EventsReported'
BY DEF EventsReported, CompletionSeen, SetupSeen, SamplingSteps

\* A step that raises UI and clears no completion unreported.
LEMMA RaisedEvents ==
    ASSUME "UI" \in usbsts',
           \A a \in unreported' : a # CtrlOut => a \in complete'
    PROVE  EventsReported'
BY DEF EventsReported, CompletionSeen, SetupSeen

\* The controller and the host move at any point of a call.
LEMMA EnvironmentEvents ==
    ASSUME EventsReported, EnvironmentStep
    PROVE  EventsReported'
<1>1. UNCHANGED <<pc, etce, ep_setup>>
  BY DEF EnvironmentStep, driverVars, locals
<1>2. ASSUME UNCHANGED <<usbsts, setupstat, complete, unreported>>
      PROVE  EventsReported'
  BY <1>1, <1>2 DEF EventsReported, CompletionSeen, SetupSeen
<1>3. ASSUME NEW a, NEW status, NEW total, Retire(a, status, total)
      PROVE  EventsReported'
  <2>1. /\ "UI" \in usbsts'
        /\ \A b \in unreported' : b # CtrlOut => b \in complete'
    BY <1>3 DEF Retire, EventsReported
  <2>2. QED
    BY <2>1, RaisedEvents
<1>4. CASE FlushDone
  BY <1>2, <1>4 DEF FlushDone, hist
<1>5. ASSUME NEW a \in Endpoints, PrimeDone(a) PROVE EventsReported'
  BY <1>2, <1>5 DEF PrimeDone, hist
<1>6. ASSUME NEW a \in Endpoints, NEW len \in Lengths,
             HostOut(a, len) \/ HostOverrun(a, len)
      PROVE  EventsReported'
  BY <1>3, <1>6 DEF HostOut, HostOverrun
<1>7. ASSUME NEW a \in Endpoints, HostIn(a) \/ Fault(a) PROVE EventsReported'
  BY <1>3, <1>7 DEF HostIn, Fault
<1>8. CASE HostSetup
  BY <1>8, RaisedEvents DEF HostSetup, hist, EventsReported
<1>9. CASE HostReset
  <2>1. /\ UNCHANGED <<setupstat, complete, unreported>>
        /\ usbsts \subseteq usbsts'
    BY <1>9 DEF HostReset, hist
  <2>2. QED
    BY <1>1, <2>1 DEF EventsReported, CompletionSeen, SetupSeen
<1>10. QED
  BY <1>4, <1>5, <1>6, <1>7, <1>8, <1>9 DEF EnvironmentStep, ControllerStep, HostStep

\* poll() lowers UI before it samples, and reports what it clears.
LEMMA PollEvents ==
    ASSUME TypeOK, EventsReported,
           \/ poll \/ poll_none \/ poll_uri \/ poll_ui \/ poll_erce \/ poll_etce
           \/ poll_clear \/ poll_setup
    PROVE  EventsReported'
<1> USE DEF EventsReported, CompletionSeen, SetupSeen, Goto, hist
<1>1. CASE poll
  BY <1>1 DEF poll, Begin, controllerVars
<1>2. CASE poll_none
  BY <1>2 DEF poll_none, vars, driverVars, locals, controllerVars
<1>3. CASE poll_uri
  BY <1>3 DEF poll_uri
<1>4. CASE poll_ui
  BY <1>4 DEF poll_ui, InEps
<1>5. CASE poll_erce
  BY <1>5 DEF poll_erce, InEps, TypeOK, ControllerTypeOK
<1>6. CASE poll_etce
  BY <1>6 DEF poll_etce, controllerVars
<1>7. CASE poll_clear
  BY <1>7 DEF poll_clear
<1>8. CASE poll_setup
  BY <1>8 DEF poll_setup, Finish, controllerVars, locals
<1>9. QED
  BY <1>1, <1>2, <1>3, <1>4, <1>5, <1>6, <1>7, <1>8

\* A packet taken is no longer unreported.
LEMMA TakePacketEvents ==
    ASSUME EventsReported, NEW a, NEW len, NEW step, step \notin SamplingSteps,
           take_packet(step, a, len)
    PROVE  EventsReported'
BY DEF take_packet, clear_complete, EventsReported, CompletionSeen, SetupSeen,
       SamplingSteps

\* The other steps of calls.
LEMMA CallEvents ==
    ASSUME EventsReported, CallStep,
           ~(\/ poll_uri \/ poll_ui \/ poll_erce \/ poll_etce \/ poll_clear \/ poll_setup)
    PROVE  EventsReported'
<1> USE DEF SamplingSteps
<1>1. CASE bus_reset
  BY <1>1 DEF bus_reset, EventsReported, CompletionSeen, SetupSeen
<1>2. CASE bus_reset_flush
  BY <1>2, QuietEvents DEF bus_reset_flush, hist
<1>3. CASE bus_reset_init
  BY <1>3, QuietEvents DEF bus_reset_init, initialize, hist
<1>4. CASE read_setup
  BY <1>4 DEF read_setup, hist, EventsReported, CompletionSeen, SetupSeen
<1>5. CASE read_setup_arm
  BY <1>5, QuietEvents DEF read_setup_arm, hist
<1>6. CASE read_setup_lo
  BY <1>6, QuietEvents DEF read_setup_lo, controllerVars, hist
<1>7. CASE read_setup_hi
  BY <1>7, QuietEvents DEF read_setup_hi, controllerVars, hist
<1>8. CASE read_setup_retry
  BY <1>8, QuietEvents DEF read_setup_retry, controllerVars, hist
<1>9. CASE read_setup_done
  BY <1>9, QuietEvents DEF read_setup_done, hist
<1>10. ASSUME NEW step, step \notin SamplingSteps, would_block(step)
       PROVE  EventsReported'
  BY <1>10, QuietEvents DEF would_block, controllerVars, hist
<1>11. ASSUME NEW step, step \notin SamplingSteps, NEW a, NEW len, NEW next,
              put_packet(step, a, len, next)
       PROVE  EventsReported'
  BY <1>11, QuietEvents DEF put_packet
<1>12. CASE ctrl0_read_data
  BY <1>10, <1>12, TakePacketEvents DEF ctrl0_read_data
<1>13. CASE ctrl0_write_data
  BY <1>10, <1>11, <1>13 DEF ctrl0_write_data
<1>14. CASE ctrl0_write_status
  BY <1>14 DEF ctrl0_write_status, clear_complete, hist, EventsReported,
               CompletionSeen, SetupSeen
<1>15. CASE ep_read_data
  BY <1>10, <1>15, TakePacketEvents DEF ep_read_data
<1>16. CASE ep_write_data
  BY <1>10, <1>11, <1>16 DEF ep_write_data
<1>17. CASE ctrl0_read_prime \/ ep_stall_prime
  BY <1>17, QuietEvents DEF ctrl0_read_prime, ep_stall_prime, prime_unprimed, hist
<1>18. CASE prime_endpoints
  BY <1>18, QuietEvents DEF prime_endpoints, hist
<1>19. CASE prime_endpoints_done
  BY <1>19, QuietEvents DEF prime_endpoints_done, controllerVars, hist
<1>20. CASE spin
  BY <1>20, QuietEvents DEF spin, SpinSteps, controllerVars, hist
<1>21. QED
  BY <1>1, <1>2, <1>3, <1>4, <1>5, <1>6, <1>7, <1>8, <1>9, <1>12, <1>13, <1>14,
     <1>15, <1>16, <1>17, <1>18, <1>19, <1>20 DEF CallStep

\* The calls the class begins.
LEMMA ClassCallEvents ==
    ASSUME EventsReported, ClassCall
    PROVE  EventsReported'
<1>1. pc = "idle" /\ UNCHANGED <<usbsts, setupstat, complete, unreported, ep_setup>>
  BY DEF ClassCall, ctrl0_read, ctrl0_write, ep_read, ep_write, ep_stall,
         on_configured, enable, Begin, controllerVars, hist
<1>2. QED
  BY <1>1, QuietEvents DEF SamplingSteps

\* No completion and no SETUP is ever pending with nothing to tell poll() so.
THEOREM NoLostWakeUp == Spec => []EventsReported
<1>1. Init => EventsReported
  BY DEF Init, ControllerInit, EventsReported
<1>2. TypeOK /\ EventsReported /\ [Next]_vars => EventsReported'
  <2>1. ASSUME EventsReported, UNCHANGED vars PROVE EventsReported'
    BY <2>1 DEF vars, driverVars, locals, controllerVars, hist, EventsReported,
                CompletionSeen, SetupSeen
  <2>2. QED
    BY <2>1, PollEvents, CallEvents, ClassCallEvents, EnvironmentEvents DEF Next
<1>3. QED
  BY <1>1, <1>2, TypeCorrect, PTL DEF Spec

(***************************************************************************)
(* SETUP data.  SetupIntact speaks of what read_setup returned; while it   *)
(* loads, an unbroken tripwire says that what it has loaded so far is the  *)
(* last SETUP the host sent.                                               *)
(***************************************************************************)

SetupInv ==
    /\ SetupIntact
    /\ sutw /\ pc = "read_setup_hi" => lo = setup
    /\ sutw /\ pc = "read_setup_check" => lo = setup /\ hi = setup

\* A step outside read_setup.
LEMMA QuietSetup ==
    ASSUME SetupInv, pc \notin ReadSetupSteps,
           pc' \notin {"read_setup_hi", "read_setup_check"},
           UNCHANGED <<setup, setupstat, setupRead>>
    PROVE  SetupInv'
BY DEF SetupInv, SetupIntact

\* The controller and the host.
LEMMA EnvironmentSetup ==
    ASSUME SetupInv, EnvironmentStep
    PROVE  SetupInv'
<1>1. UNCHANGED <<pc, lo, hi, setupRead>>
  BY DEF EnvironmentStep, driverVars, locals
<1>2. CASE UNCHANGED <<setup, setupstat, sutw>>
  BY <1>1, <1>2 DEF SetupInv, SetupIntact
<1>3. CASE HostSetup
  BY <1>1, <1>3 DEF HostSetup, SetupInv, SetupIntact
<1>4. ASSUME NEW a, NEW status, NEW total, Retire(a, status, total)
      PROVE  UNCHANGED <<setup, setupstat, sutw>>
  BY <1>4 DEF Retire
<1>5. ASSUME ~HostSetup PROVE UNCHANGED <<setup, setupstat, sutw>>
  BY <1>4, <1>5 DEF EnvironmentStep, ControllerStep, HostStep, FlushDone, PrimeDone,
                    HostOut, HostOverrun, HostIn, Fault, HostReset, memory
<1>6. QED
  BY <1>2, <1>3, <1>5

\* The steps of read_setup.
LEMMA ReadSetupSetup ==
    ASSUME SetupInv,
           \/ read_setup \/ read_setup_arm \/ read_setup_lo \/ read_setup_hi
           \/ read_setup_retry \/ read_setup_done
    PROVE  SetupInv'
<1> USE DEF SetupInv, SetupIntact, ReadSetupSteps, Goto
<1>1. CASE read_setup
  BY <1>1 DEF read_setup
<1>2. CASE read_setup_arm
  BY <1>2 DEF read_setup_arm
<1>3. CASE read_setup_lo
  BY <1>3 DEF read_setup_lo, controllerVars, memory
<1>4. CASE read_setup_hi
  BY <1>4 DEF read_setup_hi, controllerVars, memory
<1>5. CASE read_setup_retry
  BY <1>5 DEF read_setup_retry, controllerVars, memory
<1>6. CASE read_setup_done
  BY <1>6 DEF read_setup_done, Finish, memory
<1>7. QED
  BY <1>1, <1>2, <1>3, <1>4, <1>5, <1>6

\* The other steps of calls, and the calls the class begins, have nothing to do
\* with SETUPs, but for the call that finds one flagged and goes to read it.
Aside ==
    /\ UNCHANGED <<setup, setupstat, setupRead>>
    /\ pc \notin ReadSetupSteps
    /\ pc' \in ReadSetupSteps => pc' = "read_setup" /\ setupstat

LEMMA OthersAside ==
    ASSUME poll \/ poll_none \/ CallStep \/ ClassCall,
           ~(\/ read_setup \/ read_setup_arm \/ read_setup_lo \/ read_setup_hi
             \/ read_setup_retry \/ read_setup_done)
    PROVE  Aside \/ UNCHANGED <<setup, setupstat, setupRead, pc, lo, hi, sutw>>
<1> USE DEF Aside, Goto, Finish, Begin, ReadSetupSteps, SpinSteps, memory
<1>1. CASE \/ poll_uri \/ poll_ui \/ poll_erce \/ poll_etce \/ poll_clear \/ poll_setup
  BY <1>1
     DEF poll_uri, poll_ui, poll_erce, poll_etce, poll_clear, poll_setup, controllerVars
<1>2. CASE bus_reset \/ bus_reset_flush \/ bus_reset_init
  BY <1>2 DEF bus_reset, bus_reset_flush, bus_reset_init, initialize
<1>3. CASE ctrl0_read_data \/ ep_read_data
  BY <1>3
     DEF ctrl0_read_data, ep_read_data, would_block, take_packet, controllerVars
<1>4. CASE ctrl0_write_data \/ ep_write_data
  BY <1>4
     DEF ctrl0_write_data, ep_write_data, would_block, put_packet, controllerVars
<1>5. CASE ctrl0_read_prime \/ ctrl0_write_status \/ ep_stall_prime
  BY <1>5 DEF ctrl0_read_prime, ctrl0_write_status, ep_stall_prime, prime_unprimed
<1>6. CASE prime_endpoints \/ prime_endpoints_done \/ spin
  <2>1. UNCHANGED <<setup, setupstat, setupRead>>
    BY <1>6 DEF prime_endpoints, prime_endpoints_done, spin, controllerVars
  <2>2. pc \notin ReadSetupSteps /\ pc' \notin ReadSetupSteps
    BY <1>6 DEF prime_endpoints, prime_endpoints_done, spin, AfterSpin
  <2>3. QED
    BY <2>1, <2>2
<1>7. CASE poll \/ ClassCall
  BY <1>7
     DEF poll, ClassCall, ctrl0_read, ctrl0_write, ep_read, ep_write, ep_stall,
         on_configured, enable, has_setup, controllerVars
<1>8. CASE poll_none
  BY <1>8 DEF poll_none, vars, driverVars, locals, controllerVars
<1>9. QED
  BY <1>1, <1>2, <1>3, <1>4, <1>5, <1>6, <1>7, <1>8 DEF CallStep

\* Nor do they disturb what has been read.
LEMMA OtherSetup ==
    ASSUME SetupInv, poll \/ poll_none \/ CallStep \/ ClassCall,
           ~(\/ read_setup \/ read_setup_arm \/ read_setup_lo \/ read_setup_hi
             \/ read_setup_retry \/ read_setup_done)
    PROVE  SetupInv'
<1>1. CASE Aside
  <2>1. pc' \notin {"read_setup_hi", "read_setup_check"}
    BY <1>1 DEF Aside, ReadSetupSteps
  <2>2. QED
    BY <1>1, <2>1, QuietSetup DEF Aside
<1>2. CASE UNCHANGED <<setup, setupstat, setupRead, pc, lo, hi, sutw>>
  BY <1>2 DEF SetupInv, SetupIntact
<1>3. QED
  BY <1>1, <1>2, OthersAside

LEMMA SetupInvAlways == Spec => []SetupInv
<1>1. Init => SetupInv
  BY DEF Init, ControllerInit, DriverInit, SetupInv, SetupIntact
<1>2. SetupInv /\ [Next]_vars => SetupInv'
  <2>1. ASSUME SetupInv, UNCHANGED vars PROVE SetupInv'
    BY <2>1 DEF vars, driverVars, locals, controllerVars, memory, SetupInv, SetupIntact
  <2>2. QED
    BY <2>1, ReadSetupSetup, OtherSetup, EnvironmentSetup DEF Next
<1>3. QED
  BY <1>1, <1>2, PTL DEF Spec

\* SETUP data is handed over whole, and the last SETUP is never lost.
THEOREM SetupNeverTorn == Spec => []SetupIntact
<1>1. SetupInv => SetupIntact
  BY DEF SetupInv
<1>2. QED
  BY <1>1, SetupInvAlways, PTL

(***************************************************************************)
(* The mailbox.  The class is never ahead of the host; and a SETUP flagged *)
(* while one is being read, after the flag was cleared, is one the class   *)
(* has not been given.                                                     *)
(***************************************************************************)
Fresh ==
    /\ setupRead.lo <= setup
    /\ setupstat /\ pc \in ReadSetupSteps /\ pc # "read_setup" => setupRead.lo < setup

\* What the numbers are.
LEMMA SetupNumbers ==
    ASSUME TypeOK
    PROVE  /\ setup \in Nat /\ setupstat \in BOOLEAN
           /\ setupRead \in [n : Nat, lo : Nat, hi : Nat] /\ setupRead.lo \in Nat
BY DEF TypeOK, ControllerTypeOK, DriverTypeOK

\* The host sends a SETUP, or does not touch SETUPs at all.
LEMMA EnvironmentArrives ==
    ASSUME EnvironmentStep
    PROVE  /\ UNCHANGED <<pc, setupRead>>
           /\ \/ UNCHANGED <<setup, setupstat>>
              \/ setup' = setup + 1 /\ setupstat' = TRUE
<1>1. UNCHANGED <<pc, setupRead>>
  BY DEF EnvironmentStep, driverVars
<1>2. CASE HostSetup
  BY <1>1, <1>2 DEF HostSetup
<1>3. ASSUME NEW a, NEW status, NEW total, Retire(a, status, total)
      PROVE  UNCHANGED <<setup, setupstat>>
  BY <1>3 DEF Retire
<1>4. CASE ~HostSetup
  BY <1>1, <1>3, <1>4 DEF EnvironmentStep, ControllerStep, HostStep, FlushDone, PrimeDone,
                    HostOut, HostOverrun, HostIn, Fault, HostReset, memory
<1>5. QED
  BY <1>2, <1>4

\* read_setup goes from step to step, and takes a SETUP in its last.
LEMMA ReadSetupMoves ==
    ASSUME \/ read_setup \/ read_setup_arm \/ read_setup_lo \/ read_setup_hi
           \/ read_setup_retry
    PROVE  /\ UNCHANGED <<setup, setupRead>>
           /\ pc \in ReadSetupSteps /\ pc' \in ReadSetupSteps
           /\ \/ pc = "read_setup" /\ setupstat' = FALSE
              \/ pc # "read_setup" /\ setupstat' = setupstat
BY DEF read_setup, read_setup_arm, read_setup_lo, read_setup_hi, read_setup_retry,
       Goto, ReadSetupSteps, controllerVars, memory

LEMMA ReadSetupTakes ==
    ASSUME SetupInv, read_setup_done
    PROVE  /\ UNCHANGED <<setup, setupstat>>
           /\ pc = "read_setup_check" /\ pc' \notin ReadSetupSteps
           /\ setupRead' = [n |-> setupRead.n + 1, lo |-> setup, hi |-> setup]
BY DEF SetupInv, read_setup_done, Finish, ReadSetupSteps, memory

LEMMA FreshStep == TypeOK /\ SetupInv /\ Fresh /\ [Next]_vars => Fresh'
<1> SUFFICES ASSUME TypeOK, SetupInv, Fresh, [Next]_vars PROVE Fresh'
  OBVIOUS
<1>0. setup \in Nat /\ setupRead.lo \in Nat
  BY SetupNumbers
<1>1. CASE read_setup_done
  <2>1. setup' = setup /\ setupRead'.lo = setup /\ pc' \notin ReadSetupSteps
    BY <1>1, ReadSetupTakes
  <2>2. QED
    BY <1>0, <2>1 DEF Fresh
<1>2. CASE \/ read_setup \/ read_setup_arm \/ read_setup_lo \/ read_setup_hi
           \/ read_setup_retry
  <2>1. UNCHANGED <<setup, setupRead>> /\ pc \in ReadSetupSteps
    BY <1>2, ReadSetupMoves
  <2>2. setupstat' = FALSE \/ (pc # "read_setup" /\ setupstat' = setupstat)
    BY <1>2, ReadSetupMoves
  <2>3. QED
    BY <2>1, <2>2 DEF Fresh
<1>3. CASE EnvironmentStep
  <2>1. UNCHANGED <<pc, setupRead>>
    BY <1>3, EnvironmentArrives
  <2>2. CASE UNCHANGED <<setup, setupstat>>
    BY <2>1, <2>2 DEF Fresh
  <2>3. CASE setup' = setup + 1
    BY <1>0, <2>1, <2>3 DEF Fresh
  <2>4. QED
    BY <1>3, <2>2, <2>3, EnvironmentArrives
<1>4. CASE Aside
  BY <1>4 DEF Aside, Fresh
<1>5. CASE UNCHANGED <<setup, setupstat, setupRead, pc>>
  BY <1>5 DEF Fresh
<1>6. CASE UNCHANGED vars
  BY <1>5, <1>6 DEF vars, driverVars, controllerVars, memory
<1>7. QED
  BY <1>1, <1>2, <1>3, <1>4, <1>5, <1>6, OthersAside DEF Next

\* Every step leaves the mailbox alone, puts a SETUP in, or takes one.
LEMMA StepMails ==
    ASSUME TypeOK, SetupInv, Fresh, [Next]_vars
    PROVE  [Mailbox!Next]_Mailbox!mailbox
<1> DEFINE flagged == setupstat \/ pc \in ReadSetupSteps
<1> USE SetupNumbers
<1>1. CASE read_setup_done
  <2>1. /\ setup' = setup /\ flagged /\ flagged' = setupstat
        /\ setupRead' = [n |-> setupRead.n + 1, lo |-> setup, hi |-> setup]
    BY <1>1, ReadSetupTakes DEF ReadSetupSteps
  <2>2. setupRead.lo = setupRead.hi
    BY DEF SetupInv, SetupIntact
  <2>3. flagged' => setupRead.lo # setup
    BY <1>1, <2>1, ReadSetupTakes DEF Fresh, ReadSetupSteps
  <2> HIDE DEF flagged
  <2>4. Mailbox!Take
    BY <2>1, <2>2, <2>3 DEF Mailbox!Take, flagged
  <2>5. QED
    BY <2>4 DEF Mailbox!Next
<1>2. CASE UNCHANGED <<setup, setupRead>> /\ flagged' = flagged
  BY <1>2 DEF Mailbox!mailbox
<1>3. CASE \/ read_setup \/ read_setup_arm \/ read_setup_lo \/ read_setup_hi
           \/ read_setup_retry
  BY <1>2, <1>3, ReadSetupMoves
<1>4. CASE EnvironmentStep
  <2>1. CASE UNCHANGED <<setup, setupstat>>
    BY <1>2, <1>4, <2>1, EnvironmentArrives
  <2>2. CASE setup' = setup + 1 /\ setupstat' = TRUE
    <3>1. setupRead' = setupRead
      BY <1>4, EnvironmentArrives
    <3>2. QED
      BY <2>2, <3>1 DEF Mailbox!Next, Mailbox!Arrive
  <2>3. QED
    BY <1>4, <2>1, <2>2, EnvironmentArrives
<1>5. CASE Aside
  BY <1>2, <1>5 DEF Aside
<1>6. CASE UNCHANGED <<setup, setupstat, setupRead, pc>>
  BY <1>2, <1>6
<1>7. CASE UNCHANGED vars
  BY <1>6, <1>7 DEF vars, driverVars, controllerVars, memory
<1>8. QED
  BY <1>1, <1>3, <1>4, <1>5, <1>6, <1>7, OthersAside DEF Next

(***************************************************************************)
(* Reading a SETUP, in five steps and a loop between which the host sends  *)
(* what it likes, is taking the last one at an instant, twice at most.     *)
(***************************************************************************)
THEOREM SetupsAreMailed == Spec => ImplementsMailbox
<1>1. Init => Mailbox!Init /\ Fresh
  BY DEF Init, ControllerInit, DriverInit, Mailbox!Init, Fresh, ReadSetupSteps
<1>2. TypeOK /\ SetupInv /\ Fresh /\ [Next]_vars => [Mailbox!Next]_Mailbox!mailbox
  BY StepMails
<1>3. QED
  BY <1>1, <1>2, FreshStep, TypeCorrect, SetupInvAlways, PTL
     DEF Spec, ImplementsMailbox, Mailbox!Spec
=============================================================================
