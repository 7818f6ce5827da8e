--------------------------- MODULE DriverProperties ---------------------------
(***************************************************************************)
(* What the driver, its controller and the host must keep true together.   *)
(***************************************************************************)
EXTENDS Driver

(***************************************************************************)
(* Types and arithmetic.  A descriptor never asks for more than the        *)
(* endpoint's buffer holds, and last_transfer_size - total_bytes, which    *)
(* Td::bytes_transferred computes without a sign, never underflows         *)
(* whatever call, failure or re-arming came before.                        *)
(***************************************************************************)
DescriptorsInBounds ==
    \A a \in Endpoints : td[a].total <= td[a].last /\ td[a].last <= MaxPacketLen[a]

TypeOK == ControllerTypeOK /\ DriverTypeOK /\ DescriptorsInBounds

(***************************************************************************)
(* No lost wake-up.  poll() lowers UI before it samples the completions    *)
(* and ENDPTSETUPSTAT; a completion or a SETUP that comes at any moment of *)
(* a poll() is either seen by it or leaves UI up for the next.  No         *)
(* completion is cleared unreported and unread but in two places:          *)
(* ctrl0_write drops one of EP0 OUT to arm the status phase, and bus_reset *)
(* discards all there are.                                                 *)
(***************************************************************************)
CompletionSeen(a) ==
    \/ "UI" \in usbsts
    \/ pc = "poll_erce"
    \/ a \in InEps /\ pc = "poll_etce"
    \/ a \in etce /\ pc = "poll_clear"

SetupSeen ==
    \/ "UI" \in usbsts
    \/ ep_setup
    \/ pc \in {"poll_erce", "poll_etce", "poll_clear", "poll_setup"}

EventsReported ==
    /\ \A a \in unreported : /\ a # CtrlOut => a \in complete
                             /\ a \in complete => CompletionSeen(a)
    /\ setupstat => SetupSeen

(***************************************************************************)
(* SETUP data is neither torn nor lost.  What read_setup returns is one    *)
(* SETUP packet, both words of it, however often the host sends another    *)
(* meanwhile; and whenever no SETUP is flagged and none is being read, the *)
(* class has been given the last one the host sent.                        *)
(***************************************************************************)
SetupIntact ==
    /\ setupRead.lo = setupRead.hi
    /\ ~setupstat /\ pc \notin ReadSetupSteps => setupRead.lo = setup

(***************************************************************************)
(* SETUPs pass through a SetupMailbox.  read_setup clears the flag, arms   *)
(* the tripwire and loads two words, with the host writing whenever it     *)
(* likes, and amounts to taking the last SETUP at the instant it returns;  *)
(* one SETUP is taken twice at most, and an older never after a newer.     *)
(***************************************************************************)
Mailbox == INSTANCE SetupMailbox WITH
    latest <- setup,
    taken <- [n |-> setupRead.n,
              id |-> IF setupRead.lo = setupRead.hi THEN setupRead.lo ELSE -1],
    pending <- setupstat \/ pc \in ReadSetupSteps

ImplementsMailbox == Mailbox!Spec

(***************************************************************************)
(* The driver leaves alone what the controller owns.  While a transfer is  *)
(* armed or its prime request is pending, no call changes its descriptor   *)
(* or its buffer or primes it again: the is_primed checks suffice,         *)
(* although the controller moves between them and the writes.  configure() *)
(* checks nothing and is left out: it rewrites the active descriptor of an *)
(* OUT endpoint that unstalling has armed before it.                       *)
(***************************************************************************)
Owned(a) == a \in stat \cup prime
Untouched(a) ==
    td'[a] = td[a] /\ buffer'[a] = buffer[a] /\ (a \in prime' => a \in prime)

TransferOwned ==
    [][pc' # pc /\ pc # "prime_endpoints" =>
         \A a \in Endpoints : Owned(a) => Untouched(a)]_vars

(***************************************************************************)
(* The endpoints are the pipes of PacketPipe, all but EP0 OUT, which       *)
(* ctrl0_write arms anew for the status phase over a packet that may not   *)
(* have been read, and with no room for another.  One descriptor and one   *)
(* buffer that both sides reuse hold one packet at most; it is taken once, *)
(* in order, at the length it was written with, and is not written over,   *)
(* until a transfer fails, the bus is reset, or the class unstalls the     *)
(* endpoint.  A packet to the host is in its pipe as long as its transfer  *)
(* is armed or being primed; one from the host, from the end of its        *)
(* transfer to its reading or the scheduling of the next.                  *)
(***************************************************************************)
PipeEps == NonZero \cup {CtrlIn}

Filled(a) ==
    IF a \in InEps THEN Owned(a)
                   ELSE td[a].status = "idle" /\ buffer[a].id > got[a].id

\* The OUT endpoints a call is about to arm although they may hold a packet: one
\* that is unstalled, and in configure() those unstalling may have armed before.
Restarting ==
    {a \in OutEps \cap StallEps : a \in todo \/ (pc = "ep_stall" /\ a = call.ep)}

Pipe == INSTANCE PacketPipe WITH
    Pipes <- PipeEps, FromHost <- OutEps,
    sent <- [a \in PipeEps |-> sent[a]],
    got <- [a \in PipeEps |-> got[a]],
    held <- [a \in PipeEps |-> IF Filled(a) THEN buffer[a] ELSE Garbage],
    room <- [a \in PipeEps |-> IF a \in InEps THEN MaxPacketLen[a] ELSE call.len],
    restarting <- Restarting,
    trouble <- faults > 0 \/ resets > 0

ImplementsPipe == Pipe!Spec

(***************************************************************************)
(* A configured OUT endpoint never goes deaf.  It is armed, or about to be *)
(* by configure(), or holds a completed packet that poll() has reported or *)
(* will report, until a transfer on it fails.                              *)
(***************************************************************************)
NeverDeaf ==
    session = "on" =>
      \A a \in NonZero \cap OutEps :
        \/ a \in todo
        \/ Owned(a)
        \/ a \in complete /\ a \in ep_out \cup unreported
        \/ ~check_errors(a)

(***************************************************************************)
(* When bus_reset re-initialises the endpoints nothing of the old session  *)
(* is left for the new one: no transfer is armed or being primed, and no   *)
(* completion of a non-zero endpoint is pending, although primes are       *)
(* taken, and transfers of endpoint 0 go on, between the steps of          *)
(* bus_reset.  (The host has left the non-zero endpoints when it resets    *)
(* the bus, and completes none of theirs meanwhile.)                       *)
(***************************************************************************)
ResetQuiesces ==
    pc = "reset_init" /\ ~flush =>
      stat = {} /\ prime = {} /\ complete \cap NonZero = {}

(***************************************************************************)
(* A packet written before a bus reset never reaches the host after it,    *)
(* nor does a control answer: bus_reset flushes the transfer, and nothing  *)
(* re-arms an IN endpoint over the packet left in its buffer.              *)
(***************************************************************************)
FreshAfterReset ==
    [][\A a \in InEps : got'[a] # got[a] => got'[a].id > before[a]]_vars

(***************************************************************************)
(* A failed IN transfer ends its endpoint for the session.  The driver     *)
(* arms an IN endpoint only in a write, check_errors refuses every write   *)
(* that finds the failure, and nothing else clears it, no unstalling and   *)
(* no call on another endpoint: it sends no packet any more.  A write that *)
(* was past its check_errors when the transfer failed replaces it; a bus   *)
(* reset and configure() begin a new session, and what they do to a        *)
(* failure is left open; so is endpoint 0, which a SETUP may begin anew.   *)
(***************************************************************************)
WritePastCheck(a) == pc = "ep_write" /\ a = call.ep

Failed(a) == td[a].status = "error" /\ ~WritePastCheck(a)

\* A step of bus_reset or of configure().
Renews ==
    /\ pc' # pc
    /\ \/ pc \in {"reset", "reset_flush", "reset_init", "prime_endpoints"}
       \/ pc' = "prime_endpoints"

FailedStaysOut ==
    [][\A a \in InEps \cap NonZero :
         Failed(a) => got'[a] = got[a] /\ (Failed(a)' \/ Renews)]_vars

(***************************************************************************)
(* Every completion is accounted for, however the class's calls fall       *)
(* between the polls: it is reported by a later poll(), or its packet is   *)
(* read before, or a bus reset comes and bus_reset discards it.  Two of    *)
(* one IN endpoint with no poll() between them are reported as one.  EP0   *)
(* OUT is excepted as above.                                               *)
(***************************************************************************)
CompletionsReported ==
    \A a \in Endpoints \ {CtrlOut} : a \in unreported ~> a \notin unreported

(***************************************************************************)
(* Every SETUP is read: one that is flagged, in the middle of a poll() or  *)
(* of the reading of the last one, with a bus reset or without, is         *)
(* reported by a later poll() and taken by the read that answers it.       *)
(***************************************************************************)
SetupsRead == setupstat ~> ~setupstat

(***************************************************************************)
(* Every call returns: the spin loops on ENDPTPRIME and ENDPTFLUSH end,    *)
(* and so does the tripwire loop of read_setup under a burst of SETUPs.    *)
(***************************************************************************)
CallsReturn == pc # "idle" ~> pc = "idle"
=============================================================================
