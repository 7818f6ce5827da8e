------------------------------ MODULE DriverClaims ------------------------------
(***************************************************************************)
(* What comments of the source say of the driver, and the code does not    *)
(* keep: each is refuted by a run.                                         *)
(***************************************************************************)
EXTENDS Driver

(***************************************************************************)
(* endpoint.rs:194-195, on schedule_transfer: "Caller should check to see  *)
(* if there is an active transfer, or if the previous transfer resulted in *)
(* an error or halt".  ep_read and ep_write do not re-arm a transfer that  *)
(* has failed.                                                             *)
(***************************************************************************)
ErrorsChecked ==
    [][pc' # pc /\ td' # td /\ pc \in {"ep_read", "ep_write"} =>
         check_errors(call.ep)]_vars

(***************************************************************************)
(* endpoint.rs:101-102, on initialize: "called ... after transitioning out *)
(* of configuration (reset the endpoint)".  No IN endpoint enters a new    *)
(* session with the failure of a transfer of the last one, for which       *)
(* ep_write would return InvalidState ever after.  (configure() primes an  *)
(* OUT endpoint, and its failure is gone.)                                 *)
(***************************************************************************)
EndpointsReset ==
    [][pc = "reset_init" /\ session' = "off" =>
         \A a \in InEps \cap NonZero : td'[a].status # "error"]_vars

(***************************************************************************)
(* The same comment, on the packets: after a bus reset ep_read returns no  *)
(* packet that came before it.                                             *)
(***************************************************************************)
PacketsReset ==
    [][\A a \in OutEps \cap NonZero :
         got'[a].n # got[a].n /\ got'[a].len > 0 => got'[a].id > before[a]]_vars
=============================================================================
