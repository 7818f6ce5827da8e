------------------------------ MODULE PacketPipe ------------------------------
(***************************************************************************)
(* What the driver promises of an endpoint, seen from the two sides that   *)
(* use it: a pipe that holds at most one packet, bus.rs:94-103, taken      *)
(* once, in order and whole but for what the taker has no room for.        *)
(* Registers, descriptors and calls are out of sight.                      *)
(***************************************************************************)
EXTENDS Integers

CONSTANTS
    Pipes,
    FromHost   \* the pipes the host puts into and the class takes from

VARIABLES
    sent,     \* the number of packets put into each pipe
    got,      \* the last packet taken from it
    held,     \* the packet in it
    room,     \* the room the taker of each has; set from outside
    restarting, \* the pipes being restarted; set from outside
    trouble   \* the bus has been reset, or a transfer has failed

pipeVars == <<sent, got, held, trouble>>

Empty == [id |-> 0, len |-> 0]

Init ==
    /\ sent = [a \in Pipes |-> 0]
    /\ got = [a \in Pipes |-> [n |-> 0, id |-> 0, len |-> 0]]
    /\ held = [a \in Pipes |-> Empty]
    /\ trouble = FALSE

\* A packet goes into an empty pipe.
Put(a) ==
    /\ held[a] = Empty
    /\ sent' = [sent EXCEPT ![a] = @ + 1]
    /\ held' = [held EXCEPT ![a] = [id |-> sent'[a], len |-> held'[a].len]]
    /\ UNCHANGED <<got, trouble>>

\* The packet is taken, cut to the room there is.
Take(a) ==
    /\ held[a] # Empty
    /\ got' = [got EXCEPT ![a] =
                 [n |-> @.n + 1, id |-> held[a].id,
                  len |-> IF held[a].len <= room[a] THEN held[a].len ELSE room[a]]]
    /\ held' = [held EXCEPT ![a] = Empty]
    /\ UNCHANGED <<sent, trouble>>

\* Packets are lost: from any pipe where there is trouble, and without it from
\* those being restarted.
Lose ==
    /\ trouble => trouble'
    /\ \E lost \in SUBSET Pipes :
         /\ trouble' \/ lost \subseteq restarting
         /\ held' = [a \in Pipes |-> IF a \in lost THEN Empty ELSE held[a]]
    /\ UNCHANGED <<sent, got>>

\* After trouble a read of an empty pipe may return what is no packet: bytes of
\* a failed reception, or nothing, as a packet.
Stray(a) ==
    /\ trouble /\ a \in FromHost
    /\ held[a] = Empty
    /\ got' = [got EXCEPT ![a] = [n |-> @.n + 1, id |-> got'[a].id,
                                  len |-> got'[a].len]]
    /\ UNCHANGED <<sent, held, trouble>>

Next == Lose \/ \E a \in Pipes : Put(a) \/ Take(a) \/ Stray(a)

Spec == Init /\ [][Next]_pipeVars
=============================================================================
