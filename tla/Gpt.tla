---------------------------------- MODULE Gpt ----------------------------------
(***************************************************************************)
(* The general purpose timers of gpt.rs, and the two registers they share  *)
(* with the driver: USBSTS, whose flags a write of one lowers, and USBINTR. *)
(* The timers count, and the bus raises UI and URI, between any two calls. *)
(***************************************************************************)
EXTENDS Integers

CONSTANTS
    Timers,   \* of Instance
    MaxLoad,  \* the largest 24-bit value
    Micros    \* what set_load is called with

\* USBSTS.TIn and USBINTR.TIEn go by the name of their timer.
BusFlags == {"UI", "URI"}

ASSUME GptAssumption ==
    /\ MaxLoad \in Nat \ {0} /\ Micros \subseteq Nat
    /\ Timers \cap BusFlags = {}

VARIABLES
    usbsts, usbintr,  \* the flags raised, and those that may interrupt
    ld, cnt,          \* GPTIMERnLD and the counter
    run, mode,        \* GPTRUN and GPTMODE
    halted,           \* a one-shot timer has elapsed and waits for reset()
    \* history
    asked, due,       \* what set_load was last called with; when cnt was loaded
    age,              \* the microseconds counted since
    lapse,            \* what the last elapsed count was due to take, and took
    elapsed,          \* the timers elapsed since their last clear_elapsed()
    traffic,          \* UI and URI raised since poll() last acknowledged them
    wanted            \* the flags asked to interrupt

registers == <<usbsts, usbintr>>
counters == <<ld, cnt, run, mode, halted, asked, due, age, lapse>>
wishes == <<elapsed, traffic, wanted>>
vars == <<registers, counters, wishes>>

TypeOK ==
    /\ usbsts \subseteq Timers \cup BusFlags /\ usbintr \subseteq Timers \cup BusFlags
    /\ ld \in [Timers -> 0 .. MaxLoad - 1] /\ cnt \in [Timers -> 0 .. MaxLoad - 1]
    /\ run \in [Timers -> BOOLEAN] /\ halted \in [Timers -> BOOLEAN]
    /\ mode \in [Timers -> {"OneShot", "Repeat"}]
    /\ asked \in [Timers -> Nat] /\ due \in [Timers -> Nat] /\ age \in [Timers -> Nat]
    /\ lapse \in [Timers -> Nat \X Nat]
    /\ elapsed \subseteq Timers /\ traffic \subseteq BusFlags
    /\ wanted \subseteq Timers \cup BusFlags

\* Driver::initialize has reset the controller, acknowledged USBSTS and
\* disabled all interrupts.
Init ==
    /\ usbsts = {} /\ usbintr = {}
    /\ ld = [g \in Timers |-> 0] /\ cnt = ld
    /\ run = [g \in Timers |-> FALSE] /\ halted = run
    /\ mode = [g \in Timers |-> "OneShot"]
    /\ asked = ld /\ due = ld /\ age = ld
    /\ lapse = [g \in Timers |-> <<0, 1>>]
    /\ elapsed = {} /\ traffic = {} /\ wanted = {}
-----------------------------------------------------------------------------
\* The counter is loaded: by reset(), or by a repeating timer that elapses.
Load(g) ==
    /\ cnt' = [cnt EXCEPT ![g] = ld[g]]
    /\ due' = [due EXCEPT ![g] = asked[g]]
    /\ age' = [age EXCEPT ![g] = 0]

\* A microsecond passes for a timer that counts ...
Count(g) ==
    /\ run[g] /\ ~halted[g] /\ cnt[g] > 0
    /\ cnt' = [cnt EXCEPT ![g] = @ - 1]
    /\ age' = [age EXCEPT ![g] = @ + 1]
    /\ UNCHANGED <<registers, ld, run, mode, halted, asked, due, lapse, wishes>>

\* ... or has counted down to zero.
Elapse(g) ==
    /\ run[g] /\ ~halted[g] /\ cnt[g] = 0
    /\ usbsts' = usbsts \cup {g}
    /\ elapsed' = elapsed \cup {g}
    /\ lapse' = [lapse EXCEPT ![g] = <<due[g], age[g] + 1>>]
    /\ IF mode[g] = "Repeat"
         THEN Load(g) /\ UNCHANGED halted
         ELSE halted' = [halted EXCEPT ![g] = TRUE] /\ UNCHANGED <<cnt, due, age>>
    /\ UNCHANGED <<usbintr, ld, run, mode, asked, traffic, wanted>>

\* The bus has something for poll().
Raise(flag) ==
    /\ usbsts' = usbsts \cup {flag}
    /\ traffic' = traffic \cup {flag}
    /\ UNCHANGED <<usbintr, counters, elapsed, wanted>>
-----------------------------------------------------------------------------
run_stop(g, on) ==
    /\ run' = [run EXCEPT ![g] = on]
    /\ UNCHANGED <<registers, ld, cnt, mode, halted, asked, due, age, lapse, wishes>>

reset(g) ==
    /\ Load(g)
    /\ halted' = [halted EXCEPT ![g] = FALSE]
    /\ UNCHANGED <<registers, ld, run, mode, asked, lapse, wishes>>

set_mode(g, m) ==
    /\ mode' = [mode EXCEPT ![g] = m]
    /\ UNCHANGED <<registers, ld, cnt, run, halted, asked, due, age, lapse, wishes>>

clamp(us, lo, hi) == IF us < lo THEN lo ELSE IF us > hi THEN hi ELSE us

\* Defects to try in the place of load_count: the count is not one less than the
\* delay, or the clamp is at zero.
load_count_whole(us) == clamp(us, 1, MaxLoad)
load_count_from_zero(us) == clamp(us - 1, 0, MaxLoad)

load_count(us) == clamp(us, 1, MaxLoad) - 1

set_load(g, us) ==
    /\ ld' = [ld EXCEPT ![g] = load_count(us)]
    /\ asked' = [asked EXCEPT ![g] = us]
    /\ UNCHANGED <<registers, cnt, run, mode, halted, due, age, lapse, wishes>>

\* A defect to try in the place of write_usbsts: as modify_reg would do it, the
\* flags read are written back, which lowers them.
modify_usbsts(flag) == {}

\* What a write of one flag leaves of USBSTS.
write_usbsts(flag) == usbsts \ {flag}

clear_elapsed(g) ==
    /\ usbsts' = write_usbsts(g)
    /\ elapsed' = elapsed \ {g}
    /\ UNCHANGED <<usbintr, counters, traffic, wanted>>

\* Driver::poll acknowledges URI, or else UI.
poll(flag) ==
    /\ flag \in usbsts
    /\ flag = "UI" => "URI" \notin usbsts
    /\ usbsts' = write_usbsts(flag)
    /\ traffic' = traffic \ {flag}
    /\ UNCHANGED <<usbintr, counters, elapsed, wanted>>

\* A defect to try in the place of modify_usbintr: as write_reg would do it.
write_usbintr(flags, on) == IF on THEN flags ELSE {}

modify_usbintr(flags, on) == IF on THEN usbintr \cup flags ELSE usbintr \ flags

\* set_interrupt_enabled of a timer, or set_interrupts of the driver.  The load and
\* the store of USBINTR are one step: both are made with the Driver borrowed to be
\* changed, and the controller does not write the register.
set_interrupts(flags, on) ==
    /\ usbintr' = modify_usbintr(flags, on)
    /\ wanted' = IF on THEN wanted \cup flags ELSE wanted \ flags
    /\ UNCHANGED <<usbsts, counters, elapsed, traffic>>

Next ==
    \/ \E g \in Timers :
         \/ Count(g) \/ Elapse(g)
         \/ \E on \in BOOLEAN : run_stop(g, on) \/ set_interrupts({g}, on)
         \/ reset(g) \/ clear_elapsed(g)
         \/ \E m \in {"OneShot", "Repeat"} : set_mode(g, m)
         \/ \E us \in Micros : set_load(g, us)
    \/ \E flag \in BusFlags : Raise(flag) \/ poll(flag)
    \/ \E on \in BOOLEAN : set_interrupts(BusFlags, on)

Spec == Init /\ [][Next]_vars
-----------------------------------------------------------------------------
(***************************************************************************)
(* A timer elapses as many microseconds after its count was loaded as      *)
(* set_load was asked for by then, at least one and at most MaxLoad, as    *)
(* set_load documents, whatever is set, stopped or run meanwhile.          *)
(***************************************************************************)
Punctual == \A g \in Timers : lapse[g][2] = clamp(lapse[g][1], 1, MaxLoad)

(***************************************************************************)
(* Timers and bus do not lose each other's flags, though clear_elapsed and *)
(* poll write the same register: an elapsed timer says so until it is      *)
(* cleared, and what the bus raised stays up until poll() has seen it.     *)
(***************************************************************************)
FlagsKept == elapsed \cup traffic \subseteq usbsts

(***************************************************************************)
(* An elapsed timer asked to interrupt does so whatever the driver's own   *)
(* interrupts are set to, as set_interrupt_enabled documents, and a bus    *)
(* event does whatever the timers' are set to.                             *)
(***************************************************************************)
Interrupting ==
    (elapsed \cup traffic) \cap wanted \subseteq usbsts \cap usbintr
=============================================================================
