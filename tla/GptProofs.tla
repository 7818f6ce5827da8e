------------------------------- MODULE GptProofs -------------------------------
(***************************************************************************)
(* The timers of gpt.rs, however many, with loads and delays of any size.  *)
(***************************************************************************)
EXTENDS Gpt, TLAPS

\* A clamp between 1 and MaxLoad is one of the numbers between them.
LEMMA ClampInRange ==
    ASSUME NEW us \in Nat
    PROVE  clamp(us, 1, MaxLoad) \in 1 .. MaxLoad
BY GptAssumption DEF clamp

(***************************************************************************)
(* Registers, counters and histories keep their types, and a count its 24  *)
(* bits, whatever delay is asked for.                                      *)
(***************************************************************************)
THEOREM TypeCorrect == Spec => []TypeOK
<1>1. Init => TypeOK
  BY GptAssumption DEF Init, TypeOK
<1>2. TypeOK /\ [Next]_vars => TypeOK'
  <2> SUFFICES ASSUME TypeOK, [Next]_vars PROVE TypeOK'
    OBVIOUS
  <2>1. ASSUME NEW g \in Timers, Count(g) PROVE TypeOK'
    BY <2>1, GptAssumption DEF Count, TypeOK, registers, counters, wishes
  <2>2. ASSUME NEW g \in Timers, Elapse(g) PROVE TypeOK'
    <3>1. /\ usbsts' \subseteq Timers \cup BusFlags /\ elapsed' \subseteq Timers
          /\ UNCHANGED <<usbintr, ld, run, mode, asked, traffic, wanted>>
      BY <2>2 DEF Elapse, TypeOK
    <3>2. lapse' \in [Timers -> Nat \X Nat]
      <4>1. lapse' = [lapse EXCEPT ![g] = <<due[g], age[g] + 1>>]
        BY <2>2 DEF Elapse
      <4>2. <<due[g], age[g] + 1>> \in Nat \X Nat
        BY DEF TypeOK
      <4> QED
        BY <4>1, <4>2 DEF TypeOK
    <3>3. /\ cnt' \in [Timers -> 0 .. MaxLoad - 1] /\ halted' \in [Timers -> BOOLEAN]
          /\ due' \in [Timers -> Nat] /\ age' \in [Timers -> Nat]
      <4>1. CASE Load(g) /\ UNCHANGED halted
        BY <4>1 DEF Load, TypeOK
      <4>2. CASE halted' = [halted EXCEPT ![g] = TRUE] /\ UNCHANGED <<cnt, due, age>>
        BY <4>2 DEF TypeOK
      <4> QED
        BY <2>2, <4>1, <4>2 DEF Elapse
    <3> QED
      BY <3>1, <3>2, <3>3 DEF TypeOK
  <2>3. ASSUME NEW g \in Timers, NEW on \in BOOLEAN, run_stop(g, on) PROVE TypeOK'
    BY <2>3 DEF run_stop, TypeOK, registers, counters, wishes
  <2>4. ASSUME NEW g \in Timers, reset(g) PROVE TypeOK'
    BY <2>4 DEF reset, Load, TypeOK, registers, counters, wishes
  <2>5. ASSUME NEW g \in Timers, clear_elapsed(g) PROVE TypeOK'
    BY <2>5 DEF clear_elapsed, write_usbsts, TypeOK, registers, counters, wishes
  <2>6. ASSUME NEW g \in Timers, NEW m \in {"OneShot", "Repeat"}, set_mode(g, m) PROVE TypeOK'
    BY <2>6 DEF set_mode, TypeOK, registers, counters, wishes
  <2>7. ASSUME NEW g \in Timers, NEW us \in Micros, set_load(g, us) PROVE TypeOK'
    <3>1. us \in Nat
      BY GptAssumption
    <3>2. load_count(us) \in 0 .. MaxLoad - 1
      BY <3>1, ClampInRange, GptAssumption DEF load_count
    <3> QED
      BY <2>7, <3>1, <3>2 DEF set_load, TypeOK, registers, counters, wishes
  <2>8. ASSUME NEW flag \in BusFlags, Raise(flag) PROVE TypeOK'
    BY <2>8 DEF Raise, TypeOK, registers, counters, wishes
  <2>9. ASSUME NEW flag \in BusFlags, poll(flag) PROVE TypeOK'
    BY <2>9 DEF poll, write_usbsts, TypeOK, registers, counters, wishes
  <2>10. ASSUME NEW flags \in SUBSET (Timers \cup BusFlags), NEW on \in BOOLEAN,
                set_interrupts(flags, on)
         PROVE  TypeOK'
    BY <2>10 DEF set_interrupts, modify_usbintr, TypeOK, registers, counters, wishes
  <2>11. CASE UNCHANGED vars
    BY <2>11 DEF vars, TypeOK, registers, counters, wishes
  <2>12. ASSUME NEW g \in Timers PROVE {g} \subseteq Timers \cup BusFlags
    OBVIOUS
  <2>13. BusFlags \subseteq Timers \cup BusFlags
    OBVIOUS
  <2> QED
    BY <2>1, <2>2, <2>3, <2>4, <2>5, <2>6, <2>7, <2>8, <2>9, <2>10, <2>11, <2>12, <2>13
       DEF Next
<1> QED
  BY <1>1, <1>2, PTL DEF Spec

(***************************************************************************)
(* What is left of a count and what is counted of it add up, with the      *)
(* microsecond of elapsing itself, to the delay it was loaded for; the     *)
(* load register stands for the delay asked for last.                      *)
(***************************************************************************)
CountsAddUp ==
    \A g \in Timers :
      /\ age[g] + cnt[g] + 1 = clamp(due[g], 1, MaxLoad)
      /\ ld[g] + 1 = clamp(asked[g], 1, MaxLoad)

\* Every step keeps the sums, and has a timer that elapses do so on time.
LEMMA PunctualStep ==
    TypeOK /\ CountsAddUp /\ Punctual /\ [Next]_vars => (CountsAddUp /\ Punctual)'
<1> SUFFICES ASSUME TypeOK, CountsAddUp, Punctual, [Next]_vars
             PROVE  (CountsAddUp /\ Punctual)'
  OBVIOUS
<1> USE DEF CountsAddUp, Punctual, registers, counters, wishes
<1>1. ASSUME NEW g \in Timers, Count(g) PROVE (CountsAddUp /\ Punctual)'
  <2>1. /\ cnt' = [cnt EXCEPT ![g] = cnt[g] - 1] /\ age' = [age EXCEPT ![g] = age[g] + 1]
        /\ UNCHANGED <<ld, asked, due, lapse>>
    BY <1>1 DEF Count
  <2>2. \A h \in Timers : cnt[h] \in Int /\ age[h] \in Int
    BY GptAssumption DEF TypeOK
  <2>3. ASSUME NEW h \in Timers PROVE age'[h] + cnt'[h] = age[h] + cnt[h]
    BY <2>1, <2>2 DEF TypeOK
  <2>4. \A h \in Timers : cnt'[h] \in Int /\ age'[h] \in Int
    BY <2>1, <2>2 DEF TypeOK
  <2> QED
    BY <2>1, <2>2, <2>3, <2>4
<1>2. ASSUME NEW g \in Timers, Elapse(g) PROVE (CountsAddUp /\ Punctual)'
  <2>1. /\ lapse' = [lapse EXCEPT ![g] = <<due[g], age[g] + 1>>] /\ cnt[g] = 0
        /\ ld' = ld /\ asked' = asked
    BY <1>2 DEF Elapse
  <2>2. Punctual'
    BY <2>1 DEF TypeOK
  <2>3. CASE Load(g)
    BY <2>1, <2>2, <2>3 DEF Load, TypeOK
  <2>4. CASE UNCHANGED <<cnt, due, age>>
    BY <2>1, <2>2, <2>4
  <2> QED
    BY <1>2, <2>3, <2>4 DEF Elapse
<1>3. ASSUME NEW g \in Timers, NEW on \in BOOLEAN, run_stop(g, on)
      PROVE  (CountsAddUp /\ Punctual)'
  BY <1>3 DEF run_stop
<1>4. ASSUME NEW g \in Timers, reset(g) PROVE (CountsAddUp /\ Punctual)'
  BY <1>4 DEF reset, Load, TypeOK
<1>5. ASSUME NEW g \in Timers, NEW us \in Micros, set_load(g, us)
      PROVE  (CountsAddUp /\ Punctual)'
  <2>1. us \in Nat
    BY GptAssumption
  <2>2. load_count(us) + 1 = clamp(us, 1, MaxLoad)
    BY <2>1, ClampInRange, GptAssumption DEF load_count
  <2> QED
    BY <1>5, <2>2 DEF set_load, TypeOK
<1>6. ASSUME NEW g \in Timers, NEW m, set_mode(g, m) PROVE (CountsAddUp /\ Punctual)'
  BY <1>6 DEF set_mode
<1>7. CASE UNCHANGED counters
  BY <1>7
<1>8. ASSUME NEW g \in Timers, clear_elapsed(g) PROVE (CountsAddUp /\ Punctual)'
  BY <1>8 DEF clear_elapsed
<1>9. ASSUME NEW flag, Raise(flag) \/ poll(flag) PROVE (CountsAddUp /\ Punctual)'
  BY <1>9 DEF Raise, poll
<1>10. ASSUME NEW flags, NEW on, set_interrupts(flags, on) PROVE (CountsAddUp /\ Punctual)'
  BY <1>10 DEF set_interrupts
<1> QED
  BY <1>1, <1>2, <1>3, <1>4, <1>5, <1>6, <1>7, <1>8, <1>9, <1>10 DEF Next, vars

(***************************************************************************)
(* A timer elapses as many microseconds after its count was loaded as      *)
(* set_load had asked for, whatever the calls between, for any clamp.      *)
(***************************************************************************)
THEOREM ElapsesOnTime == Spec => []Punctual
<1>1. Init => CountsAddUp /\ Punctual
  BY GptAssumption DEF Init, CountsAddUp, Punctual, clamp
<1> QED
  BY <1>1, PunctualStep, TypeCorrect, PTL DEF Spec

\* What is enabled in USBINTR is what was last asked to be.
EnabledAsWanted == usbintr = wanted

\* No step loses a flag of the other side, nor its enabling.
LEMMA FlagsStep ==
    TypeOK /\ FlagsKept /\ EnabledAsWanted /\ [Next]_vars => (FlagsKept /\ EnabledAsWanted)'
<1> SUFFICES ASSUME TypeOK, FlagsKept, EnabledAsWanted, [Next]_vars
             PROVE  (FlagsKept /\ EnabledAsWanted)'
  OBVIOUS
<1> USE DEF FlagsKept, EnabledAsWanted, registers, wishes
<1>1. ASSUME NEW g \in Timers, Elapse(g) PROVE (FlagsKept /\ EnabledAsWanted)'
  BY <1>1 DEF Elapse
<1>2. ASSUME NEW g \in Timers, clear_elapsed(g) PROVE (FlagsKept /\ EnabledAsWanted)'
  BY <1>2, GptAssumption DEF clear_elapsed, write_usbsts, TypeOK
<1>3. ASSUME NEW flag \in BusFlags, Raise(flag) \/ poll(flag)
      PROVE  (FlagsKept /\ EnabledAsWanted)'
  BY <1>3, GptAssumption DEF Raise, poll, write_usbsts, TypeOK
<1>4. ASSUME NEW flags, NEW on, set_interrupts(flags, on)
      PROVE  (FlagsKept /\ EnabledAsWanted)'
  BY <1>4 DEF set_interrupts, modify_usbintr
<1>5. CASE UNCHANGED <<registers, wishes>>
  BY <1>5
<1> QED
  BY <1>1, <1>2, <1>3, <1>4, <1>5
     DEF Next, vars, Count, run_stop, reset, set_mode, set_load

(***************************************************************************)
(* Neither clear_elapsed nor poll lowers a flag that is the other's.       *)
(***************************************************************************)
THEOREM NoFlagLost == Spec => []FlagsKept
<1>1. Init => FlagsKept /\ EnabledAsWanted
  BY DEF Init, FlagsKept, EnabledAsWanted
<1> QED
  BY <1>1, FlagsStep, TypeCorrect, PTL DEF Spec

(***************************************************************************)
(* What has come up and is asked to interrupt does, whoever set USBINTR    *)
(* last.                                                                   *)
(***************************************************************************)
THEOREM NoInterruptLost == Spec => []Interrupting
<1>1. Init => FlagsKept /\ EnabledAsWanted
  BY DEF Init, FlagsKept, EnabledAsWanted
<1>2. FlagsKept /\ EnabledAsWanted => Interrupting
  BY DEF FlagsKept, EnabledAsWanted, Interrupting
<1> QED
  BY <1>1, <1>2, FlagsStep, TypeCorrect, PTL DEF Spec
=============================================================================
