----------------------------- MODULE ControlProofs -----------------------------
(***************************************************************************)
(* The ENDPTCTRL registers, for any endpoints of any types, any number of  *)
(* calls and SETUPs at any moment.                                         *)
(***************************************************************************)
EXTENDS EndpointControl, TLAPS

\* The places of allocated endpoints are among those of the registers.
LEMMA AllocatedPlaces == Allocated \subseteq Places
BY ControlAssumption DEF Places

\* The type of an endpoint fits its field, whatever else its attributes say.
LEMMA TypeFits ==
    ASSUME NEW a \in Allocated
    PROVE  into_raw_endpoint_type(Attributes[a]) \in 0 .. 3
BY ControlAssumption DEF into_raw_endpoint_type

\* What a call makes of a half is one.
LEMMA ModifiedHalf ==
    ASSUME NEW a \in Allocated, NEW half \in Half
    PROVE  modified(a, half) \in Half
<1>1. enable(a, half) \in Half /\ initialize(half) \in Half
  <2>1. into_raw_endpoint_type(Attributes[a]) \in 0 .. 3 /\ Bulk \in 0 .. 3
    BY TypeFits DEF Bulk
  <2> QED
    BY <2>1 DEF enable, initialize, Half
<1>2. [half EXCEPT !.S = Bit(op = "stall")] \in Half
  <2>1. \A s \in 0 .. 1 : [half EXCEPT !.S = s] \in Half
    BY DEF Half
  <2>2. Bit(op = "stall") \in 0 .. 1
    BY DEF Bit
  <2> QED
    BY <2>1, <2>2
<1> QED
  BY <1>1, <1>2 DEF modified

\* There is one endpoint the iterator is at.
LEMMA CurrentUnique ==
    ASSUME todo \subseteq Allocated, NEW a, Current(a), NEW b, Current(b)
    PROVE  a = b
BY ControlAssumption DEF Current

(***************************************************************************)
(* The registers hold their fields, and no call writes a type wider than   *)
(* its field.                                                              *)
(***************************************************************************)
THEOREM TypeCorrect == Spec => []TypeOK
<1>1. Init => TypeOK
  <2> SUFFICES ASSUME Init PROVE TypeOK
    OBVIOUS
  <2>1. \A a \in Places : [Cleared EXCEPT !.E = Bit(a \in Zero)] \in Half
    BY DEF Cleared, Half, Bit
  <2>2. ENDPTCTRL \in [Places -> Half]
    BY <2>1 DEF Init
  <2> QED
    BY <2>2 DEF Init, TypeOK
<1>2. TypeOK /\ [Next]_vars => TypeOK'
  <2> SUFFICES ASSUME TypeOK, [Next]_vars PROVE TypeOK'
    OBVIOUS
  <2>1. ASSUME NEW o \in {"enable", "initialize", "stall", "unstall"},
               NEW eps \in SUBSET Allocated, Begin(o, eps),
               session' \in {"none", "configured", "reset"}, meant' \subseteq Allocated
        PROVE  TypeOK'
    BY <2>1 DEF Begin, TypeOK, Current
  <2>2. CASE configure
    BY <2>1, <2>2 DEF configure, NonZero, TypeOK
  <2>3. CASE reset
    BY <2>1, <2>3 DEF reset, NonZero, TypeOK
  <2>4. ASSUME NEW a \in Addresses, NEW stall \in BOOLEAN, set_stalled(a, stall)
        PROVE  TypeOK'
    <3>1. a \in Allocated /\ {a} \in SUBSET Allocated
      BY <2>4 DEF set_stalled, is_allocated
    <3>2. meant' \subseteq Allocated /\ session' = session
      BY <2>4, <3>1 DEF set_stalled, TypeOK
    <3> QED
      BY <2>1, <2>4, <3>1, <3>2 DEF set_stalled, TypeOK
  <2>5. CASE read_setup
    BY <2>5 DEF read_setup, TypeOK, Current
  <2>6. CASE modify_reg_load
    <3>1. PICK a \in todo : Current(a) /\ word' = [b \in register(a) |-> ENDPTCTRL[b]]
      BY <2>6 DEF modify_reg_load
    <3>2. word' \in [register(a) -> Half]
      BY <3>1 DEF TypeOK, register
    <3> QED
      BY <2>6, <3>1, <3>2 DEF modify_reg_load, TypeOK, Current
  <2>7. ASSUME NEW a \in todo, modify_reg_store(a) PROVE TypeOK'
    <3>1. a \in Allocated /\ Current(a) /\ pc = "store"
      BY <2>7 DEF modify_reg_store, TypeOK
    <3>2. word \in [register(a) -> Half]
      BY <3>1, CurrentUnique DEF TypeOK
    <3>3. \A b \in register(a) : stored(a, b) \in Half
      BY <3>1, <3>2, ModifiedHalf DEF stored
    <3>4. \A half \in Half : [half EXCEPT !.S = 0] \in Half
      BY DEF Half
    <3>5. ENDPTCTRL' \in [Places -> Half]
      BY <2>7, <3>3, <3>4 DEF modify_reg_store, TypeOK
    <3> QED
      BY <2>7, <3>5 DEF modify_reg_store, TypeOK
  <2>8. CASE HostSetup
    <3>1. \A half \in Half : [half EXCEPT !.S = 0] \in Half
      BY DEF Half
    <3> QED
      BY <2>8, <3>1 DEF HostSetup, TypeOK, Current
  <2>9. CASE UNCHANGED vars
    BY <2>9 DEF vars, TypeOK, Current
  <2> QED
    BY <2>2, <2>3, <2>4, <2>5, <2>6, <2>7, <2>8, <2>9 DEF Next
<1> QED
  BY <1>1, <1>2, PTL DEF Spec

-----------------------------------------------------------------------------
\* What the controller makes of a half written to endpoint a's place.
Lifted(a, half) == IF a \in Zero /\ setupstat THEN [half EXCEPT !.S = 0] ELSE half

(***************************************************************************)
(* The settings along a call: those of the endpoints it has done, or does  *)
(* not concern, are as they should be; what it has still to do would make  *)
(* the others so; and what it has loaded differs from the register at most *)
(* by a stall that a SETUP has lifted since, and will lift again.          *)
(***************************************************************************)
DoneSettled == \A a \in Places \ todo : ENDPTCTRL[a] = Setting(a)
TodoSettles == \A a \in todo : Lifted(a, modified(a, ENDPTCTRL[a])) = Setting(a)
LoadedFresh ==
    pc = "store" =>
      \A a \in todo, b \in Places :
        Current(a) /\ b \in register(a) => Lifted(b, word[b]) = ENDPTCTRL[b]
SetupLifts == setupstat => \A a \in Zero : ENDPTCTRL[a].S = 0

Settling == DoneSettled /\ TodoSettles /\ LoadedFresh /\ SetupLifts

\* A lifted stall leaves the rest of a change as it is.
LEMMA LiftedModified ==
    ASSUME NEW a \in Allocated, NEW half \in Half
    PROVE  Lifted(a, modified(a, Lifted(a, half))) = Lifted(a, modified(a, half))
<1>1. CASE ~(a \in Zero /\ setupstat)
  BY <1>1 DEF Lifted
<1>2. CASE a \in Zero /\ setupstat
  <2>1. PICK e \in 0 .. 1, s \in 0 .. 1, t \in 0 .. 3 : half = [E |-> e, S |-> s, T |-> t]
    BY DEF Half
  <2>2. Lifted(a, half) = [E |-> e, S |-> 0, T |-> t]
    BY <1>2, <2>1 DEF Lifted
  <2> QED
    BY <1>2, <2>1, <2>2 DEF Lifted, modified, enable, initialize
<1> QED
  BY <1>1, <1>2

\* A store gives its endpoint what it should have, and changes no other.
LEMMA StoreSettles ==
    ASSUME TypeOK, Settling, NEW a \in todo, modify_reg_store(a)
    PROVE  ENDPTCTRL' = [b \in Places |-> IF b = a THEN Setting(a) ELSE ENDPTCTRL[b]]
<1>1. a \in Allocated /\ a \in Places /\ Current(a) /\ pc = "store"
  BY AllocatedPlaces DEF modify_reg_store, TypeOK
<1>2. word \in [register(a) -> Half]
  BY <1>1, CurrentUnique DEF TypeOK
<1>3. ENDPTCTRL' = [b \in Places |->
                      IF b \notin register(a) THEN ENDPTCTRL[b] ELSE Lifted(b, stored(a, b))]
  BY DEF modify_reg_store, Lifted
<1>4. \A b \in register(a) : b \in Places /\ Lifted(b, word[b]) = ENDPTCTRL[b]
  BY <1>1 DEF Settling, LoadedFresh, register
<1>5. a \in register(a)
  BY <1>1 DEF register
<1>6. Lifted(a, stored(a, a)) = Setting(a)
  <2>1. Lifted(a, modified(a, word[a])) = Lifted(a, modified(a, ENDPTCTRL[a]))
    BY <1>1, <1>2, <1>4, <1>5, LiftedModified
  <2> QED
    BY <2>1 DEF stored, Settling, TodoSettles
<1>7. \A b \in register(a) : b # a => Lifted(b, stored(a, b)) = ENDPTCTRL[b]
  BY <1>4 DEF stored
<1> QED
  BY <1>3, <1>5, <1>6, <1>7

\* The settings of an endpoint depend on the histories alone.
LEMMA SettlingInit == Init => Settling
<1> SUFFICES ASSUME Init PROVE Settling
  OBVIOUS
<1>1. \A a \in Places : Setting(a) = ENDPTCTRL[a]
  <2> SUFFICES ASSUME NEW a \in Places PROVE Setting(a) = ENDPTCTRL[a]
    OBVIOUS
  <2>1. Enabled(a) = Bit(a \in Zero) /\ Stalled(a) = 0 /\ Type(a) = 0
    BY DEF Init, Enabled, Stalled, Bit, Type
  <2> QED
    BY <2>1 DEF Init, Setting, Cleared
<1>2. DoneSettled
  BY <1>1 DEF DoneSettled
<1>3. TodoSettles /\ LoadedFresh /\ SetupLifts
  BY DEF Init, TodoSettles, LoadedFresh, SetupLifts
<1> QED
  BY <1>2, <1>3 DEF Settling

\* A call over all non-zero endpoints sets out with what it will settle.
LEMMA BeginSettles ==
    ASSUME TypeOK, Settling, configure \/ reset
    PROVE  Settling'
<1>1. /\ pc = "idle" /\ todo = {}
      /\ ENDPTCTRL' = ENDPTCTRL /\ setupstat' = setupstat /\ meant' = meant
      /\ todo' = NonZero /\ pc' # "store"
      /\ \/ op' = "enable" /\ session' = "configured"
         \/ op' = "initialize" /\ session' = "reset"
  BY DEF configure, reset, Begin, TypeOK
<1>2. \A a \in Places : ENDPTCTRL[a] = Setting(a)
  BY <1>1 DEF Settling, DoneSettled
<1>3. DoneSettled'
  <2>1. ASSUME NEW a \in Places \ NonZero
        PROVE  Enabled(a)' = Enabled(a) /\ Stalled(a)' = Stalled(a) /\ Type(a)' = Type(a)
    BY <1>1, <2>1 DEF Enabled, Bit, Stalled, Type
  <2> QED
    BY <1>1, <1>2, <2>1 DEF DoneSettled, Setting
<1>4. TodoSettles'
  <2> SUFFICES ASSUME NEW a \in NonZero
               PROVE  (Lifted(a, modified(a, ENDPTCTRL[a])))' = Setting(a)'
    BY <1>1 DEF TodoSettles
  <2>1. a \in Places /\ a \notin Zero
    BY AllocatedPlaces DEF NonZero
  <2>2. ENDPTCTRL'[a] = [E |-> Enabled(a), S |-> Stalled(a), T |-> Type(a)]
    BY <1>1, <1>2, <2>1 DEF Setting
  <2>3. Stalled(a)' = Stalled(a)
    BY <1>1 DEF Stalled
  <2>4. CASE op' = "enable" /\ session' = "configured"
    <3>1. Enabled(a)' = 1 /\ Type(a)' = into_raw_endpoint_type(Attributes[a])
      BY <2>4 DEF Enabled, Bit, Type
    <3>2. modified(a, ENDPTCTRL[a])' = Setting(a)'
      BY <2>2, <2>3, <2>4, <3>1 DEF modified, enable, into_raw_endpoint_type, Setting
    <3> QED
      BY <2>1, <3>2 DEF Lifted
  <2>5. CASE op' = "initialize" /\ session' = "reset"
    <3>1. Enabled(a)' = 0 /\ Type(a)' = Bulk
      BY <2>1, <2>5 DEF Enabled, Bit, Type
    <3>2. modified(a, ENDPTCTRL[a])' = Setting(a)'
      BY <2>2, <2>3, <2>5, <3>1 DEF modified, initialize, Bulk, Setting
    <3> QED
      BY <2>1, <3>2 DEF Lifted
  <2> QED
    BY <1>1, <2>4, <2>5
<1>5. LoadedFresh' /\ SetupLifts'
  BY <1>1 DEF Settling, LoadedFresh, SetupLifts
<1> QED
  BY <1>3, <1>4, <1>5 DEF Settling

\* And so does a call for one endpoint.
LEMMA StallSettles ==
    ASSUME TypeOK, Settling, NEW a \in Addresses, NEW stall \in BOOLEAN, set_stalled(a, stall)
    PROVE  Settling'
<1>1. /\ pc = "idle" /\ todo = {} /\ a \in Allocated /\ a \in Places
      /\ ENDPTCTRL' = ENDPTCTRL /\ setupstat' = setupstat /\ session' = session
      /\ todo' = {a} /\ pc' # "store"
      /\ op' = (IF stall THEN "stall" ELSE "unstall")
  BY AllocatedPlaces DEF set_stalled, is_allocated, Begin, TypeOK
<1>2. \A b \in Places : ENDPTCTRL[b] = Setting(b)
  BY <1>1 DEF Settling, DoneSettled
<1>3. /\ a \in meant' <=> stall /\ ~(a \in Zero /\ setupstat)
      /\ \A b : b # a => (b \in meant' <=> b \in meant)
  BY DEF set_stalled
<1>4. ASSUME NEW b
      PROVE  /\ Enabled(b)' = Enabled(b) /\ Type(b)' = Type(b)
             /\ b # a => Stalled(b)' = Stalled(b)
  BY <1>1, <1>3 DEF Enabled, Bit, Type, Stalled
<1>5. DoneSettled'
  <2> SUFFICES ASSUME NEW b \in Places, b # a PROVE ENDPTCTRL'[b] = Setting(b)'
    BY <1>1 DEF DoneSettled
  <2>1. ENDPTCTRL[b] = [E |-> Enabled(b), S |-> Stalled(b), T |-> Type(b)]
    BY <1>2 DEF Setting
  <2> QED
    BY <1>1, <1>4, <2>1 DEF Setting
<1>6. TodoSettles'
  <2>1. ENDPTCTRL'[a] = [E |-> Enabled(a), S |-> Stalled(a), T |-> Type(a)]
    BY <1>1, <1>2 DEF Setting
  <2>2. Bit(op' = "stall") = Bit(stall) /\ op' \in {"stall", "unstall"}
    BY <1>1 DEF Bit
  <2>3. modified(a, ENDPTCTRL[a])' = [E |-> Enabled(a), S |-> Bit(stall), T |-> Type(a)]
    BY <2>1, <2>2 DEF modified, Bit
  <2>4. Stalled(a)' = IF a \in Zero /\ setupstat THEN 0 ELSE Bit(stall)
    BY <1>3 DEF Stalled, Bit
  <2>5. Lifted(a, modified(a, ENDPTCTRL[a]))' =
          [E |-> Enabled(a), S |-> Stalled(a)', T |-> Type(a)]
    BY <1>1, <2>3, <2>4 DEF Lifted
  <2>6. Enabled(a)' = Enabled(a) /\ Type(a)' = Type(a)
    BY <1>4
  <2>7. Lifted(a, modified(a, ENDPTCTRL[a]))' = Setting(a)'
    BY <2>5, <2>6 DEF Setting
  <2> QED
    BY <1>1, <2>7 DEF TodoSettles
<1>7. LoadedFresh' /\ SetupLifts'
  BY <1>1 DEF Settling, LoadedFresh, SetupLifts
<1> QED
  BY <1>5, <1>6, <1>7 DEF Settling

\* A SETUP lifts the stall wherever it stands: in the register, in what was
\* loaded of it, and in what is meant.
LEMMA SetupSettles ==
    ASSUME TypeOK, Settling, HostSetup
    PROVE  Settling'
<1>1. /\ setupstat' = TRUE /\ meant' = meant \ Zero
      /\ ENDPTCTRL' = [a \in Places |-> IF a \in Zero THEN [ENDPTCTRL[a] EXCEPT !.S = 0]
                                                      ELSE ENDPTCTRL[a]]
      /\ UNCHANGED <<pc, op, todo, word, session>>
  BY DEF HostSetup
<1>2. Zero \subseteq Places /\ ENDPTCTRL \in [Places -> Half] /\ todo \subseteq Places
  BY AllocatedPlaces DEF Zero, Places, TypeOK
<1>3. SetupLifts'
  BY <1>1, <1>2 DEF SetupLifts, Half
<1>4. ASSUME NEW a
      PROVE  /\ Enabled(a)' = Enabled(a) /\ Type(a)' = Type(a)
             /\ a \in Zero => Stalled(a)' = 0
             /\ a \notin Zero => Stalled(a)' = Stalled(a)
  BY <1>1 DEF Enabled, Bit, Type, Stalled
<1>5. DoneSettled'
  <2> SUFFICES ASSUME NEW a \in Places \ todo PROVE ENDPTCTRL'[a] = Setting(a)'
    BY <1>1 DEF DoneSettled
  <2>1. ENDPTCTRL[a] = [E |-> Enabled(a), S |-> Stalled(a), T |-> Type(a)]
    BY DEF Settling, DoneSettled, Setting
  <2> QED
    BY <1>1, <1>4, <2>1 DEF Setting
<1>6. TodoSettles'
  <2> SUFFICES ASSUME NEW a \in todo
               PROVE  Lifted(a, modified(a, ENDPTCTRL[a]))' = Setting(a)'
    BY <1>1 DEF TodoSettles
  <2>1. a \in Places /\ a \in Allocated /\ ENDPTCTRL[a] \in Half
    BY <1>2 DEF TypeOK
  <2>2. Lifted(a, modified(a, ENDPTCTRL[a])) = Setting(a)
    BY DEF Settling, TodoSettles
  <2>3. CASE a \notin Zero
    <3>1. ENDPTCTRL'[a] = ENDPTCTRL[a] /\ Setting(a)' = Setting(a)
      BY <1>1, <1>4, <2>1, <2>3 DEF Setting
    <3> QED
      BY <1>1, <2>2, <2>3, <3>1 DEF Lifted, modified
  <2>4. CASE a \in Zero
    <3>1. modified(a, ENDPTCTRL[a]) \in Half /\ modified(a, ENDPTCTRL'[a]) \in Half
      BY <1>1, <2>1, <2>4, ModifiedHalf DEF Half
    <3>2. /\ modified(a, ENDPTCTRL'[a]).E = modified(a, ENDPTCTRL[a]).E
          /\ modified(a, ENDPTCTRL'[a]).T = modified(a, ENDPTCTRL[a]).T
      BY <1>1, <2>1, <2>4 DEF modified, Bit, enable, initialize, Half
    <3>3. modified(a, ENDPTCTRL[a]).E = Enabled(a) /\ modified(a, ENDPTCTRL[a]).T = Type(a)
      BY <2>2, <3>1 DEF Lifted, Setting, Half
    <3>4. [modified(a, ENDPTCTRL'[a]) EXCEPT !.S = 0] =
            [E |-> Enabled(a), S |-> 0, T |-> Type(a)]
      BY <3>1, <3>2, <3>3 DEF Half
    <3>5. Lifted(a, modified(a, ENDPTCTRL[a]))' = [modified(a, ENDPTCTRL'[a]) EXCEPT !.S = 0]
      BY <1>1, <2>4 DEF Lifted, modified
    <3> QED
      BY <1>4, <2>4, <3>4, <3>5 DEF Setting
  <2> QED
    BY <2>3, <2>4
<1>7. LoadedFresh'
  <2> SUFFICES ASSUME pc = "store", NEW a \in todo, NEW b \in Places,
                      Current(a), b \in register(a)
               PROVE  Lifted(b, word[b])' = ENDPTCTRL'[b]
    BY <1>1 DEF LoadedFresh, Current, register
  <2>1. Lifted(b, word[b]) = ENDPTCTRL[b]
    BY DEF Settling, LoadedFresh
  <2>2. word[b] \in Half
    BY CurrentUnique DEF TypeOK
  <2> QED
    BY <1>1, <1>2, <2>1, <2>2 DEF Lifted, Half
<1> QED
  BY <1>3, <1>5, <1>6, <1>7 DEF Settling

LEMMA SettlingStep == TypeOK /\ Settling /\ [Next]_vars => Settling'
<1> SUFFICES ASSUME TypeOK, Settling, [Next]_vars PROVE Settling'
  OBVIOUS
<1>1. CASE configure \/ reset
  BY <1>1, BeginSettles
<1>2. ASSUME NEW a \in Addresses, NEW stall \in BOOLEAN, set_stalled(a, stall)
      PROVE  Settling'
  BY <1>2, StallSettles
<1>3. CASE read_setup
  <2>1. todo = {} /\ pc = "idle"
    BY <1>3 DEF read_setup, TypeOK
  <2> QED
    BY <1>3, <2>1 DEF read_setup, Settling, DoneSettled, TodoSettles, LoadedFresh,
                      SetupLifts, Setting, Enabled, Stalled, Type
<1>4. CASE modify_reg_load
  <2>1. PICK a \in todo : Current(a) /\ word' = [b \in register(a) |-> ENDPTCTRL[b]]
    BY <1>4 DEF modify_reg_load
  <2>2. UNCHANGED <<ENDPTCTRL, setupstat, op, todo, session, meant>>
    BY <1>4 DEF modify_reg_load
  <2>3. ASSUME NEW c \in todo, NEW b \in Places, Current(c), b \in register(c)
        PROVE  Lifted(b, word[b])' = ENDPTCTRL[b]
    <3>1. c = a
      BY <2>1, <2>3, CurrentUnique DEF TypeOK
    <3>2. word'[b] = ENDPTCTRL[b] /\ ENDPTCTRL[b] \in Half
      BY <2>1, <2>3, <3>1 DEF TypeOK
    <3> QED
      BY <2>2, <3>2 DEF Lifted, Settling, SetupLifts, Half
  <2>4. LoadedFresh'
    BY <2>2, <2>3 DEF LoadedFresh, Current, register
  <2> QED
    BY <2>2, <2>4 DEF Settling, DoneSettled, TodoSettles, SetupLifts, Setting, Enabled,
                      Stalled, Type,
                      Lifted, modified
<1>5. ASSUME NEW a \in todo, modify_reg_store(a) PROVE Settling'
  <2>1. /\ todo' = todo \ {a} /\ pc' # "store"
        /\ UNCHANGED <<setupstat, op, session, meant>>
    BY <1>5 DEF modify_reg_store
  <2>2. ENDPTCTRL' = [b \in Places |-> IF b = a THEN Setting(a) ELSE ENDPTCTRL[b]]
    BY <1>5, StoreSettles
  <2>3. todo \subseteq Places
    BY AllocatedPlaces DEF TypeOK
  <2>4. \A b : Setting(b)' = Setting(b)
    BY <2>1 DEF Setting, Enabled, Stalled, Type
  <2>5. DoneSettled'
    BY <2>1, <2>2, <2>4 DEF DoneSettled, Settling
  <2>6. TodoSettles'
    <3>1. \A b \in todo' : ENDPTCTRL'[b] = ENDPTCTRL[b] /\ b \in todo
      BY <2>1, <2>2, <2>3
    <3>2. \A b \in todo' : Lifted(b, modified(b, ENDPTCTRL[b]))' =
                             Lifted(b, modified(b, ENDPTCTRL[b]))
      BY <2>1, <3>1 DEF Lifted, modified
    <3> QED
      BY <2>4, <3>1, <3>2 DEF TodoSettles, Settling
  <2>7. SetupLifts'
    <3>1. setupstat /\ a \in Zero => Setting(a).S = 0
      <4> SUFFICES ASSUME setupstat, a \in Zero PROVE Setting(a).S = 0
        OBVIOUS
      <4>1. modified(a, ENDPTCTRL[a]) \in Half
        BY <2>3, ModifiedHalf DEF TypeOK
      <4> QED
        BY <4>1 DEF Settling, TodoSettles, Lifted, Half
    <3>2. Zero \subseteq Places
      BY DEF Zero, Places
    <3> QED
      BY <2>1, <2>2, <3>1, <3>2 DEF SetupLifts, Settling
  <2> QED
    BY <2>1, <2>5, <2>6, <2>7 DEF Settling, LoadedFresh
<1>6. CASE HostSetup
  BY <1>6, SetupSettles
<1>7. CASE UNCHANGED vars
  BY <1>7 DEF vars, Settling, DoneSettled, TodoSettles, LoadedFresh, SetupLifts, Setting,
              Enabled, Stalled, Type, Lifted, modified, Current, register
<1> QED
  BY <1>1, <1>2, <1>3, <1>4, <1>5, <1>6, <1>7 DEF Next

(***************************************************************************)
(* Between calls every endpoint has the settings its own calls gave it,    *)
(* whatever was done to its neighbour in the register and whenever a SETUP *)
(* came.                                                                   *)
(***************************************************************************)
THEOREM SettingsKept == Spec => []Settled
<1>1. TypeOK /\ Settling => Settled
  BY DEF TypeOK, Settling, DoneSettled, Settled
<1> QED
  BY <1>1, SettlingInit, SettlingStep, TypeCorrect, PTL DEF Spec
-----------------------------------------------------------------------------
\* The endpoints whose register says enabled, or stalled, and their types.
On == {b \in Places : ENDPTCTRL[b].E = 1}
Held == {b \in Places : ENDPTCTRL[b].S = 1}
Kinds == [b \in Places |-> ENDPTCTRL[b].T]

\* The calls over many endpoints are about the non-zero ones.
Ranging == op \in {"enable", "initialize"} => todo \subseteq NonZero

LEMMA RangingAlways == Spec => []Ranging
<1>1. Init => Ranging
  BY DEF Init, Ranging
<1>2. Ranging /\ [Next]_vars => Ranging'
  BY DEF Ranging, Next, configure, reset, set_stalled, Begin, read_setup,
         modify_reg_load, modify_reg_store, HostSetup, vars
<1> QED BY <1>1, <1>2, PTL DEF Spec

\* What a change of one half does to them.
LEMMA OneHalf ==
    ASSUME ENDPTCTRL \in [Places -> Half], NEW a \in Places, NEW new \in Half,
           ENDPTCTRL' = [b \in Places |-> IF b = a THEN new ELSE ENDPTCTRL[b]]
    PROVE  /\ new.E = 1 => On' = On \cup {a}
           /\ new.E = 0 => On' = On \ {a}
           /\ new.E = ENDPTCTRL[a].E => On' = On
           /\ new.S = 1 => Held' = Held \cup {a}
           /\ new.S = 0 => Held' = Held \ {a}
           /\ new.S = ENDPTCTRL[a].S => Held' = Held
           /\ Kinds' = [Kinds EXCEPT ![a] = new.T]
           /\ new.T = ENDPTCTRL[a].T => Kinds' = Kinds
<1>1. /\ ENDPTCTRL'[a] = new
      /\ \A b \in Places : b # a => ENDPTCTRL'[b] = ENDPTCTRL[b]
  OBVIOUS
<1>2. /\ new.E = 1 => On' = On \cup {a}
      /\ new.E = 0 => On' = On \ {a}
      /\ new.E = ENDPTCTRL[a].E => On' = On
  BY <1>1 DEF On
<1>3. /\ new.S = 1 => Held' = Held \cup {a}
      /\ new.S = 0 => Held' = Held \ {a}
      /\ new.S = ENDPTCTRL[a].S => Held' = Held
  BY <1>1 DEF Held
<1>4. Kinds' = [Kinds EXCEPT ![a] = new.T]
  BY <1>1 DEF Kinds
<1>5. new.T = ENDPTCTRL[a].T => Kinds' = Kinds
  BY <1>1 DEF Kinds
<1> QED BY <1>2, <1>3, <1>4, <1>5

\* A store is a switch of one setting of its endpoint: what it writes back of
\* the other half is what is there, for all that a SETUP may have lifted.
LEMMA StoreSwitches ==
    ASSUME TypeOK, Settling, Ranging, NEW a \in todo, modify_reg_store(a)
    PROVE  Switches!Next
<1> DEFINE half == ENDPTCTRL[a]
           new == Lifted(a, modified(a, half))
<1>1. /\ a \in Allocated /\ a \in Places /\ half \in Half
      /\ ENDPTCTRL \in [Places -> Half] /\ setupstat' = setupstat
  BY AllocatedPlaces DEF TypeOK, modify_reg_store
<1>2. ENDPTCTRL' = [b \in Places |-> IF b = a THEN new ELSE ENDPTCTRL[b]]
  <2>1. new = Setting(a)
    BY DEF Settling, TodoSettles
  <2> HIDE DEF new
  <2> QED BY <2>1, StoreSettles
<1>3. PICK e \in 0 .. 1, s \in 0 .. 1, t \in 0 .. 3 : half = [E |-> e, S |-> s, T |-> t]
  BY <1>1 DEF Half
<1>4. CASE op \in {"enable", "initialize"}
  <2>1. a \in Allocated \ Zero
    BY <1>1, <1>4 DEF Ranging, NonZero
  <2>2. CASE op = "enable"
    <3>1. new = [E |-> 1, S |-> s, T |-> Attributes[a] % 4]
      BY <1>3, <2>1, <2>2 DEF Lifted, modified, enable, into_raw_endpoint_type
    <3>2. new \in Half /\ new.E = 1 /\ new.S = half.S /\ new.T = Attributes[a] % 4
      <4>1. Attributes[a] % 4 \in 0 .. 3
        BY <1>1, TypeFits DEF into_raw_endpoint_type
      <4> QED BY <1>3, <3>1, <4>1 DEF Half
    <3> HIDE DEF new
    <3>3. On' = On \cup {a} /\ Held' = Held /\ Kinds' = [Kinds EXCEPT ![a] = Attributes[a] % 4]
      BY <1>1, <1>2, <3>2, OneHalf
    <3>4. Switches!Enable(a)
      BY <1>1, <3>3 DEF Switches!Enable, On, Held, Kinds
    <3> QED BY <2>1, <3>4 DEF Switches!Next
  <2>3. CASE op = "initialize"
    <3>1. new = [E |-> 0, S |-> s, T |-> Bulk]
      BY <1>3, <2>1, <2>3 DEF Lifted, modified, initialize
    <3>2. new \in Half /\ new.E = 0 /\ new.S = half.S /\ new.T = Bulk
      BY <1>3, <3>1 DEF Half, Bulk
    <3> HIDE DEF new
    <3>3. On' = On \ {a} /\ Held' = Held /\ Kinds' = [Kinds EXCEPT ![a] = Bulk]
      BY <1>1, <1>2, <3>2, OneHalf
    <3>4. Switches!Disable(a)
      BY <1>1, <3>3 DEF Switches!Disable, Switches!Bulk, Bulk, On, Held, Kinds
    <3> QED BY <2>1, <3>4 DEF Switches!Next
  <2> QED BY <1>4, <2>2, <2>3
<1>5. CASE op \notin {"enable", "initialize"}
  <2>1. modified(a, half) = [E |-> e, S |-> Bit(op = "stall"), T |-> t]
    BY <1>3, <1>5 DEF modified
  <2>2. CASE op = "stall" /\ ~(a \in Zero /\ setupstat)
    <3>1. new = [E |-> e, S |-> 1, T |-> t]
      BY <2>1, <2>2 DEF Lifted, Bit
    <3>2. new \in Half /\ new.E = half.E /\ new.S = 1 /\ new.T = half.T
      BY <1>3, <3>1 DEF Half
    <3> HIDE DEF new
    <3>3. On' = On /\ Held' = Held \cup {a} /\ Kinds' = Kinds
      BY <1>1, <1>2, <3>2, OneHalf
    <3>4. Switches!Stall(a)
      BY <1>1, <2>2, <3>3 DEF Switches!Stall, On, Held, Kinds
    <3> QED BY <1>1, <3>4 DEF Switches!Next
  <2>3. CASE ~(op = "stall" /\ ~(a \in Zero /\ setupstat))
    <3>1. new = [E |-> e, S |-> 0, T |-> t]
      BY <2>1, <2>3 DEF Lifted, Bit
    <3>2. new \in Half /\ new.E = half.E /\ new.S = 0 /\ new.T = half.T
      BY <1>3, <3>1 DEF Half
    <3> HIDE DEF new
    <3>3. On' = On /\ Held' = Held \ {a} /\ Kinds' = Kinds
      BY <1>1, <1>2, <3>2, OneHalf
    <3>4. Switches!Unstall(a)
      BY <1>1, <3>3 DEF Switches!Unstall, On, Held, Kinds
    <3> QED BY <1>1, <3>4 DEF Switches!Next
  <2> QED BY <2>2, <2>3
<1> QED BY <1>4, <1>5

(***************************************************************************)
(* The registers implement settings that stand alone: at no moment, in the *)
(* middle of a call or of a modify_reg that a SETUP comes into, has an     *)
(* endpoint lost or gained what was asked of another.                      *)
(***************************************************************************)
THEOREM SettingsStandAlone == Spec => ImplementsSettings
<1>1. Init => Switches!Init
  <2> SUFFICES ASSUME Init PROVE Switches!Init
    OBVIOUS
  <2>1. \A a \in Places : ENDPTCTRL[a] = [E |-> Bit(a \in Zero), S |-> 0, T |-> 0]
    BY DEF Init, Cleared
  <2>2. On = Zero /\ Held = {}
    BY <2>1 DEF On, Held, Bit, Zero, Places
  <2> QED BY <2>1, <2>2 DEF Init, Switches!Init, Switches!NoType, On, Held
<1>2. TypeOK /\ Settling /\ Ranging /\ [Next]_vars => [Switches!Next]_(Switches!settings)
  <2> SUFFICES ASSUME TypeOK, Settling, Ranging, [Next]_vars
               PROVE  Switches!Next \/ UNCHANGED Switches!settings
    OBVIOUS
  <2>1. CASE UNCHANGED <<ENDPTCTRL, setupstat>>
    BY <2>1 DEF Switches!settings
  <2>2. CASE configure \/ reset
    BY <2>1, <2>2 DEF configure, reset, Begin
  <2>3. ASSUME NEW a \in Addresses, NEW stall \in BOOLEAN, set_stalled(a, stall)
        PROVE  UNCHANGED <<ENDPTCTRL, setupstat>>
    BY <2>3 DEF set_stalled, Begin
  <2>4. CASE read_setup
    BY <2>4 DEF read_setup, Switches!Next, Switches!Read
  <2>5. CASE modify_reg_load
    BY <2>1, <2>5 DEF modify_reg_load
  <2>6. ASSUME NEW a \in todo, modify_reg_store(a) PROVE Switches!Next
    BY <2>6, StoreSwitches
  <2>7. CASE HostSetup
    <3>1. /\ setupstat' = TRUE
          /\ ENDPTCTRL' = [a \in Places |->
                             IF a \in Zero THEN [ENDPTCTRL[a] EXCEPT !.S = 0]
                                           ELSE ENDPTCTRL[a]]
      BY <2>7 DEF HostSetup
    <3>2. \A half \in Half : /\ [half EXCEPT !.S = 0].E = half.E
                             /\ [half EXCEPT !.S = 0].S = 0
                             /\ [half EXCEPT !.S = 0].T = half.T
      BY DEF Half
    <3>3. \A a \in Places :
            /\ ENDPTCTRL'[a].E = ENDPTCTRL[a].E /\ ENDPTCTRL'[a].T = ENDPTCTRL[a].T
            /\ ENDPTCTRL'[a].S = IF a \in Zero THEN 0 ELSE ENDPTCTRL[a].S
      BY <3>1, <3>2 DEF TypeOK
    <3>4. On' = On /\ Kinds' = Kinds
      BY <3>3 DEF On, Kinds
    <3>5. Held' = Held \ Zero
      BY <3>3 DEF Held
    <3>6. Switches!Setup
      BY <3>1, <3>4, <3>5 DEF Switches!Setup, On, Held, Kinds
    <3> QED BY <3>6 DEF Switches!Next
  <2>8. CASE UNCHANGED vars
    BY <2>1, <2>8 DEF vars
  <2> QED BY <2>1, <2>2, <2>3, <2>4, <2>5, <2>6, <2>7, <2>8 DEF Next
<1>3. Spec => []Settling
  BY SettlingInit, SettlingStep, TypeCorrect, PTL DEF Spec
<1> QED
  BY <1>1, <1>2, <1>3, RangingAlways, TypeCorrect, PTL
     DEF Spec, ImplementsSettings, Switches!Spec
=============================================================================
