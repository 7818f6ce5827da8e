------------------------------ MODULE BusAdapter ------------------------------
(***************************************************************************)
(* How BusAdapter hands its Driver to one call at a time: with_usb and     *)
(* with_usb_mut of bus.rs, called from a thread and from the interrupt     *)
(* handlers that preempt it on one core, with the critical sections or, by *)
(* without_critical_sections, with nothing but the RefCell.                *)
(***************************************************************************)
EXTENDS Integers, Sequences, SequencesExt

CONSTANTS
    Thread,
    Handlers,  \* the interrupt handlers that use the bus
    Priority   \* their preemption priorities, above the thread's 0

Contexts == Handlers \cup {Thread}

ASSUME ContextsAssumption ==
    /\ IsFiniteSet(Handlers) /\ Thread \notin Handlers
    /\ Priority \in [Contexts -> Nat] /\ Priority[Thread] = 0

VARIABLES
    cs,       \* BusAdapter::cs is Some: no critical sections are taken
    stack,    \* the contexts begun and not ended, the running one last
    masked,   \* PRIMASK: interrupts are disabled
    calls,    \* each context's calls of with_usb and with_usb_mut, innermost last
    borrow,   \* the RefCell's flag: -1 borrowed mutably, n > 0 shared n times
    panicked  \* a borrow has panicked, and the application with it

vars == <<cs, stack, masked, calls, borrow, panicked>>

\* was is what interrupt::free will restore, seen the flag as it was loaded.
Call == [kind : {"usb", "usb_mut"}, at : {"borrow", "store", "func", "drop"},
         was : BOOLEAN, seen : Int]

TypeOK ==
    /\ cs \in BOOLEAN
    /\ stack \in Seq(Contexts) /\ stack # <<>>
    /\ calls \in [Contexts -> Seq(Call)]
    /\ borrow \in -1 .. Cardinality(Contexts) /\ masked \in BOOLEAN /\ panicked \in BOOLEAN

\* BusAdapter::with_speed or without_critical_sections.
Init ==
    /\ cs \in BOOLEAN
    /\ stack = <<Thread>>
    /\ masked = FALSE
    /\ calls = [c \in Contexts |-> <<>>]
    /\ borrow = 0
    /\ panicked = FALSE
-----------------------------------------------------------------------------
Running(c) == ~panicked /\ c = Last(stack)
At(c, step) == Running(c) /\ calls[c] # <<>> /\ Last(calls[c]).at = step

\* The innermost call of c goes on at step, having loaded flag.
Goto(c, step, flag) ==
    calls' = [calls EXCEPT ![c] =
                Append(Front(@), [Last(@) EXCEPT !.at = step, !.seen = flag])]

\* An interrupt preempts the running context, and returns to it.
Preempt(c) ==
    /\ ~panicked /\ ~masked
    /\ c \in Handlers /\ Priority[c] > Priority[Last(stack)]
    /\ stack' = Append(stack, c)
    /\ UNCHANGED <<cs, masked, calls, borrow, panicked>>

Return(c) ==
    /\ Running(c) /\ c \in Handlers
    /\ calls[c] = <<>>
    /\ stack' = Front(stack)
    /\ UNCHANGED <<cs, masked, calls, borrow, panicked>>

\* A defect to try in the place of takes_cs: readers go without.
takes_cs_to_write(kind) == ~cs /\ kind = "usb_mut"

takes_cs(kind) == ~cs

\* with_usb (is_stalled) or with_usb_mut (every other call) begins, from the
\* context or from the callback its own gpt_mut is running.
with_cs(c, kind) ==
    /\ Running(c)
    /\ calls[c] # <<>> => /\ Len(calls[c]) = 1
                          /\ Last(calls[c]).at = "func" /\ Last(calls[c]).kind = "usb_mut"
    /\ calls' = [calls EXCEPT ![c] =
                   Append(@, [kind |-> kind, at |-> "borrow", was |-> masked, seen |-> 0])]
    /\ masked' = (masked \/ takes_cs(kind))
    /\ UNCHANGED <<cs, stack, borrow, panicked>>

\* A defect to try in the place of may_borrow: a shared borrow goes unnoticed.
may_borrow_shared(kind) == borrow >= 0

may_borrow(kind) == IF kind = "usb" THEN borrow >= 0 ELSE borrow = 0

\* borrow() or borrow_mut() loads the flag and panics if it forbids the borrow ...
borrow_load(c) ==
    /\ At(c, "borrow")
    /\ IF may_borrow(Last(calls[c]).kind)
         THEN Goto(c, "store", borrow) /\ UNCHANGED panicked
         ELSE panicked' = TRUE /\ UNCHANGED calls
    /\ UNCHANGED <<cs, stack, masked, borrow>>

\* ... and stores it.  The flag is a Cell: an interrupt may come between.
borrow_store(c) ==
    /\ At(c, "store")
    /\ LET frame == Last(calls[c])
       IN  borrow' = IF frame.kind = "usb" THEN frame.seen + 1 ELSE -1
    /\ Goto(c, "func", 0)
    /\ UNCHANGED <<cs, stack, masked, panicked>>

\* A defect to try in the place of released: every borrow dropped as a shared one.
released_shared(flag) == flag - 1

released(flag) == IF flag = -1 THEN 0 ELSE flag - 1

\* func returns and the borrow is dropped, which loads the flag ...
borrow_drop(c) ==
    /\ At(c, "func")
    /\ Goto(c, "drop", borrow)
    /\ UNCHANGED <<cs, stack, masked, borrow, panicked>>

\* ... and stores it; and interrupt::free enables interrupts again if they were
\* enabled.
with_cs_return(c) ==
    /\ At(c, "drop")
    /\ borrow' = released(Last(calls[c]).seen)
    /\ masked' = Last(calls[c]).was
    /\ calls' = [calls EXCEPT ![c] = Front(@)]
    /\ UNCHANGED <<cs, stack, panicked>>

Next ==
    \E c \in Contexts :
        \/ Preempt(c) \/ Return(c)
        \/ \E kind \in {"usb", "usb_mut"} : with_cs(c, kind)
        \/ borrow_load(c) \/ borrow_store(c)
        \/ borrow_drop(c) \/ with_cs_return(c)

Spec == Init /\ [][Next]_vars
-----------------------------------------------------------------------------
(***************************************************************************)
(* Calls that may change the Driver have it to themselves, among the calls *)
(* of their own context and of those it preempts or is preempted by, with  *)
(* critical sections or without, and a call panics only while another has  *)
(* the Driver.  It is what lets Driver.tla have one call in progress at a  *)
(* time.                                                                   *)
(***************************************************************************)
Inside(kind) ==
    {ci \in Contexts \X (1 .. 2) :
        /\ ci[2] \in DOMAIN calls[ci[1]]
        /\ calls[ci[1]][ci[2]].at \in {"func", "drop"}
        /\ calls[ci[1]][ci[2]].kind = kind}

Access == INSTANCE OneAtATime WITH
    Callers <- Contexts \X (1 .. 2),
    looking <- Inside("usb"), changing <- Inside("usb_mut")

ImplementsOneAtATime == Access!Spec

(***************************************************************************)
(* With critical sections, calls from any contexts never find the Driver   *)
(* borrowed, save the one gpt_mut documents: a call of the bus within the  *)
(* callback.  Without them, only a call that preempts another one may.     *)
(***************************************************************************)
PanicsOnlyNested ==
    panicked =>
        \/ \E c \in Contexts : Len(calls[c]) = 2
        \/ cs /\ \E c, d \in Contexts : c # d /\ calls[c] # <<>> /\ calls[d] # <<>>

(***************************************************************************)
(* The flag tells the calls inside apart from none, although it is loaded  *)
(* and stored in two steps, by who comes and by who goes: a call an        *)
(* interrupt makes between them has put it back.                           *)
(***************************************************************************)
FlagExact ==
    /\ borrow = -1 <=> Inside("usb_mut") # {}
    /\ borrow >= 0 => borrow = Cardinality(Inside("usb"))
=============================================================================
