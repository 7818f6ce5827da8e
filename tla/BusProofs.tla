------------------------------- MODULE BusProofs -------------------------------
(***************************************************************************)
(* The bus adapter, for any handlers of any priorities: interrupts nest in *)
(* the order of their priorities, and a context that goes on finds the     *)
(* flag as it left it.                                                     *)
(***************************************************************************)
EXTENDS BusAdapter, FiniteSetTheorems, TLAPS

\* A context without a call, with one, and with one in its gpt_mut callback.
Busy(c) == calls[c] # <<>>
Outer(c) == calls[c][1]
Lookers == {c \in Contexts : Busy(c) /\ Outer(c).at \in {"func", "drop"} /\ Outer(c).kind = "usb"}
Changers ==
    {c \in Contexts : Busy(c) /\ Outer(c).at \in {"func", "drop"} /\ Outer(c).kind = "usb_mut"}

\* The contexts begun are in the order of their priorities, and calls are theirs.
Nesting ==
    /\ stack \in Seq(Contexts) /\ stack # <<>> /\ stack[1] = Thread
    /\ \A i, j \in DOMAIN stack : i < j => Priority[stack[i]] < Priority[stack[j]]
    /\ \A c \in Contexts : Busy(c) => \E i \in DOMAIN stack : stack[i] = c

\* A call within another is one in the callback of gpt_mut, and gets no further
\* than the flag.
Frames ==
    /\ calls \in [Contexts -> Seq(Call)]
    /\ \A c \in Contexts :
         /\ Len(calls[c]) <= 2
         /\ Len(calls[c]) = 2 =>
              /\ Outer(c).at = "func" /\ Outer(c).kind = "usb_mut"
              /\ calls[c][2].at = "borrow"

\* The flag says who is inside.
Flagged ==
    /\ borrow \in Int
    /\ Changers # {} =>
         borrow = -1 /\ Lookers = {} /\ \E c \in Contexts : Changers = {c}
    /\ Changers = {} => borrow = Cardinality(Lookers)

\* A flag that was loaded is what the contexts below have made of it.
Below(c) == {d \in Lookers : Priority[d] < Priority[c]}
Loaded ==
    \A c \in Contexts : Busy(c) /\ Outer(c).at = "store" =>
      /\ \A d \in Changers : ~(Priority[d] < Priority[c])
      /\ Outer(c).seen = Cardinality(Below(c))
      /\ Outer(c).kind = "usb_mut" => Below(c) = {}

\* And so is the one that will be released.
Dropping ==
    \A c \in Contexts : Busy(c) /\ Outer(c).at = "drop" =>
      Outer(c).seen = IF Outer(c).kind = "usb_mut" THEN -1 ELSE Cardinality(Below(c)) + 1

\* With critical sections, one context at most is in a call.
Disabled ==
    ~cs => \A c \in Contexts : Busy(c) =>
      masked /\ c = Last(stack) /\ (Len(calls[c]) = 2 => calls[c][2].was)

BusInv ==
    /\ cs \in BOOLEAN /\ masked \in BOOLEAN /\ panicked \in BOOLEAN
    /\ Nesting /\ Frames /\ Flagged /\ Loaded /\ Dropping /\ Disabled
    /\ PanicsOnlyNested

\* A sequence of one call.
LEMMA OneFrame ==
    ASSUME NEW s \in Seq(Call), Len(s) = 1
    PROVE  /\ s[1] \in Call /\ s # <<>>
           /\ Last(s) = s[1] /\ Front(s) = <<>>
BY DEF Last, Front

\* The calls of a context.
LEMMA FrameCount ==
    ASSUME NEW s \in Seq(Call)
    PROVE  /\ Len(s) \in Nat /\ DOMAIN s = 1 .. Len(s)
           /\ (s = <<>> <=> Len(s) = 0)
           /\ s # <<>> => s[1] \in Call
           /\ Len(s) = 2 => s[2] \in Call /\ Last(s) = s[2]
BY DEF Last

\* Two calls, the second in the callback of the first.
LEMMA Append1 ==
    ASSUME NEW s \in Seq(Call), NEW x \in Call, Len(s) <= 1
    PROVE  /\ Append(s, x) \in Seq(Call) /\ Len(Append(s, x)) = Len(s) + 1
           /\ Append(s, x) # <<>>
           /\ s = <<>> => Append(s, x)[1] = x
           /\ s # <<>> => Append(s, x)[1] = s[1] /\ Append(s, x)[2] = x
<1> HIDE DEF Call
<1>1. /\ Append(s, x) \in Seq(Call) /\ Len(Append(s, x)) = Len(s) + 1
      /\ Append(s, x) # <<>>
  OBVIOUS
<1>2. s = <<>> => Append(s, x)[1] = x
  OBVIOUS
<1>3. s # <<>> => Append(s, x)[1] = s[1] /\ Append(s, x)[2] = x
  <2>1. s # <<>> => Len(s) = 1
    BY FrameCount
  <2> QED BY <2>1
<1> QED BY <1>1, <1>2, <1>3

\* The running context has the highest priority of those begun.
LEMMA Topmost ==
    ASSUME Nesting, NEW d \in Contexts, Busy(d), d # Last(stack)
    PROVE  /\ Priority[d] < Priority[Last(stack)]
           /\ Last(stack) \in Contexts /\ ~(Priority[Last(stack)] < Priority[d])
<1>1. PICK i \in DOMAIN stack : stack[i] = d
  BY DEF Nesting
<1>2. /\ Len(stack) \in DOMAIN stack /\ i \in 1 .. Len(stack) /\ i # Len(stack)
      /\ Last(stack) \in Contexts
  BY <1>1 DEF Nesting, Last
<1>3. i < Len(stack)
  BY <1>2 DEF Nesting
<1>4. Priority[d] < Priority[Last(stack)]
  BY <1>1, <1>2, <1>3 DEF Nesting, Last
<1> QED
  BY <1>2, <1>4, ContextsAssumption

\* Any set of contexts is finite.
LEMMA SomeContexts ==
    ASSUME NEW S, S \subseteq Contexts
    PROVE  /\ IsFiniteSet(S) /\ Cardinality(S) \in Nat
           /\ IsFiniteSet(Contexts) /\ Cardinality(S) <= Cardinality(Contexts)
<1>1. IsFiniteSet(Contexts)
  BY ContextsAssumption, FS_AddElement DEF Contexts
<1> QED
  BY <1>1, FS_Subset, FS_CardinalityType

\* The calls inside, by context.
ByContext == Inside("usb") = Lookers \X {1} /\ Inside("usb_mut") = Changers \X {1}

LEMMA InsideOuter == Frames => ByContext
<1> SUFFICES ASSUME Frames PROVE ByContext
  OBVIOUS
<1>1. ASSUME NEW c \in Contexts, NEW i \in 1 .. 2, i \in DOMAIN calls[c],
             calls[c][i].at \in {"func", "drop"}
      PROVE  i = 1 /\ Busy(c)
  <2>1. calls[c] \in Seq(Call) /\ Len(calls[c]) <= 2
    BY DEF Frames
  <2>2. ASSUME i = 2 PROVE FALSE
    <3>1. Len(calls[c]) = 2
      <4> DEFINE s == calls[c]
      <4>1. s \in Seq(Call) /\ Len(s) <= 2 /\ 2 \in DOMAIN s
        BY <1>1, <2>1, <2>2
      <4>2. Len(s) \in Nat /\ DOMAIN s = 1 .. Len(s)
        BY <4>1, FrameCount
      <4> HIDE DEF s
      <4>3. Len(s) = 2
        BY <4>1, <4>2
      <4> QED BY <4>3 DEF s
    <3>2. calls[c][2].at = "borrow"
      BY <3>1 DEF Frames
    <3> QED BY <1>1, <2>2, <3>2
  <2> QED BY <1>1, <2>1, <2>2 DEF Busy
<1>2. ASSUME NEW c \in Contexts, Busy(c) PROVE 1 \in DOMAIN calls[c]
  <2>1. calls[c] \in Seq(Call)
    BY DEF Frames
  <2> QED BY <1>2, <2>1 DEF Busy
<1>3. ASSUME NEW kind \in {"usb", "usb_mut"}
      PROVE  Inside(kind) =
               {c \in Contexts : /\ Busy(c) /\ Outer(c).at \in {"func", "drop"}
                                 /\ Outer(c).kind = kind} \X {1}
  <2> DEFINE S == {c \in Contexts : /\ Busy(c) /\ Outer(c).at \in {"func", "drop"}
                                   /\ Outer(c).kind = kind}
  <2>1. ASSUME NEW ci \in Inside(kind) PROVE ci \in S \X {1}
    BY <1>1, <2>1 DEF Inside, Outer
  <2>2. ASSUME NEW ci \in S \X {1} PROVE ci \in Inside(kind)
    BY <1>2, <2>2 DEF Inside, Outer
  <2> QED BY <2>1, <2>2
<1> QED
  BY <1>3 DEF ByContext, Lookers, Changers

\* Pairing with a number makes no one of none, nor none of one.
LEMMA Paired == ASSUME NEW S PROVE S \X {1} # {} <=> S # {}
<1>1. ASSUME NEW c \in S PROVE <<c, 1>> \in S \X {1}
  OBVIOUS
<1> QED BY <1>1

\* Nobody is inside at first.
LEMMA BusInvInit == Init => BusInv
<1> SUFFICES ASSUME Init PROVE BusInv
  OBVIOUS
<1>1. \A c \in Contexts : calls[c] = <<>>
  BY DEF Init
<1>2. Nesting
  BY <1>1, ContextsAssumption DEF Init, Nesting, Busy, Contexts
<1>3. Frames
  BY <1>1 DEF Init, Frames
<1>4. Lookers = {} /\ Changers = {}
  BY <1>1 DEF Lookers, Changers, Busy
<1>5. Flagged
  BY <1>4, FS_EmptySet DEF Init, Flagged
<1>6. Loaded /\ Dropping /\ Disabled
  BY <1>1 DEF Loaded, Dropping, Disabled, Busy
<1> QED
  BY <1>2, <1>3, <1>5, <1>6 DEF Init, BusInv, PanicsOnlyNested

\* The frames of the running context are rewritten and no other's.
LEMMA Rewritten ==
    ASSUME Frames, NEW c \in Contexts, NEW s \in Seq(Call), calls' = [calls EXCEPT ![c] = s]
    PROVE  /\ calls' \in [Contexts -> Seq(Call)] /\ calls'[c] = s
           /\ \A d \in Contexts \ {c} : calls'[d] = calls[d]
           /\ Busy(c)' <=> s # <<>>
           /\ Outer(c)' = s[1]
           /\ \A d \in Contexts \ {c} : (Busy(d)' <=> Busy(d)) /\ Outer(d)' = Outer(d)
           /\ \A d \in Contexts \ {c} :
                (d \in Lookers' <=> d \in Lookers) /\ (d \in Changers' <=> d \in Changers)
<1> HIDE DEF Call
<1>1. /\ calls' \in [Contexts -> Seq(Call)] /\ calls'[c] = s
      /\ \A d \in Contexts \ {c} : calls'[d] = calls[d]
  BY DEF Frames
<1>2. (Busy(c)' <=> s # <<>>) /\ Outer(c)' = s[1]
  BY <1>1 DEF Busy, Outer
<1>3. \A d \in Contexts \ {c} : (Busy(d)' <=> Busy(d)) /\ Outer(d)' = Outer(d)
  BY <1>1 DEF Busy, Outer
<1>4. \A d \in Contexts \ {c} :
        (d \in Lookers' <=> d \in Lookers) /\ (d \in Changers' <=> d \in Changers)
  BY <1>3 DEF Lookers, Changers
<1> QED BY <1>1, <1>2, <1>3, <1>4

\* The innermost call of the running context, if it is past its borrow, is alone.
LEMMA AtOne ==
    ASSUME BusInv, NEW c \in Contexts, NEW step, At(c, step), step # "borrow"
    PROVE  /\ calls[c] \in Seq(Call) /\ Len(calls[c]) = 1 /\ Busy(c)
           /\ Last(calls[c]) = Outer(c) /\ Outer(c) \in Call /\ Outer(c).at = step
           /\ Front(calls[c]) = <<>> /\ c = Last(stack) /\ ~panicked
<1>1. calls[c] \in Seq(Call) /\ Len(calls[c]) <= 2 /\ calls[c] # <<>>
  BY DEF BusInv, Frames, At
<1>2. Len(calls[c]) # 2
  <2> SUFFICES ASSUME Len(calls[c]) = 2 PROVE FALSE
    OBVIOUS
  <2>1. calls[c][2].at = "borrow" /\ Last(calls[c]) = calls[c][2]
    BY <1>1, FrameCount DEF BusInv, Frames
  <2> QED BY <2>1 DEF At
<1>3. Len(calls[c]) = 1
  <2> DEFINE n == Len(calls[c])
  <2>1. n \in Nat /\ n # 0 /\ n <= 2 /\ n # 2
    BY <1>1, <1>2, FrameCount
  <2> HIDE DEF n
  <2>2. n = 1
    BY <2>1
  <2> QED BY <2>2 DEF n
<1> QED
  BY <1>1, <1>3, OneFrame DEF At, Running, Outer, Busy

\* Everyone inside is below the running context, if it is not inside itself.
LEMMA AllBelow ==
    ASSUME Nesting, NEW c \in Contexts, c = Last(stack), c \notin Lookers, c \notin Changers
    PROVE  /\ Below(c) = Lookers
           /\ \A d \in Changers : Priority[d] < Priority[c]
<1>1. ASSUME NEW d \in Contexts, Busy(d), d # c PROVE Priority[d] < Priority[c]
  BY <1>1, Topmost
<1> QED BY <1>1 DEF Below, Lookers, Changers

\* A stack with the running context on it.
LEMMA NestingKept ==
    ASSUME Nesting, stack' = stack, NEW c \in Contexts, c = Last(stack),
           \A d \in Contexts \ {c} : Busy(d)' => Busy(d)
    PROVE  Nesting'
<1>1. Len(stack) \in DOMAIN stack /\ stack[Len(stack)] = c
  BY DEF Nesting, Last
<1>2. \A d \in Contexts : Busy(d)' => \E i \in DOMAIN stack : stack[i] = d
  BY <1>1 DEF Nesting
<1> QED BY <1>2 DEF Nesting

\* A call that begins is not inside yet.
LEMMA WithCs ==
    ASSUME BusInv, NEW c \in Contexts, NEW kind \in {"usb", "usb_mut"}, with_cs(c, kind)
    PROVE  BusInv' /\ Lookers' = Lookers /\ Changers' = Changers
<1> DEFINE new == [kind |-> kind, at |-> "borrow", was |-> masked, seen |-> 0]
           s == Append(calls[c], new)
<1>0. new \in Call
  BY DEF BusInv, Call
<1>1. /\ calls[c] \in Seq(Call) /\ Len(calls[c]) <= 1 /\ c = Last(stack) /\ ~panicked
      /\ calls[c] # <<>> => Outer(c).at = "func" /\ Outer(c).kind = "usb_mut"
      /\ calls' = [calls EXCEPT ![c] = s]
      /\ masked' = (masked \/ ~cs)
      /\ UNCHANGED <<cs, stack, borrow, panicked>>
  <2>1. calls[c] \in Seq(Call)
    BY DEF BusInv, Frames
  <2>2. Len(calls[c]) <= 1
    <3> DEFINE n == Len(calls[c])
    <3>1. calls[c] = <<>> => n = 0
      BY <2>1, FrameCount
    <3>2. calls[c] # <<>> => n = 1
      BY DEF with_cs
    <3> HIDE DEF n
    <3>3. n <= 1
      BY <3>1, <3>2
    <3> QED BY <3>3 DEF n
  <2>3. calls[c] # <<>> => Last(calls[c]) = Outer(c)
    BY <2>1, OneFrame DEF with_cs, Outer
  <2> QED BY <2>1, <2>2, <2>3 DEF with_cs, Running, takes_cs
<1> HIDE DEF new
<1>2. /\ s \in Seq(Call) /\ Len(s) = Len(calls[c]) + 1 /\ s # <<>>
      /\ calls[c] = <<>> => s[1] = new
      /\ calls[c] # <<>> => s[1] = calls[c][1] /\ s[2] = new
  BY <1>0, <1>1, Append1
<1> HIDE DEF s
<1>11. Len(s) <= 2 /\ (Len(s) = 2 => calls[c] # <<>> /\ s[2] = new)
  <2>1. Len(calls[c]) \in Nat /\ (calls[c] = <<>> <=> Len(calls[c]) = 0)
    BY <1>1, FrameCount
  <2>2. Len(s) <= 2 /\ (Len(s) = 2 => calls[c] # <<>>)
    BY <1>1, <1>2, <2>1
  <2> QED BY <1>2, <2>2
<1>3. /\ calls' \in [Contexts -> Seq(Call)] /\ calls'[c] = s
      /\ \A d \in Contexts \ {c} : calls'[d] = calls[d]
      /\ Busy(c)' /\ Outer(c)' = s[1]
      /\ \A d \in Contexts \ {c} : (Busy(d)' <=> Busy(d)) /\ Outer(d)' = Outer(d)
      /\ \A d \in Contexts \ {c} :
           (d \in Lookers' <=> d \in Lookers) /\ (d \in Changers' <=> d \in Changers)
  BY <1>1, <1>2, Rewritten DEF BusInv
<1>4. /\ ~Busy(c) => Outer(c)' = new
      /\ Busy(c) => Outer(c)' = Outer(c) /\ Outer(c).at = "func" /\ Outer(c).kind = "usb_mut"
  BY <1>1, <1>2, <1>3 DEF Busy, Outer
<1>5. Lookers' = Lookers /\ Changers' = Changers
  <2>1. (c \in Lookers' <=> c \in Lookers) /\ (c \in Changers' <=> c \in Changers)
    BY <1>3, <1>4 DEF Lookers, Changers, new
  <2>2. Lookers' \subseteq Contexts /\ Changers' \subseteq Contexts
        /\ Lookers \subseteq Contexts /\ Changers \subseteq Contexts
    BY DEF Lookers, Changers
  <2>3. \A d \in Contexts : (d \in Lookers' <=> d \in Lookers) /\ (d \in Changers' <=> d \in Changers)
    BY <1>3, <2>1
  <2> QED BY <2>2, <2>3
<1>6. Nesting'
  BY <1>1, <1>3, NestingKept DEF BusInv
<1>7. Frames'
  <2>1. Len(s) <= 2 /\ (Len(s) = 2 => Busy(c) /\ s[2] = new)
    BY <1>11 DEF Busy
  <2>2. /\ Len(calls'[c]) <= 2
        /\ Len(calls'[c]) = 2 =>
             /\ Outer(c)'.at = "func" /\ Outer(c)'.kind = "usb_mut"
             /\ calls'[c][2].at = "borrow"
    BY <1>3, <1>4, <2>1 DEF new
  <2>3. ASSUME NEW d \in Contexts \ {c}
        PROVE  /\ Len(calls'[d]) <= 2
               /\ Len(calls'[d]) = 2 =>
                    /\ Outer(d)'.at = "func" /\ Outer(d)'.kind = "usb_mut"
                    /\ calls'[d][2].at = "borrow"
    BY <1>3, <2>3 DEF BusInv, Frames
  <2> QED BY <1>3, <2>2, <2>3 DEF Frames
<1>8. Flagged'
  BY <1>1, <1>5 DEF BusInv, Flagged
<1>9. Loaded' /\ Dropping'
  <2>1. \A d \in Contexts : Below(d)' = Below(d)
    BY <1>5 DEF Below
  <2>2. \A d \in Contexts :
          Busy(d)' /\ Outer(d)'.at \in {"store", "drop"} => Busy(d) /\ Outer(d)' = Outer(d)
    BY <1>3, <1>4 DEF new
  <2>3. Loaded'
    BY <1>5, <2>1, <2>2 DEF BusInv, Loaded
  <2>4. Dropping'
    BY <2>1, <2>2 DEF BusInv, Dropping
  <2> QED BY <2>3, <2>4
<1>10. Disabled'
  <2> SUFFICES ASSUME ~cs, NEW d \in Contexts, Busy(d)'
               PROVE  masked' /\ d = Last(stack') /\ (Len(calls'[d]) = 2 => calls'[d][2].was)
    BY <1>1 DEF Disabled
  <2>1. d = c
    BY <1>1, <1>3 DEF BusInv, Disabled
  <2>2. Len(s) = 2 => Busy(c) /\ s[2] = new
    BY <1>11 DEF Busy
  <2>3. Busy(c) => masked
    BY DEF BusInv, Disabled
  <2>4. Len(calls'[c]) = 2 => calls'[c][2].was
    BY <1>3, <2>2, <2>3 DEF new
  <2> QED BY <1>1, <2>1, <2>4
<1> QED
  BY <1>1, <1>5, <1>6, <1>7, <1>8, <1>9, <1>10 DEF BusInv, PanicsOnlyNested

\* Only who is inside forbids a borrow.
LEMMA Forbidden ==
    ASSUME Flagged, NEW kind, ~may_borrow(kind)
    PROVE  Lookers # {} \/ Changers # {}
<1> SUFFICES ASSUME Changers = {} PROVE Lookers # {}
  OBVIOUS
<1>1. borrow = Cardinality(Lookers) /\ Cardinality(Lookers) \in Nat
  BY SomeContexts DEF Flagged, Lookers
<1>2. borrow # 0
  BY <1>1 DEF may_borrow
<1> QED BY <1>1, <1>2, FS_EmptySet

\* The flag that is loaded is what those below have made of it.
LEMMA BorrowLoad ==
    ASSUME BusInv, NEW c \in Contexts, borrow_load(c)
    PROVE  BusInv' /\ Lookers' = Lookers /\ Changers' = Changers
<1>1. /\ At(c, "borrow") /\ calls[c] \in Seq(Call) /\ calls[c] # <<>>
      /\ Last(calls[c]).at = "borrow" /\ Len(calls[c]) <= 2
      /\ c = Last(stack) /\ ~panicked /\ Busy(c)
      /\ UNCHANGED <<cs, stack, masked, borrow>>
  BY DEF borrow_load, At, Running, BusInv, Frames, Busy
<1>2. CASE ~may_borrow(Last(calls[c]).kind)
  <2>1. panicked' = TRUE /\ calls' = calls
    BY <1>2 DEF borrow_load
  <2>2. Lookers' = Lookers /\ Changers' = Changers
    BY <2>1 DEF Lookers, Changers, Busy, Outer
  <2>3. PICK d \in Contexts : d \in Lookers \cup Changers
    BY <1>2, Forbidden DEF BusInv, Lookers, Changers
  <2>4. Busy(d) /\ Outer(d).at \in {"func", "drop"}
    BY <2>3 DEF Lookers, Changers
  <2>5. PanicsOnlyNested'
    <3>1. CASE d = c
      <4> DEFINE n == Len(calls[c])
      <4>1. n # 1
        BY <1>1, <2>4, <3>1, OneFrame DEF Outer
      <4>2. n \in Nat /\ n # 0 /\ n <= 2
        BY <1>1, FrameCount
      <4> HIDE DEF n
      <4>3. n = 2
        BY <4>1, <4>2
      <4> QED BY <2>1, <4>3 DEF PanicsOnlyNested, n
    <3>2. CASE d # c
      <4>1. cs
        BY <1>1, <2>4, <3>2 DEF BusInv, Disabled
      <4> QED BY <1>1, <2>1, <2>4, <3>2, <4>1 DEF PanicsOnlyNested, Busy
    <3> QED BY <3>1, <3>2
  <2>6. Nesting' /\ Frames' /\ Flagged' /\ Disabled'
    BY <1>1, <2>1, <2>2 DEF BusInv, Nesting, Frames, Flagged, Disabled, Busy, Outer
  <2>7. Loaded' /\ Dropping'
    <3>1. \A d2 \in Contexts : Below(d2)' = Below(d2)
      BY <2>2 DEF Below
    <3> QED BY <2>1, <2>2, <3>1 DEF BusInv, Loaded, Dropping, Busy, Outer
  <2> QED BY <1>1, <2>1, <2>2, <2>5, <2>6, <2>7 DEF BusInv
<1>3. CASE may_borrow(Last(calls[c]).kind)
  <2>1. /\ calls' = [calls EXCEPT ![c] = Append(Front(calls[c]),
                       [Last(calls[c]) EXCEPT !.at = "store", !.seen = borrow])]
        /\ panicked' = panicked
    <3>1. Goto(c, "store", borrow) /\ UNCHANGED panicked
      BY <1>3 DEF borrow_load
    <3> QED BY <3>1 DEF Goto, BusInv, Frames
  <2>2. Len(calls[c]) = 1
    <3> DEFINE n == Len(calls[c])
    <3>1. n \in Nat /\ n # 0 /\ n <= 2
      BY <1>1, FrameCount
    <3>2. ASSUME n = 2 PROVE FALSE
      <4>1. c \in Changers
        BY <1>1, <3>2 DEF BusInv, Frames, Changers
      <4>2. borrow = -1
        BY <4>1 DEF BusInv, Flagged
      <4> QED BY <1>3, <4>2 DEF may_borrow
    <3> HIDE DEF n
    <3>3. n = 1
      BY <3>1, <3>2
    <3> QED BY <3>3 DEF n
  <2> DEFINE new == [Outer(c) EXCEPT !.at = "store", !.seen = borrow]
             s == <<new>>
  <2>3. /\ Last(calls[c]) = Outer(c) /\ Outer(c) \in Call /\ Front(calls[c]) = <<>>
        /\ Outer(c).at = "borrow"
    BY <1>1, <2>2, OneFrame DEF Outer
  <2>4. new \in Call /\ new.at = "store" /\ new.seen = borrow /\ new.kind = Outer(c).kind
    BY <2>3 DEF Call, BusInv, Flagged
  <2>5. calls' = [calls EXCEPT ![c] = Append(<<>>, new)]
    BY <2>1, <2>3
  <2> HIDE DEF new
  <2>6. Append(<<>>, new) = s /\ s \in Seq(Call) /\ s # <<>> /\ s[1] = new /\ Len(s) = 1
    BY <2>4
  <2>7. calls' = [calls EXCEPT ![c] = s]
    BY <2>5, <2>6
  <2> HIDE DEF s
  <2>8. /\ calls' \in [Contexts -> Seq(Call)] /\ calls'[c] = s
        /\ \A d \in Contexts \ {c} : calls'[d] = calls[d]
        /\ Busy(c)' /\ Outer(c)' = new
        /\ \A d \in Contexts \ {c} : (Busy(d)' <=> Busy(d)) /\ Outer(d)' = Outer(d)
        /\ \A d \in Contexts \ {c} :
             (d \in Lookers' <=> d \in Lookers) /\ (d \in Changers' <=> d \in Changers)
    BY <2>6, <2>7, Rewritten DEF BusInv
  <2>9. /\ c \notin Lookers /\ c \notin Changers /\ c \notin Lookers' /\ c \notin Changers'
    BY <2>3, <2>4, <2>8 DEF Lookers, Changers
  <2>10. Lookers' = Lookers /\ Changers' = Changers
    <3>1. Lookers' \subseteq Contexts /\ Changers' \subseteq Contexts
          /\ Lookers \subseteq Contexts /\ Changers \subseteq Contexts
      BY DEF Lookers, Changers
    <3>2. \A d \in Contexts : (d \in Lookers' <=> d \in Lookers) /\ (d \in Changers' <=> d \in Changers)
      BY <2>8, <2>9
    <3> QED BY <3>1, <3>2
  <2>11. Nesting'
    BY <1>1, <2>8, NestingKept DEF BusInv
  <2>12. Frames'
    <3>1. Len(calls'[c]) <= 2 /\ Len(calls'[c]) # 2
      <4> DEFINE n == Len(calls'[c])
      <4>1. n = 1
        BY <2>6, <2>8
      <4> HIDE DEF n
      <4>2. n <= 2 /\ n # 2
        BY <4>1
      <4> QED BY <4>2 DEF n
    <3> QED BY <2>8, <3>1 DEF BusInv, Frames
  <2>13. Flagged'
    BY <1>1, <2>10 DEF BusInv, Flagged
  <2>14. Loaded'
    <3>1. \A d \in Contexts : Below(d)' = Below(d)
      BY <2>10 DEF Below
    <3>2. \A d \in Contexts \ {c} : Busy(d)' /\ Outer(d)'.at = "store" => Busy(d) /\ Outer(d)' = Outer(d)
      BY <2>8
    <3>3. Below(c) = Lookers
      BY <1>1, <2>9, AllBelow DEF BusInv
    <3>4. Changers = {} /\ borrow = Cardinality(Lookers)
      BY <1>3 DEF may_borrow, BusInv, Flagged
    <3>5. Outer(c).kind = "usb_mut" => Lookers = {}
      <4>1. Outer(c).kind = "usb_mut" => Cardinality(Lookers) = 0
        BY <1>3, <2>3, <3>4 DEF may_borrow
      <4>2. IsFiniteSet(Lookers)
        BY SomeContexts DEF Lookers
      <4> QED BY <4>1, <4>2, FS_EmptySet
    <3>6. /\ \A d \in Changers' : ~(Priority[d] < Priority[c])
          /\ Outer(c)'.seen = Cardinality(Below(c)')
          /\ Outer(c)'.kind = "usb_mut" => Below(c)' = {}
      BY <2>4, <2>8, <2>10, <3>1, <3>3, <3>4, <3>5
    <3> QED BY <2>10, <3>1, <3>2, <3>6 DEF BusInv, Loaded
  <2>15. Disabled'
    BY <1>1, <2>6, <2>8 DEF BusInv, Disabled
  <2>16. Dropping'
    <3>1. \A d \in Contexts : Below(d)' = Below(d)
      BY <2>10 DEF Below
    <3> QED BY <2>4, <2>8, <3>1 DEF BusInv, Dropping
  <2> QED BY <1>1, <2>1, <2>10, <2>11, <2>12, <2>13, <2>14, <2>15, <2>16
          DEF BusInv, PanicsOnlyNested
<1> QED BY <1>2, <1>3

\* The flag that is stored is the one of a call that found no one above.
LEMMA BorrowStore ==
    ASSUME BusInv, NEW c \in Contexts, borrow_store(c)
    PROVE  /\ BusInv' /\ ~panicked /\ ~panicked'
           /\ Changers = {}
           /\ \/ Lookers' = Lookers \cup {c} /\ Changers' = {}
              \/ Lookers = {} /\ Lookers' = {} /\ Changers' = {c}
<1> DEFINE frame == Outer(c)
           new == [frame EXCEPT !.at = "func", !.seen = 0]
           s == <<new>>
<1>1. /\ calls[c] \in Seq(Call) /\ Len(calls[c]) = 1 /\ Busy(c)
      /\ Last(calls[c]) = frame /\ frame \in Call /\ frame.at = "store"
      /\ Front(calls[c]) = <<>> /\ c = Last(stack) /\ ~panicked
  BY AtOne DEF borrow_store
<1>2. /\ borrow' = IF frame.kind = "usb" THEN frame.seen + 1 ELSE -1
      /\ calls' = [calls EXCEPT ![c] = Append(<<>>, new)]
      /\ UNCHANGED <<cs, stack, masked, panicked>>
  BY <1>1 DEF borrow_store, Goto, BusInv, Frames
<1>3. /\ new \in Call /\ new.at = "func" /\ new.kind = frame.kind
      /\ frame.kind \in {"usb", "usb_mut"} /\ frame.seen \in Int
  <2>1. frame \in Call
    BY <1>1
  <2> HIDE DEF frame
  <2>2. frame.kind \in {"usb", "usb_mut"} /\ frame.seen \in Int
    BY <2>1 DEF Call
  <2>3. new \in Call
    <3> DEFINE zero == 0
               func == "func"
               changed == [frame EXCEPT !.at = func, !.seen = zero]
    <3>1. zero \in Int /\ func \in {"borrow", "store", "func", "drop"}
      OBVIOUS
    <3> HIDE DEF zero, func
    <3>2. changed \in Call
      BY <2>1, <3>1 DEF Call
    <3> QED BY <3>2 DEF zero, func
  <2>4. new.at = "func" /\ new.kind = frame.kind
    BY <2>1 DEF Call
  <2> QED BY <2>2, <2>3, <2>4
<1> HIDE DEF new
<1>4. Append(<<>>, new) = s /\ s \in Seq(Call) /\ s # <<>> /\ s[1] = new /\ Len(s) = 1
  BY <1>3
<1>5. calls' = [calls EXCEPT ![c] = s]
  BY <1>2, <1>4
<1> HIDE DEF s
<1>6. /\ calls' \in [Contexts -> Seq(Call)] /\ calls'[c] = s
      /\ \A d \in Contexts \ {c} : calls'[d] = calls[d]
      /\ Busy(c)' /\ Outer(c)' = new
      /\ \A d \in Contexts \ {c} : (Busy(d)' <=> Busy(d)) /\ Outer(d)' = Outer(d)
      /\ \A d \in Contexts \ {c} :
           (d \in Lookers' <=> d \in Lookers) /\ (d \in Changers' <=> d \in Changers)
  BY <1>4, <1>5, Rewritten DEF BusInv
<1>7. /\ c \notin Lookers /\ c \notin Changers
      /\ c \in Lookers' <=> frame.kind = "usb"
      /\ c \in Changers' <=> frame.kind = "usb_mut"
  BY <1>1, <1>3, <1>6 DEF Lookers, Changers
<1>8. /\ Lookers' \subseteq Contexts /\ Changers' \subseteq Contexts
      /\ Lookers \subseteq Contexts /\ Changers \subseteq Contexts
  BY DEF Lookers, Changers
<1>9. Below(c) = Lookers /\ \A d \in Changers : Priority[d] < Priority[c]
  BY <1>1, <1>7, AllBelow DEF BusInv
<1>10. /\ Changers = {} /\ frame.seen = Cardinality(Lookers)
       /\ frame.kind = "usb_mut" => Lookers = {}
  BY <1>1, <1>9 DEF BusInv, Loaded
<1>11. \/ frame.kind = "usb" /\ Lookers' = Lookers \cup {c} /\ Changers' = {}
       \/ frame.kind = "usb_mut" /\ Lookers = {} /\ Lookers' = {} /\ Changers' = {c}
  <2>1. CASE frame.kind = "usb"
    <3>1. Lookers' = Lookers \cup {c}
      BY <1>6, <1>7, <1>8, <2>1
    <3>2. Changers' = {}
      BY <1>6, <1>7, <1>8, <1>10, <2>1
    <3> QED BY <2>1, <3>1, <3>2
  <2>2. CASE frame.kind = "usb_mut"
    <3>1. Lookers' = {}
      BY <1>6, <1>7, <1>8, <1>10, <2>2
    <3>2. Changers' = {c}
      BY <1>6, <1>7, <1>8, <1>10, <2>2
    <3> QED BY <1>10, <2>2, <3>1, <3>2
  <2> QED BY <1>3, <2>1, <2>2
<1>12. Nesting'
  BY <1>1, <1>2, <1>6, NestingKept DEF BusInv
<1>13. Frames'
  <2>1. Len(calls'[c]) <= 2 /\ Len(calls'[c]) # 2
    <3> DEFINE n == Len(calls'[c])
    <3>1. n = 1
      BY <1>4, <1>6
    <3> HIDE DEF n
    <3>2. n <= 2 /\ n # 2
      BY <3>1
    <3> QED BY <3>2 DEF n
  <2> QED BY <1>6, <2>1 DEF BusInv, Frames
<1>14. Flagged'
  <2>1. CASE frame.kind = "usb" /\ Lookers' = Lookers \cup {c} /\ Changers' = {}
    <3>1. IsFiniteSet(Lookers) /\ Cardinality(Lookers) \in Nat
      BY <1>8, SomeContexts
    <3>2. Cardinality(Lookers \cup {c}) = Cardinality(Lookers) + 1
      BY <1>7, <3>1, FS_AddElement
    <3>3. borrow' = Cardinality(Lookers')
      BY <1>2, <1>10, <2>1, <3>2
    <3> QED BY <1>2, <1>3, <2>1, <3>3 DEF Flagged
  <2>2. CASE frame.kind = "usb_mut" /\ Lookers = {} /\ Lookers' = {} /\ Changers' = {c}
    BY <1>2, <2>2 DEF Flagged
  <2> QED BY <1>11, <2>1, <2>2
<1>15. Loaded'
  <2> SUFFICES ASSUME NEW d \in Contexts, Busy(d)', Outer(d)'.at = "store"
               PROVE  /\ \A e \in Changers' : ~(Priority[e] < Priority[d])
                      /\ Outer(d)'.seen = Cardinality(Below(d)')
                      /\ Outer(d)'.kind = "usb_mut" => Below(d)' = {}
    BY DEF Loaded
  <2>1. d # c /\ Busy(d) /\ Outer(d)' = Outer(d)
    BY <1>3, <1>6
  <2>2. ~(Priority[c] < Priority[d])
    BY <1>1, <2>1, Topmost DEF BusInv
  <2>3. Below(d)' = Below(d)
    BY <1>11, <2>2 DEF Below
  <2>4. \A e \in Changers' : ~(Priority[e] < Priority[d])
    BY <1>11, <2>2
  <2> QED BY <2>1, <2>3, <2>4 DEF BusInv, Loaded
<1>16. Disabled'
  <2>1. Len(calls'[c]) # 2
    BY <1>4, <1>6
  <2> QED BY <1>1, <1>2, <1>6, <2>1 DEF BusInv, Disabled
<1>17. Dropping'
  <2> SUFFICES ASSUME NEW d \in Contexts, Busy(d)', Outer(d)'.at = "drop"
               PROVE  Busy(d) /\ Outer(d)' = Outer(d) /\ Below(d)' = Below(d)
    BY DEF BusInv, Dropping
  <2>1. d # c /\ Busy(d) /\ Outer(d)' = Outer(d)
    BY <1>3, <1>6
  <2>2. ~(Priority[c] < Priority[d])
    BY <1>1, <2>1, Topmost DEF BusInv
  <2> QED BY <1>11, <2>1, <2>2 DEF Below
<1> QED
  BY <1>1, <1>2, <1>10, <1>11, <1>12, <1>13, <1>14, <1>15, <1>16, <1>17
     DEF BusInv, PanicsOnlyNested

\* The flag a call is to release is as it is: those who came since have gone.
LEMMA BorrowDrop ==
    ASSUME BusInv, NEW c \in Contexts, borrow_drop(c)
    PROVE  BusInv' /\ Lookers' = Lookers /\ Changers' = Changers
<1> DEFINE frame == Outer(c)
           new == [frame EXCEPT !.at = "drop", !.seen = borrow]
           s == <<new>>
<1>1. /\ calls[c] \in Seq(Call) /\ Len(calls[c]) = 1 /\ Busy(c)
      /\ Last(calls[c]) = frame /\ frame \in Call /\ frame.at = "func"
      /\ Front(calls[c]) = <<>> /\ c = Last(stack) /\ ~panicked
  BY AtOne DEF borrow_drop
<1>2. /\ calls' = [calls EXCEPT ![c] = Append(<<>>, new)]
      /\ UNCHANGED <<cs, stack, masked, borrow, panicked>>
  BY <1>1 DEF borrow_drop, Goto, BusInv, Frames
<1>3. /\ new \in Call /\ new.at = "drop" /\ new.seen = borrow /\ new.kind = frame.kind
      /\ frame.kind \in {"usb", "usb_mut"}
  BY <1>1 DEF Call, BusInv, Flagged
<1> HIDE DEF new
<1>4. Append(<<>>, new) = s /\ s \in Seq(Call) /\ s # <<>> /\ s[1] = new /\ Len(s) = 1
  BY <1>3
<1>5. calls' = [calls EXCEPT ![c] = s]
  BY <1>2, <1>4
<1> HIDE DEF s
<1>6. /\ calls' \in [Contexts -> Seq(Call)] /\ calls'[c] = s
      /\ \A d \in Contexts \ {c} : calls'[d] = calls[d]
      /\ Busy(c)' /\ Outer(c)' = new
      /\ \A d \in Contexts \ {c} : (Busy(d)' <=> Busy(d)) /\ Outer(d)' = Outer(d)
      /\ \A d \in Contexts \ {c} :
           (d \in Lookers' <=> d \in Lookers) /\ (d \in Changers' <=> d \in Changers)
  BY <1>4, <1>5, Rewritten DEF BusInv
<1>7. /\ c \in Lookers <=> frame.kind = "usb"
      /\ c \in Lookers' <=> frame.kind = "usb"
      /\ c \in Changers <=> frame.kind = "usb_mut"
      /\ c \in Changers' <=> frame.kind = "usb_mut"
  BY <1>1, <1>3, <1>6 DEF Lookers, Changers
<1>8. Lookers' = Lookers /\ Changers' = Changers
  <2>1. Lookers' \subseteq Contexts /\ Changers' \subseteq Contexts
        /\ Lookers \subseteq Contexts /\ Changers \subseteq Contexts
    BY DEF Lookers, Changers
  <2>2. \A d \in Contexts : (d \in Lookers' <=> d \in Lookers) /\ (d \in Changers' <=> d \in Changers)
    BY <1>6, <1>7
  <2> QED BY <2>1, <2>2
<1>9. Nesting'
  BY <1>1, <1>2, <1>6, NestingKept DEF BusInv
<1>10. Frames'
  <2>1. Len(calls'[c]) <= 2 /\ Len(calls'[c]) # 2
    <3> DEFINE n == Len(calls'[c])
    <3>1. n = 1
      BY <1>4, <1>6
    <3> HIDE DEF n
    <3>2. n <= 2 /\ n # 2
      BY <3>1
    <3> QED BY <3>2 DEF n
  <2> QED BY <1>6, <2>1 DEF BusInv, Frames
<1>11. Flagged'
  BY <1>2, <1>8 DEF BusInv, Flagged
<1>12. \A d \in Contexts : Below(d)' = Below(d)
  BY <1>8 DEF Below
<1>13. Loaded'
  BY <1>3, <1>6, <1>8, <1>12 DEF BusInv, Loaded
<1>14. Dropping'
  <2>1. frame.kind = "usb_mut" => borrow = -1
    BY <1>7 DEF BusInv, Flagged
  <2>2. frame.kind = "usb" => borrow = Cardinality(Below(c)) + 1
    <3> SUFFICES ASSUME frame.kind = "usb" PROVE borrow = Cardinality(Below(c)) + 1
      OBVIOUS
    <3>1. c \in Lookers /\ Changers = {} /\ borrow = Cardinality(Lookers)
      BY <1>7 DEF BusInv, Flagged
    <3>2. \A d \in Lookers : d # c => Priority[d] < Priority[c]
      BY <1>1, Topmost DEF BusInv, Lookers
    <3>3. ~(Priority[c] < Priority[c])
      BY ContextsAssumption
    <3>4. Below(c) = Lookers \ {c}
      BY <3>2, <3>3 DEF Below
    <3>5. IsFiniteSet(Lookers) /\ Cardinality(Lookers) \in Nat
      BY SomeContexts DEF Lookers
    <3>6. Cardinality(Lookers \ {c}) = Cardinality(Lookers) - 1
      BY <3>1, <3>5, FS_RemoveElement
    <3> QED BY <3>1, <3>4, <3>5, <3>6
  <2>3. Outer(c)'.seen = IF Outer(c)'.kind = "usb_mut" THEN -1 ELSE Cardinality(Below(c)') + 1
    BY <1>3, <1>6, <1>12, <2>1, <2>2
  <2> QED BY <1>6, <1>12, <2>3 DEF BusInv, Dropping
<1>15. Disabled'
  <2>1. Len(calls'[c]) # 2
    BY <1>4, <1>6
  <2> QED BY <1>1, <1>2, <1>6, <2>1 DEF BusInv, Disabled
<1> QED
  BY <1>1, <1>2, <1>8, <1>9, <1>10, <1>11, <1>13, <1>14, <1>15 DEF BusInv, PanicsOnlyNested

\* A call that returns gives back what it took.
LEMMA WithCsReturn ==
    ASSUME BusInv, NEW c \in Contexts, with_cs_return(c)
    PROVE  /\ BusInv' /\ ~panicked /\ ~panicked'
           /\ Lookers' = Lookers \ {c} /\ Changers' = Changers \ {c}
<1> DEFINE frame == Outer(c)
           none == <<>>
<1>1. /\ calls[c] \in Seq(Call) /\ Len(calls[c]) = 1 /\ Busy(c)
      /\ Last(calls[c]) = frame /\ frame \in Call /\ frame.at = "drop"
      /\ Front(calls[c]) = none /\ c = Last(stack) /\ ~panicked
  BY AtOne DEF with_cs_return
<1>2. /\ borrow' = released(frame.seen) /\ masked' = frame.was
      /\ calls' = [calls EXCEPT ![c] = none]
      /\ UNCHANGED <<cs, stack, panicked>>
  BY <1>1 DEF with_cs_return, BusInv, Frames
<1>3. masked' \in BOOLEAN /\ frame.kind \in {"usb", "usb_mut"}
  BY <1>1, <1>2 DEF Call
<1>4. none \in Seq(Call)
  OBVIOUS
<1>5. /\ calls' \in [Contexts -> Seq(Call)] /\ calls'[c] = none
      /\ \A d \in Contexts \ {c} : calls'[d] = calls[d]
      /\ ~Busy(c)'
      /\ \A d \in Contexts \ {c} : (Busy(d)' <=> Busy(d)) /\ Outer(d)' = Outer(d)
      /\ \A d \in Contexts \ {c} :
           (d \in Lookers' <=> d \in Lookers) /\ (d \in Changers' <=> d \in Changers)
  BY <1>2, <1>4, Rewritten DEF BusInv
<1>6. /\ Lookers' \subseteq Contexts /\ Changers' \subseteq Contexts
      /\ Lookers \subseteq Contexts /\ Changers \subseteq Contexts
  BY DEF Lookers, Changers
<1>7. /\ c \in Lookers <=> frame.kind = "usb"
      /\ c \in Changers <=> frame.kind = "usb_mut"
      /\ c \notin Lookers' /\ c \notin Changers'
  BY <1>1, <1>3, <1>5 DEF Lookers, Changers
<1>8. Lookers' = Lookers \ {c} /\ Changers' = Changers \ {c}
  BY <1>5, <1>6, <1>7
<1>9. Nesting'
  BY <1>1, <1>2, <1>5, NestingKept DEF BusInv
<1>10. Frames'
  <2>1. Len(calls'[c]) <= 2 /\ Len(calls'[c]) # 2
    BY <1>5
  <2> QED BY <1>5, <2>1 DEF BusInv, Frames
<1>11. Flagged'
  <2>1. CASE frame.kind = "usb"
    <3>1. Changers = {} /\ borrow = Cardinality(Lookers) /\ c \in Lookers
      BY <1>7, <2>1 DEF BusInv, Flagged
    <3>2. IsFiniteSet(Lookers) /\ Cardinality(Lookers) \in Nat
      BY <1>6, SomeContexts
    <3>3. Cardinality(Lookers \ {c}) = Cardinality(Lookers) - 1
      BY <3>1, <3>2, FS_RemoveElement
    <3>4. frame.seen = Cardinality(Lookers)
      <4>1. \A d \in Lookers : d # c => Priority[d] < Priority[c]
        BY <1>1, Topmost DEF BusInv, Lookers
      <4>2. ~(Priority[c] < Priority[c])
        BY ContextsAssumption
      <4>3. Below(c) = Lookers \ {c}
        BY <4>1, <4>2 DEF Below
      <4>4. frame.seen = Cardinality(Below(c)) + 1
        BY <1>1, <2>1 DEF BusInv, Dropping
      <4> QED BY <3>2, <3>3, <4>3, <4>4
    <3>5. borrow' = Cardinality(Lookers') /\ borrow' \in Int /\ Changers' = {}
      BY <1>2, <1>8, <3>1, <3>2, <3>3, <3>4 DEF released
    <3> QED BY <3>5 DEF Flagged
  <2>2. CASE frame.kind = "usb_mut"
    <3>1. /\ c \in Changers /\ Lookers = {} /\ \E d \in Contexts : Changers = {d}
          /\ frame.seen = -1
      BY <1>1, <1>7, <2>2 DEF BusInv, Flagged, Dropping
    <3>2. Changers' = {} /\ Lookers' = {}
      BY <1>8, <3>1
    <3>3. borrow' = 0
      BY <1>2, <3>1 DEF released
    <3> QED BY <3>2, <3>3, FS_EmptySet DEF Flagged
  <2> QED BY <1>3, <2>1, <2>2
<1>12. Loaded'
  <2> SUFFICES ASSUME NEW d \in Contexts, Busy(d)', Outer(d)'.at = "store"
               PROVE  /\ \A e \in Changers' : ~(Priority[e] < Priority[d])
                      /\ Outer(d)'.seen = Cardinality(Below(d)')
                      /\ Outer(d)'.kind = "usb_mut" => Below(d)' = {}
    BY DEF Loaded
  <2>1. d # c /\ Busy(d) /\ Outer(d)' = Outer(d)
    BY <1>5
  <2>2. ~(Priority[c] < Priority[d])
    BY <1>1, <2>1, Topmost DEF BusInv
  <2>3. Below(d)' = Below(d)
    BY <1>8, <2>2 DEF Below
  <2> QED BY <1>8, <2>1, <2>3 DEF BusInv, Loaded
<1>13. Disabled'
  BY <1>1, <1>2, <1>5 DEF BusInv, Disabled
<1>14. Dropping'
  <2> SUFFICES ASSUME NEW d \in Contexts, Busy(d)', Outer(d)'.at = "drop"
               PROVE  Busy(d) /\ Outer(d)' = Outer(d) /\ Below(d)' = Below(d)
    BY DEF BusInv, Dropping
  <2>1. d # c /\ Busy(d) /\ Outer(d)' = Outer(d)
    BY <1>5
  <2>2. ~(Priority[c] < Priority[d])
    BY <1>1, <2>1, Topmost DEF BusInv
  <2> QED BY <1>8, <2>1, <2>2 DEF Below
<1> QED
  BY <1>1, <1>2, <1>3, <1>8, <1>9, <1>10, <1>11, <1>12, <1>13, <1>14
     DEF BusInv, PanicsOnlyNested

\* Interrupts come and go between the calls of those they preempt.
LEMMA PreemptStep ==
    ASSUME BusInv, NEW c \in Contexts, Preempt(c)
    PROVE  BusInv' /\ Lookers' = Lookers /\ Changers' = Changers
<1>1. /\ ~masked /\ c \in Handlers /\ Priority[c] > Priority[Last(stack)]
      /\ stack' = Append(stack, c)
      /\ UNCHANGED <<cs, masked, calls, borrow, panicked>>
  BY DEF Preempt
<1>2. Lookers' = Lookers /\ Changers' = Changers
  BY <1>1 DEF Lookers, Changers, Busy, Outer
<1>3. Nesting'
  <2> DEFINE n == Len(stack)
  <2>1. /\ stack \in Seq(Contexts) /\ n \in Nat /\ n > 0 /\ DOMAIN stack = 1 .. n
        /\ stack[1] = Thread
    BY DEF BusInv, Nesting
  <2>2. /\ stack' \in Seq(Contexts) /\ stack' # <<>> /\ DOMAIN stack' = 1 .. n + 1
        /\ \A i \in 1 .. n : stack'[i] = stack[i]
        /\ stack'[n + 1] = c
    BY <1>1, <2>1
  <2>3. \A i, j \in 1 .. n : i < j => Priority[stack[i]] < Priority[stack[j]]
    BY <2>1 DEF BusInv, Nesting
  <2>4. /\ Last(stack) = stack[n]
        /\ \A i \in 1 .. n : Priority[stack[i]] \in Nat
        /\ Priority[c] \in Nat
    BY <2>1, ContextsAssumption DEF Last
  <2> HIDE DEF n
  <2>5. \A i \in 1 .. n : Priority[stack[i]] < Priority[c]
    <3> TAKE i \in 1 .. n
    <3>1. n \in 1 .. n /\ (i = n \/ i < n)
      BY <2>1
    <3>2. Priority[stack[i]] = Priority[stack[n]] \/ Priority[stack[i]] < Priority[stack[n]]
      BY <2>3, <3>1
    <3> QED BY <1>1, <2>4, <3>1, <3>2
  <2>6. \A i, j \in 1 .. n + 1 : i < j => Priority[stack'[i]] < Priority[stack'[j]]
    <3> SUFFICES ASSUME NEW i \in 1 .. n + 1, NEW j \in 1 .. n + 1, i < j
                 PROVE  Priority[stack'[i]] < Priority[stack'[j]]
      OBVIOUS
    <3>1. i \in 1 .. n /\ (j \in 1 .. n \/ j = n + 1)
      BY <2>1
    <3> QED BY <2>2, <2>3, <2>5, <3>1
  <2>7. stack'[1] = Thread /\ \A i \in 1 .. n : i \in 1 .. n + 1
    BY <2>1, <2>2
  <2>8. \A d \in Contexts : Busy(d)' => \E i \in 1 .. n + 1 : stack'[i] = d
    <3>1. \A d \in Contexts : Busy(d)' => \E i \in 1 .. n : stack[i] = d
      BY <1>1, <2>1 DEF BusInv, Nesting, Busy
    <3> QED BY <2>2, <2>7, <3>1
  <2> QED BY <2>2, <2>6, <2>7, <2>8 DEF Nesting
<1>4. Frames' /\ Flagged'
  BY <1>1, <1>2 DEF BusInv, Frames, Flagged, Outer
<1>5. Loaded' /\ Dropping'
  <2>1. \A d \in Contexts : Below(d)' = Below(d)
    BY <1>2 DEF Below
  <2> QED BY <1>1, <1>2, <2>1 DEF BusInv, Loaded, Dropping, Busy, Outer
<1>6. Disabled'
  BY <1>1 DEF BusInv, Disabled, Busy
<1> QED
  BY <1>1, <1>2, <1>3, <1>4, <1>5, <1>6 DEF BusInv, PanicsOnlyNested

\* And a handler that returns has no call left.
LEMMA ReturnStep ==
    ASSUME BusInv, NEW c \in Contexts, Return(c)
    PROVE  BusInv' /\ Lookers' = Lookers /\ Changers' = Changers
<1>1. /\ c = Last(stack) /\ c \in Handlers /\ ~Busy(c)
      /\ stack' = Front(stack)
      /\ UNCHANGED <<cs, masked, calls, borrow, panicked>>
  BY DEF Return, Running, Busy
<1>2. Lookers' = Lookers /\ Changers' = Changers
  BY <1>1 DEF Lookers, Changers, Busy, Outer
<1>3. Nesting'
  <2> DEFINE n == Len(stack)
  <2>1. /\ stack \in Seq(Contexts) /\ n \in Nat /\ n > 0 /\ DOMAIN stack = 1 .. n
        /\ stack[1] = Thread /\ stack[n] = c
    BY <1>1 DEF BusInv, Nesting, Last
  <2>2. n # 1
    BY <1>1, <2>1, ContextsAssumption
  <2>3. stack' = SubSeq(stack, 1, n - 1)
    BY <1>1 DEF Front
  <2>4. /\ stack' \in Seq(Contexts) /\ Len(stack') = n - 1 /\ DOMAIN stack' = 1 .. n - 1
        /\ \A i \in 1 .. n - 1 : stack'[i] = stack[i]
    BY <2>1, <2>2, <2>3
  <2>5. \A i, j \in 1 .. n : i < j => Priority[stack[i]] < Priority[stack[j]]
    BY <2>1 DEF BusInv, Nesting
  <2>6. \A d \in Contexts : Busy(d) => \E i \in 1 .. n : stack[i] = d
    BY <2>1 DEF BusInv, Nesting
  <2> HIDE DEF n
  <2>7. 1 \in 1 .. n - 1 /\ \A i \in 1 .. n - 1 : i \in 1 .. n
    BY <2>1, <2>2
  <2>8. stack' # <<>> /\ stack'[1] = Thread
    BY <2>1, <2>4, <2>7
  <2>9. \A i, j \in 1 .. n - 1 : i < j => Priority[stack'[i]] < Priority[stack'[j]]
    BY <2>4, <2>5, <2>7
  <2>10. \A d \in Contexts : Busy(d)' => \E i \in 1 .. n - 1 : stack'[i] = d
    <3> SUFFICES ASSUME NEW d \in Contexts, Busy(d)'
                 PROVE  \E i \in 1 .. n - 1 : stack'[i] = d
      OBVIOUS
    <3>1. Busy(d) /\ d # c
      BY <1>1 DEF Busy
    <3>2. PICK i \in 1 .. n : stack[i] = d
      BY <2>6, <3>1
    <3>3. i \in 1 .. n - 1
      BY <2>1, <3>1, <3>2
    <3> QED BY <2>4, <3>2, <3>3
  <2> QED BY <2>4, <2>8, <2>9, <2>10 DEF Nesting
<1>4. Frames' /\ Flagged'
  BY <1>1, <1>2 DEF BusInv, Frames, Flagged, Outer
<1>5. Loaded' /\ Dropping'
  <2>1. \A d \in Contexts : Below(d)' = Below(d)
    BY <1>2 DEF Below
  <2> QED BY <1>1, <1>2, <2>1 DEF BusInv, Loaded, Dropping, Busy, Outer
<1>6. Disabled'
  BY <1>1 DEF BusInv, Disabled, Busy
<1> QED
  BY <1>1, <1>2, <1>3, <1>4, <1>5, <1>6 DEF BusInv, PanicsOnlyNested

\* Every step keeps the invariant.
LEMMA BusInvStep == BusInv /\ [Next]_vars => BusInv'
<1> SUFFICES ASSUME BusInv, [Next]_vars PROVE BusInv'
  OBVIOUS
<1>1. ASSUME NEW c \in Contexts, Preempt(c) PROVE BusInv'
  BY <1>1, PreemptStep
<1>2. ASSUME NEW c \in Contexts, Return(c) PROVE BusInv'
  BY <1>2, ReturnStep
<1>3. ASSUME NEW c \in Contexts, NEW kind \in {"usb", "usb_mut"}, with_cs(c, kind) PROVE BusInv'
  BY <1>3, WithCs
<1>4. ASSUME NEW c \in Contexts, borrow_load(c) PROVE BusInv'
  BY <1>4, BorrowLoad
<1>5. ASSUME NEW c \in Contexts, borrow_store(c) PROVE BusInv'
  BY <1>5, BorrowStore
<1>6. ASSUME NEW c \in Contexts, with_cs_return(c) PROVE BusInv'
  BY <1>6, WithCsReturn
<1>7. ASSUME NEW c \in Contexts, borrow_drop(c) PROVE BusInv'
  BY <1>7, BorrowDrop
<1>8. CASE UNCHANGED vars
  <2>1. Lookers' = Lookers /\ Changers' = Changers
    BY <1>8 DEF vars, Lookers, Changers, Busy, Outer
  <2>2. \A d \in Contexts : Below(d)' = Below(d)
    BY <2>1 DEF Below
  <2>3. Nesting' /\ Frames' /\ Flagged' /\ Disabled' /\ PanicsOnlyNested'
    BY <1>8, <2>1
    DEF vars, BusInv, Nesting, Frames, Flagged, Disabled, PanicsOnlyNested, Busy, Outer
  <2>4. Loaded' /\ Dropping'
    BY <1>8, <2>1, <2>2 DEF vars, BusInv, Loaded, Dropping, Busy, Outer
  <2> QED BY <1>8, <2>3, <2>4 DEF vars, BusInv
<1> QED
  BY <1>1, <1>2, <1>3, <1>4, <1>5, <1>6, <1>7, <1>8 DEF Next

LEMMA BusInvHolds == Spec => []BusInv
BY BusInvInit, BusInvStep, PTL DEF Spec

(***************************************************************************)
(* The flag of the RefCell never counts more borrows than there are        *)
(* contexts, whatever preempts what between its load and its store.        *)
(***************************************************************************)
THEOREM TypeCorrect == Spec => []TypeOK
<1>1. BusInv => TypeOK
  <2> SUFFICES ASSUME BusInv PROVE TypeOK
    OBVIOUS
  <2>1. Cardinality(Lookers) \in Nat /\ Cardinality(Lookers) <= Cardinality(Contexts)
        /\ Cardinality(Contexts) \in Nat
    BY SomeContexts DEF Lookers
  <2>2. borrow = -1 \/ borrow = Cardinality(Lookers)
    BY DEF BusInv, Flagged
  <2>3. borrow \in -1 .. Cardinality(Contexts)
    BY <2>1, <2>2
  <2> QED BY <2>3 DEF BusInv, Nesting, Frames, TypeOK
<1> QED
  BY <1>1, BusInvHolds, PTL

(***************************************************************************)
(* With critical sections no call finds the Driver borrowed but one within *)
(* a gpt_mut callback; without them, only one that preempts another.       *)
(***************************************************************************)
THEOREM PanicsAsDocumented == Spec => []PanicsOnlyNested
<1>1. BusInv => PanicsOnlyNested
  BY DEF BusInv
<1> QED
  BY <1>1, BusInvHolds, PTL

(***************************************************************************)
(* The flag says who is inside although the RefCell loads and stores it in *)
(* two steps: what preempts them has put it back before they go on.        *)
(***************************************************************************)
THEOREM FlagTellsAll == Spec => []FlagExact
<1>1. BusInv => FlagExact
  <2> SUFFICES ASSUME BusInv PROVE FlagExact
    OBVIOUS
  <2>1. Inside("usb") = Lookers \X {1} /\ Inside("usb_mut") = Changers \X {1}
    BY InsideOuter DEF BusInv, ByContext
  <2>2. IsFiniteSet(Lookers) /\ Cardinality(Lookers) \in Nat
    BY SomeContexts DEF Lookers
  <2>3. Cardinality(Inside("usb")) = Cardinality(Lookers)
    <3>1. IsFiniteSet({1}) /\ Cardinality({1}) = 1
      BY FS_Singleton
    <3>2. Cardinality(Lookers \X {1}) = Cardinality(Lookers) * Cardinality({1})
      BY <2>2, <3>1, FS_Product
    <3> DEFINE n == Cardinality(Lookers)
    <3>3. Cardinality(Inside("usb")) = n * 1 /\ n \in Nat
      BY <2>1, <2>2, <3>1, <3>2
    <3> HIDE DEF n
    <3>4. Cardinality(Inside("usb")) = n
      BY <3>3
    <3> QED BY <3>4 DEF n
  <2>4. Inside("usb_mut") # {} <=> Changers # {}
    BY <2>1, Paired
  <2>5. CASE Changers # {}
    <3>1. borrow = -1
      BY <2>5 DEF BusInv, Flagged
    <3> QED BY <2>4, <2>5, <3>1 DEF FlagExact
  <2>6. CASE Changers = {}
    <3>1. borrow = Cardinality(Lookers)
      BY <2>6 DEF BusInv, Flagged
    <3> QED BY <2>2, <2>3, <2>4, <2>6, <3>1 DEF FlagExact
  <2> QED BY <2>5, <2>6
<1> QED
  BY <1>1, BusInvHolds, PTL

(***************************************************************************)
(* The adapter gives the Driver to any number of calls that look or to one *)
(* that changes it: every step of its contexts is one of OneAtATime, or    *)
(* none.  It is what lets Driver.tla take one call at a time.              *)
(***************************************************************************)
THEOREM CallsOneAtATime == Spec => ImplementsOneAtATime
<1> DEFINE In(S) == S \X {1}
<1>1. Init => Access!Init
  <2> SUFFICES ASSUME Init PROVE Access!Init
    OBVIOUS
  <2>1. BusInv
    BY BusInvInit
  <2>2. Lookers = {} /\ Changers = {}
    BY DEF Init, Lookers, Changers, Busy
  <2>3. Inside("usb") = {} /\ Inside("usb_mut") = {}
    BY <2>1, <2>2, InsideOuter, Paired DEF BusInv, ByContext
  <2> QED BY <2>3 DEF Init, Access!Init
<1>2. Frames' => ByContext'
  BY InsideOuter, PTL
<1>3. BusInv /\ BusInv' /\ [Next]_vars => [Access!Next]_(Access!bus)
  <2> SUFFICES ASSUME BusInv, BusInv', [Next]_vars PROVE [Access!Next]_(Access!bus)
    OBVIOUS
  <2>1. Inside("usb") = In(Lookers) /\ Inside("usb_mut") = In(Changers)
    BY InsideOuter DEF BusInv, ByContext
  <2>2. Inside("usb")' = In(Lookers)' /\ Inside("usb_mut")' = In(Changers)'
    BY <1>2 DEF BusInv, ByContext
  <2>3. ASSUME Lookers' = Lookers, Changers' = Changers, panicked' = panicked
        PROVE  UNCHANGED Access!bus
    BY <2>1, <2>2, <2>3 DEF Access!bus
  <2>4. ASSUME NEW c \in Contexts, Preempt(c) PROVE UNCHANGED Access!bus
    BY <2>3, <2>4, PreemptStep DEF Preempt
  <2>5. ASSUME NEW c \in Contexts, Return(c) PROVE UNCHANGED Access!bus
    BY <2>3, <2>5, ReturnStep DEF Return
  <2>6. ASSUME NEW c \in Contexts, NEW kind \in {"usb", "usb_mut"}, with_cs(c, kind)
        PROVE  UNCHANGED Access!bus
    BY <2>3, <2>6, WithCs DEF with_cs
  <2>7. ASSUME NEW c \in Contexts, borrow_load(c) PROVE [Access!Next]_(Access!bus)
    <3>1. Lookers' = Lookers /\ Changers' = Changers
      BY <2>7, BorrowLoad
    <3>2. CASE panicked' = panicked
      BY <2>3, <3>1, <3>2
    <3>3. CASE panicked' # panicked
      <4>1. ~may_borrow(Last(calls[c]).kind) /\ panicked' = TRUE /\ ~panicked
        BY <2>7, <3>3 DEF borrow_load, At, Running
      <4>2. Lookers # {} \/ Changers # {}
        BY <4>1, Forbidden DEF BusInv
      <4>3. Inside("usb") # {} \/ Inside("usb_mut") # {}
        BY <2>1, <4>2, Paired
      <4>4. Access!Panic
        BY <2>1, <2>2, <3>1, <4>1, <4>3 DEF Access!Panic
      <4> QED BY <4>1, <4>4 DEF Access!Next
    <3> QED BY <3>2, <3>3
  <2>8. ASSUME NEW c \in Contexts, borrow_store(c) PROVE Access!Next
    <3>1. /\ ~panicked /\ ~panicked' /\ Changers = {}
          /\ \/ Lookers' = Lookers \cup {c} /\ Changers' = {}
             \/ Lookers = {} /\ Lookers' = {} /\ Changers' = {c}
      BY <2>8, BorrowStore
    <3>2. <<c, 1>> \in Contexts \X (1 .. 2)
      OBVIOUS
    <3>3. panicked' = panicked
      BY <2>8 DEF borrow_store
    <3>4. CASE Lookers' = Lookers \cup {c} /\ Changers' = {}
      <4>1. Inside("usb")' = Inside("usb") \cup {<<c, 1>>}
        BY <2>1, <2>2, <3>4
      <4>2. Inside("usb_mut") = {} /\ Inside("usb_mut")' = {}
        BY <2>1, <2>2, <3>1, <3>4
      <4>3. Access!Look(<<c, 1>>)
        BY <3>3, <4>1, <4>2 DEF Access!Look
      <4> QED BY <3>1, <3>2, <4>3 DEF Access!Next
    <3>5. CASE Lookers = {} /\ Lookers' = {} /\ Changers' = {c}
      <4>1. Inside("usb") = {} /\ Inside("usb")' = {}
        BY <2>1, <2>2, <3>5
      <4>2. Inside("usb_mut") = {} /\ Inside("usb_mut")' = {<<c, 1>>}
        BY <2>1, <2>2, <3>1, <3>5
      <4>3. Access!Change(<<c, 1>>)
        BY <3>3, <4>1, <4>2 DEF Access!Change
      <4> QED BY <3>1, <3>2, <4>3 DEF Access!Next
    <3> QED BY <3>1, <3>4, <3>5
  <2>9. ASSUME NEW c \in Contexts, with_cs_return(c) PROVE Access!Next
    <3>1. /\ ~panicked /\ ~panicked'
          /\ Lookers' = Lookers \ {c} /\ Changers' = Changers \ {c}
      BY <2>9, WithCsReturn
    <3>2. <<c, 1>> \in Contexts \X (1 .. 2)
      OBVIOUS
    <3>3. panicked' = panicked
      BY <2>9 DEF with_cs_return
    <3>4. /\ Inside("usb")' = Inside("usb") \ {<<c, 1>>}
          /\ Inside("usb_mut")' = Inside("usb_mut") \ {<<c, 1>>}
      BY <2>1, <2>2, <3>1
    <3>5. Access!Leave(<<c, 1>>)
      BY <3>3, <3>4 DEF Access!Leave
    <3> QED BY <3>1, <3>2, <3>5 DEF Access!Next
  <2>10. ASSUME NEW c \in Contexts, borrow_drop(c) PROVE UNCHANGED Access!bus
    BY <2>3, <2>10, BorrowDrop DEF borrow_drop
  <2>11. CASE UNCHANGED vars
    BY <2>11 DEF vars, Access!bus, Inside
  <2> QED
    BY <2>4, <2>5, <2>6, <2>7, <2>8, <2>9, <2>10, <2>11 DEF Next
<1> QED
  BY <1>1, <1>3, BusInvHolds, PTL DEF Spec, ImplementsOneAtATime, Access!Spec
================================================================================
