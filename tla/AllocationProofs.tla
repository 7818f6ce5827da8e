---------------------------- MODULE AllocationProofs ----------------------------
(***************************************************************************)
(* Allocation, proved for any number of drivers, statics and endpoints:    *)
(* drivers have their memory to themselves, and endpoints too.             *)
(***************************************************************************)
EXTENDS Allocation, TLAPS

(***************************************************************************)
(* The inductive invariant.  A driver past a step of its constructor has   *)
(* left its mark on what it took, which turns the next one away; the mask  *)
(* holds every endpoint built; and buffers lie between the bump pointer    *)
(* and the end of their memory, so that the next one, which ends at the    *)
(* bump pointer, cannot reach them.                                        *)
(***************************************************************************)
Marked ==
    \A d \in Drivers :
        /\ pc[d] \in {"memory", "ready"} => ALLOCATOR_TAKEN \in alloc_mask[state[d]]
        /\ pc[d] = "ready" => taken[memory[d]]

Masked == \A s \in States : \A e \in endpoints[s] : e.index \in alloc_mask[s]

Carved ==
    /\ \A m \in Memories : Start[m] <= ptr[m] /\ ptr[m] <= End(m)
    /\ \A s \in States : \A e \in endpoints[s] : Inside(e) /\ ptr[e.memory] <= e.ptr

Inv ==
    /\ TypeOK /\ Exclusive /\ Unaliased /\ BuffersApart
    /\ Marked /\ Masked /\ Carved

\* The constructors start with everything untaken and nothing carved.
LEMMA InitInv == Init => Inv
BY StaticsAssumption
   DEF Init, Inv, TypeOK, Exclusive, Unaliased, BuffersApart, Marked, Masked, Carved,
       End, Endpoint

\* Taking an EndpointState keeps the invariant: its mark was not there before.
LEMMA StateAllocatorInv ==
    ASSUME Inv, NEW d \in Drivers, state_allocator(d)
    PROVE  Inv'
<1> USE DEF Inv, state_allocator, Goto, ALLOCATOR_TAKEN
<1>1. TypeOK'
  BY DEF TypeOK, mark_taken
<1>2. Exclusive'
  BY DEF TypeOK, Exclusive, Marked, state_free
<1>3. Unaliased' /\ BuffersApart' /\ Carved'
  BY DEF TypeOK, Unaliased, BuffersApart, Carved, Inside, Apart, End
<1>4. Marked'
  BY DEF TypeOK, Marked, mark_taken
<1>5. Masked'
  BY DEF TypeOK, Masked, mark_taken
<1> QED BY <1>1, <1>2, <1>3, <1>4, <1>5

\* So does taking an EndpointMemory.
LEMMA MemoryAllocatorInv ==
    ASSUME Inv, NEW d \in Drivers, memory_allocator(d)
    PROVE  Inv'
<1> USE DEF Inv, memory_allocator, Goto
<1>1. TypeOK'
  BY DEF TypeOK
<1>2. Exclusive'
  BY DEF TypeOK, Exclusive, Marked
<1>3. Unaliased' /\ BuffersApart' /\ Carved' /\ Masked'
  BY DEF TypeOK, Unaliased, BuffersApart, Carved, Masked, Inside, Apart, End
<1>4. Marked'
  BY DEF TypeOK, Marked
<1> QED BY <1>1, <1>2, <1>3, <1>4

\* So does allocating an endpoint, whichever of its ends the call comes to.
LEMMA AllocEpInv ==
    ASSUME Inv, NEW d \in Drivers, NEW i \in 0 .. 31, NEW size \in Nat,
           alloc_ep(d, i, size)
    PROVE  Inv'
<1> DEFINE s == state[d]
           m == memory[d]
           new == NewEndpoint(d, i, size)
<1>1. /\ s \in States /\ m \in Memories
      /\ pc[d] = "ready" /\ ptr[m] \in Nat /\ Start[m] \in Nat /\ Size[m] \in Nat
      /\ ptr' = [ptr EXCEPT ![m] = ptr[m] - size]
      /\ ptr[m] - size >= Start[m] /\ ptr[m] >= size
      /\ state' = state /\ memory' = memory /\ taken' = taken
  BY StaticsAssumption DEF Inv, TypeOK, alloc_ep, allocate_ep, has_room
<1>2. CASE InRange(d, i) /\ i \notin alloc_mask[s]
  <2>1. /\ alloc_mask' = [alloc_mask EXCEPT ![s] = alloc_mask[s] \cup {i}]
        /\ endpoints' = [endpoints EXCEPT ![s] = endpoints[s] \cup {new}]
        /\ pc' = pc
    BY <1>2 DEF alloc_ep, allocate_ep
  <2>2. i \in 0 .. 15
    BY <1>2 DEF InRange, MAX_ENDPOINTS
  <2>3. /\ new \in Endpoint /\ new.index = i /\ new.memory = m
        /\ new.ptr = ptr[m] - size /\ new.len = size /\ new.mpl <= size
    BY <1>1, <2>2 DEF NewEndpoint, Endpoint
  <2> HIDE DEF new
  <2>4. TypeOK'
    BY <1>1, <2>1, <2>2, <2>3 DEF Inv, TypeOK
  <2>5. Exclusive' /\ Marked'
    BY <1>1, <2>1 DEF Inv, TypeOK, Exclusive, Marked
  <2>6. \A t \in States : \A e \in endpoints'[t] : e \in endpoints[t] \/ (t = s /\ e = new)
    BY <1>1, <2>1 DEF Inv, TypeOK
  <2>7. Masked'
    BY <1>1, <2>1, <2>3, <2>6 DEF Inv, TypeOK, Masked
  <2>8. Unaliased'
    BY <1>1, <1>2, <2>3, <2>6 DEF Inv, TypeOK, Unaliased, Masked
  <2>9. Carved'
    <3>1. \A n \in Memories : Start[n] <= ptr'[n] /\ ptr'[n] <= ptr[n] /\ ptr'[n] <= End(n)
      BY <1>1, StaticsAssumption DEF Inv, TypeOK, Carved, End
    <3>2. Inside(new) /\ ptr'[new.memory] <= new.ptr
      BY <1>1, <2>3 DEF Inv, TypeOK, Carved, Inside, End
    <3>3. \A t \in States : \A e \in endpoints[t] :
            e \in Endpoint /\ Inside(e) /\ ptr'[e.memory] <= e.ptr
      BY <1>1, <3>1 DEF Inv, TypeOK, Carved, Endpoint
    <3> QED BY <2>6, <3>1, <3>2, <3>3 DEF Carved, Inside, End
  <2>10. \A t \in States : \A e \in endpoints[t] : Apart(new, e) /\ Apart(e, new)
    <3> SUFFICES ASSUME NEW t \in States, NEW e \in endpoints[t]
                 PROVE  Apart(new, e) /\ Apart(e, new)
      OBVIOUS
    <3>1. e \in Endpoint /\ Inside(e) /\ ptr[e.memory] <= e.ptr
      BY DEF Inv, TypeOK, Carved
    <3>2. CASE e.memory = m
      BY <1>1, <2>3, <3>1, <3>2 DEF Apart, Endpoint
    <3>3. CASE e.memory # m
      <4>1. End(m) <= Start[e.memory] \/ End(e.memory) <= Start[m]
        BY <1>1, <3>1, <3>3, StaticsAssumption DEF Endpoint
      <4>2. ptr[m] <= End(m)
        BY <1>1 DEF Inv, Carved
      <4>3. Start[e.memory] \in Nat /\ Size[e.memory] \in Nat
        BY <3>1, StaticsAssumption DEF Endpoint
      <4> QED BY <1>1, <2>3, <3>1, <4>1, <4>2, <4>3 DEF Apart, Inside, Endpoint, End
    <3> QED BY <3>2, <3>3
  <2>11. BuffersApart'
    <3>1. \A t, u \in States : \A e \in endpoints'[t], f \in endpoints'[u] :
            <<t, e.index>> # <<u, f.index>> => Apart(e, f)
      BY <2>3, <2>6, <2>10 DEF Inv, BuffersApart
    <3> QED BY <2>9, <3>1 DEF BuffersApart, Carved, Inside, Apart, End
  <2> QED BY <2>4, <2>5, <2>7, <2>8, <2>9, <2>11 DEF Inv
<1>3. CASE ~(InRange(d, i) /\ i \notin alloc_mask[s])
  <2>1. /\ alloc_mask' = alloc_mask /\ endpoints' = endpoints
        /\ pc' = [pc EXCEPT ![d] = "panicked"]
    BY <1>3 DEF alloc_ep, allocate_ep, Goto
  <2>2. TypeOK'
    BY <1>1, <2>1 DEF Inv, TypeOK
  <2>3. Exclusive' /\ Marked'
    BY <1>1, <2>1 DEF Inv, TypeOK, Exclusive, Marked
  <2>4. Unaliased' /\ BuffersApart' /\ Masked'
    BY <2>1 DEF Inv, Unaliased, BuffersApart, Masked, Inside, Apart, End
  <2>5. Carved'
    <3>1. \A n \in Memories : Start[n] <= ptr'[n] /\ ptr'[n] <= ptr[n] /\ ptr'[n] <= End(n)
      BY <1>1, StaticsAssumption DEF Inv, TypeOK, Carved, End
    <3>2. \A t \in States : \A e \in endpoints[t] :
            Inside(e) /\ ptr'[e.memory] <= e.ptr
      BY <1>1, <3>1 DEF Inv, TypeOK, Carved, Endpoint
    <3> QED BY <2>1, <3>1, <3>2 DEF Carved, Inside, End
  <2> QED BY <2>2, <2>3, <2>4, <2>5 DEF Inv
<1> QED BY <1>2, <1>3

\* alloc_ep for any address is alloc_ep for the one it finds.
LEMMA AllocAnyEpInv ==
    ASSUME Inv, NEW d \in Drivers, NEW dir \in {0, 1}, NEW size \in Nat,
           alloc_any_ep(d, dir, size)
    PROVE  Inv'
<1>1. PICK n \in 1 .. 7 : alloc_ep(d, 2 * n + dir, size)
  BY DEF alloc_any_ep
<1>2. 2 * n + dir \in 0 .. 31
  OBVIOUS
<1> QED BY <1>1, <1>2, AllocEpInv

\* Every step keeps the invariant.
LEMMA NextInv == Inv /\ [Next]_vars => Inv'
<1> SUFFICES ASSUME Inv, [Next]_vars
             PROVE  Inv'
  OBVIOUS
<1>1. CASE UNCHANGED vars
  BY <1>1 DEF vars, Inv, TypeOK, Exclusive, Unaliased, BuffersApart, Marked, Masked,
              Carved, Inside, Apart, End
<1>2. ASSUME NEW d \in Drivers, state_allocator(d)
      PROVE  Inv'
  BY <1>2, StateAllocatorInv
<1>3. ASSUME NEW d \in Drivers, memory_allocator(d)
      PROVE  Inv'
  BY <1>3, MemoryAllocatorInv
<1>4. ASSUME NEW d \in Drivers, NEW size \in PacketSizes, NEW i \in Addresses,
             alloc_ep(d, i, size)
      PROVE  Inv'
  BY <1>4, AllocEpInv, RequestsAssumption
<1>5. ASSUME NEW d \in Drivers, NEW size \in PacketSizes, NEW dir \in {0, 1},
             alloc_any_ep(d, dir, size)
      PROVE  Inv'
  BY <1>5, AllocAnyEpInv, RequestsAssumption
<1> QED BY <1>1, <1>2, <1>3, <1>4, <1>5 DEF Next, Step

\* The invariant holds throughout.
LEMMA InvAlways == Spec => []Inv
BY InitInv, NextInv, PTL DEF Spec

(***************************************************************************)
(* Types: the masks, the bump pointers, and what Endpoints are made of.    *)
(***************************************************************************)
THEOREM TypeCorrect == Spec => []TypeOK
<1>1. Inv => TypeOK
  BY DEF Inv
<1> QED BY <1>1, InvAlways, PTL

(***************************************************************************)
(* Drivers never share an EndpointState or an EndpointMemory.              *)
(***************************************************************************)
THEOREM NothingShared == Spec => []Exclusive
<1>1. Inv => Exclusive
  BY DEF Inv
<1> QED BY <1>1, InvAlways, PTL

(***************************************************************************)
(* No queue head or descriptor is ever lent to two Endpoints.              *)
(***************************************************************************)
THEOREM NothingLentTwice == Spec => []Unaliased
<1>1. Inv => Unaliased
  BY DEF Inv
<1> QED BY <1>1, InvAlways, PTL

(***************************************************************************)
(* Endpoint buffers never overlap, and never leave their memory.           *)
(***************************************************************************)
THEOREM BuffersNeverOverlap == Spec => []BuffersApart
<1>1. Inv => BuffersApart
  BY DEF Inv
<1> QED BY <1>1, InvAlways, PTL
-----------------------------------------------------------------------------
(***************************************************************************)
(* What has not been taken is untouched, and so is the EndpointState of a  *)
(* driver between the two steps of its constructor: it is the only driver  *)
(* to have it, and allocates nothing yet.                                  *)
(***************************************************************************)
Untouched ==
    /\ \A s \in States : ALLOCATOR_TAKEN \notin alloc_mask[s] => endpoints[s] = {}
    /\ \A m \in Memories : ~taken[m] => ptr[m] = End(m)
    /\ \A d \in Drivers : pc[d] = "memory" => endpoints[state[d]] = {}

\* Allocating needs a driver that has both, and touches the two alone.
LEMMA AllocEpUntouched ==
    ASSUME Inv, Untouched, NEW d \in Drivers, NEW i \in 0 .. 31, NEW size \in Nat,
           alloc_ep(d, i, size)
    PROVE  Untouched'
<1> DEFINE s == state[d]
           m == memory[d]
<1>1. /\ s \in States /\ m \in Memories /\ pc[d] = "ready"
      /\ ALLOCATOR_TAKEN \in alloc_mask[s] /\ taken[m]
  BY DEF alloc_ep, Inv, TypeOK, Marked
<1>2. /\ ptr' = [ptr EXCEPT ![m] = @ - size]
      /\ state' = state /\ memory' = memory /\ taken' = taken
      /\ \A e \in Drivers : pc'[e] = "memory" => pc[e] = "memory"
      /\ \A t \in States : alloc_mask[t] \subseteq alloc_mask'[t]
      /\ \A t \in States : t # s => endpoints'[t] = endpoints[t]
                                    /\ alloc_mask'[t] = alloc_mask[t]
  BY DEF alloc_ep, allocate_ep, Goto, Inv, TypeOK
<1>3. \A n \in Memories : ~taken'[n] => ptr'[n] = End(n)
  BY <1>1, <1>2 DEF Untouched, Inv, TypeOK
<1>4. \A t \in States : ALLOCATOR_TAKEN \notin alloc_mask'[t] => endpoints'[t] = {}
  BY <1>1, <1>2 DEF Untouched
<1>5. \A e \in Drivers : pc[e] = "memory" => state[e] # s /\ state[e] \in States
  BY <1>1 DEF Inv, Exclusive, TypeOK
<1>6. \A e \in Drivers : pc'[e] = "memory" => endpoints'[state'[e]] = {}
  BY <1>2, <1>5 DEF Untouched
<1> QED BY <1>3, <1>4, <1>6 DEF Untouched, End

LEMMA UntouchedStep == Inv /\ Untouched /\ [Next]_vars => Untouched'
<1> SUFFICES ASSUME Inv, Untouched, [Next]_vars PROVE Untouched'
  OBVIOUS
<1>1. CASE UNCHANGED vars
  BY <1>1 DEF vars, Untouched, End
<1>2. ASSUME NEW d \in Drivers, state_allocator(d) PROVE Untouched'
  <2>1. \A t \in States : ALLOCATOR_TAKEN \notin alloc_mask'[t] =>
                            ALLOCATOR_TAKEN \notin alloc_mask[t]
    BY <1>2 DEF state_allocator, mark_taken, Inv, TypeOK
  <2>2. ASSUME NEW e \in Drivers, pc'[e] = "memory" PROVE endpoints[state[e]] = {}
    BY <1>2, <2>2 DEF state_allocator, state_free, Goto, Untouched, Inv, TypeOK
  <2> QED BY <1>2, <2>1, <2>2 DEF state_allocator, Untouched, End
<1>3. ASSUME NEW d \in Drivers, memory_allocator(d) PROVE Untouched'
  BY <1>3 DEF memory_allocator, Goto, Untouched, Inv, TypeOK, End
<1>4. ASSUME NEW d \in Drivers, NEW size \in PacketSizes, NEW i \in Addresses,
             alloc_ep(d, i, size)
      PROVE  Untouched'
  BY <1>4, AllocEpUntouched, RequestsAssumption
<1>5. ASSUME NEW d \in Drivers, NEW size \in PacketSizes, NEW dir \in {0, 1},
             alloc_any_ep(d, dir, size)
      PROVE  Untouched'
  <2>1. PICK n \in 1 .. 7 : alloc_ep(d, 2 * n + dir, size)
    BY <1>5 DEF alloc_any_ep
  <2>2. 2 * n + dir \in 0 .. 31 /\ size \in Nat
    BY RequestsAssumption
  <2> QED BY <2>1, <2>2, AllocEpUntouched
<1> QED BY <1>1, <1>2, <1>3, <1>4, <1>5 DEF Next, Step

LEMMA UntouchedAlways == Spec => []Untouched
<1>1. Init => Untouched
  BY DEF Init, Untouched
<1> QED BY <1>1, UntouchedStep, InvAlways, PTL DEF Spec

(***************************************************************************)
(* Whatever a constructor returns has never been used: a static lost to a  *)
(* driver that panicked is lost for good, and not lent again half used.    *)
(***************************************************************************)
THEOREM StaticsLentAsNew == Spec => LentAsNew
<1>1. Inv /\ Untouched /\ [Next]_vars =>
        [\A d \in Drivers : Becomes(d, "ready") =>
           endpoints'[state[d]] = {} /\ ptr'[memory[d]] = End(memory[d])]_vars
  <2> SUFFICES ASSUME Inv, Untouched, [Next]_vars, NEW d \in Drivers, Becomes(d, "ready")
               PROVE  endpoints'[state[d]] = {} /\ ptr'[memory[d]] = End(memory[d])
    OBVIOUS
  <2>1. CASE UNCHANGED vars
    BY <2>1 DEF vars, Becomes
  <2>2. ASSUME NEW e \in Drivers, state_allocator(e) PROVE FALSE
    BY <2>2 DEF state_allocator, Goto, Becomes, Inv, TypeOK
  <2>3. ASSUME NEW e \in Drivers, memory_allocator(e)
        PROVE  endpoints'[state[d]] = {} /\ ptr'[memory[d]] = End(memory[d])
    <3>1. d = e /\ ~taken[memory[d]] /\ pc[d] = "memory"
      BY <2>3 DEF memory_allocator, Goto, Becomes, Inv, TypeOK
    <3>2. memory[d] \in Memories
      BY DEF Inv, TypeOK
    <3> QED BY <2>3, <3>1, <3>2 DEF memory_allocator, Untouched
  <2>4. ASSUME NEW e \in Drivers, NEW i, NEW size, alloc_ep(e, i, size) PROVE FALSE
    BY <2>4 DEF alloc_ep, allocate_ep, Goto, Becomes, Inv, TypeOK
  <2>5. ASSUME NEW e \in Drivers, NEW dir, NEW size, alloc_any_ep(e, dir, size) PROVE FALSE
    BY <2>4, <2>5 DEF alloc_any_ep
  <2> QED BY <2>1, <2>2, <2>3, <2>4, <2>5 DEF Next, Step
<1> QED BY <1>1, InvAlways, UntouchedAlways, PTL DEF Spec, LentAsNew
=============================================================================
