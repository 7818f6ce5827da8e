------------------------------ MODULE Allocation ------------------------------
(***************************************************************************)
(* How USB drivers come by their memory: Driver::new takes the allocators  *)
(* of an EndpointState and of an EndpointMemory, and alloc_ep carves       *)
(* endpoints out of both until the bus is frozen.                          *)
(*                                                                         *)
(* A driver here is a call of BusAdapter::new and what follows from it.    *)
(* Calls in different contexts, a thread and an interrupt handler or two   *)
(* cores, may be given the same statics.  What a panic does to the other   *)
(* contexts is the application's choice; in the worst case they go on.     *)
(***************************************************************************)
EXTENDS Integers

CONSTANTS
    Drivers, States, Memories,
    Count,        \* each EndpointState's COUNT
    Start, Size,  \* each EndpointMemory's address and length
    Addresses,    \* the endpoints asked for by address, named by index()
    PacketSizes   \* the values of max_packet_size

MAX_ENDPOINTS == 16
End(m) == Start[m] + Size[m]

\* Statics do not overlap; an EndpointAddress has four bits of number.
ASSUME StaticsAssumption ==
    /\ Count \in [States -> Nat]
    /\ Start \in [Memories -> Nat] /\ Size \in [Memories -> Nat]
    /\ \A m, n \in Memories : m # n => End(m) <= Start[n] \/ End(n) <= Start[m]
ASSUME RequestsAssumption == Addresses \subseteq 0 .. 31 /\ PacketSizes \subseteq Nat

VARIABLES
    pc,          \* where each driver stands
    state,       \* the EndpointState and
    memory,      \*   the EndpointMemory its constructor was given
    alloc_mask,  \* EndpointState::alloc_mask: the bits set
    taken,       \* EndpointMemory::taken
    ptr,         \* buffer::Allocator::ptr
    endpoints    \* the Endpoints built over each EndpointState's QHs and TDs

vars == <<pc, state, memory, alloc_mask, taken, ptr, endpoints>>

ALLOCATOR_TAKEN == 31

Endpoint == [index : 0 .. 15, memory : Memories, ptr : Nat, len : Nat, mpl : Nat]

TypeOK ==
    /\ pc \in [Drivers -> {"new", "memory", "ready", "panicked"}]
    /\ state \in [Drivers -> States] /\ memory \in [Drivers -> Memories]
    /\ alloc_mask \in [States -> SUBSET (0 .. 15 \cup {ALLOCATOR_TAKEN})]
    /\ taken \in [Memories -> BOOLEAN]
    /\ ptr \in [Memories -> Nat]
    /\ endpoints \in [States -> SUBSET Endpoint]

\* EndpointState::new, EndpointMemory::new and Allocator::from_buffer.
Init ==
    /\ pc = [d \in Drivers |-> "new"]
    /\ state \in [Drivers -> States] /\ memory \in [Drivers -> Memories]
    /\ alloc_mask = [s \in States |-> {}]
    /\ taken = [m \in Memories |-> FALSE]
    /\ ptr = [m \in Memories |-> End(m)]
    /\ endpoints = [s \in States |-> {}]
-----------------------------------------------------------------------------
Goto(d, step) == pc' = [pc EXCEPT ![d] = step]

\* A defect to try in the place of mark_taken: a store, not a fetch_or.
mark_taken_storing(mask) == {ALLOCATOR_TAKEN}

mark_taken(mask) == mask \cup {ALLOCATOR_TAKEN}

\* A defect to try in the place of state_free: asks if endpoints were allocated.
state_free_unallocated(mask) == mask \cap 0 .. 15 = {}

state_free(mask) == ALLOCATOR_TAKEN \notin mask

\* Driver::new takes the EndpointState first and panics if it was taken ...
state_allocator(d) ==
    /\ pc[d] = "new"
    /\ alloc_mask' = [alloc_mask EXCEPT ![state[d]] = mark_taken(@)]
    /\ Goto(d, IF state_free(alloc_mask[state[d]]) THEN "memory" ELSE "panicked")
    /\ UNCHANGED <<state, memory, taken, ptr, endpoints>>

\* ... and the EndpointMemory second, keeping the state if that was taken.
memory_allocator(d) ==
    /\ pc[d] = "memory"
    /\ taken' = [taken EXCEPT ![memory[d]] = TRUE]
    /\ Goto(d, IF taken[memory[d]] THEN "panicked" ELSE "ready")
    /\ UNCHANGED <<state, memory, alloc_mask, ptr, endpoints>>
-----------------------------------------------------------------------------
\* The lists the allocator sees are COUNT long, and MAX_ENDPOINTS at most.
InRange(d, i) == i < Count[state[d]] /\ i < MAX_ENDPOINTS

is_allocated(d, i) == InRange(d, i) /\ i \in alloc_mask[state[d]]

\* Defects to try in the place of has_room: the start of the memory is not
\* checked, or it is checked before the subtraction.
has_room_unchecked(m, size) == ptr[m] >= size
has_room_before(m, size) == ptr[m] >= Start[m]

\* allocate(size) returns a buffer; checked_sub stands for the first conjunct.
has_room(m, size) == ptr[m] >= size /\ ptr[m] - size >= Start[m]

\* What Endpoint::new makes of a buffer; Qh::set_max_packet_len clamps.
NewEndpoint(d, i, size) ==
    [index |-> i, memory |-> memory[d], ptr |-> ptr[memory[d]] - size,
     len |-> size, mpl |-> IF size < 1024 THEN size ELSE 1024]

\* Driver::allocate_ep unwraps allocate_endpoint, which has no endpoint to give
\* beyond COUNT.  The buffer has been taken by then.
allocate_ep(d, i, size) ==
    /\ ptr' = [ptr EXCEPT ![memory[d]] = @ - size]
    /\ IF InRange(d, i) /\ i \notin alloc_mask[state[d]]
         THEN /\ alloc_mask' = [alloc_mask EXCEPT ![state[d]] = @ \cup {i}]
              /\ endpoints' = [endpoints EXCEPT ![state[d]] =
                                 @ \cup {NewEndpoint(d, i, size)}]
              /\ UNCHANGED pc
         ELSE /\ Goto(d, "panicked")
              /\ UNCHANGED <<alloc_mask, endpoints>>
    /\ UNCHANGED <<state, memory, taken>>

\* alloc_ep for one address.  InvalidEndpoint and EndpointMemoryOverflow, for
\* an endpoint allocated before and a memory without room, change nothing.
alloc_ep(d, i, size) ==
    /\ pc[d] = "ready"
    /\ ~is_allocated(d, i)
    /\ has_room(memory[d], size)
    /\ allocate_ep(d, i, size)

\* alloc_ep for any address of a direction, 0 for OUT and 1 for IN: the lowest
\* number from 1 to 7 not allocated.  EndpointOverflow changes nothing.
alloc_any_ep(d, dir, size) ==
    \E n \in 1 .. 7 :
        /\ \A k \in 1 .. n - 1 : is_allocated(d, 2 * k + dir)
        /\ alloc_ep(d, 2 * n + dir, size)

Step(d) ==
    \/ state_allocator(d)
    \/ memory_allocator(d)
    \/ \E size \in PacketSizes :
         \/ \E i \in Addresses : alloc_ep(d, i, size)
         \/ \E dir \in {0, 1} : alloc_any_ep(d, dir, size)

Next == \E d \in Drivers : Step(d)

Spec == Init /\ [][Next]_vars
-----------------------------------------------------------------------------
(***************************************************************************)
(* No two drivers share an EndpointState or an EndpointMemory, in whatever *)
(* order their constructors run and whichever of them panics: what makes   *)
(* the unsafe impl Sync of both types sound.                               *)
(***************************************************************************)
Exclusive ==
    \A d, e \in Drivers : d # e =>
        /\ {pc[d], pc[e]} \subseteq {"memory", "ready"} => state[d] # state[e]
        /\ pc[d] = "ready" /\ pc[e] = "ready" => memory[d] # memory[e]

(***************************************************************************)
(* Endpoint::new takes its queue head and its descriptor as &'static mut:  *)
(* no two Endpoints are ever built over the same pair, even when another   *)
(* constructor marks the mask meanwhile.                                   *)
(***************************************************************************)
Unaliased ==
    \A s \in States : \A e, f \in endpoints[s] : e.index = f.index => e = f

(***************************************************************************)
(* Each endpoint's buffer lies in its driver's memory, has room for the    *)
(* largest packet its queue head allows, and shares no byte with another   *)
(* endpoint's, of its own driver or of any other.                          *)
(***************************************************************************)
Inside(e) ==
    Start[e.memory] <= e.ptr /\ e.ptr + e.len <= End(e.memory) /\ e.mpl <= e.len
Apart(e, f) == e.ptr + e.len <= f.ptr \/ f.ptr + f.len <= e.ptr

BuffersApart ==
    \A s, t \in States : \A e \in endpoints[s], f \in endpoints[t] :
        Inside(e) /\ (<<s, e.index>> # <<t, f.index>> => Apart(e, f))

(***************************************************************************)
(* A constructor that succeeds comes by statics nobody has used: no        *)
(* Endpoint was built over the EndpointState and no byte was carved out of *)
(* the EndpointMemory, not even by a driver that has panicked since.       *)
(***************************************************************************)
Becomes(d, step) == pc[d] # step /\ pc'[d] = step

LentAsNew ==
    [][\A d \in Drivers : Becomes(d, "ready") =>
         endpoints'[state[d]] = {} /\ ptr'[memory[d]] = End(memory[d])]_vars
=============================================================================
