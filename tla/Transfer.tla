------------------------------- MODULE Transfer -------------------------------
(***************************************************************************)
(* The transfers of one endpoint, down to the words of its transfer        *)
(* descriptor and queue head and to the cache lines that are cleaned on    *)
(* the way to the controller: schedule_transfer, read and write of         *)
(* endpoint.rs over td.rs, qh.rs and cache.rs.  Driver takes each for one  *)
(* step; here is what that step writes where.                              *)
(***************************************************************************)
EXTENDS Integers

CONSTANTS
    Buffers,       \* the buffers the endpoint memory may have given out
    Lengths,       \* the lengths of the callers' buffers and of packets
    TdAddr, QhAddr,  \* where the descriptor and the queue head are, and
    SlotAddr       \* where the stack holds a reference to either

KB == 1024
LINESIZE == 32
PTR_ALIGNMENT == 4 * KB
Pages == 0 .. 4

\* TdList is aligned to 32 bytes and QhList to 4096; a Td takes 32 bytes, a Qh 64.
TdSize == 32
QhSize == 64
ASSUME LayoutAssumption ==
    /\ Buffers \subseteq [ptr : Nat, len : Nat]
    /\ Lengths \subseteq Nat
    /\ TdAddr \in Nat /\ TdAddr % TdSize = 0
    /\ QhAddr \in Nat /\ QhAddr % QhSize = 0
    /\ SlotAddr \in Nat /\ SlotAddr % 4 = 0

VARIABLES
    kind,          \* "in", "out" or, of endpoint 0, "control_out"
    buffer,        \* the endpoint's Buffer
    CAPABILITIES,  \* the queue head's word
    overlay,       \*   and its Td, which the controller works in
    td,            \* the transfer descriptor
    pc,            \* where the call in progress stands; "primed": no call but
                   \*   the controller has the transfer
    size,          \* the size schedule_transfer was called with
    object,        \* the object being cleaned,
    request,       \*   the range that clean_invalidate_dcache_by_address got,
    addr, lines,   \*   its cursor and the lines it has left to clean
    cleaned,       \* history: the lines it has cleaned, by number
    moved,         \* history: what the last transfer moved
    returned       \* history: what the last read returned

words == <<CAPABILITIES, overlay, td>>
cache == <<object, request, addr, lines, cleaned>>
vars == <<kind, buffer, words, pc, size, cache, moved, returned>>
-----------------------------------------------------------------------------
(***************************************************************************)
(* Words and fields: read_reg and modify_reg of the register access layer. *)
(* A field counts in units of its lowest bit and has range values.         *)
(***************************************************************************)
STATUS == [unit |-> 1, range |-> 256]
IOC == [unit |-> 32 * KB, range |-> 2]
TOTAL_BYTES == [unit |-> 64 * KB, range |-> 32 * KB]
ZLT == [unit |-> 512 * KB * KB, range |-> 2]
MAXIMUM_PACKET_LENGTH == [unit |-> 64 * KB, range |-> 2 * KB]
IOS == [unit |-> 32 * KB, range |-> 2]

ACTIVE == 128
Errors == {64, 32, 8}  \* HALTED, DATA_BUFFER_ERROR, TRANSACTION_ERROR

Word == 0 .. (2 * KB * KB - 1) * KB + KB - 1  \* no field reaches bit 31

read_reg(word, f) == (word \div f.unit) % f.range
modify_reg(word, f, v) == word + ((v % f.range) - read_reg(word, f)) * f.unit

Least(m, n) == IF m <= n THEN m ELSE n
Bit(b) == IF b THEN 1 ELSE 0
-----------------------------------------------------------------------------
(***************************************************************************)
(* td.rs, a Td before and after each method.                               *)
(***************************************************************************)
Td == [NEXT : Nat, TOKEN : Word, BUFFER_POINTERS : [Pages -> Nat],
       last_transfer_size : Nat]

NewTd == [NEXT |-> 0, TOKEN |-> 0, BUFFER_POINTERS |-> [k \in Pages |-> 0],
          last_transfer_size |-> 0]

set_field(t, f, v) == [t EXCEPT !.TOKEN = modify_reg(@, f, v)]

status(t) == read_reg(t.TOKEN, STATUS)

\* A defect to try in the place of set_active: the bits of a failure are kept.
set_active_beside(t) ==
    set_field(t, STATUS, ACTIVE + (status(t) % ACTIVE))

set_active(t) == set_field(t, STATUS, ACTIVE)

set_interrupt_on_complete(t, ioc) == set_field(t, IOC, Bit(ioc))
set_terminate(t) == [t EXCEPT !.NEXT = 1]
set_next(t, next) == [t EXCEPT !.NEXT = next]

\* A defect to try in the place of clear_status: nothing is cleared.
clear_status_not(t) == t

clear_status(t) == set_field(t, STATUS, 0)

\* A defect to try in the place of first_byte: a pointer rounded up.
first_byte_up(ptr, k) ==
    ((ptr + k * PTR_ALIGNMENT + PTR_ALIGNMENT - 1) \div PTR_ALIGNMENT) * PTR_ALIGNMENT

\* What BUFFER_POINTERS[k] is given: each word but the first is the one before
\* it with its low bits masked, plus a page.
first_byte(ptr, k) ==
    IF k = 0 THEN ptr
             ELSE ptr - (ptr % PTR_ALIGNMENT) + k * PTR_ALIGNMENT

\* A defect to try in the place of set_buffer: last_transfer_size is kept.
set_buffer_keeping_last(t, ptr, n) ==
    [set_field(t, TOTAL_BYTES, n) EXCEPT
       !.BUFFER_POINTERS = [k \in Pages |-> IF n = 0 THEN 0 ELSE first_byte(ptr, k)]]

set_buffer(t, ptr, n) ==
    [set_field(t, TOTAL_BYTES, n) EXCEPT
       !.last_transfer_size = n,
       !.BUFFER_POINTERS = [k \in Pages |-> IF n = 0 THEN 0 ELSE first_byte(ptr, k)]]

\* A defect to try in the place of bytes_transferred: the bytes left.
bytes_transferred_left(t) == read_reg(t.TOKEN, TOTAL_BYTES)

bytes_transferred(t) == t.last_transfer_size - read_reg(t.TOKEN, TOTAL_BYTES)

\* Endpoint::check_errors, from_bits_truncate and all.
check_errors(t) == \A e \in Errors : (status(t) \div e) % 2 = 0
-----------------------------------------------------------------------------
max_packet_len == read_reg(CAPABILITIES, MAXIMUM_PACKET_LENGTH)

\* Qh::new, and what Endpoint::new makes of it for a buffer of len bytes.
NewCapabilities(len, k) ==
    modify_reg(modify_reg(modify_reg(0, ZLT, 1),
                          MAXIMUM_PACKET_LENGTH, Least(len, KB)),
               IOS, Bit(k = "control_out"))

Init ==
    /\ kind \in {"in", "out", "control_out"}
    /\ buffer \in Buffers
    /\ CAPABILITIES = NewCapabilities(buffer.len, kind)
    /\ overlay = NewTd
    /\ td = clear_status(set_terminate(NewTd))
    /\ pc = "idle" /\ size = 0
    /\ object = "buffer" /\ request = [addr |-> 0, size |-> 0]
    /\ addr = 0 /\ lines = 0 /\ cleaned = {}
    /\ moved = 0 /\ returned = 0

\* Endpoint::enable_zlt, which UsbDevice does not call.
enable_zlt ==
    /\ pc = "idle"
    /\ CAPABILITIES' = modify_reg(CAPABILITIES, ZLT, 0)
    /\ UNCHANGED <<kind, buffer, overlay, td, pc, size, cache, moved, returned>>
-----------------------------------------------------------------------------
(***************************************************************************)
(* cache.rs.  pc holds the object while its lines are cleaned.             *)
(***************************************************************************)
\* Defects to try in the place of num_lines: a line too many, and the last
\* line left out when it is not full.
num_lines_whole(n) == n \div LINESIZE + 1
num_lines_down(n) == n \div LINESIZE

num_lines(n) == (n - 1) \div LINESIZE + 1

\* clean_invalidate_dcache_by_address up to its loop; it returns from a size of 0
\* as from no lines.
clean_invalidate_dcache(what, a, n) ==
    /\ pc' = what
    /\ object' = what
    /\ request' = [addr |-> a, size |-> n]
    /\ addr' = a - (a % LINESIZE)
    /\ lines' = IF n = 0 THEN 0 ELSE num_lines(n)
    /\ cleaned' = {}

clean_line ==
    /\ pc = object /\ lines > 0
    /\ cleaned' = cleaned \cup {addr \div LINESIZE}
    /\ addr' = addr + LINESIZE
    /\ lines' = lines - 1
    /\ UNCHANGED <<kind, buffer, words, pc, size, object, request, moved, returned>>

Cleaned(what) == pc = what /\ lines = 0
-----------------------------------------------------------------------------
(***************************************************************************)
(* endpoint.rs, as the Driver calls it.                                    *)
(***************************************************************************)
volatile_copy(n) == Least(n, buffer.len)

\* Driver::ep_write and ctrl0_write, with Endpoint::write.
write(len) ==
    LET written == volatile_copy(Least(max_packet_len, len))
    IN /\ pc = "idle"
       /\ kind = "in" /\ check_errors(td)
       /\ size' = written
       /\ clean_invalidate_dcache("buffer", buffer.ptr, volatile_copy(written))
       /\ UNCHANGED <<kind, buffer, words, moved, returned>>

\* Driver::ep_read and ctrl0_read, with Endpoint::read.
read(len) ==
    /\ pc = "idle"
    /\ kind # "in" /\ check_errors(td)
    /\ returned' = volatile_copy(Least(max_packet_len,
                                       Least(len, bytes_transferred(td))))
    /\ size' = max_packet_len
    /\ pc' = "fill"
    /\ UNCHANGED <<kind, buffer, words, cache, moved>>

\* prime_endpoints, ep_stall and read_setup schedule a whole packet, and
\* ctrl0_write an empty one for the status phase, without a read before.
arm(n) ==
    /\ pc = "idle"
    /\ kind # "in" /\ n \in {max_packet_len} \cup {m \in {0} : kind = "control_out"}
    /\ size' = n
    /\ pc' = "fill"
    /\ UNCHANGED <<kind, buffer, words, cache, moved, returned>>

\* schedule_transfer fills the descriptor and has it cleaned ...
schedule_transfer ==
    /\ pc = "fill" \/ Cleaned("buffer")
    /\ td' = set_active(set_interrupt_on_complete(
                 set_buffer(set_terminate(td), buffer.ptr, size), TRUE))
    /\ clean_invalidate_dcache("td", SlotAddr, TdSize)
    /\ UNCHANGED <<kind, buffer, CAPABILITIES, overlay, size, moved, returned>>

\* ... does so with the queue head ...
schedule_transfer_qh ==
    /\ Cleaned("td")
    /\ overlay' = clear_status(set_next(overlay, TdAddr))
    /\ clean_invalidate_dcache("qh", SlotAddr, QhSize)
    /\ UNCHANGED <<kind, buffer, CAPABILITIES, td, size, moved, returned>>

\* ... and primes the endpoint.
schedule_transfer_prime ==
    /\ Cleaned("qh")
    /\ pc' = "primed"
    /\ UNCHANGED <<kind, buffer, words, size, cache, moved, returned>>
-----------------------------------------------------------------------------
(***************************************************************************)
(* The controller loads the descriptor over the overlay, works in it, and  *)
(* writes the token back: n bytes moved, and what stopped it if not all.   *)
(***************************************************************************)
Retire(n, error) ==
    /\ pc = "primed"
    /\ LET total == read_reg(td.TOKEN, TOTAL_BYTES)
       IN /\ n <= total
          /\ kind = "in" /\ error = 0 => n = total
          /\ td' = set_field(set_field(td, STATUS, error), TOTAL_BYTES, total - n)
    /\ overlay' = [td' EXCEPT !.last_transfer_size = overlay.last_transfer_size]
    /\ moved' = n
    /\ pc' = "idle"
    /\ UNCHANGED <<kind, buffer, CAPABILITIES, size, cache, returned>>

\* The flush that bus_reset waits for takes the transfer from the controller, which
\* has loaded the descriptor and written nothing back: it stays active, all to do.
Flushed ==
    /\ pc = "primed"
    /\ overlay' = [td EXCEPT !.last_transfer_size = overlay.last_transfer_size]
    /\ moved' = 0
    /\ pc' = "idle"
    /\ UNCHANGED <<kind, buffer, CAPABILITIES, td, size, cache, returned>>

Next ==
    \/ enable_zlt
    \/ clean_line
    \/ \E len \in Lengths : write(len) \/ read(len)
    \/ \E n \in {0, max_packet_len} : arm(n)
    \/ schedule_transfer \/ schedule_transfer_qh \/ schedule_transfer_prime
    \/ \E n \in Lengths \cup {size}, error \in Errors \cup {0} : Retire(n, error)
    \/ Flushed

Spec == Init /\ [][Next]_vars
-----------------------------------------------------------------------------
TypeOK ==
    /\ kind \in {"in", "out", "control_out"} /\ buffer \in Buffers
    /\ CAPABILITIES \in Word /\ td \in Td /\ overlay \in Td
    /\ object \in {"buffer", "td", "qh"}
    /\ pc \in {"idle", "fill", "primed", "buffer", "td", "qh"}
    /\ request \in [addr : Nat, size : Nat]
    /\ {size, addr, lines, moved, returned} \subseteq Nat
    /\ cleaned \subseteq Nat

(***************************************************************************)
(* What the controller finds when it is primed is the transfer that was    *)
(* asked for, whatever the words held before: the fields written one after *)
(* the other into shared words, over what the controller left in them of   *)
(* the last transfer, failed or not.  It is what Driver's td and           *)
(* MaxPacketLen abstract.                                                  *)
(***************************************************************************)
Armed ==
    pc = "primed" =>
      /\ td.NEXT % 2 = 1
      /\ read_reg(td.TOKEN, IOC) = 1
      /\ status(td) = ACTIVE
      /\ read_reg(td.TOKEN, TOTAL_BYTES) = size /\ size <= buffer.len
      /\ overlay.NEXT = TdAddr /\ status(overlay) = 0
      /\ max_packet_len = Least(buffer.len, KB)
      /\ read_reg(CAPABILITIES, IOS) = Bit(kind = "control_out")

(***************************************************************************)
(* The controller reaches every byte of the transfer, and no other, by the *)
(* page pointers of the descriptor: the byte after a page's last is the    *)
(* first of the page the next pointer names.                               *)
(***************************************************************************)
Reached(i) ==
    LET offset == (td.BUFFER_POINTERS[0] % PTR_ALIGNMENT) + i
        page == td.BUFFER_POINTERS[offset \div PTR_ALIGNMENT]
    IN page - (page % PTR_ALIGNMENT) + (offset % PTR_ALIGNMENT)

BufferReached ==
    pc = "primed" => \A i \in 0 .. size - 1 : Reached(i) = buffer.ptr + i

(***************************************************************************)
(* bytes_transferred, a difference of an unsigned word of the driver's and *)
(* a field the controller counts down, is what the last transfer moved,    *)
(* nothing if it was flushed, and read returns no more of it than the      *)
(* packet has.                                                             *)
(***************************************************************************)
Counted ==
    pc = "idle" => bytes_transferred(td) = moved /\ returned <= buffer.len

\* The numbers of the cache lines that hold n bytes from address a on.
LinesOf(a, n) ==
    IF n = 0 THEN {} ELSE a \div LINESIZE .. (a + n - 1) \div LINESIZE

(***************************************************************************)
(* Cleaning stays within the range it was given: a line beside it may hold *)
(* what another endpoint's transfer has just brought in.                   *)
(***************************************************************************)
CleansWithin == cleaned \subseteq LinesOf(request.addr, request.size)

(***************************************************************************)
(* When the loop has ended all lines of the range are clean, save that a   *)
(* range whose first and last bytes are so placed that it spills over into *)
(* one line more than its length needs is left without the last.           *)
(***************************************************************************)
Spills == (request.addr % LINESIZE) + ((request.size - 1) % LINESIZE) >= LINESIZE

RangeCleaned ==
    lines = 0 =>
      \A l \in LinesOf(request.addr, request.size) :
        \/ l \in cleaned
        \/ Spills /\ l = (request.addr + request.size - 1) \div LINESIZE

(***************************************************************************)
(* td.rs:101, "Clean and invalidate this TD from DCache", and qh.rs:66 for *)
(* the queue head: when either returns, the lines of the object itself are *)
(* clean.  A run refutes it.                                               *)
(***************************************************************************)
DescriptorsCleaned ==
    /\ Cleaned("td") => LinesOf(TdAddr, TdSize) \subseteq cleaned
    /\ Cleaned("qh") => LinesOf(QhAddr, QhSize) \subseteq cleaned

(***************************************************************************)
(* Seen through its fields, the endpoint is one descriptor that is lent to *)
(* the controller and given back, as Endpoint and Driver have it.  It is   *)
(* lent from schedule_transfer on: what is left to do is clean and prime.  *)
(***************************************************************************)
Descriptor ==
    [status |-> IF ~check_errors(td) THEN "error"
                ELSE IF status(td) = ACTIVE THEN "active" ELSE "idle",
     total |-> read_reg(td.TOKEN, TOTAL_BYTES),
     last |-> td.last_transfer_size]

Lending == INSTANCE OneTransfer WITH
    descriptor <- Descriptor,
    lent <- pc \in {"td", "qh", "primed"},
    limit <- max_packet_len

ImplementsTransfer == Lending!Spec
=============================================================================
