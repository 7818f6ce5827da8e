# Verification of imxrt-usbd

`imxrt-usbd` is the USB device driver of the NXP i.MX RT processors: a `UsbBus`
for the `usb-device` crate, on bare metal, over a controller that works on its
own through descriptors and buffers it shares with the software. This directory
holds TLA+ models of the driver, TLC configurations that check them, and proofs
that TLAPS checks. Source positions such as `driver.rs:400` are in the crate's
`src/`.

## 1. The system

### Components

| component | state | operations |
|---|---|---|
| `BusAdapter` (bus.rs) | the `Driver` in a `Mutex<RefCell<..>>`, the option of a fake critical section | the `UsbBus` calls, `configure`, `gpt_mut`, `set_interrupts`, `enable_zlt`; all go through `with_usb` or `with_usb_mut` |
| `Driver` (driver.rs) | the register blocks, the two allocators, `ep_out` | `poll`, `bus_reset`, `ctrl0_read`, `ctrl0_write`, `ep_read`, `ep_write`, `ep_stall`, `on_configured`, allocation |
| `Endpoint` (endpoint.rs) | address, queue head, descriptor, buffer | `schedule_transfer`, `read`, `write`, `read_setup`, `set_stalled`, `enable`, `initialize`, checks |
| `Td`, `Qh` (td.rs, qh.rs) | words shared with the controller, `last_transfer_size` | field access, `set_buffer`, `bytes_transferred`, cache maintenance |
| `EndpointState` (state.rs) | lists of QHs, TDs and endpoints, `alloc_mask` | `allocator`, `allocate_endpoint`, lookup, iteration |
| `EndpointMemory` (buffer.rs) | bytes, `taken`, the bump pointer | `allocator`, `allocate`, volatile copies |
| `Gpt` (gpt.rs) | timer registers, `USBSTS.TIn`, `USBINTR.TIEn` | `run`, `stop`, `reset`, `set_mode`, `set_load`, `clear_elapsed`, `set_interrupt_enabled` |
| cache.rs | none | `clean_invalidate_dcache_by_address` |
| ral.rs, vcell.rs, log.rs, lib.rs | none | register access, volatile cells, logging, declarations |
| controller and host (hardware) | USBSTS, ENDPTSETUPSTAT, ENDPTCOMPLETE, ENDPTSTAT, ENDPTPRIME, ENDPTFLUSH, ENDPTCTRL, USBCMD.SUTW | takes primes and flushes, runs transactions, receives SETUPs, resets the bus |

### How they interact

The application builds a `BusAdapter`, `usb-device` allocates endpoints through
`alloc_ep`, then the bus is frozen. From then on an event loop or an interrupt
handler calls `poll()`; `usb-device` answers a reset with `reset()` and reads and
writes endpoint 0, and classes read and write the other endpoints. After each
configuration by the host the application must call `configure()`. Each call has
the `Driver` to itself. Every endpoint has one descriptor and one buffer, which
the controller owns from the write of ENDPTPRIME until it retires the transfer.

### What is hard, and what makes each part correct

Two agents, software and controller, share registers and memory without locks,
and the driver's protocol with the hardware consists of the order of its register
accesses:

* `poll` acknowledges, samples and clears. Correct when no event falls between
  two of these (`EventsReported`), and every completion is reported, read before,
  or discarded by a bus reset with the session it belongs to
  (`CompletionsReported`).
* `read_setup` reads memory the controller may overwrite. Correct when what it
  returns is one SETUP and the last is not lost (`SetupIntact`), when SETUPs are
  taken out of a mailbox of one place and none of them twice, but for one case
  (`ImplementsMailbox`), every SETUP is read in the end (`SetupsRead`), and the
  loop ends (`CallsReturn`).
* `ep_read`, `ep_write`, `ep_stall`, `ctrl0_*` ask whether a transfer is armed and
  then change it. Correct when they never change one the controller owns
  (`TransferOwned`), each endpoint is a pipe of one packet (`ImplementsPipe`),
  no OUT endpoint is left unarmed and unreported (`NeverDeaf`), and an IN endpoint
  that has failed sends nothing more in its session (`FailedStaysOut`).
* `bus_reset` races the transfers it ends. Correct when the next session starts
  clean (`ResetQuiesces`, `FreshAfterReset`).
* Constructors may run in two contexts, and panic between two statics. Correct
  when statics are lent once, unused, and buffers do not overlap (`Exclusive`,
  `LentAsNew`, `Unaliased`, `BuffersApart`).
* Calls may come from a thread and interrupt handlers. Correct when they are
  serialized (`ImplementsOneAtATime`, `FlagExact`, `PanicsOnlyNested`).
* The settings of two endpoints share an ENDPTCTRL register, and a SETUP changes
  the first. Correct when each endpoint ends up with its own (`Settled`), and no
  store on the way changes more than one of them (`ImplementsSettings`).
* `schedule_transfer` writes a descriptor field by field over what the controller
  left in it. Correct when the controller finds the transfer that was asked for
  (`Armed`), reaches all of its bytes (`BufferReached`), what it moved is counted
  (`Counted`), the words never say more or less than the one record `Driver` has
  for them (`ImplementsTransfer`), and cleaning the cache touches no foreign line and misses none
  (`CleansWithin`, `RangeCleaned`).
* Timers and bus share write-one-to-clear flags. Correct when neither loses the
  other's (`FlagsKept`, `Interrupting`) and delays are exact (`Punctual`).

## 2. Modules

| module | what it is |
|---|---|
| `UsbController` | external: registers, shared memory, the steps of controller and host |
| `Endpoint` | endpoint.rs, td.rs, qh.rs: endpoint operations, and the state of a call in progress |
| `Driver` | driver.rs under bus.rs: one action per run of code the controller cannot come between; `Spec`, `FairSpec`. Beside some steps stands the same step with a plausible defect, which nothing uses: put in its place, it makes a property fail, which shows that the property watches the step |
| `DriverProperties` | the properties of the composition |
| `PacketPipe` | abstract: what an endpoint is to the host and the class |
| `SetupMailbox` | abstract: what endpoint 0 does with SETUPs |
| `DriverClaims` | what comments say and the code does not keep |
| `DriverProofs`, `DriverOwnership`, `DriverPipes` | proofs about `Driver`, each on top of the one before |
| `EndpointControl`, `ControlProofs` | endpoint.rs, driver.rs, ral.rs: the ENDPTCTRL registers, and proofs |
| `OwnSettings` | abstract: the settings of endpoints, without registers to share |
| `Allocation`, `AllocationProofs` | state.rs, buffer.rs, `Driver::new`, `alloc_ep`, and proofs |
| `BusAdapter`, `BusProofs` | `with_usb`, `with_usb_mut`, preemption, the RefCell, and proofs |
| `OneAtATime` | abstract: what `with_usb` and `with_usb_mut` promise to the `Driver` |
| `Transfer`, `TransferProofs` | td.rs, qh.rs, cache.rs under endpoint.rs: the words of one endpoint's descriptor and queue head, the cache lines cleaned, and proofs |
| `OneTransfer` | abstract: a descriptor that is lent, given back and read |
| `Gpt`, `GptProofs` | gpt.rs, and USBSTS and USBINTR, and proofs |
| `MCDriver`, `MCTransfer`, `MCAllocation`, `MCBusAdapter`, `MCGpt`, `MCEndpointControl` | constants for TLC |

### How `Driver` corresponds to the code

`pc` is the position of the call in progress, `"idle"` between calls. A call is
split wherever the controller or the host could act between two of its accesses
and the outcome could differ: `poll` into six actions, `bus_reset` into three,
`read_setup` into five, with the scheduling that follows it in `ctrl0_read` apart
(`ctrl0_prime`), and every read, write or unstall into its `check_errors`
or ENDPTCTRL access, its `is_primed` and what depends on it, and the wait for
ENDPTPRIME (`spin`). Once `is_primed` has found an endpoint neither armed nor
being primed, the controller does not touch its descriptor, so the rest up to
the write of ENDPTPRIME is one step. Calls that return an error and change
nothing have no action; `WouldBlock` has one, for its check is a step.

Registers that are masks are sets of endpoints; an endpoint is named by `index()`
of state.rs. A descriptor is its status, the bytes still to transfer and
`last_transfer_size`. A packet is its place in the sequence of its endpoint and
its length. A SETUP is its number, and `lo` and `hi` are the words of it that
were loaded: a torn one has two different numbers. `call`, `etce`, `todo`, `lo`
and `hi` are the locals of a call, reset when it no longer needs them.

Left out: ENDPTNAK (written, never used), ZLT, addresses, and the data toggle.
The ENDPTCTRL settings are two sets here, enabled and stalled; that each
modify_reg changes its own half of a register, and the endpoint types, are the
subject of `EndpointControl`. Memory is coherent in `Driver`.

The environment is general: the class may call anything at any time, in any
order, with any buffer length; only `configure()` is restricted, to once per bus
reset, as bus.rs:34-36 and 258-260 ask. `ctrl0_read` is called as `usb-device`
does, after a `poll()` that reported EP0 OUT or a SETUP, and `ctrl0_write` only
once a SETUP has been read. `poll()` may run again before a reported SETUP is
read, which is more than `usb-device` does. Non-zero endpoints carry traffic only
while the host has the device configured.

Three variables are history: `sent` and `got` count packets, `unreported` holds
the completions neither reported by a `poll()` nor consumed by a read; `bus_reset`
empties it with ENDPTCOMPLETE (driver.rs:171-173), for it discards what has not
been reported, so that no property has these completions reported. `before`
is what `sent` was when the last bus reset was done.

### The abstract specifications

Five modules say what a part promises without how it does it, and each is a
property of the part, `Abstraction!Spec` under a mapping.

`PacketPipe` has no registers and no calls: a packet is put into an empty pipe,
taken once with its number and its length cut to the room of the taker, and lost
only after a bus reset or a failure, or while the pipe is being restarted. That
is an OUT endpoint in the middle of being unstalled, or one that unstalling may
have armed as `configure()` arms it again (`Restarting`).
After trouble a read may return what is no packet. `DriverProperties` maps every
endpoint to one but EP0 OUT, which `ctrl0_write` arms anew over a packet that may
not have been read, and with no room for another (driver.rs:256): an IN pipe holds its buffer's packet while the transfer is armed
or being primed, an OUT pipe from the end of the reception to its reading or the
scheduling of the next.

`SetupMailbox` has room for one SETUP, which the next one replaces. A read takes
the one that is there, whole and in an instant. It need not be the last read of
it: `read_setup` clears ENDPTSETUPSTAT before it arms the tripwire, and a SETUP
that comes between is flagged again and yet returned, to be read once more by the
next call. The mailbox admits this once for each SETUP and no more. `Driver` is
mapped to it by `setup`, ENDPTSETUPSTAT and `setupRead`, the history of what
`read_setup` returned. That counts the reads, because a second read of one
SETUP that left everything else as it was would be a stutter, which no
refinement can forbid. A mapped read takes place at the last test of the tripwire.

`OneTransfer` has a descriptor that is lent to the controller, given back with a
status and what is left, and read: the record `Driver` has in `td`. `Transfer` is
mapped to it by the value of each field of the words (`Descriptor`), which is lent
from the end of `schedule_transfer` to the retirement or the flush (`Lending`). It closes the
gap between the two grains: what `Driver` takes for one record and one step,
`Transfer` does in words and in the order of the methods of `Td`.

`OwnSettings` has an enable, a stall and a type for each endpoint, switched in an
instant. `EndpointControl` is mapped to it by the halves of its registers
(`Switches`); it is what `Driver` assumes in having sets for them.

`OneAtATime` has callers that look and callers that change. `BusAdapter` maps the
calls past their borrow to them, and `Driver` takes this guarantee for granted:
it has one call at a time.

### `EndpointControl`

Each half of a register is a record of its enable, stall and type bits. A
modify_reg is a load and a store with the SETUP between; `op`, `todo` and `word`
are the call, the endpoints it has still to do and the register it loaded.
Endpoint 0 is enabled from the start (endpoint.rs:246).

### `Transfer`

One endpoint, from `Endpoint::new` on, at the grain below `Driver`: what
`schedule_transfer` does in the one step `Driver` takes it for. Words are numbers
and a field is the value of its lowest bit and the number of its values, so
`modify_reg` keeps the rest of a word only if the fields do not overlap. The
methods of `Td` are operators from a `Td` to a `Td`; `schedule_transfer` composes
them in the order of the code. Each turn of the cleaning loop is an action, with
`pc` holding the object being cleaned. The controller loads the descriptor over
the overlay and writes it back; `Armed` says what it must find, and is what
`schedule_transfer` in `Endpoint` and `MaxPacketLen` in `UsbController` abstract.
A `&Td` lies at `SlotAddr` of the stack: `Td::clean_invalidate_dcache` cleans
there.

### `Allocation`, `BusAdapter`, `Gpt`

`Allocation`: `alloc_mask` is the set of bits of the atomic; `state_allocator` is
the `fetch_or` of bit 31, `memory_allocator` the `swap` of `taken`, and drivers
interleave between them. `alloc_ep` is one step, since its driver alone allocates from
its mask, and the bit others set commutes with it. `endpoints[s]` is the set of
`Endpoint`s built over the queue heads of `s`; two with one index would be two
`&'static mut` to one queue head. A panic stops its driver and lets the others go
on, which is the worst the panic handler may allow.

`BusAdapter`: `stack` is the nesting of interrupts on one core, `masked` is
PRIMASK, `borrow` the RefCell's flag, loaded and stored in two steps when it is
taken and again when it is dropped. The body of a call is no step of its own,
`Driver` being its model.

`Gpt`: the timers count and the bus raises flags between calls. A one-shot timer
that elapsed waits for `reset()`, and a new load value is used from the next
`reset()` or repetition, as gpt.rs documents of the hardware. `set_interrupts` is
one step although it loads and stores USBINTR: all that write the register hold
the `Driver` as `&mut` (`BusAdapter` is the model of that), and the controller does
not write it.

## 3. Runs

| run | instance | what is checked |
|---|---|---|
| `data` | EP0, two OUT, one IN; buffers and packets of 0, 8, 9 bytes, endpoints of 8; 2 packets each | `TypeOK NeverDeaf ImplementsPipe` |
| `control` | EP0; lengths 0 and 8; 2 SETUPs, 1 data packet each way, 1 failure, 1 bus reset | under `FairSpec`: `EventsReported SetupIntact ImplementsMailbox FreshAfterReset CompletionsReported SetupsRead CallsReturn` |
| `sessions` | EP0, one OUT, one IN; both stalled and unstalled; 2 packets, 1 failure, 1 bus reset | `EventsReported NeverDeaf ResetQuiesces TransferOwned ImplementsPipe FreshAfterReset FailedStaysOut` |
| `endptctrl` | EP0; endpoint 1, OUT and IN, of two types; OUT 2 alone, with attributes beyond the type; stalls of these and of endpoints never allocated | `TypeOK Settled ImplementsSettings` |
| `transfer` | buffers of 8, 64 and 1025 bytes at the start of a page, within a line, and before a page's end; lengths 0, 1, 31, 32, 33, 2000 | `TypeOK Armed BufferReached Counted CleansWithin RangeCleaned ImplementsTransfer` |
| `alloc` | two drivers, two states of COUNT 3 and 5, two adjacent memories of 1600 bytes, packets of 512 and 1025 | `TypeOK Exclusive Unaliased BuffersApart LentAsNew` |
| `bus` | a thread and two handlers of different priority, with and without critical sections | `TypeOK PanicsOnlyNested FlagExact ImplementsOneAtATime` |
| `gpt` | two timers with loads 0 and 1, delays of 0 and 9, and the bus | `TypeOK Punctual FlagsKept Interrupting` |
| `claim_*` | one property each, refuted | see section 6 |

### Bounds

`Lengths` holds an empty packet, a full one, and one that is too long, the three
cases `min` tells apart; `control`, which is about order and not lengths, has the
first two, and `sessions` the second. Two packets per endpoint make a completion follow the
reading of another, with an unstall between them. Two SETUPs let one come
while another is read, and both be flagged by one `poll()` or by two. One
reset ends a session and begins another. One failure is enough for each property about failures: they look at
a single endpoint. `control` has one data packet each way, or its liveness takes
too long: that endpoint 0, too, keeps the order of its answers, is left to a theorem
(`EndpointsArePipes`). Endpoint 3 beside 2 and 4 distinguishes the halves of the
registers and two endpoints of one half. Memories of 1600 bytes run out after
three small packets or one large and one small, and 1025 is past the clamp of
qh.rs:46. The lengths of `transfer` lie about a line and beyond a packet, the
buffers on, in and across lines and pages. TLC bounds what the host and the class do, never what the driver does.

### Fairness

`FairSpec` assumes four things. A call that has begun goes on
(`WF_vars(CallStep)`): nothing in the driver blocks but its loops, whose exits
are what the property is about. The controller takes prime and flush requests
(`WF` of `ControllerStep`): the loops at driver.rs:177-179 and endpoint.rs:215
rely on it. The application keeps calling `poll()` (`SF_vars(poll)`): the event
loop of bus.rs:74-88 or the interrupt handler does; strong, because other calls
keep disabling it for a while. A SETUP that `poll()` reported is read (`SF` of
`ctrl0_read`): `UsbDevice::poll` of `usb-device` reads endpoint 0 when `poll()`
reports a SETUP for it, bus.rs:74-88; strong for the same reason. Nothing is
assumed of the host, and nothing else of the class.

## 4. Proofs

All theorems hold for every value of the constants that satisfies the named
assumptions of the modules: any endpoints, packet lengths up to 1024, and
bounds; any number of drivers and statics; any handlers of any priorities; any
buffers, addresses and lengths; any timers and delays.

### The driver

* `TypeCorrect`: `Spec => []TypeOK`. `TypeOK` is inductive with
  `DescriptorsInBounds`: no descriptor asks for more than the packet length, and
  what remains never exceeds what was asked, so `bytes_transferred` cannot
  underflow.
* `NoLostWakeUp`: `Spec => []EventsReported`. Inductive with `TypeOK`:
  `CompletionSeen` names the positions of `poll` from which the sample is still
  to come.
* `SetupNeverTorn`: `Spec => []SetupIntact`. By itself `SetupIntact` says
  nothing of a read in progress. `SetupInv` adds that while the tripwire is
  armed, each word loaded so far is the current SETUP's; a SETUP trips the wire,
  and then the loop goes round.
* `SetupsAreMailed`: `Spec => ImplementsMailbox`. `SetupIntact` does not keep a
  SETUP from being read for ever. `Fresh` does: a SETUP flagged after a read in
  progress has cleared the flag has not been read yet, so that a read which leaves
  its SETUP flagged is the first of it. Every step of `Driver` is then an `Arrive`,
  a `Take` or a stutter.
* `FailedSendNothing`: `Spec => FailedStaysOut`. `check_errors` guards `ep_write`,
  but a write is several steps long, and a transfer can fail after the check: from
  `ArmedActive`, by which a transfer that is armed or being primed has not failed,
  a failed endpoint is not in any call's hands but one that was past its check
  (`CallsLeaveFailed`). What `bus_reset` and `configure()` do to a failure is left
  open: that they leave it there is a finding (`claim_reset`) and no promise.
* `OwnershipRespected`: `Spec => TransferOwned`. It rests on `Quiescent`: no prime
  request is pending but in a spin or between a prime and its spin, so
  that `is_primed`, which looks at ENDPTSTAT alone, is enough.
* `OutNeverDeaf`: `Spec => []NeverDeaf`. `DeafInv` strengthens it with
  the endpoints a step of `poll` or a read is about to account for.
* `EndpointsArePipes`: `Spec => ImplementsPipe`. First every step is shown to be
  one of a few: it leaves the pipes as they are (`Quiet`), ends a
  flush, re-initialises the endpoints, or works on one endpoint and leaves the
  others alone (`Stepped`). Then `PipeInv` says, for one endpoint, what makes the
  mapped pipe right: while there has been no trouble, an OUT endpoint whose
  completion is known holds the next packet, and an IN endpoint's armed buffer
  the last one written. Each kind of step is then a `Put`, a `Take`, a `Lose`,
  a `Stray` or a stutter.
* `ResetLeavesNothing`: from `ResetInv`, which says what the steps of `bus_reset`
  before the last have emptied, and why it stays empty.
* `NothingStaleSent`: from `PipeInv`, by which an IN endpoint that is armed after
  a reset holds a packet written since.

### The other components

* `NothingShared`, `NothingLentTwice`, `BuffersNeverOverlap` and `TypeCorrect`
  of `AllocationProofs`: from `Inv`. `Marked` ties a driver's position to the
  marks it left, `Masked` the mask to the endpoints built, and `Carved` keeps
  every buffer between the bump pointer and the end of its memory, so that a new
  one, which ends at the pointer, cannot reach an old one. That statics do not
  overlap is assumed (`StaticsAssumption`).
* `StaticsLentAsNew`: from `Untouched`, by which a state nobody has taken has no
  endpoint built over it and a memory nobody has taken has its pointer at the end,
  and the state of a driver still in its constructor is as it was. No static is
  ever given back, not even by a constructor that panics.
* `CallsOneAtATime`, `FlagTellsAll`, `PanicsAsDocumented` and `TypeCorrect` of
  `BusProofs`: from `BusInv`. `Nesting` has the contexts begun in the order of
  their priorities. `Loaded` is the argument for a flag that is not updated
  atomically: a context that has loaded it and not stored it has seen what the
  contexts *below* it have made of it, and those cannot run before it goes on;
  whatever preempts it has left again by then; `Dropping` is the same for a
  context that gives its borrow back. `Disabled` is the one for
  critical sections: one context at most is in a call.
* `ArmedAsAsked`, `EveryByteReached`, `CountExact` and `TypeCorrect` of
  `TransferProofs`: from `WordsInv`. A word is a sum of its fields in units of
  their lowest bits (`Token`, `Capabilities`), so that `modify_reg` of one field
  leaves the terms of the others alone (`WriteStatus`, `WriteIoc`, `WriteTotal`).
  `Filled` then holds from `schedule_transfer` to the retirement, over any
  remains of the last transfer. A transfer is shorter than a page, so that the
  bytes of it are behind the first two page pointers.
* `WordsAreATransfer`: `Spec => ImplementsTransfer`, from `WordsInv` as well, with
  one lemma for each kind of step: `FillLends`, whatever the last transfer left in
  the words; `RetireGivesBack`; `ReadReads`; a flush takes the transfer back; and `StatusSays`, by which the bits
  that `check_errors` looks at are those a failed transfer has set.
* `CleaningStaysWithin`, `CleaningCovers`: from `CleanInv` in `TransferProofs`.
  `CursorOK` says that the cursor is on a line, the lines cleaned are those from
  the first of the range up to it, and those left end where the number of lines,
  taken from the size alone, puts them. The arithmetic of the alignment is then
  done once, at the end.
* `ElapsesOnTime`, `NoFlagLost`, `NoInterruptLost` and `TypeCorrect` of
  `GptProofs`. `CountsAddUp` says that what a timer has counted and what it has
  left add up to the clamped delay, less one; `EnabledAsWanted` that USBINTR is
  what its users asked for.
* `SettingsKept` and `TypeCorrect` of `ControlProofs`: from `Settling`. Endpoints
  a call has done have their settings, those to do will get them from what their
  register holds now, a loaded word is still what the register holds but for a
  stall that a SETUP has lifted, and a pending SETUP has lifted it.
* `SettingsStandAlone`: `Spec => ImplementsSettings`. `Settling` makes a stale load
  harmless and `Ranging` keeps the loops to non-zero endpoints, so that a store,
  which writes both halves of a register, is a switch of one setting of one
  endpoint (`StoreSwitches`, `OneHalf`).

Every safety property, action property and refinement of a passing run is proved. Only model-checked is liveness,
under fairness (`CompletionsReported`, `SetupsRead`, `CallsReturn`), which is
out of the prover's reach, as is anything that needs ENABLED. What is *not* in a
theorem is that the grain of the actions is fine enough; section 2 argues it.

## 5. Not modelled

What a dirty or stale cache line does to data: `Transfer` keeps track of the lines
cleaned, not of their contents. In `Transfer`, the `configure()` that fills the
descriptor of an endpoint unstalling has armed: it has a transfer flushed by
`bus_reset` and armed again, but none written to while it is lent, and the
properties of the words are not about that case. That `ep_read` answers a report of
the last `poll()`: a bit of `ep_out` that an earlier `ep_read` has used up is
still set, and only `is_primed` keeps it from being believed (`ImplementsPipe`).
The data toggle's reset, TXR and RXR of ENDPTCTRL (endpoint.rs:251, 254), which
`enable` sets and nothing reads. The physical layer and clocks of
`Driver::initialize`, `set_address`, `attach`: writes nothing modelled reads.
The data toggle, which unstalling does not reset (endpoint.rs:219-230). Real time:
how long `poll()` may be late (driver.rs:181). Several cores: `BusAdapter` has one,
and `interrupt::free` protects no more than one. `usb-device` and the classes are
modelled by what they may call.

## 6. Where code and comments disagree

| run | what TLC shows |
|---|---|
| `claim_errors` | `ep_read` and `ep_write` check for errors before they check that the transfer is over (driver.rs:273, 297); one that fails in between is taken for a good one and re-armed. |
| `claim_reset` | A failed transfer's status survives the bus reset (endpoint.rs:103-115); an IN endpoint then returns `InvalidState` for ever. |
| `claim_stale` | After a bus reset, until `configure()`, `ep_read` returns a packet from before it: `ep_out` is not cleared (driver.rs:168-188). |
| `claim_clean` | `Td::clean_invalidate_dcache` and `Qh::clean_invalidate_dcache` pass the address of a reference on the stack (td.rs:104, qh.rs:69): the descriptor's own lines stay dirty. |

Read in the source, and in no run: `configure()` re-primes an endpoint that
unstalling has armed (driver.rs:383-390, against endpoint.rs:194-195);
`alloc_ep` panics on an endpoint beyond COUNT (driver.rs:355-357) instead of
returning `EndpointOverflow`; `is_stalled`, alone of the calls on endpoints, does not
ask `is_allocated` and unwraps `None` for one never allocated (bus.rs:398). `RangeCleaned` makes an exception of a range that
spills over: the number of cache lines to clean leaves out the misalignment of
the address (cache.rs:44), so the end of a buffer may stay dirty, where
buffer.rs:164 has "at least `len`" of it cleaned.

## 7. Plan

Done: the driver with its controller, the words of a transfer and its cleaning,
the ENDPTCTRL registers, allocation, the bus adapter, the timers; the five abstract
specifications; proofs of the safety properties and the refinements of all of
them.
Next, in this order:

1. The control state machine of `usb-device` (external) over endpoint 0: whether
   requests are answered, SETUPs doubled or mixed with data, and what the host sees
   of endpoint 0 once a transfer of it has failed, which `ctrl0_write` does not recover
   from (driver.rs:243).
2. The contents of cache lines in `Transfer`: stale receptions, and buffers that
   share a line.
