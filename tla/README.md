# Verification of the AxVisor inter-VM communication tools

This directory models the inter-VM channel (IVC) code of `axvisor-tools` in
TLA+, checks the models with TLC, and proves all their safety properties and
refinements with TLAPS.  The subject is the Linux kernel module (`src/ivc` and
`src/uio_ivshmem`), the user-space library libivc with its Python binding, and
the two demo applications.

## 1. The system

Two guests of the AxVisor hypervisor share a page range, the *region*.  One
guest, the publisher, lays it out; the other, the subscriber, finds it and
checks it.  In the region are two *rings* of 32 slots of 256 bytes, one per
direction.  *Message V1* cuts a message into frames of at most 232 bytes, one
per slot.  Each guest's kernel module offers `/dev/axivc` (ioctls that create
and remove endpoint devices) and one character device per endpoint (`read` is
one message, `write` is one message).

| Component | State | Operations | Interacts with |
|---|---|---|---|
| ring, `ivc/ring.c` | `head`, `tail` (u32, never reduced), 32 slots, in shared memory | initialize, try_push_slot, try_peek_slot, pop_slot | the other guest, without locks: acquire/release on `head` and `tail` |
| Message V1, `ivc/message.c` | sender record, receiver record, one of each per endpoint | start, try_write, try_abort; peek_meta, try_read, poison; frame encode/decode | ring |
| transfer adapter, `ivc/ivc.c:439-628` | `tx_lock`, `tx_error`, `rx_lock` | axivc_send_message, axivc_abort_send, axivc_recv_message | user threads, Message V1, notify hypercall |
| region, `ivc/region.c` | header (identity, magic, version, layout) and both rings | init_publisher, validate | the other guest, without locks |
| device registry, `ivc/ivc.c`, `ivc/main.c` | list, count and next number of the devices; `active` and `removing` of each | publish, unpublish, subscribe, unsubscribe, open, release, uninit | hypervisor, misc device core, several processes |
| hypercalls, `ivc/hvc.c` | none | publish, unpublish, subscribe, unsubscribe, notify | hypervisor |
| demo, `demo/*.c` | expected sequence numbers, poll counter | send all requests, read all replies; send all data, answer all requests | both rings of one channel |
| libivc, `userspace/ivc` | handles, `active_endpoints` of the manager, byte counters of an endpoint | open/close manager, publish, unpublish, subscribe, unsubscribe, send, receive | ioctls, device files, other programs |
| Python binding, `pybind` | wrapper objects that share one manager | constructors and destructors of Manager, Publisher, Subscriber; send, recv | libivc, the interpreter |
| ivshmem UIO driver, `uio_ivshmem` | `irq_disabled`, the depth of the line's `disable_irq`, PCI resources | probe, remove, handler, irqcontrol, register, unregister | PCI and UIO core, device, application |
| axcli, `axcli` | none | command line to ioctl | `/dev/axvisor` |

### What is hard here

* Two guests use one ring with no lock, over counters that wrap at 2^32.
* A message is many slots.  Between two of them a user buffer can fault, a
  signal can arrive, a 30 s timer can run out, the peer can stop, or the abort
  that cleans up can itself meet a full ring.
* A subscriber can leave and come back on rings that still hold frames of its
  former session, while message ids start at 1 again.
* The region is handed over by the order of stores alone, on a page that may
  hold the bytes of an earlier session.
* Devices are created and removed in several critical sections with hypercalls
  between them; any of the steps can fail, and `open`, a second removal and
  module unload race with them.
* Applications block on full rings in both directions.
* libivc publishes with an ioctl and then opens the device by name; between the
  two, any program may open or remove it.  Removal and roll-back name the
  channel, not the device.
* The manager must outlive its endpoints, on every error path of libivc, of the
  demo programs, and in whatever order Python drops its objects.
* `irq_disabled` changes under a spinlock, the interrupt line outside it; the
  handler, `irqcontrol` and `remove` meet in the gap.

`PROJECT.json` lists these hazards line by line with the properties that cover
them.

### What makes each component correct

* Ring: a bounded FIFO of whole slots; no slot is used by both sides at once.
* Transfer: a fail-stop FIFO of whole messages; every exit leaves the peer at
  a message boundary or the endpoint marked as broken; calls return.
* Region: an accepted region is one that is fully laid out.
* Registry: an open device is never freed, devices are removed once, the count
  is exact, no channel is forgotten.
* libivc: a handle is good until it is given back, `active_endpoints` is exact,
  a call that reports success has done what it says, and no device is left
  behind silently; a send reports what the receiver will get.
* Python binding: the manager closes with the last object that uses it.
* ivshmem driver: the line is disabled exactly once when the flag says so; no
  callback without its resources; every exit of probe and remove cleans up; no
  interrupt is lost; unloading ends.
* Demo: the two applications do not wait for each other, each comes to an end
  whatever the other does, success is never reported wrongly, and every exit
  gives the endpoint back and tells in its status whether that worked.

## 2. Modules

    SlotQueue  <-refines-  Ring  <-EXTENDS-  RingProofs
        :
        : (Transfer uses the queue that Ring is shown to implement)
        v
    MessageV1  <-EXTENDS-  Transfer  -refines->  MessageChannel
                           Transfer  <-EXTENDS-  TransferProofs
    MessageV1  <-EXTENDS-  Codec     <-EXTENDS-  CodecProofs

    DeviceTable  <-refines-  Registry  <-EXTENDS-  RegistryProofs
    DeviceTable  <-EXTENDS-  Libivc  <-EXTENDS-  Pybind    <-EXTENDS-  Clients
                             Libivc  <-EXTENDS-  DemoMain  <-EXTENDS-  Clients
    MessageChannel  <-INSTANCE-  LibivcIo
    Clients, LibivcIo  <-EXTENDS-  LibivcProofs

    Region  <-EXTENDS-  RegionProofs        Demo  <-EXTENDS-  DemoProofs
    IvshmemUio  <-EXTENDS-  IvshmemUioProofs
    MCRing  MCTransfer  MCRegion  MCRegistry  MCDemo  MCCodec  MCClients
    MCLibivcIo  MCIvshmemUio                              (instances for TLC)

The kernel's side of the library modules is not a new model: Libivc, Pybind and
DemoMain run on DeviceTable, which Registry is shown to implement, and LibivcIo
on MessageChannel, which Transfer is shown to implement.

**Ring** has one variable per field of `struct axivc_ring` and one record per
side for its position in the call.  A step is one access to memory the other
side may touch; `memcpy` moves one word per step, so that a torn slot would be
seen.  `Index` is the u32 counter, `% IndexMod` its arithmetic.  `Keep` is a
caller that looks at a slot without popping it (`axivc_message_peek_meta`, a
refused frame).  `axivc_ring_initialize` is `Init`.  The model interleaves
accesses; `NoSlotRace` is the condition under which this describes the weakly
ordered machine, since the plain accesses are then ordered by the
acquire/release pairs on `head` and `tail`.

**SlotQueue** is what `ring.c` promises: push appends a whole slot or reports
"full" only when full; peek hands out the oldest; pop removes what was peeked.

**MessageV1** holds the pure part of `message.c`: the frame checks and the
sender and receiver transitions, as operators on records.  A slot is a record
of header fields and payload; flags are a set.  Message bytes are unique values
`<<write, position>>`, so that a byte that appears in the wrong message shows.

**Transfer** runs the threads of one direction: writers in
`axivc_send_message` and `axivc_abort_send`, readers in `axivc_recv_message`.
A step ends with the thread's one access to the ring.  Every early return is an
action: interrupted lock, sticky `tx_error`, exhausted ids, `copy_from_user`
fault, timeout or signal on a full ring, the three outcomes of an abort, a
refused frame, too small a buffer, `ABORT` met behind consumed slots, timeout
or signal in mid-message, `copy_to_user` fault.  Time is not counted: a thread
that polls may find its deadline passed at any poll.  `ResetTx` and `ResetRx`
are a subscriber that unsubscribes and subscribes again (`axivc_endpoint_init`
on old rings); a publisher lays the region out anew instead.  `AlienPush` is a
peer that does not run this code.

**MessageChannel** is the promise to applications: a message whose write
succeeded is delivered whole, once and in order; either end can break for good;
nothing else happens.

**Region** splits `axivc_region_init_publisher` and `axivc_region_validate`
into their accesses to the page.  The store that clears `magic` is a release
store, which does not hold back the stores after it, so it reaches memory at
any point up to the next release store (`clear`).

**Registry** models creation, removal, open, release and unload.  The driver
has the code twice, for publisher and subscriber devices, line for line the
same apart from how the region is prepared; one model stands for either half
and the map points at lines of both.  A step is one critical section, one
hypercall or one call of the misc core.  `misc_register`, `misc_deregister`
and the hypervisor are external and are modelled as the code uses them: a
device can be opened from register to deregister, and a channel is given out
once.

**DeviceTable** is what the registry promises to programs: a device appears, is
listed, is open to one program at a time, is claimed by one remover, which
finds the oldest device of its channel, and may be given back when the
hypervisor refuses.  Registry implements it (`ImplementsDeviceTable`); a device
is *new* from `misc_register` to its insertion in the list, *taken* from the
`removing` flag to the hypercall, *leaving* until it is out of the list.

**Libivc** has one record per program for its position in a call of the
library, the manager (`fd` open or not, `active_endpoints`) and the endpoint
handles.  `ivc_publish` and `ivc_subscribe` share their steps, as do the two
removals; a channel's sort tells them apart.  A step is one system call, or one
step of an ioctl that other programs can see.  The roll-back after a failed
`open` (`ivc_ulib.c:316`), the roll-back of the kernel after a failed
`copy_to_user` (`ivc.c:761`) and `ivc_unpublish` all use the removing ioctl,
which names the channel: they may hit the device of another program, and the
properties say what still holds.  The environment kills programs outside of an
ioctl, removes channels by a raw ioctl, and opens device files.  `removed` and
`lost` are history variables: devices whose removal reported success, and
devices whose loss was reported or came with a kill.

**LibivcIo** is `ivc_publisher_send`, `ivc_subscriber_recv` and their twins over
a MessageChannel.  The three widths matter: a buffer is a `size_t`, the result
an `int`, and the kernel cuts one `write(2)` at `MAX_RW_COUNT` bytes.  A send
between `MAX_RW_COUNT` and `INT_MAX` is cut, delivered cut, and reported as
`EIO`; `ReportIsTrue` says that this is the only such case.

**Pybind** adds the objects of `ivc_pybind.cpp`: the use count of the
`shared_ptr` to the manager, constructors that throw, destructors in any order.

**DemoMain** adds `main` of `publish.c` and `subscribe.c`: attach, run, detach,
close, with the exit status of every path; the run itself is module Demo.

**Clients** lets programs of the three kinds (any user of the library, a Python
program, a demo application) share the devices of one guest.

**Codec** works on the bytes of a slot: `axivc_encode_frame` into a buffer with
old contents, one byte of the header damaged, `axivc_decode_frame`.  A byte is
a number below `Radix`, so that a u64 field has its eight bytes and still fits
TLC's integers.  It ties the records of MessageV1 to the wire format.

**IvshmemUio** models one device: probe and remove step by step with the `goto`
ladder as data (`Ladder`, `Label`), the handler in three steps (entry, status
register, critical section), `irqcontrol` in two (critical section, line), the
application's loop, the device, and `axvisor_init`/`axvisor_exit` of `main.c`.

**Demo** runs `publish.c` against `subscribe.c` in units of slots.  Each side
has its own timers, which do not see the other side: the driver's 30 s for a
write on a full ring and for a read in mid-message on an empty one (a timer may
run out at any poll that finds the ring so), and the polls without a message,
which are counted up to `MaxEmptyPolls`.  A write that times out goes on to
`axivc_abort_send`, which puts `ABORT` behind a cut message if there is room,
and ends the program.  Either guest may stop at any moment, in mid-message too
(`PubStop`, `SubStop`).  The history variable `early` records that a timer ran
out while one of the programs could still go on.
Its variable `publisher` says whether the publisher is `publish.c` or one that
reads while it sends, which is the peer the comments of `subscribe.c` describe.

## 3. Runs

| Run | What it checks | Instance |
|---|---|---|
| `ring` | `TypeOK`, `NoSlotRace`, refinement of SlotQueue | capacity 3, counters wrap at 9, slots of two words of two values |
| `transfer` | `IdsAreFresh`, `NoDanglingMessage`, `NoProtocolError`, `PoisonIsFinal`, `SendErrorIsFinal`, refinement of MessageChannel, `CallsReturn`, `NotStranded`, `AcceptedIsDelivered` | 2 writers, 1 reader with buffers of 1 and 5 bytes, ring of 2, messages of 1 and 3 slots and empty ones, 3 writes, ids end at 2 |
| `transfer_disturbed` | `DeliveredInOrder`, `BufferBound` | 1 writer, 2 readers, messages of 1 and 3 slots, a re-subscription of each end at any point, 17 sound and malformed frames of a foreign peer; 3 writes and foreign frames together |
| `region` | `AcceptedIsReady`, `SubscriberSettles` | blank page, old V2 page, old V3 page; every combination of refusals |
| `region_stale` | `NoAcceptWhileResetting`, **violated** | old V3 page |
| `registry` | `OpenIsBacked`, `CountIsExact`, `NoForgottenChannel`, `UnloadIsClean`, refinement of DeviceTable (which has one remover per device) | 3 processes, 2 files, 3 channels, room for 2 devices, 3 creations |
| `demo` | `OnlyExpectedMessages`, `PassIsMutual`, `BothEnd`, `BothPass` | ring of 4, fragments of 2, messages scaled to match, 2 empty polls; both publishers |
| `demo_linux_pair` | `FullDuplexProgress`, **violated** | real message lengths, ring of 32, fragments of 232; `publish.c` |
| `libivc` | `HandleIsBacked`, `ManagerOutlivesEndpoints`, `RemovedIsGone`, `NoSilentOrphan`, `ManagerLivesWithObjects`, `ExitTellsLeftover` | 2 programs of any kind and a stranger, one channel of each sort, 3 devices |
| `libivc_io` | `ReportIsTrue`, `SentIsReceivable` | `int` up to 7, 6 bytes per system call, buffers around both limits, 3 sends |
| `codec` | `BytesCarryFrame`, `DecodeAgrees` | bytes of 12 values, slots of 26; every flag set, every damaged header byte |
| `ivshmem` | `LineFollowsFlag`, `CallbacksHaveDevice`, `NothingLeftBehind`, `SignalledIsServed`, `UnloadEnds` | unbounded; with and without other programs that write to the device file |

Outside of Ring the type invariant is a conjunct of one of the listed
invariants (of `CountIsExact` in Registry, for example, whose limit is part of
it, and of `IdsAreFresh` in Transfer, which is about the values of the ids).

`IdsAreFresh` is the promise of `message.c:54`: from the receiver over the ring
to the sender the ids ascend, and a message opens with a new one.  A sender
whose id wraps around to 1 breaks it although the receiver, which knows only
the id of the message before, raises no error.  `DecodeAgrees` is checked for a
sound frame with at most one header byte changed; the lemma `DecodedAgrees`
(section 5) has no such bound.

**Why the bounds are enough.**  Ring: the counters wrap after three rounds of
the ring, and the run goes on past any number of wraps; the theorems cover
every size.  Transfer: three slots per message and two per ring force a message
through a full ring, and it has a first, a middle and a last frame; a message
of one slot can lie in the ring as a whole, accepted and not yet read; three
writes give a message before, during and after the one that fails; two ids make
the id space run out.  Registry: three creations with room for two reach
`-ENOSPC` and a channel that is published again while its old device is being
removed.  Disturbed transfer: three foreign frames can begin, continue and
overrun a message.  libivc: device numbers are never used again, so three
devices are three publishes; one program can hold or roll back a device while
the other removes it and publishes its channel again.  libivc_io: with an `int`
of 4 bits, 22 is `2^4 + MaxRw`, the size whose cast would look like the result
of a cut write.  Codec: identifiers and lengths that use one byte, bytes of
both halves, and all eight.  Demo: the messages are less than a slot, a slot, a
little more, a full ring and one slot more than the ring, as the real ones are,
and together exceed both rings; two empty polls reach the count and its reset;
the theorems cover the real sizes.  IvshmemUio: nothing is scaled down.

Deadlock is not checked in `region`, `registry`, `libivc_io` and `codec`, where
the modelled code ends (all calls have returned; the module is unloaded; the
frame is decoded).

Symmetry is used for threads, processes, files, channels and device numbers, in
runs with safety properties only (`transfer_disturbed`, `registry`, `libivc`).

**Fairness.**  Transfer: `WF` on the steps of a thread inside a call, which
says that the kernel schedules it and that a polled deadline passes in the end
(`time_after_eq` on a running clock); `SF` on taking the mutex, since a Linux
mutex hands itself over to a waiter that has waited too long.
`AcceptedIsDelivered` alone has a premise on the reading application,
`KeepsReading`: it comes back with a buffer that holds every message, and not
every such call is interrupted while it waits for the mutex.  This is `SF`,
because reads with a small buffer, which end in `EMSGSIZE`, disable the large
one for a while; with `WF` they could go on for ever, and the property fails.
Signals and faults are not fair, they may never come.  Region: `WF` on both
guests' steps, not on the subscriber's deadline.  Demo: `WF` on the steps of
each program by itself, of which the end of a timer is one; stopping is not
fair.  Nothing is assumed about the other side, so `BothEnd` holds against a
peer that stalls or is gone.  `BothPass` excepts runs in which a guest stops or
a timer is too short (`early`).  LibivcIo: `WF` on a receiver that goes on
trying buffer sizes.  IvshmemUio: `WF` on the handler, on the second half of
`irqcontrol`, on the application's loop and on what probe, remove and the
unregistration have begun; not on an unbind, nor on events.

**Assumed of code outside the repository.**  The UIO core calls `irqcontrol`
under its `info_lock`; `uio_unregister_device` waits for that lock and, in
`free_irq`, for a running handler, and is taken as one step, as is
`uio_register_device`; `depth` counts the driver's own calls of
`disable_irq_nosync` and `enable_irq`, not what `free_irq` does to the kernel's
count; an open device file keeps the module; an ivshmem device
may or may not interrupt again while an event is pending.  One thread at a time
uses the handles of one manager (`active_endpoints` is a plain counter), which
in Python the interpreter lock ensures.  Any program may open a device file and
issue the ioctls.

## 4. Findings

1. *A subscriber can accept a region that is being reset* (`region_stale`).
   `region.c:43` says that clearing `magic` first keeps a racing subscriber
   from accepting stale metadata while the rings are reinitialised.  A
   subscriber that has loaded the old `magic` just before the clear passes the
   remaining checks, which an old V3 region satisfies, while the rings are
   reset.  `AcceptedIsReady` says what the order of stores does give.
2. *`publish.c` and `subscribe.c` block each other* (`demo_linux_pair`).  The
   requests take 69 slots and the data messages 68, each ring has 32, and each
   program sends everything before it reads.  `subscribe.c:179` relies on a
   peer that drains the reply ring concurrently; with such a peer the demo
   passes (`demo`).  Only the timers end it otherwise, with a failure on at
   least one side (`BothEnd`, `PassIsMutual`).

## 5. Proofs

`RingProofs` proves, for every capacity that divides the counter range, every
slot size and every set of words (`RingAssumption`; 32 divides 2^32):

* `RingTypeCorrect`: `Spec => []TypeOK`;
* `RaceFree`: `Spec => []NoSlotRace`;
* `RingRefinesSlotQueue`: `Spec => ImplementsSlotQueue`.

`NoSlotRace` is not inductive.  The invariant `RingInv` adds that at most
`RingCapacity` slots are published; that there is room while the producer is
past its full test and something to read while the consumer is past its empty
test, although the other side moves its counter in between; and that each
half-done `memcpy` agrees, word by word, with its source.  The step is proved
action by action.  It rests on lemmas about wrapping counters: `UsedSteps`
(publishing raises the level by one, consuming lowers it), `SlotWraps` (the
slot index is continuous across the wrap; this is where divisibility is
needed) and `PublishedNotTail` (no published slot is the one being filled).
The refinement then follows from three facts about `Contents`: copying into
the slot at `tail` leaves it alone, publishing appends, popping takes the head.
The arithmetic lemmas derive what is needed of `\div` and `%` from division
with remainder.

`TransferProofs` proves, for any number of writers and readers, any ring and
fragment size and any message lengths (`MessageAssumption`,
`TransferAssumption`):

* `TransferTypeCorrect`: `Spec => []TypeOK`;
* `IdsFresh`: `Spec => []IdsAreFresh`, when both ends run this code and the
  sending end is not re-initialised (`AlienSlots = {}`, `MaxTxResets = 0`: a
  new sender begins with id 1 again);
* `BuffersBounded`: `Spec => []BufferBound`, for arbitrary slots of the peer
  (`AlienSlots` is any set of slots);
* `PoisonFinal`: `Spec => PoisonIsFinal`;
* `SendErrorFinal`: `Spec => SendErrorIsFinal`, when the slots in the ring are
  all this code's own (`AlienSlots = {}`);
* `MessagesEnd`: `Spec => []NoDanglingMessage`, under the same condition and
  as long as the sending end is not re-initialised (`MaxTxResets = 0`: a new
  sender on an old ring knows nothing of a message its predecessor left
  unfinished).

The inductive invariant `TransferInv` says what each mutex protects.
`WriterInv`: the holder of `tx_lock` is the one thread in the loop or in the
abort, the sender record describes its message, and the endpoint is not broken.
`ReaderInv`: the holder of `rx_lock` is the one thread in the loop, the
receiver is not poisoned, the bytes in the two buffers are those the receiver
has counted, and a thread that has not consumed anything still finds at the
head of the ring the frame whose length it compared with the user's buffer
(only the holder pops).  `BufferBound` and the two action properties follow.
For `IdsFresh`, `MessageIdsInv` adds that the sender's next id is one above its
last or there is none, and that a message of which nothing is out has an id
above those in the ring.  For `MessagesEnd`, `BoundaryInv` adds that the newest
slot ends a message exactly when the sender is not in the middle of one, and
that a receiver in mid-message on an empty ring has a sender in mid-message.

Its second half follows the slots, for two ends that both run this code and
are not re-initialised on an old ring (`AlienSlots = {}`, `MaxTxResets = 0`,
`MaxRxResets = 0`, the conditions of the code's own promise and of the
refinement's run: a foreign slot or a reset in mid-message does make the
receiver refuse frames, and the run of Transfer covers those for the other
properties):

* `ChannelInvariant`: `Spec => []ChannelInv`;
* `NoProtocolErrors`: `Spec => []NoProtocolError`;
* `TransferImplementsChannel`: `Spec => ImplementsMessageChannel`.

`NoProtocolError` says nothing about the slots on their way, which is what a
receiver will meet.  The invariant therefore follows the stream of slots.  A
*place* is a point between two slots: between messages or inside one, with the
message's id, length, bytes so far and the number of complete messages before
it.  `Link` says which slot lies between two places: the next bytes of the
message with the flags that fit, or its abort.  `StreamInv` says that the slots
of the ring lead (`Leads`) from the receiver's place to the sender's, however
long the ring is; a push appends one link and a pop takes the first.  With
`EncodedDecodes` (whatever `axivc_encode_frame` accepts passes
`axivc_decode_frame`) the link at the head of the ring is a frame the receiver's
checks let through (`LinkAccepted`), so nothing is refused (`NothingRefused`).
The places also count messages, and the complete ones are the entries of
`accepted` in order; this gives the refinement: the push of a last fragment is
`Accept`, the copy of a complete message to the user is `Deliver`, an abort
that could not be written is `BreakWriter`, poisoning the receiver is
`BreakReader`, and every other step stutters.

With foreign slots and re-initialised ends the receiver does refuse frames and
may start anew anywhere, so places are lost.  What remains true is

* `OrderInvariant`: `Spec => []OrderInv`;
* `DeliversInOrder`: `Spec => []DeliveredInOrder`,

for any number of re-initialisations and any slots of the peer whose bytes are
not bytes of this code's writes (bytes carry the number of their write, so this
only says that foreign bytes can be told apart).  `OrderInv` replaces places by
*spots*, which know only the newest write with bytes before them, how many of
its bytes, and the newest complete message.  A slot is silent (an abort, a
foreign slot) or carries the first bytes of a write or the next ones of the
newest; the receiver's bytes, as long as none is foreign, are the beginning of
the write before its spot.  Ids play no part: `FIRST` is what keeps the parts of
two messages with the same id from being joined.  Both invariants use the same
lemmas about chains of slots (`ChainAppend`, `ChainTail`).

`RegistryProofs` proves, for any number of processes, files, channels and
devices (`RegistryAssumption`):

* `OpensBacked`, `CountExact`, `ChannelsKnown`, `UnloadClean`: the four
  invariants of the run;
* `RegistryImplementsTable`: `Spec => ImplementsDeviceTable`.

None of the four is inductive, because the lock is not held from the moment a
removal marks a device to the moment it frees it.  `RegistryInv` says who
answers for a device in between: a live device is on the list or in the hands
of exactly one call, whose place says whether the device is registered, marked
and listed (`VdevInv`, `CallInv`, `OwnerInv`); of two listed devices of one
channel the older is past its hypercall (`ListInv`), so that a channel has one
creation or one device that stands for it (`HoldInv`, `KnownInv`); an open
device is registered and not marked, and its file keeps the module loaded
(`FileInv`, `ModuleInv`); `CountInv` counts what is live and not about to be
freed.  Device numbers are bounded by `calls` (`NumberInv`), since a call takes
one number.  The step is proved action by action, from lemmas on what
`Append` and `ListDel` do to `Listed`.  In the refinement every action moves at
most one row of the table; the hard one is `Find`, which takes the first device
of the channel on the list, while DeviceTable asks for the oldest that can be
removed: `ListInv` makes them the same.

`LibivcProofs` proves, for any number of programs, channels and devices
(`LibivcAssumption`), the four invariants of the library: `HandlesBacked`,
`ManagersOutlive`, `RemovedStaysGone`, `OrphansReported`.  All of libivc's
removals name a channel and may hit somebody else's device, so the invariant
`LibInv` tells apart the device a call has created or is giving back (`id`) and
the one its removal works on (`target`): each belongs to one call
(`UniqueInv`), a removal's target is taken or leaving (`TargetInv`), and a call
past its `find` either works on its own device or finds it gone (`IdInv`).
This is why a removal that reports success has removed the right device.

The same module carries this over to the programs of the run: `ClientsUseLibivc`
(`ClientsSpec => Spec`), and with `LibInv` as a hypothesis

* `ManagersLive`: `RefsInv` gives the use count of the `shared_ptr` at every
  place of a constructor and destructor, as the Manager object plus
  `active_endpoints` plus the object without a handle;
* `ExitsTell`: `MainInv` goes through `main` place by place.

A step of one program leaves the others' part of the state alone
(`OthersKeep`), so both are proved for one program.

`RegionProofs` proves `AcceptedReady` on any page and, when no complete region
of an earlier session can be met, `NoAcceptOnFreshPage`, the sentence of
`region.c:43` that finding 1 refutes on an old V3 page.  `PubInv` ties each
place of the publisher to what is visible on the page, `SubInv` each place of
the subscriber to how far the publisher must have come.

`DemoProofs` proves `DemoInvariant`, `MessagesExpected` (`Spec =>
[]OnlyExpectedMessages`) and `PassVouches` (`Spec => []PassIsMutual`) for any
lists of message lengths, any ring and slot size, any number of polls and
either publisher (`DemoAssumption`; an acknowledgement is one slot:
`IVC_APP_HEADER_LEN` and the body of `subscribe.c:48` are 36 bytes, a slot
carries 232).  The same idea carries it: the request ring leads from what the
subscriber has read to what the publisher has written, the reply ring from what
the publisher has read to what the subscriber has written, where the stream of
replies is all data messages and then the acknowledgements, and an `ABORT`
leads to a place from which nothing follows.  `PhasesInv` adds that the
publisher counts acknowledgements only when it has all data.  For
`PassVouches`, `AcksInv` adds that no acknowledgement is in the ring or counted
by the publisher which the subscriber has not counted before, and that the
subscriber is through when it has counted the last.

Its last part is about LibivcIo, for all buffer sizes, any `INT_MAX` and any
`MAX_RW_COUNT` below it (`LibivcIoAssumption`): `IoInvariant` and `ReportsTrue`
(`IoSpec => []ReportIsTrue`).  `IoInv` adds to the property that every message
in the channel is that of a call of send, so that a new call cannot be taken
for an old message's.  The counters compare sums over histories, which needs
induction over the length of a sequence.  The library's induction theorems
cannot be instantiated here; `SetInduction` states induction for a *set* of
numbers, and follows from the theorem that `<` on the naturals is well founded.
With it, the recursive function inside `Total` exists and is unique
(`SumsExist`, `SumsUnique`), a sum grows by what is appended (`TotalAppend`),
and two sequences that differ at one place differ as much in their sum
(`TotalChange`, which is a delivery).

`CodecProofs` proves, for every number of byte values from 9 up, every slot
size and every argument of its field's width (`CodecAssumption`),

* `CodecInvariant`: the answer is the decoder's of the bytes there are;
* `DecodersAgree`: `Spec => []DecodeAgrees`.  Its lemma `DecodedAgrees` holds
  for every slot, reached or not, so what Transfer's proofs say of records with
  arbitrary fields they say of bytes;
* `FramesCarried`: `Spec => []BytesCarryFrame`.

The widths are products (`Radix16`, `Radix32`, `Radix64`), so that reading what
was written reduces to division with remainder: `Write16`, `Write32` and
`Write64` give back any value of their width, `HeaderLayout` and `FilledLayout`
say which bytes of the slot are which field, and `FilledReads` joins the two.

`IvshmemUioProofs` proves the three invariants of the driver, `LineFollows`,
`CallbacksSafe` and `DriverLeavesNothing`.  TLC already visits all states of
this module; the proof shows why they hold.  `DriverInv` derives what is held
from the step of probe or remove (`Owned`), and the depth of the line from
`irq_disabled` and the one `enable_irq` or `disable_irq_nosync` that a critical
section has decided on and that is still to come (`Owed`).

Only model-checked: the nine liveness properties (`CallsReturn`, `NotStranded`,
`AcceptedIsDelivered`, `SubscriberSettles`, `BothEnd`, `BothPass`,
`SentIsReceivable`, `SignalledIsServed`, `UnloadEnds`), since the prover has
neither fairness nor `ENABLED`, and the two runs that end in a violation.

## 6. What is not modelled

* The demo's payload pattern: data, without control.
* `axcli`: command-line parsing around single ioctls; no state.
* A module whose `axvisor_init` fails half-way: whether its devices can be in
  use then is decided by the kernel's loader.  (IvshmemUio has the failing
  registration of the PCI driver, but no user of `/dev/axivc`.)
* Handles shared between threads of one program: libivc has no locks, and does
  not offer it.
* The effect of the notify hypercall (it wakes the other guest; polling covers
  a lost one) and the hypervisor itself, which is external.

## 7. Plan

Done, in this order: Ring with SlotQueue and its proofs; MessageV1, Transfer
and MessageChannel, with the first proofs about Transfer; Region; Registry;
Demo; DeviceTable; Libivc with the roll-back by channel, LibivcIo, Pybind and
DemoMain; Codec; IvshmemUio with the module entry.

Then proofs: Region, Registry with its refinement of DeviceTable, Libivc and
its clients, Transfer with its refinement of MessageChannel, Demo, LibivcIo,
Codec, IvshmemUio.  Nothing of the plan is left; beyond it would be two threads
that share the handles of one manager, should libivc come to offer that.
