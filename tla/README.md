# Firecracker in TLA+

A verification development kept beside the Firecracker sources (`src/src/`, paths
below are relative to it).  It models the parts of Firecracker that keep state over
time: threads, the guest and the kernel interleave in them, snapshots are taken and
restored under them, calls fail half-way through.  TLC checks them on small
instances; TLAPS proves the central properties for every instance.

## The system

A Firecracker process runs one microVM.  It has

* the **VMM thread** (`vmm/src/lib.rs`): an epoll loop that runs one handler at a
  time: device queue events, rate limiter timers, io_uring completions, vCPU
  exits, API requests;
* one **vCPU thread** per vCPU (`vmm/src/vstate/vcpu/mod.rs`): a state machine
  around `KVM_RUN`, driven by a channel and kicked with a signal;
* the **API thread** (`api_server`, `firecracker/src/api_server_adapter.rs`), which
  passes parsed requests to the VMM thread and waits for the answer.

| part | what makes it hard |
|---|---|
| virtqueue (`devices/src/virtio/queue.rs`) | lock-free protocol with the guest, u16 wrap-around, fences, notification suppression |
| rate limiter (`rate_limiter`) | integer division of time, over-consumption, restore, update while blocked |
| block device (`devices/src/virtio/block`, `io_uring`) | dropped events, full queues, failing drain, snapshot with I/O in flight, two wrapping rings shared with the kernel |
| MMIO transport, balloon | register writes in any order, interrupt status against the guest's handler, pages lost or given back twice |
| network device (`devices/src/virtio/net`) | edge-triggered tap, deferred frame, two limiters, the MMDS detour |
| vsock (`devices/src/virtio/vsock`) | credit from wrapping counters, bounded queues that are rebuilt, kill timers, reset after a restore |
| dumbo and MMDS | sequence arithmetic, retransmission, eviction, tokens with a lifetime |
| VMM and vCPU control (`vmm/src/lib.rs`, `vstate/vcpu`) | kicks racing `KVM_RUN`, late and unread responses, teardown |
| API and controllers | an eventfd between threads, order of actions |
| configuration, builder, device managers | uniqueness over any order of setters, failure of any step of a boot, addresses after a restore |
| snapshots (`vmm/src/persist.rs`, `memory_snapshot.rs`, `snapshot`, `rebase-snap`) | two dirty bitmaps, diff merging, versions, interrupted writes |
| KVM state, CPUID | ioctls with side effects on each other, MSR lists in chunks, TSC scaling, topology leaves that must agree |
| seccomp compiler, jailer, logger and metrics, serial console | jump offsets, several processes on one file system, racing counters, a full FIFO |

`PROJECT.json` lists all parts with their status, the lines every definition models,
and the hazards at the lines where they bite.

## Modules

The components meet at narrow interfaces: a queue, an eventfd, a channel, a file.
There is one module per component.

| part | modules | source |
|---|---|---|
| virtqueue | `VirtQueue`, the abstract `BufferPool` | `devices/src/virtio/queue.rs` |
| rate limiter | `RateLimiter` | `rate_limiter/src/lib.rs` |
| block device | `BlockDevice`, `IoUring`, `DescriptorChains` | `devices/src/virtio/block`, `io_uring` |
| MMIO transport | `MmioTransport` | `devices/src/virtio/mmio.rs`, `device.rs` |
| balloon | `Balloon` | `devices/src/virtio/balloon` |
| network device | `NetDevice` | `devices/src/virtio/net` |
| vsock | `VsockConnection`, the abstract `VsockChannel`, `TxBuf`, `VsockMuxer`, `VsockDevice` | `devices/src/virtio/vsock` |
| serial console, bus | `SerialInput`, `Bus` | `devices/src/legacy/serial.rs`, `devices/src/bus.rs` |
| metadata service | `TcpConnection` (operators), `TcpEndpoint`, `TcpHandler`, `Pdu`, `Checksum`, `Mmds` | `dumbo`, `mmds` |
| vCPU threads and VMM | `VcpuControl` | `vmm/src/lib.rs`, `vmm/src/vstate/vcpu/mod.rs` |
| KVM state, CPUID | `VcpuState`, `Cpuid` | `vmm/src/vstate`, `arch/src/x86_64/msr.rs`, `cpuid` |
| API | `ApiRequest` (parsing and routing), `ApiServer` (threads and controllers) | `api_server`, `firecracker/src/api_server_adapter.rs`, `vmm/src/rpc_interface.rs` |
| configuration and boot | `VmResources`, `Builder` | `vmm/src/resources.rs`, `vmm_config`, `builder.rs`, `device_manager` |
| snapshots | `MemorySnapshot`, `SnapshotFile` | `vmm/src/memory_snapshot.rs`, `persist.rs`, `snapshot`, `rebase-snap` |
| process | `Seccomp`, `Jailer`, `Telemetry` | `seccompiler`, `jailer`, `logger` |

The header of every module says what its state stands for; a definition that models
code has the name of the function it translates where TLA+ allows it.

The MC modules are instances for TLC.  `MCDevices`, `MCNetwork` and `MCVmm` each
hold several components: the initial state chooses one (`which`), the components
share a pool of variables through `INSTANCE ... WITH`, and a property that is not
about the component chosen is true.  Nothing crosses between them, so a run of
such a module is a run of each of its components.  `MCLive` does the same for
liveness, with the fairness of each component, in two specifications (`CoreSpec`,
`ServiceSpec`).

The modules ending in `Proofs` hold the theorems; each extends the components it is
about.  Five of them hold the theorems of several components.

Definitions preceded by the word *Mutant*, which nothing uses, are wrong variants of
the operation defined after them: putting one in the place of the original makes
the property named in `PROJECT.json` fail.

Most modules define a type invariant.  It documents the range of each variable; the
runs spend their time on the properties below, and the proofs carry the types they
need in their inductive invariants.

### How components meet

* `VirtQueue` implements `BufferPool`, the view that device modules have of a queue
  (heads taken in order, put back in place, given back once); checked and proved.
* `VsockConnection` implements `VsockChannel`, which `VsockMuxer` runs for each of
  its connections; checked and proved.  `TxBuf` is a queue of bytes, which is what
  `VsockConnection` holds; checked and proved.
* `TcpEndpoint` is written over the operators of `TcpConnection`.  `TcpHandler` sees
  an endpoint as its `next_segment_status`; that a call without a segment leaves it
  alone is checked of `TcpEndpoint` (part of `SummariesAgree`).  `NetDevice` sees the metadata service as
  a number of frames it wants to send.
* `BlockDevice` sees the rings as three places and a count; `IoUring` checks that
  the rings keep both.  It sees the limiter as a flag and a timer; `RateLimiter`
  checks that a blocked limiter has a timer.  These two abstractions are stated and
  not checked as refinements.
* `ApiServer` leaves open whether an operation succeeds; `VmResources`, `Builder`,
  `VcpuControl` and `MemorySnapshot` are the operations.

### VirtQueue

State: the fields of `Queue` (`next_avail`, `next_used`, `num_added`), where the
handler stands (`dpc`), the shared rings and indices, the eventfd (`kick`), the
pending interrupt (`irq`), and the driver's own cursors.  The indices are
`Wrapping<u16>`, modelled modulo `IdxMod`.  The heads are 0..QueueSize-1 and a
slot is an index modulo the size, as in `do_pop_unchecked`.

An action touches shared memory once, so device and driver interleave between any
two accesses.  The device's stores of the used index and of `avail_event` go
through FIFO store buffers, drained by actions of their own; `fence(SeqCst)` waits
until they are empty.  `PopCheckLen`, `RecheckAvail` and `DoPopUnchecked` are the
parts of `pop_or_enable_notification`; `PrepareKick` is `prepare_kick`.

The handlers (`QueueEvent`, `ResumeEvent`, `CompletionEvent`) are those of the block
device: a popped chain is executed at once, submitted for later completion, or
undone until a timer or completion resumes the queue.  `Return` ends a handler
only when every `add_used` was followed by `prepare_kick`.

The driver is not part of the repository: publish then test `avail_event`; drain,
set `used_event`, look again.  It is assumed to follow the virtio protocol, and
the theorems hold for such a driver only.  `BufferPool` has the buffers of the
driver, two FIFOs and the set the device works on; the mapping at the end
of the module reads the FIFOs off the ring windows between the cursors.

### RateLimiter

The token bucket (`new`, `auto_replenish`, `reduce`, `force_replenish`) has the u64
products modulo `U64` and the truncating divisions of the code.  On top are
`consume`, `manual_replenish`, `event_handler`, `update_buckets`, persist and the
caller's protocol of `Request::rate_limit`: an operation, then the bytes, and the
operation back if the bytes are refused.  The clock is a variable.

The ratio of an over-consumption is an f64 in the code; the model computes
`over * refill_time \div size`, exact where the f64 rounds.  `timerfd_settime` is
external: a zero duration disarms the timer.

### BlockDevice, IoUring and DescriptorChains

In `BlockDevice` there is one action per iteration of the loops of `process_queue`
and `process_async_completion_queue`, one per event handler.  The engine is where a
head is: pushed (`sq`), in the kernel, completed (`cq`), with `num_ops`.  A request
is `io` (read, write, flush), `id` (answered at once) or `bad` (`Request::parse`
fails).  `PrepareSave` comes after the interrupt controller was saved (`saved_irq`),
as in `Vmm::save_state`.  `UpdateDiskImage` is guarded by an idle disk because
`docs/api_requests/patch-block.md` asks that of the client; the code does not check
it.  `KickFails` and `PrepareSaveFails` are failing or short `io_uring_enter` calls.

`IoUring` has the two rings with their masks and wrapping indices.  The kernel takes
all entries, some or none (`PartialEnters`) and completes them in any order.
`DescriptorChains` runs `Request::parse`, the transfer, `finish` and the two vsock
packet constructors on every chain of at most three descriptors.

### VcpuControl

A vCPU thread is in `running` (inside `KVM_RUN`), `interrupted` (about to look for
an event), `paused`, the three points of `Vcpu::exit`, or finished.  A kick is a
pending signal; its handler sets `immediate_exit`, which ends `KVM_RUN` once and is
cleared.  Signals pending together are all handled before the thread goes on, so
one flag stands for them.  The VMM thread sends one event per step and reads one
response per step.  `pause_vm` and `resume_vm` stop at the first wrong response,
`save_vcpu_states` and `restore_vcpu_states` read all of them first.  An exited
vCPU answers everything but `Finish` with `Exited`; a response `Exited(code)` is
represented by its code.

## Runs

| run | instance | shows |
|---|---|---|
| `queue_event_idx` | 2 heads, indices mod 4, batches of 2, event index | no kick or interrupt is lost; the queue implements `BufferPool` |
| `devices` | the components of `MCDevices` | see below |
| `network` | the components of `MCNetwork` | see below |
| `vmm` | the components of `MCVmm` | see below |
| `core_live` | queue with 1 head; 2 vCPUs and 3 commands; fairness | all chains return to the driver (`AllReturn`); a VMM that shuts down ends all vCPU threads (`Stops`) |
| `service_live` | block device with 2 heads and rings of 1, TCP endpoint, network device, serial console; fairness | block requests are answered (`Answered`), MMDS requests are answered or the connection ends (`RequestsAreAnswered`), tap frames are read or deferred (`TapIsRead`), typed bytes are read (`TypedIsRead`), with the exceptions named below |
| `limiter_zero_timer` | 2 tokens per ms | violation, finding 1 |
| `block_update` | 2 heads, 1 update | violation, finding 2 |
| `block_restore` | 2 heads, 1 snapshot | violation, finding 3 |
| `vcpu_hang` | 2 commands, Resume of a running VM allowed | violation, finding 4 |
| `vcpu_exit_code` | 1 command | violation, finding 5 |
| `api_lost_wakeup` | 4 requests, no other event | violation, finding 6 |

`devices` shows

* `BlockedIffArmed`: a rate limiter is blocked exactly while its timer is armed, over
  updates and restores; `RateBound`: what it grants is what the configuration says,
  no more over any time, and no later than the tokens are earned;
* `NoStrandedWork`: a block device that sleeps with no event on its way has no work;
* `RingsAreExact`: io_uring operations come back once, are counted, never overrun
  the completion ring, and a drain that the kernel took in full leaves none behind;
* `TransfersExact`: requests stay inside the disk and inside what their descriptors
  allow, and the used length is what was written, unless the file engine failed;
* `SnapshotRestorable`: the state of an MMIO transport at any moment passes the
  checks of a restore, if the driver does not overrun its queues; `NoLostInterrupt`:
  the guest's handler sees every cause;
* `PagesExact`: the balloon gives back exactly the pages it acknowledged, in disjoint
  maximal ranges, but for ranges that reach beyond guest memory;
* `RoutesToOwner`: a bus access reaches the device that owns the address.

`network` shows

* `FlowControlled` (vsock connection): order, room in both buffers, and a guest that
  ran out of credit is told of what it got back; `ImplementsChannel`; `IsQueue`
  (`TxBuf`);
* `TablesAgree` (muxer): RX queue, kill queue, epoll set and ports agree with the
  connections; `VsockIsServed` (device): whatever waits has an event to come, unless
  the muxer did not find it;
* `StreamsIntact` (TCP endpoint): neither direction is damaged by loss, repetition
  or timeouts, and the endpoint does not close before the guest has every response;
  `SummariesAgree` (handler): the active set and the earliest timeout are those of
  the connections, and the handler may skip an endpoint that had nothing to write;
* `NetIsServed`: frames arrive once and in order, and whatever waits has an event,
  unless a frame used up a whole queue of bad chains;
* `ChecksumIsRight`: the checksum of a segment is one the receiver accepts, and its
  32-bit sum does not overflow.

`vmm` shows

* `SavedWhilePaused`: vCPU states are saved only while all vCPUs are paused, as long
  as no answer has missed its timeout;
* `AnswersMatch`: the API thread takes the answer to its own request;
* `ConfigIsConsistent`: whatever the order of the setters; `DevicesAreFound`: the
  guest's command line names every device where it is, after restores too;
* `DiffsAddUp`: base and diffs make the memory at the last snapshot, but for pages the
  balloon has emptied; `StateIsKept`: what a state file of any version keeps is what the guest had; `KvmStateKept`:
  registers, MSRs and TSC survive a restore;
* `FlushesAddUp` (metrics), `VerdictIsRight` (compiled seccomp filters against their
  rules), `JailersKeepApart`, `TopologyAgrees` (CPUID leaves);
* `RoutesAsDocumented`: API requests mean what `api_server/swagger/firecracker.yaml`
  says.  The module has the paths, methods and operations of that file as a table;
  a request written as documented is accepted, and an accepted one is the operation
  of the longest documented path it begins with;
* `MmdsReadsRight`: with version 2, metadata is read exactly with a live token; the
  length checks of the packet views, the segment writer, the MSS option and the
  frame filter.

**Bounds.**  Every bound is a constant of its module, with its value in the cfg or in
the `INSTANCE` of the MC module.  Wrapping indices and counters are given so few
values that they wrap within the run, and rings are smaller than what competes for
them:

* queue: four index values over two slots wrap after two turns of the ring; a batch of
  two crosses the wrap; two heads are enough for a kick or an interrupt to be
  suppressed for one because of the other;
* limiter: the periods (2 and 3 time units per token, a timer of 2) do not divide each
  other, so fractions of a token are carried over; 4 time units, 1 update, 1 restore;
* block device: three heads, alike, so that the initial state need only choose how many
  are of each kind (`UpToOrder`), 2 submission and 3 completion entries, 1 update, 1
  snapshot, 1 failing call.  io_uring: rings of 2 and 4, indices modulo 8, 8
  operations, the last of which wraps the indices; balloon: two inflate descriptors of
  seven kinds, some at and beyond the end of a memory of 4 pages, one statistics
  buffer; MMIO transport: one queue of at most 2 entries, whose ring moves only while
  interrupts and selectors rest (`RingsOrInterrupts`; they share no variable);
* vsock: counters modulo 3 with a buffer of 2; two connections with RX and kill
  queues of 1, 3 inputs and 1 error; TCP: sequence numbers modulo 32 that start just below the wrap, one
  frame in flight, 1 loss or 1 stray segment (`OneFault`), a window that holds half a
  response, two requests or one that never ends; TCP handler: three peers for two
  places;
* network device: two frames, two buffers a side, 1 refusal of the limiter, 1 tap error
  (in `service_live` one buffer to transmit); serial console: a FIFO of 2, 6 bytes, 1
  failing call;
* vCPU control: two vCPUs, the least for a command that succeeds on one and fails on
  the other; 3 commands, enough to resume, pause and save, and in `vmm` 1 timeout of the
  first command (`EarlyTimeouts`; `SavedWhilePaused` says nothing of what comes after
  a timeout);
* configuration: 4 setter calls over 3 drives, 2 interfaces with one MAC address;
  builder: all devices, two of a kind, or none, 3 boots and 2 restores; memory:
  regions of 2 and 1 pages, 3 writes, 2 snapshots with failures, and the balloon
  inflating where it can matter (`SomeInflations`);
* seccomp: words of 2 bits and every condition alone, chains of up to three
  conditions; a jump limit of 15 that the rules exceed;
* jailer: two jailers on the same or different ids, two cgroup files, depth 2;
* CPUID: 1 to 32 vCPUs with and without SMT, lists with and without room.

**Deadlock** is checked in all passing runs.  Components that end when their bounds
are reached or when the system is done have a stuttering step (`MayStop`); the rate
limiter, block device, MMIO transport, vsock connection, TX buffer, TCP handler and
the queue of `queue_event_idx` have none and never get stuck.  The violation
runs of `VcpuControl` and `ApiServer` end where the process ends and do not check it.

**Fairness.**  Threads are scheduled and signals delivered, so every handler, store
buffer and vCPU step is weakly fair.  The event loop serves every ready descriptor
of a round: strong fairness of the event handlers of `BlockDevice`.  A limiter or
engine that turned a request away accepts it later: strong fairness of the grant,
since buckets refill with time and operations complete.  In `TcpEndpoint` frames in
flight arrive, an endpoint that can write is polled, and the guest acknowledges.
The serial console's guest reads a FIFO that has data.  In `BlockDevice` a paused
VM is resumed and a driver reclaims what was announced.  Nobody has to start
anything: drivers, guests and clients may stop making requests.

### What the passing runs do not cover

* The limiter's buckets are such that an over-consumption is worth at least one
  millisecond; with faster ones `BlockedIffArmed` is false (finding 1).  For requests
  larger than the bucket `RateBound` states only twice the configured rate: the time
  a limiter stays blocked to pay a debt also refills the bucket, since `reduce`
  leaves `last_update` where it was.  A restore forgives one debt.  That a request is
  granted in time is stated as long as the elapsed time multiplied by the processed
  capacity stays below 2^64, as it does in the run.
* `NoStrandedWork` excepts a device whose completion event is not registered
  (finding 2).  The block device is run with the asynchronous engine only.
* `core_live` assumes that no response times out and that Resume is only asked of a
  paused VM.  With a timeout `Stops` fails in the same way as in finding 4.
* `SavedWhilePaused` asks nothing once an answer has been late.  A form that allowed
  for one late answer held on every small instance and is false: every command that
  fails at an earlier vCPU puts the answers of a later one further behind, until a
  `SavedState` from before a Resume is read as the answer to a save while that vCPU
  runs (two vCPUs, one late answer, eleven commands).
* TLC runs the queue with the event index and without malformed heads; the other
  settings are covered by the theorems.
* `DiffsAddUp` is stated for diffs after which no creation failed.  When writing the
  memory file of a diff fails, KVM's bitmap has been read, which clears it, and the
  next diff leaves pages out (`vmm/src/persist.rs:290`).  Pages that the balloon has
  emptied are excepted until they are written to a file again: `remove_range`
  (`devices/src/virtio/balloon/utils.rs:68`) marks no page, so a diff may leave out a
  page that now reads as zeros, and the merged file has its old contents.  A load makes
  the merged file the memory to compare with.
* `SnapshotRestorable` excepts drivers that make more chains available on an active
  queue than it holds (`queue.rs:266`; the device's next `pop` panics), and that write a
  queue size beyond the maximum to a device they never started.
* `TransfersExact` asks nothing of the used length when the file engine fails: it may
  have moved some of the data by then, and reports none (`block/io/sync_io.rs:45`).
* `PagesExact` is stated for drivers that post readable descriptors of at most
  `MAX_PAGES_IN_DESC` pages.  Of a compacted range that reaches beyond guest memory
  nothing is removed (`balloon/utils.rs:76`), also of the part inside.  Memory is one
  region, and `mmap` and `madvise` succeed.
* `TablesAgree`: a connection whose kill timer had run out when the kill queue was
  rebuilt is passed over (`vsock/unix/muxer_killq.rs:72`) although the queue then
  counts as synchronized (`:19`).  Ports are reserved if the host listens on no port of
  the range that `allocate_local_port` uses: `handle_peer_request_pkt` reserves none.
* `VsockIsServed` excepts packets left behind when the muxer's RX queue was out of step
  and ran dry on stale entries (`vsock/unix/muxer.rs:122`): they wait for the next event.
* `NetIsServed` excepts a frame for which as many bad chains were used up as the queue
  has entries (`net/device.rs:394`): it is kept, and no notification is asked for.
* `JailersKeepApart` excepts a jailer that fails on the pid file after the clone, other
  than because the file exists: its child goes on (`jailer/src/env.rs:301`).
* `TypedIsRead` excepts a failing read or `raw_input`, after which the console may be
  detached.  The UART's loopback mode, in which it takes no input, is not modelled.
* `KvmStateKept` asks for the MSRs of snapshots of booted microVMs: a restored vCPU
  has the MSR list that `new` gave it, without what `configure` added
  (`vmm/src/vstate/vcpu/x86_64.rs:300`).  Its TSC part leaves out guests whose
  template hides the model of the host they ran on, for which the check compares
  unlike things (`vmm/src/builder.rs:517`).
* `TapIsRead` excepts frames whose edge was taken while the limiter was blocked and
  nothing deferred, as it is after a frame too large for its bucket: the handler of the
  limiter's event reads again only for a deferred frame (`net/device.rs:698`), where its
  comment says "restart processing the queue".  A read that fails loses the edge as well.
* `Pdu` takes the premise of the comment at `dumbo/src/pdu/tcp.rs:229`, that the
  length of a TCP option is at least 2.

### Behaviour the models made visible

No document of the repository speaks of these, or speaks only of the usual case, so
no run is devoted to them:

* `devices/src/virtio/queue.rs:410`: `num_added` is a u16; a device has to call
  `prepare_kick` before 2^16 calls of `add_used` (`MaxBatch < IdxMod`).
* `devices/src/virtio/vsock/csm/connection.rs:356`: a shutdown in two steps with data
  still buffered leaves the connection without a kill timer; it ends when its buffer
  drains or the host closes.
* `devices/src/virtio/vsock/unix/muxer.rs:122`: an out-of-step RX queue is rebuilt
  only when it is empty at the start of `recv_pkt`; the next event retries.
* `vmm/src/device_manager/persist.rs:291`: the vsock device is saved before the reset
  event is put into its queue; the restored microVM does not have that event.
* `dumbo/src/tcp/endpoint.rs:267`: `response_seq` moves past every byte sent, so a
  retransmission fails with `PayloadMissingSeq` and after `rto_count_max` attempts the
  connection is reset.
* `dumbo/src/tcp/connection.rs:647`: a repeated segment longer than the room left
  fails with `BufferTooSmall` before its sequence number is looked at.
* `firecracker/src/api_server_adapter.rs:260`: a request that arrives after the event
  loop has ended is not taken, and `join` waits for the API thread.
* `vmm/src/resources.rs:267`: vCPU count and SMT are stored before the memory size of
  the same request is checked.  `vmm_config/net.rs:141` and `vmm_config/vsock.rs:97`:
  an interface or socket is removed before its successor is created.
* `devices/src/virtio/mmio.rs:150`: a reset keeps `acked_features`; `mmio.rs:189`: a
  driver that has set FAILED cannot reset the device.
* `vmm/src/persist.rs:253`, `:278`: state and memory files are truncated before they
  are written.  `persist.rs:299`: a full snapshot leaves the bitmaps as they are,
  which costs the next diff some pages and no correctness.
* `devices/src/virtio/block/io/async_io.rs:195`: `drain` does not look at how many
  entries the kernel took, so a short call ends it early.
* `logger/src/metrics.rs:159`: differences are marked as reported while they are
  serialized; a failed write loses them (`FlushesAddUp` counts them).
* `vmm/src/builder.rs:914`: subscribers of a failed boot stay subscribed.

## Findings

1. `rate_limiter/src/lib.rs:423`: an over-consumption worth less than a millisecond
   arms the timer with zero, which disarms it.  The limiter stays blocked.
2. `devices/src/virtio/block/device.rs:455`: `update_disk_image` with the
   asynchronous engine creates a completion eventfd that no event loop watches.
   Later requests are never answered.
3. `vmm/src/lib.rs:473`: the interrupt controllers are saved before the devices are
   drained, so the interrupt for what the drain completes is not in the snapshot.
4. `vmm/src/vstate/vcpu/mod.rs:299`: `running` takes one event per interruption.
   With an unread event in front of `Finish` and one interruption for both kicks,
   `Finish` is not read and `stop` waits for ever.
5. `vmm/src/vstate/vcpu/mod.rs:419`: `exit_evt` is written before `Exited` is sent;
   the VMM may look too early and stop with `Ok`.
6. `firecracker/src/api_server_adapter.rs:104`: the adapter answers a request and then
   reads the event.  The event of a request sent in between is read away with it;
   the request waits until something else wakes the VMM.

They are results about the models, on the traces TLC prints; none was reproduced
on a running Firecracker.

## Proofs

All theorems hold for every value of the constants that the named assumption allows;
TLC evaluates the assumptions on the instances it runs.  `BlockAssumption` and
`ControlAssumption` are hypotheses of the theorems that need them.

### VirtQueueProofs

For every `QueueSize`, `IdxMod`, `MaxBatch`, `Malformed` and both values of `EventIdx`,
under `QueueAssumption` and `MalformedAssumption`:

| theorem | statement |
|---|---|
| `InductiveInvariant` | `Spec => []IInv` |
| `TypeCorrect` | `Spec => []TypeOK` |
| `PanicUnreachable` | `Spec => []NoPanic` |
| `SingleOwner` | `Spec => []OwnedOnce` |
| `NoNotificationLost` | `Spec => []NoLostKick` |
| `NoInterruptLost` | `Spec => []NoLostIrq` |
| `QueueImplementsPool` | `Spec => ImplementsPool` |

The assumptions are what `Queue::is_valid` and the power-of-two size give: the ring
divides the index space and is smaller than it.  `MaxBatch` below `IdxMod` says that
a device calls `prepare_kick` before 2^16 calls of `add_used`.

None of the properties is inductive by itself.  `IInv` adds to the types and to
`OwnedOnce`

* `CountInv`: the shares of driver, avail ring, device and used ring add up to the
  size of the ring.  This bounds `len`, which excludes the panic, and makes room
  for every `add_used`;
* `HandlerInv`: the entry found by a length check is still there when it is read,
  and the slot of a chain that may be undone still holds it;
* `KickInv`: a device asleep without an event has published `avail_event` equal to
  `next_avail`, and what is in the ring was added after the driver's last kick
  test;
* `IrqInv`: used entries the driver was not told of were added since the last
  `prepare_kick`, and `used_event` is the driver's cursor unless it is draining.

The lemmas go from arithmetic (`ModInjective`, `SlotInjective`, `Distance`) to ring
windows (`RingPush`, `RingPop`), to ownership per operation, to one lemma per
action, and to `NextIInv`.  The refinement adds lemmas on windows as sequences
(what an entry more at the end, or one less at the front, does to them) and maps
each action to a step of the pool or to a stutter.

### The other theorems

| module | theorems | assumption | inductive invariant |
|---|---|---|---|
| `DeviceProofs` (block device) | `BlockInvariant`, `BlockNumOps`, `BlockOneOwner`, `BlockThrottled`, `BlockNotStranded` | `BlockAssumption`: finitely many heads, a submission queue no larger than the completion queue | `BlockInv`: every head in one place once (`Placed`), `num_ops` exact, and for all work an event that gets it done (`Woken`).  `NoStrandedWork` alone says nothing of a device in its handler; `Woken` does |
| `DeviceProofs` (bus) | `BusInvariant`, `BusNoOverlap`, `BusRoutesToOwner` | `BusAssumption`: addresses and lengths are natural numbers | `BusInv`: each range ends before the next base |
| `DeviceProofs` (MMIO transport) | `MmioInvariant`, `TransportIsRestorable`, `InterruptsAreNotLost` | `MmioAssumption`: sizes are natural numbers | `MmioInv`: an activated device has valid queues and keeps them, with no more available than they hold until the driver overruns one, and a cause the guest has not seen is in the status register, with an event there or about to be written |
| `DeviceProofs` (builder) | `DevicesFound` | `BuilderAssumption`: no two devices of a configuration have the same type and id | `BuilderInv`: by the stage of the build, what the command line says, what the manager has registered and what a snapshot holds are the same devices at the same places |
| `RingProofs` (io_uring) | `RingInvariant`, `RingsExact` | `RingAssumption`: both sizes divide the width of the indices and are smaller | `RingInv`: see below |
| `RingProofs` (vsock device) | `VsockServed` | `VsockAssumption` (a type) | `VsockInv`: the queues served are published and announced, and packets wait for a buffer only, unless the backend has passed them over, in the device and in the image of it in a snapshot |
| `ConnProofs` | `ConnInvariant`, `FlowIsControlled` | `ConnAssumption`: the buffers are smaller than the width of the counters | `ConnInv`: see below |
| `ChannelProofs` | `ConnImplementsChannel` | the same | `ConnInv`, used step by step |
| `NetProofs` (TX buffer) | `TxBufInvariant`, `TxBufIsQueue` | `TxBufAssumption`: the width of the offsets is a multiple of the size | `TxBufInv`: the offsets are at most the size apart |
| `NetProofs` (TCP handler) | `HandlerInvariant`, `HandlerActive`, `HandlerTimeout`, `HandlerTables`, `HandlerSummaries` | `HandlerAssumption`: positive capacities | `HandlerInv`: both summaries at once, and a finite map within its capacity |
| `NetProofs` (checksum) | `ChecksumRight` | `ChecksumAssumption`: room for the words of a segment, as a u32 has for any IPv4 packet | `ChecksumInv`: a bound on the sum by the words read, and that sum and data agree modulo 2^16 - 1 through every fold |
| `NetProofs` (network device) | `NetServed` | none | `NetInv`: frames in order and once, and for whatever waits, but a frame that gave up, an event to come, also in the middle of a handler |
| `SnapshotProofs` (vCPU commands) | `ControlInvariant`, `PausedThm`, `SavedThm` | `ControlAssumption`: at least one vCPU, any number of commands | `ControlInv`: while no response timed out, which command or answer is still in which channel, by the step of the VMM and the state of the vCPU |
| `SnapshotProofs` (memory) | `SnapshotMemory` | `SnapAssumption`: regions one after the other from offset 0, as `describe` lays them out | `SnapInv`: see below |
| `VmmProofs` (API) | `ApiAnswersMatch` | none | `ApiInv`: where the one request and its answer are, by the steps of the two threads |
| `VmmProofs` (metrics) | `MetricsAddUp` | none | `MetricsInv`: what was read is between what was flushed and the counter |
| `VmmProofs` (jailer) | `JailersApart` | `JailerAssumption`: a depth and a positive number of files | `JailerInv`: what exists in the shared cgroups and in each jail by the step of each jailer, and at most one jailer past the first `mknod` of an id |
| `VmmProofs` (configuration) | `ConfigConsistent` | `ResAssumption` (types) | `ResInv`: the property and the types of the lists |

The rings.  `RingsAreExact` speaks of operations and counts; the code has indices,
masks and memory.  `RingInv` says where the operations are: the entries between head
and tail of the submission ring are those pushed and not yet taken (`SubmissionRing`),
those of the completion ring the completed and not yet reaped (`CompletionRing`), each
operation is in one place (`OnePlace`), and `num_ops` is their number, which is at most
the size of the completion ring (`RingCounts`), so that the kernel's next entry never
falls on one that is still there.  The lemmas go from division (`ModUnique`,
`MaskWraps`, `MasksDiffer`: two indices less than a ring apart have different slots,
wrapped or not) to what a move of a head or tail does to the entries in between, to
one lemma per operation.

The connection.  `FlowControlled` is about what the guest knows; what it knows is in
packets on their way.  `ConnInv` has the bytes from the host over the TX buffer and
the packets in the queue to the guest in one chain without gaps (`TxOrder`), and the
credit of each direction as a chain of ever older copies of one counter, from the side
that counts over the packets under way to the side that is told (`TxCredit`,
`RxCredit`), all modulo 2^32 and never further apart than a buffer: only then is a
difference of wrapped counters the number it stands for.

`ImplementsChannel` is proved with the mapping that forgets counters and data.  The
steps of the connection are steps of the channel; those of the guest alone are
stutters.

The memory snapshot.  `DiffsAddUp` compares files with memory; between the two are
two bitmaps that the dump consumes while it writes.  `SnapInv` says what is due at each
page of `dump_dirty`: a page behind the writer is in the file, in the batch still to be
written or unchanged since the last snapshot (`Behind`), a page ahead is marked in KVM's
bitmap as read or in Firecracker's, or unchanged (`Ahead`); between two dumps every page
that changed is marked, or is written by a request in flight that will mark it
(`Tracked`).  For `rebase-snap` it says which pages the cursor has copied (`Copied`).
That pages lie in one region only, and the region after it begins where it ends, is an
induction over the regions, by the least region that would break it (`Least`).

A theorem whose property a run checks is about the definition that the run checks:
`PROJECT.json` lists both.

Only model-checked:

* everything under fairness (`core_live`, `service_live`), which is beyond the prover;
* what recursive operators compute, which the prover cannot load: `TablesAgree`
  (`VsockMuxer`), `PagesExact` (`Balloon`), `MmdsReadsRight` (`Mmds`, `Pdu`);
* `BlockedIffArmed` and `RateBound`, for the nested divisions of products in
  `RateLimiter`;
* `StreamsIntact`, `TransfersExact`, `StateIsKept`, `VerdictIsRight` (an induction over
  the rules of a filter), `KvmStateKept`, `TopologyAgrees` and `RoutesAsDocumented`, for
  which no proof has been written.

## Not modelled

`PROJECT.json` gives the reason for each part.

* No state over time: generated bindings, ioctl wrappers, the tap device, byte layouts
  and field accessors, the memory layout and boot tables of x86_64, the command line
  parsers, the process entry point.
* State that a unit test covers: the i8042 controller, the boot timer.
* The parts for aarch64; the models follow the x86_64 build.
* Signal handlers, which log and exit.
* Outside the repository, modelled by how the code uses them: KVM, the kernel's side
  of io_uring, epoll and timerfd, file systems and cgroups, the UART, serde and
  versionize, AES-GCM, the guest's drivers and TCP client, the host's vsock peers.

Within the modules, guest addresses are valid unless a definition says otherwise,
payloads are single values, and memory ordering is modelled for the device's stores
to the rings only.  Composition stops at the interfaces listed under "How components
meet": a state space that holds a device, its queue and its limiter together with
their wrapping indices is out of TLC's reach.
