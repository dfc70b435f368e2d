---------------------------- MODULE BlockDevice ----------------------------
(***************************************************************************)
(* The virtio block device (devices/src/virtio/block) on top of its file   *)
(* engine: the synchronous one, or the io_uring one with its submission    *)
(* and completion queues (io_uring/src).                                   *)
(*                                                                         *)
(* The VMM thread runs one handler at a time; a handler's loop is one       *)
(* action per iteration, so that the driver and the kernel interleave.     *)
(* The rings are abstracted as VirtQueue proves they may be: a FIFO of     *)
(* heads, and a kick exactly when the device has armed notifications.  The *)
(* rate limiter is abstracted as RateLimiter shows: blocked, it has a timer *)
(* that will unblock it.                                                   *)
(***************************************************************************)
EXTENDS Integers, Sequences, FiniteSets

CONSTANTS
    Heads,        \* descriptor chain heads
    Kinds,        \* "io": read, write, flush; "id": GetDeviceID, Unsupported;
                  \* "bad": Request::parse fails
    Engine,       \* "Sync" or "Async"
    SqSize, CqSize,   \* entries of the submission and completion queues
    Limited,      \* a rate limiter is configured
    MaxUpdates,   \* bound on the calls of update_disk_image
    MaxSaves,     \* bound on the snapshots taken
    MaxErrors     \* bound on the failures of io_uring_enter

\* What the constants must be.
BlockAssumption ==
    /\ IsFiniteSet(Heads)
    /\ Kinds \subseteq {"io", "id", "bad"}
    /\ Engine \in {"Sync", "Async"}
    /\ SqSize \in Nat \ {0} /\ CqSize \in Nat \ {0} /\ SqSize <= CqSize
    /\ Limited \in BOOLEAN
    /\ MaxUpdates \in Nat /\ MaxSaves \in Nat /\ MaxErrors \in Nat

VARIABLES
    free,         \* heads the driver owns
    avail,        \* heads in the avail ring, first to be popped first
    kind,         \* what the request of each head is
    used,         \* heads in the used ring
    armed,        \* the driver will kick for the next head it adds
    queue_evt,    \* queue_evts[0] is readable
    pc,           \* "idle", or where process_queue or the completion loop is
    throttled,    \* is_io_engine_throttled
    blocked,      \* rate_limiter.is_blocked()
    sq,           \* operations pushed and not submitted
    kernel,       \* operations the kernel is working on
    cq,           \* completed operations not popped
    ring_ops,     \* IoUring::num_ops
    comp_evt,     \* completion_evt is readable
    registered,   \* completion_evt is in the event loop's epoll set
    lost,         \* heads dropped with an engine
    running,      \* the vCPUs run
    irq,          \* KVM has an interrupt of the device for the guest
    saved_irq,    \* irq as the vCPU states of the snapshot have it
    updates, saves, errors

ring == <<avail, used, armed, queue_evt>>
engine == <<sq, kernel, cq, ring_ops, comp_evt, registered>>
guest == <<free, kind>>
kvm == <<running, irq, saved_irq>>
counts == <<updates, saves, errors>>
vars == <<guest, ring, pc, throttled, blocked, engine, lost, kvm, counts>>

Init ==
    /\ free = Heads /\ avail = <<>> /\ used = {}
    /\ kind \in [Heads -> Kinds]
    /\ armed = TRUE /\ queue_evt = FALSE
    /\ pc = "idle" /\ throttled = FALSE /\ blocked = FALSE
    /\ sq = <<>> /\ kernel = {} /\ cq = <<>> /\ ring_ops = 0
    /\ comp_evt = FALSE /\ registered = (Engine = "Async")
    /\ lost = {} /\ running = TRUE /\ irq = FALSE /\ saved_irq = FALSE
    /\ updates = 0 /\ saves = 0 /\ errors = 0

Elems(s) == {s[i] : i \in 1..Len(s)}

\* add_used_descriptor: prepare_kick asks for an interrupt when the driver had
\* seen every used head before.
Announce(finished) == irq \/ (used = {} /\ finished)

----------------------------------------------------------------------------
(* process_queue and the events that run it.                               *)

\* process_queue_event: the event is consumed even when nothing is processed.
ProcessQueueEvent ==
    /\ pc = "idle" /\ queue_evt
    /\ queue_evt' = FALSE
    /\ pc' = IF blocked \/ throttled THEN "idle" ELSE "loop"
    /\ UNCHANGED <<guest, avail, used, armed, throttled, blocked, engine,
                   lost, kvm, counts>>

\* process_rate_limiter_event.
ProcessRateLimiterEvent ==
    /\ pc = "idle" /\ blocked
    /\ blocked' = FALSE
    /\ pc' = "loop"
    /\ UNCHANGED <<guest, ring, throttled, engine, lost, kvm, counts>>

\* pop_or_enable_notification finds the ring empty.
PopNone ==
    /\ pc = "loop" /\ avail = <<>>
    /\ armed' = TRUE
    /\ pc' = "submit"
    /\ UNCHANGED <<guest, avail, used, queue_evt, throttled, blocked, engine,
                   lost, kvm, counts>>

\* Request::rate_limit refuses: undo_pop and leave the loop.
RateLimited ==
    /\ pc = "loop" /\ avail # <<>> /\ Limited
    /\ kind[Head(avail)] # "bad"
    /\ blocked' = TRUE
    /\ pc' = "submit"
    /\ UNCHANGED <<guest, ring, throttled, engine, lost, kvm, counts>>

\* What the limiter may do when it lets a request through: an over-consumption
\* blocks it for the next one.
Granted ==
    IF kind[Head(avail)] = "bad" THEN blocked' = blocked
    ELSE ~blocked /\ blocked' \in (IF Limited THEN BOOLEAN ELSE {FALSE})

\* IoUring::push fails with FullCQueue or SQueueError::FullQueue.
EngineFull == ring_ops >= CqSize \/ Len(sq) >= SqSize

ToEngine == Engine = "Async" /\ kind[Head(avail)] = "io"

\* The request is executed, or it cannot be parsed: its chain is used at once.
Executed ==
    /\ pc = "loop" /\ avail # <<>> /\ ~ToEngine
    /\ Granted
    /\ used' = used \cup {Head(avail)}
    /\ avail' = Tail(avail)
    /\ irq' = Announce(TRUE)
    /\ UNCHANGED <<guest, armed, queue_evt, pc, throttled, engine, lost,
                   running, saved_irq, counts>>

Submitted ==
    /\ pc = "loop" /\ avail # <<>> /\ ToEngine /\ ~EngineFull
    /\ Granted
    /\ sq' = Append(sq, Head(avail))
    /\ ring_ops' = ring_ops + 1
    /\ avail' = Tail(avail)
    /\ UNCHANGED <<guest, used, armed, queue_evt, pc, throttled, kernel, cq,
                   comp_evt, registered, lost, kvm, counts>>

\* ProcessingResult::Throttled: undo_pop, and wait for a completion.
Throttled ==
    /\ pc = "loop" /\ avail # <<>> /\ ToEngine /\ EngineFull
    /\ Granted
    /\ throttled' = TRUE
    /\ pc' = "submit"
    /\ UNCHANGED <<guest, ring, engine, lost, kvm, counts>>

\* kick_submission_queue at the end of process_queue.
KickSubmissionQueue ==
    /\ pc = "submit"
    /\ kernel' = kernel \cup Elems(sq)
    /\ sq' = <<>>
    /\ pc' = "idle"
    /\ UNCHANGED <<guest, ring, throttled, blocked, cq, ring_ops, comp_evt,
                   registered, lost, kvm, counts>>

\* io_uring_enter fails, or takes only the first operations: an error is logged,
\* and what is left stays queued.
KickFails ==
    /\ pc = "submit" /\ sq # <<>> /\ errors < MaxErrors
    /\ errors' = errors + 1
    /\ \E n \in 0..(Len(sq) - 1) :
        /\ kernel' = kernel \cup Elems(SubSeq(sq, 1, n))
        /\ sq' = SubSeq(sq, n + 1, Len(sq))
    /\ pc' = "idle"
    /\ UNCHANGED <<guest, ring, throttled, blocked, cq, ring_ops, comp_evt,
                   registered, lost, kvm, updates, saves>>

----------------------------------------------------------------------------
(* Completions.                                                            *)

\* process_async_completion_event.
CompletionEvent ==
    /\ pc = "idle" /\ comp_evt /\ registered
    /\ comp_evt' = FALSE
    /\ pc' = "complete"
    /\ UNCHANGED <<guest, ring, throttled, blocked, sq, kernel, cq, ring_ops,
                   registered, lost, kvm, counts>>

\* One round of process_async_completion_queue.
PopCompletion ==
    /\ pc = "complete" /\ cq # <<>>
    /\ used' = used \cup {Head(cq)}
    /\ cq' = Tail(cq)
    /\ ring_ops' = ring_ops - 1
    /\ irq' = Announce(TRUE)
    /\ UNCHANGED <<guest, avail, armed, queue_evt, pc, throttled, blocked, sq,
                   kernel, comp_evt, registered, lost, running, saved_irq, counts>>

CompletionsDoneStaysThrottled ==
    /\ pc = "complete" /\ cq = <<>>
    /\ pc' = "idle"
    /\ UNCHANGED <<guest, ring, throttled, blocked, engine, lost, kvm, counts>>

\* The completion queue is empty: a throttled device goes back to its queue.
CompletionsDone ==
    /\ pc = "complete" /\ cq = <<>>
    /\ pc' = IF throttled THEN "loop" ELSE "idle"
    /\ throttled' = FALSE
    /\ UNCHANGED <<guest, ring, blocked, engine, lost, kvm, counts>>

----------------------------------------------------------------------------
(* Requests of the API, which the VMM thread serves between two events.    *)

\* update_disk_image: a new engine replaces the old one.  Its completion_evt is
\* a new eventfd, and nothing registers it.  The guest does not use the device
\* meanwhile (docs/api_requests/patch-block.md).
UpdateDiskImage ==
    /\ pc = "idle" /\ updates < MaxUpdates
    /\ free = Heads
    /\ updates' = updates + 1
    /\ sq' = <<>> /\ kernel' = {} /\ cq' = <<>> /\ ring_ops' = 0
    /\ lost' = lost \cup Elems(sq) \cup kernel \cup Elems(cq)
    /\ comp_evt' = FALSE /\ registered' = FALSE
    /\ UNCHANGED <<guest, ring, pc, throttled, blocked, kvm, saves, errors>>

Pause ==
    /\ pc = "idle" /\ running
    /\ running' = FALSE
    /\ UNCHANGED <<guest, ring, pc, throttled, blocked, engine, lost, irq,
                   saved_irq, counts>>

\* save_state has saved the vCPUs and the interrupt controllers by the time it
\* gets to prepare_save: io_uring_enter waits for everything, then every
\* completion is popped and announced.  The kernel has signalled completion_evt.
PrepareSave ==
    /\ pc = "idle" /\ ~running /\ saves < MaxSaves
    /\ saves' = saves + 1
    /\ used' = used \cup Elems(sq) \cup kernel \cup Elems(cq)
    /\ sq' = <<>> /\ kernel' = {} /\ cq' = <<>> /\ ring_ops' = 0
    /\ comp_evt' = (comp_evt \/ sq # <<>> \/ kernel # {})
    /\ saved_irq' = irq /\ irq' = Announce(ring_ops > 0)
    /\ pc' = "saved"
    /\ UNCHANGED <<guest, avail, armed, queue_evt, throttled, blocked,
                   registered, lost, running, updates, errors>>

\* The drain fails and is logged: only what had completed is popped.
PrepareSaveFails ==
    /\ pc = "idle" /\ ~running /\ saves < MaxSaves
    /\ Engine = "Async" /\ errors < MaxErrors
    /\ saves' = saves + 1 /\ errors' = errors + 1
    /\ used' = used \cup Elems(cq)
    /\ cq' = <<>> /\ ring_ops' = ring_ops - Len(cq)
    /\ saved_irq' = irq /\ irq' = Announce(cq # <<>>)
    /\ pc' = "saved"
    /\ UNCHANGED <<guest, avail, armed, queue_evt, throttled, blocked, sq,
                   kernel, comp_evt, registered, lost, running, updates>>

\* create_snapshot returns and the VM stays paused.
SnapshotWritten ==
    /\ pc = "saved"
    /\ pc' = "idle"
    /\ UNCHANGED <<guest, ring, throttled, blocked, engine, lost, kvm, counts>>

\* The snapshot is loaded in a new process, paused: the rings come back with
\* the guest memory; the events and the engine are new.
Restore ==
    /\ pc = "saved"
    /\ pc' = "idle"
    /\ irq' = saved_irq
    /\ queue_evt' = FALSE /\ throttled' = FALSE /\ blocked' = FALSE
    /\ lost' = lost \cup Elems(sq) \cup kernel \cup Elems(cq)
    /\ sq' = <<>> /\ kernel' = {} /\ cq' = <<>> /\ ring_ops' = 0
    /\ comp_evt' = FALSE /\ registered' = (Engine = "Async")
    /\ UNCHANGED <<guest, avail, used, armed, running, saved_irq, counts>>

\* resume_vm: kick_devices runs process_queue, whatever blocks it, before the
\* vCPUs go on.
Resume ==
    /\ pc = "idle" /\ ~running
    /\ running' = TRUE
    /\ pc' = "loop"
    /\ UNCHANGED <<guest, ring, throttled, blocked, engine, lost, irq,
                   saved_irq, counts>>

Device ==
    \/ ProcessQueueEvent \/ ProcessRateLimiterEvent
    \/ PopNone \/ RateLimited \/ Executed \/ Submitted \/ Throttled
    \/ KickSubmissionQueue \/ KickFails
    \/ CompletionEvent \/ PopCompletion \/ CompletionsDone
    \/ UpdateDiskImage \/ Pause \/ PrepareSave \/ PrepareSaveFails
    \/ SnapshotWritten \/ Restore \/ Resume

----------------------------------------------------------------------------
(* The host kernel and the guest driver (external).                        *)

KernelCompletes ==
    /\ \E h \in kernel : kernel' = kernel \ {h} /\ cq' = Append(cq, h)
    /\ comp_evt' = TRUE
    /\ UNCHANGED <<guest, ring, pc, throttled, blocked, sq, ring_ops,
                   registered, lost, kvm, counts>>

DriverAdd ==
    /\ running
    /\ \E h \in free : free' = free \ {h} /\ avail' = Append(avail, h)
    /\ queue_evt' = (queue_evt \/ armed)
    /\ armed' = FALSE
    /\ UNCHANGED <<kind, used, pc, throttled, blocked, engine, lost, kvm, counts>>

\* The interrupt handler takes used heads until it finds none.
DriverReclaim ==
    /\ running /\ irq
    /\ \E h \in used : used' = used \ {h} /\ free' = free \cup {h}
    /\ irq' = (used' # {})
    /\ UNCHANGED <<kind, avail, armed, queue_evt, pc, throttled, blocked, engine,
                   lost, running, saved_irq, counts>>

Next == Device \/ KernelCompletes \/ DriverAdd \/ DriverReclaim

Spec == Init /\ [][Next]_vars

\* One round of the event loop serves every ready descriptor, whatever requests
\* come in between, and a guest that is paused and resumed again and again
\* reclaims nevertheless (strong fairness); handlers run to their end, the
\* kernel completes what it was given, a paused VM is resumed.  The limiter
\* refuses a request only until its bucket has refilled, whence the strong
\* fairness of a grant.
Fairness ==
    /\ SF_vars(ProcessQueueEvent) /\ SF_vars(ProcessRateLimiterEvent)
    /\ SF_vars(CompletionEvent)
    /\ WF_vars(PopNone \/ RateLimited \/ Executed \/ Submitted \/ Throttled)
    /\ SF_vars(Executed \/ Submitted \/ Throttled)
    /\ WF_vars(KickSubmissionQueue)
    /\ WF_vars(PopCompletion \/ CompletionsDone)
    /\ WF_vars(SnapshotWritten \/ Restore) /\ WF_vars(Resume)
    /\ WF_vars(KernelCompletes)
    /\ \A h \in Heads : SF_vars(DriverReclaim /\ h \in used /\ h \notin used')

FairSpec == Spec /\ Fairness

----------------------------------------------------------------------------
(* Properties.                                                             *)

Inflight == Elems(sq) \cup kernel \cup Elems(cq)

\* Every variable has its type.
TypeOK ==
    /\ free \subseteq Heads /\ used \subseteq Heads /\ kernel \subseteq Heads
    /\ lost \subseteq Heads
    /\ avail \in Seq(Heads) /\ sq \in Seq(Heads) /\ cq \in Seq(Heads)
    /\ kind \in [Heads -> Kinds]
    /\ pc \in {"idle", "loop", "submit", "complete", "saved"}
    /\ {armed, queue_evt, throttled, blocked, comp_evt, registered, running,
        irq, saved_irq}
           \subseteq BOOLEAN
    /\ ring_ops \in Nat

\* A head is with the driver, in a ring or in one place of the engine, and in
\* no two of them: whatever is undone, throttled, drained or replaced, no
\* request runs twice and none is dropped.
OneOwner ==
    /\ free \cup Elems(avail) \cup used \cup Inflight \cup lost = Heads
    /\ Cardinality(free) + Len(avail) + Cardinality(used) + Len(sq)
         + Cardinality(kernel) + Len(cq) + Cardinality(lost) = Cardinality(Heads)

\* ring_ops counts exactly the operations the ring still has to hand back, so
\* the completion queue cannot overflow and saturating_sub never saturates.
NumOpsExact ==
    /\ ring_ops = Len(sq) + Cardinality(kernel) + Len(cq)
    /\ ring_ops <= CqSize /\ Len(sq) <= SqSize

\* A snapshot or an update of the idle disk drops no request, unless the drain
\* of the ring failed.
NothingLost == errors = 0 => lost = {}

\* The event loop knows the engine it has to wait for: not so after an update of
\* the disk image, see Answered.
Wakeable == Engine = "Async" => registered

\* A device waiting in the event loop with no event on its way has no work left:
\* every event consumed without processing (blocked, throttled) is made up for
\* by a later one.
NoStrandedWork ==
    (/\ pc = "idle" /\ running /\ Wakeable /\ errors = 0
     /\ ~queue_evt /\ ~blocked /\ ~comp_evt /\ kernel = {})
        => avail = <<>> /\ sq = <<>> /\ cq = <<>>

\* A throttled device waits for a completion that will be announced.
ThrottledIsWoken ==
    throttled /\ pc = "idle" /\ Wakeable /\ errors = 0 => kernel # {} \/ comp_evt

\* A head in the used ring has an interrupt that tells the driver so.
UsedIsAnnounced == used # {} => irq

\* Every request the driver offers is answered.
Answered == \A h \in Heads : h \in Elems(avail) ~> h \in free
=============================================================================
