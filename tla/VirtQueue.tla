----------------------------- MODULE VirtQueue -----------------------------
(***************************************************************************)
(* A split virtqueue shared by a Firecracker device                        *)
(* (devices/src/virtio/queue.rs) and a conforming guest driver.            *)
(*                                                                         *)
(* The device runs in the VMM thread, the driver in a vCPU thread: they    *)
(* share the two rings, the two ring indices and the two event indices,    *)
(* and wake each other through an eventfd (`kick`) and an interrupt        *)
(* (`irq`).  An action touches shared memory once.  The device's stores of *)
(* the used index and of avail_event pass through a FIFO store buffer, so  *)
(* the fences of queue.rs are modelled by what they do: wait until the     *)
(* buffer is empty.                                                        *)
(*                                                                         *)
(* The driver is code outside the repository.  It follows the virtio 1.1   *)
(* split-ring protocol: publish, then test avail_event; drain, then set    *)
(* used_event, then look again.                                            *)
(***************************************************************************)
EXTENDS Integers, FiniteSets, Sequences

CONSTANTS
    QueueSize,   \* Queue::actual_size(), a power of two
    IdxMod,      \* the indices are Wrapping<u16>: 2^16 in the code
    EventIdx,    \* VIRTIO_F_RING_EVENT_IDX was negotiated
    MaxBatch,    \* most add_used calls a device makes before one prepare_kick
    Malformed    \* heads whose descriptor DescriptorChain::checked_new rejects

\* What Queue::is_valid guarantees at activation: a non-empty ring whose slots
\* divide the index space.  A device that never calls prepare_kick for a whole
\* turn of the index would see num_added wrap to 0.
ASSUME QueueAssumption ==
    /\ QueueSize \in Nat \ {0}
    /\ IdxMod \in Nat
    /\ IdxMod > QueueSize
    /\ \E k \in 1..IdxMod : IdxMod = k * QueueSize
    /\ EventIdx \in BOOLEAN
    /\ MaxBatch \in 1..(IdxMod - 1)

Heads == 0..(QueueSize - 1)

ASSUME MalformedAssumption == Malformed \subseteq Heads

VARIABLES
    next_avail, next_used, num_added,  \* the device's Queue fields
    dpc,          \* where the device's thread stands in its handler
    inflight,     \* heads popped and not yet given back
    cur,          \* the head popped last, while dpc = "held"
    signal,       \* add_used was called and prepare_kick was not, yet
    resume,       \* a timer or completion event will re-run the handler
    aev_buffer,   \* the store of avail_event not yet visible, or NoStore
    avail_idx, avail_ring, used_event,   \* shared, written by the driver
    used_idx, used_ring, avail_event,    \* shared, written by the device
    kick,         \* the queue eventfd is readable
    irq,          \* an interrupt is pending in the guest
    free,         \* heads the driver owns
    last_used,    \* first used entry the driver has not reclaimed
    kicked_idx,   \* avail_idx when the driver last decided whether to kick
    ipc           \* where the driver's interrupt handler stands

devVars == <<next_avail, next_used, num_added, dpc, inflight, cur, signal,
             resume, aev_buffer>>
drvVars == <<free, last_used, kicked_idx, ipc>>
availMem == <<avail_idx, avail_ring, used_event>>
usedMem == <<used_idx, used_ring, avail_event>>
vars == <<devVars, drvVars, availMem, usedMem, kick, irq>>

Idx == 0..(IdxMod - 1)
NoHead == -1
NoStore == -1

----------------------------------------------------------------------------
(* Wrapping<u16> arithmetic and ring positions.                            *)

WInc(a) == IF a = IdxMod - 1 THEN 0 ELSE a + 1
WDec(a) == IF a = 0 THEN IdxMod - 1 ELSE a - 1
WSub(a, b) == IF a >= b THEN a - b ELSE a - b + IdxMod
WAdd(a, n) == IF a + n >= IdxMod THEN a + n - IdxMod ELSE a + n
Slot(i) == i % QueueSize

\* `new - event - Wrapping(1) < new - old`, the test of prepare_kick and of
\* the driver's vring_need_event.
NeedEvent(event, new, old) == WDec(WSub(new, event)) < WSub(new, old)

len == WSub(avail_idx, next_avail)
NextHead == avail_ring[Slot(next_avail)]

Init ==
    /\ next_avail = 0 /\ next_used = 0 /\ num_added = 0
    /\ dpc = "idle" /\ inflight = {} /\ cur = NoHead
    /\ signal = FALSE /\ resume = FALSE /\ aev_buffer = NoStore
    /\ avail_idx = 0 /\ avail_ring = [s \in Heads |-> 0] /\ used_event = 0
    /\ used_idx = 0 /\ used_ring = [s \in Heads |-> 0] /\ avail_event = 0
    /\ kick = FALSE /\ irq = FALSE
    /\ free = Heads /\ last_used = 0 /\ kicked_idx = 0 /\ ipc = "idle"

----------------------------------------------------------------------------
(* The device.                                                             *)

\* The handler's loop calls pop_or_enable_notification on the queue event,
\* unless a rate limiter or a full engine has it waiting for `resume`.
QueueEvent ==
    /\ dpc = "idle" /\ kick
    /\ kick' = FALSE
    /\ dpc' = IF resume THEN "idle" ELSE "pop"
    /\ UNCHANGED <<next_avail, next_used, num_added, inflight, cur, signal,
                   resume, aev_buffer, drvVars, availMem, usedMem, irq>>

\* The timer or the completion that an undone pop is waiting for.
ResumeEvent ==
    /\ dpc \in {"idle", "exit"} /\ resume
    /\ resume' = FALSE
    /\ dpc' = "pop"
    /\ UNCHANGED <<next_avail, next_used, num_added, inflight, cur, signal,
                   aev_buffer, drvVars, availMem, usedMem, kick, irq>>

\* An asynchronous engine reports completions.
CompletionEvent ==
    /\ dpc = "idle" /\ inflight # {}
    /\ dpc' = "exit"
    /\ UNCHANGED <<next_avail, next_used, num_added, inflight, cur, signal,
                   resume, aev_buffer, drvVars, availMem, usedMem, kick, irq>>

\* pop and try_enable_notification read avail_idx.  With nothing to pop, and
\* notification suppression on, avail_event is stored before looking again.
PopCheckLen ==
    /\ dpc = "pop"
    /\ dpc' = CASE len > QueueSize -> "panic"
                [] len = 0 -> IF EventIdx THEN "recheck" ELSE "exit"
                [] OTHER -> "take"
    /\ aev_buffer' = IF len = 0 /\ EventIdx THEN next_avail ELSE aev_buffer
    /\ UNCHANGED <<next_avail, next_used, num_added, inflight, cur, signal,
                   resume, drvVars, availMem, usedMem, kick, irq>>

\* fence(SeqCst): the stores made so far are visible.
Fence == aev_buffer = NoStore /\ used_idx = next_used

RecheckAvailNoFence ==
    /\ dpc = "recheck"
    /\ dpc' = IF next_avail = avail_idx THEN "exit" ELSE "take"
    /\ UNCHANGED <<next_avail, next_used, num_added, inflight, cur, signal,
                   resume, aev_buffer, drvVars, availMem, usedMem, kick, irq>>

\* The second half of try_enable_notification.
RecheckAvail ==
    /\ dpc = "recheck"
    /\ Fence
    /\ dpc' = IF next_avail = avail_idx THEN "exit" ELSE "take"
    /\ UNCHANGED <<next_avail, next_used, num_added, inflight, cur, signal,
                   resume, aev_buffer, drvVars, availMem, usedMem, kick, irq>>

\* do_pop_unchecked: a malformed descriptor is left in the ring and ends the
\* loop as an empty ring does.
DoPopUnchecked ==
    /\ dpc = "take"
    /\ IF NextHead \in Malformed
       THEN dpc' = "exit" /\ UNCHANGED <<next_avail, inflight, cur>>
       ELSE /\ dpc' = "held"
            /\ cur' = NextHead
            /\ inflight' = inflight \cup {NextHead}
            /\ next_avail' = WInc(next_avail)
    /\ UNCHANGED <<next_used, num_added, signal, resume, aev_buffer, drvVars,
                   availMem, usedMem, kick, irq>>

\* The caller could not consume the chain (rate limited, engine full): it is
\* put back and the handler returns until the resume event.
UndoPop ==
    /\ dpc = "held"
    /\ next_avail' = WDec(next_avail)
    /\ inflight' = inflight \ {cur}
    /\ cur' = NoHead
    /\ resume' = TRUE
    /\ dpc' = "exit"
    /\ UNCHANGED <<next_used, num_added, signal, aev_buffer, drvVars,
                   availMem, usedMem, kick, irq>>

\* The chain was handed to an asynchronous engine.
Submit ==
    /\ dpc = "held"
    /\ cur' = NoHead
    /\ dpc' = "pop"
    /\ UNCHANGED <<next_avail, next_used, num_added, inflight, signal, resume,
                   aev_buffer, drvVars, availMem, usedMem, kick, irq>>

AddUsedIndexFirst(h) ==
    /\ EventIdx => num_added < MaxBatch
    /\ used_ring' = [used_ring EXCEPT ![Slot(WInc(next_used))] = h]
    /\ num_added' = WInc(num_added)
    /\ next_used' = WInc(next_used)
    /\ inflight' = inflight \ {h}
    /\ signal' = TRUE
    /\ UNCHANGED <<next_avail, resume, aev_buffer, drvVars, availMem,
                   used_idx, avail_event, kick, irq>>

\* add_used: the element is written before the index is (fence(Release) and
\* the FIFO buffer), and the index is still in the buffer when it returns.
AddUsed(h) ==
    /\ EventIdx => num_added < MaxBatch
    /\ used_ring' = [used_ring EXCEPT ![Slot(next_used)] = h]
    /\ num_added' = WInc(num_added)
    /\ next_used' = WInc(next_used)
    /\ inflight' = inflight \ {h}
    /\ signal' = TRUE
    /\ UNCHANGED <<next_avail, resume, aev_buffer, drvVars, availMem,
                   used_idx, avail_event, kick, irq>>

Execute ==
    /\ dpc = "held"
    /\ AddUsed(cur)
    /\ cur' = NoHead
    /\ dpc' = "pop"

Complete ==
    /\ dpc = "exit"
    /\ \E h \in inflight : AddUsed(h)
    /\ UNCHANGED <<cur, dpc>>

PrepareKickResetsFirst ==
    /\ dpc \in {"pop", "exit"} /\ signal
    /\ Fence
    /\ signal' = FALSE
    /\ IF EventIdx
       THEN /\ num_added' = 0
            /\ irq' = (irq \/ NeedEvent(used_event, next_used, next_used))
       ELSE irq' = TRUE /\ UNCHANGED num_added
    /\ UNCHANGED <<next_avail, next_used, dpc, inflight, cur, resume,
                   aev_buffer, drvVars, availMem, usedMem, kick>>

\* prepare_kick and, when it says so, IrqTrigger::trigger_irq.  Devices call
\* it after each add_used or once per batch, and never leave without it.  Both
\* the fence of prepare_kick and the fetch_or of trigger_irq are SeqCst.
PrepareKick ==
    /\ dpc \in {"pop", "exit"} /\ signal
    /\ Fence
    /\ signal' = FALSE
    /\ IF EventIdx
       THEN /\ num_added' = 0
            /\ irq' = (irq \/ NeedEvent(used_event, next_used,
                                        WSub(next_used, num_added)))
       ELSE irq' = TRUE /\ UNCHANGED num_added
    /\ UNCHANGED <<next_avail, next_used, dpc, inflight, cur, resume,
                   aev_buffer, drvVars, availMem, usedMem, kick>>

\* The handler returns to the event loop.
Return ==
    /\ dpc = "exit" /\ ~signal
    /\ dpc' = "idle"
    /\ UNCHANGED <<next_avail, next_used, num_added, inflight, cur, signal,
                   resume, aev_buffer, drvVars, availMem, usedMem, kick, irq>>

\* The store buffer drains one store at a time, in the order of the stores:
\* avail_event is only ever stored after the used indices before it.
DrainUsedIdx ==
    /\ used_idx # next_used
    /\ used_idx' = WInc(used_idx)
    /\ UNCHANGED <<devVars, drvVars, availMem, used_ring, avail_event, kick,
                   irq>>

DrainAvailEvent ==
    /\ aev_buffer # NoStore /\ used_idx = next_used
    /\ avail_event' = aev_buffer
    /\ aev_buffer' = NoStore
    /\ UNCHANGED <<next_avail, next_used, num_added, dpc, inflight, cur, signal,
                   resume, drvVars, availMem, used_idx, used_ring, kick, irq>>

Device ==
    \/ QueueEvent \/ ResumeEvent \/ CompletionEvent
    \/ PopCheckLen \/ RecheckAvail \/ DoPopUnchecked
    \/ UndoPop \/ Submit \/ Execute \/ Complete \/ PrepareKick \/ Return
    \/ DrainUsedIdx \/ DrainAvailEvent

----------------------------------------------------------------------------
(* The driver (external).                                                  *)

\* A buffer is exposed: its head is written to the ring, then the index is.
\* Like Linux, the driver tests for a kick before the index turns around.
DriverAdd ==
    /\ WSub(avail_idx, kicked_idx) < IdxMod - 1
    /\ \E h \in free :
         /\ free' = free \ {h}
         /\ avail_ring' = [avail_ring EXCEPT ![Slot(avail_idx)] = h]
    /\ avail_idx' = WInc(avail_idx)
    /\ UNCHANGED <<devVars, last_used, kicked_idx, ipc, used_event, usedMem,
                   kick, irq>>

DriverKick ==
    /\ kicked_idx # avail_idx
    /\ kick' = (kick \/ ~EventIdx
                     \/ NeedEvent(avail_event, avail_idx, kicked_idx))
    /\ kicked_idx' = avail_idx
    /\ UNCHANGED <<devVars, free, last_used, ipc, availMem, usedMem, irq>>

DriverIrq ==
    /\ ipc = "idle" /\ irq
    /\ irq' = FALSE
    /\ ipc' = "drain"
    /\ UNCHANGED <<devVars, free, last_used, kicked_idx, availMem, usedMem,
                   kick>>

DriverReclaim ==
    /\ ipc = "drain" /\ last_used # used_idx
    /\ free' = free \cup {used_ring[Slot(last_used)]}
    /\ last_used' = WInc(last_used)
    /\ UNCHANGED <<devVars, kicked_idx, ipc, availMem, usedMem, kick, irq>>

DriverEnableIrq ==
    /\ ipc = "drain" /\ last_used = used_idx
    /\ used_event' = last_used
    /\ ipc' = "recheck"
    /\ UNCHANGED <<devVars, free, last_used, kicked_idx, avail_idx, avail_ring,
                   usedMem, kick, irq>>

DriverRecheck ==
    /\ ipc = "recheck"
    /\ ipc' = IF last_used = used_idx THEN "idle" ELSE "drain"
    /\ UNCHANGED <<devVars, free, last_used, kicked_idx, availMem, usedMem,
                   kick, irq>>

Driver ==
    \/ DriverAdd \/ DriverKick
    \/ DriverIrq \/ DriverReclaim \/ DriverEnableIrq \/ DriverRecheck

Next == Device \/ Driver

Spec == Init /\ [][Next]_vars

\* The VMM's event loop and the store buffer make progress; the vCPU runs, so
\* the driver finishes what it began.  The driver need not add buffers.  A
\* limiter or engine that turns a chain away accepts it some later time.
Fairness ==
    /\ WF_vars(QueueEvent \/ PopCheckLen \/ RecheckAvail \/ DoPopUnchecked)
    /\ WF_vars(ResumeEvent)
    /\ WF_vars(UndoPop \/ Submit \/ Execute)
    /\ SF_vars(Submit \/ Execute)
    /\ WF_vars(CompletionEvent)
    /\ SF_vars(Complete)
    /\ WF_vars(PrepareKick)
    /\ WF_vars(Return)
    /\ WF_vars(DrainUsedIdx) /\ WF_vars(DrainAvailEvent)
    /\ WF_vars(DriverKick)
    /\ WF_vars(DriverIrq \/ DriverReclaim \/ DriverEnableIrq \/ DriverRecheck)

FairSpec == Spec /\ Fairness

----------------------------------------------------------------------------
(* Properties.                                                             *)

\* Every variable has its type; in particular the indices stay u16.
TypeOK ==
    /\ next_avail \in Idx /\ next_used \in Idx /\ num_added \in Idx
    /\ dpc \in {"idle", "pop", "recheck", "take", "held", "exit", "panic"}
    /\ inflight \subseteq Heads
    /\ cur \in Heads \cup {NoHead}
    /\ signal \in BOOLEAN /\ resume \in BOOLEAN
    /\ aev_buffer \in Idx \cup {NoStore}
    /\ avail_idx \in Idx /\ used_event \in Idx
    /\ used_idx \in Idx /\ avail_event \in Idx
    /\ avail_ring \in [Heads -> Heads] /\ used_ring \in [Heads -> Heads]
    /\ kick \in BOOLEAN /\ irq \in BOOLEAN
    /\ free \subseteq Heads
    /\ last_used \in Idx /\ kicked_idx \in Idx
    /\ ipc \in {"idle", "drain", "recheck"}

\* The heads in the first n entries of a ring from index `start`.
RingHeads(ring, start, n) == {ring[Slot(WAdd(start, k))] : k \in 0..(n - 1)}

RingDistinct(ring, start, n) ==
    \A j, k \in 0..(n - 1) :
        ring[Slot(WAdd(start, j))] = ring[Slot(WAdd(start, k))] => j = k

AvailHeads == RingHeads(avail_ring, next_avail, len)
UsedHeads == RingHeads(used_ring, last_used, WSub(next_used, last_used))

\* The panic of pop and try_enable_notification ("greater than queue size") is
\* unreachable with a conforming driver, across undo_pop and index wrap-around.
NoPanic == len <= QueueSize /\ dpc # "panic"

\* Every head is in exactly one place: with the driver, in the avail ring, with
\* the device or in the used ring.  No buffer is handed out twice, overwritten
\* in a ring before its reader saw it, or lost.
OwnedOnce ==
    /\ free \cup AvailHeads \cup inflight \cup UsedHeads = Heads
    /\ free \cap AvailHeads = {} /\ free \cap inflight = {}
    /\ free \cap UsedHeads = {} /\ AvailHeads \cap inflight = {}
    /\ AvailHeads \cap UsedHeads = {} /\ inflight \cap UsedHeads = {}
    /\ RingDistinct(avail_ring, next_avail, len)
    /\ RingDistinct(used_ring, last_used, WSub(next_used, last_used))

\* A device asleep in its event loop with no event coming has nothing left to
\* pop, once the driver has made its decision to kick, except behind a
\* malformed head (pop_or_enable_notification never loses a notification).
NoLostKick ==
    dpc = "idle" /\ ~kick /\ ~resume /\ kicked_idx = avail_idx
        => len = 0 \/ NextHead \in Malformed

\* When the device is asleep, no interrupt is pending and the driver's handler
\* is not running, the driver has reclaimed every used buffer (prepare_kick
\* never suppresses an interrupt the driver waits for).
NoLostIrq ==
    dpc = "idle" /\ ~irq /\ ipc = "idle" => last_used = next_used

\* Once the driver stops adding buffers, it gets all of them back.  (While it
\* keeps adding, the loop of the handler need not end, and completions of an
\* asynchronous engine, which wait for the event loop, need not be seen.)
AllReturn == <>[][~DriverAdd]_vars => <>[](free = Heads)

----------------------------------------------------------------------------
(* The inductive invariant the proofs rest on.                             *)

Used == WSub(next_used, last_used)       \* used entries not yet reclaimed,
Visible == WSub(used_idx, last_used)     \* those the driver can see,
Buffered == WSub(next_used, used_idx)    \* those still in the store buffer
Unkicked == WSub(avail_idx, kicked_idx)  \* entries added since the kick test

\* The four owners' shares always add up to the ring: what bounds len.
CountInv ==
    Cardinality(free) + len + Cardinality(inflight) + Used = QueueSize

\* What the program counter of the handler implies: a pop that follows a check
\* finds an entry, and an entry that may be undone is still in its slot.
HandlerInv ==
    /\ dpc # "panic"
    /\ dpc = "take" => len > 0
    /\ dpc = "held" => cur \in inflight /\ avail_ring[Slot(WDec(next_avail))] = cur

\* Asleep without an event, the device is stuck at a malformed head or waits at
\* avail_event for entries the driver has yet to test.
KickInv ==
    /\ aev_buffer # NoStore => dpc = "recheck" /\ aev_buffer = next_avail
    /\ dpc = "recheck" => EventIdx /\ (aev_buffer = NoStore => avail_event = next_avail)
    /\ dpc \in {"exit", "idle"} /\ ~kick /\ ~resume =>
         \/ len > 0 /\ NextHead \in Malformed
         \/ len <= Unkicked /\ (EventIdx => avail_event = next_avail)

\* Entries the driver has not been told of were added since the last
\* prepare_kick, or the driver is about to look at them.
IrqInv ==
    /\ Visible + Buffered = Used
    /\ dpc = "idle" => ~signal
    /\ ipc # "drain" => used_event = last_used
    /\ EventIdx =>
         /\ num_added <= MaxBatch /\ Buffered <= num_added
         /\ ~signal => num_added = 0
         /\ ipc = "idle" /\ ~irq => Used <= num_added
         /\ ipc = "recheck" /\ ~irq => Used <= num_added \/ Visible > 0
    /\ ~EventIdx =>
         /\ Buffered > 0 => signal
         /\ ipc = "idle" /\ ~irq /\ ~signal => Used = 0
         /\ ipc = "recheck" /\ ~irq /\ ~signal => Used = 0 \/ Visible > 0

\* The conjunction that every step of the device and the driver preserves.
IInv == TypeOK /\ CountInv /\ OwnedOnce /\ HandlerInv /\ KickInv /\ IrqInv

-----------------------------------------------------------------------------
(* The virtqueue as an implementation of a pool of buffers: the refinement *)
(* mapping from the rings and indices to the FIFOs of BufferPool.  What is *)
(* held is the chain popped last, for as long as undo_pop may still put it *)
(* back.                                                                   *)

AvailSeq == [k \in 1..len |-> avail_ring[Slot(WAdd(next_avail, k - 1))]]
UsedSeq == [k \in 1..Used |-> used_ring[Slot(WAdd(last_used, k - 1))]]

Pool == INSTANCE BufferPool WITH
          Buffers <- Heads, NoBuffer <- NoHead, free <- free,
          offered <- AvailSeq, device <- inflight, held <- cur,
          used <- UsedSeq

\* Rings, wrapping indices, store buffer and notifications implement a pool of
\* buffers with two FIFOs: chains are popped in the order the driver offered
\* them, undo_pop puts a chain back in front, and the driver reclaims chains in
\* the order of the add_used calls.
ImplementsPool == Pool!PoolSpec
=============================================================================
