--------------------------- MODULE MmioTransport ---------------------------
(***************************************************************************)
(* The virtio MMIO transport of one device (devices/src/virtio/mmio.rs) and *)
(* the shared pieces of a device it drives: feature acknowledgement,        *)
(* activation and the interrupt trigger (virtio/device.rs).                 *)
(*                                                                          *)
(* vCPU threads write the registers, one at a time under the lock of the    *)
(* transport.  The device raises interrupts from the event loop without     *)
(* that lock: IrqTrigger sets a bit of the shared interrupt status and then *)
(* writes the irqfd, so the guest's read and acknowledgement of the status  *)
(* fall between its two steps.                                              *)
(***************************************************************************)
EXTENDS Naturals, Sequences

CONSTANTS
  NumQueues, MaxSize,   \* the queues of the device and their maximal size
  Sizes, Words,         \* the queue sizes and the 32-bit address halves a driver writes
  Features              \* features_of_page[p] is the set of feature bits of page p

ASSUME MmioAssumption == MaxSize \in Nat /\ Sizes \subseteq Nat

Pages == {0, 1}
INIT == {}
ACKNOWLEDGE == "ACKNOWLEDGE"
DRIVER == "DRIVER"
FEATURES_OK == "FEATURES_OK"
DRIVER_OK == "DRIVER_OK"
FAILED == "FAILED"
StatusBits == {ACKNOWLEDGE, DRIVER, FEATURES_OK, DRIVER_OK, FAILED}
Irqs == {"VRING", "CONFIG"}

\* Each page has a bit the device offers and one it does not.
Bits(page) == Features[page]
Offered(page) == {b \in Bits(page) : b[2] = "offered"}
avail_features == UNION {Offered(p) : p \in Pages}

VARIABLES
  device_status, acked_features_select, queue_select,
  acked_features, queues, activated,   \* the device behind the transport
  interrupt_status, irq_evt,           \* shared with the event loop; the irqfd
  raising,                             \* what trigger_irq still has to do
  handler,                             \* the guest's interrupt handler
  unseen,                              \* history: set in the status, not yet served by a handler
  avail_len,                           \* in guest memory: how far avail_idx is ahead of next_avail
  overran                              \* history: a driver made more available than its queue holds
tvars == <<device_status, acked_features_select, queue_select, acked_features,
           queues, activated, interrupt_status, irq_evt, raising, handler, unseen,
           avail_len, overran>>
registers == <<device_status, acked_features_select, queue_select>>
device == <<acked_features, queues, activated>>
rings == <<avail_len, overran>>
interrupts == <<interrupt_status, irq_evt, raising, handler, unseen, rings>>

-----------------------------------------------------------------------------
(* Queues.                                                                 *)

Addr == [hi : Words, lo : Words]
NewQueue == [size |-> 0, ready |-> FALSE, ring |-> [hi |-> 0, lo |-> 0]]

\* A half of an address is replaced, the other one stays.
lo(addr, x) == [addr EXCEPT !.lo = x]
hi(addr, x) == [addr EXCEPT !.hi = x]

\* Guest memory lies below 4 GiB and an odd address is misaligned.
ring_ok(addr) == addr.hi = 0 /\ addr.lo % 2 = 0
is_power_of_two(n) == n \in {1, 2, 4, 8}
len(i) == avail_len[i]
\* The registers are checked first, and then the index in guest memory.
registers_ok(q) == q.ready /\ q.size <= MaxSize /\ is_power_of_two(q.size) /\ ring_ok(q.ring)
is_valid(i) == registers_ok(queues[i]) /\ len(i) <= MaxSize
are_queues_valid == \A i \in DOMAIN queues : is_valid(i)

\* The driver writes avail_idx in guest memory, whenever it has given the queue
\* a ring; one entry beyond the maximal size is enough to be refused.
DriverPublishes ==
    /\ \E i \in DOMAIN queues :
         /\ queues[i].ready /\ len(i) <= MaxSize
         /\ avail_len' = [avail_len EXCEPT ![i] = @ + 1]
         /\ overran' = (overran \/ (activated /\ len(i) >= queues[i].size))
    /\ UNCHANGED <<registers, device, interrupt_status, irq_evt, raising, handler, unseen>>

\* The device pops a chain.  With more chains than the queue holds pop panics,
\* and pop_or_enable_notification does not.
DevicePops ==
    /\ activated
    /\ \E i \in DOMAIN queues :
         len(i) > 0 /\ avail_len' = [avail_len EXCEPT ![i] = @ - 1]
    /\ UNCHANGED <<registers, device, interrupt_status, irq_evt, raising, handler, unseen, overran>>

-----------------------------------------------------------------------------
(* Register writes of the guest.                                           *)

check_device_status(set, clr) == device_status \cap (set \cup clr) = set

\* Mutant: a driver that is up can still change its queues.
queues_open_late == check_device_status({FEATURES_OK}, {FAILED})
queues_open == check_device_status({FEATURES_OK}, {DRIVER_OK, FAILED})

update_queue_field ==
    /\ queues_open
    /\ queue_select \in DOMAIN queues
    /\ \/ \E v \in Sizes : queues' = [queues EXCEPT ![queue_select].size = v]
       \/ \E v \in BOOLEAN : queues' = [queues EXCEPT ![queue_select].ready = v]
       \/ \E x \in Words : queues' = [queues EXCEPT ![queue_select].ring = lo(@, x)]
       \/ \E x \in Words : queues' = [queues EXCEPT ![queue_select].ring = hi(@, x)]
    /\ UNCHANGED <<registers, acked_features, activated, interrupts>>

SelectQueue ==
    /\ queue_select' \in 0..NumQueues
    /\ UNCHANGED <<device_status, acked_features_select, device, interrupts>>

SelectAckedFeatures ==
    /\ acked_features_select' \in Pages \cup {2}
    /\ UNCHANGED <<device_status, queue_select, device, interrupts>>

features_open == check_device_status({DRIVER}, {FEATURES_OK, FAILED})

acknowledged(v) == v \cap avail_features

\* Bits of an unknown page count as none, bits that are not offered are dropped.
ack_features_by_page ==
    /\ features_open
    /\ \E v \in SUBSET (IF acked_features_select \in Pages THEN Bits(acked_features_select) ELSE {}) :
         acked_features' = acked_features \cup acknowledged(v)
    /\ UNCHANGED <<registers, queues, activated, interrupts>>

-----------------------------------------------------------------------------
(* The status register.                                                    *)

\* next_avail is 0 before as well: only an active device moves it.
reset ==
    /\ device_status' = INIT /\ acked_features_select' = 0 /\ queue_select' = 0
    /\ interrupt_status' = {}
    /\ queues' = [i \in DOMAIN queues |-> NewQueue]

\* The new bits decide; the value written is stored as it is, so that bits
\* set before may be gone.
Advances(status, bit, before) == status \ device_status = {bit} /\ device_status = before

SetStatus(status) ==
    /\ \/ Advances(status, ACKNOWLEDGE, INIT)
       \/ Advances(status, DRIVER, {ACKNOWLEDGE})
       \/ Advances(status, FEATURES_OK, {ACKNOWLEDGE, DRIVER})
    /\ device_status' = status
    /\ UNCHANGED <<acked_features_select, queue_select, device, interrupts>>

activates == ~activated /\ are_queues_valid

\* A device whose queues are not valid is left inactive, with DRIVER_OK set.
SetDriverOk(status) ==
    /\ Advances(status, DRIVER_OK, {ACKNOWLEDGE, DRIVER, FEATURES_OK})
    /\ device_status' = status
    /\ activated' = (activated \/ activates)
    /\ UNCHANGED <<acked_features_select, queue_select, acked_features, queues, interrupts>>

Accepted(status) ==
    \/ Advances(status, ACKNOWLEDGE, INIT)
    \/ Advances(status, DRIVER, {ACKNOWLEDGE})
    \/ Advances(status, FEATURES_OK, {ACKNOWLEDGE, DRIVER})
    \/ Advances(status, DRIVER_OK, {ACKNOWLEDGE, DRIVER, FEATURES_OK})

SetFailed(status) ==
    /\ ~Accepted(status) /\ FAILED \in status
    /\ device_status' = device_status \cup {FAILED}
    /\ UNCHANGED <<acked_features_select, queue_select, device, interrupts>>

\* No device of Firecracker implements reset: an active one is marked FAILED.
reset_result == IF activated THEN device_status \cup {FAILED} ELSE device_status

WriteZero ==
    IF FAILED \notin reset_result
    THEN reset /\ UNCHANGED <<acked_features, activated, irq_evt, raising, handler, unseen, rings>>
    ELSE /\ device_status' = reset_result
         /\ UNCHANGED <<acked_features_select, queue_select, device, interrupts>>

set_device_status ==
    \/ \E status \in SUBSET StatusBits : SetStatus(status) \/ SetDriverOk(status) \/ SetFailed(status)
    \/ WriteZero

-----------------------------------------------------------------------------
(* Interrupts.                                                             *)

Idle == [at |-> "idle", ack |-> {}]

\* Mutant: the irqfd is written before the status says why.
evt_before_status(irq) == <<[op |-> "evt"], [op |-> "status", irq |-> irq]>>
trigger_irq(irq) == <<[op |-> "status", irq |-> irq], [op |-> "evt"]>>

\* The device has used a descriptor or changed its configuration.
Raise ==
    /\ activated /\ raising = << >>
    /\ \E irq \in Irqs : raising' = trigger_irq(irq)
    /\ UNCHANGED <<registers, device, interrupt_status, irq_evt, handler, unseen, rings>>

RaiseStep ==
    /\ raising # << >>
    /\ LET step == raising[1]
       IN IF step.op = "status"
          THEN /\ interrupt_status' = interrupt_status \cup {step.irq}
               /\ unseen' = unseen \cup {step.irq} /\ UNCHANGED irq_evt
          ELSE irq_evt' = TRUE /\ UNCHANGED <<interrupt_status, unseen>>
    /\ raising' = Tail(raising)
    /\ UNCHANGED <<registers, device, handler, rings>>

\* KVM takes the event and interrupts a vCPU, whose handler reads the status ...
Deliver ==
    /\ irq_evt /\ handler.at = "idle"
    /\ irq_evt' = FALSE /\ handler' = [handler EXCEPT !.at = "entered"]
    /\ UNCHANGED <<registers, device, interrupt_status, raising, unseen, rings>>

ReadInterruptStatus ==
    /\ handler.at = "entered"
    /\ handler' = [at |-> "read", ack |-> interrupt_status]
    /\ UNCHANGED <<registers, device, interrupt_status, irq_evt, raising, unseen, rings>>

fetch_and_not(status, v) == status \ v

\* ... acknowledges what it read, and then looks at the rings or the
\* configuration.
AckInterrupt ==
    /\ handler.at = "read"
    /\ handler' = Idle
    /\ interrupt_status' = IF check_device_status({DRIVER_OK}, {})
                           THEN fetch_and_not(interrupt_status, handler.ack) ELSE interrupt_status
    /\ unseen' = unseen \ handler.ack
    /\ UNCHANGED <<registers, device, irq_evt, raising, rings>>

-----------------------------------------------------------------------------
MmioInit ==
    /\ device_status = INIT /\ acked_features_select = 0 /\ queue_select = 0
    /\ acked_features = {} /\ queues = [i \in 0..NumQueues - 1 |-> NewQueue] /\ activated = FALSE
    /\ interrupt_status = {} /\ irq_evt = FALSE /\ raising = << >> /\ handler = Idle /\ unseen = {}
    /\ avail_len = [i \in 0..NumQueues - 1 |-> 0] /\ overran = FALSE

MmioNext ==
    \/ update_queue_field \/ SelectQueue \/ SelectAckedFeatures \/ ack_features_by_page
    \/ set_device_status
    \/ DriverPublishes \/ DevicePops
    \/ Raise \/ RaiseStep \/ Deliver \/ ReadInterruptStatus \/ AckInterrupt

MmioSpec == MmioInit /\ [][MmioNext]_tvars

-----------------------------------------------------------------------------
(* The sanity check a restored device makes on its saved state.            *)

build_queues_checked ==
    /\ acked_features \subseteq avail_features
    /\ \A i \in DOMAIN queues : queues[i].size <= MaxSize /\ (activated => is_valid(i))

(* Properties.                                                             *)

\* Types of the registers, queues and status of the transport.
MmioTypeOK ==
    /\ device_status \subseteq StatusBits /\ interrupt_status \subseteq Irqs
    /\ acked_features_select \in Pages \cup {2} /\ queue_select \in 0..NumQueues
    /\ \A i \in DOMAIN queues : queues[i] \in [size : Sizes \cup {0}, ready : BOOLEAN, ring : Addr]
    /\ activated \in BOOLEAN /\ irq_evt \in BOOLEAN
    /\ handler.at \in {"idle", "entered", "read"} /\ unseen \subseteq Irqs
    /\ avail_len \in [DOMAIN queues -> 0..MaxSize + 1] /\ overran \in BOOLEAN

\* "Snapshot can happen at any time, including during device
\* configuration/activation": build_queues_checked accepts what was saved, the
\* rings in guest memory included, unless the driver wrote a queue size beyond
\* the maximum to a device it never started, or made more chains available on an
\* active queue than the queue holds.  The queues of an active device stay valid
\* whatever the guest writes to its registers later.
SnapshotRestorable ==
    ~overran /\ (activated \/ \A i \in DOMAIN queues : queues[i].size <= MaxSize)
        => build_queues_checked

\* No interrupt is lost between the two steps of trigger_irq and the guest's
\* read and acknowledgement: what no handler has served yet is held by one that
\* has read it, or is set with an event on its way or a handler about to read.
NoLostInterrupt ==
    \A irq \in unseen :
      \/ handler.at = "read" /\ irq \in handler.ack
      \/ /\ irq \in interrupt_status
         /\ irq_evt \/ handler.at = "entered" \/ (\E i \in DOMAIN raising : raising[i].op = "evt")
=============================================================================
