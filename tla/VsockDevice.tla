---------------------------- MODULE VsockDevice ----------------------------
(***************************************************************************)
(* The virtio-vsock device (devices/src/virtio/vsock/device.rs and          *)
(* event_handler.rs): its three queues, its backend as the queues see it,   *)
(* and what becomes of them when the microVM is snapshotted and restored    *)
(* (vsock/persist.rs, vmm/src/device_manager/persist.rs).  A queue is the   *)
(* counts that its indices are: the driver's avail and the device's used    *)
(* index in guest memory, and the device's own two.                         *)
(***************************************************************************)
EXTENDS Naturals, FiniteSets

CONSTANTS MaxPosts,   \* how many buffers the driver posts in each queue
          MaxPending, MaxSnapshots, MaxRestores

ASSUME VsockAssumption == MaxPending \in Nat

Queues == {"rx", "tx", "ev"}

VARIABLES
  ring,        \* guest memory: avail and used index of each queue
  dev,         \* the device: next_avail and next_used of each queue
  seen,        \* the driver: the used entries it has seen
  queue_evts,  \* eventfds with an event to read, the backend's among them
  pending_rx,  \* packets the backend holds for the guest
  stalled,     \* history: its RX queue ran dry the last time, with packets left elsewhere
  refusing,    \* the backend takes no packets (send_pkt fails)
  activated, registered, irq, running,
  image,       \* the last snapshot; image.taken tells whether there is one
  unreset,     \* history: the driver has not seen the reset of the last snapshot
  restored, lost, snapshots, restores
vdvars == <<ring, dev, seen, queue_evts, pending_rx, stalled, refusing, activated, registered, irq, running,
            image, unreset, restored, lost, snapshots, restores>>
history == <<image, unreset, restored, lost, snapshots, restores>>

Waiting(q) == ring[q].avail - dev[q].avail
\* pop and add_used of n buffers; the used index in memory is the device's own.
Consume(q, n, r, d) == [ring |-> [r EXCEPT ![q].used = d[q].used + n],
                        dev |-> [d EXCEPT ![q].avail = @ + n, ![q].used = @ + n]]

-----------------------------------------------------------------------------
(* The device's handlers.                                                  *)

\* process_tx hands sent packets to the backend, which answers some of them; it
\* stops early only when the backend refuses one.
TxOutcomes == {t \in [sent : 0..Waiting("tx"), replies : 0..MaxPending, refused : BOOLEAN] :
                 /\ t.replies <= t.sent /\ pending_rx + t.replies <= MaxPending
                 /\ t.refused <=> t.sent < Waiting("tx")
                 /\ refusing => t.sent = 0}
\* process_rx fills buffers until there are no more, or recv_pkt has no packet;
\* malformed buffers are used without one.  The muxer has none when nothing is
\* pending, and also when its RX queue is out of step with its connections and
\* ran dry on entries that had nothing to say: it looks at the connections again
\* only when it is called again.
RxOutcomes(avail, pending) ==
    {o \in [used : 0..avail, filled : 0..pending, ran_dry : BOOLEAN] :
       /\ o.filled <= o.used
       /\ o.ran_dry <=> o.used < avail /\ o.filled < pending}

\* Mutant: the answers to what was sent wait for the next event of the RX queue.
wants_rx_never(pending) == FALSE
wants_rx(pending) == pending > 0

raise_irq(sent, used) == sent > 0 \/ used > 0

\* process_rx if the backend has something for the guest (has_pending_rx).
ReceiveInto(r, d, pending, sent) ==
    \E o \in IF wants_rx(pending) THEN RxOutcomes(Waiting("rx"), pending) ELSE {[used |-> 0, filled |-> 0, ran_dry |-> FALSE]} :
      /\ ring' = Consume("rx", o.used, r, d).ring
      /\ dev' = Consume("rx", o.used, r, d).dev
      /\ pending_rx' = pending - o.filled /\ stalled' = o.ran_dry
      /\ irq' = (irq \/ raise_irq(sent, o.used))

Transmit(notified) ==
    \E t \in TxOutcomes :
      /\ pending_rx + t.replies + notified <= MaxPending
      /\ refusing' = (refusing \/ t.refused)
      /\ ReceiveInto(Consume("tx", t.sent, ring, dev).ring, Consume("tx", t.sent, ring, dev).dev,
                     pending_rx + t.replies + notified, t.sent)

Handles(e) == e \in queue_evts /\ activated /\ registered /\ queue_evts' = queue_evts \ {e}

handle_rxq_event ==
    /\ Handles("rx")
    /\ ReceiveInto(ring, dev, pending_rx, 0)
    /\ UNCHANGED <<seen, refusing, activated, registered, running, history>>

handle_txq_event ==
    /\ Handles("tx")
    /\ Transmit(0)
    /\ UNCHANGED <<seen, activated, registered, running, history>>

handle_evq_event ==
    /\ Handles("ev")
    /\ UNCHANGED <<ring, dev, seen, pending_rx, stalled, refusing, activated, registered, irq, running, history>>

Retransmit(notified) == Transmit(notified)

\* The backend has freed resources and may have packets.
notify_backend ==
    /\ Handles("backend")
    /\ \E n \in 0..MaxPending - pending_rx : Retransmit(n)
    /\ UNCHANGED <<seen, activated, registered, running, history>>

activate ==
    /\ ~activated /\ running /\ activated' = TRUE /\ queue_evts' = queue_evts \cup {"activate"}
    /\ UNCHANGED <<ring, dev, seen, pending_rx, stalled, refusing, registered, irq, running, history>>

handle_activate_event ==
    /\ activated /\ "activate" \in queue_evts /\ queue_evts' = queue_evts \ {"activate"} /\ registered' = TRUE
    /\ UNCHANGED <<ring, dev, seen, pending_rx, stalled, refusing, activated, irq, running, history>>

-----------------------------------------------------------------------------
(* Snapshot: pause, save, resume; or restore in a new process.             *)

pause_vm == running /\ running' = FALSE
            /\ UNCHANGED <<ring, dev, seen, queue_evts, pending_rx, stalled, refusing, activated, registered, irq, history>>
\* kick_devices does nothing for vsock.
resume_vm == ~running /\ running' = TRUE
             /\ UNCHANGED <<ring, dev, seen, queue_evts, pending_rx, stalled, refusing, activated, registered, irq, history>>

sends_reset == activated /\ Waiting("ev") > 0
ResetRing == IF sends_reset THEN Consume("ev", 1, ring, dev).ring ELSE ring
ResetDev == IF sends_reset THEN Consume("ev", 1, ring, dev).dev ELSE dev

\* save_state saves the interrupt controller, then the state of the device, and
\* only then sends the reset event; the memory is written last.
save ==
    /\ ~running /\ snapshots < MaxSnapshots
    /\ image' = [taken |-> TRUE, irq |-> irq, dev |-> dev, activated |-> activated, ring |-> ResetRing, seen |-> seen]
    /\ ring' = ResetRing /\ dev' = ResetDev /\ irq' = (irq \/ sends_reset)
    /\ unreset' = (activated /\ Waiting("ev") > 0) /\ snapshots' = snapshots + 1
    /\ UNCHANGED <<seen, queue_evts, pending_rx, stalled, refusing, activated, registered, running, restored, lost, restores>>

\* The backend is new and empty; the eventfds are new.
restore ==
    /\ image.taken /\ restores < MaxRestores
    /\ ring' = image.ring /\ dev' = image.dev /\ seen' = image.seen
    /\ activated' = image.activated /\ registered' = image.activated /\ irq' = image.irq /\ running' = FALSE
    /\ queue_evts' = {} /\ pending_rx' = 0 /\ stalled' = FALSE /\ refusing' = FALSE
    /\ unreset' = (image.ring["ev"].used > image.dev["ev"].used)
    /\ restored' = TRUE /\ lost' = (image.ring["tx"].avail > image.dev["tx"].avail)
    /\ restores' = restores + 1 /\ UNCHANGED <<image, snapshots>>

-----------------------------------------------------------------------------
(* The guest's driver and the host end of the backend.                     *)

DriverPosts(q) ==
    /\ running /\ activated /\ ring[q].avail < MaxPosts[q]
    /\ ring' = [ring EXCEPT ![q].avail = @ + 1] /\ queue_evts' = queue_evts \cup {q}
    /\ lost' = (lost /\ q # "tx")
    /\ UNCHANGED <<dev, seen, pending_rx, stalled, refusing, activated, registered, irq, running, image, unreset, restored, snapshots, restores>>

\* One interrupt serves all queues.  A new entry of the event queue is the reset.
DriverInterrupted ==
    /\ running /\ irq /\ irq' = FALSE
    /\ seen' = [q \in Queues |-> ring[q].used]
    /\ unreset' = (unreset /\ seen["ev"] = ring["ev"].used)
    /\ UNCHANGED <<ring, dev, queue_evts, pending_rx, stalled, refusing, activated, registered, running, image, restored, lost, snapshots, restores>>

BackendReady ==
    /\ "backend" \notin queue_evts /\ refusing' = FALSE /\ queue_evts' = queue_evts \cup {"backend"}
    /\ UNCHANGED <<ring, dev, seen, pending_rx, stalled, activated, registered, irq, running, history>>

VsockInit ==
    /\ ring = [q \in Queues |-> [avail |-> 0, used |-> 0]]
    /\ dev = [q \in Queues |-> [avail |-> 0, used |-> 0]] /\ seen = [q \in Queues |-> 0]
    /\ queue_evts = {} /\ pending_rx = 0 /\ stalled = FALSE /\ refusing = FALSE
    /\ activated = FALSE /\ registered = FALSE /\ irq = FALSE /\ running = TRUE
    /\ image = [taken |-> FALSE] /\ unreset = FALSE /\ restored = FALSE /\ lost = FALSE
    /\ snapshots = 0 /\ restores = 0

VsockNext ==
    \/ handle_rxq_event \/ handle_txq_event \/ handle_evq_event \/ notify_backend
    \/ activate \/ handle_activate_event
    \/ pause_vm \/ resume_vm \/ save \/ restore
    \/ \E q \in Queues : DriverPosts(q)
    \/ DriverInterrupted \/ BackendReady

VsockSpec == VsockInit /\ [][VsockNext]_vdvars

-----------------------------------------------------------------------------
(* Properties.                                                             *)

\* Types of the queues, the backend and the device's activation.
VsockTypeOK ==
    /\ \A q \in Queues : ring[q] \in [avail : 0..MaxPosts[q], used : 0..MaxPosts[q]]
                         /\ dev[q] \in [avail : 0..MaxPosts[q], used : 0..MaxPosts[q]]
    /\ queue_evts \subseteq Queues \cup {"backend", "activate"} /\ pending_rx \in 0..MaxPending

\* Packets for the guest never wait beside free RX buffers unless an event is
\* still to be handled that moves them: the driver's kick of the RX queue, or the
\* TX event in whose handling they were queued.  The exception are packets of a
\* backend whose RX queue, out of step, ran dry: no event is due for them, and
\* they are moved by the next one of any kind.
PacketsAreDelivered ==
    pending_rx > 0 /\ Waiting("rx") > 0 /\ ~stalled => {"rx", "tx", "backend"} \cap queue_evts # {}

\* Packets from the guest wait only for a backend that has refused one, or for an
\* event.  Those posted before a snapshot lose theirs in a restore.
TxIsServed == Waiting("tx") > 0 /\ ~refusing /\ ~lost => {"tx", "backend"} \cap queue_evts # {}

\* Used buffers of the RX and TX queues that the driver has not seen have an
\* interrupt on its way, in a restored microVM too: the interrupt controller is
\* saved after the last of them was raised.
UsedIsSignalled == \A q \in {"rx", "tx"} : ring[q].used > seen[q] => irq

\* Whatever waits in the vsock device has an event to come: packets for the
\* guest beside free RX buffers, unless the backend's RX queue ran dry on them,
\* packets of the guest no backend has refused, and used buffers that the driver
\* has not seen.
VsockIsServed == PacketsAreDelivered /\ TxIsServed /\ UsedIsSignalled
=============================================================================
