----------------------------- MODULE NetDevice -----------------------------
(***************************************************************************)
(* The virtio network device (devices/src/virtio/net/device.rs): frames    *)
(* from the tap and from the MMDS stack to the guest, with one frame       *)
(* deferred when there is no budget or no buffer, and frames from the      *)
(* guest to the MMDS or the tap.  The event loop runs one handler at a     *)
(* time; the guest, the tap and the clock act between its steps.  The tap  *)
(* is registered edge triggered.  A queue is its available chains, whether *)
(* the device asked to be notified, and its event; a limiter is whether it *)
(* is blocked (see VirtQueue and RateLimiter for both).                    *)
(***************************************************************************)
EXTENDS Naturals, Sequences

CONSTANTS
    MaxFrames,      \* frames that arrive at the tap
    MaxRx, MaxTx,   \* chains the guest makes available for RX and for TX
    MaxTapErrors,   \* reads of the tap that fail
    MaxThrottles,   \* times a limiter runs out of budget
    Overdraw        \* whether a frame may be larger than the token bucket

VARIABLES
    net,            \* pc of the handler, deferred flag, frame buffer (0: from the MMDS), ...
    tap,            \* frames waiting in the tap, and its edge; `missed` is history: an edge
                    \* was taken without reading the frames
    mmds,           \* frames the MMDS stack has to send
    rxq, txq,       \* rxq.gave_up is history: a frame found bad chains only
    rx_blocked, tx_blocked,
    got,            \* history: the numbers of the tap frames the guest received
    budget          \* of inputs
vars == <<net, tap, mmds, rxq, txq, rx_blocked, tx_blocked, got, budget>>

NetInit ==
    /\ net = [pc |-> "idle", deferred |-> FALSE, frame |-> 0, for_mmds |-> FALSE,
              rx_unsignalled |-> 0, tx_unsignalled |-> 0]
    /\ tap = [frames |-> <<>>, edge |-> FALSE, arrived |-> 0, errors |-> 0, missed |-> FALSE]
    /\ mmds = 0
    /\ rxq = [avail |-> 0, notify |-> TRUE, evt |-> FALSE, gave_up |-> FALSE]
    /\ txq = [avail |-> <<>>, notify |-> TRUE, evt |-> FALSE]
    /\ rx_blocked = FALSE /\ tx_blocked = FALSE
    /\ got = <<>>
    /\ budget = [rx |-> 0, tx |-> 0, throttles |-> 0]

Idle == net.pc = "idle"
Goto(pc) == net' = [net EXCEPT !.pc = pc]

-----------------------------------------------------------------------------
(* The outside world.                                                      *)

FrameArrives ==
    /\ tap.arrived < MaxFrames
    /\ tap' = [tap EXCEPT !.frames = Append(@, tap.arrived + 1), !.edge = TRUE, !.arrived = @ + 1]
    /\ UNCHANGED <<net, mmds, rxq, txq, rx_blocked, tx_blocked, got, budget>>

GuestAddsRx ==
    /\ budget.rx < MaxRx
    /\ rxq' = [rxq EXCEPT !.avail = @ + 1, !.evt = @ \/ rxq.notify, !.notify = FALSE]
    /\ budget' = [budget EXCEPT !.rx = @ + 1]
    /\ UNCHANGED <<net, tap, mmds, txq, rx_blocked, tx_blocked, got>>

\* A chain for the tap, one for the MMDS, or one the device cannot use.
GuestAddsTx ==
    /\ budget.tx < MaxTx
    /\ \E kind \in {"tap", "mmds", "bad"} :
         txq' = [txq EXCEPT !.avail = Append(@, kind), !.evt = @ \/ txq.notify, !.notify = FALSE]
    /\ budget' = [budget EXCEPT !.tx = @ + 1]
    /\ UNCHANGED <<net, tap, mmds, rxq, rx_blocked, tx_blocked, got>>

-----------------------------------------------------------------------------
(* The handlers.                                                           *)

\* Mutant: notifications stay off when the queue is found empty.
NotifyKept(q) == q
EnableNotification(q) == [q EXCEPT !.notify = TRUE]

signal_used_rx(n) == [n EXCEPT !.rx_unsignalled = 0]

\* resume_rx.
ResumeRx == IF net.deferred THEN "deferred" ELSE "idle"

\* Mutant: the event is dropped only when nothing is deferred.
SkipsTapFirst == rxq.avail = 0 /\ ~net.deferred
SkipsTap == rxq.avail = 0 /\ net.deferred

process_rx_queue_event ==
    /\ Idle /\ rxq.evt
    /\ rxq' = [rxq EXCEPT !.evt = FALSE]
    /\ Goto(IF rx_blocked THEN "idle" ELSE ResumeRx)
    /\ UNCHANGED <<tap, mmds, txq, rx_blocked, tx_blocked, got, budget>>

process_tap_rx_event ==
    /\ Idle /\ tap.edge
    /\ tap' = [tap EXCEPT !.edge = FALSE, !.missed = @ \/ (rx_blocked /\ ~net.deferred)]
    /\ Goto(IF SkipsTap \/ rx_blocked THEN "idle" ELSE IF net.deferred THEN "deferred" ELSE "rx")
    /\ UNCHANGED <<mmds, rxq, txq, rx_blocked, tx_blocked, got, budget>>

process_tx_queue_event ==
    /\ Idle /\ txq.evt
    /\ txq' = [txq EXCEPT !.evt = FALSE]
    /\ Goto(IF tx_blocked THEN "idle" ELSE "tx")
    /\ UNCHANGED <<tap, mmds, rxq, rx_blocked, tx_blocked, got, budget>>

\* The timers of the limiters.
process_rx_rate_limiter_event ==
    /\ Idle /\ rx_blocked
    /\ rx_blocked' = FALSE
    /\ Goto(ResumeRx)
    /\ UNCHANGED <<tap, mmds, rxq, txq, tx_blocked, got, budget>>

process_tx_rate_limiter_event ==
    /\ Idle /\ tx_blocked
    /\ tx_blocked' = FALSE
    /\ Goto("tx")
    /\ UNCHANGED <<tap, mmds, rxq, txq, rx_blocked, got, budget>>

\* rate_limiter_consume_op on a limiter that is blocked or not: whether it
\* goes through, and whether the limiter is blocked after it.
ConsumeOp(blocked) ==
    IF blocked THEN {[ok |-> FALSE, blocked |-> TRUE]}
    ELSE {[ok |-> TRUE, blocked |-> FALSE]}
         \cup (IF budget.throttles < MaxThrottles
               THEN {[ok |-> FALSE, blocked |-> TRUE]}
                    \cup (IF Overdraw THEN {[ok |-> TRUE, blocked |-> TRUE]} ELSE {})
               ELSE {})
Charged(blocked, r) ==
    budget' = [budget EXCEPT !.throttles = IF ~blocked /\ r.blocked THEN @ + 1 ELSE @]

\* write_frame_to_guest: the chains it takes, bad ones first, and whether the
\* frame is in the last.  Without a good one it has found the queue empty and
\* asked for a notification; or it gave up without asking, after as many chains
\* as the queue has entries, those the guest adds meanwhile included.
WriteFrame ==
    {[ok |-> TRUE, used |-> n, gave_up |-> FALSE] : n \in 1..rxq.avail}
    \cup {[ok |-> FALSE, used |-> rxq.avail, gave_up |-> FALSE]}
    \cup {[ok |-> FALSE, used |-> n, gave_up |-> TRUE] : n \in {rxq.avail} \ {0}}

Throttled == [ok |-> FALSE, used |-> 0, gave_up |-> rxq.gave_up]

\* rate_limited_rx_single_frame and what its callers do next: go on reading,
\* or keep the frame and signal the queue.
DeliverFrame ==
    \E r \in ConsumeOp(rx_blocked) :
      /\ rx_blocked' = r.blocked /\ Charged(rx_blocked, r)
      /\ \E w \in IF r.ok THEN WriteFrame ELSE {Throttled} :
           /\ rxq' = LET taken == [rxq EXCEPT !.avail = @ - w.used, !.gave_up = w.gave_up]
                     IN  IF r.ok /\ ~w.ok /\ ~w.gave_up THEN EnableNotification(taken) ELSE taken
           /\ got' = IF w.ok /\ net.frame # 0 THEN Append(got, net.frame) ELSE got
           /\ net' = IF w.ok
                     THEN [net EXCEPT !.pc = "rx", !.deferred = FALSE,
                                      !.rx_unsignalled = @ + w.used]
                     ELSE signal_used_rx([net EXCEPT !.pc = "idle", !.deferred = TRUE])

handle_deferred_frame ==
    /\ net.pc = "deferred"
    /\ DeliverFrame
    /\ UNCHANGED <<tap, mmds, txq, tx_blocked>>

\* process_rx: one turn of its loop, from reading a frame (MMDS first) ...
ReadFrame ==
    /\ net.pc = "rx"
    /\ \/ /\ mmds > 0 /\ mmds' = mmds - 1
          /\ net' = [net EXCEPT !.pc = "rx_deliver", !.frame = 0]
          /\ UNCHANGED tap
       \/ /\ mmds = 0 /\ tap.frames # <<>>
          /\ tap' = [tap EXCEPT !.frames = Tail(@)]
          /\ net' = [net EXCEPT !.pc = "rx_deliver", !.frame = Head(tap.frames)]
          /\ UNCHANGED mmds
    /\ UNCHANGED <<rxq, txq, rx_blocked, tx_blocked, got, budget>>

\* ... to handing it to the guest,
process_rx ==
    /\ net.pc = "rx_deliver"
    /\ DeliverFrame
    /\ UNCHANGED <<tap, mmds, txq, tx_blocked>>

\* until the tap is empty, or reading it fails.
ReadNothing ==
    /\ net.pc = "rx" /\ mmds = 0 /\ tap.frames = <<>>
    /\ net' = signal_used_rx([net EXCEPT !.pc = "idle"])
    /\ tap' = [tap EXCEPT !.missed = FALSE]
    /\ UNCHANGED <<mmds, rxq, txq, rx_blocked, tx_blocked, got, budget>>
ReadFails ==
    /\ net.pc = "rx" /\ mmds = 0 /\ tap.errors < MaxTapErrors
    /\ tap' = [tap EXCEPT !.errors = @ + 1, !.missed = TRUE]
    /\ Goto("idle")
    /\ UNCHANGED <<mmds, rxq, txq, rx_blocked, tx_blocked, got, budget>>

WantsRx == ~net.deferred

\* process_tx: one chain; an MMDS frame is answered at once unless a frame is
\* deferred.
TransmitOne ==
    /\ net.pc = "tx" /\ txq.avail # <<>>
    /\ LET kind == Head(txq.avail)
       IN  IF kind = "bad"
           THEN /\ net' = [net EXCEPT !.tx_unsignalled = @ + 1]
                /\ txq' = [txq EXCEPT !.avail = Tail(@)]
                /\ UNCHANGED <<mmds, tx_blocked, budget>>
           ELSE \E r \in ConsumeOp(tx_blocked) :
                  /\ tx_blocked' = r.blocked /\ Charged(tx_blocked, r)
                  /\ IF ~r.ok
                     THEN Goto("tx_done") /\ UNCHANGED <<txq, mmds>>
                     ELSE /\ txq' = [txq EXCEPT !.avail = Tail(@)]
                          /\ mmds' = IF kind = "mmds" THEN mmds + 1 ELSE mmds
                          /\ net' = [net EXCEPT !.tx_unsignalled = @ + 1,
                                                !.for_mmds = @ \/ (kind = "mmds" /\ WantsRx)]
    /\ UNCHANGED <<tap, rxq, rx_blocked, got>>

TransmitEmpty ==
    /\ net.pc = "tx" /\ txq.avail = <<>>
    /\ txq' = EnableNotification(txq)
    /\ Goto("tx_done")
    /\ UNCHANGED <<tap, mmds, rxq, rx_blocked, tx_blocked, got, budget>>

TransmitDone ==
    /\ net.pc = "tx_done"
    /\ net' = [net EXCEPT !.pc = IF net.for_mmds THEN "rx" ELSE "idle",
                          !.for_mmds = FALSE, !.tx_unsignalled = 0]
    /\ UNCHANGED <<tap, mmds, rxq, txq, rx_blocked, tx_blocked, got, budget>>

Handlers ==
    \/ process_rx_queue_event \/ process_tap_rx_event \/ process_tx_queue_event
    \/ process_rx_rate_limiter_event \/ process_tx_rate_limiter_event
    \/ handle_deferred_frame \/ ReadFrame \/ process_rx \/ ReadNothing \/ ReadFails
    \/ TransmitOne \/ TransmitEmpty \/ TransmitDone

NetNext == FrameArrives \/ GuestAddsRx \/ GuestAddsTx \/ Handlers
NetSpec == NetInit /\ [][NetNext]_vars
NetFairness == WF_vars(Handlers)
NetLiveSpec == NetSpec /\ NetFairness

-----------------------------------------------------------------------------
(* Properties.                                                             *)

\* Types of the queues, the TAP and the frames of the net device.
NetTypeOK ==
    /\ net.pc \in {"idle", "deferred", "rx", "rx_deliver", "tx", "tx_done"}
    /\ net.deferred \in BOOLEAN /\ net.frame \in 0..MaxFrames
    /\ tap.frames \in Seq(1..MaxFrames) /\ mmds \in 0..MaxTx
    /\ rxq.avail \in 0..MaxRx /\ got \in Seq(1..MaxFrames)

InHand == IF (net.deferred \/ net.pc = "rx_deliver") /\ net.frame # 0 THEN <<net.frame>> ELSE <<>>

\* Every frame read from the tap reaches the guest once and in order: a
\* deferred frame is never overwritten by the next one, nor delivered twice.
FramesInOrder ==
    got \o InHand \o tap.frames = [i \in 1..tap.arrived |-> i]

\* A deferred frame is never left alone: the limiter's timer is running, or the
\* guest's next RX buffer brings an event, or that event is there.  The exception
\* is a frame for which write_frame_to_guest gave up on a queue of bad chains: the
\* guest is not asked to notify, and the frame waits for the next one at the tap.
DeferredIsWoken ==
    Idle /\ net.deferred =>
        rx_blocked \/ rxq.evt \/ (rxq.notify /\ rxq.avail = 0) \/ rxq.gave_up

\* Chains the guest sent are never left alone either.
TxIsWoken == Idle /\ txq.avail # <<>> => tx_blocked \/ txq.evt

\* What the MMDS stack has to send is sent at the end of the handler that made
\* it so, or waits behind the deferred frame ("it has no event of its own").
MmdsIsServed == Idle /\ mmds > 0 => net.deferred

\* The network device gets frames through: what it reads from the tap reaches
\* the guest once and in order, and whatever waits has an event to come, be it a
\* deferred frame that has not exhausted a queue of bad chains, the chains of the
\* guest or what the MMDS stack has to send.
NetIsServed == FramesInOrder /\ DeferredIsWoken /\ TxIsWoken /\ MmdsIsServed

\* A frame that waits in the tap is read sooner or later, without the help of
\* another frame, or a frame is deferred; unless its edge was taken in vain.
\* That takes a read error, or a limiter that is blocked with nothing deferred:
\* it let a frame pass that was larger than its bucket.  "Upon rate limiter event,
\* call the rate limiter handler and restart processing the queue" is not what
\* process_rx_rate_limiter_event does then: resume_rx finds nothing deferred.
TapIsRead == (tap.frames # <<>>) ~> (tap.frames = <<>> \/ net.deferred \/ tap.missed)
=============================================================================
