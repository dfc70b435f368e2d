----------------------------- MODULE VsockMuxer -----------------------------
(***************************************************************************)
(* The vsock device (vsock/device.rs, event_handler.rs) over its connection *)
(* multiplexer (unix/muxer.rs), with the RX queue (muxer_rxq.rs) and the   *)
(* kill queue (muxer_killq.rs), both smaller than the connection map and   *)
(* allowed to fall out of step with it.  Connections are VsockChannel's.   *)
(* One event of the VMM thread runs through the phases of `phase`.         *)
(***************************************************************************)
EXTENDS Naturals, Sequences, SequencesExt, FiniteSetsExt

CONSTANTS
    MaxConn,        \* MAX_CONNECTIONS
    RxqSize,        \* MUXER_RXQ_SIZE
    KillqSize,      \* MUXER_KILLQ_SIZE
    ListenPorts,    \* host ports with a listening Unix socket
    FirstPort,      \* 2^30, and
    NumPorts,       \* 2^30: the range of allocate_local_port
    PeerPorts,      \* guest ports
    MaxBufs,        \* buffers the guest keeps in the RX queue
    Timeout,        \* both timeouts, in ticks
    MaxTime,        \* bound on the clock
    MaxErrors,      \* bound on the failures of epoll_ctl
    MaxInputs,      \* bound on guest packets and events of the host's sockets
    Ops             \* the operations the guest uses on a connection

VARIABLES
    mux,            \* the VsockMuxer
    now, phase,
    rxbufs,         \* buffers in the virtio RX queue
    rx_event,       \* the guest has signalled new ones
    errors, inputs

vars == <<mux, now, phase, rxbufs, rx_event, errors, inputs>>

Chan == INSTANCE VsockChannel WITH chan <- mux, open <- TRUE, Deadline <- 0
Time == 1..(MaxTime + Timeout)

HostPorts == FirstPort..(FirstPort + NumPorts - 1)
Key == (ListenPorts \cup HostPorts) \X PeerPorts
LocalPort(k) == k[1]
ConnRx(k) == [kind |-> "ConnRx", key |-> k]
RstPkt(k) == [kind |-> "RstPkt", key |-> k]

has_pending_rx(c) == c.pending # {}
will_expire(c) == c.expiry # Chan!Never /\ c.expiry > now
has_expired(c) == c.expiry # Chan!Never /\ c.expiry <= now

-----------------------------------------------------------------------------
(* MuxerRxQ.                                                               *)

RxqFull(m) == Len(m.rxq) = RxqSize

\* push: an RST that finds no room takes the place of the last connection.
RxqPush(m, item) ==
    IF m.rx_synced /\ ~RxqFull(m) THEN [m EXCEPT !.rxq = Append(@, item)]
    ELSE IF item.kind = "ConnRx" THEN [m EXCEPT !.rx_synced = FALSE]
    ELSE LET conns == {i \in 1..Len(m.rxq) : m.rxq[i].kind = "ConnRx"}
         IN  IF conns = {} THEN m
             ELSE [m EXCEPT !.rxq[Max(conns)] = item, !.rx_synced = FALSE]

RxqPop(m) == [m EXCEPT !.rxq = Tail(@)]

\* from_conn_map walks the map in any order and stops when the queue is full.
RxqFromConnMap(m) ==
    LET ready == {k \in DOMAIN m.conn : has_pending_rx(m.conn[k])}
        n == Min({Cardinality(ready), RxqSize})
    IN  {[m EXCEPT !.rxq = [i \in 1..n |-> ConnRx(s[i])],
                   !.rx_synced = (Cardinality(ready) <= RxqSize)] :
            s \in UNION {SetToSeqs(some) : some \in kSubset(n, ready)}}

-----------------------------------------------------------------------------
(* MuxerKillQ.                                                             *)

\* Mutant: a timer that finds no room leaves the queue in sync.
KillqPushSynced(m, k, t) ==
    IF ~m.kill_synced \/ Len(m.killq) = KillqSize THEN m
    ELSE [m EXCEPT !.killq = Append(@, [key |-> k, kill_time |-> t])]

KillqPush(m, k, t) ==
    IF ~m.kill_synced \/ Len(m.killq) = KillqSize
    THEN [m EXCEPT !.kill_synced = FALSE]
    ELSE [m EXCEPT !.killq = Append(@, [key |-> k, kill_time |-> t])]

\* from_conn_map takes the connections that will expire, as many as fit, and
\* sorts them.  Those whose timer has already run out are passed over; `late`
\* remembers them.
KillqFromConnMap(m) ==
    LET due == {k \in DOMAIN m.conn : will_expire(m.conn[k])}
        n == Min({Cardinality(due), KillqSize})
        Ordered(s) == \A i \in 1..(Len(s) - 1) :
                        m.conn[s[i]].expiry <= m.conn[s[i + 1]].expiry
    IN  {[m EXCEPT !.killq = [i \in 1..n |-> [key |-> s[i],
                                              kill_time |-> m.conn[s[i]].expiry]],
                   !.late = @ \cup {k \in DOMAIN m.conn : has_expired(m.conn[k])},
                   !.kill_synced = (Cardinality(due) <= KillqSize)] :
            s \in {q \in UNION {SetToSeqs(some) : some \in kSubset(n, due)} : Ordered(q)}}

kill_connection(m, k) ==
    LET killed == IF k \in DOMAIN m.conn
                  THEN [m EXCEPT !.conn[k] = Chan!Kill(@)] ELSE m
        had_rx == k \in DOMAIN m.conn /\ has_pending_rx(m.conn[k])
    IN  IF had_rx THEN killed ELSE RxqPush(killed, ConnRx(k))

\* sweep_killq: pops the expired entries at the front, kills the connections
\* that have indeed expired, and replaces an empty queue that is out of step.
\* The new queue holds no expired entry, so sweeping it again does nothing.
sweep_killq(m) ==
    LET stop == {i \in 1..Len(m.killq) : ~(now > m.killq[i].kill_time)}
        n == IF stop = {} THEN Len(m.killq) ELSE Min(stop) - 1
        KillIfExpired(acc, item) ==
            IF item.key \in DOMAIN acc.conn /\ has_expired(acc.conn[item.key])
            THEN kill_connection(acc, item.key) ELSE acc
        swept == [FoldLeft(KillIfExpired, m, SubSeq(m.killq, 1, n))
                    EXCEPT !.killq = SubSeq(m.killq, n + 1, Len(m.killq))]
    IN  IF swept.killq = <<>> /\ ~swept.kill_synced
        THEN KillqFromConnMap(swept) ELSE {swept}

-----------------------------------------------------------------------------
(* The connection map, the listeners and the host ports.                   *)

Insert(f, k, v) == [x \in DOMAIN f \cup {k} |-> IF x = k THEN v ELSE f[x]]
Delete(f, k) == [x \in DOMAIN f \ {k} |-> f[x]]

VsockMuxerNew ==
    [conn |-> <<>>, listener |-> <<>>, rxq |-> <<>>, rx_synced |-> TRUE,
     killq |-> <<>>, kill_synced |-> TRUE, late |-> {}, ports |-> {},
     port_last |-> FirstPort + NumPorts - 1, streams |-> 0]

\* allocate_local_port: the next port of the range that is not in use.
NextPort(p) == IF p = FirstPort + NumPorts - 1 THEN FirstPort ELSE p + 1
RECURSIVE FreePort(_, _)
FreePort(m, p) == IF NextPort(p) \in m.ports THEN FreePort(m, NextPort(p)) ELSE NextPort(p)

allocate_local_port(m) ==
    LET p == FreePort(m, m.port_last)
    IN  [m EXCEPT !.port_last = p, !.ports = @ \cup {p}]

\* add_connection: the possible maps, or none when there is no room.
add_connection(m, k, c) ==
    {[s EXCEPT !.listener = Insert(@, k, Chan!PolledEvset(c)),
               !.rxq = IF has_pending_rx(c) THEN RxqPush(s, ConnRx(k)).rxq ELSE @,
               !.rx_synced = IF has_pending_rx(c) THEN RxqPush(s, ConnRx(k)).rx_synced ELSE @,
               !.late = @ \ {k}, !.conn = Insert(@, k, c)] :
        s \in {r \in sweep_killq(m) : Cardinality(DOMAIN r.conn) < MaxConn}}

\* The other outcomes, after the sweep: TooManyConnections, or EpollAdd when
\* epoll_ctl fails.
AddRefused(m, ctl) ==
    {s \in sweep_killq(m) : ctl <=> Cardinality(DOMAIN s.conn) >= MaxConn}

remove_connection(m, k) ==
    [m EXCEPT !.conn = Delete(@, k), !.late = @ \ {k},
              !.listener = IF k \in DOMAIN m.conn THEN Delete(@, k) ELSE @,
              !.ports = @ \ {LocalPort(k)}]

enq_rst(m, k) == RxqPush(m, RstPkt(k))

\* The end of apply_conn_mutation.  ctl says whether epoll_ctl succeeds; the
\* recorded event set changes before a modification is tried.
update_listener(m, k, wanted, ctl) ==
    LET listens == k \in DOMAIN m.listener
    IN  CASE wanted = {} -> [m EXCEPT !.listener = Delete(@, k)]
          [] wanted # {} /\ listens /\ m.listener[k] = wanted -> m
          [] OTHER -> IF ctl THEN [m EXCEPT !.listener = Insert(@, k, wanted)]
                      ELSE kill_connection(
                             IF listens THEN [m EXCEPT !.listener[k] = wanted] ELSE m, k)

\* apply_conn_mutation, after the closure has turned m.conn[k] into c: the
\* acknowledgement of a host-initiated connection (ack says whether it could be
\* written), the RX and kill queues, and the listener.
apply_conn_mutation(m, k, c, ack, ctl) ==
    LET old == m.conn[k]
        d == IF old.state = "LocalInit" /\ c.state = "Established" /\ ~ack
             THEN Chan!Kill(c) ELSE c
        m1 == [m EXCEPT !.conn[k] = d]
        m2 == IF ~has_pending_rx(old) /\ has_pending_rx(d)
              THEN RxqPush(m1, ConnRx(k)) ELSE m1
        m3 == IF ~will_expire(old) /\ will_expire(d) THEN KillqPush(m2, k, d.expiry) ELSE m2
    IN  update_listener(m3, k, Chan!PolledEvset(d), ctl)

-----------------------------------------------------------------------------
(* Events.  A handler runs to its end; the loops over the virtio queues are *)
(* the phases "tx" and "rx", the inner loop of recv_pkt is "rxloop".        *)

Init == /\ mux = VsockMuxerNew /\ now = 1 /\ phase = "idle"
        /\ rxbufs = 0 /\ rx_event = FALSE /\ errors = 0 /\ inputs = 0

backendPending == mux.rxq # <<>> \/ ~mux.rx_synced

Input == inputs < MaxInputs /\ inputs' = inputs + 1

\* With a budget of failures, whether epoll_ctl succeeds this time.
Ctl(ok) == (ok \/ errors < MaxErrors) /\ errors' = (IF ok THEN errors ELSE errors + 1)

\* A mutation of the connection k to one of the channels in cs.
Mutate(k, cs) ==
    \E c \in cs, ack, ctl \in BOOLEAN :
        /\ mux' = apply_conn_mutation(mux, k, c, ack, ctl)
        /\ Ctl(ctl)

\* send_pkt on a guest packet; an unsupported type, of a known connection too, or
\* an unknown connection is answered with an RST, and a packet for another CID is
\* dropped.
SendUnroutable(k) == mux' = enq_rst(mux, k) /\ UNCHANGED errors

\* The port is the guest's choice, and add_connection reserves none.
handle_peer_request_pkt(k) ==
    \/ /\ LocalPort(k) \in ListenPorts
       /\ \E ctl \in BOOLEAN :
            /\ Ctl(ctl)
            /\ \/ /\ ctl
                  /\ \E credit \in BOOLEAN : mux' \in add_connection(mux, k, Chan!NewPeerInit(credit))
               \/ mux' \in {enq_rst(m, k) : m \in AddRefused(mux, ctl)}
    \/ mux' = enq_rst(mux, k) /\ UNCHANGED errors

SendToConn(k) ==
    \/ mux' = remove_connection(mux, k) /\ UNCHANGED errors
    \/ \E op \in Ops, flags \in Chan!ShutdownFlags :
          /\ (op = "SHUTDOWN" \/ flags = {})
          /\ Mutate(k, Chan!SendPkt(mux.conn[k], op, flags, now + Timeout))

\* process_tx: one packet; the queue may hold more.
TxPacket ==
    /\ Input /\ phase \in {"idle", "tx"} /\ phase' = "tx"
    /\ \E k \in Key :
          \/ SendUnroutable(k)
          \/ k \notin DOMAIN mux.conn /\ handle_peer_request_pkt(k)
          \/ k \in DOMAIN mux.conn /\ SendToConn(k)
    /\ UNCHANGED <<now, rxbufs, rx_event>>

TxDone ==
    /\ phase = "tx" /\ phase' = IF backendPending THEN "rx" ELSE "idle"
    /\ UNCHANGED <<mux, now, rxbufs, rx_event, errors, inputs>>

\* notify_backend: an event of the nested epoll set, then process_tx.
BackendConnection ==
    \E k \in DOMAIN mux.listener : \E evset \in (SUBSET mux.listener[k]) \ {{}} :
        /\ Input /\ phase = "idle" /\ phase' = "tx"
        /\ Mutate(k, Chan!Notify(mux.conn[k], evset))
        /\ UNCHANGED <<now, rxbufs, rx_event>>

BackendAccept ==
    /\ Input /\ phase = "idle" /\ phase' = "tx" /\ mux.streams = 0
    /\ mux' = IF Cardinality(DOMAIN mux.conn) = MaxConn THEN mux
              ELSE [mux EXCEPT !.streams = 1]
    /\ UNCHANGED <<now, rxbufs, rx_event, errors>>

\* The "connect" command: the port is allocated before the connection is added.
BackendConnect ==
    /\ phase = "idle" /\ phase' = "tx" /\ mux.streams = 1 /\ HostPorts \ mux.ports # {}
    /\ LET taken == [mux EXCEPT !.streams = 0] IN
       \/ mux' = taken /\ UNCHANGED errors
       \/ \E peer \in PeerPorts, ctl \in BOOLEAN :
            LET m == allocate_local_port(taken)
            IN  /\ Ctl(ctl)
                /\ \/ ctl /\ mux' \in add_connection(m, <<m.port_last, peer>>, Chan!NewLocalInit)
                   \/ mux' \in AddRefused(m, ctl)
    /\ UNCHANGED <<now, rxbufs, rx_event, inputs>>

\* handle_rxq_event.
RxEvent ==
    /\ phase = "idle" /\ rx_event /\ rx_event' = FALSE
    /\ phase' = IF backendPending THEN "rx" ELSE "idle"
    /\ UNCHANGED <<mux, now, rxbufs, errors, inputs>>

\* process_rx: recv_pkt for the next buffer, after resynchronising an empty
\* RX queue.
RxCall ==
    /\ phase = "rx"
    /\ phase' = IF rxbufs = 0 THEN "idle" ELSE "rxloop"
    /\ IF rxbufs # 0 /\ mux.rxq = <<>> /\ ~mux.rx_synced
       THEN mux' \in RxqFromConnMap(mux) ELSE UNCHANGED mux
    /\ UNCHANGED <<now, rxbufs, rx_event, errors, inputs>>

Delivered == phase' = "rx" /\ rxbufs' = rxbufs - 1

\* Nothing to send: the buffer is put back.
RxNoData ==
    /\ phase = "rxloop" /\ mux.rxq = <<>> /\ phase' = "idle"
    /\ UNCHANGED <<mux, now, rxbufs, rx_event, errors, inputs>>

RxRst ==
    /\ phase = "rxloop" /\ mux.rxq # <<>> /\ Head(mux.rxq).kind = "RstPkt"
    /\ mux' = RxqPop(mux) /\ Delivered
    /\ UNCHANGED <<now, rx_event, errors, inputs>>

\* The key of a connection that is gone, or that has nothing to say.
RxStale ==
    /\ phase = "rxloop" /\ mux.rxq # <<>> /\ Head(mux.rxq).kind = "ConnRx"
    /\ Head(mux.rxq).key \notin DOMAIN mux.conn
    /\ mux' = RxqPop(mux)
    /\ UNCHANGED <<now, phase, rxbufs, rx_event, errors, inputs>>

RxConn ==
    /\ phase = "rxloop" /\ mux.rxq # <<>> /\ Head(mux.rxq).kind = "ConnRx"
    /\ Head(mux.rxq).key \in DOMAIN mux.conn
    /\ LET k == Head(mux.rxq).key IN
       \E r \in Chan!RecvPkt(mux.conn[k], now + Timeout), ctl \in BOOLEAN :
          LET m1 == apply_conn_mutation(mux, k, r.conn, TRUE, ctl)
              m2 == IF has_pending_rx(r.conn) THEN m1 ELSE RxqPop(m1)
          IN  /\ Ctl(ctl)
              /\ mux' = IF r.op = "RST" THEN remove_connection(m2, k) ELSE m2
              /\ IF r.op = "NoData" THEN UNCHANGED <<phase, rxbufs>> ELSE Delivered
    /\ UNCHANGED <<now, rx_event, inputs>>

GuestAddsBuffer ==
    /\ phase = "idle" /\ rxbufs < MaxBufs /\ rxbufs' = rxbufs + 1 /\ rx_event' = TRUE
    /\ UNCHANGED <<mux, now, phase, errors, inputs>>

Tick ==
    /\ phase = "idle" /\ now < MaxTime /\ now' = now + 1
    /\ UNCHANGED <<mux, phase, rxbufs, rx_event, errors, inputs>>

Next ==
    \/ TxPacket \/ TxDone \/ BackendConnection \/ BackendAccept \/ BackendConnect
    \/ RxEvent \/ RxCall \/ RxNoData \/ RxRst \/ RxStale \/ RxConn
    \/ GuestAddsBuffer \/ Tick
Spec == Init /\ [][Next]_vars

-----------------------------------------------------------------------------
(* Properties.                                                             *)

\* Types of the connection map, the queues and the listeners of the muxer.
TypeOK ==
    /\ DOMAIN mux.conn \subseteq Key /\ DOMAIN mux.listener \subseteq DOMAIN mux.conn
    /\ \A k \in DOMAIN mux.conn : mux.conn[k] \in Chan!Channel(Time)
    /\ Len(mux.rxq) <= RxqSize /\ Len(mux.killq) <= KillqSize
    /\ mux.ports \subseteq HostPorts /\ mux.port_last \in HostPorts
    /\ phase \in {"idle", "tx", "rx", "rxloop"}
    /\ Cardinality(DOMAIN mux.conn) <= MaxConn

\* "Under ideal operation, every connection, that has pending RX data, will be
\* present in the muxer RX queue": a queue that believes to be synchronized is.
RxqInSync ==
    mux.rx_synced =>
        \A k \in DOMAIN mux.conn :
            has_pending_rx(mux.conn[k]) => Contains(mux.rxq, ConnRx(k))

AwaitsTermination(c) == c.expiry # Chan!Never /\ c.state # "Killed"

\* "When true, all connections that are awaiting termination are guaranteed to be
\* in this queue": a synchronized kill queue holds each at its time, until the
\* sweep has killed it; except those whose timer had run out before the queue was
\* rebuilt.  from_conn_map passes these over, and no later sweep finds them.
KillqInSync ==
    mux.kill_synced =>
        \A k \in DOMAIN mux.conn :
            AwaitsTermination(mux.conn[k]) =>
                \/ Contains(mux.killq, [key |-> k, kill_time |-> mux.conn[k].expiry])
                \/ k \in mux.late /\ has_expired(mux.conn[k])

\* epoll reports exactly what each live connection wants to hear of.
ListensToWanted ==
    \A k \in DOMAIN mux.conn :
        mux.conn[k].state # "Killed" =>
            Chan!PolledEvset(mux.conn[k]) =
                IF k \in DOMAIN mux.listener THEN mux.listener[k] ELSE {}

\* A host port in use is reserved, so that no two connections are given the same
\* key: provided that the host listens on no port of the range, for then the
\* guest could connect to a port of it, which handle_peer_request_pkt does not
\* reserve.
PortsReserved ==
    ListenPorts \cap HostPorts = {} =>
        \A k \in DOMAIN mux.conn : LocalPort(k) \in HostPorts => LocalPort(k) \in mux.ports

=============================================================================
