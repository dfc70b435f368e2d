-------------------------- MODULE VsockConnection --------------------------
(***************************************************************************)
(* One vsock connection with its byte counters, flow control and TX buffer *)
(* (VsockConnection in devices/src/virtio/vsock/csm/connection.rs), the    *)
(* guest driver at one end and the host stream at the other.  The guest    *)
(* keeps to the protocol: it sends data only inside the credit it was      *)
(* given, and the counters in its packets are true.  The u32 counters wrap *)
(* at Wrap.  A byte of guest data is its position in the stream, so that a *)
(* reordering or a loss shows, and a packet tells where its data begins.   *)
(***************************************************************************)
EXTENDS Naturals, Sequences

CONSTANTS
    Wrap,         \* 2^32
    TxBufSize,    \* CONN_TX_BUF_SIZE
    Threshold,    \* CONN_CREDIT_UPDATE_THRESHOLD
    GuestBuf,     \* the buf_alloc of the guest
    MaxPkt,       \* bytes in one packet
    MaxQueued     \* packets the guest has queued and the device not yet read

\* Both buffers are smaller than the range of the u32 counters.
ASSUME ConnAssumption ==
    /\ {Wrap, TxBufSize, Threshold, GuestBuf, MaxPkt, MaxQueued} \subseteq Nat
    /\ TxBufSize < Wrap /\ GuestBuf < Wrap /\ Threshold <= TxBufSize

VARIABLES
    state, rcv_off, snd_off, pending, expiry,
    tx_buf,                  \* its content, oldest byte first
    fwd_cnt, last_fwd, peer_fwd, peer_alloc, rx_cnt,
    open,                    \* the connection is in the muxer's map
    tx_queue,                \* guest packets on their way to send_pkt
    rxpkt,                   \* the packet in the guest's RX buffer, or NoPkt
    guest,                   \* the driver's side
    out                      \* the byte the host has to get next

control == <<state, rcv_off, snd_off, pending, expiry>>
counters == <<fwd_cnt, last_fwd, peer_fwd, peer_alloc, rx_cnt>>
cvars == <<control, counters, tx_buf, open, tx_queue, rxpkt, guest, out>>

Wrapped == 0..(Wrap - 1)
Plus(a, b) == (a + b) % Wrap
Minus(a, b) == (a + Wrap - b) % Wrap

NoPkt == [op |-> "none", len |-> 0, fwd |-> 0]
Bytes(from, n) == [i \in 1..n |-> Plus(from, i - 1)]

-----------------------------------------------------------------------------
(* Credit.                                                                 *)

peer_avail_credit == Minus(peer_alloc, Minus(rx_cnt, peer_fwd))
need_credit_update_from_peer == peer_avail_credit = 0

\* Written with the values after the handler has moved fwd_cnt.
peer_needs_credit_update(fwd) == Minus(TxBufSize, Minus(fwd, last_fwd)) < Threshold

MayReceive == state = "Established" \/ (state = "PeerClosed" /\ ~rcv_off)
MaySend == state = "Established" \/ (state = "PeerClosed" /\ ~snd_off)
ShutDown == state = "PeerClosed" /\ rcv_off /\ snd_off

get_polled_evset ==
    (IF tx_buf # <<>> THEN {"OUT"} ELSE {}) \cup
    (IF \/ state \in {"Killed", "LocalClosed"}
        \/ state = "PeerClosed" /\ rcv_off
        \/ need_credit_update_from_peer
     THEN {} ELSE {"IN"})

SetState(s) == state' = s /\ rcv_off' = FALSE /\ snd_off' = FALSE
\* Mutant: the RST is forgotten.
kill_silent == SetState("Killed") /\ UNCHANGED pending

kill == SetState("Killed") /\ pending' = pending \cup {"Rst"}

-----------------------------------------------------------------------------
(* Construction: new_peer_init takes the guest's buffer size from the      *)
(* request packet, new_local_init learns it from the response.             *)

NewGuest == [open |-> FALSE, snd_off |-> FALSE, tx |-> 0, known |-> 0, fwd |-> 0,
             held |-> 0]

new_peer_init == [state |-> "PeerInit", pending |-> {"Response"}, alloc |-> GuestBuf]
new_local_init == [state |-> "LocalInit", pending |-> {"Request"}, alloc |-> 0]

ConnInit ==
    /\ \E c \in {new_peer_init, new_local_init} :
          state = c.state /\ pending = c.pending /\ peer_alloc = c.alloc
    /\ rcv_off = FALSE /\ snd_off = FALSE /\ expiry = 0
    /\ tx_buf = <<>> /\ fwd_cnt = 0 /\ last_fwd = 0 /\ peer_fwd = 0 /\ rx_cnt = 0
    /\ open = TRUE /\ tx_queue = <<>> /\ rxpkt = NoPkt /\ guest = NewGuest /\ out = 0

Start(c) ==
    /\ state' = c.state /\ pending' = c.pending /\ peer_alloc' = c.alloc
    /\ rcv_off' = FALSE /\ snd_off' = FALSE /\ expiry' = 0
    /\ tx_buf' = <<>> /\ fwd_cnt' = 0 /\ last_fwd' = 0 /\ peer_fwd' = 0 /\ rx_cnt' = 0
    /\ tx_queue' = <<>> /\ rxpkt' = NoPkt /\ guest' = NewGuest /\ out' = 0

\* The muxer drops the connection, and what the driver had queued for it no
\* longer matters: the variables wait for the next connection.
Dropped == open' = FALSE /\ Start(new_local_init)

NewConnection ==
    ~open /\ open' = TRUE /\ \E c \in {new_peer_init, new_local_init} : Start(c)

-----------------------------------------------------------------------------
(* recv_pkt: a packet for the guest's RX buffer, by the first pending      *)
(* indication that produces one.  Every packet carries fwd_cnt, and an RST  *)
(* is followed by the muxer's remove_connection.                           *)

Yield(op, len) ==
    rxpkt' = [op |-> op, len |-> len, fwd |-> fwd_cnt]
FwdSeen == last_fwd' = fwd_cnt
FwdNotSeen == UNCHANGED last_fwd

RecvCan(indication, before) ==
    open /\ rxpkt = NoPkt /\ indication \in pending /\ pending \cap before = {}

RecvRst == RecvCan("Rst", {}) /\ Dropped

RecvResponse ==
    /\ RecvCan("Response", {"Rst"})
    /\ pending' = pending \ {"Response"} /\ SetState("Established")
    /\ Yield("RESPONSE", 0) /\ FwdNotSeen
    /\ UNCHANGED <<expiry, tx_buf, fwd_cnt, peer_fwd, peer_alloc, rx_cnt, open,
                   tx_queue, guest, out>>

RecvRequest ==
    /\ RecvCan("Request", {"Rst", "Response"})
    /\ pending' = pending \ {"Request"} /\ expiry' = 1
    /\ Yield("REQUEST", 0) /\ FwdNotSeen
    /\ UNCHANGED <<state, rcv_off, snd_off, tx_buf, fwd_cnt, peer_fwd, peer_alloc,
                   rx_cnt, open, tx_queue, guest, out>>

RecvCanRw == RecvCan("Rw", {"Rst", "Response", "Request"})

\* Rw in a state that does not allow data: the connection is reset.
RecvRwInvalid == RecvCanRw /\ ~MayReceive /\ Dropped

RecvCreditRequest ==
    /\ RecvCanRw /\ MayReceive /\ need_credit_update_from_peer
    /\ pending' = pending \ {"Rw"}
    /\ Yield("CREDIT_REQUEST", 0) /\ FwdSeen
    /\ UNCHANGED <<state, rcv_off, snd_off, expiry, tx_buf, fwd_cnt, peer_fwd,
                   peer_alloc, rx_cnt, open, tx_queue, guest, out>>

RecvCanRead == RecvCanRw /\ MayReceive /\ ~need_credit_update_from_peer

\* n bytes read from the stream; the packet buffer and the credit limit them.
RecvData(n) ==
    /\ RecvCanRead /\ n <= peer_avail_credit
    /\ pending' = pending \ {"Rw"} /\ rx_cnt' = Plus(rx_cnt, n)
    /\ Yield("RW", n) /\ FwdSeen
    /\ UNCHANGED <<state, rcv_off, snd_off, expiry, tx_buf, fwd_cnt, peer_fwd,
                   peer_alloc, open, tx_queue, guest, out>>

RecvEof ==
    /\ RecvCanRead
    /\ pending' = pending \ {"Rw"} /\ SetState("LocalClosed") /\ expiry' = 1
    /\ Yield("SHUTDOWN", 0) /\ FwdSeen
    /\ UNCHANGED <<tx_buf, fwd_cnt, peer_fwd, peer_alloc, rx_cnt, open, tx_queue, guest, out>>

RecvReadError == RecvCanRead /\ Dropped

\* The last resort of recv_pkt, also after a read that would block: a credit
\* update, or NoData.
RecvCredit(left) ==
    /\ pending' = left \ {"CreditUpdate"}
    /\ IF left = {"CreditUpdate"}
       THEN Yield("CREDIT_UPDATE", 0) /\ FwdSeen
       ELSE UNCHANGED <<rxpkt, last_fwd>>
    /\ UNCHANGED <<state, rcv_off, snd_off, expiry, tx_buf, fwd_cnt, peer_fwd,
                   peer_alloc, rx_cnt, open, tx_queue, guest, out>>

RecvWouldBlock == RecvCanRead /\ RecvCredit(pending \ {"Rw"})

RecvCreditUpdate ==
    /\ RecvCan("CreditUpdate", {"Rst", "Response", "Request", "Rw"})
    /\ RecvCredit(pending)

recv_pkt ==
    \/ RecvRst \/ RecvResponse \/ RecvRequest
    \/ RecvRwInvalid \/ RecvCreditRequest \/ RecvEof \/ RecvReadError \/ RecvWouldBlock
    \/ \E n \in 1..MaxPkt : RecvData(n)
    \/ RecvCreditUpdate

-----------------------------------------------------------------------------
(* send_pkt: a guest packet.  The credit it carries is taken first, in     *)
(* every state.                                                            *)

Pkt == Head(tx_queue)
Data(p) == Bytes(p.first, p.len)
Take == /\ open /\ tx_queue # <<>> /\ tx_queue' = Tail(tx_queue)
        /\ peer_alloc' = GuestBuf /\ peer_fwd' = Pkt.fwd
        /\ UNCHANGED <<open, rxpkt, guest, rx_cnt, last_fwd>>

\* The host stream takes the bytes s; out is the one after the last of them.
ToHost(s) == out' = IF s = <<>> THEN out ELSE Plus(s[Len(s)], 1)

\* Mutant: the guest is not told about room made.
NoCreditUpdate(fwd) == UNCHANGED pending

WantsCreditUpdate(fwd) ==
    pending' = IF peer_needs_credit_update(fwd) THEN pending \cup {"CreditUpdate"}
               ELSE pending

\* send_bytes behind buffered data: all of it is pushed, or TxBufFull.
SendBuffered ==
    /\ Take /\ Pkt.op = "RW" /\ MaySend /\ tx_buf # <<>>
    /\ IF Len(tx_buf) + Pkt.len > TxBufSize
       THEN kill /\ UNCHANGED tx_buf
       ELSE /\ tx_buf' = tx_buf \o Data(Pkt)
            /\ WantsCreditUpdate(fwd_cnt) /\ UNCHANGED <<state, rcv_off, snd_off>>
    /\ UNCHANGED <<expiry, fwd_cnt, out>>

\* send_bytes with an empty buffer: n bytes are written (none when the write
\* would block), the rest is pushed.
SendWritten(n) ==
    /\ Take /\ Pkt.op = "RW" /\ MaySend /\ tx_buf = <<>> /\ n <= Pkt.len
    /\ fwd_cnt' = Plus(fwd_cnt, n)
    /\ ToHost(SubSeq(Data(Pkt), 1, n))
    /\ IF Pkt.len - n > TxBufSize
       THEN kill /\ UNCHANGED tx_buf
       ELSE /\ tx_buf' = SubSeq(Data(Pkt), n + 1, Pkt.len)
            /\ WantsCreditUpdate(fwd_cnt') /\ UNCHANGED <<state, rcv_off, snd_off>>
    /\ UNCHANGED expiry

SendWriteError ==
    /\ Take /\ Pkt.op = "RW" /\ MaySend /\ tx_buf = <<>> /\ kill
    /\ UNCHANGED <<expiry, tx_buf, fwd_cnt, out>>

SendResponse ==
    /\ Take /\ Pkt.op = "RESPONSE" /\ state = "LocalInit"
    /\ SetState("Established") /\ expiry' = 0
    /\ UNCHANGED <<pending, tx_buf, fwd_cnt, out>>

SendShutdown ==
    /\ Take /\ Pkt.op = "SHUTDOWN" /\ state \in {"Established", "PeerClosed"}
    /\ state' = "PeerClosed"
    /\ rcv_off' = (rcv_off \/ "RCV" \in Pkt.flags)
    /\ snd_off' = (snd_off \/ "SEND" \in Pkt.flags)
    /\ pending' = IF rcv_off' /\ snd_off' /\ tx_buf = <<>>
                  THEN pending \cup {"Rst"} ELSE pending
    /\ expiry' = IF state = "Established" /\ rcv_off' /\ snd_off' /\ tx_buf # <<>>
                 THEN 1 ELSE expiry
    /\ UNCHANGED <<tx_buf, fwd_cnt, out>>

SendCreditRequest ==
    /\ Take /\ Pkt.op = "CREDIT_REQUEST" /\ (state = "PeerInit" \/ MaySend)
    /\ pending' = pending \cup {"CreditUpdate"}
    /\ UNCHANGED <<state, rcv_off, snd_off, expiry, tx_buf, fwd_cnt, out>>

\* A credit update, which needs nothing more, and packets the state does not
\* expect.
SendIgnored ==
    /\ Take
    /\ CASE Pkt.op = "RW" -> ~MaySend
         [] Pkt.op = "RESPONSE" -> state # "LocalInit"
         [] Pkt.op = "SHUTDOWN" -> state \notin {"Established", "PeerClosed"}
         [] Pkt.op = "CREDIT_REQUEST" -> ~(state = "PeerInit" \/ MaySend)
         [] OTHER -> Pkt.op = "CREDIT_UPDATE"
    /\ UNCHANGED <<control, tx_buf, fwd_cnt, out>>

\* The muxer removes the connection on an RST without forwarding it.
SendRst == open /\ tx_queue # <<>> /\ Pkt.op = "RST" /\ Dropped

send_pkt ==
    \/ SendBuffered \/ SendWriteError \/ SendResponse \/ SendShutdown
    \/ \E n \in 0..MaxPkt : SendWritten(n)
    \/ SendCreditRequest \/ SendIgnored \/ SendRst

-----------------------------------------------------------------------------
(* notify: epoll events of the host stream.                                *)

NotifyIn ==
    /\ open /\ "IN" \in get_polled_evset
    /\ pending' = pending \cup {"Rw"}
    /\ UNCHANGED <<state, rcv_off, snd_off, expiry, counters, tx_buf, open, tx_queue,
                   rxpkt, guest, out>>

\* flush_to moves n bytes of the buffer to the stream.
NotifyOut(n) ==
    /\ open /\ "OUT" \in get_polled_evset /\ n <= Len(tx_buf)
    /\ ToHost(SubSeq(tx_buf, 1, n)) /\ tx_buf' = SubSeq(tx_buf, n + 1, Len(tx_buf))
    /\ fwd_cnt' = Plus(fwd_cnt, n)
    /\ IF ShutDown /\ tx_buf' = <<>>
       THEN pending' = pending \cup {"Rst"}
       ELSE WantsCreditUpdate(fwd_cnt')
    /\ UNCHANGED <<state, rcv_off, snd_off, expiry, last_fwd, peer_fwd, peer_alloc,
                   rx_cnt, open, tx_queue, rxpkt, guest>>

NotifyOutError ==
    /\ open /\ "OUT" \in get_polled_evset
    /\ SetState("Killed")
    /\ pending' = pending \cup {"Rst"} \cup
                     (IF peer_needs_credit_update(fwd_cnt) THEN {"CreditUpdate"} ELSE {})
    /\ UNCHANGED <<expiry, counters, tx_buf, open, tx_queue, rxpkt, guest, out>>

notify == NotifyIn \/ NotifyOutError \/ \E n \in 0..TxBufSize : NotifyOut(n)

\* The muxer finds the kill timer expired.
Expire ==
    /\ open /\ expiry = 1 /\ kill
    /\ UNCHANGED <<expiry, counters, tx_buf, open, tx_queue, rxpkt, guest, out>>

-----------------------------------------------------------------------------
(* The guest driver.                                                       *)

Queue(op, len, flags) ==
    /\ open /\ Len(tx_queue) < MaxQueued
    /\ tx_queue' = Append(tx_queue, [op |-> op, len |-> len, flags |-> flags, fwd |-> guest.fwd,
                                     first |-> guest.tx])

guestFree == Minus(TxBufSize, Minus(guest.tx, guest.known))

GuestData(n) ==
    /\ guest.open /\ ~guest.snd_off /\ n <= guestFree
    /\ Queue("RW", n, {})
    /\ guest' = [guest EXCEPT !.tx = Plus(@, n)]
    /\ UNCHANGED <<control, counters, tx_buf, open, rxpkt, out>>

GuestShutdown(flags) ==
    /\ guest.open /\ Queue("SHUTDOWN", 0, flags)
    /\ guest' = [guest EXCEPT !.snd_off = @ \/ "SEND" \in flags]
    /\ UNCHANGED <<control, counters, tx_buf, open, rxpkt, out>>

GuestControl ==
    /\ \E op \in {"CREDIT_UPDATE", "CREDIT_REQUEST", "RST"} : Queue(op, 0, {})
    /\ UNCHANGED <<control, counters, tx_buf, open, rxpkt, guest, out>>

\* The application reads what the driver holds.
GuestReads(n) ==
    /\ open /\ n <= guest.held
    /\ guest' = [guest EXCEPT !.held = @ - n, !.fwd = Plus(@, n)]
    /\ UNCHANGED <<control, counters, tx_buf, open, tx_queue, rxpkt, out>>

\* The driver takes a packet from its RX queue; it accepts a request.
GuestReceives ==
    /\ open /\ rxpkt # NoPkt /\ rxpkt' = NoPkt
    /\ guest' = [guest EXCEPT !.open = @ \/ rxpkt.op \in {"RESPONSE", "REQUEST"},
                              !.known = rxpkt.fwd,
                              !.held = @ + rxpkt.len]
    /\ IF rxpkt.op = "REQUEST" THEN Queue("RESPONSE", 0, {}) ELSE UNCHANGED tx_queue
    /\ UNCHANGED <<control, counters, tx_buf, open, out>>

GuestStep ==
    \/ \E n \in 1..MaxPkt : GuestData(n) \/ GuestReads(n)
    \/ \E flags \in (SUBSET {"RCV", "SEND"}) \ {{}} : GuestShutdown(flags)
    \/ GuestControl \/ GuestReceives

ConnNext == recv_pkt \/ send_pkt \/ notify \/ Expire \/ NewConnection \/ GuestStep
ConnSpec == ConnInit /\ [][ConnNext]_cvars

-----------------------------------------------------------------------------
(* Properties.                                                             *)

\* Types of the connection, its u32 counters and what is in flight.
ConnTypeOK ==
    /\ state \in {"LocalInit", "PeerInit", "Established", "LocalClosed", "PeerClosed",
                  "Killed"}
    /\ rcv_off \in BOOLEAN /\ snd_off \in BOOLEAN /\ expiry \in {0, 1}
    /\ pending \subseteq {"Request", "Response", "Rst", "Rw", "CreditUpdate"}
    /\ tx_buf \in Seq(Wrapped)
    /\ {fwd_cnt, last_fwd, peer_fwd, rx_cnt} \subseteq Wrapped
    /\ open \in BOOLEAN /\ Len(tx_queue) <= MaxQueued

\* How far the i-th packet, or what follows the last one, is ahead of the host.
Ahead(i) == Minus(IF i <= Len(tx_queue) THEN tx_queue[i].first ELSE guest.tx, fwd_cnt)

\* The bytes between the host and the guest's application are the consecutive
\* ones that follow what the host has got: send_bytes never overtakes the TX
\* buffer and nothing is lost while the connection forwards.
InOrder ==
    (open /\ MaySend) =>
        /\ out = fwd_cnt /\ tx_buf = Bytes(out, Len(tx_buf))
        /\ Ahead(1) = Len(tx_buf)
        /\ \A i \in 1..Len(tx_queue) : Ahead(i + 1) = Ahead(i) + tx_queue[i].len

\* A guest inside its credit never finds the TX buffer full: what it has sent
\* and the host has not taken fits ("Vsock flow control ensures that our TX
\* buffer doesn't overflow").
TxBufFits == (open /\ MaySend) => Minus(guest.tx, fwd_cnt) <= TxBufSize

\* The device never sends more than the guest has room for, however old the
\* credit in its packets.
GuestFits ==
    open => /\ guest.held + rxpkt.len <= GuestBuf
            /\ Minus(rx_cnt, guest.fwd) = guest.held + rxpkt.len

\* A guest whose credit is below the threshold, with everything it sent
\* forwarded, is about to be told: peer_needs_credit_update compares a
\* difference that wraps, and is evaluated only where fwd_cnt moves.
StarvedIsTold ==
    (open /\ MaySend /\ guest.open /\ guestFree < Threshold /\ Minus(guest.tx, fwd_cnt) = 0)
        => \/ pending # {}
           \/ rxpkt # NoPkt /\ Minus(rxpkt.fwd, guest.known) > 0

\* Flow control of a vsock connection, however its counters wrap and however
\* old the credit known: bytes stay in order, a guest inside its credit finds
\* room in the TX buffer, the guest is sent no more than it has room for, and
\* one that has run out of credit is told of what it has got back.
FlowControlled == InOrder /\ TxBufFits /\ GuestFits /\ StarvedIsTold

\* What the muxer sees of the connection.
Chan ==
    [state |-> state, rcv_off |-> rcv_off, snd_off |-> snd_off, pending |-> pending,
     expiry |-> expiry, buffered |-> tx_buf # <<>>, credit |-> peer_avail_credit # 0]
Abs == INSTANCE VsockChannel WITH chan <- Chan, Deadline <- 1
ChannelStep == UNCHANGED <<Chan, open>> \/ Abs!Next

\* The connection implements the channel the muxer works with: it begins as one,
\* and every step is a step of the channel or leaves it alone (Abs!Spec).
ImplementsChannel == Abs!Init /\ [][ChannelStep]_cvars
=============================================================================
