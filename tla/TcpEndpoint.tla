---------------------------- MODULE TcpEndpoint ----------------------------
(***************************************************************************)
(* One HTTP over TCP connection to the MMDS: the Endpoint of               *)
(* dumbo/src/tcp/endpoint.rs with its Connection, a guest TCP client, and  *)
(* the frames between them, which may be lost or repeated.  Requests are   *)
(* bytes up to an end mark "e" (the blank line); every response has ResLen *)
(* bytes, each labelled with its position in the stream of all responses.  *)
(***************************************************************************)
EXTENDS TcpConnection, SequencesExt

CONSTANTS
    RcvBuf,      \* RCV_BUF_MAX_SIZE
    ResLen,      \* bytes in a response
    HostIsn, GuestIsn,
    Scripts,     \* what the guest may want to send over a connection
    Windows,     \* receive windows the guest may announce
    MaxNet,      \* segments in flight in one direction
    MaxLoss,     \* segments lost
    MaxStray     \* segments of an earlier connection that turn up

VARIABLES ep, guest, to_host, to_guest, lost, strays
vars == <<ep, guest, to_host, to_guest, lost, strays>>

NoEndpoint == [conn |-> NoSeg]
Exists == ep # NoEndpoint

-----------------------------------------------------------------------------
(* The endpoint. answered and parsed only count, for the labels and for    *)
(* the properties.                                                         *)

\* The random initial sequence number, another one for another client.
Isn(s) == IF s.seq = GuestIsn THEN HostIsn ELSE Plus(HostIsn, Wrap \div 2)

new(s) ==
    [conn |-> passive_open(s, Isn(s), RcvBuf), receive_buf |-> <<>>, response_buf |-> <<>>,
     initial_response_seq |-> Plus(Isn(s), 1), response_seq |-> Plus(Isn(s), 1),
     stop_receiving |-> FALSE, answered |-> 0, parsed |-> 0]

Response(k) == [i \in 1..ResLen |-> k * ResLen + i]

\* Mutant: one byte short.
AlmostAcked(e) ==
    /\ e.response_buf # <<>>
    /\ Plus(e.conn.highest_ack, 1) = Plus(e.initial_response_seq, Len(e.response_buf))

AllAcked(e) ==
    /\ e.response_buf # <<>>
    /\ e.conn.highest_ack = Plus(e.initial_response_seq, Len(e.response_buf))

ClearAcked(e) ==
    IF AllAcked(e)
    THEN [e EXCEPT !.response_seq = e.conn.highest_ack,
                   !.initial_response_seq = e.conn.highest_ack, !.response_buf = <<>>]
    ELSE e

RequestEnd(buf) == SelectInSeq(buf, LAMBDA b : b = "e")

\* The first request leaves the buffer, its response is ready to be sent, and
\* the window opens by the room it leaves.
AnswerRequest(e) ==
    LET end == RequestEnd(e.receive_buf)
    IN  IF end = 0 THEN e
        ELSE [e EXCEPT !.response_buf = Response(e.answered),
                       !.receive_buf = SubSeq(@, end + 1, Len(@)),
                       !.conn = advance_local_rwnd_edge(@, end),
                       !.answered = @ + 1, !.parsed = @ + end]

CloseIfIdle(e) ==
    IF fin_received(e.conn) /\ e.response_buf = <<>>
    THEN [e EXCEPT !.conn = close(@)] ELSE e

ep_receive_segment(e, s) ==
    LET r == receive_segment(e.conn, s, RcvBuf - Len(e.receive_buf))
        f == ClearAcked([e EXCEPT !.conn = r.c, !.receive_buf = @ \o SubSeq(s.data, 1, r.len)])
        g == IF f.response_buf = <<>> THEN AnswerRequest(f) ELSE f
    IN  IF e.stop_receiving THEN e
        ELSE IF r.out = "err" THEN [e EXCEPT !.conn = r.c]
        ELSE IF r.out = "resetting" THEN [e EXCEPT !.conn = r.c, !.stop_receiving = TRUE]
        ELSE IF f.response_buf = <<>> /\ Len(g.receive_buf) = RcvBuf
        THEN [g EXCEPT !.conn = reset(@), !.stop_receiving = TRUE]
        ELSE CloseIfIdle(g)

\* Mutant: every write starts from the first byte.
NoOffset(e) == 0

Offset(e) == Minus(e.response_seq, e.initial_response_seq)

\* What is left to send, starting at response_seq.
payload_src(e) ==
    IF e.response_buf = <<>> THEN [data |-> <<>>, seq |-> None]
    ELSE [data |-> SubSeq(e.response_buf, Offset(e) + 1, Len(e.response_buf)),
          seq |-> e.response_seq]

\* The endpoint and the segment, or NoSeg.
ep_write_next_segment(e, expired) ==
    LET w == write_next_segment(e.conn, payload_src(e), expired)
    IN  [e |-> [e EXCEPT !.conn = w.c, !.response_seq = Plus(@, Len(w.seg.data))],
         seg |-> w.seg]

next_segment_status(e) ==
    IF \/ /\ e.response_buf # <<>>
          /\ seq_after(e.conn.remote_edge, e.conn.first_not_sent)
       \/ e.conn.dup_ack
    THEN "Available" ELSE control_status(e.conn)

-----------------------------------------------------------------------------
(* The guest's TCP client and the frames on the way.  Positions count the  *)
(* bytes of the script and of the response stream.                         *)

Init ==
    /\ ep = NoEndpoint
    /\ \E script \in Scripts :
         guest = [script |-> script, state |-> "closed", snd |-> 0, una |-> 0, edge |-> 0,
                  rcv |-> 0, adv |-> 0, fin |-> FALSE, peer_fin |-> FALSE]
    /\ to_host = <<>> /\ to_guest = <<>>
    /\ lost = 0 /\ strays = 0

ToHost(s) == Len(to_host) < MaxNet /\ to_host' = Append(to_host, s)
GuestSeq(pos) == Plus(GuestIsn, 1 + pos)
HostSeq(pos) == Plus(HostIsn, 1 + pos)

GuestSyn ==
    /\ guest.state \in {"closed", "syn"}
    /\ \E w \in Windows :
         /\ guest.state = "syn" => w = guest.adv
         /\ guest' = [guest EXCEPT !.state = "syn", !.adv = w]
         /\ ToHost([flags |-> {"SYN"}, seq |-> GuestIsn, ack |-> 0, win |-> w, data |-> <<>>])
    /\ UNCHANGED <<ep, to_guest, lost, strays>>

\* New data, a repetition of what is not acknowledged, or an acknowledgement;
\* the window it announces never shrinks.
GuestSends(from, n, w, fin) ==
    /\ guest.state = "open"
    /\ from + n <= Len(guest.script) /\ (n > 0 => from + n <= guest.edge)
    /\ fin => from + n = Len(guest.script)
    /\ guest.rcv + w >= guest.adv
    /\ guest' = [guest EXCEPT !.snd = IF from + n > @ THEN from + n ELSE @,
                              !.adv = guest.rcv + w, !.fin = @ \/ fin]
    /\ ToHost([flags |-> IF fin THEN {"ACK", "FIN"} ELSE {"ACK"}, seq |-> GuestSeq(from),
               ack |-> HostSeq(guest.rcv + (IF guest.peer_fin THEN 1 ELSE 0)),
               win |-> w, data |-> SubSeq(guest.script, from + 1, from + n)])
    /\ UNCHANGED <<ep, to_guest, lost, strays>>
GuestSend ==
    \E from \in guest.una..guest.snd, n \in 0..RcvBuf, w \in Windows, fin \in BOOLEAN :
      GuestSends(from, n, w, fin)
GuestAck == \E w \in Windows : GuestSends(guest.snd, 0, w, FALSE)

GuestReset ==
    /\ guest.state = "open"
    /\ guest' = [guest EXCEPT !.state = "dead"]
    /\ ToHost([NoSeg EXCEPT !.flags = {"RST"}, !.seq = GuestSeq(guest.snd)])
    /\ UNCHANGED <<ep, to_guest, lost, strays>>

\* A segment of an earlier connection from the same port.
Stray ==
    /\ strays < MaxStray /\ strays' = strays + 1
    /\ \E f \in {{"SYN"}, {"ACK"}, {"RST"}}, d \in {<<>>, <<"z">>} :
         ToHost([flags |-> f, seq |-> GuestSeq(RcvBuf + 2),
                 ack |-> HostSeq(Wrap \div 2 + 2), win |-> 0, data |-> d])
    /\ UNCHANGED <<ep, guest, to_guest, lost>>

Beyond(a, b) == IF a > b THEN a ELSE b
GuestAccepts(g, s) ==
    LET acked == Minus(s.ack, GuestSeq(0)) - (IF s.ack = GuestSeq(Len(g.script) + 1) THEN 1 ELSE 0)
        inorder == s.seq = HostSeq(g.rcv)
    IN  [g EXCEPT !.una = Beyond(@, acked), !.edge = Beyond(@, acked + s.win),
                  !.rcv = IF inorder THEN @ + Len(s.data) ELSE @,
                  !.peer_fin = @ \/ ("FIN" \in s.flags /\ inorder)]
GuestReceive ==
    /\ to_guest # <<>> /\ to_guest' = Tail(to_guest)
    /\ guest' = LET s == Head(to_guest)
                IN  IF "RST" \in s.flags THEN [guest EXCEPT !.state = "dead"]
                    ELSE IF guest.state = "syn" /\ "SYN" \in s.flags /\ s.ack = GuestSeq(0)
                    THEN [guest EXCEPT !.state = "open", !.edge = s.win]
                    ELSE IF guest.state = "open" /\ "SYN" \notin s.flags
                    THEN GuestAccepts(guest, s) ELSE guest
    /\ UNCHANGED <<ep, to_host, lost, strays>>

Lose ==
    /\ lost < MaxLoss /\ lost' = lost + 1
    /\ \/ to_host # <<>> /\ to_host' = Tail(to_host) /\ UNCHANGED to_guest
       \/ to_guest # <<>> /\ to_guest' = Tail(to_guest) /\ UNCHANGED to_host
    /\ UNCHANGED <<ep, guest, strays>>

-----------------------------------------------------------------------------
(* The handler's calls on the endpoint; one that is done is removed.       *)

Kept(e) == IF is_done(e.conn) THEN NoEndpoint ELSE e

HostReceive ==
    /\ to_host # <<>> /\ to_host' = Tail(to_host)
    /\ ep' = LET s == Head(to_host)
             IN  IF Exists THEN Kept(ep_receive_segment(ep, s))
                 ELSE IF is_valid_syn(s) THEN new(s) ELSE NoEndpoint
    /\ UNCHANGED <<guest, to_guest, lost, strays>>

HostWrite ==
    /\ Exists /\ next_segment_status(ep) # "Nothing"
    /\ Len(to_guest) < MaxNet
    /\ \E expired \in BOOLEAN :
         LET w == ep_write_next_segment(ep, expired)
         IN  /\ ep' = IF w.seg = NoSeg THEN w.e ELSE Kept(w.e)
             /\ to_guest' = IF w.seg = NoSeg THEN to_guest ELSE Append(to_guest, w.seg)
    /\ UNCHANGED <<guest, to_host, lost, strays>>

Next == \/ GuestSyn \/ GuestSend \/ GuestReset \/ Stray \/ GuestReceive \/ Lose
        \/ HostReceive \/ HostWrite

Spec == Init /\ [][Next]_vars

\* The event loop keeps calling the handler while it has something to send,
\* frames arrive, and the guest acknowledges what it gets.  The conditions are
\* the weak fairness of HostReceive, GuestReceive and HostWrite, which are the
\* only steps that shorten to_host, shorten to_guest, and change ep alone.
CanWrite ==
    /\ Exists /\ next_segment_status(ep) # "Nothing" /\ Len(to_guest) < MaxNet
    /\ \E expired \in BOOLEAN : ep_write_next_segment(ep, expired).e # ep
Fairness ==
    /\ WF_to_host(to_host # <<>> /\ to_host' = Tail(to_host))
    /\ WF_to_guest(to_guest # <<>> /\ to_guest' = Tail(to_guest))
    /\ []<>~CanWrite \/ []<><<ep' # ep /\ to_host' = to_host>>_vars
    /\ WF_vars(GuestAck)
LiveSpec == Spec /\ Fairness

-----------------------------------------------------------------------------
(* Properties.                                                             *)

Segment(bytes) ==
    [flags : SUBSET {"SYN", "ACK", "FIN", "RST"}, seq : 0..Wrap - 1, ack : 0..Wrap - 1,
     win : Nat, data : Seq(bytes)]
\* Types of the endpoint, its connection and the segments in flight.
TypeOK ==
    /\ to_host \in Seq(Segment({"x", "e", "z"})) /\ to_guest \in Seq(Segment(Nat))
    /\ Exists => /\ Len(ep.receive_buf) <= RcvBuf
                 /\ ep.conn.rto_count \in 0..RtoCountMax
                 /\ ep.conn.flags \subseteq {"SYN_RECEIVED", "SYNACK_SENT", "ESTABLISHED",
                                             "RESET", "FIN_SENT", "FIN_ACKED"}

\* Every byte sent to the guest carries the sequence number of its place in
\* the stream of responses, whatever was lost, repeated or timed out
\* (Endpoint::write_next_segment slices response_buf from response_seq).
ResponseIntact ==
    \A k \in DOMAIN to_guest :
      \A i \in DOMAIN to_guest[k].data :
        to_guest[k].data[i] = Minus(to_guest[k].seq, HostIsn) + i - 1

\* The receive buffer holds exactly the bytes of the guest's stream that were
\* acknowledged and not yet parsed: nothing twice, nothing skipped, nothing of
\* another connection.
RequestIntact ==
    Exists /\ is_established(ep.conn) =>
              LET accepted == Minus(ep.conn.ack_to_send, GuestSeq(0))
                              - (IF fin_received(ep.conn) THEN 1 ELSE 0)
              IN  ep.receive_buf = SubSeq(guest.script, ep.parsed + 1, accepted)

\* "We don't have to worry about writing out of bounds because we set the
\* receive window of the connection to match the size of the buffer"
\* (endpoint.rs): until a FIN, the open window is the room in the buffer.
WindowFitsBuffer ==
    Exists /\ ~fin_received(ep.conn)
      => Minus(ep.conn.local_edge, ep.conn.ack_to_send) = RcvBuf - Len(ep.receive_buf)

\* No byte is sent beyond the window the guest has announced.
RespectsGuestWindow ==
    \A k \in DOMAIN to_guest :
      LET s == to_guest[k]
      IN  s.data # <<>> => Minus(s.seq, HostSeq(0)) + Len(s.data) <= guest.adv

\* The endpoint closes its half only when no complete request waits in the
\* buffer and the guest has every response ("making sure there are no more
\* responses to send").
AnsweredBeforeClose ==
    Exists /\ ep.conn.send_fin # None
      => /\ RequestEnd(ep.receive_buf) = 0 /\ ep.response_buf = <<>>
         /\ guest.rcv >= ep.answered * ResLen

\* A call of write_next_segment that writes nothing leaves the status of the
\* endpoint as it was: write_next_packet skips it without looking again.
SilentWriteKeepsStatus ==
    Exists /\ ep' # NoEndpoint /\ to_host' = to_host /\ to_guest' = to_guest
      => next_segment_status(ep') = next_segment_status(ep)

\* A complete request in the buffer of a live connection is answered, or the
\* connection ends.
RequestsAreAnswered ==
    \A k \in 0..2 : (Exists /\ ep.answered = k /\ RequestEnd(ep.receive_buf) # 0
                       /\ is_established(ep.conn))
                     ~> (~Exists \/ ep.answered > k)
=============================================================================
