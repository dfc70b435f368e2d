--------------------------- MODULE TcpConnection ---------------------------
(***************************************************************************)
(* The TCP connection of the MMDS server (dumbo/src/tcp/connection.rs):    *)
(* passive open, flags instead of a state machine, sequence numbers modulo *)
(* Wrap compared within MaxWindow.  The operators return the connection    *)
(* after the call and its result.  A timestamp is only compared with the   *)
(* start of the retransmission timer, so write_next_segment takes the      *)
(* outcome of that comparison.                                             *)
(***************************************************************************)
EXTENDS Naturals, Sequences

CONSTANTS
    Wrap,         \* 2^32
    MaxWindow,    \* MAX_WINDOW_SIZE
    MaxAdvert,    \* u16::MAX
    Mss,          \* bytes in one segment
    RtoCountMax   \* rto_count_max

Plus(a, b) == (a + b) % Wrap
Minus(a, b) == (a + Wrap - b) % Wrap
seq_after(a, b) == a # b /\ Minus(a, b) < MaxWindow
seq_at_or_after(a, b) == Minus(a, b) < MaxWindow

\* An absent sequence number, and the absent segment.
None == Wrap
NoSeg == [flags |-> {}, seq |-> 0, ack |-> 0, win |-> 0, data |-> <<>>]

\* RstConfig::new and seq_ack_tcp_flags.
RstFor(s) == IF "ACK" \in s.flags THEN [seq |-> s.ack, ack |-> 0, flags |-> {"RST"}]
             ELSE [seq |-> 0, ack |-> Plus(s.seq, Len(s.data)), flags |-> {"RST", "ACK"}]
NoRst == [seq |-> 0, ack |-> 0, flags |-> {}]

is_valid_syn(s) == s.flags = {"SYN"} /\ s.data = <<>>

passive_open(s, isn, rwnd) ==
    [ack_to_send |-> Plus(s.seq, 1), highest_ack |-> isn,
     first_not_sent |-> Plus(isn, 1), local_edge |-> Plus(s.seq, 1 + rwnd),
     remote_edge |-> Plus(isn, 1 + s.win), rto_count |-> 0,
     fin_received |-> None, send_fin |-> None, send_rst |-> NoRst,
     pending_ack |-> FALSE, dup_ack |-> FALSE, flags |-> {"SYN_RECEIVED"}]

synack_sent(c) == "SYNACK_SENT" \in c.flags
synack_pending(c) == "SYN_RECEIVED" \in c.flags /\ ~synack_sent(c)
is_established(c) == "ESTABLISHED" \in c.flags
is_reset(c) == "RESET" \in c.flags
fin_sent(c) == "FIN_SENT" \in c.flags
rst_pending(c) == c.send_rst # NoRst
fin_received(c) == c.fin_received # None
is_done(c) == is_reset(c) \/ (fin_received(c) /\ fin_sent(c))
set_flags(c, f) == [c EXCEPT !.flags = @ \cup {f}]
enqueue_ack(c) == [c EXCEPT !.pending_ack = TRUE]
can_send_first_fin(c) == ~fin_sent(c) /\ c.send_fin = c.highest_ack

\* The MSS option of a repeated SYN is taken to be the same.
is_same_syn(c, s) == is_valid_syn(s) /\ c.ack_to_send = Plus(s.seq, 1)

local_rwnd(c) == LET rwnd == Minus(c.local_edge, c.ack_to_send)
                 IN  IF rwnd > MaxAdvert THEN MaxAdvert ELSE rwnd

close(c) == IF c.send_fin = None THEN [c EXCEPT !.send_fin = c.first_not_sent] ELSE c

make_rst_config(c) ==
    IF is_established(c) THEN [seq |-> c.first_not_sent, ack |-> 0, flags |-> {"RST"}]
    ELSE [seq |-> 0, ack |-> c.ack_to_send, flags |-> {"RST", "ACK"}]
reset(c) == IF rst_pending(c) THEN c ELSE [c EXCEPT !.send_rst = make_rst_config(c)]

advance_local_rwnd_edge(c, v) ==
    LET w == Minus(c.local_edge, c.ack_to_send)
        d == IF w = 0 THEN enqueue_ack(c) ELSE c
    IN  [d EXCEPT !.local_edge = IF Plus(v, w) > MaxWindow
                                 THEN Plus(c.ack_to_send, MaxWindow) ELSE Plus(@, v)]

-----------------------------------------------------------------------------
(* receive_segment: the connection, the number of bytes accepted, and      *)
(* whether it went well, failed, or put the connection on the way to reset. *)

Ok(c, n) == [c |-> c, len |-> n, out |-> "ok"]
Err(c) == [c |-> c, len |-> 0, out |-> "err"]
Resetting(c, s) ==
    [c |-> IF rst_pending(c) THEN c ELSE [c EXCEPT !.send_rst = RstFor(s)],
     len |-> 0, out |-> "resetting"]

valid_ack(c, ack) ==
    seq_at_or_after(ack, c.highest_ack) /\ seq_at_or_after(c.first_not_sent, ack)

\* The window is looked at only in an established connection, and its edge
\* never moves to the left.
remote_window(c, s) ==
    LET edge == Plus(s.ack, s.win)
    IN  IF is_established(c) /\ seq_after(edge, c.remote_edge)
        THEN [c EXCEPT !.remote_edge = edge] ELSE c

new_ack(c, ack) ==
    LET d == [set_flags(c, "ESTABLISHED") EXCEPT !.highest_ack = ack]
    IN  IF fin_sent(c) /\ ack = c.first_not_sent THEN set_flags(d, "FIN_ACKED") ELSE d

receive_ack(c, s) ==
    LET alive == [c EXCEPT !.rto_count = 0]
        dup == s.ack = c.highest_ack /\ s.ack # c.first_not_sent
    IN  IF "ACK" \notin s.flags THEN Ok(c, 0)
        ELSE IF ~valid_ack(c, s.ack)
        THEN IF is_established(c) THEN Ok(c, 0) ELSE Resetting(c, s)
        ELSE IF ~dup THEN Ok(remote_window(new_ack(alive, s.ack), s), 0)
        ELSE IF ~is_established(c) THEN Resetting(alive, s)
        ELSE Ok(remote_window([alive EXCEPT !.dup_ack = TRUE], s), 0)

\* A FIN counts when its sequence number is the next one expected.
receive_fin(c, s) ==
    LET fin_seq == Plus(s.seq, Len(s.data))
    IN  IF "FIN" \in s.flags /\ ~fin_received(c) /\ fin_seq = c.ack_to_send
        THEN enqueue_ack([c EXCEPT !.fin_received = fin_seq, !.ack_to_send = Plus(@, 1)])
        ELSE c

Expected(c, s) == s.seq = c.ack_to_send

receive_payload(c, s, room) ==
    LET end == Plus(s.seq, Len(s.data))
    IN  IF ~is_established(c) THEN Ok(c, 0)
        ELSE IF Len(s.data) > room THEN Err(c)
        ELSE IF s.data = <<>> THEN Ok(receive_fin(c, s), 0)
        ELSE IF \/ fin_received(c) /\ ~seq_at_or_after(c.fin_received, end)
                \/ ~seq_at_or_after(c.local_edge, end)
        THEN Ok(c, 0)
        ELSE IF ~Expected(c, s) THEN Ok(enqueue_ack(c), 0)
        ELSE Ok(receive_fin(enqueue_ack([c EXCEPT !.ack_to_send = end]), s), Len(s.data))

receive_segment(c, s, room) ==
    IF rst_pending(c) \/ is_reset(c) THEN Err(c)
    ELSE IF "RST" \in s.flags
    THEN Ok(IF seq_at_or_after(s.seq, c.ack_to_send) /\ seq_after(c.local_edge, s.seq)
            THEN set_flags(c, "RESET") ELSE c, 0)
    ELSE IF ~synack_sent(c)
    THEN IF is_same_syn(c, s) THEN Ok(c, 0) ELSE Resetting(c, s)
    ELSE IF ~is_established(c) /\ is_same_syn(c, s)
    THEN Ok([c EXCEPT !.flags = @ \ {"SYNACK_SENT"}], 0)
    ELSE IF "SYN" \in s.flags THEN Resetting(c, s)
    ELSE LET a == receive_ack(c, s)
         IN  IF a.out = "resetting" THEN a ELSE receive_payload(a.c, s, room)

-----------------------------------------------------------------------------
(* write_next_segment: the connection and the segment, or NoSeg; an error  *)
(* is NoSeg too, with what the call changed before it failed.              *)

Written(c, seg) == [c |-> c, seg |-> seg]

Nothing(c) == Written(c, NoSeg)

write_segment(c, seq, ack, flags, data) ==
    Written(IF "ACK" \in flags THEN [c EXCEPT !.pending_ack = FALSE] ELSE c,
            [flags |-> flags, seq |-> seq, ack |-> ack, win |-> local_rwnd(c), data |-> data])

write_control_segment(c) ==
    IF rst_pending(c)
    THEN write_segment(c, c.send_rst.seq, c.send_rst.ack, c.send_rst.flags, <<>>)
    ELSE IF ~is_established(c)
    THEN write_segment(c, Minus(c.first_not_sent, 1), c.ack_to_send, {"SYN", "ACK"}, <<>>)
    ELSE IF /\ c.send_fin # None /\ "FIN_ACKED" \notin c.flags
            /\ seq_at_or_after(c.highest_ack, c.send_fin)
    THEN write_segment(c, c.send_fin, c.ack_to_send, {"ACK", "FIN"}, <<>>)
    ELSE write_segment(c, c.highest_ack, c.ack_to_send, {"ACK"}, <<>>)

write_rst(c) ==
    LET w == write_control_segment(reset(c)) IN Written(set_flags(w.c, "RESET"), w.seg)

\* src is the send buffer and the sequence number of its first byte; rto says
\* that this is a retransmission after a timeout, already counted in c.
seq_to_send(c, rto) == IF rto \/ c.dup_ack THEN c.highest_ack ELSE c.first_not_sent

actual_end(c, src) ==
    LET payload_end == Plus(src.seq, Len(src.data))
    IN  IF seq_at_or_after(c.remote_edge, payload_end) THEN payload_end ELSE c.remote_edge

write_data(c, src, from, end) ==
    LET n == LET max == Minus(end, from) IN IF max < Mss THEN max ELSE Mss
        after == Plus(from, n)
        last == c.send_fin = after
        w == write_segment(c, from, c.ack_to_send, IF last THEN {"ACK", "FIN"} ELSE {"ACK"},
                           SubSeq(src.data, 1, n))
        next == IF last THEN Plus(after, 1) ELSE after
        d == [w.c EXCEPT !.dup_ack = FALSE,
                         !.flags = IF last THEN @ \cup {"FIN_SENT"} ELSE @,
                         !.first_not_sent = IF seq_after(next, @) THEN next ELSE @]
    IN  Written(d, w.seg)

write_control(c) ==
    LET first_fin == can_send_first_fin(c)
        w == write_control_segment(c)
    IN  IF first_fin
        THEN Written([set_flags(w.c, "FIN_SENT") EXCEPT !.first_not_sent = Plus(@, 1)], w.seg)
        ELSE IF c.pending_ack THEN w ELSE Nothing(c)

write_established(c, src, expired) ==
    LET rto == c.highest_ack # c.first_not_sent /\ expired
        d == IF rto THEN [c EXCEPT !.rto_count = @ + 1] ELSE c
        from == seq_to_send(d, rto)
        end == actual_end(d, src)
    IN  IF src.seq = None THEN write_control(c)
        ELSE IF rto /\ d.rto_count >= RtoCountMax THEN write_rst(d)
        ELSE IF rto /\ c.send_fin = c.highest_ack THEN write_control_segment(d)
        ELSE IF ~seq_at_or_after(from, src.seq) THEN Nothing(d)
        ELSE IF c.send_fin # None /\ seq_after(end, c.send_fin) THEN Nothing(d)
        ELSE IF seq_after(end, from) THEN write_data(d, src, from, end)
        ELSE write_control(d)

write_next_segment(c, src, expired) ==
    IF is_reset(c) THEN Nothing(c)
    ELSE IF rst_pending(c) THEN write_rst(c)
    ELSE IF synack_pending(c)
    THEN LET w == write_control_segment(c) IN Written(set_flags(w.c, "SYNACK_SENT"), w.seg)
    ELSE IF is_established(c) THEN write_established(c, src, expired)
    ELSE IF ~expired THEN Nothing(c)
    ELSE IF c.rto_count + 1 >= RtoCountMax
    THEN write_rst([c EXCEPT !.rto_count = @ + 1])
    ELSE write_control_segment([c EXCEPT !.rto_count = @ + 1])

\* control_segment_or_timeout_status.
control_status(c) ==
    IF synack_pending(c) \/ rst_pending(c) \/ can_send_first_fin(c) \/ c.pending_ack
    THEN "Available"
    ELSE IF c.highest_ack # c.first_not_sent THEN "Timeout" ELSE "Nothing"
=============================================================================
