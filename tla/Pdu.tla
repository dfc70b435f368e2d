--------------------------------- MODULE Pdu ---------------------------------
(***************************************************************************)
(* How the MMDS network stack takes frames apart and puts segments together  *)
(* (dumbo/src/pdu/{ethernet,arp,ipv4,tcp}.rs, mmds/src/ns.rs).  A frame is   *)
(* its length and the header fields the code reads, in any combination; an   *)
(* unchecked access is the range of bytes <<first, length>> that it touches. *)
(***************************************************************************)
EXTENDS Integers, Sequences, SequencesExt, FiniteSetsExt

CONSTANTS FrameLens, TotalLens, HeaderLens, DataOffsets,   \* frames
          BufLens, MssLefts, PayloadLens,                  \* segments
          Kinds, MaxOptions                                \* TCP options

ETH == 14             \* ethernet::PAYLOAD_OFFSET
ARP_LEN == 28         \* ETH_IPV4_FRAME_LEN
OPTIONS_OFFSET == 20  \* of IPv4 and of TCP
MAX_HEADER_LEN == 60
OPTION_LEN_MSS == 4
EOL == 0
NOP == 1
MSS == 2

VARIABLES frame, seg,   \* the frame received, the segment written
          kinds         \* the kinds of the options of a SYN
pduvars == <<frame, seg, kinds>>

Frames == [len : FrameLens, ethertype : {"arp", "ipv4", "other"}, to_mmds : BOOLEAN, arp_request : BOOLEAN,
           version4 : BOOLEAN, header_len : HeaderLens, total_len : TotalLens, tcp : BOOLEAN, data_offset : DataOffsets]

-----------------------------------------------------------------------------
(* Reading frames.                                                         *)

long_enough(n, least) == n >= least

\* test_speculative_tpa, test_speculative_dst_addr, is_mmds_frame
fits_arp(f) == long_enough(f.len, ETH + ARP_LEN)
fits_ipv4(f) == long_enough(f.len, ETH + OPTIONS_OFFSET)
is_mmds_frame(f) ==
    /\ long_enough(f.len, ETH) /\ f.to_mmds
    /\ \/ f.ethertype = "arp" /\ fits_arp(f)
       \/ f.ethertype = "ipv4" /\ fits_ipv4(f)

\* EthIPv4ArpFrame::request_from_bytes on the payload
arp_accepted(f) == f.ethertype = "arp" /\ f.len - ETH = ARP_LEN /\ f.arp_request

total_len_ok(f) == f.total_len >= f.header_len
ipv4_accepted(f) ==
    /\ f.ethertype = "ipv4" /\ long_enough(f.len - ETH, OPTIONS_OFFSET) /\ f.version4
    /\ total_len_ok(f) /\ f.total_len = f.len - ETH /\ f.header_len >= OPTIONS_OFFSET

\* TcpSegment::from_bytes
segment_len(f) == f.len - ETH - f.header_len
tcp_accepted(f) ==
    /\ ipv4_accepted(f) /\ f.tcp /\ long_enough(segment_len(f), OPTIONS_OFFSET)
    /\ LET h == f.data_offset * 4 IN h >= OPTIONS_OFFSET /\ h <= Min({MAX_HEADER_LEN, segment_len(f)})

\* detour_frame
consumed(f) == long_enough(f.len, ETH) /\ (arp_accepted(f) \/ ipv4_accepted(f))

\* The bytes that is_mmds_frame and detour_frame touch without a check of their own.
If(cond, access) == IF cond THEN {access} ELSE {}
Accesses(f) ==
    LET tcp_header == 4 * f.data_offset IN UNION {
    If(long_enough(f.len, ETH), <<ETH - 2, 2>>),
    If(f.ethertype = "arp" /\ fits_arp(f), <<ETH + 24, 4>>),
    If(f.ethertype = "ipv4" /\ fits_ipv4(f), <<ETH + 16, 4>>),
    If(arp_accepted(f), <<ETH, ARP_LEN>>),
    If(ipv4_accepted(f), <<ETH + f.header_len, segment_len(f)>>),
    If(tcp_accepted(f), <<ETH + f.header_len + tcp_header, segment_len(f) - tcp_header>>)}

-----------------------------------------------------------------------------
(* Writing a segment.                                                      *)

NoSegment == [written |-> FALSE]

mss_left(s) == IF s.mss_option THEN s.mss_remaining - OPTION_LEN_MSS ELSE s.mss_remaining
header_of(s) == OPTIONS_OFFSET + (IF s.mss_option THEN OPTION_LEN_MSS ELSE 0)
room_for_payload(s) == Min({s.buf_len - header_of(s), mss_left(s), s.payload, s.max_payload})

\* write_incomplete_segment: the arguments s, or nothing where it fails
write_incomplete_segment(s) ==
    IF \/ s.mss_option /\ s.mss_remaining < OPTION_LEN_MSS
       \/ s.buf_len < header_of(s)
       \/ s.payload # 0 /\ room_for_payload(s) = 0
    THEN NoSegment
    ELSE [written |-> TRUE, args |-> s, data_offset |-> ((header_of(s) * 4) % 256) \div 16,
          len |-> header_of(s) + (IF s.payload = 0 THEN 0 ELSE room_for_payload(s))]

-----------------------------------------------------------------------------
(* parse_mss_option_unchecked, where every option has the length of at least *)
(* 2 that its comment states.  The result: the place of the value, or 0.     *)

enough_left(b, i) == i + 3 < Len(b)

RECURSIVE mss_at(_, _)
mss_at(b, i) ==
    IF ~enough_left(b, i) THEN 0
    ELSE LET kind == b[i + 1] IN
         CASE kind = EOL -> 0
           [] kind = NOP -> mss_at(b, i + 1)
           [] kind = MSS -> i + 3
           [] OTHER -> mss_at(b, i + b[i + 2])
parse_mss(b) == mss_at(b, 0)

\* External: the bytes of an option of the guest.  A kind above MSS is taken for its length.
option(k) == IF k \in {EOL, NOP} THEN <<k>> ELSE IF k = MSS THEN <<MSS, OPTION_LEN_MSS, 0, 0>> ELSE [i \in 1..k |-> k]
options(ks) == FlattenSeq([i \in 1..Len(ks) |-> option(ks[i])])

-----------------------------------------------------------------------------

NoFrame == [len |-> 0]

PduInit == frame = NoFrame /\ seg = NoSegment /\ kinds = <<>>

Receive == \E f \in Frames : frame' = f /\ UNCHANGED <<seg, kinds>>
Send ==
    \E s \in [buf_len : BufLens, mss_option : BOOLEAN, mss_remaining : MssLefts,
             payload : PayloadLens, max_payload : PayloadLens] :
      seg' = write_incomplete_segment(s) /\ UNCHANGED <<frame, kinds>>
AddOption ==
    /\ Len(kinds) < MaxOptions
    /\ \E k \in Kinds : kinds' = Append(kinds, k)
    /\ UNCHANGED <<frame, seg>>

PduNext == frame = NoFrame /\ seg = NoSegment /\ ((kinds = <<>> /\ (Receive \/ Send)) \/ AddOption)
PduSpec == PduInit /\ [][PduNext]_pduvars

-----------------------------------------------------------------------------
(* Properties.                                                             *)

\* Types of the frame received, the segment written and the options read.
PduTypeOK == /\ frame \in Frames \cup {NoFrame} /\ kinds \in Seq(Kinds)
             /\ seg # NoSegment => seg.data_offset \in 5..15

\* "Cannot produce false negatives": a frame for the MMDS that the stack would
\* take is recognised as one, although the test looks at a fixed place of a
\* frame that was not validated.
NoFalseNegatives == frame # NoFrame => ((consumed(frame) /\ frame.to_mmds) => is_mmds_frame(frame))

\* Whatever the header fields say, the unchecked accesses stay in the frame.
AccessesInFrame == frame # NoFrame => \A a \in Accesses(frame) : a[2] >= 0 /\ a[1] + a[2] <= frame.len

\* A segment that is written fits its buffer and the peer's MSS, options
\* included, and is read back with the payload it was written with.
SegmentReadsBack ==
    seg # NoSegment =>
      LET s == seg.args IN
      /\ seg.len <= s.buf_len /\ seg.len - OPTIONS_OFFSET <= Max({s.mss_remaining, 0})
      /\ 4 * seg.data_offset = header_of(s) /\ 4 * seg.data_offset <= seg.len
      /\ (seg.len > 4 * seg.data_offset) <=> s.payload > 0

\* The MSS of a SYN is found behind any options that may come before it, and is
\* the first one.
MssIsFound ==
    LET before == {i \in 1..Len(kinds) : kinds[i] = MSS /\ \A h \in 1..i : kinds[h] # EOL}
    IN parse_mss(options(kinds)) = IF before = {} THEN 0 ELSE Len(options(SubSeq(kinds, 1, Min(before) - 1))) + 3
=============================================================================
