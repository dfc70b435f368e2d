----------------------------- MODULE ConnProofs -----------------------------
(***************************************************************************)
(* Proofs about one vsock connection (VsockConnection): its flow control,  *)
(* for every width of the counters, size of the buffers and length of the  *)
(* guest's queue.  ChannelProofs builds on its invariant to show that the  *)
(* connection implements the channel the muxer works with.                 *)
(***************************************************************************)
EXTENDS VsockConnection, Integers, TLAPS

Ops == {"RW", "RESPONSE", "SHUTDOWN", "CREDIT_REQUEST", "CREDIT_UPDATE", "RST"}
Packet == [op : Ops, len : Nat, flags : SUBSET {"RCV", "SEND"}, fwd : Wrapped, first : Wrapped]
RxOps == {"RESPONSE", "REQUEST", "CREDIT_REQUEST", "RW", "SHUTDOWN", "CREDIT_UPDATE"}
RxPacket == [op : RxOps, len : Nat, fwd : Wrapped] \cup {NoPkt}
Guest == [open : BOOLEAN, snd_off : BOOLEAN, tx : Wrapped, known : Wrapped, fwd : Wrapped,
          held : Nat]

ConnTypes ==
    /\ state \in {"LocalInit", "PeerInit", "Established", "LocalClosed", "PeerClosed",
                  "Killed"}
    /\ rcv_off \in BOOLEAN /\ snd_off \in BOOLEAN /\ expiry \in {0, 1}
    /\ pending \in SUBSET {"Request", "Response", "Rst", "Rw", "CreditUpdate"}
    /\ tx_buf \in Seq(Wrapped)
    /\ fwd_cnt \in Wrapped /\ last_fwd \in Wrapped /\ peer_fwd \in Wrapped
    /\ rx_cnt \in Wrapped /\ peer_alloc \in {0, GuestBuf}
    /\ open \in BOOLEAN /\ tx_queue \in Seq(Packet) /\ rxpkt \in RxPacket
    /\ guest \in Guest /\ out \in Wrapped

Opening == state \in {"LocalInit", "PeerInit"}

\* Before a connection is established no byte has moved; a REQUEST is sent once;
\* a driver that has not opened the connection has queued neither data nor a
\* response, and its response comes before its data.
Handshake ==
    /\ (state # "PeerClosed") => (~rcv_off /\ ~snd_off)
    /\ (state = "Killed") => ("Rst" \in pending)
    /\ ("Response" \in pending) => (state \in {"PeerInit", "Killed"})
    /\ ("Request" \in pending) => (state \in {"LocalInit", "Killed"})
    /\ (state = "PeerInit") => ("Response" \in pending)
    /\ (state = "PeerInit") => (~guest.open /\ rxpkt = NoPkt)
    /\ (state = "LocalInit" /\ "Request" \in pending) => (~guest.open /\ rxpkt = NoPkt)
    /\ (state = "LocalInit") => (rxpkt = NoPkt \/ rxpkt.op = "REQUEST")
    /\ (state = "LocalInit") => ("CreditUpdate" \notin pending)
    /\ Opening => (tx_buf = <<>> /\ fwd_cnt = 0 /\ last_fwd = 0)

Ordered(q, fresh, opened) ==
    /\ \A i \in 1..Len(q) : q[i].len > 0 => q[i].op = "RW"
    /\ ~opened => \A i \in 1..Len(q) : q[i].len = 0 /\ q[i].op # "RESPONSE"
    /\ (fresh /\ opened) => \E j \in 1..Len(q) : q[j].op = "RESPONSE"
    /\ fresh => \A i \in 1..Len(q) : q[i].len > 0 => \E j \in 1..(i - 1) : q[j].op = "RESPONSE"

QueueOrder == Ordered(tx_queue, state = "LocalInit", guest.open)

\* Data of the guest still reaches the host.
Forwards == Opening \/ MaySend

\* How far the i-th packet of the queue q, or t, the end of the guest's stream, is
\* ahead of the host at f.
Dist(q, t, f, i) == Minus(IF i <= Len(q) THEN q[i].first ELSE t, f)

\* The data of the packets in q begins n bytes after f, has no gaps and ends at t.
Chain(q, t, f, n) ==
    /\ Dist(q, t, f, 1) = n
    /\ \A i \in 1..Len(q) : Dist(q, t, f, i + 1) = Dist(q, t, f, i) + q[i].len
    /\ \A i, j \in 1..(Len(q) + 1) : i <= j => Dist(q, t, f, i) <= Dist(q, t, f, j)

TxOrder ==
    Forwards =>
        /\ out = fwd_cnt /\ tx_buf = Bytes(fwd_cnt, Len(tx_buf))
        /\ Chain(tx_queue, guest.tx, fwd_cnt, Len(tx_buf))

\* What the driver knows of the host's progress is behind what it was last told,
\* which is behind that progress; and it has sent at most a buffer more.
TxCredit ==
    Forwards =>
        /\ IF rxpkt = NoPkt THEN guest.known = last_fwd ELSE rxpkt.fwd = last_fwd
        /\ Minus(guest.tx, fwd_cnt) <= Minus(guest.tx, last_fwd)
        /\ Minus(guest.tx, last_fwd) <= Minus(guest.tx, guest.known)
        /\ Minus(guest.tx, guest.known) <= TxBufSize
        /\ peer_needs_credit_update(fwd_cnt) => (pending \cap {"Rst", "CreditUpdate"} # {})

\* The same for the other direction: the credit in the packets under way is old,
\* but never newer in front of older, and the device stays inside the oldest.
RxChain(q, r, g, p) ==
    /\ Minus(r, g) <= Minus(r, p)
    /\ \A i \in 1..Len(q) : Minus(r, g) <= Minus(r, q[i].fwd) /\ Minus(r, q[i].fwd) <= Minus(r, p)
    /\ \A i, j \in 1..Len(q) : i <= j => Minus(r, q[j].fwd) <= Minus(r, q[i].fwd)

RxCredit ==
    /\ Minus(rx_cnt, guest.fwd) = guest.held + rxpkt.len
    /\ Minus(rx_cnt, peer_fwd) <= peer_alloc
    /\ RxChain(tx_queue, rx_cnt, guest.fwd, peer_fwd)

ConnInv == ConnTypes /\ Handshake /\ QueueOrder /\ TxOrder /\ TxCredit /\ RxCredit

----------------------------------------------------------------------------
(* Counters that wrap.                                                     *)

LEMMA Constants ==
    /\ Wrap \in Nat /\ TxBufSize \in Nat /\ Threshold \in Nat /\ GuestBuf \in Nat
    /\ MaxPkt \in Nat /\ MaxQueued \in Nat
    /\ TxBufSize < Wrap /\ GuestBuf < Wrap /\ Threshold <= TxBufSize
  BY ConnAssumption, Zenon

LEMMA SameSeq ==
    ASSUME NEW S, NEW s \in Seq(S), NEW t \in Seq(S), Len(s) = Len(t),
           \A i \in 1..Len(s) : s[i] = t[i]
    PROVE  s = t
  OBVIOUS

LEMMA Joined ==
    ASSUME NEW S, NEW s \in Seq(S), NEW t \in Seq(S)
    PROVE  s \o t \in Seq(S) /\ Len(s \o t) = Len(s) + Len(t)
  OBVIOUS

LEMMA JoinedAt ==
    ASSUME NEW S, NEW s \in Seq(S), NEW t \in Seq(S), NEW i \in 1..(Len(s) + Len(t))
    PROVE  (s \o t)[i] = IF i <= Len(s) THEN s[i] ELSE t[i - Len(s)]
  OBVIOUS

LEMMA SameShift ==
    ASSUME NEW a \in Nat, NEW d \in Nat, NEW n \in Nat
    PROVE  (a + d) - n = (a - n) + d
  OBVIOUS

LEMMA TailIs ==
    ASSUME NEW S, NEW s \in Seq(S), s # << >>
    PROVE  /\ Tail(s) \in Seq(S) /\ Len(Tail(s)) = Len(s) - 1
           /\ \A i \in 1..Len(Tail(s)) : Tail(s)[i] = s[i + 1]
  OBVIOUS

\* A distance that does not wrap, and one that does.
LEMMA MinusIs ==
    ASSUME NEW a \in Wrapped, NEW b \in Wrapped
    PROVE  /\ Minus(a, b) \in Wrapped
           /\ Minus(a, b) = IF a >= b THEN a - b ELSE a + Wrap - b
  BY Constants DEF Minus, Wrapped

LEMMA MinusNat ==
    ASSUME NEW a \in Wrapped, NEW b \in Wrapped
    PROVE  Minus(a, b) \in Nat /\ Minus(a, b) < Wrap
  <1>1. Minus(a, b) \in Wrapped
    BY MinusIs, Zenon
  <1> QED BY <1>1, Constants DEF Wrapped

LEMMA PlusIs ==
    ASSUME NEW a \in Wrapped, NEW n \in Nat, n < Wrap
    PROVE  /\ Plus(a, n) \in Wrapped
           /\ Plus(a, n) = IF a + n < Wrap THEN a + n ELSE a + n - Wrap
  BY Constants DEF Plus, Wrapped

LEMMA PlusType ==
    ASSUME NEW a \in Wrapped, NEW n \in Nat
    PROVE  Plus(a, n) \in Wrapped
  BY Constants DEF Plus, Wrapped

\* The leading counter moves, and the distance grows.
LEMMA LeadMoves ==
    ASSUME NEW a \in Wrapped, NEW b \in Wrapped, NEW n \in Nat, Minus(a, b) + n < Wrap
    PROVE  Minus(Plus(a, n), b) = Minus(a, b) + n
  <1>1. n < Wrap
    BY MinusIs, Constants DEF Wrapped
  <1>2. Plus(a, n) \in Wrapped
    BY <1>1, PlusIs, Zenon
  <1> DEFINE d == Minus(a, b)
             x == Plus(a, n)
             z == Minus(Plus(a, n), b)
  <1>3. /\ d = (IF a >= b THEN a - b ELSE a + Wrap - b)
        /\ x = (IF a + n < Wrap THEN a + n ELSE a + n - Wrap)
        /\ z = (IF x >= b THEN x - b ELSE x + Wrap - b)
        /\ d \in Wrapped /\ x \in Wrapped
    BY <1>1, <1>2, MinusIs, PlusIs, Zenon
  <1> HIDE DEF d, x, z
  <1>4. d + n < Wrap
    BY Zenon DEF d
  <1>5. z = d + n
    BY <1>3, <1>4, Constants DEF Wrapped
  <1> QED BY <1>5, Zenon DEF z, d

\* The trailing counter moves, and the distance shrinks.
LEMMA TrailMoves ==
    ASSUME NEW a \in Wrapped, NEW b \in Wrapped, NEW n \in Nat, n <= Minus(a, b)
    PROVE  Minus(a, Plus(b, n)) = Minus(a, b) - n
  <1>1. n < Wrap
    BY MinusIs, Constants DEF Wrapped
  <1>2. Plus(b, n) \in Wrapped
    BY <1>1, PlusIs, Zenon
  <1> DEFINE d == Minus(a, b)
             x == Plus(b, n)
             z == Minus(a, Plus(b, n))
  <1>3. /\ d = (IF a >= b THEN a - b ELSE a + Wrap - b)
        /\ x = (IF b + n < Wrap THEN b + n ELSE b + n - Wrap)
        /\ z = (IF a >= x THEN a - x ELSE a + Wrap - x)
        /\ d \in Wrapped /\ x \in Wrapped
    BY <1>1, <1>2, MinusIs, PlusIs, Zenon
  <1> HIDE DEF d, x, z
  <1>4. n <= d
    BY Zenon DEF d
  <1>5. z = d - n
    BY <1>3, <1>4, Constants DEF Wrapped
  <1> QED BY <1>5, Zenon DEF z, d

LEMMA MinusSelf ==
    ASSUME NEW a \in Wrapped
    PROVE  Minus(a, a) = 0
  BY MinusIs DEF Wrapped

LEMMA PlusMinus ==
    ASSUME NEW a \in Wrapped, NEW b \in Wrapped
    PROVE  Plus(b, Minus(a, b)) = a
  <1>1. Minus(a, b) \in Nat /\ Minus(a, b) < Wrap
    BY MinusIs, Constants DEF Wrapped
  <1> DEFINE d == Minus(a, b)
             z == Plus(b, Minus(a, b))
  <1>2. /\ d = (IF a >= b THEN a - b ELSE a + Wrap - b)
        /\ z = (IF b + d < Wrap THEN b + d ELSE b + d - Wrap)
        /\ d \in Wrapped
    BY <1>1, MinusIs, PlusIs, Zenon
  <1> HIDE DEF d, z
  <1>3. z = a
    BY <1>2, Constants DEF Wrapped
  <1> QED BY <1>3, Zenon DEF z

LEMMA PlusPlus ==
    ASSUME NEW a \in Wrapped, NEW m \in Nat, NEW n \in Nat, m + n < Wrap
    PROVE  Plus(Plus(a, m), n) = Plus(a, m + n)
  <1>1. m < Wrap /\ n < Wrap
    BY Constants
  <1>2. Plus(a, m) \in Wrapped
    BY <1>1, PlusIs, Zenon
  <1>3. /\ Plus(a, m) = IF a + m < Wrap THEN a + m ELSE a + m - Wrap
        /\ Plus(a, m + n) = IF a + (m + n) < Wrap THEN a + (m + n) ELSE a + (m + n) - Wrap
    BY <1>1, PlusIs
  <1>4. Plus(Plus(a, m), n) = IF Plus(a, m) + n < Wrap THEN Plus(a, m) + n
                              ELSE Plus(a, m) + n - Wrap
    BY <1>1, <1>2, PlusIs, Zenon
  <1> DEFINE x == Plus(a, m)
             y == Plus(a, m + n)
             z == Plus(Plus(a, m), n)
  <1>5. z = y
    <2>1. /\ x = (IF a + m < Wrap THEN a + m ELSE a + m - Wrap)
          /\ y = (IF a + (m + n) < Wrap THEN a + (m + n) ELSE a + (m + n) - Wrap)
          /\ z = (IF x + n < Wrap THEN x + n ELSE x + n - Wrap)
          /\ x \in Wrapped
      BY <1>2, <1>3, <1>4, Zenon
    <2> HIDE DEF x, y, z
    <2> QED BY <2>1, Constants DEF Wrapped
  <1> QED BY <1>5, Zenon

LEMMA PlusZero ==
    ASSUME NEW a \in Wrapped
    PROVE  Plus(a, 0) = a
  BY PlusIs, Constants DEF Wrapped

LEMMA MinusZero ==
    ASSUME NEW a \in Wrapped, NEW b \in Wrapped, Minus(a, b) = 0
    PROVE  a = b
  BY PlusMinus, PlusZero, Zenon

\* What is left of a buffer smaller than the counters' range.
LEMMA Left ==
    ASSUME NEW a \in Nat, a < Wrap, NEW b \in Nat, b <= a
    PROVE  Minus(a, b) = a - b
  <1>1. a \in Wrapped /\ b \in Wrapped
    BY Constants DEF Wrapped
  <1> QED BY <1>1, MinusIs, Zenon

----------------------------------------------------------------------------
(* The bytes between the guest and the host.                               *)

LEMMA PacketFields ==
    ASSUME NEW p \in Packet
    PROVE  /\ p.op \in Ops /\ p.len \in Nat /\ p.flags \in SUBSET {"RCV", "SEND"}
           /\ p.fwd \in Wrapped /\ p.first \in Wrapped
  BY Zenon DEF Packet

LEMMA QueueFields ==
    ASSUME NEW q \in Seq(Packet), NEW i \in 1..Len(q)
    PROVE  /\ q[i] \in Packet /\ q[i].op \in Ops /\ q[i].len \in Nat
           /\ q[i].flags \in SUBSET {"RCV", "SEND"}
           /\ q[i].fwd \in Wrapped /\ q[i].first \in Wrapped
  <1>1. q[i] \in Packet
    OBVIOUS
  <1> QED BY <1>1, PacketFields, Zenon

LEMMA DistType ==
    ASSUME NEW q \in Seq(Packet), NEW t \in Wrapped, NEW f \in Wrapped, NEW i \in Nat \ {0}
    PROVE  /\ Dist(q, t, f, i) \in Wrapped
           /\ (IF i <= Len(q) THEN q[i].first ELSE t) \in Wrapped
  <1>1. (IF i <= Len(q) THEN q[i].first ELSE t) \in Wrapped
    <2>1. CASE i <= Len(q)
      <3>1. i \in 1..Len(q)
        BY <2>1
      <3> QED BY <2>1, <3>1, QueueFields, Zenon
    <2> QED BY <2>1, Zenon
  <1> QED BY <1>1, MinusIs, Zenon DEF Dist

\* The driver queues a packet that begins where its stream ends.
LEMMA ChainAppend ==
    ASSUME NEW q \in Seq(Packet), NEW t \in Wrapped, NEW f \in Wrapped, NEW n \in Nat,
           NEW p \in Packet, p.first = t, Chain(q, t, f, n), Minus(t, f) + p.len < Wrap
    PROVE  Chain(Append(q, p), Plus(t, p.len), f, n)
  <1> DEFINE r == Append(q, p)
             u == Plus(t, p.len)
  <1>1. p.len \in Nat
    BY Zenon DEF Packet
  <1>2. r \in Seq(Packet) /\ Len(r) = Len(q) + 1 /\ u \in Wrapped
    BY <1>1, PlusType
  <1>3. \A i \in 1..(Len(q) + 1) : Dist(r, u, f, i) = Dist(q, t, f, i)
    BY <1>2 DEF Dist
  <1>4. /\ Dist(q, t, f, Len(q) + 1) = Minus(t, f)
        /\ Dist(r, u, f, Len(q) + 2) = Minus(t, f) + p.len
    <2>1. Minus(u, f) = Minus(t, f) + p.len
      BY <1>1, LeadMoves, Zenon
    <2> QED BY <1>2, <2>1 DEF Dist
  <1>5. \A i \in 1..(Len(q) + 1) : Dist(q, t, f, i) \in Nat
    <2> SUFFICES ASSUME NEW i \in 1..(Len(q) + 1) PROVE Dist(q, t, f, i) \in Nat
      BY Zenon
    <2>1. i \in Nat \ {0}
      OBVIOUS
    <2>2. Dist(q, t, f, i) \in Wrapped
      BY <2>1, DistType, Zenon
    <2>3. \A d \in Wrapped : d \in Nat
      BY Constants DEF Wrapped
    <2> QED BY <2>2, <2>3, Zenon
  <1>6. \A i \in 1..(Len(q) + 1) : r[i] = IF i <= Len(q) THEN q[i] ELSE p
    BY <1>2
  <1>7. Dist(r, u, f, 1) = n
    BY <1>3 DEF Chain
  <1>8. \A i \in 1..Len(r) : Dist(r, u, f, i + 1) = Dist(r, u, f, i) + r[i].len
    BY <1>2, <1>3, <1>4, <1>6 DEF Chain
  <1>9. \A i, j \in 1..(Len(r) + 1) : i <= j => Dist(r, u, f, i) <= Dist(r, u, f, j)
    <2> SUFFICES ASSUME NEW i \in 1..(Len(r) + 1), NEW j \in 1..(Len(r) + 1), i <= j
                 PROVE  Dist(r, u, f, i) <= Dist(r, u, f, j)
      BY Zenon
    <2>1. CASE j <= Len(q) + 1
      <3>1. i \in 1..(Len(q) + 1) /\ j \in 1..(Len(q) + 1)
        BY <1>2, <2>1
      <3> QED BY <1>3, <3>1, Zenon DEF Chain
    <2>2. CASE j = Len(q) + 2
      <3>1. Dist(r, u, f, j) = Dist(q, t, f, Len(q) + 1) + p.len
        BY <1>4, <2>2, Zenon
      <3>2. i = Len(q) + 2 \/ i \in 1..(Len(q) + 1)
        BY <1>2
      <3>3. ASSUME i \in 1..(Len(q) + 1)
            PROVE  Dist(q, t, f, i) <= Dist(q, t, f, Len(q) + 1)
        BY <3>3 DEF Chain
      <3>4. Len(q) + 1 \in 1..(Len(q) + 1)
        OBVIOUS
      <3> DEFINE x == Dist(r, u, f, j)
                 y == Dist(q, t, f, Len(q) + 1)
                 z == Dist(r, u, f, i)
      <3>5. x = y + p.len /\ y \in Nat /\ (i \in 1..(Len(q) + 1) => z \in Nat /\ z <= y)
        BY <1>3, <1>5, <3>1, <3>3, <3>4, Zenon
      <3>6. (i = Len(q) + 2) => z = x
        BY <2>2, Zenon
      <3> HIDE DEF x, y, z
      <3>7. z <= x
        BY <1>1, <3>2, <3>5, <3>6, SMTT(30)
      <3> QED BY <3>7, Zenon DEF x, z
    <2> QED BY <1>2, <2>1, <2>2
  <1> QED BY <1>7, <1>8, <1>9, Zenon DEF Chain

\* The host has got n bytes more.
LEMMA ChainFlush ==
    ASSUME NEW q \in Seq(Packet), NEW t \in Wrapped, NEW f \in Wrapped, NEW l \in Nat,
           NEW n \in Nat, n <= l, Chain(q, t, f, l)
    PROVE  Chain(q, t, Plus(f, n), l - n)
  <1>1. ASSUME NEW i \in 1..(Len(q) + 1)
        PROVE  Dist(q, t, Plus(f, n), i) = Dist(q, t, f, i) - n /\ Dist(q, t, f, i) \in Nat
    <2> DEFINE x == IF i <= Len(q) THEN q[i].first ELSE t
    <2>0. i \in Nat \ {0}
      OBVIOUS
    <2>1. x \in Wrapped /\ Dist(q, t, f, i) \in Wrapped
      BY <2>0, DistType, Zenon
    <2>2. n <= Dist(q, t, f, i)
      <3>1. 1 \in 1..(Len(q) + 1) /\ 1 <= i
        OBVIOUS
      <3>2. Dist(q, t, f, 1) = l /\ Dist(q, t, f, 1) <= Dist(q, t, f, i)
        BY <3>1, Zenon DEF Chain
      <3> DEFINE x1 == Dist(q, t, f, i)
      <3>3. l <= x1 /\ x1 \in Nat
        BY <2>1, <3>2, Constants DEF Wrapped
      <3> HIDE DEF x1
      <3>4. n <= x1
        BY <3>3
      <3> QED BY <3>4, Zenon DEF x1
    <2>3. n <= Minus(x, f)
      BY <2>2, Zenon DEF Dist
    <2> HIDE DEF x
    <2>4. Minus(x, Plus(f, n)) = Minus(x, f) - n
      BY <2>1, <2>3, TrailMoves, Zenon
    <2> QED BY <2>1, <2>4, Constants DEF Dist, x, Wrapped
  <1>2. \A i \in 1..Len(q) : q[i].len \in Nat
    BY QueueFields, Zenon
  <1>3. Dist(q, t, Plus(f, n), 1) = l - n
    BY <1>1 DEF Chain
  <1>4. \A i \in 1..Len(q) :
            Dist(q, t, Plus(f, n), i + 1) = Dist(q, t, Plus(f, n), i) + q[i].len
    <2> SUFFICES ASSUME NEW i \in 1..Len(q)
                 PROVE  Dist(q, t, Plus(f, n), i + 1) = Dist(q, t, Plus(f, n), i) + q[i].len
      BY Zenon
    <2>1. i \in 1..(Len(q) + 1) /\ i + 1 \in 1..(Len(q) + 1)
      OBVIOUS
    <2>2. Dist(q, t, f, i + 1) = Dist(q, t, f, i) + q[i].len
      BY Zenon DEF Chain
    <2> DEFINE x == Dist(q, t, f, i)
               y == Dist(q, t, f, i + 1)
               k == q[i].len
    <2>3. /\ Dist(q, t, Plus(f, n), i) = x - n /\ Dist(q, t, Plus(f, n), i + 1) = y - n
          /\ y = x + k /\ x \in Nat /\ y \in Nat /\ k \in Nat
      BY <1>1, <1>2, <2>1, <2>2, Zenon
    <2> HIDE DEF x, y, k
    <2>4. y - n = (x - n) + k
      BY <2>3, SameShift, ZenonT(30)
    <2> QED BY <2>3, <2>4, Zenon DEF k
  <1>5. \A i, j \in 1..(Len(q) + 1) :
            i <= j => Dist(q, t, Plus(f, n), i) <= Dist(q, t, Plus(f, n), j)
    BY <1>1 DEF Chain
  <1> QED BY <1>3, <1>4, <1>5, Zenon DEF Chain

\* The device takes the first packet, behind whose data the host then is.
LEMMA ChainTail ==
    ASSUME NEW q \in Seq(Packet), q # <<>>, NEW t \in Wrapped, NEW f \in Wrapped, NEW l \in Nat,
           Chain(q, t, f, l)
    PROVE  Head(q).len \in Nat /\ Chain(Tail(q), t, f, l + Head(q).len)
  <1>1. Len(q) > 0 /\ Len(Tail(q)) = Len(q) - 1 /\ Head(q) = q[1] /\ q[1].len \in Nat
    <2>1. Len(q) > 0 /\ Len(Tail(q)) = Len(q) - 1 /\ Head(q) = q[1]
      OBVIOUS
    <2> QED BY <2>1, QueueFields
  <1>2. \A i \in 1..Len(Tail(q)) : Tail(q)[i] = q[i + 1]
    BY <1>1
  <1>3. \A i \in 1..Len(q) : Dist(Tail(q), t, f, i) = Dist(q, t, f, i + 1)
    BY <1>1, <1>2 DEF Dist
  <1>4. \A i \in 1..(Len(q) + 1) : Dist(q, t, f, i) \in Nat
    <2>1. \A i \in 1..(Len(q) + 1) : Dist(q, t, f, i) \in Wrapped
      BY DistType
    <2> QED BY <2>1, Constants DEF Wrapped
  <1>5. Dist(Tail(q), t, f, 1) = l + Head(q).len
    BY <1>1, <1>3, <1>4 DEF Chain
  <1>6. \A i \in 1..Len(Tail(q)) :
            Dist(Tail(q), t, f, i + 1) = Dist(Tail(q), t, f, i) + Tail(q)[i].len
    BY <1>1, <1>2, <1>3, <1>4 DEF Chain
  <1>7. \A i, j \in 1..(Len(Tail(q)) + 1) :
            i <= j => Dist(Tail(q), t, f, i) <= Dist(Tail(q), t, f, j)
    BY <1>1, <1>3 DEF Chain
  <1> QED BY <1>1, <1>5, <1>6, <1>7, Zenon DEF Chain

LEMMA BytesAre ==
    ASSUME NEW f \in Wrapped, NEW l \in Nat
    PROVE  /\ Bytes(f, l) \in Seq(Wrapped) /\ Len(Bytes(f, l)) = l
           /\ \A i \in 1..l : Bytes(f, l)[i] = Plus(f, i - 1)
  <1>1. \A i \in 1..l : Plus(f, i - 1) \in Wrapped
    BY PlusType
  <1> QED BY <1>1 DEF Bytes

\* Data pushed behind the data it follows.
LEMMA BytesPush ==
    ASSUME NEW f \in Wrapped, NEW l \in Nat, NEW n \in Nat, l + n < Wrap
    PROVE  Bytes(f, l) \o Bytes(Plus(f, l), n) = Bytes(f, l + n)
  <1> DEFINE a == Bytes(f, l)
             b == Bytes(Plus(f, l), n)
             c == Bytes(f, l + n)
  <1>1. Plus(f, l) \in Wrapped
    BY PlusType, Zenon
  <1>2. /\ a \in Seq(Wrapped) /\ Len(a) = l /\ \A i \in 1..l : a[i] = Plus(f, i - 1)
        /\ b \in Seq(Wrapped) /\ Len(b) = n /\ \A i \in 1..n : b[i] = Plus(Plus(f, l), i - 1)
        /\ c \in Seq(Wrapped) /\ Len(c) = l + n /\ \A i \in 1..(l + n) : c[i] = Plus(f, i - 1)
    BY <1>1, BytesAre, SMTT(30)
  <1> HIDE DEF a, b, c
  <1>3. \A i \in 1..n : b[i] = Plus(f, l + i - 1)
    <2> SUFFICES ASSUME NEW i \in 1..n
                 PROVE  b[i] = Plus(f, l + i - 1)
      BY Zenon
    <2>1. i - 1 \in Nat /\ l + (i - 1) < Wrap /\ l + (i - 1) = l + i - 1
      BY Constants
    <2> QED BY <1>2, <2>1, PlusPlus, Zenon
  <1>4. a \o b \in Seq(Wrapped) /\ Len(a \o b) = l + n
    BY <1>2, Joined, Zenon
  <1>5. ASSUME NEW i \in 1..(l + n)
        PROVE  (a \o b)[i] = c[i]
    <2>1. CASE i <= l
      <3>1. i \in 1..l
        BY <2>1
      <3>2. (a \o b)[i] = a[i]
        BY <1>2, <2>1, JoinedAt, Zenon
      <3> QED BY <1>2, <3>1, <3>2, Zenon
    <2>2. CASE ~(i <= l)
      <3>0. i - l \in 1..n /\ l + (i - l) - 1 = i - 1
        BY <2>2
      <3>1. (a \o b)[i] = b[i - l] /\ i - l \in 1..n /\ l + (i - l) - 1 = i - 1
        BY <1>2, <2>2, <3>0, JoinedAt, Zenon
      <3>2. b[i - l] = Plus(f, l + (i - l) - 1)
        BY <1>3, <3>1, Zenon
      <3> QED BY <1>2, <3>1, <3>2, Zenon
    <2> QED BY <2>1, <2>2, Zenon
  <1>6. a \o b = c
    BY <1>2, <1>4, <1>5, SameSeq, Zenon
  <1> QED BY <1>6, Zenon DEF a, b, c

\* The host has taken the first n bytes.
LEMMA BytesDrop ==
    ASSUME NEW f \in Wrapped, NEW l \in Nat, l < Wrap, NEW n \in Nat, n <= l
    PROVE  /\ SubSeq(Bytes(f, l), n + 1, l) = Bytes(Plus(f, n), l - n)
           /\ (IF SubSeq(Bytes(f, l), 1, n) = <<>> THEN f
               ELSE Plus(SubSeq(Bytes(f, l), 1, n)[Len(SubSeq(Bytes(f, l), 1, n))], 1))
              = Plus(f, n)
  <1> DEFINE a == Bytes(f, l)
             b == Bytes(Plus(f, n), l - n)
             c == SubSeq(a, n + 1, l)
             d == SubSeq(a, 1, n)
  <1>1. Plus(f, n) \in Wrapped /\ l - n \in Nat
    BY PlusType
  <1>2. /\ a \in Seq(Wrapped) /\ Len(a) = l /\ \A i \in 1..l : a[i] = Plus(f, i - 1)
        /\ b \in Seq(Wrapped) /\ Len(b) = l - n
        /\ \A i \in 1..(l - n) : b[i] = Plus(Plus(f, n), i - 1)
    BY <1>1, BytesAre, Zenon
  <1> HIDE DEF a, b
  <1>3. /\ c \in Seq(Wrapped) /\ Len(c) = l - n /\ \A i \in 1..(l - n) : c[i] = a[n + i]
        /\ d \in Seq(Wrapped) /\ Len(d) = n /\ \A i \in 1..n : d[i] = a[i]
    BY <1>2
  <1> HIDE DEF c, d
  <1>4. \A i \in 1..(l - n) : c[i] = b[i]
    <2> SUFFICES ASSUME NEW i \in 1..(l - n)
                 PROVE  c[i] = b[i]
      BY Zenon
    <2>1. i - 1 \in Nat /\ n + (i - 1) < Wrap /\ n + (i - 1) = (n + i) - 1 /\ n + i \in 1..l
      BY Constants
    <2>2. Plus(Plus(f, n), i - 1) = Plus(f, (n + i) - 1)
      BY <2>1, PlusPlus
    <2> QED BY <1>2, <1>3, <2>1, <2>2, Zenon
  <1>5. c = b
    BY <1>2, <1>3, <1>4, SMTT(30)
  <1>6. (IF d = <<>> THEN f ELSE Plus(d[Len(d)], 1)) = Plus(f, n)
    <2>1. CASE n = 0
      BY <1>3, <2>1, PlusZero
    <2>2. CASE n # 0
      <3>1. n - 1 \in Nat /\ (n - 1) + 1 < Wrap /\ (n - 1) + 1 = n /\ n \in 1..l /\ n \in 1..n
        BY <2>2, Constants
      <3>2. d # <<>> /\ d[Len(d)] = Plus(f, n - 1)
        BY <1>2, <1>3, <3>1
      <3>3. Plus(Plus(f, n - 1), 1) = Plus(f, n)
        BY <3>1, PlusPlus
      <3> QED BY <3>2, <3>3, Zenon
    <2> QED BY <2>1, <2>2, Zenon
  <1> QED BY <1>5, <1>6, Zenon DEF a, b, c, d

LEMMA HostTakes ==
    ASSUME NEW f \in Wrapped, NEW l \in Nat, l < Wrap, NEW n \in Nat, n <= l, out = f,
           ToHost(SubSeq(Bytes(f, l), 1, n))
    PROVE  out' = Plus(f, n)
  <1> DEFINE s == SubSeq(Bytes(f, l), 1, n)
  <1>1. (IF s = <<>> THEN f ELSE Plus(s[Len(s)], 1)) = Plus(f, n)
    BY BytesDrop, Zenon
  <1>2. out' = IF s = <<>> THEN out ELSE Plus(s[Len(s)], 1)
    BY Zenon DEF ToHost
  <1> HIDE DEF s
  <1> QED BY <1>1, <1>2, Zenon

----------------------------------------------------------------------------
(* The bytes between the host and the guest.                               *)

\* A packet with the newest credit.
LEMMA RxAppend ==
    ASSUME NEW q \in Seq(Packet), NEW r \in Wrapped, NEW g \in Wrapped, NEW p \in Wrapped,
           NEW k \in Packet, k.fwd = g, RxChain(q, r, g, p)
    PROVE  RxChain(Append(q, k), r, g, p)
  <1> DEFINE s == Append(q, k)
  <1>1. /\ Len(s) = Len(q) + 1 /\ s[Len(q) + 1] = k
        /\ \A i \in 1..Len(q) : s[i] = q[i]
    OBVIOUS
  <1>2. Minus(r, g) \in Nat
    BY MinusNat, Zenon
  <1> HIDE DEF s
  <1>3. \A i \in 1..Len(s) : i \in 1..Len(q) \/ (i = Len(q) + 1 /\ s[i].fwd = g)
    BY <1>1
  <1>4. \A i \in 1..Len(s) : Minus(r, g) <= Minus(r, s[i].fwd) /\ Minus(r, s[i].fwd) <= Minus(r, p)
    BY <1>1, <1>2, <1>3 DEF RxChain
  <1>5. \A i, j \in 1..Len(s) : i <= j => Minus(r, s[j].fwd) <= Minus(r, s[i].fwd)
    <2> SUFFICES ASSUME NEW i \in 1..Len(s), NEW j \in 1..Len(s), i <= j
                 PROVE  Minus(r, s[j].fwd) <= Minus(r, s[i].fwd)
      BY Zenon
    <2>1. CASE j = Len(q) + 1
      BY <1>3, <1>4, <2>1
    <2>2. CASE j # Len(q) + 1
      <3>1. i \in 1..Len(q) /\ j \in 1..Len(q)
        BY <1>1, <2>2
      <3> QED BY <1>1, <3>1, Zenon DEF RxChain
    <2> QED BY <2>1, <2>2, Zenon
  <1> QED BY <1>4, <1>5, Zenon DEF RxChain, s

\* The credit of the first packet is taken.
LEMMA RxTail ==
    ASSUME NEW q \in Seq(Packet), q # <<>>, NEW r \in Wrapped, NEW g \in Wrapped,
           NEW p \in Wrapped, RxChain(q, r, g, p)
    PROVE  RxChain(Tail(q), r, g, Head(q).fwd) /\ Minus(r, Head(q).fwd) <= Minus(r, p)
  <1>1. /\ Len(q) > 0 /\ Len(Tail(q)) = Len(q) - 1 /\ Head(q) = q[1]
        /\ \A i \in 1..Len(Tail(q)) : Tail(q)[i] = q[i + 1]
    OBVIOUS
  <1>2. 1 \in 1..Len(q) /\ \A i \in 1..Len(Tail(q)) : i + 1 \in 1..Len(q) /\ 1 <= i + 1
    BY <1>1
  <1> QED BY <1>1, <1>2 DEF RxChain

\* The device sends n bytes more.
LEMMA RxSend ==
    ASSUME NEW q \in Seq(Packet), NEW r \in Wrapped, NEW g \in Wrapped, NEW p \in Wrapped,
           NEW n \in Nat, Minus(r, p) + n < Wrap, RxChain(q, r, g, p)
    PROVE  /\ RxChain(q, Plus(r, n), g, p)
           /\ Minus(Plus(r, n), g) = Minus(r, g) + n
           /\ Minus(Plus(r, n), p) = Minus(r, p) + n
  <1>1. ASSUME NEW x \in Wrapped, Minus(r, x) <= Minus(r, p)
        PROVE  Minus(Plus(r, n), x) = Minus(r, x) + n /\ Minus(r, x) \in Nat
    <2>1. Minus(r, x) \in Nat /\ Minus(r, p) \in Nat
      BY MinusNat, Zenon
    <2>2. Minus(r, x) + n < Wrap
      BY <1>1, <2>1, Constants
    <2> QED BY <2>1, <2>2, LeadMoves, Zenon
  <1>2. Minus(r, p) \in Nat /\ Minus(r, p) <= Minus(r, p)
    BY MinusNat
  <1>3. /\ Minus(Plus(r, n), g) = Minus(r, g) + n /\ Minus(r, g) \in Nat
        /\ Minus(Plus(r, n), p) = Minus(r, p) + n
    BY <1>1, <1>2, Zenon DEF RxChain
  <1>4. ASSUME NEW i \in 1..Len(q)
        PROVE  Minus(Plus(r, n), q[i].fwd) = Minus(r, q[i].fwd) + n /\ Minus(r, q[i].fwd) \in Nat
    <2>1. q[i].fwd \in Wrapped
      BY QueueFields, Zenon
    <2> QED BY <1>1, <2>1, Zenon DEF RxChain
  <1>5. Minus(Plus(r, n), g) <= Minus(Plus(r, n), p)
    BY <1>2, <1>3 DEF RxChain
  <1>6. \A i \in 1..Len(q) : /\ Minus(Plus(r, n), g) <= Minus(Plus(r, n), q[i].fwd)
                             /\ Minus(Plus(r, n), q[i].fwd) <= Minus(Plus(r, n), p)
    BY <1>2, <1>3, <1>4 DEF RxChain
  <1>7. \A i, j \in 1..Len(q) :
            i <= j => Minus(Plus(r, n), q[j].fwd) <= Minus(Plus(r, n), q[i].fwd)
    BY <1>4 DEF RxChain
  <1> QED BY <1>3, <1>5, <1>6, <1>7, Zenon DEF RxChain

\* The guest's application takes n bytes.
LEMMA RxRead ==
    ASSUME NEW q \in Seq(Packet), NEW r \in Wrapped, NEW g \in Wrapped, NEW p \in Wrapped,
           NEW n \in Nat, n <= Minus(r, g), RxChain(q, r, g, p)
    PROVE  RxChain(q, r, Plus(g, n), p) /\ Minus(r, Plus(g, n)) = Minus(r, g) - n
  <1>1. Minus(r, g) \in Nat /\ Minus(r, p) \in Nat
    BY MinusNat, Zenon
  <1>2. Minus(r, Plus(g, n)) = Minus(r, g) - n
    BY TrailMoves, Zenon
  <1>3. \A i \in 1..Len(q) : Minus(r, q[i].fwd) \in Nat
    <2> SUFFICES ASSUME NEW i \in 1..Len(q) PROVE Minus(r, q[i].fwd) \in Nat
      BY Zenon
    <2>1. q[i].fwd \in Wrapped
      BY QueueFields, Zenon
    <2> QED BY <2>1, MinusNat, Zenon
  <1> QED BY <1>1, <1>2, <1>3 DEF RxChain

----------------------------------------------------------------------------
(* The inductive invariant: the steps that begin a connection.             *)

LEMMA NewFacts ==
    /\ 0 \in Wrapped /\ Minus(0, 0) = 0 /\ Minus(TxBufSize, 0) = TxBufSize
    /\ Bytes(0, 0) = <<>> /\ Chain(<<>>, 0, 0, 0) /\ RxChain(<<>>, 0, 0, 0)
    /\ NewGuest \in Guest /\ <<>> \in Seq(Wrapped) /\ <<>> \in Seq(Packet) /\ Len(<<>>) = 0
  <1>1. 0 \in Wrapped
    BY Constants DEF Wrapped
  <1>2. Minus(0, 0) = 0
    BY <1>1, MinusSelf, Zenon
  <1>3. Minus(TxBufSize, 0) = TxBufSize
    BY Constants, Left
  <1>4. Bytes(0, 0) = <<>> /\ Len(<<>>) = 0
    BY DEF Bytes
  <1>5. Chain(<<>>, 0, 0, 0) /\ RxChain(<<>>, 0, 0, 0)
    BY <1>2 DEF Chain, RxChain, Dist
  <1>6. NewGuest \in Guest
    BY <1>1, Zenon DEF NewGuest, Guest
  <1> QED BY <1>1, <1>2, <1>3, <1>4, <1>5, <1>6

LEMMA NewInv ==
    ASSUME state' \in {"PeerInit", "LocalInit"},
           (state' = "PeerInit") => (pending' = {"Response"} /\ peer_alloc' = GuestBuf),
           (state' = "LocalInit") => (pending' = {"Request"} /\ peer_alloc' = 0),
           rcv_off' = FALSE /\ snd_off' = FALSE /\ expiry' = 0,
           tx_buf' = <<>> /\ fwd_cnt' = 0 /\ last_fwd' = 0 /\ peer_fwd' = 0 /\ rx_cnt' = 0,
           tx_queue' = <<>> /\ rxpkt' = NoPkt /\ guest' = NewGuest /\ out' = 0,
           open' \in BOOLEAN
    PROVE  ConnInv'
  <1>1. ConnTypes'
    BY NewFacts, Constants, Zenon DEF ConnTypes, RxPacket
  <1>2. Handshake' /\ QueueOrder'
    BY DEF Handshake, QueueOrder, Ordered, Opening, NewGuest
  <1>3. TxOrder'
    BY NewFacts, Zenon DEF TxOrder, NewGuest
  <1>4. TxCredit'
    BY NewFacts, Constants DEF TxCredit, NewGuest, peer_needs_credit_update
  <1>5. RxCredit'
    BY NewFacts, Constants DEF RxCredit, NewGuest, NoPkt
  <1> QED BY <1>1, <1>2, <1>3, <1>4, <1>5, Zenon DEF ConnInv

LEMMA StartInv ==
    ASSUME NEW c \in {new_peer_init, new_local_init}, Start(c), open' \in BOOLEAN
    PROVE  ConnInv'
  <1>1. /\ state' = c.state /\ pending' = c.pending /\ peer_alloc' = c.alloc
        /\ rcv_off' = FALSE /\ snd_off' = FALSE /\ expiry' = 0
        /\ tx_buf' = <<>> /\ fwd_cnt' = 0 /\ last_fwd' = 0 /\ peer_fwd' = 0 /\ rx_cnt' = 0
        /\ tx_queue' = <<>> /\ rxpkt' = NoPkt /\ guest' = NewGuest /\ out' = 0
    BY Zenon DEF Start
  <1>2. CASE c = new_peer_init
    <2>1. state' = "PeerInit" /\ pending' = {"Response"} /\ peer_alloc' = GuestBuf
      BY <1>1, <1>2, Zenon DEF new_peer_init
    <2> QED BY <1>1, <2>1, NewInv, Zenon
  <1>3. CASE c = new_local_init
    <2>1. state' = "LocalInit" /\ pending' = {"Request"} /\ peer_alloc' = 0
      BY <1>1, <1>3, Zenon DEF new_local_init
    <2> QED BY <1>1, <2>1, NewInv, Zenon
  <1> QED BY <1>2, <1>3, Zenon

LEMMA InitInv ==
    ASSUME ConnInit
    PROVE  ConnInv
  <1>0. /\ \/ state = "PeerInit" /\ pending = {"Response"} /\ peer_alloc = GuestBuf
           \/ state = "LocalInit" /\ pending = {"Request"} /\ peer_alloc = 0
        /\ rcv_off = FALSE /\ snd_off = FALSE /\ expiry = 0
        /\ tx_buf = <<>> /\ fwd_cnt = 0 /\ last_fwd = 0 /\ peer_fwd = 0 /\ rx_cnt = 0
        /\ open = TRUE /\ tx_queue = <<>> /\ rxpkt = NoPkt /\ guest = NewGuest /\ out = 0
    BY DEF ConnInit, new_peer_init, new_local_init
  <1>1. ConnTypes
    BY <1>0, NewFacts, Constants, Zenon DEF ConnTypes, RxPacket
  <1>2. Handshake /\ QueueOrder
    BY <1>0 DEF Handshake, QueueOrder, Ordered, Opening, NewGuest
  <1>3. TxOrder
    BY <1>0, NewFacts, Zenon DEF TxOrder, NewGuest
  <1>4. TxCredit
    BY <1>0, NewFacts, Constants DEF TxCredit, NewGuest, peer_needs_credit_update
  <1>5. RxCredit
    BY <1>0, NewFacts, Constants DEF RxCredit, NewGuest, NoPkt
  <1> QED BY <1>1, <1>2, <1>3, <1>4, <1>5, Zenon DEF ConnInv

ResetSteps == RecvRst \/ RecvRwInvalid \/ RecvReadError \/ SendRst \/ NewConnection

LEMMA ResetInv ==
    ASSUME ResetSteps
    PROVE  ConnInv'
  <1>1. \E c \in {new_peer_init, new_local_init} : Start(c) /\ open' \in BOOLEAN
    BY Zenon DEF ResetSteps, RecvRst, RecvRwInvalid, RecvReadError, SendRst, NewConnection, Dropped
  <1> QED BY <1>1, StartInv, Zenon

----------------------------------------------------------------------------
(* The inductive invariant: types.                                         *)

\* The steps of recv_pkt that answer with a packet or with nothing.
RecvSteps ==
    \/ RecvResponse \/ RecvRequest \/ RecvCreditRequest \/ RecvEof
    \/ RecvWouldBlock \/ RecvCreditUpdate \/ \E n \in 1..MaxPkt : RecvData(n)
TakeSteps ==
    \/ SendBuffered \/ SendWriteError \/ SendResponse \/ SendShutdown
    \/ SendCreditRequest \/ SendIgnored \/ \E n \in 0..MaxPkt : SendWritten(n)

LEMMA NextSteps ==
    ConnNext => ResetSteps \/ RecvSteps \/ TakeSteps \/ notify \/ Expire \/ GuestStep
  BY Zenon DEF ConnNext, recv_pkt, send_pkt, ResetSteps, RecvSteps, TakeSteps

LEMMA TakeFacts ==
    ASSUME ConnTypes, Take
    PROVE  /\ tx_queue # <<>> /\ Len(tx_queue) > 0 /\ Pkt = tx_queue[1] /\ Pkt \in Packet
           /\ Pkt.op \in Ops /\ Pkt.len \in Nat /\ Pkt.flags \in SUBSET {"RCV", "SEND"}
           /\ Pkt.fwd \in Wrapped /\ Pkt.first \in Wrapped
           /\ tx_queue' = Tail(tx_queue) /\ tx_queue' \in Seq(Packet)
           /\ Len(tx_queue') = Len(tx_queue) - 1
           /\ \A i \in 1..Len(tx_queue') : tx_queue'[i] = tx_queue[i + 1]
           /\ peer_alloc' = GuestBuf /\ peer_fwd' = Pkt.fwd
           /\ open' = open /\ rxpkt' = rxpkt /\ guest' = guest /\ rx_cnt' = rx_cnt
           /\ last_fwd' = last_fwd
  <1>1. tx_queue \in Seq(Packet) /\ tx_queue # <<>> /\ tx_queue' = Tail(tx_queue)
    BY Zenon DEF ConnTypes, Take
  <1>2. Len(tx_queue) > 0 /\ Pkt = tx_queue[1] /\ Pkt \in Packet
    BY <1>1 DEF Pkt
  <1>3. /\ tx_queue' \in Seq(Packet) /\ Len(tx_queue') = Len(tx_queue) - 1
        /\ \A i \in 1..Len(tx_queue') : tx_queue'[i] = tx_queue[i + 1]
    BY <1>1, TailIs, Zenon
  <1> QED BY <1>1, <1>2, <1>3, PacketFields, Zenon DEF Take

LEMMA GuestFields ==
    ASSUME guest \in Guest
    PROVE  /\ guest.open \in BOOLEAN /\ guest.snd_off \in BOOLEAN /\ guest.tx \in Wrapped
           /\ guest.known \in Wrapped /\ guest.fwd \in Wrapped /\ guest.held \in Nat
  BY Zenon DEF Guest

LEMMA RxFields ==
    ASSUME rxpkt \in RxPacket
    PROVE  rxpkt.len \in Nat /\ rxpkt.fwd \in Wrapped
  BY NewFacts DEF RxPacket, NoPkt

LEMMA YieldType ==
    ASSUME NEW op \in RxOps, NEW n \in Nat, fwd_cnt \in Wrapped, Yield(op, n)
    PROVE  rxpkt' \in RxPacket /\ rxpkt' # NoPkt /\ rxpkt'.op = op /\ rxpkt'.len = n
           /\ rxpkt'.fwd = fwd_cnt
  BY Zenon DEF Yield, RxPacket, NoPkt, RxOps

LEMMA QueueType ==
    ASSUME ConnTypes, NEW op \in Ops, NEW n \in Nat, NEW flags \in SUBSET {"RCV", "SEND"},
           Queue(op, n, flags)
    PROVE  \E p \in Packet : /\ tx_queue' = Append(tx_queue, p)
                             /\ p.op = op /\ p.len = n /\ p.fwd = guest.fwd /\ p.first = guest.tx
  <1> DEFINE p == [op |-> op, len |-> n, flags |-> flags, fwd |-> guest.fwd, first |-> guest.tx]
  <1>1. p \in Packet
    BY GuestFields, Zenon DEF ConnTypes, Packet
  <1>2. tx_queue' = Append(tx_queue, p)
    BY Zenon DEF Queue
  <1> QED BY <1>1, <1>2, Zenon

LEMMA RecvTypes ==
    ASSUME ConnTypes, RecvSteps
    PROVE  ConnTypes'
  <1>1. /\ open' = open /\ tx_queue' = tx_queue /\ guest' = guest /\ out' = out
        /\ tx_buf' = tx_buf /\ fwd_cnt' = fwd_cnt /\ peer_fwd' = peer_fwd
        /\ peer_alloc' = peer_alloc
    BY Zenon DEF RecvSteps, RecvResponse, RecvRequest, RecvCreditRequest, RecvEof, RecvWouldBlock,
           RecvCreditUpdate, RecvCredit, RecvData
  <1>2. /\ state' \in {"LocalInit", "PeerInit", "Established", "LocalClosed", "PeerClosed",
                       "Killed"}
        /\ rcv_off' \in BOOLEAN /\ snd_off' \in BOOLEAN /\ expiry' \in {0, 1}
        /\ pending' \in SUBSET {"Request", "Response", "Rst", "Rw", "CreditUpdate"}
    BY ZenonT(40) DEF RecvSteps, RecvResponse, RecvRequest, RecvCreditRequest, RecvEof, RecvWouldBlock,
           RecvCreditUpdate, RecvCredit, RecvData, ConnTypes, SetState
  <1>3. last_fwd' \in Wrapped
    BY Zenon DEF RecvSteps, RecvResponse, RecvRequest, RecvCreditRequest, RecvEof, RecvWouldBlock,
           RecvCreditUpdate, RecvCredit, RecvData, ConnTypes, FwdSeen, FwdNotSeen
  <1>4. rx_cnt' \in Wrapped
    BY PlusType DEF RecvSteps, RecvResponse, RecvRequest, RecvCreditRequest, RecvEof,
           RecvWouldBlock, RecvCreditUpdate, RecvCredit, RecvData, ConnTypes
  <1>5. rxpkt' = rxpkt \/ \E op \in RxOps, n \in Nat : Yield(op, n)
    BY Constants DEF RecvSteps, RecvResponse, RecvRequest, RecvCreditRequest, RecvEof,
           RecvWouldBlock, RecvCreditUpdate, RecvCredit, RecvData, RxOps
  <1>6. rxpkt' \in RxPacket
    BY <1>5, YieldType, Zenon DEF ConnTypes
  <1> QED BY <1>1, <1>2, <1>3, <1>4, <1>6, Zenon DEF ConnTypes

LEMMA SubSeqType ==
    ASSUME NEW s \in Seq(Wrapped), NEW m \in 1..(Len(s) + 1), NEW n \in 0..Len(s)
    PROVE  SubSeq(s, m, n) \in Seq(Wrapped)
  <1>1. \A i \in m..n : s[i] \in Wrapped
    OBVIOUS
  <1> QED BY <1>1

LEMMA ToHostType ==
    ASSUME NEW s \in Seq(Wrapped), out \in Wrapped, ToHost(s)
    PROVE  out' \in Wrapped
  <1>1. CASE s # <<>>
    <2>1. s[Len(s)] \in Wrapped
      BY <1>1
    <2> QED BY <1>1, <2>1, PlusType, Zenon DEF ToHost
  <1> QED BY <1>1, Zenon DEF ToHost

LEMMA TakeTypes ==
    ASSUME ConnTypes, TakeSteps
    PROVE  ConnTypes'
  <1> USE DEF TakeSteps, SendBuffered, SendWriteError, SendResponse, SendShutdown,
              SendCreditRequest, SendIgnored, SendWritten
  <1>1. Take
    BY Zenon
  <1>2. /\ open' \in BOOLEAN /\ tx_queue' \in Seq(Packet) /\ rxpkt' \in RxPacket
        /\ guest' \in Guest /\ rx_cnt' \in Wrapped /\ last_fwd' \in Wrapped
        /\ peer_fwd' \in Wrapped /\ peer_alloc' \in {0, GuestBuf}
        /\ Pkt.len \in Nat /\ Pkt.first \in Wrapped
    BY <1>1, TakeFacts, Zenon DEF ConnTypes
  <1>3. /\ state' \in {"LocalInit", "PeerInit", "Established", "LocalClosed", "PeerClosed",
                       "Killed"}
        /\ rcv_off' \in BOOLEAN /\ snd_off' \in BOOLEAN /\ expiry' \in {0, 1}
    BY ZenonT(40) DEF ConnTypes, kill, SetState, control
  <1>4. pending' \in SUBSET {"Request", "Response", "Rst", "Rw", "CreditUpdate"}
    BY Zenon DEF ConnTypes, kill, WantsCreditUpdate, control
  <1>5. Data(Pkt) \in Seq(Wrapped) /\ Len(Data(Pkt)) = Pkt.len
    BY <1>2, BytesAre, Zenon DEF Data
  <1>6. tx_buf' \in Seq(Wrapped) /\ out' \in Wrapped /\ fwd_cnt' \in Wrapped
    <2>1. CASE SendBuffered
      <3>1. tx_buf \o Data(Pkt) \in Seq(Wrapped)
        BY <1>5, Joined, Zenon DEF ConnTypes
      <3> QED BY <2>1, <3>1, Zenon DEF ConnTypes
    <2>2. ASSUME NEW n \in 0..MaxPkt, SendWritten(n)
          PROVE  tx_buf' \in Seq(Wrapped) /\ out' \in Wrapped /\ fwd_cnt' \in Wrapped
      <3>1. n \in Nat /\ n <= Pkt.len
        BY <2>2, Constants
      <3>2. SubSeq(Data(Pkt), 1, n) \in Seq(Wrapped) /\ SubSeq(Data(Pkt), n + 1, Pkt.len) \in Seq(Wrapped)
        BY <1>2, <1>5, <3>1, SubSeqType
      <3>3. fwd_cnt' \in Wrapped
        BY <2>2, <3>1, PlusType, Zenon DEF ConnTypes
      <3>4. out' \in Wrapped
        BY <2>2, <3>2, ToHostType, Zenon DEF ConnTypes
      <3>5. tx_buf' \in Seq(Wrapped)
        BY <2>2, <3>2, Zenon DEF ConnTypes
      <3> QED BY <3>3, <3>4, <3>5, Zenon
    <2>3. CASE ~SendBuffered /\ ~\E n \in 0..MaxPkt : SendWritten(n)
      <3>1. tx_buf' = tx_buf /\ out' = out /\ fwd_cnt' = fwd_cnt
        BY <2>3, Zenon
      <3> QED BY <3>1, Zenon DEF ConnTypes
    <2> QED BY <2>1, <2>2, <2>3, Zenon
  <1> QED BY <1>2, <1>3, <1>4, <1>6, Zenon DEF ConnTypes

LEMMA NotifyTypes ==
    ASSUME ConnTypes, notify \/ Expire
    PROVE  ConnTypes'
  <1>1. CASE NotifyIn \/ NotifyOutError \/ Expire
    BY <1>1, ZenonT(40) DEF ConnTypes, NotifyIn, NotifyOutError, Expire, kill, SetState, counters
  <1>2. ASSUME NEW n \in 0..TxBufSize, NotifyOut(n)
        PROVE  ConnTypes'
    <2>1. n \in 0..Len(tx_buf) /\ tx_buf \in Seq(Wrapped) /\ n \in Nat
      BY <1>2, Constants DEF NotifyOut, ConnTypes
    <2>2. SubSeq(tx_buf, 1, n) \in Seq(Wrapped) /\ SubSeq(tx_buf, n + 1, Len(tx_buf)) \in Seq(Wrapped)
      BY <2>1, SubSeqType
    <2>3. out' \in Wrapped
      BY <1>2, <2>2, ToHostType, Zenon DEF NotifyOut, ConnTypes
    <2>4. fwd_cnt' \in Wrapped
      BY <1>2, <2>1, PlusType, Zenon DEF NotifyOut, ConnTypes
    <2> QED BY <1>2, <2>2, <2>3, <2>4, Zenon DEF NotifyOut, ConnTypes, WantsCreditUpdate
  <1> QED BY <1>1, <1>2, Zenon DEF notify

LEMMA GuestTypes ==
    ASSUME ConnTypes, GuestStep
    PROVE  ConnTypes'
  <1>0. /\ guest \in Guest /\ tx_queue \in Seq(Packet) /\ rxpkt \in RxPacket
        /\ guest.open \in BOOLEAN /\ guest.snd_off \in BOOLEAN /\ guest.tx \in Wrapped
        /\ guest.known \in Wrapped /\ guest.fwd \in Wrapped /\ guest.held \in Nat
        /\ rxpkt.len \in Nat /\ rxpkt.fwd \in Wrapped
    BY GuestFields, RxFields, Zenon DEF ConnTypes
  <1>1. \A p \in Packet : Append(tx_queue, p) \in Seq(Packet)
    BY <1>0
  <1>2. ASSUME NEW n \in 1..MaxPkt, GuestData(n)
        PROVE  ConnTypes'
    <2>1. n \in Nat /\ "RW" \in Ops /\ {} \in SUBSET {"RCV", "SEND"}
      BY Constants DEF Ops
    <2>2. tx_queue' \in Seq(Packet)
      BY <1>1, <1>2, <2>1, QueueType DEF GuestData
    <2>3. guest' \in Guest
      <3>1. Plus(guest.tx, n) \in Wrapped
        BY <1>0, <2>1, PlusType, Zenon
      <3> QED BY <1>0, <1>2, <3>1, Zenon DEF GuestData, Guest
    <2> QED BY <1>2, <2>2, <2>3, Zenon DEF GuestData, ConnTypes, control, counters
  <1>3. ASSUME NEW n \in 1..MaxPkt, GuestReads(n)
        PROVE  ConnTypes'
    <2>1. n \in Nat
      BY Constants
    <2>2. guest' \in Guest
      <3>1. Plus(guest.fwd, n) \in Wrapped /\ guest.held - n \in Nat
        BY <1>0, <1>3, <2>1, PlusType DEF GuestReads
      <3> QED BY <1>0, <1>3, <3>1, Zenon DEF GuestReads, Guest
    <2> QED BY <1>3, <2>2, Zenon DEF GuestReads, ConnTypes, control, counters
  <1>4. ASSUME NEW flags \in SUBSET {"RCV", "SEND"}, GuestShutdown(flags)
        PROVE  ConnTypes'
    <2>1. tx_queue' \in Seq(Packet)
      <3>1. "SHUTDOWN" \in Ops /\ 0 \in Nat
        BY Zenon DEF Ops
      <3>2. Queue("SHUTDOWN", 0, flags)
        BY <1>4, Zenon DEF GuestShutdown
      <3>3. \E p \in Packet : tx_queue' = Append(tx_queue, p)
        BY <3>1, <3>2, QueueType, Zenon
      <3> QED BY <1>1, <3>3, Zenon
    <2>2. guest' \in Guest
      <3> DEFINE b == guest.snd_off \/ "SEND" \in flags
      <3>1. guest' = [guest EXCEPT !.snd_off = b] /\ b \in BOOLEAN
        BY <1>4, Zenon DEF GuestShutdown
      <3> HIDE DEF b
      <3> QED BY <1>0, <3>1, Zenon DEF Guest
    <2> QED BY <1>4, <2>1, <2>2, Zenon DEF GuestShutdown, ConnTypes, control, counters
  <1>5. CASE GuestControl
    <2>1. tx_queue' \in Seq(Packet)
      <3>1. PICK op \in {"CREDIT_UPDATE", "CREDIT_REQUEST", "RST"} : Queue(op, 0, {})
        BY <1>5, Zenon DEF GuestControl
      <3>2. op \in Ops /\ 0 \in Nat /\ {} \in SUBSET {"RCV", "SEND"}
        BY Zenon DEF Ops
      <3> QED BY <1>1, <3>1, <3>2, QueueType
    <2> QED BY <1>5, <2>1, Zenon DEF GuestControl, ConnTypes, control, counters
  <1>6. CASE GuestReceives
    <2>1. tx_queue' \in Seq(Packet)
      <3>1. "RESPONSE" \in Ops /\ 0 \in Nat /\ {} \in SUBSET {"RCV", "SEND"}
        BY Zenon DEF Ops
      <3>2. Queue("RESPONSE", 0, {}) \/ tx_queue' = tx_queue
        BY <1>6, Zenon DEF GuestReceives
      <3>3. CASE Queue("RESPONSE", 0, {})
        BY <1>1, <3>1, <3>3, QueueType
      <3> QED BY <1>0, <3>2, <3>3, Zenon
    <2>2. guest' \in Guest
      <3> DEFINE b == guest.open \/ rxpkt.op \in {"RESPONSE", "REQUEST"}
      <3>1. /\ guest' = [guest EXCEPT !.open = b, !.known = rxpkt.fwd, !.held = @ + rxpkt.len]
            /\ b \in BOOLEAN
        BY <1>6, Zenon DEF GuestReceives
      <3>2. guest.held + rxpkt.len \in Nat
        BY <1>0
      <3> HIDE DEF b
      <3> QED BY <1>0, <3>1, <3>2, Zenon DEF Guest
    <2>3. rxpkt' \in RxPacket
      BY <1>6, Zenon DEF GuestReceives, RxPacket
    <2> QED BY <1>6, <2>1, <2>2, <2>3, Zenon DEF GuestReceives, ConnTypes, control, counters
  <1> QED BY <1>2, <1>3, <1>4, <1>5, <1>6, Zenon DEF GuestStep

----------------------------------------------------------------------------
(* The inductive invariant: the handshake.                                 *)

LEMMA RecvHandshake ==
    ASSUME ConnTypes, Handshake, RecvSteps
    PROVE  Handshake'
  <1> USE DEF RecvCan, RecvCanRw, RecvCanRead
  <1>1. CASE RecvResponse
    BY <1>1, Zenon DEF Handshake, Opening, RecvResponse, SetState
  <1>2. CASE RecvRequest
    <2>1. rxpkt'.op = "REQUEST"
      BY <1>2, Zenon DEF RecvRequest, Yield
    <2> QED BY <1>2, <2>1, Zenon DEF ConnTypes, Handshake, Opening, RecvRequest, FwdNotSeen
  <1>3. ASSUME RecvCanRw, MayReceive,
               \/ state' = state /\ rcv_off' = rcv_off /\ snd_off' = snd_off
               \/ SetState("LocalClosed"),
               pending' \subseteq pending
        PROVE  Handshake'
    <2>1. /\ "Rst" \notin pending /\ "Response" \notin pending /\ "Request" \notin pending
          /\ state \in {"Established", "PeerClosed"}
      BY <1>3, Zenon DEF MayReceive
    <2>2. state' \in {"Established", "PeerClosed", "LocalClosed"}
      BY <1>3, <2>1, Zenon DEF SetState
    <2> QED BY <1>3, <2>1, <2>2 DEF Handshake, Opening, SetState
  <1>4. CASE RecvCreditRequest
    BY <1>3, <1>4, Zenon DEF RecvCreditRequest
  <1>5. ASSUME NEW n \in 1..MaxPkt, RecvData(n)
        PROVE  Handshake'
    BY <1>3, <1>5, Zenon DEF RecvData
  <1>7. CASE RecvEof
    BY <1>3, <1>7, Zenon DEF RecvEof
  <1>8. CASE RecvWouldBlock
    <2>1. RecvCanRw /\ MayReceive /\ pending' \subseteq pending /\ UNCHANGED <<state, rcv_off, snd_off>>
      BY <1>8, Zenon DEF RecvWouldBlock, RecvCredit
    <2> QED BY <1>3, <2>1, Zenon
  <1>6. CASE RecvCreditUpdate
    BY <1>6, Zenon DEF ConnTypes, Handshake, Opening, RecvCreditUpdate, RecvCredit
  <1> QED BY <1>1, <1>2, <1>4, <1>5, <1>6, <1>7, <1>8, Zenon DEF RecvSteps

LEMMA KillHandshake ==
    ASSUME Handshake, SetState("Killed"), "Rst" \in pending'
    PROVE  Handshake'
  BY Zenon DEF Handshake, Opening, SetState

LEMMA TakeHandshake ==
    ASSUME ConnTypes, Handshake, QueueOrder, TakeSteps
    PROVE  Handshake'
  <1>1. Take /\ guest' = guest /\ rxpkt' = rxpkt /\ last_fwd' = last_fwd
    BY Zenon DEF Take, TakeSteps, SendBuffered, SendWriteError, SendResponse, SendShutdown,
           SendCreditRequest, SendIgnored, SendWritten
  <1>2. CASE kill
    BY <1>2, KillHandshake, Zenon DEF kill
  <1>3. CASE SendBuffered /\ ~kill
    BY <1>1, <1>3 DEF SendBuffered, MaySend, WantsCreditUpdate, Handshake, Opening
  <1>4. ASSUME NEW n \in 0..MaxPkt, SendWritten(n), ~kill
        PROVE  Handshake'
    BY <1>1, <1>4 DEF SendWritten, MaySend, WantsCreditUpdate, Handshake, Opening
  <1>5. CASE SendResponse
    <2>1. Pkt.op = "RESPONSE" /\ Pkt = tx_queue[1] /\ 1 \in 1..Len(tx_queue)
      BY <1>1, <1>5, TakeFacts DEF SendResponse
    <2>2. guest.open
      BY <2>1, Zenon DEF QueueOrder, Ordered
    <2> QED BY <1>1, <1>5, <2>2, Zenon DEF SendResponse, SetState, Handshake, Opening
  <1>6. CASE SendShutdown
    BY <1>1, <1>6, Zenon DEF SendShutdown, Handshake, Opening
  <1>7. CASE SendCreditRequest
    BY <1>1, <1>7, Zenon DEF SendCreditRequest, MaySend, Handshake, Opening
  <1>8. CASE SendIgnored
    BY <1>1, <1>8, Zenon DEF SendIgnored, Handshake, Opening, control
  <1> QED BY <1>2, <1>3, <1>4, <1>5, <1>6, <1>7, <1>8, Zenon DEF TakeSteps, SendWriteError

LEMMA NotifyHandshake ==
    ASSUME Handshake, notify \/ Expire
    PROVE  Handshake'
  <1>1. CASE NotifyOutError \/ Expire
    BY <1>1, KillHandshake, Zenon DEF NotifyOutError, Expire, kill
  <1>2. CASE NotifyIn
    BY <1>2, Zenon DEF NotifyIn, Handshake, Opening, counters
  <1>3. ASSUME NEW n \in 0..TxBufSize, NotifyOut(n)
        PROVE  Handshake'
    <2>1. ~Opening
      BY <1>3, Zenon DEF NotifyOut, Handshake, get_polled_evset
    <2> QED BY <1>3, <2>1 DEF NotifyOut, Handshake, Opening, WantsCreditUpdate
  <1> QED BY <1>1, <1>2, <1>3, Zenon DEF notify

LEMMA GuestHandshake ==
    ASSUME ConnTypes, Handshake, GuestStep
    PROVE  Handshake'
  <1>1. UNCHANGED <<state, rcv_off, snd_off, pending, expiry, tx_buf, fwd_cnt, last_fwd>>
    BY Zenon DEF GuestStep, GuestData, GuestReads, GuestShutdown, GuestControl, GuestReceives,
           control, counters
  <1>2. CASE GuestReceives
    BY <1>1, <1>2, Zenon DEF GuestReceives, Handshake, Opening
  <1>3. CASE ~GuestReceives
    <2>1. rxpkt' = rxpkt
      BY <1>3, ZenonT(30) DEF GuestStep, GuestData, GuestReads, GuestShutdown, GuestControl
    <2>2. guest'.open = guest.open
      <3>1. /\ guest \in Guest
            /\ \/ guest' = guest
               \/ \E n \in 1..MaxPkt : guest' = [guest EXCEPT !.tx = Plus(@, n)]
               \/ \E n \in 1..MaxPkt : guest' = [guest EXCEPT !.held = @ - n, !.fwd = Plus(@, n)]
               \/ \E flags : guest' = [guest EXCEPT !.snd_off = @ \/ "SEND" \in flags]
        BY <1>3, Zenon DEF ConnTypes, GuestStep, GuestData, GuestReads, GuestShutdown, GuestControl
      <3> QED BY <3>1, ZenonT(30) DEF Guest
    <2> QED BY <1>1, <2>1, <2>2, Zenon DEF Handshake, Opening
  <1> QED BY <1>2, <1>3, Zenon

----------------------------------------------------------------------------
(* The inductive invariant: the order of the guest's packets.              *)

LEMMA OrderedSame ==
    ASSUME NEW q \in Seq(Packet), NEW a \in BOOLEAN, NEW b \in BOOLEAN, NEW c \in BOOLEAN,
           NEW d \in BOOLEAN, Ordered(q, a, b), c => (a /\ (d => b)), b => d
    PROVE  Ordered(q, c, d)
  BY ZenonT(30) DEF Ordered

\* A packet without data, or data of a driver that has opened the connection.
LEMMA OrderedAppend ==
    ASSUME NEW q \in Seq(Packet), NEW a \in BOOLEAN, NEW b \in BOOLEAN, NEW d \in BOOLEAN,
           NEW p \in Packet, Ordered(q, a, b), b => d,
           (p.len > 0) => (p.op = "RW" /\ b),
           (p.op = "RESPONSE") => d, (d /\ ~b) => (p.op = "RESPONSE")
    PROVE  Ordered(Append(q, p), a, d)
  <1> DEFINE s == Append(q, p)
  <1>1. /\ Len(s) = Len(q) + 1 /\ s[Len(q) + 1] = p /\ \A i \in 1..Len(q) : s[i] = q[i]
    OBVIOUS
  <1>2. p.len \in Nat
    BY PacketFields, Zenon
  <1> HIDE DEF s
  <1>3. \A i \in 1..Len(s) : i \in 1..Len(q) \/ (i = Len(q) + 1 /\ s[i] = p)
    BY <1>1
  <1>4. \A i \in 1..Len(s) : s[i].len > 0 => s[i].op = "RW"
    BY <1>1, <1>3, Zenon DEF Ordered
  <1>5. ~d => \A i \in 1..Len(s) : s[i].len = 0 /\ s[i].op # "RESPONSE"
    BY <1>1, <1>2, <1>3 DEF Ordered
  <1>6. (a /\ d) => \E j \in 1..Len(s) : s[j].op = "RESPONSE"
    <2>1. CASE b
      BY <1>1, <2>1 DEF Ordered
    <2>2. CASE ~b
      <3>1. d => (s[Len(q) + 1].op = "RESPONSE" /\ Len(q) + 1 \in 1..Len(s))
        BY <1>1, <2>2
      <3> QED BY <3>1, Zenon
    <2> QED BY <2>1, <2>2, Zenon
  <1>7. a => \A i \in 1..Len(s) : s[i].len > 0 => \E j \in 1..(i - 1) : s[j].op = "RESPONSE"
    <2> SUFFICES ASSUME a, NEW i \in 1..Len(s), s[i].len > 0
                 PROVE  \E j \in 1..(i - 1) : s[j].op = "RESPONSE"
      BY Zenon
    <2>1. CASE i \in 1..Len(q)
      <3>1. PICK j \in 1..(i - 1) : q[j].op = "RESPONSE"
        BY <1>1, <2>1, Zenon DEF Ordered
      <3> QED BY <1>1, <2>1, <3>1
    <2>2. CASE i = Len(q) + 1 /\ s[i] = p
      <3>1. PICK j \in 1..Len(q) : q[j].op = "RESPONSE"
        BY <2>2, Zenon DEF Ordered
      <3> QED BY <1>1, <2>2, <3>1
    <2> QED BY <1>3, <2>1, <2>2, Zenon
  <1> QED BY <1>4, <1>5, <1>6, <1>7, Zenon DEF Ordered, s

\* The first packet is taken, in a connection that does not wait for the response
\* any more, or one that is no response.
LEMMA OrderedTail ==
    ASSUME NEW q \in Seq(Packet), q # <<>>, NEW a \in BOOLEAN, NEW b \in BOOLEAN,
           NEW c \in BOOLEAN, Ordered(q, a, b), c => (a /\ Head(q).op # "RESPONSE")
    PROVE  Ordered(Tail(q), c, b)
  <1> DEFINE s == Tail(q)
  <1>1. /\ Len(q) > 0 /\ Len(s) = Len(q) - 1 /\ Head(q) = q[1]
        /\ \A i \in 1..Len(s) : s[i] = q[i + 1] /\ i + 1 \in 1..Len(q)
    OBVIOUS
  <1> HIDE DEF s
  <1>2. \A i \in 1..Len(s) : s[i].len > 0 => s[i].op = "RW"
    BY <1>1 DEF Ordered
  <1>3. ~b => \A i \in 1..Len(s) : s[i].len = 0 /\ s[i].op # "RESPONSE"
    BY <1>1 DEF Ordered
  <1>4. ASSUME c, NEW j \in 1..Len(q), q[j].op = "RESPONSE"
        PROVE  j - 1 \in 1..Len(s) /\ s[j - 1].op = "RESPONSE"
    <2>1. j # 1
      BY <1>1, <1>4, Zenon
    <2>2. j - 1 \in 1..Len(s) /\ (j - 1) + 1 = j
      BY <1>1, <2>1
    <2> QED BY <1>1, <1>4, <2>2, Zenon
  <1>5. (c /\ b) => \E j \in 1..Len(s) : s[j].op = "RESPONSE"
    BY <1>4, Zenon DEF Ordered
  <1>6. c => \A i \in 1..Len(s) : s[i].len > 0 => \E j \in 1..(i - 1) : s[j].op = "RESPONSE"
    <2> SUFFICES ASSUME c, NEW i \in 1..Len(s), s[i].len > 0
                 PROVE  \E j \in 1..(i - 1) : s[j].op = "RESPONSE"
      BY Zenon
    <2>1. i + 1 \in 1..Len(q) /\ q[i + 1].len > 0
      BY <1>1, Zenon
    <2>2. PICK j \in 1..i : q[j].op = "RESPONSE"
      <3>1. \E j \in 1..((i + 1) - 1) : q[j].op = "RESPONSE"
        BY <2>1, Zenon DEF Ordered
      <3> QED BY <3>1
    <2>3. j \in 1..Len(q)
      BY <2>1
    <2>4. j - 1 \in 1..Len(s) /\ s[j - 1].op = "RESPONSE"
      BY <1>4, <2>2, <2>3, Zenon
    <2> QED BY <2>2, <2>4
  <1> QED BY <1>2, <1>3, <1>5, <1>6, Zenon DEF Ordered, s

\* What the driver's steps do to its queue, its stream and its state.
Appends(p) ==
    /\ p \in Packet /\ tx_queue' = Append(tx_queue, p)
    /\ p.fwd = guest.fwd /\ p.first = guest.tx
    /\ guest'.tx = Plus(guest.tx, p.len) /\ guest'.fwd = guest.fwd
    /\ guest.open => guest'.open
    /\ (p.len > 0) => (p.op = "RW" /\ guest.open /\ p.len <= guestFree)
    /\ (p.op = "RESPONSE") => guest'.open
    /\ (guest'.open /\ ~guest.open) => (p.op = "RESPONSE")
AppendsNothing ==
    /\ tx_queue' = tx_queue /\ guest'.tx = guest.tx
    /\ guest'.open = guest.open \/ (guest'.open /\ rxpkt.op = "RESPONSE" /\ rxpkt # NoPkt)

LEMMA GuestAppends ==
    ASSUME ConnTypes, GuestStep
    PROVE  AppendsNothing \/ \E p : Appends(p)
  <1>0. /\ guest \in Guest /\ guest.open \in BOOLEAN /\ guest.tx \in Wrapped
        /\ Plus(guest.tx, 0) = guest.tx
    BY GuestFields, PlusZero, Zenon DEF ConnTypes
  <1>1. ASSUME NEW n \in 1..MaxPkt, GuestData(n)
        PROVE  \E p : Appends(p)
    <2>1. n \in Nat /\ "RW" \in Ops /\ {} \in SUBSET {"RCV", "SEND"} /\ Queue("RW", n, {})
      BY <1>1, Constants DEF Ops, GuestData
    <2>2. PICK p \in Packet : /\ tx_queue' = Append(tx_queue, p)
                              /\ p.op = "RW" /\ p.len = n /\ p.fwd = guest.fwd /\ p.first = guest.tx
      BY <2>1, QueueType
    <2>3. /\ guest'.tx = Plus(guest.tx, n) /\ guest'.fwd = guest.fwd
          /\ guest'.open = guest.open /\ guest.open /\ n <= guestFree
      BY <1>0, <1>1, Zenon DEF GuestData, Guest
    <2>4. Appends(p)
      BY <2>2, <2>3, Zenon DEF Appends
    <2> QED BY <2>4, Zenon
  <1>2. ASSUME NEW op \in Ops, op # "RW", NEW flags \in SUBSET {"RCV", "SEND"}, Queue(op, 0, flags),
               guest'.tx = guest.tx, guest'.fwd = guest.fwd, guest.open => guest'.open,
               (op = "RESPONSE") => guest'.open, (guest'.open /\ ~guest.open) => (op = "RESPONSE")
        PROVE  \E p : Appends(p)
    <2>1. PICK p \in Packet : /\ tx_queue' = Append(tx_queue, p)
                              /\ p.op = op /\ p.len = 0 /\ p.fwd = guest.fwd /\ p.first = guest.tx
      BY <1>2, QueueType, Zenon
    <2>2. Appends(p)
      BY <1>0, <1>2, <2>1 DEF Appends
    <2> QED BY <2>2, Zenon
  <1>3. ASSUME NEW flags \in SUBSET {"RCV", "SEND"}, GuestShutdown(flags)
        PROVE  \E p : Appends(p)
    <2>1. /\ guest'.tx = guest.tx /\ guest'.fwd = guest.fwd /\ guest'.open = guest.open
          /\ guest.open /\ Queue("SHUTDOWN", 0, flags) /\ "SHUTDOWN" \in Ops
      BY <1>0, <1>3, Zenon DEF GuestShutdown, Guest, Ops
    <2> QED BY <1>2, <2>1, Zenon
  <1>4. CASE GuestControl
    <2>1. PICK op \in {"CREDIT_UPDATE", "CREDIT_REQUEST", "RST"} : Queue(op, 0, {})
      BY <1>4 DEF GuestControl
    <2>2. op \in Ops /\ op # "RW" /\ op # "RESPONSE" /\ {} \in SUBSET {"RCV", "SEND"} /\ guest' = guest
      BY <1>4, Zenon DEF Ops, GuestControl
    <2> QED BY <1>2, <2>1, <2>2, Zenon
  <1>5. CASE GuestReceives /\ rxpkt.op = "REQUEST"
    <2>1. /\ guest'.tx = guest.tx /\ guest'.fwd = guest.fwd /\ guest'.open = TRUE
          /\ Queue("RESPONSE", 0, {}) /\ "RESPONSE" \in Ops /\ {} \in SUBSET {"RCV", "SEND"}
      BY <1>0, <1>5, Zenon DEF GuestReceives, Guest, Ops
    <2> QED BY <1>2, <2>1, Zenon
  <1>6. CASE GuestReceives /\ rxpkt.op # "REQUEST"
    BY <1>0, <1>6, Zenon DEF GuestReceives, Guest, AppendsNothing
  <1>7. ASSUME NEW n \in 1..MaxPkt, GuestReads(n)
        PROVE  AppendsNothing
    BY <1>0, <1>7, Zenon DEF GuestReads, Guest, AppendsNothing
  <1> QED BY <1>1, <1>3, <1>4, <1>5, <1>6, <1>7, Zenon DEF GuestStep

LEMMA QueueSteps ==
    ASSUME ConnTypes, Handshake, QueueOrder, ConnTypes',
           RecvSteps \/ TakeSteps \/ notify \/ Expire \/ GuestStep
    PROVE  QueueOrder'
  <1>0. /\ tx_queue \in Seq(Packet) /\ guest.open \in BOOLEAN /\ (guest.open)' \in BOOLEAN
        /\ (state = "LocalInit") \in BOOLEAN /\ (state' = "LocalInit") \in BOOLEAN
    BY GuestFields, Zenon DEF ConnTypes, Guest
  <1>1. CASE RecvSteps \/ notify \/ Expire
    <2>1. /\ tx_queue' = tx_queue /\ guest' = guest
          /\ (state' = "LocalInit") => (state = "LocalInit")
      BY <1>1, Zenon DEF RecvSteps, RecvResponse, RecvRequest, RecvCreditRequest, RecvEof, RecvWouldBlock,
           RecvCreditUpdate, RecvCredit, RecvData, SetState, notify, NotifyIn, NotifyOut,
           NotifyOutError, Expire, kill
    <2> QED BY <1>0, <2>1, OrderedSame, Zenon DEF QueueOrder
  <1>2. CASE TakeSteps
    <2>1. Take
      BY <1>2, Zenon DEF TakeSteps, SendBuffered, SendWriteError, SendResponse, SendShutdown,
           SendCreditRequest, SendIgnored, SendWritten
    <2>2. tx_queue # <<>> /\ tx_queue' = Tail(tx_queue) /\ guest' = guest
      BY <2>1, Zenon DEF Take
    <2>3. (state' = "LocalInit") => (state = "LocalInit" /\ Head(tx_queue).op # "RESPONSE")
      BY <1>2, Zenon DEF TakeSteps, SendBuffered, SendWriteError, SendResponse, SendShutdown,
           SendCreditRequest, SendIgnored, SendWritten, kill, SetState, Pkt, MaySend, control
    <2> QED BY <1>0, <2>2, <2>3, OrderedTail, ZenonT(30) DEF QueueOrder
  <1>3. CASE GuestStep
    <2>1. state' = state
      BY <1>3, Zenon DEF GuestStep, GuestData, GuestReads, GuestShutdown, GuestControl, GuestReceives,
                  control
    <2>2. CASE AppendsNothing
      <3>1. (state = "LocalInit") => (guest'.open => guest.open)
        BY <2>2, Zenon DEF AppendsNothing, Handshake
      <3>2. guest.open => guest'.open
        BY <2>2, Zenon DEF AppendsNothing
      <3> QED BY <1>0, <2>1, <2>2, <3>1, <3>2, OrderedSame, Zenon DEF QueueOrder, AppendsNothing
    <2>3. ASSUME NEW p, Appends(p)
          PROVE  QueueOrder'
      <3>1. /\ p \in Packet /\ tx_queue' = Append(tx_queue, p) /\ (guest.open => guest'.open)
            /\ (p.len > 0) => (p.op = "RW" /\ guest.open)
            /\ (p.op = "RESPONSE") => guest'.open
            /\ (guest'.open /\ ~guest.open) => (p.op = "RESPONSE")
        BY <2>3, Zenon DEF Appends
      <3>2. Ordered(Append(tx_queue, p), state = "LocalInit", guest'.open)
        BY <1>0, <3>1, OrderedAppend, ZenonT(30) DEF QueueOrder
      <3> QED BY <2>1, <3>1, <3>2, Zenon DEF QueueOrder
    <2> QED BY <1>3, <2>2, <2>3, GuestAppends, Zenon
  <1> QED BY <1>1, <1>2, <1>3, Zenon

----------------------------------------------------------------------------
(* The inductive invariant: the guest's stream.                            *)

\* The buffered data, and the first packet behind it, are part of what the guest
\* has sent and the host not got.
LEMMA ChainBound ==
    ASSUME NEW q \in Seq(Packet), NEW t \in Wrapped, NEW f \in Wrapped, NEW l \in Nat,
           Chain(q, t, f, l)
    PROVE  l <= Minus(t, f) /\ (q # <<>> => (l + Head(q).len <= Minus(t, f)))
  <1>1. Dist(q, t, f, Len(q) + 1) = Minus(t, f) /\ 1 \in 1..(Len(q) + 1)
        /\ Len(q) + 1 \in 1..(Len(q) + 1) /\ 1 <= Len(q) + 1
    BY DEF Dist
  <1>2. l <= Minus(t, f)
    BY <1>1, Zenon DEF Chain
  <1>3. CASE q # <<>>
    <2>1. 1 \in 1..Len(q) /\ 2 \in 1..(Len(q) + 1) /\ 2 <= Len(q) + 1 /\ Head(q) = q[1] /\ 1 + 1 = 2
      BY <1>3
    <2>2. Dist(q, t, f, 2) = l + Head(q).len
      BY <2>1, Zenon DEF Chain
    <2>3. Dist(q, t, f, 2) <= Dist(q, t, f, Len(q) + 1)
      BY <1>1, <2>1, Zenon DEF Chain
    <2> QED BY <1>1, <1>2, <2>2, <2>3, Zenon
  <1> QED BY <1>2, <1>3, Zenon

\* What has been sent and not forwarded, and what of it is in the buffer.
LEMMA InFlight ==
    ASSUME ConnInv, Forwards
    PROVE  /\ guest.tx \in Wrapped /\ fwd_cnt \in Wrapped /\ tx_queue \in Seq(Packet)
           /\ tx_buf \in Seq(Wrapped) /\ Len(tx_buf) \in Nat
           /\ Minus(guest.tx, fwd_cnt) \in Nat /\ Minus(guest.tx, fwd_cnt) <= TxBufSize
           /\ Len(tx_buf) <= Minus(guest.tx, fwd_cnt) /\ Len(tx_buf) < Wrap
           /\ tx_queue # <<>> => (Len(tx_buf) + Head(tx_queue).len <= Minus(guest.tx, fwd_cnt))
  <1>1. /\ guest.tx \in Wrapped /\ fwd_cnt \in Wrapped /\ tx_queue \in Seq(Packet)
        /\ guest.known \in Wrapped /\ last_fwd \in Wrapped
        /\ tx_buf \in Seq(Wrapped) /\ Len(tx_buf) \in Nat
    BY GuestFields DEF ConnInv, ConnTypes
  <1> DEFINE a == Minus(guest.tx, fwd_cnt)
             b == Minus(guest.tx, last_fwd)
             c == Minus(guest.tx, guest.known)
             l == Len(tx_buf)
  <1>2. a \in Nat /\ b \in Nat /\ c \in Nat
    BY <1>1, MinusNat, Zenon
  <1>3. a <= b /\ b <= c /\ c <= TxBufSize
    BY Zenon DEF ConnInv, TxCredit
  <1>4. l <= a /\ (tx_queue # <<>> => (l + Head(tx_queue).len <= a))
    BY <1>1, ChainBound, Zenon DEF ConnInv, TxOrder
  <1>5. l \in Nat
    BY <1>1, Zenon
  <1> HIDE DEF a, b, c, l
  <1>6. a <= TxBufSize /\ l < Wrap
    BY <1>2, <1>3, <1>4, <1>5, Constants
  <1> QED BY <1>1, <1>2, <1>4, <1>6, Zenon DEF a, l

\* Data is left out only by a connection that forwards no more.
LEMMA NoDataLost ==
    ASSUME ConnInv, Take, Pkt.op # "RW" \/ ~MaySend, Forwards
    PROVE  Pkt.len = 0
  <1>1. Pkt = tx_queue[1] /\ 1 \in 1..Len(tx_queue) /\ Pkt.len \in Nat
    BY TakeFacts DEF ConnInv
  <1>2. CASE Pkt.op # "RW"
    BY <1>1, <1>2 DEF ConnInv, QueueOrder, Ordered
  <1>3. CASE state = "PeerInit"
    BY <1>1, <1>3, Zenon DEF ConnInv, QueueOrder, Ordered, Handshake
  <1>4. CASE state = "LocalInit"
    <2>1. Pkt.len > 0 => \E j \in 1..(1 - 1) : tx_queue[j].op = "RESPONSE"
      BY <1>1, <1>4, Zenon DEF ConnInv, QueueOrder, Ordered
    <2> QED BY <1>1, <2>1
  <1> QED BY <1>2, <1>3, <1>4, Zenon DEF Forwards, Opening

LEMMA ForwardsBack ==
    ASSUME ConnTypes, Handshake, RecvSteps \/ TakeSteps \/ notify \/ Expire \/ GuestStep, Forwards'
    PROVE  Forwards
  <1> USE DEF Forwards, Opening, MaySend
  <1>1. CASE RecvSteps
    <2>1. CASE RecvResponse
      BY <2>1, Zenon DEF RecvResponse, RecvCan, Handshake
    <2>2. CASE ~RecvResponse
      BY <1>1, <2>2, ZenonT(30) DEF RecvSteps, RecvRequest, RecvCreditRequest, RecvEof, RecvWouldBlock,
                        RecvCreditUpdate, RecvCredit, RecvData, SetState
    <2> QED BY <2>1, <2>2, Zenon
  <1>2. CASE TakeSteps
    BY <1>2, Zenon DEF ConnTypes, TakeSteps, SendBuffered, SendWriteError, SendResponse, SendShutdown,
           SendCreditRequest, SendIgnored, SendWritten, kill, SetState, control
  <1>3. CASE notify \/ Expire
    BY <1>3, Zenon DEF notify, NotifyIn, NotifyOut, NotifyOutError, Expire, kill, SetState
  <1>4. CASE GuestStep
    BY <1>4, Zenon DEF GuestStep, GuestData, GuestReads, GuestShutdown, GuestControl, GuestReceives,
                control
  <1> QED BY <1>1, <1>2, <1>3, <1>4, Zenon

\* A driver inside its credit.
LEMMA DataFits ==
    ASSUME ConnInv, Forwards, NEW p, Appends(p)
    PROVE  /\ p.len \in Nat /\ Minus(guest.tx, guest.known) + p.len <= TxBufSize
           /\ Minus(guest.tx, fwd_cnt) + p.len < Wrap
  <1> DEFINE a == Minus(guest.tx, fwd_cnt)
             b == Minus(guest.tx, last_fwd)
             c == Minus(guest.tx, guest.known)
  <1>1. a \in Nat /\ b \in Nat /\ c \in Nat
    BY GuestFields, MinusNat, Zenon DEF ConnInv, ConnTypes
  <1>2. a <= b /\ b <= c /\ c <= TxBufSize
    BY Zenon DEF ConnInv, TxCredit
  <1>3. p.len \in Nat
    BY PacketFields, Zenon DEF Appends
  <1>4. Minus(TxBufSize, c) = TxBufSize - c
    BY <1>1, <1>2, Left, Constants, Zenon
  <1>5. p.len > 0 => p.len <= Minus(TxBufSize, c)
    BY Zenon DEF Appends, guestFree
  <1> HIDE DEF a, b, c
  <1>6. c + p.len <= TxBufSize /\ a + p.len < Wrap
    BY <1>1, <1>2, <1>3, <1>4, <1>5, Constants
  <1> QED BY <1>3, <1>6, Zenon DEF a, c

LEMMA TxOrderSteps ==
    ASSUME ConnInv, RecvSteps \/ TakeSteps \/ notify \/ Expire \/ GuestStep
    PROVE  TxOrder'
  <1> SUFFICES ASSUME Forwards'
               PROVE  /\ out' = fwd_cnt' /\ tx_buf' = Bytes(fwd_cnt', Len(tx_buf'))
                      /\ Chain(tx_queue', guest'.tx, fwd_cnt', Len(tx_buf'))
    BY Zenon DEF TxOrder
  <1> DEFINE L == Len(tx_buf)
  <1>0. /\ ConnTypes /\ Forwards /\ guest.tx \in Wrapped /\ fwd_cnt \in Wrapped
        /\ tx_queue \in Seq(Packet) /\ L \in Nat /\ L < Wrap
        /\ Minus(guest.tx, fwd_cnt) \in Nat /\ Minus(guest.tx, fwd_cnt) <= TxBufSize
        /\ out = fwd_cnt /\ tx_buf = Bytes(fwd_cnt, L) /\ Chain(tx_queue, guest.tx, fwd_cnt, L)
        /\ (tx_queue # <<>> => (L + Head(tx_queue).len <= Minus(guest.tx, fwd_cnt)))
    <2>1. ConnTypes /\ Handshake /\ TxOrder
      BY Zenon DEF ConnInv
    <2>2. Forwards
      BY <2>1, ForwardsBack, Zenon
    <2> QED BY <2>1, <2>2, InFlight, Zenon DEF TxOrder
  <1> HIDE DEF L
  <1>1. ASSUME UNCHANGED <<out, fwd_cnt, tx_buf, tx_queue>>, guest'.tx = guest.tx
        PROVE  /\ out' = fwd_cnt' /\ tx_buf' = Bytes(fwd_cnt', Len(tx_buf'))
               /\ Chain(tx_queue', guest'.tx, fwd_cnt', Len(tx_buf'))
    BY <1>0, <1>1, Zenon DEF L
  <1>2. CASE RecvSteps \/ NotifyIn \/ NotifyOutError \/ Expire
    <2>1. UNCHANGED <<out, fwd_cnt, tx_buf, tx_queue, guest>>
      BY <1>2, Zenon DEF RecvSteps, RecvResponse, RecvRequest, RecvCreditRequest, RecvEof, RecvWouldBlock,
           RecvCreditUpdate, RecvCredit, RecvData, NotifyIn, NotifyOutError, Expire, counters
    <2> QED BY <1>1, <2>1, Zenon
  <1>3. ASSUME NEW n \in 0..TxBufSize, NotifyOut(n)
        PROVE  /\ out' = fwd_cnt' /\ tx_buf' = Bytes(fwd_cnt', Len(tx_buf'))
               /\ Chain(tx_queue', guest'.tx, fwd_cnt', Len(tx_buf'))
    <2>1. /\ n \in Nat /\ n <= L /\ fwd_cnt' = Plus(fwd_cnt, n) /\ tx_queue' = tx_queue
          /\ guest' = guest /\ tx_buf' = SubSeq(tx_buf, n + 1, L) /\ ToHost(SubSeq(tx_buf, 1, n))
      BY <1>3, Constants DEF NotifyOut, L
    <2>2. Chain(tx_queue, guest.tx, Plus(fwd_cnt, n), L - n)
      BY <1>0, <2>1, ChainFlush, Zenon
    <2>3. tx_buf' = Bytes(Plus(fwd_cnt, n), L - n) /\ out' = Plus(fwd_cnt, n)
      <3>1. /\ tx_buf' = SubSeq(Bytes(fwd_cnt, L), n + 1, L) /\ ToHost(SubSeq(Bytes(fwd_cnt, L), 1, n))
        BY <1>0, <2>1, Zenon
      <3>2. n \in Nat /\ n <= L /\ L \in Nat /\ L < Wrap /\ fwd_cnt \in Wrapped /\ out = fwd_cnt
        BY <1>0, <2>1, Zenon
      <3> QED BY <3>1, <3>2, BytesDrop, HostTakes, Zenon
    <2>4. Len(tx_buf') = L - n
      <3>1. Plus(fwd_cnt, n) \in Wrapped /\ L - n \in Nat
        BY <1>0, <2>1, PlusType
      <3> QED BY <2>3, <3>1, BytesAre, Zenon
    <2> QED BY <2>1, <2>2, <2>3, <2>4, Zenon
  <1>4. CASE TakeSteps
    <2> DEFINE k == Head(tx_queue).len
    <2>1. /\ Take /\ tx_queue # <<>> /\ tx_queue' = Tail(tx_queue) /\ guest' = guest
          /\ Pkt = Head(tx_queue) /\ k \in Nat /\ Pkt.first \in Wrapped /\ Pkt = tx_queue[1]
          /\ Len(tx_queue) > 0
      <3>1. Take
        BY <1>4, Zenon DEF TakeSteps, SendBuffered, SendWriteError, SendResponse, SendShutdown,
           SendCreditRequest, SendIgnored, SendWritten
      <3> QED BY <1>0, <3>1, TakeFacts, Zenon DEF Pkt
    <2>2. Chain(Tail(tx_queue), guest.tx, fwd_cnt, L + k)
      BY <1>0, <2>1, ChainTail, Zenon
    <2> HIDE DEF k
    <2>3. Pkt.first = Plus(fwd_cnt, L)
      <3>1. Minus(Pkt.first, fwd_cnt) = L
        BY <1>0, <2>1, SMTT(30) DEF Chain, Dist
      <3> QED BY <1>0, <2>1, <3>1, PlusMinus, Zenon
    <2>4. L + k < Wrap
      <3> DEFINE a == Minus(guest.tx, fwd_cnt)
      <3>1. a \in Nat /\ a <= TxBufSize /\ L + k <= a
        BY <1>0, <2>1, Zenon DEF k
      <3> HIDE DEF a
      <3> QED BY <1>0, <2>1, <3>1, Constants, SMTT(30)
    <2>5. ~kill
      BY Zenon DEF kill, SetState, Forwards, Opening, MaySend
    <2>6. CASE SendBuffered
      <3>1. tx_buf' = tx_buf \o Bytes(Plus(fwd_cnt, L), k) /\ fwd_cnt' = fwd_cnt /\ out' = out
        BY <2>1, <2>3, <2>5, <2>6, ZenonT(30) DEF SendBuffered, Data, k
      <3>2. tx_buf' = Bytes(fwd_cnt, L + k)
        <4>1. tx_buf' = Bytes(fwd_cnt, L) \o Bytes(Plus(fwd_cnt, L), k)
          BY <1>0, <3>1, Zenon
        <4> QED BY <1>0, <2>1, <2>4, <4>1, BytesPush, Zenon
      <3>3. Len(tx_buf') = L + k
        <4>1. L + k \in Nat
          BY <1>0, <2>1 DEF k
        <4> QED BY <1>0, <3>2, <4>1, BytesAre, Zenon
      <3> QED BY <1>0, <2>1, <2>2, <3>1, <3>2, <3>3, Zenon
    <2>7. ASSUME NEW n \in 0..MaxPkt, SendWritten(n)
          PROVE  /\ out' = fwd_cnt' /\ tx_buf' = Bytes(fwd_cnt', Len(tx_buf'))
                 /\ Chain(tx_queue', guest'.tx, fwd_cnt', Len(tx_buf'))
      <3>1. /\ n \in Nat /\ n <= k /\ L = 0 /\ fwd_cnt' = Plus(fwd_cnt, n)
            /\ tx_buf' = SubSeq(Bytes(Pkt.first, k), n + 1, k)
            /\ ToHost(SubSeq(Bytes(Pkt.first, k), 1, n))
        BY <2>1, <2>5, <2>7, Constants, SMTT(30) DEF SendWritten, Data, k, L
      <3>2. Pkt.first = fwd_cnt /\ L + k = k
        BY <1>0, <2>1, <2>3, <3>1, PlusZero, SMTT(30)
      <3>3. Chain(Tail(tx_queue), guest.tx, Plus(fwd_cnt, n), k - n)
        <4>1. Tail(tx_queue) \in Seq(Packet) /\ Chain(Tail(tx_queue), guest.tx, fwd_cnt, k)
          BY <1>0, <2>1, <2>2, <3>2, TailIs, Zenon
        <4> QED BY <1>0, <2>1, <3>1, <4>1, ChainFlush, Zenon
      <3>4. tx_buf' = Bytes(Plus(fwd_cnt, n), k - n) /\ out' = Plus(fwd_cnt, n)
        <4>1. k \in Nat /\ k < Wrap /\ out = fwd_cnt /\ fwd_cnt \in Wrapped
          BY <1>0, <2>1, <2>4, <3>2, Zenon
        <4>2. SubSeq(Bytes(fwd_cnt, k), n + 1, k) = Bytes(Plus(fwd_cnt, n), k - n)
          BY <3>1, <4>1, BytesDrop, Zenon
        <4>3. out' = Plus(fwd_cnt, n)
          <5>1. ToHost(SubSeq(Bytes(fwd_cnt, k), 1, n))
            BY <3>1, <3>2, Zenon
          <5> QED BY <3>1, <4>1, <5>1, HostTakes, Zenon
        <4> QED BY <3>1, <3>2, <4>2, <4>3, Zenon
      <3>5. Len(tx_buf') = k - n
        <4>1. Plus(fwd_cnt, n) \in Wrapped
          BY <1>0, <3>1, PlusType, Zenon
        <4>2. k - n \in Nat
          BY <2>1, <3>1, SMTT(30)
        <4> QED BY <3>4, <4>1, <4>2, BytesAre, Zenon
      <3> QED BY <2>1, <3>1, <3>3, <3>4, <3>5, Zenon
    <2>8. CASE SendResponse \/ SendShutdown \/ SendCreditRequest \/ SendIgnored
      <3>1. Pkt.op # "RW" \/ ~MaySend
        BY <2>8, Zenon DEF SendResponse, SendShutdown, SendCreditRequest, SendIgnored
      <3>2. k = 0
        BY <1>0, <2>1, <3>1, NoDataLost, Zenon DEF k
      <3>3. UNCHANGED <<out, fwd_cnt, tx_buf>>
        BY <2>8, Zenon DEF SendResponse, SendShutdown, SendCreditRequest, SendIgnored
      <3>4. L + k = L
        BY <1>0, <3>2, SMTT(30)
      <3> QED BY <1>0, <2>1, <2>2, <3>3, <3>4, Zenon DEF L
    <2> QED BY <1>4, <2>5, <2>6, <2>7, <2>8, Zenon DEF TakeSteps, SendWriteError
  <1>5. CASE GuestStep
    <2>1. UNCHANGED <<out, fwd_cnt, tx_buf>>
      BY <1>5, ZenonT(30) DEF GuestStep, GuestData, GuestReads, GuestShutdown, GuestControl, GuestReceives,
                  counters
    <2>2. CASE AppendsNothing
      BY <1>1, <2>1, <2>2, Zenon DEF AppendsNothing
    <2>3. ASSUME NEW p, Appends(p)
          PROVE  Chain(tx_queue', guest'.tx, fwd_cnt', Len(tx_buf'))
      <3>1. /\ p \in Packet /\ tx_queue' = Append(tx_queue, p) /\ p.first = guest.tx
            /\ guest'.tx = Plus(guest.tx, p.len)
        BY <2>3, Zenon DEF Appends
      <3>2. Minus(guest.tx, fwd_cnt) + p.len < Wrap
        BY <1>0, <2>3, DataFits, Zenon
      <3>3. Chain(Append(tx_queue, p), Plus(guest.tx, p.len), fwd_cnt, L)
        BY <1>0, <3>1, <3>2, ChainAppend, Zenon
      <3> QED BY <2>1, <3>1, <3>3, Zenon DEF L
    <2> QED BY <1>0, <1>5, <2>1, <2>2, <2>3, GuestAppends, Zenon DEF L
  <1> QED BY <1>2, <1>3, <1>4, <1>5, Zenon DEF notify

----------------------------------------------------------------------------
(* The inductive invariant: the credit of the guest.                       *)

\* A guest that has just been told needs no update.
LEMMA ToldIsEnough ==
    ASSUME NEW f \in Wrapped
    PROVE  ~(Minus(TxBufSize, Minus(f, f)) < Threshold)
  <1>1. Minus(f, f) = 0 /\ Minus(TxBufSize, 0) = TxBufSize
    BY MinusSelf, NewFacts, Zenon
  <1> QED BY <1>1, Constants

\* The host's progress leaves the order of what the guest knows as it is.
LEMMA CreditProgress ==
    ASSUME ConnInv, Forwards, NEW n \in Nat, n <= Minus(guest.tx, fwd_cnt)
    PROVE  Minus(guest.tx, Plus(fwd_cnt, n)) <= Minus(guest.tx, last_fwd)
  <1> DEFINE a == Minus(guest.tx, fwd_cnt)
             b == Minus(guest.tx, last_fwd)
             c == Minus(guest.tx, Plus(fwd_cnt, n))
  <1>1. guest.tx \in Wrapped /\ fwd_cnt \in Wrapped /\ last_fwd \in Wrapped
    BY GuestFields, Zenon DEF ConnInv, ConnTypes
  <1>2. a \in Nat /\ b \in Nat /\ c = a - n /\ n <= a
    BY <1>1, MinusNat, TrailMoves, Zenon
  <1>3. a <= b
    BY Zenon DEF ConnInv, TxCredit
  <1> HIDE DEF a, b, c
  <1>4. c <= b
    BY <1>2, <1>3
  <1> QED BY <1>4, Zenon DEF b, c

\* The conditions of TxCredit, on values.
Credit(rx, known, last, t, f, pend) ==
    /\ IF rx = NoPkt THEN known = last ELSE rx.fwd = last
    /\ Minus(t, f) <= Minus(t, last)
    /\ Minus(t, last) <= Minus(t, known)
    /\ Minus(t, known) <= TxBufSize
    /\ (Minus(TxBufSize, Minus(f, last)) < Threshold) => (pend \cap {"Rst", "CreditUpdate"} # {})

LEMMA TxCreditIs ==
    /\ TxCredit <=> (Forwards => Credit(rxpkt, guest.known, last_fwd, guest.tx, fwd_cnt, pending))
    /\ TxCredit' <=>
         (Forwards' => Credit(rxpkt', guest'.known, last_fwd', guest'.tx, fwd_cnt', pending'))
  BY Zenon DEF TxCredit, Credit, peer_needs_credit_update

LEMMA TxCreditSteps ==
    ASSUME ConnInv, RecvSteps \/ TakeSteps \/ notify \/ Expire \/ GuestStep
    PROVE  TxCredit'
  <1> SUFFICES ASSUME Forwards'
               PROVE  Credit(rxpkt', guest'.known, last_fwd', guest'.tx, fwd_cnt', pending')
    BY TxCreditIs, Zenon
  <1>0. /\ ConnTypes /\ Handshake /\ Forwards
        /\ Credit(rxpkt, guest.known, last_fwd, guest.tx, fwd_cnt, pending)
        /\ guest \in Guest /\ guest.tx \in Wrapped /\ guest.known \in Wrapped /\ fwd_cnt \in Wrapped
        /\ last_fwd \in Wrapped /\ rxpkt \in RxPacket
    <2>1. ConnTypes /\ Handshake /\ TxCredit
      BY Zenon DEF ConnInv
    <2>2. Forwards
      BY <2>1, ForwardsBack
    <2> QED BY <2>1, <2>2, TxCreditIs, GuestFields, Zenon DEF ConnTypes
  <1> DEFINE a == Minus(guest.tx, fwd_cnt)
             b == Minus(guest.tx, last_fwd)
             c == Minus(guest.tx, guest.known)
  <1>1. a \in Nat /\ b \in Nat /\ c \in Nat
    BY <1>0, MinusNat, Zenon
  <1>2. a <= b /\ b <= c /\ c <= TxBufSize /\ a <= c
    <2>1. a <= b /\ b <= c /\ c <= TxBufSize
      BY <1>0, Zenon DEF Credit
    <2> HIDE DEF a, b, c
    <2> QED BY <1>1, <2>1, Constants
  <1>3. ASSUME \E op \in RxOps, n \in Nat : Yield(op, n), last_fwd' = fwd_cnt,
               UNCHANGED <<guest, fwd_cnt>>, rxpkt = NoPkt
        PROVE  Credit(rxpkt', guest'.known, last_fwd', guest'.tx, fwd_cnt', pending')
    <2>1. rxpkt' # NoPkt /\ rxpkt'.fwd = fwd_cnt
      BY <1>0, <1>3, YieldType, Zenon
    <2>2. ~(Minus(TxBufSize, Minus(fwd_cnt, fwd_cnt)) < Threshold)
      BY <1>0, ToldIsEnough, Zenon
    <2>3. a <= a /\ a <= c /\ c <= TxBufSize
      BY <1>1, <1>2
    <2> QED BY <1>3, <2>1, <2>2, <2>3, Zenon DEF Credit
  <1>4. ASSUME UNCHANGED <<rxpkt, guest, last_fwd, fwd_cnt>>,
               (pending \cap {"Rst", "CreditUpdate"} # {}) => (pending' \cap {"Rst", "CreditUpdate"} # {})
        PROVE  Credit(rxpkt', guest'.known, last_fwd', guest'.tx, fwd_cnt', pending')
    BY <1>0, <1>4, Zenon DEF Credit
  <1>5. CASE RecvSteps
    <2> USE DEF RecvCan, RecvCanRw, RecvCanRead
    <2>1. CASE RecvResponse \/ RecvRequest
      <3>1. /\ \E op \in RxOps, n \in Nat : Yield(op, n)
            /\ UNCHANGED <<guest, fwd_cnt, last_fwd>> /\ rxpkt = NoPkt
        BY <2>1, Zenon DEF RecvResponse, RecvRequest, FwdNotSeen, RxOps
      <3>2. Opening
        BY <1>0, <2>1, Zenon DEF RecvResponse, RecvRequest, Handshake, Opening
      <3>3. last_fwd' = fwd_cnt
        BY <1>0, <3>1, <3>2, Zenon DEF Handshake
      <3> QED BY <1>3, <3>1, <3>3, Zenon
    <2>2. CASE RecvCreditRequest \/ RecvEof \/ \E n \in 1..MaxPkt : RecvData(n)
      <3>1. /\ \E op \in RxOps, n \in Nat : Yield(op, n)
            /\ UNCHANGED <<guest, fwd_cnt>> /\ rxpkt = NoPkt /\ last_fwd' = fwd_cnt
        BY <2>2, Constants DEF RecvCreditRequest, RecvEof, RecvData, FwdSeen, RxOps
      <3> QED BY <1>3, <3>1, Zenon
    <2>3. ASSUME NEW left, RecvCredit(left), left \subseteq {"CreditUpdate"},
                 pending = left \/ pending = left \cup {"Rw"}, rxpkt = NoPkt
          PROVE  Credit(rxpkt', guest'.known, last_fwd', guest'.tx, fwd_cnt', pending')
      <3>1. CASE left = {"CreditUpdate"}
        <4>1. /\ \E op \in RxOps, n \in Nat : Yield(op, n)
              /\ UNCHANGED <<guest, fwd_cnt>> /\ last_fwd' = fwd_cnt
          BY <2>3, <3>1, Zenon DEF RecvCredit, FwdSeen, RxOps
        <4> QED BY <1>3, <2>3, <4>1, Zenon
      <3>2. CASE left = {}
        <4>1. pending \cap {"Rst", "CreditUpdate"} = {}
          BY <2>3, <3>2, Zenon
        <4>2. UNCHANGED <<rxpkt, guest, last_fwd, fwd_cnt>>
          BY <2>3, <3>2, Zenon DEF RecvCredit
        <4> QED BY <1>4, <4>1, <4>2, Zenon
      <3> QED BY <2>3, <3>1, <3>2, Zenon
    <2>4. CASE RecvWouldBlock
      <3>1. /\ RecvCredit(pending \ {"Rw"}) /\ rxpkt = NoPkt /\ "Rw" \in pending
            /\ pending \cap {"Rst", "Response", "Request"} = {}
        BY <2>4, Zenon DEF RecvWouldBlock
      <3>2. pending \ {"Rw"} \subseteq {"CreditUpdate"} /\ pending = (pending \ {"Rw"}) \cup {"Rw"}
        BY <1>0, <3>1, Zenon DEF ConnTypes
      <3> QED BY <2>3, <3>1, <3>2, Zenon
    <2>5. CASE RecvCreditUpdate
      <3>1. /\ RecvCredit(pending) /\ rxpkt = NoPkt
            /\ pending \cap {"Rst", "Response", "Request", "Rw"} = {}
        BY <2>5, Zenon DEF RecvCreditUpdate
      <3>2. pending \subseteq {"CreditUpdate"}
        BY <1>0, <3>1, Zenon DEF ConnTypes
      <3> QED BY <2>3, <3>1, <3>2, Zenon
    <2> QED BY <1>5, <2>1, <2>2, <2>4, <2>5, Zenon DEF RecvSteps
  <1>6. ASSUME UNCHANGED <<rxpkt, guest, last_fwd>>, NEW n \in Nat, n <= a,
               fwd_cnt' = Plus(fwd_cnt, n),
               (Minus(TxBufSize, Minus(fwd_cnt', last_fwd)) < Threshold)
                   => (pending' \cap {"Rst", "CreditUpdate"} # {})
        PROVE  Credit(rxpkt', guest'.known, last_fwd', guest'.tx, fwd_cnt', pending')
    <2>1. Minus(guest.tx, fwd_cnt') <= b
      BY <1>0, <1>6, CreditProgress, Zenon
    <2> QED BY <1>0, <1>6, <2>1, Zenon DEF Credit
  <1>7. CASE TakeSteps
    <2>1. Take
      BY <1>7 DEF TakeSteps, SendBuffered, SendWriteError, SendResponse, SendShutdown,
         SendCreditRequest, SendIgnored, SendWritten
    <2>2. UNCHANGED <<rxpkt, guest, last_fwd>> /\ ~kill
      BY <2>1, Zenon DEF Take, kill, SetState, Forwards, Opening, MaySend
    <2>3. ASSUME NEW n \in 0..MaxPkt, SendWritten(n)
          PROVE  Credit(rxpkt', guest'.known, last_fwd', guest'.tx, fwd_cnt', pending')
      <3>1. n \in Nat /\ n <= Pkt.len /\ fwd_cnt' = Plus(fwd_cnt, n) /\ WantsCreditUpdate(fwd_cnt')
        BY <2>2, <2>3, Constants DEF SendWritten
      <3>2. n <= a
        <4> DEFINE l == Len(tx_buf)
                   k == Head(tx_queue).len
        <4>1. l \in Nat /\ k \in Nat /\ l + k <= a /\ n <= k
          BY <1>0, <2>1, <3>1, InFlight, TakeFacts, Zenon DEF Pkt
        <4> HIDE DEF a, l, k
        <4> QED BY <1>1, <3>1, <4>1, SMTT(30)
      <3> QED BY <1>6, <2>2, <3>1, <3>2, Zenon DEF WantsCreditUpdate, peer_needs_credit_update
    <2>4. CASE ~\E n \in 0..MaxPkt : SendWritten(n)
      <3>1. fwd_cnt' = fwd_cnt /\ pending \subseteq pending'
        BY <1>7, <2>2, <2>4, Zenon DEF TakeSteps, SendBuffered, SendWriteError, SendResponse, SendShutdown,
           SendCreditRequest, SendIgnored, WantsCreditUpdate, control
      <3> QED BY <1>4, <2>2, <3>1, Zenon
    <2> QED BY <2>3, <2>4, Zenon
  <1>8. CASE NotifyIn
    BY <1>4, <1>8, Zenon DEF NotifyIn, counters
  <1>9. CASE NotifyOutError \/ Expire
    BY <1>9, Zenon DEF NotifyOutError, Expire, kill, SetState, Forwards, Opening, MaySend
  <1>10. ASSUME NEW n \in 0..TxBufSize, NotifyOut(n)
         PROVE  Credit(rxpkt', guest'.known, last_fwd', guest'.tx, fwd_cnt', pending')
    <2>1. /\ n \in Nat /\ n <= Len(tx_buf) /\ fwd_cnt' = Plus(fwd_cnt, n)
          /\ UNCHANGED <<rxpkt, guest, last_fwd>>
          /\ "Rst" \in pending' \/ WantsCreditUpdate(fwd_cnt')
      BY <1>10, Constants DEF NotifyOut
    <2>2. n <= a
      <3> DEFINE l == Len(tx_buf)
      <3>1. l \in Nat /\ l <= a /\ n <= l
        BY <1>0, <2>1, InFlight, Zenon
      <3> HIDE DEF a, l
      <3> QED BY <1>1, <2>1, <3>1, SMTT(30)
    <2> QED BY <1>6, <2>1, <2>2, Zenon DEF WantsCreditUpdate, peer_needs_credit_update
  <1>11. CASE GuestStep
    <2>1. UNCHANGED <<last_fwd, fwd_cnt, pending>>
      BY <1>11, ZenonT(30) DEF GuestStep, GuestData, GuestReads, GuestShutdown, GuestControl, GuestReceives,
                  counters, control
    <2>2. CASE GuestReceives
      <3>1. rxpkt # NoPkt /\ rxpkt' = NoPkt /\ guest'.known = rxpkt.fwd /\ guest'.tx = guest.tx
        BY <1>0, <2>2, Zenon DEF GuestReceives, Guest
      <3>2. rxpkt.fwd = last_fwd
        BY <1>0, <3>1, Zenon DEF Credit
      <3>3. b <= b /\ b <= TxBufSize
        <4> HIDE DEF a, b, c
        <4> QED BY <1>1, <1>2, Constants, SMTT(30)
      <3> QED BY <1>0, <2>1, <3>1, <3>2, <3>3, Zenon DEF Credit
    <2>3. CASE ~GuestReceives
      <3>1. rxpkt' = rxpkt /\ guest'.known = guest.known
        <4>1. /\ rxpkt' = rxpkt
              /\ \/ guest' = guest
                 \/ \E n \in 1..MaxPkt : guest' = [guest EXCEPT !.tx = Plus(@, n)]
                 \/ \E n \in 1..MaxPkt : guest' = [guest EXCEPT !.held = @ - n, !.fwd = Plus(@, n)]
                 \/ \E flags : guest' = [guest EXCEPT !.snd_off = @ \/ "SEND" \in flags]
          BY <1>11, <2>3, ZenonT(30) DEF GuestStep, GuestData, GuestReads, GuestShutdown, GuestControl
        <4> QED BY <1>0, <4>1, ZenonT(30) DEF Guest
      <3>2. CASE AppendsNothing
        BY <1>0, <2>1, <3>1, <3>2, ZenonT(30) DEF Credit, AppendsNothing
      <3>3. ASSUME NEW p, Appends(p)
            PROVE  Credit(rxpkt', guest'.known, last_fwd', guest'.tx, fwd_cnt', pending')
        <4> DEFINE k == p.len
        <4>1. k \in Nat /\ c + k <= TxBufSize /\ guest'.tx = Plus(guest.tx, k)
          BY <1>0, <3>3, DataFits, Zenon DEF Appends
        <4> HIDE DEF k
        <4>2. a + k < Wrap /\ b + k < Wrap /\ c + k < Wrap
          <5> HIDE DEF a, b, c
          <5> QED BY <1>1, <1>2, <4>1, Constants
        <4>3. /\ Minus(guest'.tx, fwd_cnt) = a + k /\ Minus(guest'.tx, last_fwd) = b + k
              /\ Minus(guest'.tx, guest.known) = c + k
          <5>1. Minus(Plus(guest.tx, k), fwd_cnt) = a + k
            BY <1>0, <4>1, <4>2, LeadMoves, Zenon
          <5>2. Minus(Plus(guest.tx, k), last_fwd) = b + k
            BY <1>0, <4>1, <4>2, LeadMoves, ZenonT(30)
          <5>3. Minus(Plus(guest.tx, k), guest.known) = c + k
            BY <1>0, <4>1, <4>2, LeadMoves, Zenon
          <5> HIDE DEF a, b, c
          <5> QED BY <4>1, <5>1, <5>2, <5>3, Zenon
        <4>4. a + k <= b + k /\ b + k <= c + k
          <5> HIDE DEF a, b, c
          <5> QED BY <1>1, <1>2, <4>1
        <4> QED BY <1>0, <2>1, <3>1, <4>1, <4>3, <4>4, Zenon DEF Credit
      <3> QED BY <1>0, <1>11, <3>2, <3>3, GuestAppends, Zenon
    <2> QED BY <2>2, <2>3, Zenon
  <1> QED BY <1>5, <1>7, <1>8, <1>9, <1>10, <1>11, Zenon DEF notify

----------------------------------------------------------------------------
(* The inductive invariant: the credit of the device.                      *)

LEMMA RxCreditSteps ==
    ASSUME ConnInv, RecvSteps \/ TakeSteps \/ notify \/ Expire \/ GuestStep
    PROVE  RxCredit'
  <1> DEFINE d == Minus(rx_cnt, peer_fwd)
             e == Minus(rx_cnt, guest.fwd)
  <1>0. /\ ConnTypes /\ RxCredit /\ tx_queue \in Seq(Packet) /\ rx_cnt \in Wrapped
        /\ peer_fwd \in Wrapped /\ guest \in Guest /\ guest.fwd \in Wrapped /\ guest.held \in Nat
        /\ rxpkt.len \in Nat /\ peer_alloc \in Nat /\ peer_alloc <= GuestBuf
        /\ fwd_cnt \in Wrapped
    <2>1. ConnTypes /\ RxCredit
      BY Zenon DEF ConnInv
    <2>2. peer_alloc \in Nat /\ peer_alloc <= GuestBuf
      BY <2>1, Constants DEF ConnTypes
    <2> QED BY <2>1, <2>2, GuestFields, RxFields, Zenon DEF ConnTypes
  <1>1. d \in Nat /\ e \in Nat /\ d <= peer_alloc /\ e = guest.held + rxpkt.len
    BY <1>0, MinusNat, Zenon DEF RxCredit
  <1>2. ASSUME UNCHANGED <<rx_cnt, peer_fwd, peer_alloc, tx_queue, guest>>, rxpkt'.len = rxpkt.len
        PROVE  RxCredit'
    BY <1>0, <1>2, Zenon DEF RxCredit
  <1>3. CASE RecvSteps
    <2>0. RecvSteps => rxpkt = NoPkt
      BY Zenon DEF RecvSteps, RecvResponse, RecvRequest, RecvCreditRequest, RecvEof, RecvWouldBlock,
           RecvCreditUpdate, RecvData, RecvCan, RecvCanRw, RecvCanRead
    <2>1. CASE ~\E n \in 1..MaxPkt : RecvData(n)
      <3>1. /\ UNCHANGED <<rx_cnt, peer_fwd, peer_alloc, tx_queue, guest>>
            /\ rxpkt' = rxpkt \/ \E op \in RxOps : Yield(op, 0)
        BY <1>3, <2>1, Zenon DEF RecvSteps, RecvResponse, RecvRequest, RecvCreditRequest, RecvEof,
           RecvWouldBlock, RecvCreditUpdate, RecvCredit, RxOps
      <3>2. rxpkt'.len = rxpkt.len
        BY <1>0, <1>3, <2>0, <3>1, YieldType, SMTT(30) DEF NoPkt
      <3> QED BY <1>2, <3>1, <3>2, Zenon
    <2>2. ASSUME NEW n \in 1..MaxPkt, RecvData(n)
          PROVE  RxCredit'
      <3>1. /\ n \in Nat /\ n <= Minus(peer_alloc, d) /\ rx_cnt' = Plus(rx_cnt, n)
            /\ UNCHANGED <<peer_fwd, peer_alloc, tx_queue, guest>> /\ Yield("RW", n)
        BY <2>2, Constants DEF RecvData, peer_avail_credit
      <3>2. Minus(peer_alloc, d) = peer_alloc - d
        <4>1. peer_alloc < Wrap
          BY <1>0, Constants
        <4> HIDE DEF d
        <4> QED BY <1>0, <1>1, <4>1, Left, Zenon
      <3>3. d + n <= peer_alloc /\ d + n < Wrap
        <4> HIDE DEF d
        <4> QED BY <1>0, <1>1, <3>1, <3>2, Constants, SMTT(30)
      <3>4. /\ RxChain(tx_queue, rx_cnt', guest.fwd, peer_fwd)
            /\ Minus(rx_cnt', guest.fwd) = e + n /\ Minus(rx_cnt', peer_fwd) = d + n
        BY <1>0, <3>1, <3>3, RxSend, SMTT(30) DEF RxCredit
      <3>5. rxpkt.len = 0 /\ rxpkt'.len = n
        BY <1>0, <1>3, <2>0, <2>2, <3>1, YieldType, SMTT(30) DEF NoPkt, RxOps, RecvSteps
      <3>6. e + n = guest.held + n
        <4> HIDE DEF e
        <4> QED BY <1>0, <1>1, <3>1, <3>5, SMTT(30)
      <3> QED BY <1>0, <3>1, <3>3, <3>4, <3>5, <3>6, Zenon DEF RxCredit
    <2> QED BY <2>1, <2>2, Zenon
  <1>4. CASE TakeSteps
    <2>1. Take
      BY <1>4, Zenon DEF TakeSteps, SendBuffered, SendWriteError, SendResponse, SendShutdown,
         SendCreditRequest, SendIgnored, SendWritten
    <2>2. /\ tx_queue # <<>> /\ tx_queue' = Tail(tx_queue) /\ peer_alloc' = GuestBuf
          /\ peer_fwd' = Head(tx_queue).fwd /\ UNCHANGED <<rxpkt, guest, rx_cnt>>
          /\ Head(tx_queue).fwd \in Wrapped
      BY <1>0, <2>1, TakeFacts, Zenon DEF Pkt
    <2> DEFINE g == Minus(rx_cnt, Head(tx_queue).fwd)
    <2>3. RxChain(Tail(tx_queue), rx_cnt, guest.fwd, Head(tx_queue).fwd) /\ g <= d
      BY <1>0, <2>2, RxTail, Zenon DEF RxCredit
    <2>4. g <= GuestBuf
      <3>1. g \in Nat
        BY <1>0, <2>2, MinusNat, Zenon
      <3> HIDE DEF d, g
      <3> QED BY <1>0, <1>1, <2>3, <3>1, Constants, SMTT(30)
    <2> QED BY <1>0, <2>2, <2>3, <2>4, Zenon DEF RxCredit
  <1>5. CASE notify \/ Expire
    <2>1. UNCHANGED <<rx_cnt, peer_fwd, peer_alloc, tx_queue, guest, rxpkt>>
      BY <1>5 DEF notify, NotifyIn, NotifyOut, NotifyOutError, Expire, counters
    <2> QED BY <1>2, <2>1, ZenonT(40)
  <1>6. CASE GuestStep
    <2>1. UNCHANGED <<rx_cnt, peer_fwd, peer_alloc>>
      BY <1>6, ZenonT(30) DEF GuestStep, GuestData, GuestReads, GuestShutdown, GuestControl, GuestReceives,
                  counters
    <2>2. ASSUME NEW n \in 1..MaxPkt, GuestReads(n)
          PROVE  RxCredit'
      <3>1. /\ n \in Nat /\ n <= guest.held /\ UNCHANGED <<tx_queue, rxpkt>>
            /\ guest'.held = guest.held - n /\ guest'.fwd = Plus(guest.fwd, n)
        BY <1>0, <2>2, Constants DEF GuestReads, Guest
      <3>2. n <= e
        <4> HIDE DEF e
        <4> QED BY <1>0, <1>1, <3>1
      <3>3. RxChain(tx_queue, rx_cnt, guest'.fwd, peer_fwd) /\ Minus(rx_cnt, guest'.fwd) = e - n
        <4>1. RxChain(tx_queue, rx_cnt, guest.fwd, peer_fwd)
          BY <1>0, Zenon DEF RxCredit
        <4>2. /\ RxChain(tx_queue, rx_cnt, Plus(guest.fwd, n), peer_fwd)
              /\ Minus(rx_cnt, Plus(guest.fwd, n)) = e - n
          <5>1. /\ tx_queue \in Seq(Packet) /\ rx_cnt \in Wrapped /\ guest.fwd \in Wrapped
                /\ peer_fwd \in Wrapped
            BY <1>0, Zenon
          <5>2. n \in Nat
            BY <3>1, Zenon
          <5>3. \A g \in Wrapped : (n <= Minus(rx_cnt, g) /\ RxChain(tx_queue, rx_cnt, g, peer_fwd)) =>
                  /\ RxChain(tx_queue, rx_cnt, Plus(g, n), peer_fwd)
                  /\ Minus(rx_cnt, Plus(g, n)) = Minus(rx_cnt, g) - n
            BY <5>1, <5>2, RxRead
          <5> QED BY <3>2, <4>1, <5>1, <5>3, Zenon
        <4> HIDE DEF e
        <4> QED BY <3>1, <4>2, Zenon
      <3>4. e - n = guest'.held + rxpkt'.len
        <4> HIDE DEF e
        <4> QED BY <1>0, <1>1, <3>1, SMTT(30)
      <3> QED BY <1>0, <2>1, <3>1, <3>3, <3>4, Zenon DEF RxCredit
    <2>3. CASE ~\E n \in 1..MaxPkt : GuestReads(n)
      <3>1. guest'.fwd = guest.fwd /\ guest'.held + rxpkt'.len = guest.held + rxpkt.len
        <4>1. CASE GuestReceives
          <5>1. guest'.fwd = guest.fwd /\ guest'.held = guest.held + rxpkt.len /\ rxpkt'.len = 0
            BY <1>0, <4>1, Zenon DEF GuestReceives, Guest, NoPkt
          <5> QED BY <1>0, <5>1
        <4>2. CASE ~GuestReceives
          <5>1. /\ rxpkt' = rxpkt
                /\ \/ guest' = guest
                   \/ \E n \in 1..MaxPkt : guest' = [guest EXCEPT !.tx = Plus(@, n)]
                   \/ \E flags : guest' = [guest EXCEPT !.snd_off = @ \/ "SEND" \in flags]
            BY <1>6, <2>3, <4>2, Zenon DEF GuestStep, GuestData, GuestShutdown, GuestControl
          <5>2. guest'.fwd = guest.fwd /\ guest'.held = guest.held
            BY <1>0, <5>1, Zenon DEF Guest
          <5> QED BY <5>1, <5>2, Zenon
        <4> QED BY <4>1, <4>2, Zenon
      <3>2. CASE tx_queue' = tx_queue
        BY <1>0, <2>1, <3>1, <3>2, Zenon DEF RxCredit
      <3>3. ASSUME NEW p, Appends(p)
            PROVE  RxCredit'
        <4>1. RxChain(Append(tx_queue, p), rx_cnt, guest.fwd, peer_fwd)
          BY <1>0, <3>3, RxAppend, Zenon DEF RxCredit, Appends
        <4> QED BY <1>0, <2>1, <3>1, <3>3, <4>1, ZenonT(30) DEF RxCredit, Appends
      <3> QED BY <1>0, <1>6, <3>2, <3>3, GuestAppends, Zenon DEF AppendsNothing
    <2> QED BY <2>2, <2>3, Zenon
  <1> QED BY <1>3, <1>4, <1>5, <1>6, Zenon

----------------------------------------------------------------------------
(* Flow control.                                                           *)

\* Every step of the connection, the device and the driver keeps the invariant.
THEOREM ConnInvariant == ConnSpec => []ConnInv
  <1>1. ConnInit => ConnInv
    BY InitInv, Zenon
  <1>2. ConnInv /\ [ConnNext]_cvars => ConnInv'
    <2> SUFFICES ASSUME ConnInv, [ConnNext]_cvars
                 PROVE  ConnInv'
      BY Zenon
    <2>1. CASE UNCHANGED cvars
      BY <2>1, ZenonT(30) DEF ConnInv, ConnTypes, Handshake, Opening, QueueOrder, Forwards, MaySend, TxOrder,
                  TxCredit, RxCredit, peer_needs_credit_update, cvars, control, counters
    <2>2. CASE ResetSteps
      BY <2>2, ResetInv, Zenon
    <2>3. CASE RecvSteps \/ TakeSteps \/ notify \/ Expire \/ GuestStep
      <3>1. ConnTypes /\ Handshake /\ QueueOrder
        BY Zenon DEF ConnInv
      <3>2. ConnTypes'
        BY <2>3, <3>1, RecvTypes, TakeTypes, NotifyTypes, GuestTypes, Zenon
      <3>3. Handshake'
        BY <2>3, <3>1, RecvHandshake, TakeHandshake, NotifyHandshake, GuestHandshake, Zenon
      <3>4. QueueOrder'
        BY <2>3, <3>1, <3>2, QueueSteps, Zenon
      <3>5. TxOrder' /\ TxCredit' /\ RxCredit'
        BY <2>3, TxOrderSteps, TxCreditSteps, RxCreditSteps, Zenon
      <3> QED BY <3>2, <3>3, <3>4, <3>5, Zenon DEF ConnInv
    <2> QED BY <2>1, <2>2, <2>3, NextSteps, Zenon
  <1> QED BY <1>1, <1>2, PTL DEF ConnSpec

LEMMA FlowFollows ==
    ASSUME ConnInv
    PROVE  FlowControlled
  <1>1. InOrder /\ TxBufFits
    <2> SUFFICES ASSUME MaySend
                 PROVE  /\ out = fwd_cnt /\ tx_buf = Bytes(out, Len(tx_buf))
                        /\ Ahead(1) = Len(tx_buf)
                        /\ \A i \in 1..Len(tx_queue) : Ahead(i + 1) = Ahead(i) + tx_queue[i].len
                        /\ Minus(guest.tx, fwd_cnt) <= TxBufSize
      BY Zenon DEF InOrder, TxBufFits
    <2>1. Forwards
      BY Zenon DEF Forwards
    <2>2. \A i : Ahead(i) = Dist(tx_queue, guest.tx, fwd_cnt, i)
      BY DEF Ahead, Dist
    <2> QED BY <2>1, <2>2, InFlight, Zenon DEF ConnInv, TxOrder, Chain
  <1>2. GuestFits
    <2> DEFINE d == Minus(rx_cnt, peer_fwd)
               e == Minus(rx_cnt, guest.fwd)
    <2>1. e \in Nat /\ d \in Nat
      BY GuestFields, MinusNat, ZenonT(30) DEF ConnInv, ConnTypes
    <2>2. e <= d /\ d <= peer_alloc /\ e = guest.held + rxpkt.len
      BY Zenon DEF ConnInv, RxCredit, RxChain
    <2>3. peer_alloc \in {0, GuestBuf}
      BY Zenon DEF ConnInv, ConnTypes
    <2> HIDE DEF d, e
    <2>4. e <= GuestBuf
      BY <2>1, <2>2, <2>3, Constants, SMTT(30)
    <2> QED BY <2>2, <2>4, Zenon DEF GuestFits, e
  <1>3. StarvedIsTold
    <2> SUFFICES ASSUME MaySend, guestFree < Threshold, Minus(guest.tx, fwd_cnt) = 0,
                        ~(rxpkt # NoPkt /\ Minus(rxpkt.fwd, guest.known) > 0)
                 PROVE  pending # {}
      BY Zenon DEF StarvedIsTold
    <2>1. /\ guest.tx \in Wrapped /\ guest.known \in Wrapped /\ fwd_cnt \in Wrapped
          /\ rxpkt.fwd \in Wrapped /\ TxCredit /\ Forwards
      BY GuestFields, RxFields, Zenon DEF ConnInv, ConnTypes, Forwards
    <2>2. guest.tx = fwd_cnt
      BY <2>1, MinusZero, Zenon
    <2>3. guest.known = last_fwd
      <3>1. CASE rxpkt = NoPkt
        BY <2>1, <3>1, Zenon DEF TxCredit
      <3>2. CASE rxpkt # NoPkt
        <4>1. Minus(rxpkt.fwd, guest.known) \in Nat
          BY <2>1, MinusNat, Zenon
        <4>2. Minus(rxpkt.fwd, guest.known) = 0
          BY <3>2, <4>1
        <4>3. rxpkt.fwd = guest.known
          BY <2>1, <4>2, MinusZero, Zenon
        <4> QED BY <2>1, <3>2, <4>3, Zenon DEF TxCredit
      <3> QED BY <3>1, <3>2, Zenon
    <2>4. peer_needs_credit_update(fwd_cnt)
      BY <2>2, <2>3, Zenon DEF peer_needs_credit_update, guestFree
    <2> QED BY <2>1, <2>4, Zenon DEF TxCredit
  <1> QED BY <1>1, <1>2, <1>3, Zenon DEF FlowControlled

\* Flow control between the guest, the TX buffer and the host stream, for every
\* width of the counters, size of the buffers and length of the queue: bytes stay
\* in order, neither buffer overflows, and a guest that has used up its credit
\* is told of what it has got back (FlowControlled).
THEOREM FlowIsControlled == ConnSpec => []FlowControlled
  BY ConnInvariant, FlowFollows, PTL
=============================================================================
