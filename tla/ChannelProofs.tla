--------------------------- MODULE ChannelProofs ---------------------------
(***************************************************************************)
(* A vsock connection (VsockConnection) implements the channel the muxer   *)
(* works with (VsockChannel).  A handler of the channel is a set of        *)
(* outcomes, so the first part says, of any two channels that differ as a  *)
(* handler makes them differ, that the second is an outcome; the second    *)
(* part says that each step of the connection makes such a difference.     *)
(***************************************************************************)
EXTENDS ConnProofs

----------------------------------------------------------------------------
(* The channel the muxer works with: its handlers, on values.              *)

Rec == Abs!Channel({1})

\* Two channels that agree in every field.
Same(c, d) ==
    /\ c.state = d.state /\ c.rcv_off = d.rcv_off /\ c.snd_off = d.snd_off
    /\ c.pending = d.pending /\ c.expiry = d.expiry
    /\ c.buffered = d.buffered /\ c.credit = d.credit

LEMMA SameRec ==
    ASSUME NEW c \in Rec, NEW d \in Rec, Same(c, d)
    PROVE  c = d
  BY DEF Rec, Same, Abs!Channel

LEMMA PendingFields ==
    ASSUME NEW c \in Rec, NEW p \in SUBSET Abs!Indications
    PROVE  /\ [c EXCEPT !.pending = p] \in Rec
           /\ [c EXCEPT !.pending = p].pending = p
           /\ [c EXCEPT !.pending = p].state = c.state
           /\ [c EXCEPT !.pending = p].rcv_off = c.rcv_off
           /\ [c EXCEPT !.pending = p].snd_off = c.snd_off
           /\ [c EXCEPT !.pending = p].expiry = c.expiry
           /\ [c EXCEPT !.pending = p].buffered = c.buffered
           /\ [c EXCEPT !.pending = p].credit = c.credit
  BY Zenon DEF Rec, Abs!Channel

LEMMA CreditFields ==
    ASSUME NEW c \in Rec, NEW k \in BOOLEAN
    PROVE  /\ [c EXCEPT !.credit = k] \in Rec
           /\ [c EXCEPT !.credit = k].credit = k
           /\ [c EXCEPT !.credit = k].state = c.state
           /\ [c EXCEPT !.credit = k].rcv_off = c.rcv_off
           /\ [c EXCEPT !.credit = k].snd_off = c.snd_off
           /\ [c EXCEPT !.credit = k].expiry = c.expiry
           /\ [c EXCEPT !.credit = k].buffered = c.buffered
           /\ [c EXCEPT !.credit = k].pending = c.pending
  BY Zenon DEF Rec, Abs!Channel

LEMMA BufferedFields ==
    ASSUME NEW c \in Rec, NEW k \in BOOLEAN
    PROVE  /\ [c EXCEPT !.buffered = k] \in Rec
           /\ [c EXCEPT !.buffered = k].buffered = k
           /\ [c EXCEPT !.buffered = k].state = c.state
           /\ [c EXCEPT !.buffered = k].rcv_off = c.rcv_off
           /\ [c EXCEPT !.buffered = k].snd_off = c.snd_off
           /\ [c EXCEPT !.buffered = k].expiry = c.expiry
           /\ [c EXCEPT !.buffered = k].credit = c.credit
           /\ [c EXCEPT !.buffered = k].pending = c.pending
  BY Zenon DEF Rec, Abs!Channel

LEMMA ExpiryFields ==
    ASSUME NEW c \in Rec, NEW e \in {0, 1}
    PROVE  /\ [c EXCEPT !.expiry = e] \in Rec
           /\ [c EXCEPT !.expiry = e].expiry = e
           /\ [c EXCEPT !.expiry = e].state = c.state
           /\ [c EXCEPT !.expiry = e].rcv_off = c.rcv_off
           /\ [c EXCEPT !.expiry = e].snd_off = c.snd_off
           /\ [c EXCEPT !.expiry = e].buffered = c.buffered
           /\ [c EXCEPT !.expiry = e].credit = c.credit
           /\ [c EXCEPT !.expiry = e].pending = c.pending
  BY Zenon DEF Rec, Abs!Channel, Abs!Never

LEMMA OpenFields ==
    ASSUME NEW c \in Rec, NEW s \in Abs!States
    PROVE  /\ [c EXCEPT !.state = s] \in Rec
           /\ [c EXCEPT !.state = s].state = s
           /\ [c EXCEPT !.state = s].pending = c.pending
           /\ [c EXCEPT !.state = s].rcv_off = c.rcv_off
           /\ [c EXCEPT !.state = s].snd_off = c.snd_off
           /\ [c EXCEPT !.state = s].expiry = c.expiry
           /\ [c EXCEPT !.state = s].buffered = c.buffered
           /\ [c EXCEPT !.state = s].credit = c.credit
  BY Zenon DEF Rec, Abs!Channel

LEMMA RecTypes ==
    ASSUME NEW c \in Rec
    PROVE  /\ c.state \in Abs!States /\ c.rcv_off \in BOOLEAN /\ c.snd_off \in BOOLEAN
           /\ c.pending \in SUBSET Abs!Indications /\ c.expiry \in {0, 1}
           /\ c.buffered \in BOOLEAN /\ c.credit \in BOOLEAN
  BY Zenon DEF Rec, Abs!Channel, Abs!Never

\* The same connection but for what is pending, for the state, for the two facts
\* about the counters.
SameStatus(c, d) == d.state = c.state /\ d.rcv_off = c.rcv_off /\ d.snd_off = c.snd_off
SameCounts(c, d) == d.buffered = c.buffered /\ d.credit = c.credit
Closed(d, s) == d.state = s /\ ~d.rcv_off /\ ~d.snd_off

LEMMA WithFields ==
    ASSUME NEW c \in Rec, NEW i \in Abs!Indications
    PROVE  /\ Abs!With(c, i) \in Rec /\ Abs!With(c, i).pending = c.pending \cup {i}
           /\ SameStatus(c, Abs!With(c, i)) /\ SameCounts(c, Abs!With(c, i))
           /\ Abs!With(c, i).expiry = c.expiry
  <1> DEFINE p == c.pending \cup {i}
  <1>1. p \in SUBSET Abs!Indications
    BY RecTypes, Zenon
  <1>2. Abs!With(c, i) = [c EXCEPT !.pending = p]
    BY Zenon DEF Abs!With
  <1> HIDE DEF p
  <1>3. /\ [c EXCEPT !.pending = p] \in Rec /\ [c EXCEPT !.pending = p].pending = p
        /\ SameStatus(c, [c EXCEPT !.pending = p]) /\ SameCounts(c, [c EXCEPT !.pending = p])
        /\ [c EXCEPT !.pending = p].expiry = c.expiry
    BY <1>1, PendingFields, Zenon DEF SameStatus, SameCounts
  <1> QED BY <1>2, <1>3, Zenon DEF p

LEMMA WithoutFields ==
    ASSUME NEW c \in Rec, NEW i
    PROVE  /\ Abs!Without(c, i) \in Rec /\ Abs!Without(c, i).pending = c.pending \ {i}
           /\ SameStatus(c, Abs!Without(c, i)) /\ SameCounts(c, Abs!Without(c, i))
           /\ Abs!Without(c, i).expiry = c.expiry
  <1> DEFINE p == c.pending \ {i}
  <1>1. p \in SUBSET Abs!Indications
    BY RecTypes, Zenon
  <1>2. Abs!Without(c, i) = [c EXCEPT !.pending = p]
    BY Zenon DEF Abs!Without
  <1> HIDE DEF p
  <1>3. /\ [c EXCEPT !.pending = p] \in Rec /\ [c EXCEPT !.pending = p].pending = p
        /\ SameStatus(c, [c EXCEPT !.pending = p]) /\ SameCounts(c, [c EXCEPT !.pending = p])
        /\ [c EXCEPT !.pending = p].expiry = c.expiry
    BY <1>1, PendingFields, Zenon DEF SameStatus, SameCounts
  <1> QED BY <1>2, <1>3, Zenon DEF p

LEMMA BecomeFields ==
    ASSUME NEW c \in Rec, NEW s \in Abs!States
    PROVE  /\ Abs!Become(c, s) \in Rec /\ Abs!Become(c, s).pending = c.pending
           /\ Closed(Abs!Become(c, s), s) /\ SameCounts(c, Abs!Become(c, s))
           /\ Abs!Become(c, s).expiry = c.expiry
  <1> DEFINE no == FALSE
             d == [c EXCEPT !.state = s, !.rcv_off = no, !.snd_off = no]
  <1>1. no \in BOOLEAN /\ ~no
    BY Zenon
  <1>2. Abs!Become(c, s) = d
    BY Zenon DEF Abs!Become
  <1> HIDE DEF no
  <1>3. /\ d \in Rec /\ d.state = s /\ d.rcv_off = no /\ d.snd_off = no
        /\ d.pending = c.pending /\ d.expiry = c.expiry /\ SameCounts(c, d)
    BY <1>1, Zenon DEF SameCounts, Rec, Abs!Channel
  <1> HIDE DEF d
  <1>4. Closed(d, s)
    BY <1>1, <1>3, Zenon DEF Closed
  <1> QED BY <1>2, <1>3, <1>4, Zenon

LEMMA KillFields ==
    ASSUME NEW c \in Rec
    PROVE  /\ Abs!Kill(c) \in Rec /\ Abs!Kill(c).pending = c.pending \cup {"Rst"}
           /\ Closed(Abs!Kill(c), "Killed") /\ SameCounts(c, Abs!Kill(c))
           /\ Abs!Kill(c).expiry = c.expiry
  <1>1. "Rst" \in Abs!Indications /\ "Killed" \in Abs!States
    BY Zenon DEF Abs!Indications, Abs!States
  <1> DEFINE d == Abs!With(c, "Rst")
  <1>2. d \in Rec /\ d.pending = c.pending \cup {"Rst"} /\ SameCounts(c, d) /\ d.expiry = c.expiry
    BY <1>1, WithFields, Zenon
  <1>3. Abs!Kill(c) = Abs!Become(d, "Killed")
    BY Zenon DEF Abs!Kill
  <1> HIDE DEF d
  <1>4. /\ Abs!Become(d, "Killed") \in Rec /\ Abs!Become(d, "Killed").pending = d.pending
        /\ Closed(Abs!Become(d, "Killed"), "Killed") /\ SameCounts(d, Abs!Become(d, "Killed"))
        /\ Abs!Become(d, "Killed").expiry = d.expiry
    BY <1>1, <1>2, BecomeFields, Zenon
  <1> QED BY <1>2, <1>3, <1>4, Zenon DEF SameCounts

LEMMA OutcomeFields ==
    ASSUME NEW c, NEW op
    PROVE  Abs!Outcome(c, op).conn = c /\ Abs!Outcome(c, op).op = op
  BY Zenon DEF Abs!Outcome

\* recv_pkt goes by the first of the pending indications.
LEMMA RecvPktIs ==
    ASSUME NEW c
    PROVE  /\ "Rst" \in c.pending =>
                Abs!RecvPkt(c, 1) = {Abs!Outcome(Abs!Without(c, "Rst"), "RST")}
           /\ ("Rst" \notin c.pending /\ "Response" \in c.pending) =>
                Abs!RecvPkt(c, 1) =
                   {Abs!Outcome([Abs!Without(c, "Response") EXCEPT !.state = "Established"],
                                "RESPONSE")}
           /\ (c.pending \cap {"Rst", "Response"} = {} /\ "Request" \in c.pending) =>
                Abs!RecvPkt(c, 1) =
                   {Abs!Outcome([Abs!Without(c, "Request") EXCEPT !.expiry = 1], "REQUEST")}
           /\ (c.pending \cap {"Rst", "Response", "Request"} = {} /\ "Rw" \in c.pending) =>
                Abs!RecvPkt(c, 1) = Abs!RecvRw(Abs!Without(c, "Rw"), 1)
           /\ (c.pending \cap {"Rst", "Response", "Request", "Rw"} = {}) =>
                Abs!RecvPkt(c, 1) = Abs!RecvCredit(c)
  BY Zenon DEF Abs!RecvPkt

LEMMA ClosedSame ==
    ASSUME NEW c \in Rec, NEW d \in Rec, Closed(c, c.state), Closed(d, d.state)
    PROVE  c.rcv_off = d.rcv_off /\ c.snd_off = d.snd_off
  <1>1. /\ c.rcv_off \in BOOLEAN /\ d.rcv_off \in BOOLEAN
        /\ c.snd_off \in BOOLEAN /\ d.snd_off \in BOOLEAN
    BY RecTypes, Zenon
  <1> QED BY <1>1, Zenon DEF Closed

\* recv_pkt may leave the connection as d, or reset it.
Received(c, d) == \E r \in Abs!RecvPkt(c, 1) : r.op # "RST" /\ d = r.conn
Refused(c) == \E r \in Abs!RecvPkt(c, 1) : r.op = "RST"

LEMMA OutcomeReceived ==
    ASSUME NEW c, NEW d, NEW op, op # "RST", Abs!Outcome(d, op) \in Abs!RecvPkt(c, 1)
    PROVE  Received(c, d)
  BY OutcomeFields DEF Received

LEMMA ReceivedResponse ==
    ASSUME NEW c \in Rec, NEW d \in Rec, "Rst" \notin c.pending, "Response" \in c.pending,
           Closed(c, c.state), Closed(d, "Established"), SameCounts(c, d),
           d.pending = c.pending \ {"Response"}, d.expiry = c.expiry
    PROVE  Received(c, d)
  <1> DEFINE w == Abs!Without(c, "Response")
             x == [w EXCEPT !.state = "Established"]
  <1>1. w \in Rec /\ w.pending = d.pending /\ SameStatus(c, w) /\ SameCounts(c, w)
        /\ w.expiry = c.expiry
    BY WithoutFields, Zenon
  <1>2. "Established" \in Abs!States
    BY Zenon DEF Abs!States
  <1>3. Abs!RecvPkt(c, 1) = {Abs!Outcome(x, "RESPONSE")}
    BY RecvPktIs, Zenon
  <1> HIDE DEF w
  <1>4. /\ x \in Rec /\ x.state = "Established" /\ x.pending = w.pending
        /\ x.rcv_off = w.rcv_off /\ x.snd_off = w.snd_off /\ x.expiry = w.expiry
        /\ SameCounts(w, x)
    BY <1>1, <1>2, OpenFields DEF SameCounts
  <1> HIDE DEF x
  <1>5. c.rcv_off = d.rcv_off /\ c.snd_off = d.snd_off /\ d.state = "Established"
    BY ClosedSame, Zenon DEF Closed
  <1>6. Same(d, x)
    BY <1>1, <1>4, <1>5, Zenon DEF Same, SameStatus, SameCounts
  <1>7. d = x
    BY <1>4, <1>6, SameRec, Zenon
  <1> QED BY <1>3, <1>7, OutcomeReceived, Zenon

LEMMA ReceivedRequest ==
    ASSUME NEW c \in Rec, NEW d \in Rec, c.pending \cap {"Rst", "Response"} = {},
           "Request" \in c.pending, SameStatus(c, d), SameCounts(c, d),
           d.pending = c.pending \ {"Request"}, d.expiry = 1
    PROVE  Received(c, d)
  <1> DEFINE w == Abs!Without(c, "Request")
             x == [w EXCEPT !.expiry = 1]
  <1>1. w \in Rec /\ w.pending = d.pending /\ SameStatus(c, w) /\ SameCounts(c, w)
    BY WithoutFields, Zenon
  <1>3. Abs!RecvPkt(c, 1) = {Abs!Outcome(x, "REQUEST")}
    BY RecvPktIs, Zenon
  <1> HIDE DEF w
  <1>4. /\ x \in Rec /\ x.expiry = 1 /\ x.pending = w.pending
        /\ SameStatus(w, x) /\ SameCounts(w, x)
    BY <1>1, ExpiryFields, Zenon DEF SameCounts, SameStatus
  <1> HIDE DEF x
  <1>5. Same(d, x)
    BY <1>1, <1>4, Zenon DEF Same, SameStatus, SameCounts
  <1>6. d = x
    BY <1>4, <1>5, SameRec, Zenon
  <1> QED BY <1>3, <1>6, OutcomeReceived, Zenon

\* What a pending Rw leads to, in a connection w with that indication removed.
LEMMA RecvRwIs ==
    ASSUME NEW c \in Rec, c.pending \cap {"Rst", "Response", "Request"} = {},
           "Rw" \in c.pending, NEW w, w = Abs!Without(c, "Rw")
    PROVE  /\ w \in Rec /\ w.pending = c.pending \ {"Rw"} /\ SameStatus(c, w)
           /\ SameCounts(c, w) /\ w.expiry = c.expiry
           /\ Abs!MayReceive(w) <=> Abs!MayReceive(c)
           /\ ~Abs!MayReceive(c) => Abs!Outcome(w, "RST") \in Abs!RecvPkt(c, 1)
           /\ (Abs!MayReceive(c) /\ ~c.credit) =>
                 Abs!Outcome(w, "CREDIT_REQUEST") \in Abs!RecvPkt(c, 1)
           /\ (Abs!MayReceive(c) /\ c.credit) =>
                 /\ Abs!Outcome(w, "RST") \in Abs!RecvPkt(c, 1)
                 /\ \A k \in BOOLEAN :
                       Abs!Outcome([w EXCEPT !.credit = k], "RW") \in Abs!RecvPkt(c, 1)
                 /\ Abs!Outcome([Abs!Become(w, "LocalClosed") EXCEPT !.expiry = 1], "SHUTDOWN")
                       \in Abs!RecvPkt(c, 1)
                 /\ Abs!RecvCredit(w) \subseteq Abs!RecvPkt(c, 1)
  <1>1. /\ w \in Rec /\ w.pending = c.pending \ {"Rw"} /\ SameStatus(c, w)
        /\ SameCounts(c, w) /\ w.expiry = c.expiry
    BY WithoutFields, Zenon
  <1>2. Abs!MayReceive(w) <=> Abs!MayReceive(c)
    BY <1>1, Zenon DEF SameStatus, Abs!MayReceive
  <1>3. Abs!RecvPkt(c, 1) = Abs!RecvRw(w, 1)
    BY RecvPktIs, Zenon
  <1>4. w.credit = c.credit
    BY <1>1, Zenon DEF SameCounts
  <1>5. ~Abs!MayReceive(c) => Abs!Outcome(w, "RST") \in Abs!RecvRw(w, 1)
    BY <1>2, Zenon DEF Abs!RecvRw
  <1>6. (Abs!MayReceive(c) /\ ~c.credit) => Abs!Outcome(w, "CREDIT_REQUEST") \in Abs!RecvRw(w, 1)
    BY <1>2, <1>4, Zenon DEF Abs!RecvRw
  <1>7. ASSUME Abs!MayReceive(c), c.credit
        PROVE  /\ Abs!Outcome(w, "RST") \in Abs!RecvRw(w, 1)
               /\ \A k \in BOOLEAN :
                     Abs!Outcome([w EXCEPT !.credit = k], "RW") \in Abs!RecvRw(w, 1)
               /\ Abs!Outcome([Abs!Become(w, "LocalClosed") EXCEPT !.expiry = 1], "SHUTDOWN")
                     \in Abs!RecvRw(w, 1)
               /\ Abs!RecvCredit(w) \subseteq Abs!RecvRw(w, 1)
    BY <1>2, <1>4, <1>7, Zenon DEF Abs!RecvRw
  <1> QED BY <1>1, <1>2, <1>3, <1>5, <1>6, <1>7, Zenon

LEMMA CreditReceived ==
    ASSUME NEW c \in Rec, NEW d \in Rec, SameStatus(c, d), SameCounts(c, d),
           d.pending = c.pending \ {"CreditUpdate"}, d.expiry = c.expiry
    PROVE  \E r \in Abs!RecvCredit(c) : r.op # "RST" /\ d = r.conn
  <1> DEFINE w == Abs!Without(c, "CreditUpdate")
             op == IF c.pending = {"CreditUpdate"} THEN "CREDIT_UPDATE" ELSE "NoData"
  <1>1. /\ w \in Rec /\ w.pending = d.pending /\ SameStatus(c, w) /\ SameCounts(c, w)
        /\ w.expiry = c.expiry
    BY WithoutFields, Zenon
  <1>2. Abs!RecvCredit(c) = {Abs!Outcome(w, op)}
    BY Zenon DEF Abs!RecvCredit
  <1>3. op # "RST"
    BY Zenon
  <1> HIDE DEF w, op
  <1>4. d = w
    BY <1>1, SameRec, Zenon DEF Same, SameStatus, SameCounts
  <1> QED BY <1>2, <1>3, <1>4, OutcomeFields

LEMMA ReceivedCredit ==
    ASSUME NEW c \in Rec, NEW d \in Rec, c.pending \cap {"Rst", "Response", "Request", "Rw"} = {},
           SameStatus(c, d), SameCounts(c, d),
           d.pending = c.pending \ {"CreditUpdate"}, d.expiry = c.expiry
    PROVE  Received(c, d)
  <1>1. Abs!RecvPkt(c, 1) = Abs!RecvCredit(c)
    BY RecvPktIs, Zenon
  <1>2. \E r \in Abs!RecvCredit(c) : r.op # "RST" /\ d = r.conn
    BY CreditReceived, Zenon
  <1> QED BY <1>1, <1>2, Zenon DEF Received

\* A pending Rw: no credit, data, end of the stream, nothing to read.
LEMMA ReceivedRw ==
    ASSUME NEW c \in Rec, NEW d \in Rec, c.pending \cap {"Rst", "Response", "Request"} = {},
           "Rw" \in c.pending, Abs!MayReceive(c),
           \/ ~c.credit /\ SameStatus(c, d) /\ SameCounts(c, d) /\ d.expiry = c.expiry
              /\ d.pending = c.pending \ {"Rw"}
           \/ c.credit /\ SameStatus(c, d) /\ d.buffered = c.buffered /\ d.expiry = c.expiry
              /\ d.pending = c.pending \ {"Rw"}
           \/ c.credit /\ Closed(d, "LocalClosed") /\ SameCounts(c, d) /\ d.expiry = 1
              /\ d.pending = c.pending \ {"Rw"}
           \/ c.credit /\ SameStatus(c, d) /\ SameCounts(c, d) /\ d.expiry = c.expiry
              /\ d.pending = (c.pending \ {"Rw"}) \ {"CreditUpdate"}
    PROVE  Received(c, d)
  <1> DEFINE w == Abs!Without(c, "Rw")
  <1>1. /\ w \in Rec /\ w.pending = c.pending \ {"Rw"} /\ SameStatus(c, w)
        /\ SameCounts(c, w) /\ w.expiry = c.expiry
    BY WithoutFields, Zenon
  <1>a. ~c.credit => Abs!Outcome(w, "CREDIT_REQUEST") \in Abs!RecvPkt(c, 1)
    BY RecvRwIs, Zenon
  <1>b. c.credit =>
            /\ \A k \in BOOLEAN :
                  Abs!Outcome([w EXCEPT !.credit = k], "RW") \in Abs!RecvPkt(c, 1)
            /\ Abs!Outcome([Abs!Become(w, "LocalClosed") EXCEPT !.expiry = 1], "SHUTDOWN")
                  \in Abs!RecvPkt(c, 1)
            /\ Abs!RecvCredit(w) \subseteq Abs!RecvPkt(c, 1)
    BY RecvRwIs, Zenon
  <1> HIDE DEF w
  <1>2. CASE ~c.credit /\ SameStatus(c, d) /\ SameCounts(c, d) /\ d.expiry = c.expiry
             /\ d.pending = c.pending \ {"Rw"}
    <2>1. Same(d, w)
      BY <1>1, <1>2, Zenon DEF Same, SameStatus, SameCounts
    <2>2. d = w
      BY <1>1, <2>1, SameRec, Zenon
    <2> QED BY <1>2, <1>a, <2>2, OutcomeReceived, Zenon
  <1>3. CASE c.credit /\ SameStatus(c, d) /\ d.buffered = c.buffered /\ d.expiry = c.expiry
             /\ d.pending = c.pending \ {"Rw"}
    <2> DEFINE k == d.credit
               x == [w EXCEPT !.credit = k]
    <2>1. k \in BOOLEAN
      BY RecTypes, Zenon
    <2>2. Abs!Outcome(x, "RW") \in Abs!RecvPkt(c, 1)
      BY <2>1, <1>3, <1>b, Zenon
    <2> HIDE DEF k
    <2>3. /\ x \in Rec /\ SameStatus(w, x) /\ x.buffered = w.buffered /\ x.credit = k
          /\ x.pending = w.pending /\ x.expiry = w.expiry
      BY <2>1, <1>1, CreditFields DEF SameStatus
    <2> HIDE DEF x
    <2>4. Same(d, x)
      BY <1>1, <1>3, <2>3, Zenon DEF Same, SameStatus, SameCounts, k
    <2>5. d = x
      BY <2>3, <2>4, SameRec, Zenon
    <2> QED BY <2>2, <2>5, OutcomeReceived, Zenon
  <1>4. CASE c.credit /\ Closed(d, "LocalClosed") /\ SameCounts(c, d) /\ d.expiry = 1
             /\ d.pending = c.pending \ {"Rw"}
    <2> DEFINE b == Abs!Become(w, "LocalClosed")
               x == [b EXCEPT !.expiry = 1]
    <2>1. "LocalClosed" \in Abs!States
      BY Zenon DEF Abs!States
    <2>2. b \in Rec /\ b.pending = w.pending /\ Closed(b, "LocalClosed") /\ SameCounts(w, b)
      BY <1>1, <2>1, BecomeFields, Zenon
    <2>3. Abs!Outcome(x, "SHUTDOWN") \in Abs!RecvPkt(c, 1)
      BY <1>4, <1>b, Zenon
    <2> HIDE DEF b
    <2>4. /\ x \in Rec /\ x.expiry = 1 /\ x.pending = b.pending
          /\ SameStatus(b, x) /\ SameCounts(b, x)
      BY <2>2, ExpiryFields, Zenon DEF SameCounts, SameStatus
    <2> HIDE DEF x
    <2>5. b.rcv_off = d.rcv_off /\ b.snd_off = d.snd_off /\ d.state = b.state
      BY <1>4, <2>2, ClosedSame, Zenon DEF Closed
    <2>6. d.pending = x.pending /\ d.expiry = x.expiry /\ SameCounts(d, x) /\ SameStatus(d, x)
      BY <1>1, <1>4, <2>2, <2>4, <2>5, ZenonT(40) DEF SameStatus, SameCounts
    <2>7. Same(d, x)
      BY <2>6, Zenon DEF Same, SameStatus, SameCounts
    <2>8. d = x
      BY <2>4, <2>7, SameRec, Zenon
    <2> QED BY <2>3, <2>8, OutcomeReceived, Zenon
  <1>5. CASE c.credit /\ SameStatus(c, d) /\ SameCounts(c, d) /\ d.expiry = c.expiry
             /\ d.pending = (c.pending \ {"Rw"}) \ {"CreditUpdate"}
    <2>1. \E r \in Abs!RecvCredit(w) : r.op # "RST" /\ d = r.conn
      <3>1. SameStatus(w, d) /\ SameCounts(w, d) /\ d.expiry = w.expiry
            /\ d.pending = w.pending \ {"CreditUpdate"}
        BY <1>1, <1>5, Zenon DEF SameStatus, SameCounts
      <3> QED BY <3>1, <1>1, CreditReceived
    <2> QED BY <1>5, <1>b, <2>1, Zenon DEF Received
  <1> QED BY <1>2, <1>3, <1>4, <1>5, Zenon

LEMMA RefusedWhen ==
    ASSUME NEW c \in Rec,
           \/ "Rst" \in c.pending
           \/ /\ c.pending \cap {"Rst", "Response", "Request"} = {} /\ "Rw" \in c.pending
              /\ ~Abs!MayReceive(c) \/ c.credit
    PROVE  Refused(c)
  <1>1. CASE "Rst" \in c.pending
    <2>1. Abs!RecvPkt(c, 1) = {Abs!Outcome(Abs!Without(c, "Rst"), "RST")}
      BY <1>1, RecvPktIs, Zenon
    <2> QED BY <2>1, OutcomeFields DEF Refused
  <1>2. CASE /\ c.pending \cap {"Rst", "Response", "Request"} = {} /\ "Rw" \in c.pending
             /\ ~Abs!MayReceive(c) \/ c.credit
    <2>1. Abs!Outcome(Abs!Without(c, "Rw"), "RST") \in Abs!RecvPkt(c, 1)
      BY <1>2, RecvRwIs, Zenon
    <2> QED BY <2>1, OutcomeFields DEF Refused
  <1> QED BY <1>1, <1>2, Zenon

\* send_pkt first takes the credit of the packet, which gives h, and handles the
\* packet in that connection.
Heard(c, k) == [c EXCEPT !.credit = k]

LEMMA HeardFields ==
    ASSUME NEW c \in Rec, NEW k \in BOOLEAN, NEW h, h = Heard(c, k)
    PROVE  /\ h \in Rec /\ SameStatus(c, h) /\ h.pending = c.pending /\ h.expiry = c.expiry
           /\ h.buffered = c.buffered /\ h.credit = k
           /\ Abs!MaySend(h) <=> Abs!MaySend(c)
  <1>1. /\ h \in Rec /\ SameStatus(c, h) /\ h.pending = c.pending /\ h.expiry = c.expiry
        /\ h.buffered = c.buffered /\ h.credit = k
    BY CreditFields, Zenon DEF Heard, SameStatus
  <1> QED BY <1>1, Zenon DEF SameStatus, Abs!MaySend

Handled(h, op, flags) ==
    CASE op = "RW" /\ Abs!MaySend(h) -> {h} \cup Abs!SendData(h)
      [] op = "RESPONSE" /\ h.state = "LocalInit" ->
           {[h EXCEPT !.expiry = Abs!Never, !.state = "Established"]}
      [] op = "SHUTDOWN" /\ h.state \in {"Established", "PeerClosed"} ->
           {Abs!PeerShutdown(h, flags, 1)}
      [] op = "CREDIT_REQUEST" /\ (h.state = "PeerInit" \/ Abs!MaySend(h)) ->
           {Abs!With(h, "CreditUpdate")}
      [] OTHER -> {h}

LEMMA SendPktIs ==
    ASSUME NEW c, NEW k \in BOOLEAN, NEW op, NEW flags
    PROVE  Handled(Heard(c, k), op, flags) \subseteq Abs!SendPkt(c, op, flags, 1)
  <1> DEFINE heard == {[c EXCEPT !.credit = b] : b \in BOOLEAN}
  <1>1. Abs!SendPkt(c, op, flags, 1) = UNION {Handled(h, op, flags) : h \in heard}
    BY Zenon DEF Abs!SendPkt, Handled
  <1>2. Heard(c, k) \in heard
    BY Zenon DEF Heard
  <1> HIDE DEF heard
  <1> QED BY <1>1, <1>2, Zenon

LEMMA SentData ==
    ASSUME NEW c \in Rec, NEW d \in Rec, NEW flags, Abs!MaySend(c), d.expiry = c.expiry,
           \/ /\ SameStatus(c, d) /\ (c.buffered => d.buffered)
              /\ d.pending = c.pending \/ d.pending = c.pending \cup {"CreditUpdate"}
           \/ /\ Closed(d, "Killed") /\ d.buffered = c.buffered
              /\ d.pending = c.pending \cup {"Rst"}
    PROVE  d \in Abs!SendPkt(c, "RW", flags, 1)
  <1> DEFINE k == d.credit
             h == Heard(c, k)
             b == d.buffered
             x == [h EXCEPT !.buffered = b]
  <1>0. k \in BOOLEAN /\ b \in BOOLEAN
    BY RecTypes, Zenon
  <1> HIDE DEF k
  <1>1. /\ h \in Rec /\ SameStatus(c, h) /\ h.pending = c.pending /\ h.expiry = c.expiry
        /\ h.buffered = c.buffered /\ h.credit = k /\ Abs!MaySend(h)
    BY <1>0, HeardFields
  <1>2. Handled(h, "RW", flags) \subseteq Abs!SendPkt(c, "RW", flags, 1)
    BY <1>0, SendPktIs, Zenon
  <1> HIDE DEF h
  <1>3. Handled(h, "RW", flags) = {h} \cup Abs!SendData(h)
    BY <1>1, Zenon DEF Handled
  <1> HIDE DEF b
  <1>4. /\ x \in Rec /\ SameStatus(h, x) /\ x.pending = h.pending /\ x.expiry = h.expiry
        /\ x.buffered = b /\ x.credit = h.credit
    BY <1>0, <1>1, BufferedFields DEF SameStatus
  <1>5. (b \in {h.buffered, TRUE}) =>
           (x \in Abs!SendData(h) /\ Abs!With(x, "CreditUpdate") \in Abs!SendData(h))
    BY Zenon DEF Abs!SendData
  <1>6. Abs!Kill(h) \in Abs!SendData(h)
    BY Zenon DEF Abs!SendData
  <1> HIDE DEF x
  <1>7. CASE /\ SameStatus(c, d) /\ (c.buffered => d.buffered)
             /\ d.pending = c.pending \/ d.pending = c.pending \cup {"CreditUpdate"}
    <2>1. b \in {h.buffered, TRUE}
      <3>1. h.buffered \in BOOLEAN /\ (h.buffered => b)
        BY <1>1, <1>7, RecTypes, Zenon DEF b
      <3> QED BY <1>0, <3>1, Zenon
    <2>2. CASE d.pending = c.pending
      <3>1. Same(d, x)
        BY <1>1, <1>4, <1>7, <2>2, Zenon DEF Same, SameStatus, k, b
      <3>2. d = x
        BY <1>4, <3>1, SameRec, Zenon
      <3> QED BY <1>2, <1>3, <1>5, <2>1, <3>2, Zenon
    <2>3. CASE d.pending = c.pending \cup {"CreditUpdate"}
      <3> DEFINE y == Abs!With(x, "CreditUpdate")
      <3>1. "CreditUpdate" \in Abs!Indications
        BY Zenon DEF Abs!Indications
      <3>2. /\ y \in Rec /\ y.pending = x.pending \cup {"CreditUpdate"} /\ SameStatus(x, y)
            /\ SameCounts(x, y) /\ y.expiry = x.expiry
        BY <1>4, <3>1, WithFields, Zenon
      <3> HIDE DEF y
      <3>3. Same(d, y)
        BY <1>1, <1>4, <1>7, <2>3, <3>2, ZenonT(40) DEF Same, SameStatus, SameCounts, k, b
      <3>4. d = y
        BY <3>2, <3>3, SameRec, Zenon
      <3> QED BY <1>2, <1>3, <1>5, <2>1, <3>4, Zenon DEF y
    <2> QED BY <1>7, <2>2, <2>3, Zenon
  <1>8. CASE /\ Closed(d, "Killed") /\ d.buffered = c.buffered
             /\ d.pending = c.pending \cup {"Rst"}
    <2> DEFINE y == Abs!Kill(h)
    <2>1. /\ y \in Rec /\ y.pending = h.pending \cup {"Rst"} /\ Closed(y, "Killed")
          /\ SameCounts(h, y) /\ y.expiry = h.expiry
      BY <1>1, KillFields, Zenon
    <2> HIDE DEF y
    <2>2. y.rcv_off = d.rcv_off /\ y.snd_off = d.snd_off /\ d.state = y.state
      BY <1>8, <2>1, ClosedSame, Zenon DEF Closed
    <2>3. Same(d, y)
      BY <1>1, <1>8, <2>1, <2>2, Zenon DEF Same, SameCounts, k
    <2>4. d = y
      BY <2>1, <2>3, SameRec, Zenon
    <2> QED BY <1>2, <1>3, <1>6, <2>4, Zenon DEF y
  <1> QED BY <1>7, <1>8, Zenon

LEMMA SentResponse ==
    ASSUME NEW c \in Rec, NEW d \in Rec, NEW flags, c.state = "LocalInit",
           Closed(c, c.state), Closed(d, "Established"), d.expiry = 0,
           d.pending = c.pending, d.buffered = c.buffered
    PROVE  d \in Abs!SendPkt(c, "RESPONSE", flags, 1)
  <1> DEFINE k == d.credit
             h == Heard(c, k)
             x == [h EXCEPT !.expiry = 0, !.state = "Established"]
  <1>0. k \in BOOLEAN
    BY RecTypes, Zenon
  <1> HIDE DEF k
  <1>1. /\ h \in Rec /\ SameStatus(c, h) /\ h.pending = c.pending /\ h.buffered = c.buffered
        /\ h.credit = k
    BY <1>0, HeardFields
  <1>2. Handled(h, "RESPONSE", flags) \subseteq Abs!SendPkt(c, "RESPONSE", flags, 1)
    BY <1>0, SendPktIs, Zenon
  <1> HIDE DEF h
  <1>3. Handled(h, "RESPONSE", flags) = {x}
    BY <1>1, Zenon DEF Handled, SameStatus, Abs!Never
  <1>4. /\ x \in Rec /\ x.state = "Established" /\ x.expiry = 0 /\ x.rcv_off = h.rcv_off
        /\ x.snd_off = h.snd_off /\ x.pending = h.pending /\ SameCounts(h, x)
    BY <1>1, Zenon DEF Rec, Abs!Channel, Abs!States, Abs!Never, SameCounts
  <1> HIDE DEF x
  <1>5. c.rcv_off = d.rcv_off /\ c.snd_off = d.snd_off /\ d.state = "Established"
    BY ClosedSame, Zenon DEF Closed
  <1>6. Same(d, x)
    BY <1>1, <1>4, <1>5, Zenon DEF Same, SameStatus, SameCounts, k
  <1>7. d = x
    BY <1>4, <1>6, SameRec, Zenon
  <1> QED BY <1>2, <1>3, <1>7, Zenon

LEMMA SentCreditRequest ==
    ASSUME NEW c \in Rec, NEW d \in Rec, NEW flags, c.state = "PeerInit" \/ Abs!MaySend(c),
           SameStatus(c, d), d.pending = c.pending \cup {"CreditUpdate"},
           d.expiry = c.expiry, d.buffered = c.buffered
    PROVE  d \in Abs!SendPkt(c, "CREDIT_REQUEST", flags, 1)
  <1> DEFINE k == d.credit
             h == Heard(c, k)
             x == Abs!With(h, "CreditUpdate")
  <1>0. k \in BOOLEAN /\ "CreditUpdate" \in Abs!Indications
    BY RecTypes, Zenon DEF Abs!Indications
  <1> HIDE DEF k
  <1>1. /\ h \in Rec /\ SameStatus(c, h) /\ h.pending = c.pending /\ h.buffered = c.buffered
        /\ h.credit = k /\ h.expiry = c.expiry /\ (Abs!MaySend(h) <=> Abs!MaySend(c))
    BY <1>0, HeardFields
  <1>2. Handled(h, "CREDIT_REQUEST", flags) \subseteq Abs!SendPkt(c, "CREDIT_REQUEST", flags, 1)
    BY <1>0, SendPktIs, Zenon
  <1> HIDE DEF h
  <1>3. Handled(h, "CREDIT_REQUEST", flags) = {x}
    BY <1>1, Zenon DEF Handled, SameStatus
  <1>4. /\ x \in Rec /\ x.pending = h.pending \cup {"CreditUpdate"} /\ SameStatus(h, x)
        /\ SameCounts(h, x) /\ x.expiry = h.expiry
    BY <1>0, <1>1, WithFields, Zenon
  <1> HIDE DEF x
  <1>6. Same(d, x)
    BY <1>1, <1>4, Zenon DEF Same, SameStatus, SameCounts, k
  <1>7. d = x
    BY <1>4, <1>6, SameRec, Zenon
  <1> QED BY <1>2, <1>3, <1>7, Zenon

LEMMA SentIgnored ==
    ASSUME NEW c \in Rec, NEW d \in Rec, NEW op, NEW flags,
           ~(op = "RW" /\ Abs!MaySend(c)), ~(op = "RESPONSE" /\ c.state = "LocalInit"),
           ~(op = "SHUTDOWN" /\ c.state \in {"Established", "PeerClosed"}),
           ~(op = "CREDIT_REQUEST" /\ (c.state = "PeerInit" \/ Abs!MaySend(c))),
           SameStatus(c, d), d.pending = c.pending, d.expiry = c.expiry, d.buffered = c.buffered
    PROVE  d \in Abs!SendPkt(c, op, flags, 1)
  <1> DEFINE k == d.credit
             h == Heard(c, k)
  <1>0. k \in BOOLEAN
    BY RecTypes, Zenon
  <1> HIDE DEF k
  <1>1. /\ h \in Rec /\ SameStatus(c, h) /\ h.pending = c.pending /\ h.buffered = c.buffered
        /\ h.credit = k /\ h.expiry = c.expiry /\ (Abs!MaySend(h) <=> Abs!MaySend(c))
    BY <1>0, HeardFields
  <1>2. Handled(h, op, flags) \subseteq Abs!SendPkt(c, op, flags, 1)
    BY <1>0, SendPktIs, Zenon
  <1> HIDE DEF h
  <1>3. Handled(h, op, flags) = {h}
    BY <1>1, Zenon DEF Handled, SameStatus
  <1>6. Same(d, h)
    BY <1>1, Zenon DEF Same, SameStatus, k
  <1>7. d = h
    BY <1>1, <1>6, SameRec, Zenon
  <1> QED BY <1>2, <1>3, <1>7, Zenon

\* d is c after a shutdown request with these flags.
Shuts(c, d, flags) ==
    /\ d.state = "PeerClosed"
    /\ d.rcv_off = (c.rcv_off \/ "RCV" \in flags) /\ d.snd_off = (c.snd_off \/ "SEND" \in flags)
    /\ d.pending = IF d.rcv_off /\ d.snd_off /\ ~c.buffered
                   THEN c.pending \cup {"Rst"} ELSE c.pending
    /\ d.expiry = IF c.state = "Established" /\ d.rcv_off /\ d.snd_off /\ c.buffered
                  THEN 1 ELSE c.expiry
    /\ d.buffered = c.buffered

LEMMA SentShutdown ==
    ASSUME NEW c \in Rec, NEW d \in Rec, NEW flags, c.state \in {"Established", "PeerClosed"},
           Shuts(c, d, flags)
    PROVE  d \in Abs!SendPkt(c, "SHUTDOWN", flags, 1)
  <1> USE DEF Shuts
  <1> DEFINE k == d.credit
             h == Heard(c, k)
             r == d.rcv_off
             n == d.snd_off
             e == [h EXCEPT !.state = "PeerClosed", !.rcv_off = r, !.snd_off = n]
             f == IF h.state = "Established" /\ Abs!ShutDown(e) /\ h.buffered
                  THEN [e EXCEPT !.expiry = 1] ELSE e
             x == Abs!RstWhenDrained(f)
  <1>0. k \in BOOLEAN /\ r \in BOOLEAN /\ n \in BOOLEAN /\ "Rst" \in Abs!Indications
    BY RecTypes, Zenon DEF Abs!Indications
  <1> HIDE DEF k
  <1>1. /\ h \in Rec /\ SameStatus(c, h) /\ h.pending = c.pending /\ h.buffered = c.buffered
        /\ h.credit = k /\ h.expiry = c.expiry
    BY <1>0, HeardFields
  <1>2. Handled(h, "SHUTDOWN", flags) \subseteq Abs!SendPkt(c, "SHUTDOWN", flags, 1)
    BY <1>0, SendPktIs, Zenon
  <1> HIDE DEF h
  <1>3. Handled(h, "SHUTDOWN", flags) = {Abs!PeerShutdown(h, flags, 1)}
    BY <1>1, Zenon DEF Handled, SameStatus
  <1>a. r = (h.rcv_off \/ "RCV" \in flags) /\ n = (h.snd_off \/ "SEND" \in flags)
    BY <1>1, Zenon DEF SameStatus
  <1> HIDE DEF r, n
  <1>4. Abs!PeerShutdown(h, flags, 1) = x
    BY <1>a, Zenon DEF Abs!PeerShutdown
  <1>5. /\ e \in Rec /\ e.state = "PeerClosed" /\ e.rcv_off = r /\ e.snd_off = n
        /\ e.pending = h.pending /\ e.expiry = h.expiry /\ SameCounts(h, e)
    BY <1>0, <1>1, Zenon DEF Rec, Abs!Channel, Abs!States, SameCounts
  <1> HIDE DEF e
  <1>6. Abs!ShutDown(e) <=> (r /\ n)
    BY <1>5, Zenon DEF Abs!ShutDown
  <1>7. /\ f \in Rec /\ SameStatus(e, f) /\ f.pending = e.pending /\ SameCounts(e, f)
        /\ f.expiry = IF h.state = "Established" /\ r /\ n /\ h.buffered THEN 1 ELSE e.expiry
    <2> DEFINE g == [e EXCEPT !.expiry = 1]
    <2>1. /\ g \in Rec /\ SameStatus(e, g) /\ g.pending = e.pending /\ SameCounts(e, g)
          /\ g.expiry = 1
      BY <1>5, ExpiryFields, Zenon DEF SameStatus, SameCounts
    <2> HIDE DEF g
    <2>2. SameStatus(e, e) /\ SameCounts(e, e)
      BY Zenon DEF SameStatus, SameCounts
    <2>3. CASE h.state = "Established" /\ r /\ n /\ h.buffered
      <3>1. f = g
        BY <1>6, <2>3, Zenon DEF g
      <3> HIDE DEF f
      <3> QED BY <2>1, <2>3, <3>1, Zenon
    <2>4. CASE ~(h.state = "Established" /\ r /\ n /\ h.buffered)
      <3>1. f = e
        BY <1>6, <2>4, Zenon DEF g
      <3> HIDE DEF f
      <3> QED BY <1>5, <2>2, <2>4, <3>1, Zenon
    <2> QED BY <2>3, <2>4, Zenon
  <1> HIDE DEF f
  <1>8. Abs!ShutDown(f) <=> (r /\ n)
    BY <1>5, <1>7, Zenon DEF Abs!ShutDown, SameStatus
  <1>9. /\ x \in Rec /\ SameStatus(f, x) /\ SameCounts(f, x) /\ x.expiry = f.expiry
        /\ x.pending = IF r /\ n /\ ~f.buffered THEN f.pending \cup {"Rst"} ELSE f.pending
    BY <1>0, <1>7, <1>8, WithFields, Zenon DEF Abs!RstWhenDrained, SameStatus, SameCounts
  <1> HIDE DEF x
  <1>b. Same(d, x)
    <2>1. d.state = x.state /\ d.rcv_off = x.rcv_off /\ d.snd_off = x.snd_off
      BY <1>5, <1>7, <1>9, Zenon DEF SameStatus, r, n
    <2>2. d.buffered = x.buffered /\ d.credit = x.credit
      BY <1>1, <1>5, <1>7, <1>9, Zenon DEF SameCounts, k
    <2>3. d.pending = x.pending
      <3>1. f.pending = c.pending /\ f.buffered = c.buffered
        BY <1>1, <1>5, <1>7, Zenon DEF SameCounts
      <3> QED BY <3>1, <1>9, Zenon DEF r, n
    <2>4. d.expiry = x.expiry
      BY <1>1, <1>5, <1>7, <1>9, Zenon DEF r, n, SameStatus
    <2> QED BY <2>1, <2>2, <2>3, <2>4, Zenon DEF Same
  <1>c. d = x
    BY <1>9, <1>b, SameRec, Zenon
  <1> QED BY <1>2, <1>3, <1>4, <1>c, Zenon

LEMMA NotifiedIn ==
    ASSUME NEW c \in Rec, NEW d \in Rec, SameStatus(c, d), SameCounts(c, d),
           d.expiry = c.expiry, d.pending = c.pending \cup {"Rw"}
    PROVE  d \in Abs!Notify(c, {"IN"})
  <1> DEFINE x == Abs!With(c, "Rw")
  <1>1. "Rw" \in Abs!Indications
    BY Zenon DEF Abs!Indications
  <1>2. /\ x \in Rec /\ x.pending = c.pending \cup {"Rw"} /\ SameStatus(c, x)
        /\ SameCounts(c, x) /\ x.expiry = c.expiry
    BY <1>1, WithFields, Zenon
  <1>3. Abs!Notify(c, {"IN"}) = {x}
    BY Zenon DEF Abs!Notify
  <1> HIDE DEF x
  <1>4. Same(d, x)
    BY <1>2, Zenon DEF Same, SameStatus, SameCounts
  <1>5. d = x
    BY <1>2, <1>4, SameRec, Zenon
  <1> QED BY <1>3, <1>5, Zenon

\* What EPOLLOUT makes of a connection whose buffer has been flushed, or that a
\* failed write has killed.
AfterFlush(d) ==
    IF Abs!ShutDown(d) /\ ~d.buffered THEN {Abs!With(d, "Rst")}
    ELSE {d, Abs!With(d, "CreditUpdate")}

LEMMA NotifyOutIs ==
    ASSUME NEW c, c.buffered
    PROVE  /\ \A b \in BOOLEAN : AfterFlush([c EXCEPT !.buffered = b]) \subseteq Abs!Notify(c, {"OUT"})
           /\ AfterFlush(Abs!Kill(c)) \subseteq Abs!Notify(c, {"OUT"})
  <1> DEFINE flushed == {[c EXCEPT !.buffered = b] : b \in BOOLEAN} \cup {Abs!Kill(c)}
  <1>1. Abs!Notify(c, {"OUT"}) = Abs!NotifyOut(c)
    BY Zenon DEF Abs!Notify
  <1>2. Abs!NotifyOut(c) = UNION {AfterFlush(d) : d \in flushed}
    BY Zenon DEF Abs!NotifyOut, AfterFlush
  <1>3. Abs!Kill(c) \in flushed /\ \A b \in BOOLEAN : [c EXCEPT !.buffered = b] \in flushed
    BY Zenon
  <1> HIDE DEF flushed
  <1> QED BY <1>1, <1>2, <1>3, Zenon

\* Behind a flush that leaves x: the reset of a connection both ends of which
\* are shut, once it is drained, or perhaps a credit update.
LEMMA Flushed ==
    ASSUME NEW x \in Rec, NEW d \in Rec, SameStatus(x, d), SameCounts(x, d), d.expiry = x.expiry,
           \/ Abs!ShutDown(x) /\ ~x.buffered /\ d.pending = x.pending \cup {"Rst"}
           \/ /\ ~(Abs!ShutDown(x) /\ ~x.buffered)
              /\ d.pending = x.pending \/ d.pending = x.pending \cup {"CreditUpdate"}
    PROVE  d \in AfterFlush(x)
  <1>1. "Rst" \in Abs!Indications /\ "CreditUpdate" \in Abs!Indications
    BY Zenon DEF Abs!Indications
  <1>2. ASSUME NEW i \in {"Rst", "CreditUpdate"}, d.pending = x.pending \cup {i}
        PROVE  d = Abs!With(x, i)
    <2> DEFINE y == Abs!With(x, i)
    <2>1. /\ y \in Rec /\ y.pending = x.pending \cup {i} /\ SameStatus(x, y)
          /\ SameCounts(x, y) /\ y.expiry = x.expiry
      BY <1>1, WithFields
    <2> HIDE DEF y
    <2>2. Same(d, y)
      BY <1>2, <2>1, Zenon DEF Same, SameStatus, SameCounts
    <2>3. d = y
      BY <2>1, <2>2, SameRec, Zenon
    <2> QED BY <2>3, Zenon DEF y
  <1>3. (d.pending = x.pending) => d = x
    BY SameRec, Zenon DEF Same, SameStatus, SameCounts
  <1> QED BY <1>2, <1>3, Zenon DEF AfterFlush

LEMMA NotifiedOut ==
    ASSUME NEW c \in Rec, NEW d \in Rec, c.buffered, d.credit = c.credit, d.expiry = c.expiry,
           \/ /\ SameStatus(c, d) /\ Abs!ShutDown(c) /\ ~d.buffered
              /\ d.pending = c.pending \cup {"Rst"}
           \/ /\ SameStatus(c, d) /\ ~(Abs!ShutDown(c) /\ ~d.buffered)
              /\ d.pending = c.pending \/ d.pending = c.pending \cup {"CreditUpdate"}
           \/ /\ Closed(d, "Killed") /\ d.buffered = c.buffered
              /\ \/ d.pending = c.pending \cup {"Rst"}
                 \/ d.pending = (c.pending \cup {"Rst"}) \cup {"CreditUpdate"}
    PROVE  d \in Abs!Notify(c, {"OUT"})
  <1>1. CASE /\ SameStatus(c, d)
             /\ \/ Abs!ShutDown(c) /\ ~d.buffered /\ d.pending = c.pending \cup {"Rst"}
                \/ /\ ~(Abs!ShutDown(c) /\ ~d.buffered)
                   /\ d.pending = c.pending \/ d.pending = c.pending \cup {"CreditUpdate"}
    <2> DEFINE b == d.buffered
               x == [c EXCEPT !.buffered = b]
    <2>0. b \in BOOLEAN
      BY RecTypes, Zenon
    <2>1. AfterFlush(x) \subseteq Abs!Notify(c, {"OUT"})
      BY <2>0, NotifyOutIs, Zenon
    <2> HIDE DEF b
    <2>2. /\ x \in Rec /\ SameStatus(c, x) /\ x.pending = c.pending /\ x.expiry = c.expiry
          /\ x.buffered = b /\ x.credit = c.credit
      BY <2>0, BufferedFields DEF SameStatus
    <2> HIDE DEF x
    <2>3. Abs!ShutDown(x) <=> Abs!ShutDown(c)
      BY <2>2, Zenon DEF Abs!ShutDown, SameStatus
    <2>4. SameStatus(x, d) /\ SameCounts(x, d) /\ d.expiry = x.expiry
      BY <1>1, <2>2, Zenon DEF SameStatus, SameCounts, b
    <2>6. CASE Abs!ShutDown(c) /\ ~d.buffered /\ d.pending = c.pending \cup {"Rst"}
      BY <2>1, <2>2, <2>3, <2>4, <2>6, Flushed, Zenon DEF b
    <2>7. CASE /\ ~(Abs!ShutDown(c) /\ ~d.buffered)
               /\ d.pending = c.pending \/ d.pending = c.pending \cup {"CreditUpdate"}
      BY <2>1, <2>2, <2>3, <2>4, <2>7, Flushed, Zenon DEF b
    <2> QED BY <1>1, <2>6, <2>7, Zenon
  <1>2. CASE /\ Closed(d, "Killed") /\ d.buffered = c.buffered
             /\ \/ d.pending = c.pending \cup {"Rst"}
                \/ d.pending = (c.pending \cup {"Rst"}) \cup {"CreditUpdate"}
    <2> DEFINE y == Abs!Kill(c)
    <2>1. /\ y \in Rec /\ y.pending = c.pending \cup {"Rst"} /\ Closed(y, "Killed")
          /\ SameCounts(c, y) /\ y.expiry = c.expiry
      BY KillFields, Zenon
    <2>2. AfterFlush(y) \subseteq Abs!Notify(c, {"OUT"})
      BY NotifyOutIs, Zenon
    <2> HIDE DEF y
    <2>3. y.rcv_off = d.rcv_off /\ y.snd_off = d.snd_off /\ d.state = y.state
      BY <1>2, <2>1, ClosedSame, Zenon DEF Closed
    <2>4. ~Abs!ShutDown(y)
      BY <2>1, Zenon DEF Closed, Abs!ShutDown
    <2>5. SameStatus(y, d) /\ SameCounts(y, d) /\ d.expiry = y.expiry
      BY <1>2, <2>1, <2>3, Zenon DEF SameStatus, SameCounts
    <2> QED BY <1>2, <2>1, <2>2, <2>4, <2>5, Flushed, Zenon
  <1> QED BY <1>1, <1>2, Zenon

----------------------------------------------------------------------------
(* The steps of the connection as steps of the channel.                    *)

LEMMA ViewFields ==
    ASSUME NEW s \in Abs!States, NEW r \in BOOLEAN, NEW n \in BOOLEAN,
           NEW p \in SUBSET Abs!Indications, NEW e \in {0, 1}, NEW b \in BOOLEAN, NEW k \in BOOLEAN,
           NEW c, c = [state |-> s, rcv_off |-> r, snd_off |-> n, pending |-> p,
                       expiry |-> e, buffered |-> b, credit |-> k]
    PROVE  /\ c \in Rec /\ c.state = s /\ c.rcv_off = r /\ c.snd_off = n /\ c.pending = p
           /\ c.expiry = e /\ c.buffered = b /\ c.credit = k
  BY Zenon DEF Rec, Abs!Channel, Abs!Never

LEMMA ChanIs ==
    ASSUME ConnTypes
    PROVE  /\ Chan \in Rec /\ Chan.state = state /\ Chan.rcv_off = rcv_off
           /\ Chan.snd_off = snd_off /\ Chan.pending = pending /\ Chan.expiry = expiry
           /\ Chan.buffered = (tx_buf # <<>>) /\ Chan.credit = (peer_avail_credit # 0)
  <1> DEFINE b == tx_buf # <<>>
             k == peer_avail_credit # 0
  <1>1. /\ state \in Abs!States /\ rcv_off \in BOOLEAN /\ snd_off \in BOOLEAN
        /\ pending \in SUBSET Abs!Indications /\ expiry \in {0, 1}
    BY Zenon DEF ConnTypes, Abs!States, Abs!Indications
  <1>2. b \in BOOLEAN /\ k \in BOOLEAN
    BY Zenon
  <1>3. Chan = [state |-> state, rcv_off |-> rcv_off, snd_off |-> snd_off, pending |-> pending,
                expiry |-> expiry, buffered |-> b, credit |-> k]
    BY Zenon DEF Chan
  <1> HIDE DEF b, k
  <1>4. /\ Chan \in Rec /\ Chan.state = state /\ Chan.rcv_off = rcv_off
        /\ Chan.snd_off = snd_off /\ Chan.pending = pending /\ Chan.expiry = expiry
        /\ Chan.buffered = b /\ Chan.credit = k
    BY <1>1, <1>2, <1>3, ViewFields, SMTT(30)
  <1> QED BY <1>4, Zenon DEF b, k

LEMMA ChanIsNext ==
    ASSUME ConnTypes'
    PROVE  /\ Chan' \in Rec /\ (Chan').state = state' /\ (Chan').rcv_off = rcv_off'
           /\ (Chan').snd_off = snd_off' /\ (Chan').pending = pending' /\ (Chan').expiry = expiry'
           /\ (Chan').buffered = (tx_buf' # <<>>) /\ (Chan').credit = ((peer_avail_credit)' # 0)
  <1> DEFINE b == tx_buf' # <<>>
             k == (peer_avail_credit)' # 0
  <1>1. /\ state' \in Abs!States /\ rcv_off' \in BOOLEAN /\ snd_off' \in BOOLEAN
        /\ pending' \in SUBSET Abs!Indications /\ expiry' \in {0, 1}
    BY Zenon DEF ConnTypes, Abs!States, Abs!Indications
  <1>2. b \in BOOLEAN /\ k \in BOOLEAN
    BY Zenon
  <1>3. Chan' = [state |-> state', rcv_off |-> rcv_off', snd_off |-> snd_off',
                 pending |-> pending', expiry |-> expiry', buffered |-> b, credit |-> k]
    BY Zenon DEF Chan
  <1> HIDE DEF b, k
  <1>4. /\ Chan' \in Rec /\ (Chan').state = state' /\ (Chan').rcv_off = rcv_off'
        /\ (Chan').snd_off = snd_off' /\ (Chan').pending = pending' /\ (Chan').expiry = expiry'
        /\ (Chan').buffered = b /\ (Chan').credit = k
    BY <1>1, <1>2, <1>3, ViewFields, SMTT(30)
  <1> QED BY <1>4, Zenon DEF b, k

\* What Start leaves is a new channel.
LEMMA StartsNew ==
    ASSUME NEW c \in {new_peer_init, new_local_init}, Start(c)
    PROVE  /\ Chan' \in Abs!New
           /\ (c = new_local_init) => Chan' = Abs!NewLocalInit
  <1>1. Minus(0, Minus(0, 0)) = 0
    BY MinusSelf, Constants DEF Wrapped
  <1>2. CASE c = new_local_init
    <2>1. (peer_avail_credit)' = 0
      BY <1>1, <1>2, Zenon DEF peer_avail_credit, Start, new_local_init
    <2>2. ((peer_avail_credit)' # 0) = FALSE /\ (tx_buf' # <<>>) = FALSE
      BY <2>1, Zenon DEF Start
    <2>3. Chan' = Abs!NewLocalInit
      BY <1>2, <2>2, Zenon DEF Chan, Abs!NewLocalInit, Start, new_local_init, Abs!Never
    <2> QED BY <2>3, Zenon DEF Abs!New
  <1>3. CASE c = new_peer_init
    <2> DEFINE k == (peer_avail_credit)' # 0
    <2>1. (tx_buf' # <<>>) = FALSE
      BY Zenon DEF Start
    <2>2. Chan' = Abs!NewPeerInit(k)
      BY <1>3, <2>1, Zenon DEF Chan, Abs!NewPeerInit, Start, new_peer_init, Abs!Never
    <2>3. k = TRUE \/ k = FALSE
      BY Zenon
    <2>4. Chan' \in Abs!New
      BY <2>2, <2>3, Zenon DEF Abs!New
    <2>5. new_peer_init # new_local_init
      BY Zenon DEF new_peer_init, new_local_init
    <2> QED BY <1>3, <2>4, <2>5, Zenon
  <1> QED BY <1>2, <1>3, Zenon

LEMMA GuardsAgree ==
    ASSUME ConnTypes
    PROVE  /\ Abs!MayReceive(Chan) <=> MayReceive
           /\ Abs!MaySend(Chan) <=> MaySend
           /\ Abs!ShutDown(Chan) <=> ShutDown
           /\ ("OUT" \in get_polled_evset) => ({"OUT"} \subseteq Abs!PolledEvset(Chan))
           /\ ("IN" \in get_polled_evset) => ({"IN"} \subseteq Abs!PolledEvset(Chan))
           /\ ("OUT" \in get_polled_evset) <=> (tx_buf # <<>>)
  <1>1. /\ Chan.state = state /\ Chan.rcv_off = rcv_off /\ Chan.snd_off = snd_off
        /\ Chan.buffered = (tx_buf # <<>>) /\ Chan.credit = (peer_avail_credit # 0)
    BY ChanIs, Zenon
  <1>2. Abs!MayReceive(Chan) <=> MayReceive
    BY <1>1, Zenon DEF Abs!MayReceive, MayReceive
  <1>3. Abs!MaySend(Chan) <=> MaySend
    BY <1>1, Zenon DEF Abs!MaySend, MaySend
  <1>4. Abs!ShutDown(Chan) <=> ShutDown
    BY <1>1, Zenon DEF Abs!ShutDown, ShutDown
  <1>5. ("OUT" \in get_polled_evset) <=> (tx_buf # <<>>)
    BY Zenon DEF get_polled_evset
  <1>6. ("OUT" \in get_polled_evset) => ({"OUT"} \subseteq Abs!PolledEvset(Chan))
    BY <1>1, <1>5, Zenon DEF Abs!PolledEvset
  <1>7. ("IN" \in get_polled_evset) => ({"IN"} \subseteq Abs!PolledEvset(Chan))
    BY <1>1, Zenon DEF get_polled_evset, Abs!PolledEvset, need_credit_update_from_peer
  <1> QED BY <1>2, <1>3, <1>4, <1>5, <1>6, <1>7, Zenon

LEMMA RecvChannel ==
    ASSUME open, Chan.pending # {},
           \/ Received(Chan, Chan') /\ UNCHANGED open
           \/ Refused(Chan) /\ Abs!Drop
    PROVE  Abs!Next
  <1>1. CASE Received(Chan, Chan') /\ UNCHANGED open
    BY <1>1, Zenon DEF Received, Abs!Next, Abs!Recv
  <1>2. CASE Refused(Chan) /\ Abs!Drop
    BY <1>2, Zenon DEF Refused, Abs!Next, Abs!Recv
  <1> QED BY <1>1, <1>2, Zenon

LEMMA ResetChannel ==
    ASSUME ConnInv, ResetSteps
    PROVE  ChannelStep
  <1>0. ConnTypes
    BY Zenon DEF ConnInv
  <1>1. Dropped => Abs!Drop
    <2>1. Start(new_local_init) => Chan' = Abs!NewLocalInit
      BY StartsNew, Zenon
    <2> QED BY <2>1, Zenon DEF Dropped, Abs!Drop
  <1>2. CASE RecvRst
    <2>1. open /\ "Rst" \in pending /\ Dropped
      BY <1>2, Zenon DEF RecvRst, RecvCan
    <2>2. Chan \in Rec /\ "Rst" \in Chan.pending
      BY <1>0, <2>1, ChanIs, Zenon
    <2>3. Refused(Chan)
      BY <2>2, RefusedWhen, Zenon
    <2> QED BY <1>1, <2>1, <2>2, <2>3, RecvChannel, Zenon DEF ChannelStep
  <1>3. CASE RecvRwInvalid \/ RecvReadError
    <2>1. /\ open /\ "Rw" \in pending /\ pending \cap {"Rst", "Response", "Request"} = {}
          /\ Dropped /\ (~MayReceive \/ peer_avail_credit # 0)
      BY <1>3, Zenon DEF RecvRwInvalid, RecvReadError, RecvCanRead, RecvCanRw, RecvCan,
                  need_credit_update_from_peer
    <2>2. Chan \in Rec /\ Chan.pending = pending /\ Chan.credit = (peer_avail_credit # 0)
      BY <1>0, ChanIs, Zenon
    <2>3. ~Abs!MayReceive(Chan) \/ Chan.credit
      BY <1>0, <2>1, <2>2, GuardsAgree, Zenon
    <2>4. Refused(Chan)
      BY <2>1, <2>2, <2>3, RefusedWhen, Zenon
    <2> QED BY <1>1, <2>1, <2>2, <2>4, RecvChannel, Zenon DEF ChannelStep
  <1>4. CASE SendRst
    BY <1>1, <1>4, Zenon DEF SendRst, ChannelStep, Abs!Next, Abs!Send
  <1>5. CASE NewConnection
    <2>1. ~open /\ open' = TRUE /\ Chan' \in Abs!New
      BY <1>5, StartsNew, Zenon DEF NewConnection
    <2> QED BY <2>1, Zenon DEF ChannelStep, Abs!Next, Abs!Reopen
  <1> QED BY <1>2, <1>3, <1>4, <1>5, Zenon DEF ResetSteps

LEMMA RecvChannelStep ==
    ASSUME ConnInv, ConnTypes', RecvSteps
    PROVE  ChannelStep
  <1>0. ConnTypes /\ Handshake
    BY Zenon DEF ConnInv
  <1> DEFINE c == Chan
             d == Chan'
  <1>1. /\ c \in Rec /\ c.state = state /\ c.rcv_off = rcv_off /\ c.snd_off = snd_off
        /\ c.pending = pending /\ c.expiry = expiry
        /\ c.buffered = (tx_buf # <<>>) /\ c.credit = (peer_avail_credit # 0)
    BY <1>0, ChanIs, Zenon
  <1>2. /\ d \in Rec /\ d.state = state' /\ d.rcv_off = rcv_off' /\ d.snd_off = snd_off'
        /\ d.pending = pending' /\ d.expiry = expiry'
        /\ d.buffered = (tx_buf' # <<>>) /\ d.credit = ((peer_avail_credit)' # 0)
    BY ChanIsNext, Zenon
  <1>3. Abs!MayReceive(c) <=> MayReceive
    BY <1>0, GuardsAgree, Zenon
  <1>4. open /\ UNCHANGED open /\ pending # {} /\ tx_buf' = tx_buf
    BY Zenon DEF RecvSteps, RecvResponse, RecvRequest, RecvCreditRequest, RecvData, RecvEof,
           RecvWouldBlock, RecvCreditUpdate, RecvCredit, RecvCanRead, RecvCanRw, RecvCan
  <1>6. d.buffered = c.buffered
    BY <1>1, <1>2, <1>4, Zenon
  <1>7. ((peer_avail_credit)' = peer_avail_credit) => SameCounts(c, d)
    BY <1>1, <1>2, <1>6, Zenon DEF SameCounts
  <1> HIDE DEF c, d
  <1>8. Received(c, d)
    <2>1. CASE RecvResponse
      <3>1. /\ "Rst" \notin c.pending /\ "Response" \in c.pending
            /\ d.pending = c.pending \ {"Response"} /\ d.expiry = c.expiry
            /\ (peer_avail_credit)' = peer_avail_credit
        BY <1>1, <1>2, <2>1, Zenon DEF RecvResponse, RecvCan, peer_avail_credit
      <3>2. state # "PeerClosed"
        BY <1>0, <1>1, <3>1, Zenon DEF Handshake
      <3>3. Closed(c, c.state)
        BY <1>0, <1>1, <3>2, Zenon DEF Handshake, Closed
      <3>4. Closed(d, "Established")
        BY <1>2, <2>1, Zenon DEF RecvResponse, SetState, Closed
      <3> QED BY <1>1, <1>2, <1>7, <3>1, <3>3, <3>4, ReceivedResponse, ZenonT(40)
    <2>2. CASE RecvRequest
      <3>1. /\ c.pending \cap {"Rst", "Response"} = {} /\ "Request" \in c.pending
            /\ SameStatus(c, d) /\ d.pending = c.pending \ {"Request"} /\ d.expiry = 1
            /\ (peer_avail_credit)' = peer_avail_credit
        BY <1>1, <1>2, <2>2, Zenon DEF RecvRequest, RecvCan, SameStatus, peer_avail_credit
      <3> QED BY <1>1, <1>2, <1>7, <3>1, ReceivedRequest, Zenon
    <2>3. CASE RecvCreditUpdate
      <3>1. /\ c.pending \cap {"Rst", "Response", "Request", "Rw"} = {}
            /\ SameStatus(c, d) /\ d.pending = c.pending \ {"CreditUpdate"} /\ d.expiry = c.expiry
            /\ (peer_avail_credit)' = peer_avail_credit
        BY <1>1, <1>2, <2>3, Zenon DEF RecvCreditUpdate, RecvCan, RecvCredit, SameStatus, peer_avail_credit
      <3> QED BY <1>1, <1>2, <1>7, <3>1, ReceivedCredit, Zenon
    <2>4. ASSUME RecvCanRw, MayReceive
          PROVE  /\ c.pending \cap {"Rst", "Response", "Request"} = {} /\ "Rw" \in c.pending
                 /\ Abs!MayReceive(c)
      BY <1>1, <1>3, <2>4, Zenon DEF RecvCanRw, RecvCan
    <2>5. CASE RecvCreditRequest
      <3>1. /\ ~c.credit /\ SameStatus(c, d) /\ d.expiry = c.expiry
            /\ d.pending = c.pending \ {"Rw"} /\ RecvCanRw /\ MayReceive
            /\ (peer_avail_credit)' = peer_avail_credit
        BY <1>1, <1>2, <2>5, ZenonT(30) DEF RecvCreditRequest, SameStatus, need_credit_update_from_peer,
                                peer_avail_credit
      <3> QED BY <1>1, <1>2, <1>7, <2>4, <3>1, ReceivedRw, ZenonT(40)
    <2>6. CASE \E n \in 1..MaxPkt : RecvData(n)
      <3>1. /\ c.credit /\ SameStatus(c, d) /\ d.expiry = c.expiry
            /\ d.pending = c.pending \ {"Rw"} /\ RecvCanRw /\ MayReceive
        BY <1>1, <1>2, <2>6, ZenonT(30) DEF RecvData, RecvCanRead, SameStatus, need_credit_update_from_peer
      <3> QED BY <1>1, <1>2, <1>6, <2>4, <3>1, ReceivedRw, ZenonT(40)
    <2>7. CASE RecvEof
      <3>1. /\ c.credit /\ Closed(d, "LocalClosed") /\ d.expiry = 1
            /\ d.pending = c.pending \ {"Rw"} /\ RecvCanRw /\ MayReceive
            /\ (peer_avail_credit)' = peer_avail_credit
        BY <1>1, <1>2, <2>7, ZenonT(30) DEF RecvEof, RecvCanRead, SetState, Closed,
                                need_credit_update_from_peer, peer_avail_credit
      <3> QED BY <1>1, <1>2, <1>7, <2>4, <3>1, ReceivedRw, ZenonT(40)
    <2>8. CASE RecvWouldBlock
      <3>1. /\ c.credit /\ SameStatus(c, d) /\ d.expiry = c.expiry
            /\ d.pending = (c.pending \ {"Rw"}) \ {"CreditUpdate"} /\ RecvCanRw /\ MayReceive
            /\ (peer_avail_credit)' = peer_avail_credit
        BY <1>1, <1>2, <2>8, Zenon DEF RecvWouldBlock, RecvCredit, RecvCanRead, SameStatus,
                                need_credit_update_from_peer, peer_avail_credit
      <3> QED BY <1>1, <1>2, <1>7, <2>4, <3>1, ReceivedRw, ZenonT(40)
    <2> QED BY <2>1, <2>2, <2>3, <2>5, <2>6, <2>7, <2>8, ZenonT(40) DEF RecvSteps
  <1> QED BY <1>1, <1>4, <1>8, RecvChannel, Zenon DEF c, d, ChannelStep

LEMMA TakeChannelStep ==
    ASSUME ConnInv, ConnTypes', TakeSteps
    PROVE  ChannelStep
  <1>0. ConnTypes /\ Handshake
    BY DEF ConnInv
  <1> DEFINE c == Chan
             d == Chan'
             op == Pkt.op
             flags == Pkt.flags
  <1>1. /\ c \in Rec /\ c.state = state /\ c.rcv_off = rcv_off /\ c.snd_off = snd_off
        /\ c.pending = pending /\ c.expiry = expiry /\ c.buffered = (tx_buf # <<>>)
    BY <1>0, ChanIs, Zenon
  <1>2. /\ d \in Rec /\ d.state = state' /\ d.rcv_off = rcv_off' /\ d.snd_off = snd_off'
        /\ d.pending = pending' /\ d.expiry = expiry' /\ d.buffered = (tx_buf' # <<>>)
    BY ChanIsNext, Zenon
  <1>3. Abs!MaySend(c) <=> MaySend
    BY <1>0, GuardsAgree, Zenon
  <1>4. Take
    BY Zenon DEF TakeSteps, SendBuffered, SendWriteError, SendResponse, SendShutdown,
           SendCreditRequest, SendIgnored, SendWritten
  <1>5. open /\ UNCHANGED open /\ flags \in Abs!ShutdownFlags
    BY <1>0, <1>4, TakeFacts, Zenon DEF Take, Abs!ShutdownFlags
  <1>6. (tx_buf' = tx_buf) => d.buffered = c.buffered
    BY <1>1, <1>2, Zenon
  <1>7. kill => (Closed(d, "Killed") /\ d.pending = c.pending \cup {"Rst"})
    BY <1>1, <1>2, Zenon DEF kill, SetState, Closed
  <1>8. ASSUME NEW f, WantsCreditUpdate(f)
        PROVE  d.pending = c.pending \/ d.pending = c.pending \cup {"CreditUpdate"}
    BY <1>1, <1>2, <1>8, Zenon DEF WantsCreditUpdate
  <1> HIDE DEF c, d, op, flags
  <1>9. op \in Abs!GuestOps /\ d \in Abs!SendPkt(c, op, flags, 1)
    <2>1. CASE SendBuffered \/ SendWriteError \/ \E n \in 0..MaxPkt : SendWritten(n)
      <3>1. op = "RW" /\ Abs!MaySend(c) /\ d.expiry = c.expiry
        BY <1>1, <1>2, <1>3, <2>1, Zenon DEF SendBuffered, SendWriteError, SendWritten, op
      <3>2. \/ /\ kill /\ tx_buf' = tx_buf
            \/ /\ (tx_buf # <<>>) => (tx_buf' # <<>>)
               /\ \E f : WantsCreditUpdate(f)
               /\ UNCHANGED <<state, rcv_off, snd_off>>
        <4>1. CASE SendBuffered
          <5>1. Data(Pkt) = Bytes(Pkt.first, Pkt.len) /\ Pkt.first \in Wrapped /\ Pkt.len \in Nat
            BY <1>0, <1>4, TakeFacts, Zenon DEF Data
          <5>2. Data(Pkt) \in Seq(Wrapped)
            BY <5>1, BytesAre, Zenon
          <5>3. tx_buf \in Seq(Wrapped) /\ tx_buf # <<>>
            BY <1>0, <4>1, Zenon DEF ConnTypes, SendBuffered
          <5>4. tx_buf \o Data(Pkt) # <<>>
            BY <5>2, <5>3, SMTT(30)
          <5> QED BY <4>1, <5>4, Zenon DEF SendBuffered
        <4>2. CASE SendWriteError
          BY <4>2, Zenon DEF SendWriteError
        <4>3. CASE \E n \in 0..MaxPkt : SendWritten(n)
          BY <4>3, Zenon DEF SendWritten
        <4> QED BY <2>1, <4>1, <4>2, <4>3, Zenon
      <3>3. CASE kill /\ tx_buf' = tx_buf
        BY <1>1, <1>2, <1>6, <1>7, <3>1, <3>3, SentData, Zenon DEF Abs!GuestOps
      <3>4. CASE /\ (tx_buf # <<>>) => (tx_buf' # <<>>)
                 /\ \E f : WantsCreditUpdate(f)
                 /\ UNCHANGED <<state, rcv_off, snd_off>>
        <4>1. c.buffered => d.buffered
          BY <1>1, <1>2, <3>4, Zenon
        <4>2. SameStatus(c, d)
          BY <1>1, <1>2, <3>4, Zenon DEF SameStatus
        <4>3. d.pending = c.pending \/ d.pending = c.pending \cup {"CreditUpdate"}
          BY <1>8, <3>4, Zenon
        <4> QED BY <1>1, <1>2, <3>1, <4>1, <4>2, <4>3, SentData, Zenon DEF Abs!GuestOps
      <3> QED BY <3>2, <3>3, <3>4, Zenon
    <2>2. CASE SendResponse
      <3>1. /\ op = "RESPONSE" /\ c.state = "LocalInit" /\ Closed(d, "Established")
            /\ d.expiry = 0 /\ d.pending = c.pending /\ tx_buf' = tx_buf
        BY <1>1, <1>2, <2>2, Zenon DEF SendResponse, SetState, Closed, op
      <3>2. Closed(c, c.state)
        BY <1>0, <1>1, <3>1, Zenon DEF Handshake, Closed
      <3> QED BY <1>1, <1>2, <1>6, <3>1, <3>2, SentResponse, Zenon DEF Abs!GuestOps
    <2>3. CASE SendShutdown
      <3>1. op = "SHUTDOWN" /\ c.state \in {"Established", "PeerClosed"} /\ tx_buf' = tx_buf
            /\ d.state = "PeerClosed"
        BY <1>1, <1>2, <2>3, Zenon DEF SendShutdown, op
      <3>2. /\ d.rcv_off = (c.rcv_off \/ "RCV" \in flags)
            /\ d.snd_off = (c.snd_off \/ "SEND" \in flags)
        BY <1>1, <1>2, <2>3, Zenon DEF SendShutdown, flags
      <3>3. d.pending = IF d.rcv_off /\ d.snd_off /\ ~c.buffered
                        THEN c.pending \cup {"Rst"} ELSE c.pending
        BY <1>1, <1>2, <2>3, Zenon DEF SendShutdown
      <3>4. d.expiry = IF c.state = "Established" /\ d.rcv_off /\ d.snd_off /\ c.buffered
                       THEN 1 ELSE c.expiry
        BY <1>1, <1>2, <2>3, Zenon DEF SendShutdown
      <3>5. d \in Abs!SendPkt(c, "SHUTDOWN", flags, 1)
        <4>1. Shuts(c, d, flags)
          BY <1>6, <3>1, <3>2, <3>3, <3>4, ZenonT(30) DEF Shuts
        <4> QED BY <1>1, <1>2, <3>1, <4>1, SentShutdown, SMTT(30)
      <3> QED BY <3>1, <3>5, Zenon DEF Abs!GuestOps
    <2>4. CASE SendCreditRequest
      <3>1. /\ op = "CREDIT_REQUEST" /\ (c.state = "PeerInit" \/ Abs!MaySend(c))
            /\ SameStatus(c, d) /\ d.pending = c.pending \cup {"CreditUpdate"}
            /\ d.expiry = c.expiry /\ tx_buf' = tx_buf
        BY <1>1, <1>2, <1>3, <2>4, Zenon DEF SendCreditRequest, SameStatus, op
      <3> QED BY <1>1, <1>2, <1>6, <3>1, SentCreditRequest, Zenon DEF Abs!GuestOps
    <2>5. CASE SendIgnored
      <3>1. /\ SameStatus(c, d) /\ d.pending = c.pending /\ d.expiry = c.expiry
            /\ tx_buf' = tx_buf
        BY <1>1, <1>2, <2>5, Zenon DEF SendIgnored, SameStatus, control
      <3>2. /\ op \in Abs!GuestOps
            /\ ~(op = "RW" /\ Abs!MaySend(c)) /\ ~(op = "RESPONSE" /\ c.state = "LocalInit")
            /\ ~(op = "SHUTDOWN" /\ c.state \in {"Established", "PeerClosed"})
            /\ ~(op = "CREDIT_REQUEST" /\ (c.state = "PeerInit" \/ Abs!MaySend(c)))
        BY <1>1, <1>3, <2>5, Zenon DEF SendIgnored, op, Abs!GuestOps
      <3> QED BY <1>1, <1>2, <1>6, <3>1, <3>2, SentIgnored, Zenon
    <2> QED BY <2>1, <2>2, <2>3, <2>4, <2>5, Zenon DEF TakeSteps
  <1>10. Abs!Send
    BY <1>5, <1>9, Zenon DEF Abs!Send, c, d
  <1> QED BY <1>5, <1>10, Zenon DEF ChannelStep, Abs!Next

LEMMA NotifyChannelStep ==
    ASSUME ConnInv, ConnTypes', notify \/ Expire
    PROVE  ChannelStep
  <1>0. ConnTypes /\ Handshake
    BY Zenon DEF ConnInv
  <1> DEFINE c == Chan
             d == Chan'
  <1>1. /\ c \in Rec /\ c.state = state /\ c.rcv_off = rcv_off /\ c.snd_off = snd_off
        /\ c.pending = pending /\ c.expiry = expiry
        /\ c.buffered = (tx_buf # <<>>) /\ c.credit = (peer_avail_credit # 0)
    BY <1>0, ChanIs, Zenon
  <1>2. /\ d \in Rec /\ d.state = state' /\ d.rcv_off = rcv_off' /\ d.snd_off = snd_off'
        /\ d.pending = pending' /\ d.expiry = expiry'
        /\ d.buffered = (tx_buf' # <<>>) /\ d.credit = ((peer_avail_credit)' # 0)
    BY ChanIsNext, Zenon
  <1>3. Abs!ShutDown(c) <=> ShutDown
    BY <1>0, GuardsAgree, Zenon
  <1>4. open /\ UNCHANGED open /\ (peer_avail_credit)' = peer_avail_credit /\ expiry' = expiry
    BY Zenon DEF notify, NotifyIn, NotifyOut, NotifyOutError, Expire, counters, peer_avail_credit
  <1>5. d.credit = c.credit /\ d.expiry = c.expiry
    BY <1>1, <1>2, <1>4, Zenon
  <1>6. (tx_buf' = tx_buf) => d.buffered = c.buffered
    BY <1>1, <1>2, Zenon
  <1>7. ("OUT" \in get_polled_evset) => c.buffered
    BY <1>0, <1>1, GuardsAgree, Zenon
  <1>8. /\ ("OUT" \in get_polled_evset) => ({"OUT"} \subseteq Abs!PolledEvset(c))
        /\ ("IN" \in get_polled_evset) => ({"IN"} \subseteq Abs!PolledEvset(c))
    BY <1>0, GuardsAgree, Zenon
  <1>9. /\ {"IN"} \in SUBSET {"IN", "OUT"} /\ {"OUT"} \in SUBSET {"IN", "OUT"}
    BY Zenon
  <1>10. ASSUME NEW e \in {{"IN"}, {"OUT"}}, e \subseteq Abs!PolledEvset(c), d \in Abs!Notify(c, e)
         PROVE  ChannelStep
    <2>1. Abs!Event
      BY <1>4, <1>9, <1>10, Zenon DEF Abs!Event
    <2> QED BY <1>4, <2>1, Zenon DEF ChannelStep, Abs!Next
  <1>11. kill => (Closed(d, "Killed") /\ d.pending = c.pending \cup {"Rst"})
    BY <1>1, <1>2, Zenon DEF kill, SetState, Closed
  <1>12. CASE Expire
    <2> DEFINE y == Abs!Kill(c)
    <2>1. /\ y \in Rec /\ y.pending = c.pending \cup {"Rst"} /\ Closed(y, "Killed")
          /\ SameCounts(c, y) /\ y.expiry = c.expiry
      BY <1>1, KillFields, Zenon
    <2>2. kill /\ tx_buf' = tx_buf /\ expiry = 1
      BY <1>12, Zenon DEF Expire
    <2> HIDE DEF y, d
    <2>3. y.rcv_off = d.rcv_off /\ y.snd_off = d.snd_off /\ d.state = y.state
      BY <1>2, <1>11, <2>1, <2>2, ClosedSame, Zenon DEF Closed
    <2>4. Same(d, y)
      BY <1>5, <1>6, <1>11, <2>1, <2>2, <2>3, ZenonT(30) DEF Same, SameCounts
    <2>5. d = y
      BY <1>2, <2>1, <2>4, SameRec, Zenon
    <2>6. c.expiry # 0
      BY <1>1, <2>2
    <2>7. Abs!Expire
      BY <1>4, <2>5, <2>6, Zenon DEF Abs!Expire, Abs!Never, y, d
    <2> QED BY <1>4, <2>7, Zenon DEF ChannelStep, Abs!Next
  <1> HIDE DEF c, d
  <1>13. CASE NotifyIn
    <2>1. /\ SameStatus(c, d) /\ d.pending = c.pending \cup {"Rw"} /\ tx_buf' = tx_buf
          /\ "IN" \in get_polled_evset
      BY <1>1, <1>2, <1>13, Zenon DEF NotifyIn, SameStatus
    <2>2. SameCounts(c, d)
      BY <1>5, <1>6, <2>1, Zenon DEF SameCounts
    <2>3. d \in Abs!Notify(c, {"IN"})
      BY <1>1, <1>2, <1>5, <2>1, <2>2, NotifiedIn, Zenon
    <2> QED BY <1>8, <1>10, <2>1, <2>3, Zenon
  <1>14. CASE NotifyOutError
    <2>1. /\ Closed(d, "Killed") /\ tx_buf' = tx_buf /\ "OUT" \in get_polled_evset
          /\ \/ d.pending = c.pending \cup {"Rst"}
             \/ d.pending = (c.pending \cup {"Rst"}) \cup {"CreditUpdate"}
      BY <1>1, <1>2, <1>14, Zenon DEF NotifyOutError, SetState, Closed
    <2>2. d \in Abs!Notify(c, {"OUT"})
      BY <1>1, <1>2, <1>5, <1>6, <1>7, <2>1, NotifiedOut, Zenon
    <2> QED BY <1>8, <1>10, <2>1, <2>2, Zenon
  <1>15. CASE \E n \in 0..TxBufSize : NotifyOut(n)
    <2>1. SameStatus(c, d) /\ "OUT" \in get_polled_evset
      BY <1>1, <1>2, <1>15, Zenon DEF NotifyOut, SameStatus
    <2>2. \/ ShutDown /\ tx_buf' = <<>> /\ pending' = pending \cup {"Rst"}
          \/ ~(ShutDown /\ tx_buf' = <<>>) /\ \E f : WantsCreditUpdate(f)
      BY <1>15, Zenon DEF NotifyOut
    <2>3. \/ Abs!ShutDown(c) /\ ~d.buffered /\ d.pending = c.pending \cup {"Rst"}
          \/ /\ ~(Abs!ShutDown(c) /\ ~d.buffered)
             /\ d.pending = c.pending \/ d.pending = c.pending \cup {"CreditUpdate"}
      BY <1>1, <1>2, <1>3, <2>2, ZenonT(30) DEF WantsCreditUpdate
    <2>4. d \in Abs!Notify(c, {"OUT"})
      BY <1>1, <1>2, <1>5, <1>7, <2>1, <2>3, NotifiedOut, ZenonT(40)
    <2> QED BY <1>8, <1>10, <2>1, <2>4, Zenon
  <1> QED BY <1>12, <1>13, <1>14, <1>15, Zenon DEF notify

LEMMA GuestChannelStep ==
    ASSUME GuestStep
    PROVE  UNCHANGED <<Chan, open>>
  <1>1. UNCHANGED <<control, counters, tx_buf, open>>
    BY Zenon DEF GuestStep, GuestData, GuestReads, GuestShutdown, GuestControl, GuestReceives
  <1> QED BY <1>1, Zenon DEF Chan, control, counters, peer_avail_credit

\* The connection is the channel the muxer works with: what recv_pkt, send_pkt,
\* notify and the kill timer do to its state, pending indications and timer is, at
\* every step and for every size of the buffers and counters, what VsockChannel
\* allows (ImplementsChannel).  The guest's own steps do not show.
THEOREM ConnImplementsChannel == ConnSpec => ImplementsChannel
  <1>1. ConnInit => Abs!Init
    <2> SUFFICES ASSUME ConnInit PROVE Abs!Init
      BY Zenon
    <2> DEFINE k == peer_avail_credit # 0
    <2>1. (tx_buf # <<>>) = FALSE /\ open = TRUE
      BY Zenon DEF ConnInit
    <2>2. k = TRUE \/ k = FALSE
      BY Zenon
    <2>3. CASE state = "PeerInit" /\ pending = {"Response"}
      <3>1. Chan = Abs!NewPeerInit(k)
        BY <2>1, <2>3, ZenonT(30) DEF Chan, Abs!NewPeerInit, ConnInit, Abs!Never
      <3> QED BY <2>1, <2>2, <3>1, ZenonT(30) DEF Abs!Init, Abs!New
    <2>4. CASE state = "LocalInit" /\ pending = {"Request"} /\ peer_alloc = 0
      <3>1. Minus(0, Minus(0, 0)) = 0
        BY MinusSelf, Constants DEF Wrapped
      <3>2. k = FALSE
        BY <2>4, <3>1, Zenon DEF ConnInit, peer_avail_credit
      <3>3. Chan = Abs!NewLocalInit
        BY <2>1, <2>4, <3>2, Zenon DEF Chan, Abs!NewLocalInit, ConnInit, Abs!Never
      <3> QED BY <2>1, <3>3, Zenon DEF Abs!Init, Abs!New
    <2> QED BY <2>3, <2>4 DEF ConnInit, new_peer_init, new_local_init
  <1>2. ConnInv /\ ConnInv' /\ [ConnNext]_cvars => [ChannelStep]_cvars
    <2> SUFFICES ASSUME ConnInv, ConnInv', ConnNext PROVE ChannelStep
      BY Zenon DEF ChannelStep
    <2>0. ConnTypes'
      BY Zenon DEF ConnInv
    <2>1. CASE ResetSteps
      BY <2>1, ResetChannel, Zenon
    <2>2. CASE RecvSteps
      BY <2>0, <2>2, RecvChannelStep, Zenon
    <2>3. CASE TakeSteps
      BY <2>0, <2>3, TakeChannelStep, Zenon
    <2>4. CASE notify \/ Expire
      BY <2>0, <2>4, NotifyChannelStep, Zenon
    <2>5. CASE GuestStep
      BY <2>5, GuestChannelStep, Zenon DEF ChannelStep
    <2> QED BY <2>1, <2>2, <2>3, <2>4, <2>5, NextSteps, ZenonT(40)
  <1> QED BY <1>1, <1>2, ConnInvariant, PTL DEF ConnSpec, ImplementsChannel
=============================================================================
