---------------------------- MODULE VsockChannel ----------------------------
(***************************************************************************)
(* What the vsock muxer can rely on about one connection: the control      *)
(* state of VsockConnection (devices/src/virtio/vsock/csm/connection.rs),  *)
(* with the byte counters reduced to two facts, whether the TX buffer      *)
(* holds data and whether the guest has granted credit.  Each handler is   *)
(* the set of its possible outcomes.  VsockConnection is the detailed      *)
(* connection that implements this one; VsockMuxer is built on it.         *)
(***************************************************************************)
EXTENDS Naturals, FiniteSets

States == {"LocalInit", "PeerInit", "Established", "LocalClosed",
           "PeerClosed", "Killed"}
Indications == {"Request", "Response", "Rst", "Rw", "CreditUpdate"}
GuestOps == {"RESPONSE", "SHUTDOWN", "RW", "CREDIT_UPDATE", "CREDIT_REQUEST"}
ShutdownFlags == SUBSET {"RCV", "SEND"}

\* No kill timer (`expiry` is None).
Never == 0

\* rcv_off and snd_off are the arguments of ConnState::PeerClosed.
Channel(Time) ==
    [state : States, rcv_off : BOOLEAN, snd_off : BOOLEAN,
     pending : SUBSET Indications, expiry : Time \cup {Never},
     buffered : BOOLEAN, credit : BOOLEAN]

NewPeerInit(credit) ==
    [state |-> "PeerInit", rcv_off |-> FALSE, snd_off |-> FALSE,
     pending |-> {"Response"}, expiry |-> Never,
     buffered |-> FALSE, credit |-> credit]

NewLocalInit ==
    [state |-> "LocalInit", rcv_off |-> FALSE, snd_off |-> FALSE,
     pending |-> {"Request"}, expiry |-> Never,
     buffered |-> FALSE, credit |-> FALSE]

Without(c, i) == [c EXCEPT !.pending = @ \ {i}]
With(c, i) == [c EXCEPT !.pending = @ \cup {i}]
Become(c, s) == [c EXCEPT !.state = s, !.rcv_off = FALSE, !.snd_off = FALSE]
Kill(c) == Become(With(c, "Rst"), "Killed")

MayReceive(c) == c.state = "Established" \/ (c.state = "PeerClosed" /\ ~c.rcv_off)
MaySend(c) == c.state = "Established" \/ (c.state = "PeerClosed" /\ ~c.snd_off)
ShutDown(c) == c.state = "PeerClosed" /\ c.rcv_off /\ c.snd_off

Outcome(c, op) == [conn |-> c, op |-> op]

\* The end of recv_pkt: a credit update when nothing else is pending.
RecvCredit(c) ==
    {Outcome(Without(c, "CreditUpdate"),
             IF c.pending = {"CreditUpdate"} THEN "CREDIT_UPDATE" ELSE "NoData")}

\* recv_pkt with a pending Rw, already removed from c.
RecvRw(c, deadline) ==
    IF ~MayReceive(c) THEN {Outcome(c, "RST")}
    ELSE IF ~c.credit THEN {Outcome(c, "CREDIT_REQUEST")}
    ELSE {Outcome([c EXCEPT !.credit = left], "RW") : left \in BOOLEAN}
         \cup {Outcome([Become(c, "LocalClosed") EXCEPT !.expiry = deadline],
                       "SHUTDOWN")}
         \cup RecvCredit(c)
         \cup {Outcome(c, "RST")}

RecvPkt(c, deadline) ==
    CASE "Rst" \in c.pending -> {Outcome(Without(c, "Rst"), "RST")}
      [] "Rst" \notin c.pending /\ "Response" \in c.pending ->
           {Outcome([Without(c, "Response") EXCEPT !.state = "Established"],
                    "RESPONSE")}
      [] c.pending \cap {"Rst", "Response"} = {} /\ "Request" \in c.pending ->
           {Outcome([Without(c, "Request") EXCEPT !.expiry = deadline], "REQUEST")}
      [] c.pending \cap {"Rst", "Response", "Request"} = {} /\ "Rw" \in c.pending ->
           RecvRw(Without(c, "Rw"), deadline)
      [] OTHER -> RecvCredit(c)

\* The guest has asked to close both directions: RST once nothing is buffered.
RstWhenDrained(c) == IF ShutDown(c) /\ ~c.buffered THEN With(c, "Rst") ELSE c

\* The first shutdown request arms the kill timer when data is still buffered;
\* a later one only adds its flags.
PeerShutdown(c, flags, deadline) ==
    LET d == [c EXCEPT !.state = "PeerClosed",
                       !.rcv_off = @ \/ "RCV" \in flags,
                       !.snd_off = @ \/ "SEND" \in flags]
    IN  RstWhenDrained(IF c.state = "Established" /\ ShutDown(d) /\ c.buffered
                       THEN [d EXCEPT !.expiry = deadline] ELSE d)

\* Data from the guest: written through, buffered, or the stream is broken.
SendData(c) ==
    LET sent == {[c EXCEPT !.buffered = b] : b \in {c.buffered, TRUE}}
    IN  sent \cup {With(d, "CreditUpdate") : d \in sent} \cup {Kill(c)}

SendPkt(c, op, flags, deadline) ==
    LET heard == {[c EXCEPT !.credit = b] : b \in BOOLEAN}
        Handle(d) ==
          CASE op = "RW" /\ MaySend(d) -> {d} \cup SendData(d)
            [] op = "RESPONSE" /\ d.state = "LocalInit" ->
                 {[d EXCEPT !.expiry = Never, !.state = "Established"]}
            [] op = "SHUTDOWN" /\ d.state \in {"Established", "PeerClosed"} ->
                 {PeerShutdown(d, flags, deadline)}
            [] op = "CREDIT_REQUEST" /\ (d.state = "PeerInit" \/ MaySend(d)) ->
                 {With(d, "CreditUpdate")}
            [] OTHER -> {d}
    IN  UNION {Handle(d) : d \in heard}

\* What epoll is asked to report on the host stream.
PolledEvset(c) ==
    (IF c.buffered THEN {"OUT"} ELSE {}) \cup
    (IF \/ c.state \in {"Killed", "LocalClosed"}
        \/ c.state = "PeerClosed" /\ c.rcv_off
        \/ ~c.credit
     THEN {} ELSE {"IN"})

\* EPOLLOUT: the flush moved some data, all of it, none, or failed for good.
NotifyOut(c) ==
    IF ~c.buffered THEN {c}
    ELSE LET flushed == {[c EXCEPT !.buffered = b] : b \in BOOLEAN} \cup {Kill(c)}
             After(d) == IF ShutDown(d) /\ ~d.buffered THEN {With(d, "Rst")}
                         ELSE {d, With(d, "CreditUpdate")}
         IN  UNION {After(d) : d \in flushed}

Notify(c, evset) ==
    LET d == IF "IN" \in evset THEN With(c, "Rw") ELSE c
    IN  IF "OUT" \in evset THEN NotifyOut(d) ELSE {d}

-----------------------------------------------------------------------------
(* The channel on its own: any handler, called in any order, until an RST  *)
(* removes it from the muxer's map; `open` is its membership there.        *)
VARIABLES chan, open
CONSTANT Deadline   \* the value an armed kill timer takes

New == {NewPeerInit(TRUE), NewPeerInit(FALSE), NewLocalInit}

Init == chan \in New /\ open = TRUE

Drop == chan' = NewLocalInit /\ open' = FALSE

Recv ==
    /\ chan.pending # {}
    /\ \E r \in RecvPkt(chan, Deadline) :
          IF r.op = "RST" THEN Drop ELSE chan' = r.conn /\ UNCHANGED open

Send ==
    \/ /\ \E op \in GuestOps, flags \in ShutdownFlags :
              chan' \in SendPkt(chan, op, flags, Deadline)
       /\ UNCHANGED open
    \/ Drop

\* The listener of a connection killed by the muxer keeps its old event set.
Event ==
    /\ \E evset \in SUBSET {"IN", "OUT"} :
          /\ chan.state = "Killed" \/ evset \subseteq PolledEvset(chan)
          /\ chan' \in Notify(chan, evset)
    /\ UNCHANGED open

Expire == chan.expiry # Never /\ chan' = Kill(chan) /\ UNCHANGED open

Reopen == ~open /\ open' = TRUE /\ chan' \in New

Next == (open /\ (Recv \/ Send \/ Event \/ Expire)) \/ Reopen
Spec == Init /\ [][Next]_<<chan, open>>
=============================================================================
