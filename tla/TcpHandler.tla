---------------------------- MODULE TcpHandler -----------------------------
(***************************************************************************)
(* TcpIPv4Handler (dumbo/src/tcp/handler.rs): the listener that steers     *)
(* segments to endpoints and keeps, beside the map of connections, the set *)
(* of those that can send at once and the earliest retransmission timeout. *)
(* An endpoint is its next_segment_status, "Available", "Nothing" or the   *)
(* time of its timeout, a natural number; what a call makes of it is left  *)
(* open, except that a write without a segment leaves it as it is          *)
(* (SilentWriteKeepsStatus of TcpEndpoint).                                *)
(***************************************************************************)
EXTENDS Naturals, FiniteSets, Sequences

CONSTANTS
    Tuple,               \* ConnectionTuples
    Times,               \* times a retransmission may be due
    max_connections, max_pending_resets

ASSUME HandlerAssumption ==
    /\ Times \subseteq Nat
    /\ max_connections \in Nat \ {0} /\ max_pending_resets \in Nat \ {0}

VARIABLES
    connections,         \* a function from some tuples to statuses
    active_connections, next_timeout, rst_queue
hvars == <<connections, active_connections, next_timeout, rst_queue>>

Available == [s |-> "Available", at |-> 0]
NothingToSend == [s |-> "Nothing", at |-> 0]
TimeoutAt(t) == [s |-> "Timeout", at |-> t]
Status == {Available, NothingToSend} \cup {TimeoutAt(t) : t \in Times}

NoTimeout == <<>>
Known == DOMAIN connections

\* find_next_timeout, for the map conns: any of the earliest.
TimedOut(conns) == {t \in DOMAIN conns : conns[t].s = "Timeout"}
find_next_timeout(conns) ==
    IF TimedOut(conns) = {} THEN {NoTimeout}
    ELSE {<<conns[t].at, t>> : t \in {u \in TimedOut(conns) :
                                        \A v \in TimedOut(conns) : conns[u].at <= conns[v].at}}

\* Mutant: a later timeout never replaces an earlier one that is gone.
find_stale_timeout(nt, tuple, conns) == {nt}

\* The timeouts the handler may know after the status of tuple changed to
\* what conns says.
recheck_timeout(nt, tuple, conns) ==
    IF nt # NoTimeout /\ nt[2] = tuple THEN find_next_timeout(conns) ELSE {nt}

check_timeout(nt, value, tuple) ==
    IF nt = NoTimeout \/ nt[1] > value THEN <<value, tuple>> ELSE nt

\* check_next_segment_status, and the removal from active_connections by its
\* callers when it returns false.
check_next_segment_status(tuple, conns) ==
    /\ active_connections' = IF conns[tuple].s = "Available"
                             THEN active_connections \cup {tuple}
                             ELSE active_connections \ {tuple}
    /\ \E nt \in recheck_timeout(next_timeout, tuple, conns) :
         next_timeout' = IF conns[tuple].s = "Timeout"
                         THEN check_timeout(nt, conns[tuple].at, tuple) ELSE nt

With(tuple, status) == [t \in Known \cup {tuple} |-> IF t = tuple THEN status ELSE connections[t]]
Without(tuple) == [t \in Known \ {tuple} |-> connections[t]]

room_for_rst == Len(rst_queue) < max_pending_resets

enqueue_rst(tuple) ==
    rst_queue' = IF room_for_rst
                 THEN Append(rst_queue, tuple) ELSE rst_queue

remove_connection(tuple) ==
    /\ connections' = Without(tuple)
    /\ active_connections' = active_connections \ {tuple}
    /\ next_timeout' \in recheck_timeout(next_timeout, tuple, Without(tuple))

\* A new endpoint has a SYNACK to send.
add_connection(tuple) ==
    /\ connections' = With(tuple, Available)
    /\ check_next_segment_status(tuple, With(tuple, Available))

-----------------------------------------------------------------------------
Init ==
    /\ connections = [t \in {} |-> Available]
    /\ active_connections = {} /\ next_timeout = NoTimeout /\ rst_queue = <<>>

\* A call on an endpoint leaves it with some status, or done.
EndpointRan(tuple) ==
    \/ \E status \in Status : /\ connections' = With(tuple, status)
                              /\ check_next_segment_status(tuple, With(tuple, status))
    \/ remove_connection(tuple)

\* receive_packet: a segment for a known endpoint.
ReceiveKnown(tuple) == tuple \in Known /\ EndpointRan(tuple) /\ UNCHANGED rst_queue

ReceiveSyn(tuple) ==
    /\ tuple \notin Known
    /\ Cardinality(Known) < max_connections
    /\ add_connection(tuple)
    /\ UNCHANGED rst_queue

kept_active(old, tuple) == (active_connections \ {old}) \cup {tuple}

\* No room: an endpoint that may be evicted makes room, with a RST to its
\* client, or the new client gets the RST.
ReceiveSynFull(tuple) ==
    /\ tuple \notin Known
    /\ Cardinality(Known) >= max_connections
    /\ \/ \E old \in Known :
            /\ enqueue_rst(old)
            /\ connections' = [t \in (Known \ {old}) \cup {tuple} |->
                                 IF t = tuple THEN Available ELSE connections[t]]
            /\ active_connections' = kept_active(old, tuple)
            /\ next_timeout' \in recheck_timeout(next_timeout, old, Without(old))
       \/ enqueue_rst(tuple) /\ UNCHANGED <<connections, active_connections, next_timeout>>

ReceiveUnexpected(tuple) ==
    /\ tuple \notin Known
    /\ \/ enqueue_rst(tuple) \/ UNCHANGED rst_queue
    /\ UNCHANGED <<connections, active_connections, next_timeout>>

\* write_next_packet: the last RST queued goes first.
WriteRst ==
    /\ rst_queue # <<>>
    /\ rst_queue' = SubSeq(rst_queue, 1, Len(rst_queue) - 1)
    /\ UNCHANGED <<connections, active_connections, next_timeout>>

Candidates == active_connections \cup (IF next_timeout = NoTimeout THEN {} ELSE {next_timeout[2]})

\* Otherwise the first candidate that has a segment writes it.
WriteSegment(tuple) ==
    rst_queue = <<>> /\ tuple \in Candidates /\ EndpointRan(tuple) /\ UNCHANGED rst_queue

Next == \/ \E t \in Tuple : \/ ReceiveKnown(t) \/ ReceiveSyn(t) \/ ReceiveSynFull(t)
                            \/ ReceiveUnexpected(t) \/ WriteSegment(t)
        \/ WriteRst

Spec == Init /\ [][Next]_hvars

-----------------------------------------------------------------------------
(* Properties.                                                             *)

\* Types of the connections and the three queues of the handler.
TypeOK ==
    /\ Known \subseteq Tuple /\ connections \in [Known -> Status]
    /\ active_connections \subseteq Tuple
    /\ next_timeout \in {NoTimeout} \cup (Times \X Tuple)
    /\ rst_queue \in Seq(Tuple)

\* The tables stay within the sizes the handler was created with.
WithinCapacity ==
    Cardinality(Known) <= max_connections /\ Len(rst_queue) <= max_pending_resets

\* "Tuples in self.active_connection or self.next_timeout should also appear
\* as keys in self.connections" (handler.rs): the unwrap of write_next_packet
\* never fails.
CandidatesKnown == Candidates \subseteq Known

\* active_connections is exactly the set of connections that can send at once:
\* none of them is forgotten, and next_segment_status never claims one in vain.
ActiveIsAvailable == active_connections = {t \in Known : connections[t].s = "Available"}

\* next_timeout is the earliest timeout of all connections: no retransmission
\* is late, and none is announced for a connection that waits for nothing.
TimeoutIsEarliest == next_timeout \in find_next_timeout(connections)

\* What TcpIPv4Handler remembers of its connections is what they say:
\* active_connections is the set of those that can send at once, next_timeout
\* the earliest timeout of all.
SummariesAgree == ActiveIsAvailable /\ TimeoutIsEarliest
=============================================================================
