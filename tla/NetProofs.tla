----------------------------- MODULE NetProofs ------------------------------
(***************************************************************************)
(* Proofs about the network: TcpHandler, for every set of peers and        *)
(* timeouts and every capacity; Checksum, for every width and length;      *)
(* NetDevice, for any traffic; and the TxBuf of a vsock connection, for    *)
(* every size of the buffer.                                               *)
(***************************************************************************)
EXTENDS TcpHandler, NetDevice, Checksum, TxBuf, Integers,
        FiniteSetTheorems, TLAPS

-----------------------------------------------------------------------------
(* The handler keeps active_connections and next_timeout beside the map    *)
(* they are derived from; HandlerInv says that both are exactly what the   *)
(* map implies, which each of the calls preserves although it only looks   *)
(* at the connection it was made for.                                      *)

\* connections is a finite map within its capacity, and the two summaries of it
\* and the queue of resets are what they should be.
HandlerInv ==
    /\ Known \subseteq Tuple /\ connections \in [Known -> Status]
    /\ IsFiniteSet(Known) /\ Cardinality(Known) <= max_connections
    /\ ActiveIsAvailable /\ TimeoutIsEarliest
    /\ rst_queue \in Seq(Tuple) /\ Len(rst_queue) <= max_pending_resets

-----------------------------------------------------------------------------
(* Timeouts.                                                               *)

\* Statuses carry natural numbers, and the three kinds differ.
LEMMA StatusFacts ==
    /\ \A x \in Status : x.s \in {"Available", "Nothing", "Timeout"} /\ x.at \in Nat
    /\ \A x \in Status : x.s = "Timeout" => x.at \in Times
    /\ Available \in Status /\ Available.s = "Available"
  BY HandlerAssumption DEF Status, Available, NothingToSend, TimeoutAt

\* A pair is not the empty tuple, and is its components.
LEMMA TimeoutPairs ==
    \A a, t : <<a, t>> # NoTimeout /\ <<a, t>>[1] = a /\ <<a, t>>[2] = t
  BY Zenon DEF NoTimeout

\* find_next_timeout yields NoTimeout or the timeout of a connection that has
\* the earliest one.
Earliest(nt, conns) ==
    \/ TimedOut(conns) = {} /\ nt = NoTimeout
    \/ \E t \in TimedOut(conns) : /\ nt = <<conns[t].at, t>>
                                  /\ \A v \in TimedOut(conns) : conns[t].at <= conns[v].at

LEMMA EarliestIsNext ==
    \A nt, conns : nt \in find_next_timeout(conns) <=> Earliest(nt, conns)
  BY Zenon DEF find_next_timeout, Earliest

\* The timeout stays the earliest when one connection gets a new status and
\* check_next_segment_status rechecks it.
LEMMA CheckKeepsEarliest ==
    ASSUME HandlerInv, NEW tuple \in Tuple, NEW status \in Status,
           NEW nt \in recheck_timeout(next_timeout, tuple, With(tuple, status))
    PROVE  Earliest(IF status.s = "Timeout" THEN check_timeout(nt, status.at, tuple) ELSE nt,
                    With(tuple, status))
  <1> DEFINE conns == With(tuple, status)
             new == IF status.s = "Timeout" THEN check_timeout(nt, status.at, tuple) ELSE nt
  <1>1. /\ DOMAIN conns = Known \cup {tuple} /\ conns[tuple] = status
        /\ \A t \in Known : t # tuple => conns[t] = connections[t]
        /\ \A t \in DOMAIN conns : conns[t].at \in Nat
    BY StatusFacts, Zenon DEF With, HandlerInv
  <1>2. TimedOut(conns) = {t \in Known : t # tuple /\ connections[t].s = "Timeout"}
                            \cup (IF status.s = "Timeout" THEN {tuple} ELSE {})
    BY <1>1, Zenon DEF TimedOut
  <1>3. Earliest(next_timeout, connections)
    BY EarliestIsNext, Zenon DEF HandlerInv, TimeoutIsEarliest
  <1>4. TimedOut(connections) = {t \in Known : connections[t].s = "Timeout"}
    BY Zenon DEF TimedOut, Known
  <1> HIDE DEF conns
  <1>5. CASE next_timeout # NoTimeout /\ next_timeout[2] = tuple
    <2>1. Earliest(nt, conns)
      BY <1>5, EarliestIsNext, Zenon DEF recheck_timeout, conns
    <2>2. CASE status.s = "Timeout"
      <3>1. PICK t \in TimedOut(conns) : /\ nt = <<conns[t].at, t>>
                                         /\ \A v \in TimedOut(conns) : conns[t].at <= conns[v].at
        BY <1>2, <2>1, <2>2, Zenon DEF Earliest
      <3>2. tuple \in TimedOut(conns) /\ conns[t].at <= status.at
        BY <1>1, <1>2, <2>2, <3>1, Zenon
      <3>3. new = nt
        BY <1>1, <2>2, <3>1, <3>2, TimeoutPairs DEF check_timeout, TimedOut
      <3> QED BY <2>1, <3>3, Zenon DEF conns
    <2> QED BY <2>1, <2>2, Zenon DEF conns
  <1>6. CASE ~ (next_timeout # NoTimeout /\ next_timeout[2] = tuple)
    <2>1. nt = next_timeout
      BY <1>6, Zenon DEF recheck_timeout
    <2>2. CASE TimedOut(connections) = {} /\ next_timeout = NoTimeout
      BY <1>1, <1>2, <1>4, <2>1, <2>2 DEF Earliest, check_timeout, conns
    <2>3. CASE \E t \in TimedOut(connections) :
                 /\ next_timeout = <<connections[t].at, t>>
                 /\ \A v \in TimedOut(connections) : connections[t].at <= connections[v].at
      <3>1. PICK t \in TimedOut(connections) :
                 /\ next_timeout = <<connections[t].at, t>>
                 /\ \A v \in TimedOut(connections) : connections[t].at <= connections[v].at
        BY <2>3, Zenon
      <3>2. /\ t # tuple /\ t \in TimedOut(conns) /\ conns[t] = connections[t]
            /\ nt = <<conns[t].at, t>> /\ nt # NoTimeout /\ nt[1] = conns[t].at
        BY <1>1, <1>2, <1>4, <1>6, <2>1, <3>1, TimeoutPairs, Zenon
      <3>3. \A v \in TimedOut(conns) : v = tuple \/ conns[t].at <= conns[v].at
        BY <1>1, <1>2, <1>4, <3>1, <3>2, Zenon
      <3>4. CASE status.s = "Timeout" /\ conns[t].at > status.at
        <4>1. new = <<status.at, tuple>>
          BY <3>2, <3>4, Zenon DEF check_timeout
        <4>2. tuple \in TimedOut(conns) /\ conns[tuple].at = status.at
          BY <1>1, <1>2, <3>4, Zenon
        <4>3. \A v \in TimedOut(conns) : conns[tuple].at <= conns[v].at
          BY <1>1, <3>2, <3>3, <3>4, <4>2 DEF TimedOut
        <4> QED BY <4>1, <4>2, <4>3, Zenon DEF Earliest, conns
      <3>5. CASE ~ (status.s = "Timeout" /\ conns[t].at > status.at)
        <4>1. new = nt
          BY <3>2, <3>5, Zenon DEF check_timeout
        <4>2. \A v \in TimedOut(conns) : conns[t].at <= conns[v].at
          BY <1>1, <1>2, <3>2, <3>3, <3>5, StatusFacts DEF TimedOut
        <4> QED BY <3>2, <4>1, <4>2, Zenon DEF Earliest, conns
      <3> QED BY <3>4, <3>5, Zenon
    <2> QED BY <1>3, <2>2, <2>3, Zenon DEF Earliest
  <1> QED BY <1>5, <1>6, Zenon

\* The timeout stays the earliest when a connection is removed.
LEMMA RemoveKeepsEarliest ==
    ASSUME HandlerInv, NEW tuple \in Known,
           NEW nt \in recheck_timeout(next_timeout, tuple, Without(tuple))
    PROVE  Earliest(nt, Without(tuple))
  <1> DEFINE conns == Without(tuple)
  <1>1. /\ DOMAIN conns = Known \ {tuple}
        /\ \A t \in Known : t # tuple => conns[t] = connections[t]
    BY Zenon DEF Without
  <1>2. TimedOut(conns) = TimedOut(connections) \ {tuple}
    BY <1>1, Zenon DEF TimedOut, Known
  <1>3. Earliest(next_timeout, connections)
    BY EarliestIsNext, Zenon DEF HandlerInv, TimeoutIsEarliest
  <1> HIDE DEF conns
  <1>4. CASE next_timeout # NoTimeout /\ next_timeout[2] = tuple
    BY <1>4, EarliestIsNext, Zenon DEF recheck_timeout
  <1>5. CASE ~ (next_timeout # NoTimeout /\ next_timeout[2] = tuple)
    <2>1. nt = next_timeout
      BY <1>5, Zenon DEF recheck_timeout
    <2>2. CASE TimedOut(connections) = {} /\ next_timeout = NoTimeout
      BY <1>2, <2>1, <2>2, Zenon DEF Earliest, conns
    <2>3. CASE \E t \in TimedOut(connections) :
                 /\ next_timeout = <<connections[t].at, t>>
                 /\ \A v \in TimedOut(connections) : connections[t].at <= connections[v].at
      <3>1. PICK t \in TimedOut(connections) :
                 /\ next_timeout = <<connections[t].at, t>>
                 /\ \A v \in TimedOut(connections) : connections[t].at <= connections[v].at
        BY <2>3, Zenon
      <3>2. t # tuple
        BY <1>5, <3>1, TimeoutPairs, Zenon
      <3>3. \A v \in TimedOut(conns) : v \in TimedOut(connections) /\ conns[v] = connections[v]
        BY <1>1, <1>2, Zenon DEF TimedOut, Known
      <3>4. t \in TimedOut(conns)
        BY <1>2, <3>2, Zenon
      <3> QED BY <2>1, <3>1, <3>3, <3>4, Zenon DEF Earliest, conns
    <2> QED BY <1>3, <2>2, <2>3, Zenon DEF Earliest
  <1> QED BY <1>4, <1>5, Zenon

-----------------------------------------------------------------------------
(* The calls.                                                              *)

\* enqueue_rst keeps the queue of resets within its size.
LEMMA EnqueueRstFits ==
    ASSUME NEW tuple \in Tuple, enqueue_rst(tuple),
           rst_queue \in Seq(Tuple), Len(rst_queue) <= max_pending_resets
    PROVE  rst_queue' \in Seq(Tuple) /\ Len(rst_queue') <= max_pending_resets
  BY HandlerAssumption DEF enqueue_rst, room_for_rst

\* A call on an endpoint keeps the map and its summaries in step.
LEMMA StatusStep ==
    ASSUME HandlerInv, NEW tuple \in Tuple, NEW status \in Status,
           connections' = With(tuple, status), check_next_segment_status(tuple, With(tuple, status)),
           UNCHANGED rst_queue,
           IsFiniteSet(Known \cup {tuple}), Cardinality(Known \cup {tuple}) <= max_connections
    PROVE  HandlerInv'
  <1>1. /\ Known' = Known \cup {tuple} /\ connections'[tuple] = status
        /\ \A t \in Known : t # tuple => connections'[t] = connections[t]
    BY Zenon DEF With, Known
  <1>2. Known' \subseteq Tuple /\ connections' \in [Known' -> Status]
    BY Zenon DEF With, Known, HandlerInv
  <1>3. ActiveIsAvailable'
    BY <1>1, Zenon DEF ActiveIsAvailable, HandlerInv, check_next_segment_status
  <1>4. TimeoutIsEarliest'
    <2>1. With(tuple, status)[tuple] = status
      BY Zenon DEF With
    <2>2. PICK nt \in recheck_timeout(next_timeout, tuple, With(tuple, status)) :
             next_timeout' = IF status.s = "Timeout" THEN check_timeout(nt, status.at, tuple) ELSE nt
      BY <2>1, Zenon DEF check_next_segment_status
    <2>3. Earliest(next_timeout', With(tuple, status))
      BY <2>2, CheckKeepsEarliest, Zenon
    <2> QED BY <2>3, EarliestIsNext, Zenon DEF TimeoutIsEarliest
  <1> QED BY <1>1, <1>2, <1>3, <1>4, Zenon DEF HandlerInv

\* So does the removal of one that is done.
LEMMA RemoveStep ==
    ASSUME HandlerInv, NEW tuple \in Known,
           remove_connection(tuple), UNCHANGED rst_queue
    PROVE  HandlerInv'
  <1>1. /\ Known' = Known \ {tuple}
        /\ \A t \in Known' : connections'[t] = connections[t]
    BY Zenon DEF remove_connection, Without, Known
  <1>2. Known' \subseteq Tuple /\ connections' \in [Known' -> Status]
    BY Zenon DEF remove_connection, Without, Known, HandlerInv
  <1>3. ActiveIsAvailable'
    BY <1>1, Zenon DEF ActiveIsAvailable, HandlerInv, remove_connection
  <1>4. TimeoutIsEarliest'
    BY RemoveKeepsEarliest, EarliestIsNext, Zenon DEF TimeoutIsEarliest, remove_connection
  <1>5. IsFiniteSet(Known') /\ Cardinality(Known') <= max_connections
    <2>1. Cardinality(Known) \in Nat /\ Cardinality(Known) <= max_connections /\ max_connections \in Nat
      BY HandlerAssumption, FS_CardinalityType, Zenon DEF HandlerInv
    <2>2. IsFiniteSet(Known \ {tuple}) /\ Cardinality(Known \ {tuple}) = Cardinality(Known) - 1
      BY FS_RemoveElement, Zenon DEF HandlerInv
    <2> QED BY <1>1, <2>1, <2>2
  <1> QED BY <1>1, <1>2, <1>3, <1>4, <1>5, Zenon DEF HandlerInv

\* A segment for a known endpoint, or one that it writes.
LEMMA EndpointStep ==
    ASSUME HandlerInv, NEW tuple \in Known, EndpointRan(tuple), UNCHANGED rst_queue
    PROVE  HandlerInv'
  <1>1. Known \cup {tuple} = Known /\ tuple \in Tuple
    BY Zenon DEF HandlerInv
  <1>2. ASSUME NEW status \in Status, connections' = With(tuple, status),
               check_next_segment_status(tuple, With(tuple, status))
        PROVE  HandlerInv'
    BY <1>1, <1>2, StatusStep, Zenon DEF HandlerInv
  <1>3. CASE remove_connection(tuple)
    BY <1>3, RemoveStep, Zenon
  <1> QED BY <1>2, <1>3, Zenon DEF EndpointRan

\* The candidates of write_next_packet are connections of the map.
LEMMA InvCandidates ==
    ASSUME HandlerInv PROVE CandidatesKnown
  <1>1. active_connections \subseteq Known
    BY Zenon DEF HandlerInv, ActiveIsAvailable
  <1>2. next_timeout = NoTimeout \/ next_timeout[2] \in Known
    BY EarliestIsNext, TimeoutPairs DEF HandlerInv, TimeoutIsEarliest, Earliest, TimedOut, Known
  <1> QED BY <1>1, <1>2, Zenon DEF CandidatesKnown, Candidates

\* A SYN while there is room.
LEMMA ReceiveSynStep ==
    ASSUME HandlerInv, NEW tuple \in Tuple, ReceiveSyn(tuple)
    PROVE  HandlerInv'
  <1>1. IsFiniteSet(Known \cup {tuple}) /\ Cardinality(Known \cup {tuple}) <= max_connections
    <2>1. Cardinality(Known) \in Nat /\ Cardinality(Known) < max_connections /\ max_connections \in Nat
      BY HandlerAssumption, FS_CardinalityType, Zenon DEF HandlerInv, ReceiveSyn
    <2>2. IsFiniteSet(Known \cup {tuple}) /\ Cardinality(Known \cup {tuple}) = Cardinality(Known) + 1
      BY FS_AddElement, Zenon DEF HandlerInv, ReceiveSyn
    <2> QED BY <2>1, <2>2
  <1> QED BY <1>1, StatusStep, StatusFacts, Zenon DEF ReceiveSyn, add_connection

\* A SYN while there is none: a connection makes room for it, or it is reset.
LEMMA ReceiveSynFullStep ==
    ASSUME HandlerInv, NEW tuple \in Tuple, ReceiveSynFull(tuple)
    PROVE  HandlerInv'
  <1>1. ASSUME NEW old \in Known, enqueue_rst(old),
               connections' = [t \in (Known \ {old}) \cup {tuple} |->
                                 IF t = tuple THEN Available ELSE connections[t]],
               active_connections' = kept_active(old, tuple),
               next_timeout' \in recheck_timeout(next_timeout, old, Without(old))
        PROVE  HandlerInv'
    <2>1. /\ tuple \notin Known /\ old \in Tuple
          /\ Known' = (Known \ {old}) \cup {tuple} /\ connections'[tuple] = Available
          /\ \A t \in Known : t # old => connections'[t] = connections[t]
      BY <1>1 DEF ReceiveSynFull, Known, HandlerInv
    <2>2. Known' \subseteq Tuple /\ connections' \in [Known' -> Status]
      BY <1>1, StatusFacts, Zenon DEF Known, HandlerInv
    <2>3. ActiveIsAvailable'
      BY <1>1, <2>1, StatusFacts, Zenon DEF ActiveIsAvailable, HandlerInv, kept_active
    <2>4. TimeoutIsEarliest'
      <3>1. Earliest(next_timeout', Without(old))
        BY <1>1, RemoveKeepsEarliest, Zenon
      <3>2. TimedOut(connections') = TimedOut(Without(old))
        BY <2>1, StatusFacts, Zenon DEF TimedOut, Without, Known
      <3>3. \A t \in TimedOut(Without(old)) : connections'[t] = Without(old)[t]
        BY <2>1, Zenon DEF TimedOut, Without
      <3> QED BY <3>1, <3>2, <3>3, EarliestIsNext, Zenon DEF TimeoutIsEarliest, Earliest
    <2>5. IsFiniteSet(Known') /\ Cardinality(Known') <= max_connections
      <3>1. /\ IsFiniteSet(Known \ {old})
            /\ Cardinality(Known \ {old}) = Cardinality(Known) - 1
        BY <1>1, FS_RemoveElement, Zenon DEF HandlerInv
      <3>2. Cardinality(Known) \in Nat
        BY HandlerAssumption, FS_CardinalityType, Zenon DEF HandlerInv
      <3>3. IsFiniteSet(Known') /\ Cardinality(Known') = Cardinality(Known \ {old}) + 1
        BY <2>1, <3>1, FS_AddElement, Zenon
      <3> QED BY <3>1, <3>2, <3>3 DEF HandlerInv
    <2>6. rst_queue' \in Seq(Tuple) /\ Len(rst_queue') <= max_pending_resets
      BY <1>1, <2>1, EnqueueRstFits, Zenon DEF HandlerInv
    <2> QED BY <2>2, <2>3, <2>4, <2>5, <2>6, Zenon DEF HandlerInv
  <1>2. CASE enqueue_rst(tuple) /\ UNCHANGED <<connections, active_connections, next_timeout>>
    BY <1>2, EnqueueRstFits, Zenon DEF HandlerInv, Known, ActiveIsAvailable, TimeoutIsEarliest
  <1> QED BY <1>1, <1>2, Zenon DEF ReceiveSynFull

-----------------------------------------------------------------------------
(* The theorems.                                                           *)

\* HandlerInv holds of every reachable state of the handler.
THEOREM HandlerInvariant == Spec => []HandlerInv
  <1>1. Init => HandlerInv
    BY HandlerAssumption, FS_EmptySet
       DEF Init, HandlerInv, Known, ActiveIsAvailable, TimeoutIsEarliest,
           find_next_timeout, TimedOut
  <1>2. HandlerInv /\ [Next]_hvars => HandlerInv'
    <2> SUFFICES ASSUME HandlerInv, [Next]_hvars PROVE HandlerInv'
      BY Zenon
    <2>1. ASSUME NEW t \in Tuple, ReceiveKnown(t) PROVE HandlerInv'
      BY <2>1, EndpointStep, Zenon DEF ReceiveKnown
    <2>2. ASSUME NEW t \in Tuple, ReceiveSyn(t) PROVE HandlerInv'
      BY <2>2, ReceiveSynStep, Zenon
    <2>3. ASSUME NEW t \in Tuple, ReceiveSynFull(t) PROVE HandlerInv'
      BY <2>3, ReceiveSynFullStep
    <2>4. ASSUME NEW t \in Tuple, ReceiveUnexpected(t) PROVE HandlerInv'
      BY <2>4, EnqueueRstFits
        , Zenon DEF ReceiveUnexpected, HandlerInv, Known, ActiveIsAvailable, TimeoutIsEarliest
    <2>5. ASSUME NEW t \in Tuple, WriteSegment(t) PROVE HandlerInv'
      BY <2>5, EndpointStep, InvCandidates, Zenon DEF WriteSegment, CandidatesKnown
    <2>6. CASE WriteRst
      <3>1. rst_queue' \in Seq(Tuple) /\ Len(rst_queue') <= max_pending_resets
        BY <2>6, HandlerAssumption DEF WriteRst, HandlerInv
      <3> QED BY <2>6, <3>1, Zenon DEF WriteRst, HandlerInv, Known, ActiveIsAvailable, TimeoutIsEarliest
    <2>7. CASE UNCHANGED hvars
      BY <2>7, Zenon DEF hvars, HandlerInv, Known, ActiveIsAvailable, TimeoutIsEarliest
    <2> QED BY <2>1, <2>2, <2>3, <2>4, <2>5, <2>6, <2>7, Zenon DEF Next
  <1> QED BY <1>1, <1>2, PTL DEF Spec

\* TcpIPv4Handler never knows of a connection that can send and is not in
\* active_connections, nor the other way round.
THEOREM HandlerActive == Spec => []ActiveIsAvailable
  <1>1. HandlerInv => ActiveIsAvailable
    BY Zenon DEF HandlerInv
  <1> QED BY <1>1, HandlerInvariant, PTL

\* TcpIPv4Handler's next_timeout is the earliest one of its connections.
THEOREM HandlerTimeout == Spec => []TimeoutIsEarliest
  <1>1. HandlerInv => TimeoutIsEarliest
    BY Zenon DEF HandlerInv
  <1> QED BY <1>1, HandlerInvariant, PTL

\* The unwrap in write_next_packet cannot fail, and the tables stay within the
\* capacities given to TcpIPv4Handler::new.
THEOREM HandlerTables == Spec => [](CandidatesKnown /\ WithinCapacity)
  <1>1. HandlerInv => CandidatesKnown /\ WithinCapacity
    BY InvCandidates, Zenon DEF HandlerInv, WithinCapacity
  <1> QED BY <1>1, HandlerInvariant, PTL

\* What TcpIPv4Handler keeps beside the map of its connections agrees with it
\* after every call, whichever connection the call was about.
THEOREM HandlerSummaries == Spec => []SummariesAgree
  BY HandlerActive, HandlerTimeout, PTL DEF SummariesAgree

-----------------------------------------------------------------------------
(* The checksum.                                                           *)

\* The most the accumulator holds when n words have been added.
Most(n) == Proto + MaxLen + (4 * Word) + (n * Word)

\* The accumulator grows by less than a word at a time, and stays congruent to
\* all that was added, modulo the greatest word.
ChecksumInv ==
    /\ ChecksumTypeOK
    /\ phase = "words" => sum <= Most(words)
    /\ sum <= Most((MaxLen \div 2) + 1)
    /\ phase # "done" => \E k \in Nat : total = sum + ((Word - 1) * k)
    /\ Verifies

\* Euclidean division by a word.
LEMMA WordDivMod ==
    ASSUME NEW w \in Nat \ {0}, NEW s \in Nat
    PROVE  /\ s \div w \in Nat /\ s % w \in 0..(w - 1)
           /\ s = (w * (s \div w)) + (s % w)
  BY Z3

\* One round of the fold takes a multiple of the greatest word away.
LEMMA FoldedShrinks ==
    ASSUME NEW s \in Nat
    PROVE  /\ folded(s) \in Nat /\ folded(s) <= s
           /\ s \div Word \in Nat /\ s = folded(s) + ((Word - 1) * (s \div Word))
  <1> DEFINE q == s \div Word
             r == s % Word
  <1>1. Word \in Nat \ {0} /\ Word > 1
    BY ChecksumAssumption
  <1>2. q \in Nat /\ r \in Nat /\ s = (Word * q) + r
    BY <1>1, WordDivMod
  <1>3. folded(s) = r + q
    BY Zenon DEF folded
  <1> HIDE DEF q, r
  <1>4. Word * q = ((Word - 1) * q) + q /\ (Word - 1) * q \in Nat
    BY <1>1, <1>2
  <1> QED BY <1>2, <1>3, <1>4 DEF q

\* A multiple of the greatest word is all ones in one's complement.
LEMMA OnesOfMultiple ==
    ASSUME NEW k \in Nat
    PROVE  ones_complement_sum((Word - 1) * (k + 1)) = Word - 1
  <1> DEFINE w == Word - 1
             n == (w * k) + (w - 1)
  <1>1. w \in Nat \ {0}
    BY ChecksumAssumption
  <1>2. w * k \in Nat /\ w * (k + 1) = (w * k) + w
    BY <1>1
  <1>3. n \in Nat /\ (w * (k + 1)) - 1 = n
    <2> HIDE DEF w
    <2> QED BY <1>1, <1>2
  <1>4. n % w = w - 1
    <2> DEFINE q == n \div w
    <2>1. q \in Nat /\ n % w \in 0..(w - 1) /\ n = (w * q) + (n % w)
      BY <1>1, <1>3, WordDivMod, Zenon
    <2> HIDE DEF q, w
    <2>2. q >= k + 1 => w * q >= (w * k) + w
      BY <1>1, <1>2, <2>1
    <2>3. q < k => (w * q) + w <= w * k
      <3>1. q + 1 <= k => w * (q + 1) <= w * k
        BY <1>1, <2>1
      <3>2. w * (q + 1) = (w * q) + w
        BY <1>1, <2>1
      <3> QED BY <2>1, <3>1, <3>2
    <2>4. q = k
      BY <1>1, <1>2, <2>1, <2>2, <2>3
    <2> QED BY <1>1, <1>2, <2>1, <2>4
  <1> HIDE DEF n, w
  <1>5. w * (k + 1) # 0
    BY <1>1, <1>2
  <1>6. ones_complement_sum(w * (k + 1)) = (((w * (k + 1)) - 1) % (Word - 1)) + 1
    BY <1>5, Zenon DEF ones_complement_sum
  <1> QED BY <1>1, <1>3, <1>4, <1>6 DEF w

\* compute_checksum: the u32 accumulator never overflows ("Is u32 enough to
\* prevent overflow ...? I think so"), and the receiver accepts the result, for
\* any words, lengths and addresses.
THEOREM ChecksumRight == ChecksumSpec => []ChecksumIsRight
  <1> DEFINE Top == (MaxLen \div 2) + 1
  <1>0. /\ Word \in Nat /\ Word > 1 /\ MaxLen \in Nat /\ Proto \in Nat /\ Limit \in Nat
        /\ MaxLen \div 2 \in Nat /\ Top \in Nat
        /\ \A n \in 0..MaxLen : n \div 2 \in Nat /\ (n \div 2) + 1 <= Top
        /\ \A m \in Nat : /\ Most(m) \in Nat /\ Most(m + 1) = Most(m) + Word
                          /\ m <= Top => Most(m) <= Most(Top)
    <2>1. \A m \in Nat : m * Word \in Nat /\ (m + 1) * Word = (m * Word) + Word
      BY ChecksumAssumption
    <2>2. \A m, n \in Nat : m <= n => m * Word <= n * Word
      BY ChecksumAssumption
    <2>3. Top \in Nat
      BY ChecksumAssumption
    <2>4. \A n \in 0..MaxLen : n \div 2 \in Nat /\ (n \div 2) + 1 <= Top
      BY ChecksumAssumption
    <2> HIDE DEF Top
    <2> QED BY <2>1, <2>2, <2>3, <2>4, ChecksumAssumption DEF Most, Top
  <1>1. ChecksumInit => ChecksumInv
    <2> SUFFICES ASSUME ChecksumInit PROVE ChecksumInv
      BY Zenon
    <2>1. sum \in Nat /\ sum <= Most(0) /\ words = 0 /\ total = sum + ((Word - 1) * 0)
      BY <1>0 DEF ChecksumInit, Most
    <2>2. Most(0) <= Most(Top)
      BY <1>0
    <2>3. ChecksumTypeOK
      BY <1>0, <2>1 DEF ChecksumInit, ChecksumTypeOK
    <2> HIDE DEF Top
    <2>4. \E k \in Nat : total = sum + ((Word - 1) * k)
      BY <2>1, Zenon
    <2>5. Most(0) \in Nat /\ Most(Top) \in Nat
      BY <1>0, Zenon
    <2>6. sum <= Most(words) /\ sum <= Most(Top)
      BY <2>1, <2>2, <2>5
    <2> QED BY <2>3, <2>4, <2>6, Zenon DEF ChecksumInit, ChecksumInv, Verifies, Top
  <1>2. ChecksumInv /\ [ChecksumNext]_csvars => ChecksumInv'
    <2> SUFFICES ASSUME ChecksumInv, [ChecksumNext]_csvars PROVE ChecksumInv'
      OBVIOUS
    <2>0. /\ length \div 2 \in Nat /\ (length \div 2) + 1 <= Top /\ words \in Nat
          /\ words <= length \div 2 /\ sum \in Nat /\ total \in Nat
          /\ Most(words) \in Nat /\ Most(words + 1) = Most(words) + Word
          /\ Most(words + 1) <= Most(Top) /\ Most(Top) \in Nat /\ sum <= Most(Top)
      BY <1>0, SMTT(30) DEF ChecksumInv, ChecksumTypeOK
    <2> HIDE DEF Top
    <2>1. CASE AddWord
      <3>1. PICK w \in 0..(Word - 1) : sum' = sum + w /\ total' = total + w
        BY <2>1, Zenon DEF AddWord
      <3>2. sum' <= Most(words + 1)
        BY <1>0, <2>0, <2>1, <3>1 DEF AddWord, ChecksumInv
      <3>3. ChecksumTypeOK'
        BY <1>0, <2>0, <2>1, <3>1 DEF AddWord, ChecksumInv, ChecksumTypeOK
      <3>4. \E k \in Nat : total' = sum' + ((Word - 1) * k)
        <4>1. PICK k \in Nat : total = sum + ((Word - 1) * k)
          BY <2>1, Zenon DEF AddWord, ChecksumInv
        <4>2. (Word - 1) * k \in Nat
          BY <1>0, <4>1
        <4>3. total' = sum' + ((Word - 1) * k)
          BY <1>0, <2>0, <3>1, <4>1, <4>2
        <4> QED BY <4>1, <4>3, Zenon
      <3>5. Most(Top)' = Most(Top) /\ Most(words)' = Most(words + 1)
        BY <2>1, Zenon DEF AddWord, Most, Top
      <3>6. sum' <= Most(Top)
        BY <1>0, <2>0, <3>1, <3>2
      <3> QED BY <2>1, <3>2, <3>3, <3>4, <3>5, <3>6, Zenon DEF AddWord, ChecksumInv, Verifies, Top, Most
    <2>2. CASE AddLast
      <3>1. PICK w \in 0..(Word - 1) : sum' = sum + w /\ total' = total + w
        <4>1. 0 \in 0..(Word - 1) /\ sum + 0 = sum /\ total + 0 = total
          BY <1>0, <2>0
        <4> QED BY <2>2, <4>1, Zenon DEF AddLast, odd_byte
      <3>2. sum' <= Most(Top)
        BY <1>0, <2>0, <2>2, <3>1, SMTT(30) DEF AddLast, ChecksumInv
      <3>3. ChecksumTypeOK'
        BY <1>0, <2>0, <2>2, <3>1, SMTT(30) DEF AddLast, ChecksumInv, ChecksumTypeOK
      <3>4. \E k \in Nat : total' = sum' + ((Word - 1) * k)
        <4>1. PICK k \in Nat : total = sum + ((Word - 1) * k)
          BY <2>2, Zenon DEF AddLast, ChecksumInv
        <4>2. (Word - 1) * k \in Nat
          BY <1>0, <4>1
        <4>3. total' = sum' + ((Word - 1) * k)
          BY <1>0, <2>0, <3>1, <4>1, <4>2
        <4> QED BY <4>1, <4>3, Zenon
      <3> QED BY <2>2, <3>2, <3>3, <3>4, Zenon DEF AddLast, ChecksumInv, Verifies, Top, Most
    <2>3. CASE Fold
      <3>1. sum' = folded(sum) /\ UNCHANGED <<phase, udp, length, words, total>>
            /\ phase = "fold"
        BY <2>3, Zenon DEF Fold
      <3>2. sum' \in Nat /\ sum' <= sum /\ sum \div Word \in Nat
            /\ sum = sum' + ((Word - 1) * (sum \div Word))
        BY <2>0, <3>1, FoldedShrinks, Zenon
      <3>3. \E k \in Nat : total' = sum' + ((Word - 1) * k)
        <4>1. PICK k \in Nat : total = sum + ((Word - 1) * k)
          BY <3>1, Zenon DEF ChecksumInv
        <4> DEFINE q == sum \div Word
        <4>2. (Word - 1) * (k + q) = ((Word - 1) * k) + ((Word - 1) * q)
              /\ (Word - 1) * k \in Nat /\ (Word - 1) * q \in Nat /\ k + q \in Nat
          <5>1. q \in Nat /\ Word - 1 \in Nat
            BY <1>0, <3>2
          <5> HIDE DEF q
          <5> QED BY <4>1, <5>1
        <4>3. total' = sum' + ((Word - 1) * (k + q))
          BY <2>0, <3>1, <3>2, <4>1, <4>2
        <4> HIDE DEF q
        <4> QED BY <4>2, <4>3, Zenon
      <3>4. ChecksumTypeOK'
        BY <3>1, <3>2, Zenon DEF ChecksumInv, ChecksumTypeOK
      <3>5. sum' <= Most(Top)
        BY <2>0, <3>2
      <3> QED BY <3>1, <3>3, <3>4, <3>5, Zenon DEF ChecksumInv, Verifies, Top, Most
    <2>4. CASE Finish
      <3>1. /\ sum' = csum(sum) /\ phase' = "done" /\ UNCHANGED <<udp, length, words, total>>
            /\ phase = "fold" /\ sum < Word
        BY <2>4, Zenon DEF Finish
      <3>2. PICK k \in Nat : total = sum + ((Word - 1) * k)
        BY <3>1, Zenon DEF ChecksumInv
      <3>3. \E j \in Nat : total' + sum' = (Word - 1) * (j + 1)
        <4>1. /\ (Word - 1) * (k + 1) = ((Word - 1) * k) + (Word - 1)
              /\ (Word - 1) * ((k + 1) + 1) = ((Word - 1) * k) + (Word - 1) + (Word - 1)
              /\ (Word - 1) * k \in Nat
          BY <1>0, <3>2
        <4>2. CASE udp /\ sum = Word - 1
          <5>1. total' + sum' = (Word - 1) * ((k + 1) + 1)
            BY <1>0, <2>0, <3>1, <3>2, <4>1, <4>2 DEF csum
          <5> QED BY <5>1
        <4>3. CASE ~ (udp /\ sum = Word - 1)
          <5>1. total' + sum' = (Word - 1) * (k + 1)
            BY <1>0, <2>0, <3>1, <3>2, <4>1, <4>3 DEF csum
          <5> QED BY <5>1, Zenon
        <4> QED BY <4>2, <4>3, Zenon
      <3>4. ones_complement_sum(total' + sum') = Word - 1
        BY <3>3, OnesOfMultiple, Zenon
      <3>5. sum' \in Nat /\ sum' < Word /\ (udp => sum' # 0)
        BY <1>0, <2>0, <3>1 DEF csum
      <3>6. Word <= Most(Top)
        BY <1>0 DEF Most
      <3>7. ChecksumTypeOK'
        BY <3>1, <3>5, Zenon DEF ChecksumInv, ChecksumTypeOK
      <3>8. ones_complement_sum(total + sum)' = ones_complement_sum(total' + sum')
        BY Zenon DEF ones_complement_sum
      <3> QED BY <1>0, <3>1, <3>4, <3>5, <3>6, <3>7, <3>8
              DEF ChecksumInv, Verifies, Top, Most
    <2>5. CASE UNCHANGED csvars
      BY <2>5, Zenon DEF csvars, ChecksumInv, ChecksumTypeOK, Verifies, Most, ones_complement_sum
    <2> QED BY <2>1, <2>2, <2>3, <2>4, <2>5, Zenon DEF ChecksumNext
  <1>3. ChecksumInv => ChecksumIsRight
    BY ChecksumAssumption, <1>0 DEF ChecksumInv, ChecksumTypeOK, ChecksumIsRight, NoOverflow, Most
  <1> QED BY <1>1, <1>2, <1>3, PTL DEF ChecksumSpec

-----------------------------------------------------------------------------
(* The network device.  NetIsServed speaks of the moments between two       *)
(* handlers; the invariant says what holds inside one.                      *)

\* The next RX buffer of the guest, or the limiter's timer, brings an event, unless
\* the frame exhausted a queue of bad chains.
RxWoken == rx_blocked \/ rxq.evt \/ (rxq.notify /\ rxq.avail = 0) \/ rxq.gave_up
TxWoken == tx_blocked \/ txq.evt \/ (txq.notify /\ txq.avail = << >>)

NetTypes ==
    /\ net \in [pc : {"idle", "deferred", "rx", "rx_deliver", "tx", "tx_done"}, deferred : BOOLEAN,
                frame : Nat, for_mmds : BOOLEAN, rx_unsignalled : Nat, tx_unsignalled : Nat]
    /\ tap \in [frames : Seq(Nat), edge : BOOLEAN, arrived : Nat, errors : Nat, missed : BOOLEAN]
    /\ mmds \in Nat
    /\ rxq \in [avail : Nat, notify : BOOLEAN, evt : BOOLEAN, gave_up : BOOLEAN]
    /\ txq \in [avail : Seq({"tap", "mmds", "bad"}), notify : BOOLEAN, evt : BOOLEAN]
    /\ rx_blocked \in BOOLEAN /\ tx_blocked \in BOOLEAN /\ got \in Seq(Nat)

\* Where the handler is tells whether a frame is deferred.
NetControl ==
    /\ net.pc = "deferred" => net.deferred
    /\ net.pc \in {"rx", "rx_deliver"} => ~net.deferred
    /\ net.for_mmds => ~net.deferred /\ net.pc \in {"tx", "tx_done"}
    /\ net.deferred /\ net.pc # "deferred" => RxWoken
    /\ net.pc # "tx" => TxWoken
    /\ mmds > 0 => net.deferred \/ net.for_mmds \/ net.pc \in {"rx", "rx_deliver"}

\* The frames are numbered through from those the guest got (g) over the one in
\* hand (fr, if h is 1) to those in the tap (f).
NumberedFrom(g, h, fr, f, a) ==
    /\ Len(g) + h + Len(f) = a
    /\ \A i \in 1..Len(g) : g[i] = i
    /\ h = 1 => fr = Len(g) + 1
    /\ \A i \in 1..Len(f) : f[i] = Len(g) + h + i

Held == IF (net.deferred \/ net.pc = "rx_deliver") /\ net.frame # 0 THEN 1 ELSE 0
Numbered == NumberedFrom(got, Held, net.frame, tap.frames, tap.arrived)

NetInv == NetTypes /\ NetControl /\ Numbered

\* A frame arrives, is read, and is delivered.
LEMMA FrameMoves ==
    ASSUME NEW g \in Seq(Nat), NEW h \in 0..1, NEW fr \in Nat, NEW f \in Seq(Nat), NEW a \in Nat,
           NumberedFrom(g, h, fr, f, a)
    PROVE  /\ NumberedFrom(g, h, fr, Append(f, a + 1), a + 1)
           /\ h = 0 /\ f # << >> => Head(f) # 0 /\ NumberedFrom(g, 1, Head(f), Tail(f), a)
           /\ h = 1 => NumberedFrom(Append(g, fr), 0, fr, f, a)
           /\ h = 0 => NumberedFrom(g, 0, 0, f, a)
  <1> USE DEF NumberedFrom
  <1>1. NumberedFrom(g, h, fr, Append(f, a + 1), a + 1)
    <2> DEFINE more == Append(f, a + 1)
    <2>1. /\ Len(more) = Len(f) + 1 /\ more[Len(f) + 1] = a + 1
          /\ \A i \in 1..Len(f) : more[i] = f[i]
      OBVIOUS
    <2>2. Len(f) \in Nat /\ Len(g) \in Nat
      OBVIOUS
    <2> HIDE DEF more
    <2>3. ASSUME NEW i \in 1..Len(more) PROVE more[i] = Len(g) + h + i
      <3>1. CASE i \in 1..Len(f)
        BY <2>1, <3>1, Zenon
      <3>2. CASE i = Len(f) + 1
        <4> DEFINE lf == Len(f)
                   lg == Len(g)
        <4>1. lg + h + lf = a /\ lg \in Nat /\ lf \in Nat /\ i = lf + 1 /\ more[lf + 1] = a + 1
          BY <2>1, <2>2, <3>2, Zenon
        <4> HIDE DEF NumberedFrom, lf, lg
        <4>2. more[i] = lg + h + i
          BY <4>1
        <4> QED BY <4>2, Zenon DEF lg
      <3> QED BY <2>1, <2>2, <3>1, <3>2
    <2>4. Len(g) + h + Len(more) = a + 1
      BY <2>1, <2>2, SMTT(30)
    <2>5. NumberedFrom(g, h, fr, more, a + 1)
      BY <2>3, <2>4, Zenon
    <2> QED BY <2>5, Zenon DEF more
  <1>2. ASSUME h = 0, f # << >> PROVE Head(f) # 0 /\ NumberedFrom(g, 1, Head(f), Tail(f), a)
    <2>1. Head(f) = f[1] /\ Len(Tail(f)) = Len(f) - 1 /\ 1 \in 1..Len(f)
      BY <1>2
    <2>2. \A i \in 1..Len(Tail(f)) : Tail(f)[i] = f[i + 1]
      BY <1>2
    <2> QED BY <1>2, <2>1, <2>2
  <1>3. ASSUME h = 1 PROVE NumberedFrom(Append(g, fr), 0, fr, f, a)
    BY <1>3
  <1>4. ASSUME h = 0 PROVE NumberedFrom(g, 0, 0, f, a)
    BY <1>4
  <1> HIDE DEF NumberedFrom
  <1> QED BY <1>1, <1>2, <1>3, <1>4, Zenon

\* Steps that move no frame keep the numbers.
LEMMA NumbersKept ==
    ASSUME Numbered, UNCHANGED got, tap'.frames = tap.frames, tap'.arrived = tap.arrived,
           Held' = Held, net'.frame = net.frame
    PROVE  Numbered'
  BY Zenon DEF Numbered

LEMMA ConsumeOpType ==
    ASSUME NEW blocked \in BOOLEAN, NEW r \in ConsumeOp(blocked)
    PROVE  r.ok \in BOOLEAN /\ r.blocked \in BOOLEAN /\ (~r.ok => r.blocked)
  <1>1. r \in {[ok |-> FALSE, blocked |-> TRUE], [ok |-> TRUE, blocked |-> FALSE],
              [ok |-> TRUE, blocked |-> TRUE]}
    BY Zenon DEF ConsumeOp
  <1>2. CASE r = [ok |-> FALSE, blocked |-> TRUE]
    BY <1>2, Zenon
  <1>3. CASE r = [ok |-> TRUE, blocked |-> FALSE]
    BY <1>3, Zenon
  <1>4. CASE r = [ok |-> TRUE, blocked |-> TRUE]
    BY <1>4, Zenon
  <1> QED BY <1>1, <1>2, <1>3, <1>4, Zenon

\* The guest and the tap.
LEMMA OutsideStep ==
    ASSUME NetInv, FrameArrives \/ GuestAddsRx \/ GuestAddsTx
    PROVE  NetInv'
  <1> USE DEF NetInv
  <1>1. CASE FrameArrives
    <2>1. /\ tap' = [tap EXCEPT !.frames = Append(tap.frames, tap.arrived + 1), !.edge = TRUE,
                               !.arrived = tap.arrived + 1]
          /\ UNCHANGED <<net, mmds, rxq, txq, rx_blocked, tx_blocked, got>>
      BY <1>1, Zenon DEF FrameArrives
    <2>2. tap.frames \in Seq(Nat) /\ tap.arrived \in Nat
      BY Zenon DEF NetTypes
    <2> DEFINE more == Append(tap.frames, tap.arrived + 1)
    <2>3. /\ more \in Seq(Nat) /\ Len(more) = Len(tap.frames) + 1
          /\ \A i \in 1..Len(tap.frames) : more[i] = tap.frames[i]
          /\ more[Len(more)] = tap.arrived + 1
      BY <2>2
    <2> HIDE DEF more
    <2>4. /\ tap' \in [frames : Seq(Nat), edge : BOOLEAN, arrived : Nat, errors : Nat, missed : BOOLEAN]
          /\ tap'.frames = more /\ tap'.arrived = tap.arrived + 1
      <3> DEFINE n == tap.arrived + 1
      <3>1. tap' = [tap EXCEPT !.frames = more, !.edge = TRUE, !.arrived = n] /\ n \in Nat
        BY <2>1, <2>2 DEF more
      <3> HIDE DEF n
      <3>2. tap \in [frames : Seq(Nat), edge : BOOLEAN, arrived : Nat, errors : Nat, missed : BOOLEAN]
        BY Zenon DEF NetTypes
      <3>3. tap' \in [frames : Seq(Nat), edge : BOOLEAN, arrived : Nat, errors : Nat, missed : BOOLEAN]
        BY <2>3, <3>1, <3>2, Zenon
      <3>4. tap'.frames = more /\ tap'.arrived = n
        BY <3>1, <3>2, Zenon
      <3> QED BY <3>3, <3>4, Zenon DEF n
    <2>5. NetControl'
      BY <2>1, Zenon DEF NetControl, RxWoken, TxWoken
    <2>6. Held' = Held /\ Held \in 0..1
      BY <2>1 DEF Held
    <2>7. Numbered'
      <3>1. NumberedFrom(got, Held, net.frame, Append(tap.frames, tap.arrived + 1), tap.arrived + 1)
        BY <2>2, <2>6, FrameMoves, Zenon DEF NetTypes, Numbered
      <3> QED BY <2>1, <2>4, <2>6, <3>1, Zenon DEF Numbered, more
    <2>8. NetTypes'
      BY <2>1, <2>4 DEF NetTypes
    <2> QED BY <2>5, <2>7, <2>8, Zenon
  <1>2. CASE GuestAddsRx
    <2>1. /\ rxq' = [rxq EXCEPT !.avail = rxq.avail + 1, !.evt = rxq.evt \/ rxq.notify, !.notify = FALSE]
          /\ UNCHANGED <<net, tap, mmds, txq, rx_blocked, tx_blocked, got>>
      BY <1>2, Zenon DEF GuestAddsRx
    <2>2. NetTypes'
      <3> DEFINE evt == rxq.evt \/ rxq.notify
                 n == rxq.avail + 1
      <3>1. rxq \in [avail : Nat, notify : BOOLEAN, evt : BOOLEAN, gave_up : BOOLEAN] /\ evt \in BOOLEAN /\ n \in Nat
        BY DEF NetTypes
      <3>2. rxq' = [rxq EXCEPT !.avail = n, !.evt = evt, !.notify = FALSE]
        BY <2>1, Zenon
      <3> HIDE DEF evt, n
      <3>3. rxq' \in [avail : Nat, notify : BOOLEAN, evt : BOOLEAN, gave_up : BOOLEAN]
        BY <3>1, <3>2, Zenon
      <3> QED BY <2>1, <3>3 DEF NetTypes
    <2>3. RxWoken => RxWoken'
      BY <2>1, Zenon DEF RxWoken, NetTypes
    <2>4. NetControl'
      BY <2>1, <2>3, Zenon DEF NetControl, TxWoken
    <2> QED BY <2>1, <2>2, <2>4, NumbersKept, Zenon DEF Held
  <1>3. CASE GuestAddsTx
    <2>1. PICK kind \in {"tap", "mmds", "bad"} :
            txq' = [txq EXCEPT !.avail = Append(txq.avail, kind), !.evt = txq.evt \/ txq.notify, !.notify = FALSE]
      BY <1>3, Zenon DEF GuestAddsTx
    <2>2. UNCHANGED <<net, tap, mmds, rxq, rx_blocked, tx_blocked, got>>
      BY <1>3, Zenon DEF GuestAddsTx
    <2>3. NetTypes'
      <3> DEFINE evt == txq.evt \/ txq.notify
                 Kind == {"tap", "mmds", "bad"}
                 more == Append(txq.avail, kind)
      <3>1. txq \in [avail : Seq(Kind), notify : BOOLEAN, evt : BOOLEAN] /\ evt \in BOOLEAN /\ kind \in Kind
        BY <2>1, Zenon DEF NetTypes
      <3>2. txq' = [txq EXCEPT !.avail = more, !.evt = evt, !.notify = FALSE]
        BY <2>1, Zenon
      <3> HIDE DEF evt, Kind
      <3>3. more \in Seq(Kind)
        BY <3>1
      <3> HIDE DEF more
      <3>4. txq' \in [avail : Seq(Kind), notify : BOOLEAN, evt : BOOLEAN]
        BY <3>1, <3>2, <3>3, Zenon
      <3> QED BY <2>2, <3>4 DEF NetTypes, Kind
    <2>4. TxWoken => TxWoken'
      BY <2>1, <2>2, Zenon DEF TxWoken, NetTypes
    <2>5. NetControl'
      BY <2>2, <2>4, Zenon DEF NetControl, RxWoken
    <2> QED BY <2>2, <2>3, <2>5, NumbersKept, Zenon DEF Held
  <1> QED BY <1>1, <1>2, <1>3, Zenon

\* The handlers are entered: the frame in hand, if any, stays there.
LEMMA EventStep ==
    ASSUME NetInv, \/ process_rx_queue_event \/ process_tap_rx_event \/ process_tx_queue_event
                   \/ process_rx_rate_limiter_event \/ process_tx_rate_limiter_event
    PROVE  NetInv'
  <1> USE DEF NetInv
  <1> DEFINE Pcs == {"idle", "deferred", "rx", "tx"}
  <1>1. ASSUME NEW pc \in Pcs, net.pc = "idle", net' = [net EXCEPT !.pc = pc],
               UNCHANGED <<mmds, got>>, tap'.frames = tap.frames, tap'.arrived = tap.arrived,
               tap' \in [frames : Seq(Nat), edge : BOOLEAN, arrived : Nat, errors : Nat, missed : BOOLEAN],
               rxq' \in [avail : Nat, notify : BOOLEAN, evt : BOOLEAN, gave_up : BOOLEAN],
               txq' \in [avail : Seq({"tap", "mmds", "bad"}), notify : BOOLEAN, evt : BOOLEAN],
               rx_blocked' \in BOOLEAN, tx_blocked' \in BOOLEAN,
               pc = "deferred" => net.deferred,
               pc = "rx" => ~net.deferred,
               net.deferred /\ pc # "deferred" => RxWoken',
               pc # "tx" => TxWoken'
        PROVE  NetInv'
    <2>1. net' \in [pc : {"idle", "deferred", "rx", "rx_deliver", "tx", "tx_done"}, deferred : BOOLEAN,
                   frame : Nat, for_mmds : BOOLEAN, rx_unsignalled : Nat, tx_unsignalled : Nat]
      BY <1>1, Zenon DEF NetTypes
    <2>2. /\ net'.pc = pc /\ net'.deferred = net.deferred /\ net'.frame = net.frame
          /\ net'.for_mmds = net.for_mmds
      BY <1>1, Zenon DEF NetTypes
    <2>3. NetTypes'
      BY <1>1, <2>1, Zenon DEF NetTypes
    <2>4. NetControl'
      BY <1>1, <2>2, Zenon DEF NetControl
    <2>5. Held' = Held
      BY <1>1, <2>2, Zenon DEF Held
    <2> QED BY <1>1, <2>2, <2>3, <2>4, <2>5, NumbersKept, Zenon
  <1>2. CASE process_rx_queue_event
    <2>1. /\ net.pc = "idle" /\ rxq' = [rxq EXCEPT !.evt = FALSE]
          /\ net' = [net EXCEPT !.pc = IF rx_blocked THEN "idle" ELSE ResumeRx]
          /\ UNCHANGED <<tap, mmds, txq, rx_blocked, tx_blocked, got>>
      BY <1>2, Zenon DEF process_rx_queue_event, Idle, Goto
    <2> DEFINE pc == IF rx_blocked THEN "idle" ELSE ResumeRx
    <2>2. /\ pc \in Pcs /\ (pc = "deferred" => net.deferred) /\ pc # "rx"
          /\ net.deferred /\ pc # "deferred" => rx_blocked
      BY Zenon DEF ResumeRx
    <2>3. rxq' \in [avail : Nat, notify : BOOLEAN, evt : BOOLEAN, gave_up : BOOLEAN]
      BY <2>1, Zenon DEF NetTypes
    <2>4. TxWoken'
      BY <2>1, Zenon DEF NetControl, TxWoken
    <2> HIDE DEF pc
    <2>5. net' = [net EXCEPT !.pc = pc]
      BY <2>1, Zenon DEF pc
    <2> QED BY <1>1, <2>1, <2>2, <2>3, <2>4, <2>5, ZenonT(40) DEF NetTypes, RxWoken
  <1>3. CASE process_tap_rx_event
    <2> DEFINE pc == IF SkipsTap \/ rx_blocked THEN "idle" ELSE IF net.deferred THEN "deferred" ELSE "rx"
               vain == tap.missed \/ (rx_blocked /\ ~net.deferred)
    <2>1. /\ net.pc = "idle" /\ tap' = [tap EXCEPT !.edge = FALSE, !.missed = vain]
          /\ net' = [net EXCEPT !.pc = pc]
          /\ UNCHANGED <<mmds, rxq, txq, rx_blocked, tx_blocked, got>>
      BY <1>3, Zenon DEF process_tap_rx_event, Idle, Goto
    <2>2. pc \in Pcs /\ (pc = "deferred" => net.deferred) /\ (pc = "rx" => ~net.deferred)
      BY Zenon
    <2>3. vain \in BOOLEAN
      BY Zenon
    <2>4. TxWoken' /\ (net.deferred => RxWoken')
      BY <2>1, Zenon DEF NetControl, TxWoken, RxWoken
    <2> HIDE DEF pc, vain
    <2>5. /\ tap' \in [frames : Seq(Nat), edge : BOOLEAN, arrived : Nat, errors : Nat, missed : BOOLEAN]
          /\ tap'.frames = tap.frames /\ tap'.arrived = tap.arrived
      BY <2>1, <2>3, Zenon DEF NetTypes
    <2> QED BY <1>1, <2>1, <2>2, <2>4, <2>5, ZenonT(40) DEF NetTypes
  <1>4. CASE process_tx_queue_event
    <2> DEFINE pc == IF tx_blocked THEN "idle" ELSE "tx"
    <2>1. /\ net.pc = "idle" /\ txq' = [txq EXCEPT !.evt = FALSE]
          /\ net' = [net EXCEPT !.pc = pc]
          /\ UNCHANGED <<tap, mmds, rxq, rx_blocked, tx_blocked, got>>
      BY <1>4, Zenon DEF process_tx_queue_event, Idle, Goto
    <2>2. pc \in Pcs /\ pc # "deferred" /\ pc # "rx" /\ (pc # "tx" => tx_blocked)
      BY Zenon
    <2>3. txq' \in [avail : Seq({"tap", "mmds", "bad"}), notify : BOOLEAN, evt : BOOLEAN]
      BY <2>1, Zenon DEF NetTypes
    <2>4. net.deferred => RxWoken'
      BY <2>1, Zenon DEF NetControl, RxWoken
    <2> HIDE DEF pc
    <2> QED BY <1>1, <2>1, <2>2, <2>3, <2>4, Zenon DEF NetTypes, TxWoken
  <1>5. CASE process_rx_rate_limiter_event
    <2>1. /\ net.pc = "idle" /\ rx_blocked' = FALSE /\ net' = [net EXCEPT !.pc = ResumeRx]
          /\ UNCHANGED <<tap, mmds, rxq, txq, tx_blocked, got>>
      BY <1>5, Zenon DEF process_rx_rate_limiter_event, Idle, Goto
    <2>2. /\ ResumeRx \in Pcs /\ ResumeRx # "rx"
          /\ net.deferred <=> ResumeRx = "deferred"
      BY Zenon DEF ResumeRx
    <2>3. TxWoken'
      BY <2>1, Zenon DEF NetControl, TxWoken
    <2> QED BY <1>1, <2>1, <2>2, <2>3, ZenonT(40) DEF NetTypes
  <1>6. CASE process_tx_rate_limiter_event
    <2>1. /\ net.pc = "idle" /\ tx_blocked' = FALSE /\ net' = [net EXCEPT !.pc = "tx"]
          /\ UNCHANGED <<tap, mmds, rxq, txq, rx_blocked, got>>
      BY <1>6, Zenon DEF process_tx_rate_limiter_event, Idle, Goto
    <2>2. net.deferred => RxWoken'
      BY <2>1, Zenon DEF NetControl, RxWoken
    <2> QED BY <1>1, <2>1, <2>2, Zenon DEF NetTypes
  <1> QED BY <1>2, <1>3, <1>4, <1>5, <1>6, Zenon

NetRecord == [pc : {"idle", "deferred", "rx", "rx_deliver", "tx", "tx_done"}, deferred : BOOLEAN,
              frame : Nat, for_mmds : BOOLEAN, rx_unsignalled : Nat, tx_unsignalled : Nat]

\* A frame is handed to the guest, or kept with something that brings it back.
LEMMA DeliverStep ==
    ASSUME NetInv, net.pc \in {"deferred", "rx_deliver"}, DeliverFrame,
           UNCHANGED <<tap, mmds, txq, tx_blocked>>
    PROVE  NetInv'
  <1> USE DEF NetInv
  <1>1. PICK r \in ConsumeOp(rx_blocked) :
      /\ rx_blocked' = r.blocked
      /\ \E w \in IF r.ok THEN WriteFrame ELSE {Throttled} :
           /\ rxq' = LET taken == [rxq EXCEPT !.avail = @ - w.used, !.gave_up = w.gave_up]
                     IN  IF r.ok /\ ~w.ok /\ ~w.gave_up THEN EnableNotification(taken) ELSE taken
           /\ got' = IF w.ok /\ net.frame # 0 THEN Append(got, net.frame) ELSE got
           /\ net' = IF w.ok
                     THEN [net EXCEPT !.pc = "rx", !.deferred = FALSE,
                                      !.rx_unsignalled = @ + w.used]
                     ELSE signal_used_rx([net EXCEPT !.pc = "idle", !.deferred = TRUE])
    BY ZenonT(40) DEF DeliverFrame
  <1>2. PICK w \in IF r.ok THEN WriteFrame ELSE {Throttled} :
           /\ rxq' = LET taken == [rxq EXCEPT !.avail = @ - w.used, !.gave_up = w.gave_up]
                     IN  IF r.ok /\ ~w.ok /\ ~w.gave_up THEN EnableNotification(taken) ELSE taken
           /\ got' = IF w.ok /\ net.frame # 0 THEN Append(got, net.frame) ELSE got
           /\ net' = IF w.ok
                     THEN [net EXCEPT !.pc = "rx", !.deferred = FALSE,
                                      !.rx_unsignalled = @ + w.used]
                     ELSE signal_used_rx([net EXCEPT !.pc = "idle", !.deferred = TRUE])
    BY <1>1, Zenon
  <1>3. /\ r.ok \in BOOLEAN /\ r.blocked \in BOOLEAN /\ (~r.ok => r.blocked)
        /\ net \in NetRecord /\ rxq.avail \in Nat
        /\ rxq \in [avail : Nat, notify : BOOLEAN, evt : BOOLEAN, gave_up : BOOLEAN]
    BY ConsumeOpType, Zenon DEF NetTypes, NetRecord
  <1>4. /\ w.ok \in BOOLEAN /\ w.gave_up \in BOOLEAN /\ w.used \in 0..rxq.avail
        /\ r.ok /\ ~w.ok => w.used = rxq.avail
        /\ w.ok => r.ok
    <2>1. CASE r.ok
      <3>1. \/ \E n \in 1..rxq.avail : w = [ok |-> TRUE, used |-> n, gave_up |-> FALSE]
            \/ \E b \in BOOLEAN : w = [ok |-> FALSE, used |-> rxq.avail, gave_up |-> b]
        BY <1>2, <2>1, Zenon DEF WriteFrame
      <3>2. ASSUME NEW b \in BOOLEAN, w = [ok |-> FALSE, used |-> rxq.avail, gave_up |-> b]
            PROVE  w.ok = FALSE /\ w.gave_up = b /\ w.used = rxq.avail
        BY <3>2, Zenon
      <3>3. rxq.avail \in 0..rxq.avail
        BY <1>3
      <3>4. ASSUME NEW n \in 1..rxq.avail, w = [ok |-> TRUE, used |-> n, gave_up |-> FALSE]
            PROVE  w.ok = TRUE /\ w.gave_up = FALSE /\ w.used = n
        BY <3>4, Zenon
      <3>5. \A n \in 1..rxq.avail : n \in 0..rxq.avail
        BY <1>3
      <3>6. CASE \E n \in 1..rxq.avail : w = [ok |-> TRUE, used |-> n, gave_up |-> FALSE]
        BY <2>1, <3>4, <3>5, <3>6, Zenon
      <3>7. CASE \E b \in BOOLEAN : w = [ok |-> FALSE, used |-> rxq.avail, gave_up |-> b]
        BY <3>2, <3>3, <3>7, Zenon
      <3> QED BY <3>1, <3>6, <3>7, Zenon
    <2>2. CASE ~r.ok
      <3>0. w = [ok |-> FALSE, used |-> 0, gave_up |-> rxq.gave_up]
        BY <1>2, <2>2, Zenon DEF Throttled
      <3>1. w.ok = FALSE /\ w.used = 0 /\ w.gave_up = rxq.gave_up
        BY <3>0, Zenon
      <3>2. w.gave_up \in BOOLEAN
        BY <1>3, <3>1, Zenon
      <3>3. w.used \in 0..rxq.avail
        BY <1>3, <3>1
      <3> QED BY <2>2, <3>1, <3>2, <3>3, Zenon
    <2> QED BY <1>3, <2>1, <2>2, Zenon
  <1> DEFINE left == rxq.avail - w.used
             count == net.rx_unsignalled + w.used
  <1>5. left \in Nat /\ count \in Nat /\ (r.ok /\ ~w.ok => left = 0)
    BY <1>3, <1>4 DEF NetRecord
  <1> DEFINE taken == [rxq EXCEPT !.avail = left, !.gave_up = w.gave_up]
  <1>6. rxq' = IF r.ok /\ ~w.ok /\ ~w.gave_up THEN [taken EXCEPT !.notify = TRUE] ELSE taken
    BY <1>2, Zenon DEF EnableNotification
  <1>7. net' = IF w.ok THEN [net EXCEPT !.pc = "rx", !.deferred = FALSE, !.rx_unsignalled = count]
               ELSE [[net EXCEPT !.pc = "idle", !.deferred = TRUE] EXCEPT !.rx_unsignalled = 0]
    BY <1>2, Zenon DEF signal_used_rx
  <1> HIDE DEF left, count
  <1>8. rxq' \in [avail : Nat, notify : BOOLEAN, evt : BOOLEAN, gave_up : BOOLEAN]
    <2>1. taken \in [avail : Nat, notify : BOOLEAN, evt : BOOLEAN, gave_up : BOOLEAN]
      BY <1>3, <1>4, <1>5, Zenon
    <2> HIDE DEF taken
    <2> QED BY <1>6, <2>1, Zenon
  <1>9. net' \in NetRecord /\ net'.frame = net.frame /\ net'.for_mmds = net.for_mmds
    BY <1>3, <1>5, <1>7, Zenon DEF NetRecord
  <1>10. ~net.for_mmds
    BY Zenon DEF NetControl
  <1>11. Held = IF net.frame # 0 THEN 1 ELSE 0
    BY Zenon DEF Held, NetControl
  <1>12. net.frame \in Nat /\ got \in Seq(Nat) /\ tap.frames \in Seq(Nat) /\ tap.arrived \in Nat
    BY Zenon DEF NetTypes
  <1>13. CASE w.ok
    <2>1. net'.pc = "rx" /\ ~net'.deferred
      BY <1>3, <1>7, <1>13, Zenon DEF NetRecord
    <2>2. Held' = 0
      BY <2>1, Zenon DEF Held
    <2>3. NetControl'
      BY <1>9, <1>10, <2>1, Zenon DEF NetControl, TxWoken
    <2>4. got' \in Seq(Nat)
      BY <1>2, <1>12
    <2>5. Numbered'
      <3>1. CASE net.frame # 0
        <4>1. NumberedFrom(Append(got, net.frame), 0, net.frame, tap.frames, tap.arrived)
          BY <1>11, <1>12, <3>1, FrameMoves DEF Numbered
        <4> QED BY <1>2, <1>9, <1>13, <2>2, <3>1, <4>1, ZenonT(40) DEF Numbered
      <3>2. CASE net.frame = 0
        BY <1>2, <1>9, <1>11, <2>2, <3>2, Zenon DEF Numbered
      <3> QED BY <3>1, <3>2, Zenon
    <2> QED BY <1>1, <1>3, <1>8, <1>9, <2>3, <2>4, <2>5, Zenon DEF NetTypes, NetRecord
  <1>14. CASE ~w.ok
    <2>1. net'.pc = "idle" /\ net'.deferred
      BY <1>3, <1>7, <1>14, Zenon DEF NetRecord
    <2>2. Held' = Held
      BY <1>9, <1>11, <2>1, Zenon DEF Held
    <2>3. RxWoken'
      <3>1. CASE r.ok /\ w.gave_up
        BY <1>3, <1>6, <3>1, Zenon DEF RxWoken
      <3>2. CASE r.ok /\ ~w.gave_up
        BY <1>3, <1>5, <1>6, <1>14, <3>2, Zenon DEF RxWoken
      <3>3. CASE ~r.ok
        BY <1>1, <1>3, <3>3, Zenon DEF RxWoken
      <3> QED BY <3>1, <3>2, <3>3, Zenon
    <2>4. NetControl'
      BY <1>9, <1>10, <2>1, <2>3, Zenon DEF NetControl, TxWoken
    <2>5. got' = got
      BY <1>2, <1>14, Zenon
    <2>6. Numbered'
      BY <1>9, <2>2, <2>5, NumbersKept, Zenon
    <2> QED BY <1>1, <1>3, <1>8, <1>9, <2>4, <2>5, <2>6, Zenon DEF NetTypes, NetRecord
  <1> QED BY <1>4, <1>13, <1>14, ZenonT(40)

\* process_rx reads a frame, or stops.
LEMMA ReadStep ==
    ASSUME NetInv, ReadFrame \/ ReadNothing \/ ReadFails
    PROVE  NetInv'
  <1> USE DEF NetInv
  <1>1. /\ net.pc = "rx" /\ ~net.deferred /\ ~net.for_mmds /\ Held = 0
        /\ net \in NetRecord
        /\ tap \in [frames : Seq(Nat), edge : BOOLEAN, arrived : Nat, errors : Nat, missed : BOOLEAN]
        /\ UNCHANGED <<rxq, txq, rx_blocked, tx_blocked, got>>
    BY Zenon DEF ReadFrame, ReadNothing, ReadFails, NetControl, Held, NetTypes, NetRecord
  <1>2. Held \in 0..1 /\ net.frame \in Nat /\ got \in Seq(Nat) /\ tap.frames \in Seq(Nat) /\ tap.arrived \in Nat
    BY <1>1 DEF NetTypes
  <1>3. ASSUME NEW f \in Nat, net' = [net EXCEPT !.pc = "rx_deliver", !.frame = f]
        PROVE  /\ net' \in NetRecord /\ net'.pc = "rx_deliver" /\ net'.frame = f
               /\ ~net'.deferred /\ ~net'.for_mmds
               /\ Held' = IF f # 0 THEN 1 ELSE 0
    <2>1. net' \in NetRecord
      BY <1>1, <1>3, Zenon DEF NetRecord
    <2>2. net'.pc = "rx_deliver" /\ net'.frame = f /\ ~net'.deferred /\ ~net'.for_mmds
      BY <1>1, <1>3, Zenon DEF NetRecord
    <2> QED BY <2>1, <2>2, Zenon DEF Held
  <1>4. ASSUME net'.pc = "rx_deliver", ~net'.deferred, ~net'.for_mmds PROVE NetControl'
    BY <1>1, <1>4, Zenon DEF NetControl, TxWoken
  <1>5. CASE mmds > 0 /\ mmds' = mmds - 1 /\ net' = [net EXCEPT !.pc = "rx_deliver", !.frame = 0] /\ UNCHANGED tap
    <2>1. NumberedFrom(got, 0, 0, tap.frames, tap.arrived)
      BY <1>1, <1>2, FrameMoves DEF Numbered
    <2>2. Numbered' /\ NetControl' /\ net' \in NetRecord
      BY <1>1, <1>3, <1>4, <1>5, <2>1, Zenon DEF Numbered
    <2>3. mmds' \in Nat
      BY <1>5 DEF NetTypes
    <2> QED BY <1>1, <1>5, <2>2, <2>3, Zenon DEF NetTypes, NetRecord
  <1>6. CASE /\ mmds = 0 /\ tap.frames # << >> /\ tap' = [tap EXCEPT !.frames = Tail(tap.frames)]
             /\ net' = [net EXCEPT !.pc = "rx_deliver", !.frame = Head(tap.frames)] /\ UNCHANGED mmds
    <2> DEFINE first == Head(tap.frames)
               rest == Tail(tap.frames)
    <2>1. first \in Nat /\ rest \in Seq(Nat)
      BY <1>2, <1>6, SMTT(30)
    <2>2. first # 0 /\ NumberedFrom(got, 1, first, rest, tap.arrived)
      BY <1>1, <1>2, <1>6, FrameMoves, Zenon DEF Numbered
    <2>3. net' = [net EXCEPT !.pc = "rx_deliver", !.frame = first] /\ tap' = [tap EXCEPT !.frames = rest]
      BY <1>6, Zenon
    <2> HIDE DEF first, rest
    <2>4. /\ tap' \in [frames : Seq(Nat), edge : BOOLEAN, arrived : Nat, errors : Nat, missed : BOOLEAN]
          /\ tap'.frames = rest /\ tap'.arrived = tap.arrived
      BY <1>1, <2>1, <2>3, SMTT(30)
    <2>5. Numbered' /\ NetControl' /\ net' \in NetRecord
      BY <1>1, <1>3, <1>4, <2>1, <2>2, <2>3, <2>4, Zenon DEF Numbered
    <2> QED BY <1>1, <1>6, <2>4, <2>5, Zenon DEF NetTypes, NetRecord
  <1>7. CASE ReadNothing \/ ReadFails
    <2>1. /\ mmds = 0 /\ mmds' = mmds
          /\ net'.pc = "idle" /\ net'.deferred = net.deferred /\ net'.for_mmds = net.for_mmds
          /\ net'.frame = net.frame /\ net' \in NetRecord
      <3>1. CASE ReadNothing
        BY <1>1, <3>1, Zenon DEF ReadNothing, signal_used_rx, NetRecord
      <3>2. CASE ReadFails
        BY <1>1, <3>2, Zenon DEF ReadFails, Goto, NetRecord
      <3> QED BY <1>7, <3>1, <3>2, Zenon
    <2>2. /\ tap' \in [frames : Seq(Nat), edge : BOOLEAN, arrived : Nat, errors : Nat, missed : BOOLEAN]
          /\ tap'.frames = tap.frames /\ tap'.arrived = tap.arrived
      <3>1. CASE ReadNothing
        BY <1>1, <3>1, Zenon DEF ReadNothing
      <3>2. CASE ReadFails
        <4> DEFINE n == tap.errors + 1
        <4>1. tap' = [tap EXCEPT !.errors = n, !.missed = TRUE] /\ n \in Nat
          BY <1>1, <3>2 DEF ReadFails
        <4> HIDE DEF n
        <4> QED BY <1>1, <4>1, Zenon
      <3> QED BY <1>7, <3>1, <3>2, Zenon
    <2>3. Held' = 0
      BY <1>1, <2>1, Zenon DEF Held
    <2>4. NetControl'
      BY <1>1, <2>1 DEF NetControl, TxWoken
    <2>5. Numbered'
      BY <1>1, <2>1, <2>2, <2>3, NumbersKept, Zenon
    <2> QED BY <1>1, <2>1, <2>2, <2>4, <2>5, Zenon DEF NetTypes, NetRecord
  <1> QED BY <1>5, <1>6, <1>7, Zenon DEF ReadFrame

\* process_tx, which holds no frame for the guest and forgets none.
LEMMA TransmitNetStep ==
    ASSUME NetInv, TransmitOne \/ TransmitEmpty \/ TransmitDone
    PROVE  NetInv'
  <1> USE DEF NetInv
  <1> DEFINE Kind == {"tap", "mmds", "bad"}
             TxQueue == [avail : Seq(Kind), notify : BOOLEAN, evt : BOOLEAN]
  <1>1. /\ net \in NetRecord /\ txq \in TxQueue /\ net.pc \in {"tx", "tx_done"}
        /\ net.tx_unsignalled \in Nat
        /\ UNCHANGED <<tap, rxq, rx_blocked, got>>
    BY Zenon DEF TransmitOne, TransmitEmpty, TransmitDone, NetTypes, NetRecord
  <1>2. ASSUME net' \in NetRecord, txq' \in TxQueue, mmds' \in Nat, tx_blocked' \in BOOLEAN,
               net'.deferred = net.deferred, net'.frame = net.frame,
               net'.pc \in {"tx", "tx_done", "idle", "rx"},
               net'.pc = "rx" => ~net.deferred,
               net'.for_mmds => ~net.deferred /\ net'.pc \in {"tx", "tx_done"},
               net'.pc # "tx" => TxWoken',
               mmds' > 0 => net.deferred \/ net'.for_mmds \/ net'.pc = "rx"
        PROVE  NetInv'
    <2>1. NetControl'
      BY <1>1, <1>2, Zenon DEF NetControl, RxWoken
    <2>2. Held' = Held
      BY <1>1, <1>2, Zenon DEF Held
    <2>3. Numbered'
      BY <1>1, <1>2, <2>2, NumbersKept, Zenon
    <2> QED BY <1>1, <1>2, <2>1, <2>3, Zenon DEF NetTypes, NetRecord
  <1>3. ASSUME NEW k \in Nat, NEW m \in BOOLEAN,
               net' = [net EXCEPT !.tx_unsignalled = k, !.for_mmds = m]
        PROVE  /\ net' \in NetRecord /\ net'.pc = net.pc /\ net'.deferred = net.deferred
               /\ net'.frame = net.frame /\ net'.for_mmds = m
    BY <1>1, <1>3, Zenon DEF NetRecord
  <1>4. CASE TransmitEmpty
    <2>1. /\ net.pc = "tx" /\ txq.avail = << >> /\ txq' = [txq EXCEPT !.notify = TRUE]
          /\ net' = [net EXCEPT !.pc = "tx_done"] /\ UNCHANGED <<mmds, tx_blocked>>
      BY <1>4, Zenon DEF TransmitEmpty, EnableNotification, Goto
    <2>2. txq' \in TxQueue /\ txq'.notify /\ txq'.avail = << >>
      BY <1>1, <2>1, Zenon
    <2>3. /\ net' \in NetRecord /\ net'.pc = "tx_done" /\ net'.deferred = net.deferred
          /\ net'.frame = net.frame /\ net'.for_mmds = net.for_mmds
      BY <1>1, <2>1, Zenon DEF NetRecord
    <2> QED BY <1>2, <2>1, <2>2, <2>3, Zenon DEF NetControl, NetTypes, TxWoken
  <1>5. CASE TransmitDone
    <2> DEFINE pc == IF net.for_mmds THEN "rx" ELSE "idle"
    <2>1. /\ net.pc = "tx_done" /\ UNCHANGED <<mmds, txq, tx_blocked>>
          /\ net' = [net EXCEPT !.pc = pc, !.for_mmds = FALSE, !.tx_unsignalled = 0]
      BY <1>5, Zenon DEF TransmitDone
    <2>2. pc \in {"rx", "idle"} /\ (pc = "rx" <=> net.for_mmds)
      BY <1>1, Zenon DEF NetRecord
    <2> HIDE DEF pc
    <2>3. /\ net' \in NetRecord /\ net'.pc = pc /\ net'.deferred = net.deferred
          /\ net'.frame = net.frame /\ ~net'.for_mmds
      BY <1>1, <2>1, <2>2, Zenon DEF NetRecord
    <2>4. TxWoken'
      BY <2>1, Zenon DEF NetControl, TxWoken
    <2> QED BY <1>1, <1>2, <2>1, <2>2, <2>3, <2>4, Zenon DEF NetControl, NetTypes
  <1>6. CASE TransmitOne
    <2> DEFINE kind == Head(txq.avail)
               rest == Tail(txq.avail)
               count == net.tx_unsignalled + 1
               asked == net.for_mmds \/ (kind = "mmds" /\ WantsRx)
    <2>1. net.pc = "tx" /\ txq.avail # << >>
      BY <1>6, Zenon DEF TransmitOne
    <2>2. kind \in Kind /\ rest \in Seq(Kind) /\ count \in Nat /\ asked \in BOOLEAN
      <3>1. txq.avail \in Seq(Kind)
        BY <1>1, Zenon
      <3> HIDE DEF Kind
      <3> QED BY <1>1, <2>1, <3>1 DEF NetRecord
    <2>3. \/ /\ net' = [net EXCEPT !.tx_unsignalled = count]
             /\ txq' = [txq EXCEPT !.avail = rest] /\ UNCHANGED <<mmds, tx_blocked>>
          \/ \E r \in ConsumeOp(tx_blocked) :
               /\ tx_blocked' = r.blocked
               /\ \/ ~r.ok /\ net' = [net EXCEPT !.pc = "tx_done"] /\ UNCHANGED <<txq, mmds>>
                  \/ /\ txq' = [txq EXCEPT !.avail = rest]
                     /\ mmds' = IF kind = "mmds" THEN mmds + 1 ELSE mmds
                     /\ net' = [net EXCEPT !.tx_unsignalled = count, !.for_mmds = asked]
      BY <1>6, Zenon DEF TransmitOne, Goto
    <2>4. asked => ~net.deferred
      BY Zenon DEF NetControl, WantsRx
    <2>5. kind = "mmds" => asked \/ net.deferred
      BY Zenon DEF WantsRx
    <2>6. net.for_mmds => asked
      BY Zenon
    <2> HIDE DEF kind, rest, count, asked
    <2>7. txq' = [txq EXCEPT !.avail = rest] => txq' \in TxQueue
      BY <1>1, <2>2, Zenon
    <2>8. CASE /\ net' = [net EXCEPT !.tx_unsignalled = count]
               /\ txq' = [txq EXCEPT !.avail = rest] /\ UNCHANGED <<mmds, tx_blocked>>
      <3>1. /\ net' \in NetRecord /\ net'.pc = net.pc /\ net'.deferred = net.deferred
            /\ net'.frame = net.frame /\ net'.for_mmds = net.for_mmds
        BY <1>1, <2>2, <2>8, Zenon DEF NetRecord
      <3> QED BY <1>2, <2>1, <2>7, <2>8, <3>1, Zenon DEF NetControl, NetTypes
    <2>9. ASSUME NEW r \in ConsumeOp(tx_blocked), tx_blocked' = r.blocked, ~r.ok,
                 net' = [net EXCEPT !.pc = "tx_done"], UNCHANGED <<txq, mmds>>
          PROVE  NetInv'
      <3>1. r.blocked \in BOOLEAN /\ r.blocked
        BY <2>9, ConsumeOpType, Zenon DEF NetTypes
      <3>2. /\ net' \in NetRecord /\ net'.pc = "tx_done" /\ net'.deferred = net.deferred
            /\ net'.frame = net.frame /\ net'.for_mmds = net.for_mmds
        BY <1>1, <2>9, Zenon DEF NetRecord
      <3>3. TxWoken' /\ tx_blocked' \in BOOLEAN
        BY <2>9, <3>1, Zenon DEF TxWoken
      <3> QED BY <1>1, <1>2, <2>1, <2>9, <3>2, <3>3, Zenon DEF NetControl, NetTypes
    <2>10. ASSUME NEW r \in ConsumeOp(tx_blocked), tx_blocked' = r.blocked,
                  txq' = [txq EXCEPT !.avail = rest], mmds' = IF kind = "mmds" THEN mmds + 1 ELSE mmds,
                  net' = [net EXCEPT !.tx_unsignalled = count, !.for_mmds = asked]
           PROVE  NetInv'
      <3>1. tx_blocked' \in BOOLEAN
        BY <2>10, ConsumeOpType, SMTT(30) DEF NetTypes
      <3>2. /\ net' \in NetRecord /\ net'.pc = "tx" /\ net'.deferred = net.deferred
            /\ net'.frame = net.frame /\ net'.for_mmds = asked
        BY <1>3, <2>1, <2>2, <2>10, Zenon
      <3>3. mmds' \in Nat /\ (mmds' > 0 => mmds > 0 \/ kind = "mmds")
        BY <2>10, SMTT(30) DEF NetTypes
      <3>4. mmds' > 0 => net.deferred \/ asked
        BY <2>1, <2>5, <2>6, <3>3, Zenon DEF NetControl
      <3> QED BY <1>2, <2>4, <2>7, <2>10, <3>1, <3>2, <3>3, <3>4, Zenon
    <2> QED BY <2>3, <2>8, <2>9, <2>10, Zenon
  <1> QED BY <1>4, <1>5, <1>6

\* What a concatenation is.
LEMMA Concatenated ==
    ASSUME NEW x \in Seq(Nat), NEW y \in Seq(Nat)
    PROVE  /\ x \o y \in Seq(Nat) /\ Len(x \o y) = Len(x) + Len(y)
           /\ \A i \in 1..Len(x) : (x \o y)[i] = x[i]
           /\ \A i \in 1..Len(y) : (x \o y)[Len(x) + i] = y[i]
           /\ x \o y = [i \in 1..(Len(x) + Len(y)) |-> (x \o y)[i]]
  <1>1. x \o y \in Seq(Nat)
    OBVIOUS
  <1>2. Len(x \o y) = Len(x) + Len(y)
    OBVIOUS
  <1>3. \A i \in 1..Len(x) : (x \o y)[i] = x[i]
    OBVIOUS
  <1>4. \A i \in 1..Len(y) : (x \o y)[Len(x) + i] = y[i]
    OBVIOUS
  <1>5. x \o y = [i \in 1..(Len(x) + Len(y)) |-> (x \o y)[i]]
    <2> DEFINE z == x \o y
    <2>1. z \in Seq(Nat) /\ Len(z) = Len(x) + Len(y)
      BY <1>1, <1>2, Zenon
    <2> HIDE DEF z
    <2>2. z = [i \in 1..Len(z) |-> z[i]]
      BY <2>1
    <2> QED BY <2>1, <2>2, Zenon DEF z
  <1> QED BY <1>1, <1>2, <1>3, <1>4, <1>5, Zenon

\* Numbers that go through are the sequence of all numbers.
InHandIf(h, fr) == IF h = 1 THEN <<fr>> ELSE << >>
LEMMA AllInOrder ==
    ASSUME NEW g \in Seq(Nat), NEW h \in 0..1, NEW fr \in Nat, NEW f \in Seq(Nat), NEW a \in Nat,
           NumberedFrom(g, h, fr, f, a)
    PROVE  g \o InHandIf(h, fr) \o f = [i \in 1..a |-> i]
  <1> DEFINE hand == InHandIf(h, fr)
  <1>1. hand \in Seq(Nat) /\ Len(hand) = h /\ (h = 1 => hand[1] = fr)
    <2>1. CASE h = 1
      BY <2>1 DEF InHandIf
    <2>2. CASE h = 0
      BY <2>2 DEF InHandIf
    <2> QED BY <2>1, <2>2
  <1> HIDE DEF hand
  <1> DEFINE s == g \o hand
             t == s \o f
             lg == Len(g)
             lf == Len(f)
  <1>2. lg \in Nat /\ lf \in Nat /\ lg + h + lf = a
    BY DEF NumberedFrom
  <1>3. /\ s \in Seq(Nat) /\ Len(s) = Len(g) + Len(hand)
        /\ \A i \in 1..Len(g) : s[i] = g[i]
        /\ \A i \in 1..Len(hand) : s[Len(g) + i] = hand[i]
    BY <1>1, Concatenated, Zenon
  <1>4. \A i \in 1..lg : g[i] = i
    BY Zenon DEF NumberedFrom
  <1>5. h = 1 => fr = lg + 1
    BY Zenon DEF NumberedFrom
  <1>6. \A i \in 1..lf : f[i] = lg + h + i
    BY Zenon DEF NumberedFrom
  <1> HIDE DEF s
  <1>7. /\ t \in Seq(Nat) /\ Len(t) = Len(s) + Len(f)
        /\ \A i \in 1..Len(s) : t[i] = s[i]
        /\ \A i \in 1..Len(f) : t[Len(s) + i] = f[i]
        /\ t = [i \in 1..(Len(s) + Len(f)) |-> t[i]]
    BY <1>3, Concatenated, Zenon
  <1>8. Len(s) = lg + h /\ Len(f) = lf /\ Len(g) = lg /\ Len(hand) = h
    BY <1>1, <1>3, Zenon
  <1> HIDE DEF t, lg, lf
  <1>9. ASSUME NEW i \in 1..(lg + h) PROVE s[i] = i
    <2>1. CASE i \in 1..lg
      BY <1>3, <1>4, <1>8, <2>1, Zenon
    <2>2. CASE h = 1 /\ i = lg + 1
      <3>1. s[lg + 1] = hand[1]
        BY <1>3, <1>8, <2>2
      <3> QED BY <1>1, <1>5, <2>2, <3>1, Zenon
    <2> QED BY <1>2, <2>1, <2>2
  <1>10. ASSUME NEW i \in 1..a PROVE t[i] = i
    <2>1. CASE i \in 1..(lg + h)
      BY <1>7, <1>8, <1>9, <2>1, Zenon
    <2>2. CASE i \in (lg + h + 1)..(lg + h + lf)
      <3> DEFINE j == i - (lg + h)
      <3>1. j \in 1..lf /\ i = lg + h + j
        BY <1>2, <2>2
      <3> HIDE DEF j
      <3>2. t[lg + h + j] = f[j]
        BY <1>7, <1>8, <3>1, Zenon
      <3> QED BY <1>6, <3>1, <3>2, Zenon
    <2> QED BY <1>2, <2>1, <2>2
  <1>11. t = [i \in 1..a |-> t[i]]
    BY <1>2, <1>7, <1>8, Zenon
  <1>12. t = [i \in 1..a |-> i]
    BY <1>10, <1>11, Zenon
  <1> QED BY <1>12, Zenon DEF t, s, hand

\* For any traffic of the tap, the guest and the MMDS, any limits and any errors
\* of the tap, the network device gets frames through: in order, once, and
\* nothing waits without an event to come but a frame that exhausted a queue of
\* bad chains.
THEOREM NetServed == NetSpec => []NetIsServed
  <1>1. NetInit => NetInv
    <2> SUFFICES ASSUME NetInit PROVE NetInv
      OBVIOUS
    <2>1. /\ net.pc = "idle" /\ net.deferred = FALSE /\ net.for_mmds = FALSE /\ net.frame = 0
          /\ net \in NetRecord
      BY Zenon DEF NetInit, NetRecord
    <2>2. /\ tap \in [frames : Seq(Nat), edge : BOOLEAN, arrived : Nat, errors : Nat, missed : BOOLEAN]
          /\ tap.frames = << >> /\ tap.arrived = 0
      BY DEF NetInit
    <2>3. rxq \in [avail : Nat, notify : BOOLEAN, evt : BOOLEAN, gave_up : BOOLEAN]
      BY Zenon DEF NetInit
    <2>4. txq \in [avail : Seq({"tap", "mmds", "bad"}), notify : BOOLEAN, evt : BOOLEAN] /\ TxWoken
      BY DEF NetInit, TxWoken
    <2>5. mmds = 0 /\ got = << >> /\ rx_blocked = FALSE /\ tx_blocked = FALSE
      BY Zenon DEF NetInit
    <2>6. NetTypes
      BY <2>1, <2>2, <2>3, <2>4, <2>5, Zenon DEF NetTypes, NetRecord
    <2>7. NetControl
      BY <2>1, <2>4, <2>5 DEF NetControl
    <2>8. Held = 0
      BY <2>1, Zenon DEF Held
    <2>9. Numbered
      BY <2>1, <2>2, <2>5, <2>8 DEF Numbered, NumberedFrom
    <2> QED BY <2>6, <2>7, <2>9, Zenon DEF NetInv
  <1>2. NetInv /\ [NetNext]_vars => NetInv'
    <2> SUFFICES ASSUME NetInv, [NetNext]_vars PROVE NetInv'
      OBVIOUS
    <2>1. CASE handle_deferred_frame \/ process_rx
      BY <2>1, DeliverStep, ZenonT(40) DEF handle_deferred_frame, process_rx
    <2>2. CASE UNCHANGED vars
      BY <2>2 DEF vars, NetInv, NetTypes, NetControl, Numbered, Held, RxWoken, TxWoken
    <2> QED BY <2>1, <2>2, OutsideStep, EventStep, ReadStep, TransmitNetStep, Zenon DEF NetNext, Handlers
  <1>3. NetInv => NetIsServed
    <2> SUFFICES ASSUME NetInv PROVE NetIsServed
      BY Zenon
    <2>1. FramesInOrder
      <3>1. Held \in 0..1 /\ InHand = InHandIf(Held, net.frame)
        BY DEF Held, InHand, InHandIf
      <3>2. net.frame \in Nat /\ got \in Seq(Nat) /\ tap.frames \in Seq(Nat) /\ tap.arrived \in Nat
        BY Zenon DEF NetInv, NetTypes
      <3>3. NumberedFrom(got, Held, net.frame, tap.frames, tap.arrived)
        BY Zenon DEF NetInv, Numbered
      <3>4. got \o InHandIf(Held, net.frame) \o tap.frames = [i \in 1..tap.arrived |-> i]
        BY <3>1, <3>2, <3>3, AllInOrder, Zenon
      <3> QED BY <3>1, <3>4, Zenon DEF FramesInOrder
    <2>2. DeferredIsWoken /\ TxIsWoken /\ MmdsIsServed
      BY Zenon DEF NetInv, NetControl, NetTypes, DeferredIsWoken, TxIsWoken, MmdsIsServed, Idle, RxWoken, TxWoken
    <2> QED BY <2>1, <2>2, Zenon DEF NetIsServed
  <1> QED BY <1>1, <1>2, <1>3, PTL DEF NetSpec

-----------------------------------------------------------------------------
(* The TX buffer of a vsock connection is a queue, for every size and      *)
(* every width of its offsets that is a multiple of the size.              *)
(*                                                                         *)
(* The offsets are compared modulo U32 and used modulo Size.  The          *)
(* argument is that a byte's place depends on the offset modulo Size only, *)
(* so that the wrap of an offset never moves a byte, and that the places a *)
(* push writes are those which follow the content, wherever the slice ends.*)

LEMMA SameSeq ==
    ASSUME NEW S, NEW s \in Seq(S), NEW t \in Seq(S), Len(s) = Len(t),
           \A i \in 1..Len(s) : s[i] = t[i]
    PROVE  s = t
  OBVIOUS

LEMMA Joined ==
    ASSUME NEW S, NEW s \in Seq(S), NEW t \in Seq(S)
    PROVE  /\ s \o t \in Seq(S) /\ Len(s \o t) = Len(s) + Len(t)
           /\ \A i \in 1..(Len(s) + Len(t)) :
                 (s \o t)[i] = IF i <= Len(s) THEN s[i] ELSE t[i - Len(s)]
  OBVIOUS

LEMMA JoinedEmpty ==
    ASSUME NEW S, NEW s \in Seq(S)
    PROVE  s \o << >> = s /\ << >> \o s = s
  OBVIOUS

\* The inductive invariant.
TxBufInv == TxBufTypeOK /\ len \in 0..Size

----------------------------------------------------------------------------
(* Offsets.                                                                *)

\* Quotient and remainder are unique.
LEMMA ModUnique ==
    ASSUME NEW a \in Nat, NEW q \in Int, NEW r \in 0..(Size - 1),
           a = Size * q + r
    PROVE  a % Size = r
  <1> DEFINE p == a \div Size
             s == a % Size
  <1>1. Size \in Nat \ {0}
    BY TxBufAssumption, Zenon
  <1>2. p \in Int /\ s \in 0..(Size - 1) /\ a = Size * p + s
    BY <1>1
  <1> HIDE DEF p, s
  <1>3. ASSUME NEW x \in Int, NEW y \in Int, x < y
        PROVE  Size * y >= Size * x + Size
    <2>1. Size * (y - x - 1) >= 0
      BY <1>1, <1>3
    <2>2. Size * (y - x - 1) = Size * y - Size * x - Size
      BY <1>1
    <2>3. Size * y \in Int /\ Size * x \in Int
      BY <1>1
    <2> QED BY <1>1, <2>1, <2>2, <2>3
  <1>4. Size * p \in Int /\ Size * q \in Int
    BY <1>1, <1>2
  <1>5. ~(p < q)
    <2> SUFFICES ASSUME p < q PROVE FALSE
      BY Zenon
    <2>1. Size * q >= Size * p + Size
      BY <1>2, <1>3, Zenon
    <2> QED BY <2>1, <1>1, <1>2, <1>4
  <1>6. ~(q < p)
    <2> SUFFICES ASSUME q < p PROVE FALSE
      BY Zenon
    <2>1. Size * p >= Size * q + Size
      BY <1>2, <1>3, Zenon
    <2> QED BY <2>1, <1>1, <1>2, <1>4
  <1>7. p = q
    BY <1>2, <1>5, <1>6
  <1>8. r = s
    BY <1>2, <1>4, <1>7
  <1> QED BY <1>8, Zenon DEF s

\* The place that is j bytes behind an offset's: the slice ends after Size.
LEMMA ModAdd ==
    ASSUME NEW a \in Nat, NEW j \in 0..Size
    PROVE  /\ a % Size \in 0..(Size - 1)
           /\ (a + j) % Size = IF (a % Size) + j < Size THEN (a % Size) + j ELSE (a % Size) + j - Size
  <1> DEFINE p == a \div Size
             s == a % Size
  <1>1. Size \in Nat \ {0}
    BY TxBufAssumption, Zenon
  <1>2. p \in Int /\ s \in 0..(Size - 1) /\ a = Size * p + s
    BY <1>1
  <1>3. a + j \in Nat
    BY <1>1
  <1> HIDE DEF p, s
  <1>4. Size * (p + 1) = Size * p + Size /\ Size * p \in Int
    BY <1>1, <1>2
  <1>5. CASE s + j < Size
    <2>1. s + j \in 0..(Size - 1) /\ a + j = Size * p + (s + j)
      BY <1>1, <1>2, <1>4, <1>5
    <2>2. (a + j) % Size = s + j
      BY <1>2, <1>3, <2>1, ModUnique, Zenon
    <2> QED BY <1>2, <1>5, <2>2, Zenon DEF s
  <1>6. CASE ~(s + j < Size)
    <2>1. s + j - Size \in 0..(Size - 1) /\ a + j = Size * (p + 1) + (s + j - Size)
      BY <1>1, <1>2, <1>4, <1>6
    <2>2. (a + j) % Size = s + j - Size
      BY <1>2, <1>3, <2>1, ModUnique
    <2> QED BY <1>2, <1>6, <2>2, Zenon DEF s
  <1> QED BY <1>5, <1>6, Zenon

\* Wrapping an offset keeps its place.
LEMMA ModWrap ==
    ASSUME NEW a \in Nat
    PROVE  (a + U32) % Size = a % Size
  <1> DEFINE p == a \div Size
             s == a % Size
  <1>1. Size \in Nat \ {0} /\ U32 \in Nat
    BY TxBufAssumption, Zenon
  <1>2. PICK k \in Nat : U32 = Size * k
    <2>1. U32 % Size = 0
      BY TxBufAssumption, Zenon
    <2>2. U32 \div Size \in Nat /\ U32 = Size * (U32 \div Size) + (U32 % Size)
      BY <1>1
    <2>3. U32 = Size * (U32 \div Size)
      <3> DEFINE q == U32 \div Size
      <3>1. q \in Nat /\ U32 = (Size * q) + 0
        BY <2>1, <2>2, Zenon
      <3> HIDE DEF q
      <3> QED BY <1>1, <3>1 DEF q
    <2> QED BY <2>2, <2>3, Zenon
  <1>3. p \in Int /\ s \in 0..(Size - 1) /\ a = Size * p + s
    BY <1>1
  <1> HIDE DEF p, s
  <1>4. Size * (p + k) = Size * p + Size * k
    BY <1>1, <1>2, <1>3
  <1>5. a + U32 = Size * (p + k) + s /\ a + U32 \in Nat /\ p + k \in Int
    BY <1>1, <1>2, <1>3, <1>4
  <1>6. (a + U32) % Size = s
    BY <1>3, <1>5, ModUnique, Zenon
  <1> QED BY <1>6, Zenon DEF s

\* The length is the distance from tail to head, forward.
LEMMA Distance ==
    ASSUME NEW h \in 0..(U32 - 1), NEW t \in 0..(U32 - 1)
    PROVE  (h + U32 - t) % U32 = IF h >= t THEN h - t ELSE h + U32 - t
  BY TxBufAssumption

\* Advancing an offset.
LEMMA Advance ==
    ASSUME NEW h \in 0..(U32 - 1), NEW n \in 0..Size
    PROVE  /\ (h + n) % U32 \in 0..(U32 - 1)
           /\ (h + n) % U32 = IF h + n < U32 THEN h + n ELSE h + n - U32
  BY TxBufAssumption

----------------------------------------------------------------------------
(* Places.                                                                 *)

\* The place j bytes behind the head's.
FromHead(j) == IF head_ofs + j < Size THEN head_ofs + j ELSE head_ofs + j - Size

\* Seen from the head, the content lies in the last len places of one round.
LEMMA ContentPlaces ==
    ASSUME TxBufInv
    PROVE  /\ \A m \in 0..(Size - 1) : FromHead(m) \in 0..(Size - 1)
           /\ \A m \in 0..(len - 1) : (tail + m) % Size = FromHead(m - len + Size)
           /\ \A m \in 0..(Size - len - 1) : (tail + len + m) % Size = FromHead(m)
  <1>1. /\ Size \in Nat \ {0} /\ U32 \in Nat /\ U32 > Size
        /\ head \in 0..(U32 - 1) /\ tail \in 0..(U32 - 1) /\ len \in 0..Size
    BY TxBufAssumption, Zenon DEF TxBufInv, TxBufTypeOK
  <1>2. head_ofs \in 0..(Size - 1) /\ head_ofs = head % Size
    BY <1>1 DEF head_ofs
  <1>3. tail + len = head \/ tail + len = head + U32
    BY <1>1, Distance DEF len
  <1> HIDE DEF len, head_ofs
  <1>4. tail + len \in Nat /\ (tail + len) % Size = head_ofs
    <2>1. tail + len \in Nat
      BY <1>1
    <2>2. CASE tail + len = head
      BY <1>2, <2>1, <2>2, Zenon
    <2>3. CASE tail + len = head + U32
      <3>1. head \in Nat
        BY <1>1
      <3>2. (head + U32) % Size = head % Size
        BY <3>1, ModWrap, Zenon
      <3> QED BY <1>2, <2>1, <2>3, <3>2, Zenon
    <2> QED BY <1>3, <2>1, <2>2, <2>3, Zenon
  <1> DEFINE e == tail + len
  <1> HIDE DEF e
  <1>5. e \in Nat /\ e % Size = head_ofs
    BY <1>4, Zenon DEF e
  <1>6. \A j \in 0..(Size - 1) : (e + j) % Size = FromHead(j)
    <2> TAKE j \in 0..(Size - 1)
    <2>1. j \in 0..Size
      BY <1>1
    <2> QED BY <1>5, <2>1, ModAdd, Zenon DEF FromHead
  <1>7. \A m \in 0..(Size - 1) : FromHead(m) \in 0..(Size - 1)
    BY <1>1, <1>2 DEF FromHead
  <1>8. ASSUME NEW m \in 0..(len - 1)
        PROVE  (tail + m) % Size = FromHead(m - len + Size)
    <2>1. /\ m - len + Size \in 0..(Size - 1) /\ tail + m \in Nat
          /\ (tail + m) + Size = e + (m - len + Size)
      BY <1>1 DEF e
    <2> DEFINE a == tail + m
    <2> HIDE DEF a
    <2>2. a \in Nat /\ Size \in 0..Size
      BY <1>1, <2>1 DEF a
    <2>3. a % Size \in 0..(Size - 1)
          /\ (a + Size) % Size
               = IF (a % Size) + Size < Size THEN (a % Size) + Size ELSE (a % Size) + Size - Size
      BY <2>2, ModAdd, Zenon
    <2>4. (a + Size) % Size = a % Size
      BY <1>1, <2>3
    <2>5. a + Size = e + (m - len + Size)
      BY <2>1, Zenon DEF a
    <2>6. (e + (m - len + Size)) % Size = FromHead(m - len + Size)
      BY <1>6, <2>1, Zenon
    <2> QED BY <2>4, <2>5, <2>6, Zenon DEF a
  <1>9. ASSUME NEW m \in 0..(Size - len - 1)
        PROVE  (tail + len + m) % Size = FromHead(m)
    <2>1. m \in 0..(Size - 1)
      BY <1>1
    <2> QED BY <1>6, <2>1, Zenon DEF e
  <1> QED BY <1>7, <1>8, <1>9, Zenon

\* What push copies: the slice in the places that follow the content, in one
\* part or two, and nothing elsewhere.
LEMMA CopiedPlaces ==
    ASSUME TxBufTypeOK, NEW n \in 0..Size, NEW src \in [1..n -> Byte]
    PROVE  /\ Copied(src) \in [0..(Size - 1) -> Byte]
           /\ \A j \in 0..(n - 1) : Copied(src)[FromHead(j)] = src[j + 1]
           /\ \A j \in n..(Size - 1) : Copied(src)[FromHead(j)] = data[FromHead(j)]
  <1>1. Size \in Nat \ {0} /\ head \in Nat /\ data \in [0..(Size - 1) -> Byte] /\ n \in Nat
    BY TxBufAssumption DEF TxBufTypeOK
  <1>2. head_ofs \in 0..(Size - 1)
    BY <1>1 DEF head_ofs
  <1>3. Len(src) = n
    BY <1>1
  <1> HIDE DEF head_ofs
  <1> DEFINE k == Minimum(Size - head_ofs, n)
             C == [i \in 0..(Size - 1) |->
                     IF i >= head_ofs /\ i < head_ofs + k THEN src[i - head_ofs + 1]
                     ELSE IF k < n /\ i < n - k THEN src[k + i + 1]
                     ELSE data[i]]
  <1>4. Copied(src) = C
    BY <1>3, Zenon DEF Copied
  <1>5. k \in 0..n /\ k <= Size - head_ofs /\ (k = n \/ k = Size - head_ofs)
    BY <1>1, <1>2 DEF Minimum
  <1> HIDE DEF k
  <1>6. C \in [0..(Size - 1) -> Byte]
    <2> SUFFICES ASSUME NEW i \in 0..(Size - 1)
                 PROVE  (IF i >= head_ofs /\ i < head_ofs + k THEN src[i - head_ofs + 1]
                         ELSE IF k < n /\ i < n - k THEN src[k + i + 1]
                         ELSE data[i]) \in Byte
      BY Zenon
    <2>1. i >= head_ofs /\ i < head_ofs + k => i - head_ofs + 1 \in 1..n
      BY <1>1, <1>2, <1>5
    <2>2. k < n /\ i < n - k => k + i + 1 \in 1..n
      BY <1>1, <1>2, <1>5
    <2> QED BY <1>1, <2>1, <2>2, Zenon
  <1>7. ASSUME NEW j \in 0..(n - 1) PROVE C[FromHead(j)] = src[j + 1]
    <2>1. CASE head_ofs + j < Size
      <3>1. FromHead(j) = head_ofs + j /\ head_ofs + j \in 0..(Size - 1)
        BY <1>1, <1>2, <2>1, SMTT(30) DEF FromHead
      <3>2. j < k
        BY <1>1, <1>2, <1>5, <2>1, SMTT(30)
      <3> DEFINE i == head_ofs + j
      <3>3. i \in 0..(Size - 1) /\ i >= head_ofs /\ i < head_ofs + k /\ i - head_ofs + 1 = j + 1
        BY <1>1, <1>2, <1>5, <3>1, <3>2
      <3> HIDE DEF i
      <3>4. C[i] = src[i - head_ofs + 1]
        BY <3>3, Zenon
      <3> QED BY <3>1, <3>3, <3>4, Zenon DEF i
    <2>2. CASE ~(head_ofs + j < Size)
      <3>1. FromHead(j) = head_ofs + j - Size /\ head_ofs + j - Size \in 0..(Size - 1)
        BY <1>1, <1>2, <2>2 DEF FromHead
      <3>2. k = Size - head_ofs /\ k < n /\ head_ofs + j - Size < n - k
        BY <1>1, <1>2, <1>5, <2>2
      <3>3. head_ofs + j - Size < head_ofs
        BY <1>1, <1>2
      <3>4. C[head_ofs + j - Size] = src[k + (head_ofs + j - Size) + 1]
        BY <1>2, <3>1, <3>2, <3>3
      <3>5. k + (head_ofs + j - Size) + 1 = j + 1
        BY <1>1, <1>2, <3>2
      <3> QED BY <3>1, <3>4, <3>5, Zenon
    <2> QED BY <2>1, <2>2, Zenon
  <1>8. ASSUME NEW j \in n..(Size - 1) PROVE C[FromHead(j)] = data[FromHead(j)]
    <2> DEFINE i == FromHead(j)
    <2>1. i \in 0..(Size - 1)
      BY <1>1, <1>2 DEF FromHead
    <2>2. ~(i >= head_ofs /\ i < head_ofs + k)
      BY <1>1, <1>2, <1>5 DEF FromHead
    <2>3. ~(k < n /\ i < n - k)
      BY <1>1, <1>2, <1>5 DEF FromHead
    <2> HIDE DEF i
    <2>4. C[i] = data[i]
      BY <2>1, <2>2, <2>3, Zenon
    <2> QED BY <2>4, Zenon DEF i
  <1> QED BY <1>4, <1>6, <1>7, <1>8, Zenon

----------------------------------------------------------------------------
(* The operations.                                                         *)

\* The content is a sequence of bytes.
LEMMA ContentSeq ==
    ASSUME TxBufInv
    PROVE  /\ Content \in Seq(Byte) /\ Len(Content) = len
           /\ \A i \in 1..len : Content[i] = data[(tail + i - 1) % Size]
  <1>1. /\ Size \in Nat \ {0} /\ data \in [0..(Size - 1) -> Byte]
        /\ tail \in Nat /\ len \in Nat
    BY TxBufAssumption DEF TxBufInv, TxBufTypeOK
  <1> HIDE DEF len
  <1>2. \A i \in 1..len : data[(tail + i - 1) % Size] \in Byte
    <2> TAKE i \in 1..len
    <2>1. tail + i - 1 \in Nat
      BY <1>1
    <2>2. (tail + i - 1) % Size \in 0..(Size - 1)
      BY <1>1, <2>1
    <2> QED BY <1>1, <2>2, Zenon
  <1>3. Content \in [1..len -> Byte]
    BY <1>2, Zenon DEF Content
  <1> QED BY <1>1, <1>3 DEF Content

\* A push of a slice that fits puts it behind the content.
LEMMA PushStep ==
    ASSUME TxBufInv, NEW n \in 1..MaxPush, NEW src \in [1..n -> Byte], push(src)
    PROVE  TxBufInv' /\ QueueStep
  <1>1. /\ Size \in Nat \ {0} /\ U32 \in Nat /\ U32 > Size /\ MaxPush \in Nat
        /\ head \in 0..(U32 - 1) /\ tail \in 0..(U32 - 1) /\ len \in 0..Size
    BY TxBufAssumption, Zenon DEF TxBufInv, TxBufTypeOK
  <1>2. Len(src) = n /\ n \in Nat /\ src \in Seq(Byte)
    BY <1>1
  <1>3. Content \in Seq(Byte) /\ Len(Content) = len
    BY ContentSeq, Zenon
  <1>4. CASE len + Len(src) > Size
    <2>1. pushed' = <<>> /\ flushed' = <<>> /\ UNCHANGED <<data, head, tail>>
      BY <1>4, Zenon DEF push
    <2>2. len' = len /\ Content' = Content
      BY <2>1, Zenon DEF len, Content
    <2>3. TxBufInv'
      BY <2>1, <2>2, Zenon DEF TxBufInv, TxBufTypeOK
    <2>4. Content \o <<>> = Content /\ <<>> \o Content = Content
      BY <1>3, JoinedEmpty, Zenon
    <2> QED BY <1>1, <1>3, <2>1, <2>2, <2>3, <2>4 DEF QueueStep
  <1>5. CASE ~(len + Len(src) > Size)
    <2>1. /\ data' = Copied(src) /\ head' = (head + n) % U32 /\ tail' = tail
          /\ pushed' = src /\ flushed' = <<>> /\ n <= Size - len
      BY <1>1, <1>2, <1>5 DEF push
    <2>2. n \in 0..Size
      BY <1>1, <1>2, <2>1
    <2>3. /\ data' \in [0..(Size - 1) -> Byte]
          /\ \A j \in 0..(n - 1) : data'[FromHead(j)] = src[j + 1]
          /\ \A j \in n..(Size - 1) : data'[FromHead(j)] = data[FromHead(j)]
      BY <2>1, <2>2, CopiedPlaces, Zenon DEF TxBufInv
    <2>4. head' \in 0..(U32 - 1)
          /\ head' = IF head + n < U32 THEN head + n ELSE head + n - U32
      BY <1>1, <2>1, <2>2, Advance, Zenon
    <2>5. len = IF head >= tail THEN head - tail ELSE head + U32 - tail
      BY <1>1, Distance, Zenon DEF len
    <2>6. len' = IF head' >= tail' THEN head' - tail' ELSE head' + U32 - tail'
      BY <1>1, <2>1, <2>4, Distance, Zenon DEF len
    <2> HIDE DEF len
    <2>7. len' = len + n
      BY <1>1, <1>2, <2>1, <2>4, <2>5, <2>6, SMTT(30)
    <2>8. TxBufInv'
      BY <1>1, <1>2, <2>1, <2>3, <2>4, <2>7, SMTT(30) DEF TxBufInv, TxBufTypeOK
    <2>9. /\ Content' \in Seq(Byte) /\ Len(Content') = len + n
          /\ \A i \in 1..(len + n) : Content'[i] = data'[(tail + i - 1) % Size]
      <3>1. \A i \in 1..len' : (tail + i - 1) % Size \in 0..(Size - 1)
        BY <1>1, <2>8 DEF TxBufInv
      <3>2. Content' = [i \in 1..(len + n) |-> data'[(tail + i - 1) % Size]]
        BY <2>1, <2>7, Zenon DEF Content
      <3>3. Content' \in [1..(len + n) -> Byte]
        BY <2>3, <2>7, <3>1, <3>2, Zenon
      <3>4. len + n \in Nat
        BY <1>1, <1>2
      <3>5. Content' \in Seq(Byte)
        BY <3>3, <3>4
      <3>6. Len(Content') = len + n
        BY <3>2, <3>4
      <3> QED BY <3>2, <3>5, <3>6, Zenon
    <2>10. ASSUME NEW i \in 1..len PROVE Content'[i] = Content[i]
      <3> DEFINE m == i - 1
                 j == m - len + Size
      <3>1. m \in 0..(len - 1) /\ j \in n..(Size - 1) /\ tail + i - 1 = tail + m /\ i \in 1..(len + n)
        BY <1>1, <1>2, <2>1
      <3>2. (tail + m) % Size = FromHead(j)
        BY <3>1, ContentPlaces, Zenon
      <3>3. Content[i] = data[(tail + i - 1) % Size]
        BY ContentSeq, Zenon
      <3>4. Content'[i] = data'[(tail + i - 1) % Size]
        BY <2>9, <3>1, Zenon
      <3> HIDE DEF m, j
      <3>5. data'[FromHead(j)] = data[FromHead(j)]
        BY <2>3, <3>1, Zenon
      <3> QED BY <3>1, <3>2, <3>3, <3>4, <3>5, Zenon
    <2>11. ASSUME NEW i \in 1..n PROVE Content'[len + i] = src[i]
      <3> DEFINE j == i - 1
      <3>1. /\ j \in 0..(Size - len - 1) /\ j \in 0..(n - 1) /\ j + 1 = i
            /\ tail + (len + i) - 1 = tail + len + j /\ len + i \in 1..(len + n)
        BY <1>1, <1>2, <2>1
      <3>2. (tail + len + j) % Size = FromHead(j)
        BY <3>1, ContentPlaces, Zenon
      <3>3. Content'[len + i] = data'[(tail + (len + i) - 1) % Size]
        BY <2>9, <3>1, Zenon
      <3> HIDE DEF j
      <3>4. data'[FromHead(j)] = src[i]
        BY <2>3, <3>1, Zenon
      <3> QED BY <3>1, <3>2, <3>3, <3>4, Zenon
    <2> DEFINE W == Content \o src
    <2>12. /\ W \in Seq(Byte) /\ Len(W) = len + n
           /\ \A i \in 1..(len + n) : W[i] = IF i <= len THEN Content[i] ELSE src[i - len]
      BY <1>2, <1>3, Joined, Zenon
    <2> HIDE DEF W
    <2>13. \A i \in 1..(len + n) : W[i] = Content'[i]
      <3> TAKE i \in 1..(len + n)
      <3>1. CASE i <= len
        BY <1>1, <1>2, <2>10, <2>12, <3>1, SMTT(30)
      <3>2. CASE ~(i <= len)
        <4>1. i - len \in 1..n /\ len + (i - len) = i
          BY <1>1, <1>2, <3>2
        <4> QED BY <2>11, <2>12, <3>2, <4>1, Zenon
      <3> QED BY <3>1, <3>2, Zenon
    <2>14. W = Content'
      BY <2>9, <2>12, <2>13, SameSeq, Zenon
    <2>15. <<>> \o Content' = Content'
      BY <2>9, JoinedEmpty, Zenon
    <2>16. Len(Content') <= Size
      BY <1>1, <1>2, <2>1, <2>9, SMTT(30)
    <2> QED BY <2>1, <2>8, <2>14, <2>15, <2>16, Zenon DEF QueueStep, W
  <1> QED BY <1>4, <1>5, Zenon

\* A flush hands a prefix of the content to the sink, and keeps the rest.
LEMMA FlushStep ==
    ASSUME TxBufInv, NEW n1 \in 0..Size, NEW n2 \in 0..Size, flush_to(n1, n2)
    PROVE  TxBufInv' /\ QueueStep
  <1> DEFINE first == Minimum(Size - tail_ofs, len)
             n == n1 + n2
             F1 == [i \in 1..n1 |-> data[tail_ofs + i - 1]]
             F2 == [i \in 1..n2 |-> data[0 + i - 1]]
  <1>1. /\ Size \in Nat \ {0} /\ U32 \in Nat /\ U32 > Size
        /\ head \in 0..(U32 - 1) /\ tail \in 0..(U32 - 1) /\ len \in 0..Size
        /\ data \in [0..(Size - 1) -> Byte] /\ tail \in Nat
    BY TxBufAssumption DEF TxBufInv, TxBufTypeOK
  <1>2. tail_ofs \in 0..(Size - 1) /\ tail_ofs = tail % Size
    BY <1>1 DEF tail_ofs
  <1>3. /\ n1 <= first /\ n2 <= len - first /\ (n1 < first => n2 = 0)
        /\ flushed' = F1 \o F2 /\ tail' = (tail + n1 + n2) % U32
        /\ pushed' = <<>> /\ data' = data /\ head' = head
    BY Zenon DEF flush_to
  <1>4. len = IF head >= tail THEN head - tail ELSE head + U32 - tail
    BY <1>1, Distance, Zenon DEF len
  <1> HIDE DEF tail_ofs
  <1>5. first <= Size - tail_ofs /\ first <= len /\ (first = len \/ first = Size - tail_ofs)
    BY <1>1, <1>2 DEF Minimum
  <1>6. n \in 0..len /\ n1 <= Size - tail_ofs /\ (n2 > 0 => n1 = Size - tail_ofs)
    BY <1>1, <1>2, <1>3, <1>5, SMTT(30)
  <1>7. tail' = (tail + n) % U32
    BY <1>1, <1>3
  <1> HIDE DEF first
  <1>8. n \in 0..Size
    BY <1>1, <1>6
  <1> HIDE DEF n
  <1>9. tail' \in 0..(U32 - 1)
        /\ tail' = IF tail + n < U32 THEN tail + n ELSE tail + n - U32
    BY <1>1, <1>7, <1>8, Advance, Zenon
  <1>10. len' = IF head' >= tail' THEN head' - tail' ELSE head' + U32 - tail'
    BY <1>1, <1>3, <1>9, Distance, Zenon DEF len
  <1> HIDE DEF len
  <1>11. len' = len - n
    BY <1>1, <1>3, <1>4, <1>6, <1>9, <1>10, SMTT(30)
  <1>12. TxBufInv'
    BY <1>1, <1>3, <1>6, <1>9, <1>11 DEF TxBufInv, TxBufTypeOK
  <1>13. /\ Content \in Seq(Byte) /\ Len(Content) = len
         /\ \A i \in 1..len : Content[i] = data[(tail + i - 1) % Size]
    BY ContentSeq, Zenon
  \* Where a byte of the content is.
  <1>14. ASSUME NEW i \in 1..len
         PROVE  (tail + i - 1) % Size
                  = IF tail_ofs + (i - 1) < Size THEN tail_ofs + (i - 1)
                    ELSE tail_ofs + (i - 1) - Size
    <2>1. i - 1 \in 0..Size /\ tail + i - 1 = tail + (i - 1)
      BY <1>1, SMTT(30)
    <2> QED BY <1>1, <1>2, <2>1, ModAdd, Zenon
  <1>15. /\ F1 \in Seq(Byte) /\ Len(F1) = n1 /\ \A i \in 1..n1 : F1[i] = data[tail_ofs + i - 1]
         /\ F2 \in Seq(Byte) /\ Len(F2) = n2 /\ \A i \in 1..n2 : F2[i] = data[i - 1]
    <2>1. \A i \in 1..n1 : tail_ofs + i - 1 \in 0..(Size - 1)
      BY <1>1, <1>2, <1>6, SMTT(30)
    <2>2. \A i \in 1..n2 : i - 1 \in 0..(Size - 1) /\ 0 + i - 1 = i - 1
      BY <1>1
    <2>3. F1 \in [1..n1 -> Byte]
      BY <1>1, <2>1, Zenon
    <2>4. F2 \in [1..n2 -> Byte]
      BY <1>1, <2>2, Zenon
    <2> QED BY <2>2, <2>3, <2>4, SMTT(30)
  <1> HIDE DEF F1, F2
  <1>16. /\ flushed' \in Seq(Byte) /\ Len(flushed') = n
         /\ \A i \in 1..n : flushed'[i] = IF i <= n1 THEN F1[i] ELSE F2[i - n1]
    <2>1. n = Len(F1) + Len(F2) /\ Len(F1) = n1
      BY <1>15, Zenon DEF n
    <2>2. /\ F1 \o F2 \in Seq(Byte) /\ Len(F1 \o F2) = Len(F1) + Len(F2)
          /\ \A i \in 1..(Len(F1) + Len(F2)) :
               (F1 \o F2)[i] = IF i <= Len(F1) THEN F1[i] ELSE F2[i - Len(F1)]
      BY <1>15, Joined, Zenon
    <2> QED BY <1>3, <2>1, <2>2, Zenon
  <1>17. ASSUME NEW i \in 1..n PROVE flushed'[i] = Content[i]
    <2>1. i \in 1..len /\ n = n1 + n2
      BY <1>1, <1>6 DEF n
    <2>2. Content[i] = data[(tail + i - 1) % Size]
      BY <1>13, <2>1, Zenon
    <2>3. CASE i <= n1
      <3>1. tail_ofs + (i - 1) < Size /\ tail_ofs + (i - 1) = tail_ofs + i - 1 /\ i \in 1..n1
        BY <1>1, <1>2, <1>6, <2>1, <2>3
      <3>2. flushed'[i] = data[tail_ofs + i - 1]
        BY <1>15, <1>16, <2>3, <3>1, Zenon
      <3>3. (tail + i - 1) % Size = tail_ofs + (i - 1)
        BY <1>14, <2>1, <3>1, Zenon
      <3> QED BY <2>2, <3>1, <3>2, <3>3, ZenonT(40)
    <2>4. CASE ~(i <= n1)
      <3>1. n1 = Size - tail_ofs /\ i - n1 \in 1..n2
        BY <1>1, <1>2, <1>6, <2>1, <2>4, SMTT(30)
      <3>2. /\ ~(tail_ofs + (i - 1) < Size)
            /\ tail_ofs + (i - 1) - Size = (i - n1) - 1
        BY <1>1, <1>2, <2>1, <2>4, <3>1, SMTT(30)
      <3>3. flushed'[i] = data[(i - n1) - 1]
        BY <1>15, <1>16, <2>4, <3>1, Zenon
      <3>4. (tail + i - 1) % Size = tail_ofs + (i - 1) - Size
        BY <1>14, <2>1, <3>2, Zenon
      <3> QED BY <2>2, <3>2, <3>3, <3>4, ZenonT(40)
    <2> QED BY <2>3, <2>4, Zenon
  <1>18. /\ Content' \in Seq(Byte) /\ Len(Content') = len - n
         /\ \A i \in 1..(len - n) : Content'[i] = data[(tail' + i - 1) % Size]
    <2>1. Content' = [i \in 1..(len - n) |-> data[(tail' + i - 1) % Size]]
      BY <1>3, <1>11, Zenon DEF Content
    <2>2. \A i \in 1..(len - n) : (tail' + i - 1) % Size \in 0..(Size - 1)
      BY <1>1, <1>9, SMTT(30)
    <2>3. Content' \in [1..(len - n) -> Byte]
      BY <1>1, <2>1, <2>2, Zenon
    <2>4. len - n \in Nat
      BY <1>1, <1>6
    <2> QED BY <2>1, <2>3, <2>4
  <1>19. ASSUME NEW i \in 1..(len - n) PROVE Content'[i] = Content[n + i]
    <2> DEFINE a == tail' + i - 1
               b == tail + (n + i) - 1
    <2>1. n + i \in 1..len /\ a \in Nat /\ (b = a \/ b = a + U32)
      BY <1>1, <1>6, <1>9
    <2> HIDE DEF a, b
    <2>2. b % Size = a % Size
      BY <2>1, ModWrap, Zenon
    <2>3. Content[n + i] = data[b % Size]
      BY <1>13, <2>1, Zenon DEF b
    <2>4. Content'[i] = data[a % Size]
      BY <1>18, Zenon DEF a
    <2> QED BY <2>2, <2>3, <2>4, Zenon
  <1> DEFINE W == flushed' \o Content'
  <1>20. /\ W \in Seq(Byte) /\ Len(W) = len
         /\ \A i \in 1..len : W[i] = IF i <= n THEN flushed'[i] ELSE Content'[i - n]
    <2>1. len = Len(flushed') + Len(Content') /\ Len(flushed') = n
      BY <1>1, <1>6, <1>16, <1>18
    <2>2. /\ W \in Seq(Byte) /\ Len(W) = Len(flushed') + Len(Content')
          /\ \A i \in 1..(Len(flushed') + Len(Content')) :
               W[i] = IF i <= Len(flushed') THEN flushed'[i] ELSE Content'[i - Len(flushed')]
      BY <1>16, <1>18, Joined, Zenon
    <2> QED BY <2>1, <2>2, Zenon
  <1> HIDE DEF W
  <1>21. \A i \in 1..len : W[i] = Content[i]
    <2> TAKE i \in 1..len
    <2>1. CASE i <= n
      BY <1>1, <1>6, <1>17, <1>20, <2>1, SMTT(30)
    <2>2. CASE ~(i <= n)
      <3>1. i - n \in 1..(len - n) /\ n + (i - n) = i
        BY <1>1, <1>6, <2>2
      <3> QED BY <1>19, <1>20, <2>2, <3>1, Zenon
    <2> QED BY <2>1, <2>2, Zenon
  <1>22. W = Content
    BY <1>13, <1>20, <1>21, SameSeq, Zenon
  <1>23. Content \o <<>> = Content
    BY <1>13, JoinedEmpty, Zenon
  <1>24. Len(Content') <= Size
    BY <1>1, <1>6, <1>18, SMTT(30)
  <1> QED BY <1>3, <1>12, <1>22, <1>23, <1>24, Zenon DEF QueueStep, W

----------------------------------------------------------------------------
(* The theorems.                                                           *)

\* The offsets stay in their width, and never further apart than the size.
THEOREM TxBufInvariant == TxBufSpec => []TxBufInv
  <1>1. TxBufInit => TxBufInv
    <2> SUFFICES ASSUME TxBufInit PROVE TxBufInv
      OBVIOUS
    <2>1. (CHOOSE b \in Byte : TRUE) \in Byte
      BY TxBufAssumption, Zenon
    <2>2. TxBufTypeOK
      BY <2>1, TxBufAssumption DEF TxBufInit, TxBufTypeOK
    <2>3. 0 \in 0..(U32 - 1)
      BY TxBufAssumption
    <2>4. len = 0
      BY <2>3, Distance DEF TxBufInit, len
    <2> QED BY <2>2, <2>4, TxBufAssumption DEF TxBufInv
  <1>2. TxBufInv /\ [TxBufNext]_txvars => TxBufInv'
    <2> SUFFICES ASSUME TxBufInv, [TxBufNext]_txvars PROVE TxBufInv'
      OBVIOUS
    <2>1. CASE Push
      BY <2>1, PushStep, Zenon DEF Push
    <2>2. CASE Flush
      BY <2>2, FlushStep, Zenon DEF Flush
    <2>3. CASE UNCHANGED txvars
      BY <2>3, Zenon DEF txvars, TxBufInv, TxBufTypeOK, len
    <2> QED BY <2>1, <2>2, <2>3, Zenon DEF TxBufNext
  <1> QED BY <1>1, <1>2, PTL DEF TxBufSpec

\* The buffer is a queue of at most Size bytes: push adds a whole slice behind
\* the content or nothing, flush_to takes a prefix, in one write or two, and
\* neither the wrap of the offsets nor that of the slice shows.
THEOREM TxBufIsQueue == TxBufSpec => IsQueue
  <1>1. TxBufInv /\ [TxBufNext]_txvars => [QueueStep]_txvars
    <2> SUFFICES ASSUME TxBufInv, [TxBufNext]_txvars PROVE [QueueStep]_txvars
      BY Zenon
    <2>1. CASE Push
      BY <2>1, PushStep, Zenon DEF Push
    <2>2. CASE Flush
      BY <2>2, FlushStep, Zenon DEF Flush
    <2> QED BY <2>1, <2>2, Zenon DEF TxBufNext
  <1> QED BY <1>1, TxBufInvariant, PTL DEF TxBufSpec, IsQueue
=============================================================================
