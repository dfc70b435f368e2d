-------------------------- MODULE VirtQueueProofs --------------------------
(***************************************************************************)
(* Proofs about VirtQueue, for every ring size and index width: the type   *)
(* invariant, NoPanic, OwnedOnce, NoLostKick and NoLostIrq all follow from *)
(* the inductive invariant IInv, and with it every step of the device, of  *)
(* the driver and of the store buffer is a step of the pool of buffers or  *)
(* leaves it alone.                                                        *)
(***************************************************************************)
EXTENDS VirtQueue, FiniteSetTheorems, SequenceTheorems, TLAPS

----------------------------------------------------------------------------
(* Arithmetic of the wrapping indices.                                     *)

\* The wrapping operations of Wrapping<u16> stay in the index range.
LEMMA WrapType ==
    ASSUME NEW a \in Idx, NEW b \in Idx
    PROVE  /\ WInc(a) \in Idx /\ WDec(a) \in Idx /\ WSub(a, b) \in Idx
           /\ \A n \in 0..(IdxMod - 1) : WAdd(a, n) \in Idx
  BY QueueAssumption DEF Idx, WInc, WDec, WSub, WAdd

\* Euclidean division of an index by the ring size.
LEMMA DivMod ==
    ASSUME NEW a \in Nat
    PROVE  /\ a = QueueSize * (a \div QueueSize) + (a % QueueSize)
           /\ a % QueueSize \in 0..(QueueSize - 1)
           /\ a \div QueueSize \in Nat
  BY QueueAssumption

\* Different multiples of the ring size are at least the ring size apart.
LEMMA MultipleGap ==
    ASSUME NEW p \in Int, NEW q \in Int, p < q
    PROVE  QueueSize * q >= QueueSize * p + QueueSize
  <1>1. QueueSize * (q - p - 1) >= 0
    BY QueueAssumption
  <1>2. QueueSize * (q - p - 1) = QueueSize * q - QueueSize * p - QueueSize
    BY QueueAssumption
  <1> QED BY <1>1, <1>2, QueueAssumption

\* Indices less than a ring apart have different slots (no wrap-around).
LEMMA ModInjective ==
    ASSUME NEW a \in Nat, NEW b \in Nat, a < b, b - a < QueueSize
    PROVE  a % QueueSize # b % QueueSize
  <1> DEFINE p == a \div QueueSize
             q == b \div QueueSize
  <1>1. a = QueueSize * p + (a % QueueSize) /\ p \in Int
    BY DivMod
  <1>2. b = QueueSize * q + (b % QueueSize) /\ q \in Int
    BY DivMod
  <1>3. CASE p < q
    <2>1. QueueSize * q >= QueueSize * p + QueueSize
      BY <1>1, <1>2, <1>3, MultipleGap, Zenon
    <2> QED BY <2>1, <1>1, <1>2, DivMod, QueueAssumption, SMTT(30)
  <1>4. CASE p > q
    <2>1. QueueSize * p >= QueueSize * q + QueueSize
      BY <1>1, <1>2, <1>4, MultipleGap, Zenon
    <2> QED BY <2>1, <1>1, <1>2, DivMod, QueueAssumption
  <1>5. CASE p = q
    BY <1>1, <1>2, <1>5, SMTT(30)
  <1> QED BY <1>1, <1>2, <1>3, <1>4, <1>5, SMTT(30)

\* The index space is a whole number of rings: wrapping keeps the slot.
LEMMA ModWrap ==
    ASSUME NEW a \in Nat, a >= IdxMod
    PROVE  (a - IdxMod) % QueueSize = a % QueueSize
  <1>k. PICK K \in 1..IdxMod : IdxMod = K * QueueSize
    BY QueueAssumption, Zenon
  <1> DEFINE b == a - IdxMod
             p == a \div QueueSize
             q == b \div QueueSize
  <1>0. b \in Nat
    BY QueueAssumption
  <1>1. a = QueueSize * p + (a % QueueSize) /\ p \in Int
        /\ a % QueueSize \in 0..(QueueSize - 1)
    BY DivMod
  <1>2. b = QueueSize * q + (b % QueueSize) /\ q \in Int
        /\ b % QueueSize \in 0..(QueueSize - 1)
    BY DivMod, <1>0
  <1> HIDE DEF p, q
  <1>3. QueueSize * (q + K) = QueueSize * q + IdxMod
    BY <1>k, <1>2, QueueAssumption
  <1>4. CASE p < q + K
    <2>1. QueueSize * (q + K) >= QueueSize * p + QueueSize
      BY <1>k, <1>1, <1>2, <1>4, MultipleGap, QueueAssumption, SMTT(30)
    <2> QED BY <2>1, <1>1, <1>2, <1>3, <1>k, QueueAssumption
  <1>5. CASE p > q + K
    <2>1. QueueSize * p >= QueueSize * (q + K) + QueueSize
      BY <1>k, <1>1, <1>2, <1>5, MultipleGap, QueueAssumption
    <2> QED BY <2>1, <1>1, <1>2, <1>3, <1>k, QueueAssumption, SMTT(30)
  <1>6. CASE p = q + K
    BY <1>1, <1>2, <1>3, <1>6, <1>k, QueueAssumption, SMTT(30)
  <1> QED BY <1>1, <1>2, <1>4, <1>5, <1>6, <1>k, QueueAssumption, SMTT(30)

\* A slot is a position of the ring, and the slots of a window of at most
\* QueueSize indices are pairwise different, wherever the window wraps.
LEMMA SlotInjective ==
    ASSUME NEW a \in Idx, NEW j \in 0..(QueueSize - 1),
           NEW k \in 0..(QueueSize - 1)
    PROVE  /\ Slot(WAdd(a, j)) \in Heads
           /\ Slot(WAdd(a, j)) = Slot(WAdd(a, k)) => j = k
  <1>1. \A n \in 0..(QueueSize - 1) : Slot(WAdd(a, n)) = (a + n) % QueueSize
    <2> TAKE n \in 0..(QueueSize - 1)
    <2>0. a + n \in Nat
      BY QueueAssumption DEF Idx
    <2>1. CASE a + n >= IdxMod
      <3> DEFINE c == a + n
      <3>1. (c - IdxMod) % QueueSize = c % QueueSize
        <4>1. c \in Nat /\ c >= IdxMod
          BY <2>0, <2>1, Zenon
        <4> HIDE DEF c
        <4> QED BY <4>1, ModWrap, Zenon
      <3>2. WAdd(a, n) = c - IdxMod
        BY <2>1, QueueAssumption DEF WAdd, Idx
      <3> QED BY <3>1, <3>2, Zenon DEF Slot
    <2>2. CASE a + n < IdxMod
      BY <2>2, QueueAssumption DEF Idx, Slot, WAdd
    <2> QED BY <2>1, <2>2, QueueAssumption DEF Idx
  <1>2. (a + j) % QueueSize \in Heads
    BY DivMod, QueueAssumption DEF Idx, Heads
  <1>3. ASSUME j < k PROVE (a + j) % QueueSize # (a + k) % QueueSize
    <2>1. a + j \in Nat /\ a + k \in Nat /\ a + j < a + k
          /\ (a + k) - (a + j) < QueueSize
      BY <1>3, QueueAssumption DEF Idx
    <2> QED BY <2>1, ModInjective, Zenon
  <1>4. ASSUME k < j PROVE (a + j) % QueueSize # (a + k) % QueueSize
    <2>1. a + k \in Nat /\ a + j \in Nat /\ a + k < a + j
          /\ (a + j) - (a + k) < QueueSize
      BY <1>4, QueueAssumption DEF Idx
    <2> QED BY <2>1, ModInjective, Zenon
  <1> QED BY <1>1, <1>2, <1>3, <1>4, QueueAssumption

\* How the distance between two indices moves when one of them does.
LEMMA Distance ==
    ASSUME NEW a \in Idx, NEW b \in Idx
    PROVE  /\ WSub(a, b) = 0 <=> a = b
           /\ WAdd(b, WSub(a, b)) = a
           /\ WSub(a, b) < IdxMod - 1 => WSub(WInc(a), b) = WSub(a, b) + 1
           /\ WSub(a, b) > 0 => WSub(a, WInc(b)) = WSub(a, b) - 1
           /\ WSub(a, b) < IdxMod - 1 => WSub(a, WDec(b)) = WSub(a, b) + 1
           /\ WInc(WDec(a)) = a /\ WDec(WInc(a)) = a
  BY QueueAssumption DEF Idx, WInc, WDec, WSub, WAdd

\* Advancing the start of a window by one shifts every position by one.
LEMMA WAddShift ==
    ASSUME NEW a \in Idx, NEW k \in 0..(IdxMod - 2)
    PROVE  WAdd(WInc(a), k) = WAdd(a, k + 1) /\ WAdd(a, 0) = a
  BY QueueAssumption DEF Idx, WInc, WAdd

----------------------------------------------------------------------------
(* Rings.                                                                  *)

\* Writing a head behind a window that is not full appends it to the window,
\* and leaves the entries of the window alone.
LEMMA RingPush ==
    ASSUME NEW ring \in [Heads -> Heads], NEW start \in Idx,
           NEW n \in 0..(QueueSize - 1), NEW h \in Heads,
           RingDistinct(ring, start, n), h \notin RingHeads(ring, start, n),
           NEW new \in [Heads -> Heads], new[Slot(WAdd(start, n))] = h,
           \A s \in Heads : s # Slot(WAdd(start, n)) => new[s] = ring[s]
    PROVE  /\ RingHeads(new, start, n + 1) = RingHeads(ring, start, n) \cup {h}
           /\ RingDistinct(new, start, n + 1)
           /\ n > 0 => new[Slot(start)] = ring[Slot(start)]
  <1> DEFINE At(k) == Slot(WAdd(start, k))
  <1>2. At(n) \in Heads /\ new[At(n)] = h
    BY SlotInjective, QueueAssumption, Zenon
  <1>3. \A k \in 0..(n - 1) : new[At(k)] = ring[At(k)]
    <2> TAKE k \in 0..(n - 1)
    <2>1. At(k) \in Heads /\ At(k) # At(n)
      BY SlotInjective, QueueAssumption
    <2> QED BY <2>1, Zenon
  <1>4. RingHeads(new, start, n + 1) = {new[At(k)] : k \in 0..n}
    BY QueueAssumption DEF RingHeads
  <1>5. RingHeads(ring, start, n) = {ring[At(k)] : k \in 0..(n - 1)}
    BY Zenon DEF RingHeads
  <1> HIDE DEF At
  <1>6. RingHeads(new, start, n + 1) = RingHeads(ring, start, n) \cup {h}
    BY <1>2, <1>3, <1>4, <1>5, QueueAssumption, SMTT(30)
  <1>7. \A j, k \in 0..n : new[At(j)] = new[At(k)] => j = k
    <2>1. \A k \in 0..(n - 1) : ring[At(k)] # h
      BY <1>5, Zenon
    <2>2. \A j, k \in 0..(n - 1) : ring[At(j)] = ring[At(k)] => j = k
      BY Zenon DEF RingDistinct, At
    <2> QED BY <2>1, <2>2, <1>2, <1>3, QueueAssumption, SMTT(30)
  <1>8. RingDistinct(new, start, n + 1)
    BY <1>7, QueueAssumption DEF RingDistinct, At
  <1>9. n > 0 => new[Slot(start)] = ring[Slot(start)]
    BY <1>3, WAddShift, QueueAssumption DEF At
  <1> QED BY <1>6, <1>8, <1>9, Zenon

\* Advancing the start of a window takes exactly its first head out of it.
LEMMA RingPop ==
    ASSUME NEW ring \in [Heads -> Heads], NEW start \in Idx,
           NEW n \in 1..QueueSize
    PROVE  LET h == ring[Slot(start)]
           IN  /\ h \in Heads
               /\ RingHeads(ring, start, n)
                    = RingHeads(ring, WInc(start), n - 1) \cup {h}
               /\ RingDistinct(ring, start, n)
                    <=> /\ RingDistinct(ring, WInc(start), n - 1)
                        /\ h \notin RingHeads(ring, WInc(start), n - 1)
  <1> DEFINE At(k) == ring[Slot(WAdd(start, k))]
  <1>1. At(0) = ring[Slot(start)]
    BY WAddShift, QueueAssumption
  <1>2. ring[Slot(start)] \in Heads
    <2>1. Slot(WAdd(start, 0)) \in Heads
      BY SlotInjective, QueueAssumption
    <2> QED BY <2>1, WAddShift, QueueAssumption
  <1>3. RingHeads(ring, start, n) = {At(k) : k \in 0..(n - 1)}
    BY Zenon DEF RingHeads
  <1>4. RingHeads(ring, WInc(start), n - 1) = {At(k + 1) : k \in 0..(n - 2)}
    BY WAddShift, QueueAssumption DEF RingHeads
  <1>5. RingDistinct(ring, start, n)
          <=> \A j, k \in 0..(n - 1) : At(j) = At(k) => j = k
    BY Zenon DEF RingDistinct
  <1>6. RingDistinct(ring, WInc(start), n - 1)
          <=> \A j, k \in 0..(n - 2) : At(j + 1) = At(k + 1) => j = k
    <2>1. \A k \in 0..((n - 1) - 1) :
            /\ ring[Slot(WAdd(WInc(start), k))] = At(k + 1)
            /\ k \in 0..(n - 2)
      BY WAddShift, QueueAssumption
    <2>2. \A k \in 0..(n - 2) : k \in 0..((n - 1) - 1)
      OBVIOUS
    <2> HIDE DEF At
    <2> QED BY <2>1, <2>2, Zenon DEF RingDistinct
  <1> HIDE DEF At
  <1>7. RingHeads(ring, start, n) = RingHeads(ring, WInc(start), n - 1) \cup {At(0)}
    <2>1. \A k \in 0..(n - 2) : k + 1 \in 0..(n - 1)
      OBVIOUS
    <2>2. \A k \in 0..(n - 1) : k = 0 \/ (k - 1 \in 0..(n - 2) /\ k = (k - 1) + 1)
      OBVIOUS
    <2> QED BY <2>1, <2>2, <1>3, <1>4
  <1>8. RingDistinct(ring, start, n)
          <=> /\ RingDistinct(ring, WInc(start), n - 1)
              /\ At(0) \notin RingHeads(ring, WInc(start), n - 1)
    <2>1. ASSUME RingDistinct(ring, start, n)
          PROVE  /\ RingDistinct(ring, WInc(start), n - 1)
                 /\ At(0) \notin RingHeads(ring, WInc(start), n - 1)
      <3>1. \A k \in 0..(n - 2) : k + 1 \in 0..(n - 1) /\ k + 1 # 0 /\ 0 \in 0..(n - 1)
        OBVIOUS
      <3> QED BY <2>1, <3>1, <1>4, <1>5, <1>6, SMTT(30)
    <2>2. ASSUME RingDistinct(ring, WInc(start), n - 1),
                 At(0) \notin RingHeads(ring, WInc(start), n - 1)
          PROVE  RingDistinct(ring, start, n)
      <3>1. \A k \in 0..(n - 1) : k = 0 \/ (k - 1 \in 0..(n - 2) /\ k = (k - 1) + 1)
        OBVIOUS
      <3> QED BY <2>2, <3>1, <1>4, <1>5, <1>6, SMTT(30)
    <2> QED BY <2>1, <2>2, Zenon
  <1> QED BY <1>1, <1>2, <1>7, <1>8, Zenon

----------------------------------------------------------------------------
(* Who owns which head: CountInv and OwnedOnce.                            *)

\* The bounds that the count of heads puts on everything counted.
LEMMA Counts ==
    ASSUME TypeOK, CountInv
    PROVE  /\ IsFiniteSet(free) /\ Cardinality(free) \in Nat
           /\ IsFiniteSet(inflight) /\ Cardinality(inflight) \in Nat
           /\ free # {} => Cardinality(free) > 0
           /\ inflight # {} => Cardinality(inflight) > 0
           /\ len \in Nat /\ Used \in Nat
           /\ Cardinality(free) + len + Cardinality(inflight) + Used = QueueSize
           /\ QueueSize < IdxMod
  <1>1. IsFiniteSet(Heads)
    BY FS_Interval, QueueAssumption DEF Heads
  <1>2. IsFiniteSet(free) /\ IsFiniteSet(inflight)
    BY <1>1, FS_Subset, Zenon DEF TypeOK
  <1>3. len \in Idx /\ Used \in Idx
    BY WrapType, Zenon DEF TypeOK, len, Used
  <1>4. /\ Cardinality(free) \in Nat /\ Cardinality(inflight) \in Nat
        /\ free # {} => Cardinality(free) # 0
        /\ inflight # {} => Cardinality(inflight) # 0
    BY <1>2, FS_CardinalityType, FS_EmptySet, Zenon
  <1> QED BY <1>2, <1>3, <1>4, QueueAssumption DEF CountInv, Idx

\* do_pop_unchecked moves one head from the avail ring to the device.
LEMMA PopOwnership ==
    ASSUME IInv, DoPopUnchecked, NextHead \notin Malformed
    PROVE  CountInv' /\ OwnedOnce' /\ HandlerInv' /\ len' = len - 1 /\ Used' = Used
  <1> USE DEF IInv
  <1>1. len \in 1..QueueSize /\ QueueSize < IdxMod
    BY Counts DEF DoPopUnchecked, HandlerInv
  <1>2. next_avail \in Idx /\ avail_idx \in Idx /\ avail_ring \in [Heads -> Heads]
    BY Zenon DEF TypeOK
  <1>3. len' = len - 1
    BY <1>1, <1>2, Distance DEF DoPopUnchecked, availMem, len
  <1>4. UNCHANGED <<free, used_ring, last_used, next_used, avail_ring>>
    BY Zenon DEF DoPopUnchecked, usedMem, drvVars, availMem
  <1>5. UsedHeads' = UsedHeads /\ Used' = Used
        /\ RingDistinct(used_ring, last_used, WSub(next_used, last_used))'
             = RingDistinct(used_ring, last_used, WSub(next_used, last_used))
    BY <1>4, Zenon DEF UsedHeads, Used
  <1>6. next_avail' = WInc(next_avail) /\ cur' = NextHead /\ dpc' = "held"
        /\ inflight' = inflight \cup {NextHead}
    BY Zenon DEF DoPopUnchecked
  <1>7. /\ AvailHeads = AvailHeads' \cup {NextHead}
        /\ NextHead \notin AvailHeads'
        /\ RingDistinct(avail_ring, next_avail, len)'
    <2>1. AvailHeads' = RingHeads(avail_ring, WInc(next_avail), len - 1)
      BY <1>3, <1>4, <1>6, Zenon DEF AvailHeads
    <2>2. RingDistinct(avail_ring, next_avail, len)'
            <=> RingDistinct(avail_ring, WInc(next_avail), len - 1)
      BY <1>3, <1>4, <1>6, Zenon
    <2> QED BY <2>1, <2>2, <1>1, <1>2, RingPop, SMTT(30) DEF AvailHeads, NextHead, OwnedOnce
  <1>8. NextHead \notin inflight
    BY <1>7, Zenon DEF OwnedOnce
  <1>9. OwnedOnce'
    BY <1>4, <1>5, <1>6, <1>7, Zenon DEF OwnedOnce
  <1>10. CountInv'
    <2>1. Cardinality(inflight') = Cardinality(inflight) + 1
      BY <1>6, <1>8, Counts, FS_AddElement, Zenon
    <2> QED BY <2>1, <1>3, <1>4, <1>5, Counts, SMTT(30) DEF CountInv
  <1>11. HandlerInv'
    <2>1. WDec(next_avail') = next_avail
      BY <1>2, <1>6, Distance, Zenon
    <2>2. avail_ring'[Slot(WDec(next_avail'))] = cur'
      BY <2>1, <1>4, <1>6, Zenon DEF NextHead
    <2> QED BY <2>2, <1>6, Zenon DEF HandlerInv
  <1> QED BY <1>3, <1>5, <1>9, <1>10, <1>11, Zenon

\* undo_pop moves it back, to the same place of the avail ring.
LEMMA UndoOwnership ==
    ASSUME IInv, UndoPop
    PROVE  CountInv' /\ OwnedOnce' /\ HandlerInv' /\ len' = len + 1 /\ Used' = Used
  <1> USE DEF IInv
  <1>1. cur \in inflight /\ avail_ring[Slot(WDec(next_avail))] = cur
    BY Zenon DEF UndoPop, HandlerInv
  <1>2. len + 1 \in 1..QueueSize /\ QueueSize < IdxMod
    BY <1>1, Counts
  <1>3. next_avail \in Idx /\ avail_idx \in Idx /\ avail_ring \in [Heads -> Heads]
        /\ WDec(next_avail) \in Idx
    BY WrapType, Zenon DEF TypeOK
  <1>4. next_avail' = WDec(next_avail) /\ inflight' = inflight \ {cur}
        /\ dpc' = "exit"
        /\ UNCHANGED <<free, used_ring, last_used, next_used, avail_ring, avail_idx>>
    BY Zenon DEF UndoPop, usedMem, drvVars, availMem
  <1>5. len' = len + 1
    BY <1>2, <1>3, <1>4, Distance, Counts, QueueAssumption, SMTT(30) DEF len
  <1>6. UsedHeads' = UsedHeads /\ Used' = Used
        /\ RingDistinct(used_ring, last_used, WSub(next_used, last_used))'
             = RingDistinct(used_ring, last_used, WSub(next_used, last_used))
    BY <1>4, Zenon DEF UsedHeads, Used
  <1>7. AvailHeads' = AvailHeads \cup {cur} /\ RingDistinct(avail_ring, next_avail, len)'
    <2>1. AvailHeads' = RingHeads(avail_ring, WDec(next_avail), len + 1)
      BY <1>4, <1>5, Zenon DEF AvailHeads
    <2>2. RingDistinct(avail_ring, next_avail, len)'
            <=> RingDistinct(avail_ring, WDec(next_avail), len + 1)
      BY <1>4, <1>5, Zenon
    <2>3. WInc(WDec(next_avail)) = next_avail /\ (len + 1) - 1 = len
      BY <1>3, Distance, Counts, SMTT(30)
    <2>4. cur \notin AvailHeads
      BY <1>1, Zenon DEF OwnedOnce
    <2> QED BY <2>1, <2>2, <2>3, <2>4, <1>1, <1>2, <1>3, RingPop
           , SMTT(30) DEF AvailHeads, OwnedOnce
  <1>8. OwnedOnce'
    BY <1>1, <1>4, <1>6, <1>7, ZenonT(30) DEF OwnedOnce
  <1>9. CountInv'
    <2>1. Cardinality(inflight') = Cardinality(inflight) - 1
      BY <1>1, <1>4, Counts, FS_RemoveElement, Zenon
    <2> QED BY <2>1, <1>4, <1>5, <1>6, Counts, SMTT(30) DEF CountInv
  <1> QED BY <1>4, <1>5, <1>6, <1>8, <1>9, Zenon DEF HandlerInv

\* add_used moves one head from the device to the used ring.
LEMMA AddUsedOwnership ==
    ASSUME IInv, NEW h \in inflight, AddUsed(h)
    PROVE  CountInv' /\ OwnedOnce' /\ len' = len /\ Used' = Used + 1
  <1> USE DEF IInv
  <1>1. Used \in 0..(QueueSize - 1) /\ QueueSize < IdxMod
    BY Counts
  <1>2. next_used \in Idx /\ last_used \in Idx /\ used_ring \in [Heads -> Heads]
        /\ h \in Heads
    BY Zenon DEF TypeOK
  <1>3. next_used' = WInc(next_used) /\ inflight' = inflight \ {h}
        /\ used_ring' = [used_ring EXCEPT ![Slot(next_used)] = h]
        /\ UNCHANGED <<free, last_used, next_avail, avail_ring, avail_idx>>
    BY Zenon DEF AddUsed, drvVars, availMem
  <1>4. Used' = Used + 1
    BY <1>1, <1>2, <1>3, Distance, QueueAssumption, SMTT(30) DEF Used
  <1>5. len' = len /\ AvailHeads' = AvailHeads
        /\ RingDistinct(avail_ring, next_avail, len)'
             = RingDistinct(avail_ring, next_avail, len)
    BY <1>3, Zenon DEF len, AvailHeads
  <1>6. /\ UsedHeads' = UsedHeads \cup {h}
        /\ RingDistinct(used_ring, last_used, WSub(next_used, last_used))'
    <2>1. WAdd(last_used, Used) = next_used
      BY <1>2, Distance, Zenon DEF Used
    <2>2. h \notin UsedHeads
      BY Zenon DEF OwnedOnce
    <2>3. RingDistinct(used_ring, last_used, Used) /\ UsedHeads = RingHeads(used_ring, last_used, Used)
      BY Zenon DEF OwnedOnce, Used, UsedHeads
    <2>4. /\ RingHeads(used_ring', last_used, Used + 1) = UsedHeads \cup {h}
          /\ RingDistinct(used_ring', last_used, Used + 1)
      <3>1. /\ used_ring' \in [Heads -> Heads]
            /\ used_ring'[Slot(WAdd(last_used, Used))] = h
            /\ \A s \in Heads :
                 s # Slot(WAdd(last_used, Used)) => used_ring'[s] = used_ring[s]
        BY <2>1, <1>1, <1>2, <1>3, SlotInjective, Zenon
      <3>2. h \notin RingHeads(used_ring, last_used, Used)
        BY <2>2, <2>3, Zenon
      <3> QED BY <3>1, <3>2, <2>3, <1>1, <1>2, RingPush, SMTT(30)
    <2> QED BY <2>4, <1>3, <1>4, Zenon DEF UsedHeads, Used
  <1>7. OwnedOnce'
    BY <1>3, <1>5, <1>6, Zenon DEF OwnedOnce
  <1>8. CountInv'
    <2>1. Cardinality(inflight') = Cardinality(inflight) - 1
      BY <1>3, Counts, FS_RemoveElement, Zenon
    <2> QED BY <2>1, <1>3, <1>4, <1>5, Counts, SMTT(30) DEF CountInv
  <1> QED BY <1>4, <1>5, <1>7, <1>8, Zenon

\* The driver moves one head to the end of the avail ring; the entries already
\* there, and the one just popped, stay as they are.
LEMMA AddOwnership ==
    ASSUME IInv, DriverAdd
    PROVE  /\ CountInv' /\ OwnedOnce' /\ HandlerInv'
           /\ avail_ring' \in [Heads -> Heads] /\ free' \subseteq Heads
           /\ len' = len + 1 /\ Used' = Used
           /\ len > 0 => NextHead' = NextHead
  <1> USE DEF IInv
  <1>1. PICK h \in free :
          /\ free' = free \ {h}
          /\ avail_ring' = [avail_ring EXCEPT ![Slot(avail_idx)] = h]
    BY Zenon DEF DriverAdd
  <1>2. avail_idx' = WInc(avail_idx)
        /\ UNCHANGED <<next_avail, next_used, last_used, used_ring, inflight, cur, dpc>>
    BY Zenon DEF DriverAdd, devVars, usedMem
  <1>3. next_avail \in Idx /\ avail_idx \in Idx /\ avail_ring \in [Heads -> Heads]
        /\ h \in Heads /\ WDec(next_avail) \in Idx
    BY WrapType, Zenon DEF TypeOK
  <1>4. len \in 0..(QueueSize - 1) /\ QueueSize < IdxMod
    BY Counts
  <1>5. len' = len + 1
    BY <1>2, <1>3, <1>4, Distance, QueueAssumption, SMTT(30) DEF len
  <1>6. UsedHeads' = UsedHeads /\ Used' = Used
        /\ RingDistinct(used_ring, last_used, WSub(next_used, last_used))'
             = RingDistinct(used_ring, last_used, WSub(next_used, last_used))
    BY <1>2, Zenon DEF UsedHeads, Used
  <1>7. WAdd(next_avail, len) = avail_idx /\ Slot(avail_idx) \in Heads
    BY <1>3, <1>4, Distance, SlotInjective, SMTT(30) DEF len
  <1>8. /\ avail_ring' \in [Heads -> Heads]
        /\ avail_ring'[Slot(avail_idx)] = h
        /\ \A s \in Heads : s # Slot(avail_idx) => avail_ring'[s] = avail_ring[s]
    BY <1>1, <1>3, <1>7, Zenon
  <1>9. /\ AvailHeads' = AvailHeads \cup {h}
        /\ RingDistinct(avail_ring, next_avail, len)'
        /\ len > 0 => NextHead' = NextHead
    <2>1. h \notin RingHeads(avail_ring, next_avail, len)
          /\ RingDistinct(avail_ring, next_avail, len)
      BY Zenon DEF OwnedOnce, AvailHeads
    <2>2. /\ RingHeads(avail_ring', next_avail, len + 1)
               = RingHeads(avail_ring, next_avail, len) \cup {h}
          /\ RingDistinct(avail_ring', next_avail, len + 1)
          /\ len > 0 => avail_ring'[Slot(next_avail)] = avail_ring[Slot(next_avail)]
      BY <2>1, <1>3, <1>4, <1>7, <1>8, RingPush, SMTT(30)
    <2> QED BY <2>2, <1>2, <1>5, Zenon DEF AvailHeads, NextHead
  <1>10. OwnedOnce'
    BY <1>1, <1>2, <1>6, <1>9, Zenon DEF OwnedOnce
  <1>11. CountInv'
    <2>1. Cardinality(free') = Cardinality(free) - 1
      BY <1>1, Counts, FS_RemoveElement, Zenon
    <2> QED BY <2>1, <1>2, <1>5, <1>6, Counts, SMTT(30) DEF CountInv
  <1>12. ASSUME dpc = "held"
         PROVE  avail_ring'[Slot(WDec(next_avail))] = cur
    <2>1. cur \in inflight /\ avail_ring[Slot(WDec(next_avail))] = cur
      BY <1>12, Zenon DEF HandlerInv
    <2>2. len + 1 \in 0..(QueueSize - 1) /\ len + 1 # 0
      BY <2>1, <1>1, Counts, SMTT(30)
    <2>3. WAdd(WDec(next_avail), len + 1) = avail_idx
          /\ WAdd(WDec(next_avail), 0) = WDec(next_avail)
      BY <2>2, <1>3, <1>4, Distance, WAddShift, QueueAssumption, SMTT(30) DEF len
    <2>4. Slot(WDec(next_avail)) \in Heads /\ Slot(WDec(next_avail)) # Slot(avail_idx)
      <3>1. 0 \in 0..(QueueSize - 1)
        BY QueueAssumption, SMTT(30)
      <3> QED BY <2>2, <2>3, <3>1, <1>3, SlotInjective, Zenon
    <2> QED BY <2>1, <2>4, <1>8, Zenon
  <1>13. HandlerInv'
    BY <1>2, <1>4, <1>5, <1>12, SMTT(30) DEF HandlerInv
  <1> QED BY <1>1, <1>3, <1>5, <1>6, <1>8, <1>9, <1>10, <1>11, <1>13, Zenon DEF TypeOK

\* The driver takes the first head out of the used ring.
LEMMA ReclaimOwnership ==
    ASSUME IInv, DriverReclaim
    PROVE  CountInv' /\ OwnedOnce' /\ free' \subseteq Heads
           /\ len' = len /\ Used' = Used - 1 /\ Used > 0
  <1> USE DEF IInv
  <1> DEFINE h == used_ring[Slot(last_used)]
  <1>1. free' = free \cup {h} /\ last_used' = WInc(last_used)
        /\ UNCHANGED <<next_avail, avail_idx, avail_ring, next_used, used_ring, inflight>>
    BY Zenon DEF DriverReclaim, devVars, usedMem, availMem
  <1>2. next_used \in Idx /\ last_used \in Idx /\ used_idx \in Idx
        /\ used_ring \in [Heads -> Heads]
    BY Zenon DEF TypeOK
  <1>3. Used \in 1..QueueSize /\ QueueSize < IdxMod
    <2>1. Visible \in Nat /\ Buffered \in Nat /\ Visible # 0
      BY <1>2, WrapType, Distance, SMTT(30) DEF Visible, Buffered, DriverReclaim, Idx
    <2> QED BY <2>1, Counts, SMTT(30) DEF IrqInv
  <1>4. Used' = Used - 1
    BY <1>1, <1>2, <1>3, Distance DEF Used
  <1>5. len' = len /\ AvailHeads' = AvailHeads
        /\ RingDistinct(avail_ring, next_avail, len)'
             = RingDistinct(avail_ring, next_avail, len)
    BY <1>1, Zenon DEF len, AvailHeads
  <1>6. /\ h \in Heads
        /\ UsedHeads = UsedHeads' \cup {h} /\ h \notin UsedHeads'
        /\ RingDistinct(used_ring, last_used, WSub(next_used, last_used))'
    <2>1. UsedHeads' = RingHeads(used_ring, WInc(last_used), Used - 1)
          /\ UsedHeads = RingHeads(used_ring, last_used, Used)
      BY <1>1, <1>4, Zenon DEF UsedHeads, Used
    <2>2. RingDistinct(used_ring, last_used, WSub(next_used, last_used))'
            <=> RingDistinct(used_ring, WInc(last_used), Used - 1)
      BY <1>1, <1>4, Zenon DEF Used
    <2>3. RingDistinct(used_ring, last_used, Used)
      BY Zenon DEF OwnedOnce, Used
    <2> QED BY <2>1, <2>2, <2>3, <1>2, <1>3, RingPop, ZenonT(40)
  <1>7. h \notin free
    BY <1>6, Zenon DEF OwnedOnce
  <1>8. OwnedOnce'
    BY <1>1, <1>5, <1>6, <1>7, SMTT(30) DEF OwnedOnce
  <1>9. CountInv'
    <2>1. Cardinality(free') = Cardinality(free) + 1
      BY <1>1, <1>7, Counts, FS_AddElement, Zenon
    <2> QED BY <2>1, <1>1, <1>4, <1>5, Counts, SMTT(30) DEF CountInv
  <1> QED BY <1>1, <1>3, <1>4, <1>5, <1>6, <1>8, <1>9, SMTT(30) DEF TypeOK

----------------------------------------------------------------------------
(* Every action preserves the inductive invariant.                         *)

\* The actions that move no head leave the ownership invariants alone.
LEMMA Quiet ==
    ASSUME IInv,
           UNCHANGED <<free, inflight, avail_idx, next_avail, avail_ring,
                       next_used, last_used, used_ring>>
    PROVE  CountInv' /\ OwnedOnce' /\ len' = len /\ Used' = Used
           /\ NextHead' = NextHead
  BY DEF IInv, CountInv, OwnedOnce, AvailHeads, UsedHeads, len, Used, NextHead

\* The facts about the counters that the arithmetic steps use.
LEMMA Ranges ==
    ASSUME IInv
    PROVE  /\ len \in 0..QueueSize /\ Used \in 0..QueueSize
           /\ QueueSize \in Nat /\ IdxMod \in Nat /\ QueueSize < IdxMod
           /\ Visible \in Nat /\ Buffered \in Nat /\ Unkicked \in 0..(IdxMod - 1)
           /\ Visible + Buffered = Used
           /\ num_added \in 0..(IdxMod - 1) /\ MaxBatch \in 1..(IdxMod - 1)
  <1>1. Visible \in Idx /\ Buffered \in Idx /\ Unkicked \in Idx /\ num_added \in Idx
    BY WrapType, Zenon DEF IInv, TypeOK, Visible, Buffered, Unkicked
  <1> QED BY <1>1, Counts, QueueAssumption, SMTT(30) DEF IInv, IrqInv, Idx

\* What the steps about notifications need of the invariant.
LEMMA NotifyFacts ==
    ASSUME IInv
    PROVE  /\ KickInv /\ IrqInv /\ HandlerInv
           /\ len \in Nat /\ Unkicked \in Nat /\ Used \in Nat /\ Visible \in Nat
           /\ Buffered \in Nat /\ num_added \in Nat /\ MaxBatch \in Nat
           /\ signal \in BOOLEAN /\ irq \in BOOLEAN /\ resume \in BOOLEAN
           /\ kick \in BOOLEAN
  <1>1. /\ KickInv /\ IrqInv /\ HandlerInv /\ signal \in BOOLEAN /\ irq \in BOOLEAN
        /\ resume \in BOOLEAN /\ kick \in BOOLEAN
    BY Zenon DEF IInv, TypeOK
  <1> QED BY <1>1, Ranges

\* When the test of prepare_kick and vring_need_event fails, either everything
\* is known to the other side or the other side has yet to get to `old`.
LEMMA NeedEventFails ==
    ASSUME NEW event \in Idx, NEW new \in Idx, NEW old \in Idx,
           ~NeedEvent(event, new, old)
    PROVE  WSub(new, event) = 0 \/ WSub(new, event) > WSub(new, old)
  <1>1. WSub(new, event) \in Idx /\ WSub(new, old) \in Idx
    BY WrapType, Zenon
  <1> QED BY <1>1, QueueAssumption DEF NeedEvent, WDec, Idx

\* The distance back to `old`, as prepare_kick computes it, is num_added.
LEMMA WSubSelf ==
    ASSUME NEW a \in Idx, NEW n \in Idx
    PROVE  WSub(a, WSub(a, n)) = n
  BY QueueAssumption DEF WSub, Idx

\* process_queue_event reads the eventfd: the handler runs, or already waits for resume.
LEMMA QueueEventStep == ASSUME IInv, QueueEvent PROVE IInv'
  <1>1. CountInv' /\ OwnedOnce' /\ len' = len /\ Used' = Used /\ NextHead' = NextHead
    BY Quiet, Zenon DEF QueueEvent, devVars, drvVars, availMem, usedMem
  <1>2. TypeOK'
    BY WrapType, QueueAssumption, Zenon DEF IInv, QueueEvent, TypeOK, devVars, drvVars, availMem, usedMem
  <1>3. HandlerInv'
    BY <1>1, Ranges, Zenon DEF IInv, QueueEvent, HandlerInv, devVars, drvVars, availMem, usedMem
  <1>4. KickInv'
    BY <1>1, NotifyFacts, Zenon DEF QueueEvent, KickInv, Unkicked, devVars, drvVars, availMem, usedMem
  <1>5. IrqInv'
    BY <1>1, NotifyFacts, Zenon DEF QueueEvent, IrqInv, Visible, Buffered, devVars, drvVars, availMem, usedMem
  <1> QED BY <1>1, <1>2, <1>3, <1>4, <1>5, Zenon DEF IInv

\* The awaited timer or completion event starts the handler's loop.
LEMMA ResumeEventStep == ASSUME IInv, ResumeEvent PROVE IInv'
  <1>1. CountInv' /\ OwnedOnce' /\ len' = len /\ Used' = Used /\ NextHead' = NextHead
    BY Quiet, Zenon DEF ResumeEvent, devVars, drvVars, availMem, usedMem
  <1>2. TypeOK'
    BY WrapType, QueueAssumption, Zenon DEF IInv, ResumeEvent, TypeOK, devVars, drvVars, availMem, usedMem
  <1>3. HandlerInv'
    BY <1>1, Ranges, Zenon DEF IInv, ResumeEvent, HandlerInv, devVars, drvVars, availMem, usedMem
  <1>4. KickInv'
    BY <1>1, NotifyFacts, Zenon DEF ResumeEvent, KickInv, Unkicked, devVars, drvVars, availMem, usedMem
  <1>5. IrqInv'
    BY <1>1, NotifyFacts, Zenon DEF ResumeEvent, IrqInv, Visible, Buffered, devVars, drvVars, availMem, usedMem
  <1> QED BY <1>1, <1>2, <1>3, <1>4, <1>5, SMTT(30) DEF IInv

\* The completion handler starts: it owns no ring entry yet.
LEMMA CompletionEventStep == ASSUME IInv, CompletionEvent PROVE IInv'
  <1>1. CountInv' /\ OwnedOnce' /\ len' = len /\ Used' = Used /\ NextHead' = NextHead
    BY Quiet, Zenon DEF CompletionEvent, devVars, drvVars, availMem, usedMem
  <1>2. TypeOK'
    BY WrapType, QueueAssumption, Zenon DEF IInv, CompletionEvent, TypeOK, devVars, drvVars, availMem, usedMem
  <1>3. HandlerInv'
    BY <1>1, Ranges, Zenon DEF IInv, CompletionEvent, HandlerInv, devVars, drvVars, availMem, usedMem
  <1>4. KickInv'
    BY <1>1, NotifyFacts, Zenon DEF CompletionEvent, KickInv, Unkicked, devVars, drvVars, availMem, usedMem
  <1>5. IrqInv'
    BY <1>1, NotifyFacts, Zenon DEF CompletionEvent, IrqInv, Visible, Buffered, devVars, drvVars, availMem, usedMem
  <1> QED BY <1>1, <1>2, <1>3, <1>4, <1>5 DEF IInv

\* An empty ring stores avail_event; the length check cannot fail.
LEMMA PopCheckLenStep == ASSUME IInv, PopCheckLen PROVE IInv'
  <1>1. CountInv' /\ OwnedOnce' /\ len' = len /\ Used' = Used /\ NextHead' = NextHead
    BY Quiet, Zenon DEF PopCheckLen, devVars, drvVars, availMem, usedMem
  <1>2. TypeOK'
    BY WrapType, QueueAssumption, Zenon DEF IInv, PopCheckLen, TypeOK, devVars, drvVars, availMem, usedMem
  <1>3. HandlerInv'
    BY <1>1, Ranges DEF IInv, PopCheckLen, HandlerInv, devVars, drvVars, availMem, usedMem
  <1>4. KickInv'
    <2>1. CASE len = 0 /\ EventIdx
      BY <2>1, <1>1, Ranges, SMTT(30) DEF IInv, PopCheckLen, KickInv, TypeOK, Idx, NoStore
    <2>2. CASE len = 0 /\ ~EventIdx
      BY <2>2, <1>1, Ranges, SMTT(30) DEF IInv, PopCheckLen, TypeOK, KickInv, Unkicked,
         availMem, drvVars, usedMem
    <2>3. CASE len # 0
      BY <2>3, <1>1, Ranges, Zenon DEF IInv, PopCheckLen, KickInv
    <2> QED BY <2>1, <2>2, <2>3, Zenon
  <1>5. IrqInv'
    BY <1>1, NotifyFacts, Zenon DEF PopCheckLen, IrqInv, Visible, Buffered, devVars, drvVars, availMem, usedMem
  <1> QED BY <1>1, <1>2, <1>3, <1>4, <1>5 DEF IInv

\* The second look of try_enable_notification, after its fence.
LEMMA RecheckAvailStep == ASSUME IInv, RecheckAvail PROVE IInv'
  <1>1. CountInv' /\ OwnedOnce' /\ len' = len /\ Used' = Used /\ NextHead' = NextHead
    BY Quiet, Zenon DEF RecheckAvail, devVars, drvVars, availMem, usedMem
  <1>2. TypeOK'
    BY WrapType, QueueAssumption, Zenon DEF IInv, RecheckAvail, TypeOK, devVars, drvVars, availMem, usedMem
  <1>3. HandlerInv'
    <2>1. len = 0 <=> next_avail = avail_idx
      BY Distance DEF IInv, TypeOK, len
    <2> QED BY <2>1, <1>1, Ranges, SMTT(30) DEF RecheckAvail, HandlerInv
  <1>4. KickInv'
    <2>1. len = 0 <=> next_avail = avail_idx
      BY Distance DEF IInv, TypeOK, len
    <2>2. Unkicked' = Unkicked
      BY Zenon DEF RecheckAvail, Unkicked, availMem, drvVars
    <2>3. CASE next_avail = avail_idx
      BY <2>1, <2>2, <2>3, <1>1, Ranges
        , SMTT(30) DEF IInv, RecheckAvail, Fence, KickInv, usedMem
    <2>4. CASE next_avail # avail_idx
      BY <2>4, <1>1, Zenon DEF IInv, RecheckAvail, Fence, KickInv
    <2> QED BY <2>3, <2>4, Zenon
  <1>5. IrqInv'
    BY <1>1, NotifyFacts, SMTT(30) DEF RecheckAvail, IrqInv, Visible, Buffered, devVars, drvVars, availMem, usedMem
  <1> QED BY <1>1, <1>2, <1>3, <1>4, <1>5 DEF IInv

\* A chain handed to the engine stays in flight.
LEMMA SubmitStep == ASSUME IInv, Submit PROVE IInv'
  <1>1. CountInv' /\ OwnedOnce' /\ len' = len /\ Used' = Used /\ NextHead' = NextHead
    BY Quiet, Zenon DEF Submit, devVars, drvVars, availMem, usedMem
  <1>2. TypeOK'
    BY WrapType, QueueAssumption, SMTT(30) DEF IInv, Submit, TypeOK, devVars, drvVars, availMem, usedMem
  <1>3. HandlerInv'
    BY <1>1, Ranges, Zenon DEF IInv, Submit, HandlerInv, devVars, drvVars, availMem, usedMem
  <1>4. KickInv'
    BY <1>1, NotifyFacts, ZenonT(40) DEF Submit, KickInv, Unkicked, devVars, drvVars, availMem, usedMem
  <1>5. IrqInv'
    BY <1>1, NotifyFacts, SMTT(30) DEF Submit, IrqInv, Visible, Buffered, devVars, drvVars, availMem, usedMem
  <1> QED BY <1>1, <1>2, <1>3, <1>4, <1>5 DEF IInv

\* prepare_kick forgets num_added only when it interrupts or the driver will look.
LEMMA PrepareKickStep == ASSUME IInv, PrepareKick PROVE IInv'
  <1>1. CountInv' /\ OwnedOnce' /\ len' = len /\ Used' = Used /\ NextHead' = NextHead
    BY Quiet, Zenon DEF PrepareKick, devVars, drvVars, availMem, usedMem
  <1>2. TypeOK'
    <2>1. irq' \in BOOLEAN
      <3> DEFINE need == NeedEvent(used_event, next_used, WSub(next_used, num_added))
      <3>1. irq' = (irq \/ need) \/ irq' = TRUE
        BY Zenon DEF PrepareKick
      <3>2. irq \in BOOLEAN
        BY Zenon DEF IInv, TypeOK
      <3> HIDE DEF need
      <3> QED BY <3>1, <3>2, Zenon
    <2>2. num_added' \in Idx /\ signal' \in BOOLEAN
      <3>1. (num_added' = 0 \/ num_added' = num_added) /\ signal' = FALSE
        BY Zenon DEF PrepareKick
      <3>2. 0 \in Idx
        BY QueueAssumption DEF Idx
      <3>3. num_added \in Idx
        BY Zenon DEF IInv, TypeOK
      <3> QED BY <3>1, <3>2, <3>3, Zenon
    <2> QED BY <2>1, <2>2, Zenon DEF IInv, TypeOK, PrepareKick, drvVars, availMem, usedMem
  <1>3. HandlerInv'
    BY <1>1, Ranges, Zenon DEF IInv, PrepareKick, HandlerInv, devVars, drvVars, availMem, usedMem
  <1>4. KickInv'
    BY <1>1, NotifyFacts, Zenon DEF PrepareKick, KickInv, Unkicked, devVars, drvVars, availMem, usedMem
  <1>5. IrqInv'
    <2>1. Visible' = Visible /\ Buffered' = Buffered /\ Buffered = 0
      BY Distance, Zenon DEF IInv, TypeOK, PrepareKick, Fence, Visible, Buffered, drvVars, usedMem
    <2>2. UNCHANGED <<ipc, used_event, last_used, dpc>> /\ ~signal'
      BY Zenon DEF PrepareKick, drvVars, availMem
    <2>3. CASE EventIdx
      <3>1. num_added' = 0
            /\ (~irq' => ~irq /\ ~NeedEvent(used_event, next_used, WSub(next_used, num_added)))
        BY <2>3, Zenon DEF PrepareKick, IInv, TypeOK
      <3>2. ASSUME ~irq', used_event = last_used PROVE Used = 0 \/ Used > num_added
        <4>1. WSub(next_used, num_added) \in Idx
              /\ WSub(next_used, WSub(next_used, num_added)) = num_added
          BY WrapType, WSubSelf, ZenonT(40) DEF IInv, TypeOK
        <4> QED BY <4>1, <3>1, <3>2, NeedEventFails, Zenon DEF IInv, TypeOK, Used
      <3> QED BY <2>1, <2>2, <2>3, <3>1, <3>2, <1>1, NotifyFacts, SMTT(30) DEF IrqInv
    <2>4. CASE ~EventIdx
      BY <2>1, <2>2, <2>4, <1>1, NotifyFacts, SMTT(30) DEF IrqInv, PrepareKick
    <2> QED BY <2>3, <2>4, Zenon
  <1> QED BY <1>1, <1>2, <1>3, <1>4, <1>5 DEF IInv

\* The handler returns with nothing left to signal.
LEMMA ReturnStep == ASSUME IInv, Return PROVE IInv'
  <1>1. CountInv' /\ OwnedOnce' /\ len' = len /\ Used' = Used /\ NextHead' = NextHead
    BY Quiet, Zenon DEF Return, devVars, drvVars, availMem, usedMem
  <1>2. TypeOK'
    BY WrapType, QueueAssumption, Zenon DEF IInv, Return, TypeOK, devVars, drvVars, availMem, usedMem
  <1>3. HandlerInv'
    BY <1>1, Ranges, Zenon DEF IInv, Return, HandlerInv, devVars, drvVars, availMem, usedMem
  <1>4. KickInv'
    BY <1>1, NotifyFacts, Zenon DEF Return, KickInv, Unkicked, devVars, drvVars, availMem, usedMem
  <1>5. IrqInv'
    BY <1>1, NotifyFacts, ZenonT(40) DEF Return, IrqInv, Visible, Buffered, devVars, drvVars, availMem, usedMem
  <1> QED BY <1>1, <1>2, <1>3, <1>4, <1>5 DEF IInv

\* A used index leaves the store buffer.
LEMMA DrainUsedIdxStep == ASSUME IInv, DrainUsedIdx PROVE IInv'
  <1>1. CountInv' /\ OwnedOnce' /\ len' = len /\ Used' = Used /\ NextHead' = NextHead
    BY Quiet, Zenon DEF DrainUsedIdx, devVars, drvVars, availMem, usedMem
  <1>2. TypeOK'
    <2>1. used_idx' \in Idx
      BY WrapType, Zenon DEF IInv, TypeOK, DrainUsedIdx
    <2> QED BY <2>1 DEF IInv, DrainUsedIdx, TypeOK, devVars, drvVars, availMem
  <1>3. HandlerInv'
    BY <1>1, Ranges, Zenon DEF IInv, DrainUsedIdx, HandlerInv, devVars, drvVars, availMem, usedMem
  <1>4. KickInv'
    BY <1>1, NotifyFacts, Zenon DEF DrainUsedIdx, KickInv, Unkicked, devVars, drvVars, availMem, usedMem
  <1>5. IrqInv'
    <2>1. used_idx \in Idx /\ next_used \in Idx /\ last_used \in Idx
      BY Zenon DEF IInv, TypeOK
    <2>2. Buffered > 0
      BY <2>1, Distance, Ranges, SMTT(30) DEF DrainUsedIdx, Buffered
    <2>3. Visible' = Visible + 1 /\ Buffered' = Buffered - 1
      <3>1. Visible < IdxMod - 1
        BY <2>2, Ranges, SMTT(30)
      <3> QED BY <2>1, <2>2, <3>1, Distance
             , Zenon DEF DrainUsedIdx, Visible, Buffered, devVars, drvVars
    <2> QED BY <2>2, <2>3, <1>1, NotifyFacts
           , SMTT(30) DEF DrainUsedIdx, IrqInv, devVars, drvVars, availMem
  <1> QED BY <1>1, <1>2, <1>3, <1>4, <1>5 DEF IInv

\* avail_event leaves the store buffer, behind the used indices.
LEMMA DrainAvailEventStep == ASSUME IInv, DrainAvailEvent PROVE IInv'
  <1>1. CountInv' /\ OwnedOnce' /\ len' = len /\ Used' = Used /\ NextHead' = NextHead
    BY Quiet, ZenonT(40) DEF DrainAvailEvent, devVars, drvVars, availMem, usedMem
  <1>2. TypeOK'
    BY WrapType, QueueAssumption, SMTT(30) DEF IInv, DrainAvailEvent, TypeOK, devVars, drvVars, availMem, usedMem
  <1>3. HandlerInv'
    BY <1>1, Ranges, Zenon DEF IInv, DrainAvailEvent, HandlerInv, devVars, drvVars, availMem, usedMem
  <1>4. KickInv'
    BY <1>1, NotifyFacts, Zenon DEF DrainAvailEvent, KickInv, Unkicked, devVars, drvVars, availMem, usedMem
  <1>5. IrqInv'
    BY <1>1, NotifyFacts, ZenonT(40) DEF DrainAvailEvent, IrqInv, Visible, Buffered, devVars, drvVars, availMem, usedMem
  <1> QED BY <1>1, <1>2, <1>3, <1>4, <1>5 DEF IInv

\* The driver tests avail_event and kicks when its entries cross it.
LEMMA DriverKickStep == ASSUME IInv, DriverKick PROVE IInv'
  <1>1. CountInv' /\ OwnedOnce' /\ len' = len /\ Used' = Used /\ NextHead' = NextHead
    BY Quiet, ZenonT(40) DEF DriverKick, devVars, drvVars, availMem, usedMem
  <1>2. TypeOK'
    <2>1. kick' \in BOOLEAN /\ kicked_idx' \in Idx
      BY Zenon DEF IInv, TypeOK, DriverKick
    <2> QED BY <2>1, SMTT(30) DEF IInv, TypeOK, DriverKick, devVars, availMem, usedMem
  <1>3. HandlerInv'
    BY <1>1, Ranges, ZenonT(40) DEF IInv, DriverKick, HandlerInv, devVars, drvVars, availMem, usedMem
  <1>4. KickInv'
    <2>1. UNCHANGED <<dpc, resume, aev_buffer, avail_event, next_avail>>
      BY Zenon DEF DriverKick, devVars, usedMem
    <2>2. ASSUME ~kick', dpc \in {"exit", "idle"}, ~resume,
                 ~(len > 0 /\ NextHead \in Malformed)
          PROVE  len = 0 /\ (EventIdx => avail_event = next_avail)
      <3>1. ~kick /\ EventIdx /\ ~NeedEvent(avail_event, avail_idx, kicked_idx)
        BY <2>2, QueueAssumption, ZenonT(40) DEF DriverKick, IInv, TypeOK
      <3>2. len <= Unkicked /\ avail_event = next_avail
        BY <2>2, <3>1, Zenon DEF IInv, KickInv
      <3>3. len = 0 \/ len > Unkicked
        BY <3>1, <3>2, NeedEventFails, Zenon DEF IInv, TypeOK, len, Unkicked
      <3> QED BY <3>2, <3>3, Ranges
    <2>3. Unkicked' = 0
      <3>1. avail_idx \in Idx /\ kicked_idx' = avail_idx /\ avail_idx' = avail_idx
        BY Zenon DEF DriverKick, IInv, TypeOK, availMem
      <3> QED BY <3>1, Distance, Zenon DEF Unkicked
    <2> QED BY <2>1, <2>2, <2>3, <1>1, Ranges, SMTT(30) DEF IInv, KickInv
  <1>5. IrqInv'
    BY <1>1, NotifyFacts, ZenonT(40) DEF DriverKick, IrqInv, Visible, Buffered, devVars, drvVars, availMem, usedMem
  <1> QED BY <1>1, <1>2, <1>3, <1>4, <1>5 DEF IInv

\* The driver's interrupt handler starts.
LEMMA DriverIrqStep == ASSUME IInv, DriverIrq PROVE IInv'
  <1>1. CountInv' /\ OwnedOnce' /\ len' = len /\ Used' = Used /\ NextHead' = NextHead
    BY Quiet, ZenonT(40) DEF DriverIrq, devVars, drvVars, availMem, usedMem
  <1>2. TypeOK'
    BY WrapType, QueueAssumption, Zenon DEF IInv, DriverIrq, TypeOK, devVars, drvVars, availMem, usedMem
  <1>3. HandlerInv'
    BY <1>1, Ranges, Zenon DEF IInv, DriverIrq, HandlerInv, devVars, drvVars, availMem, usedMem
  <1>4. KickInv'
    BY <1>1, NotifyFacts, Zenon DEF DriverIrq, KickInv, Unkicked, devVars, drvVars, availMem, usedMem
  <1>5. IrqInv'
    BY <1>1, NotifyFacts, Zenon DEF DriverIrq, IrqInv, Visible, Buffered, devVars, drvVars, availMem, usedMem
  <1> QED BY <1>1, <1>2, <1>3, <1>4, <1>5 DEF IInv

\* The driver stores used_event where it stopped.
LEMMA DriverEnableIrqStep == ASSUME IInv, DriverEnableIrq PROVE IInv'
  <1>1. CountInv' /\ OwnedOnce' /\ len' = len /\ Used' = Used /\ NextHead' = NextHead
    BY Quiet, ZenonT(40) DEF DriverEnableIrq, devVars, drvVars, availMem, usedMem
  <1>2. TypeOK'
    BY WrapType, QueueAssumption, SMTT(30) DEF IInv, DriverEnableIrq, TypeOK, devVars, drvVars, availMem, usedMem
  <1>3. HandlerInv'
    BY <1>1, Ranges, Zenon DEF IInv, DriverEnableIrq, HandlerInv, devVars, drvVars, availMem, usedMem
  <1>4. KickInv'
    BY <1>1, NotifyFacts, Zenon DEF DriverEnableIrq, KickInv, Unkicked, devVars, drvVars, availMem, usedMem
  <1>5. IrqInv'
    <2>1. /\ UNCHANGED <<dpc, signal, num_added, irq, last_used>>
          /\ Visible' = Visible /\ Buffered' = Buffered
          /\ used_event' = last_used /\ ipc = "drain" /\ ipc' = "recheck"
      BY Zenon DEF DriverEnableIrq, Visible, Buffered, devVars, usedMem
    <2>2. Visible = 0
      <3>1. used_idx \in Idx /\ last_used = used_idx
        BY ZenonT(40) DEF IInv, TypeOK, DriverEnableIrq
      <3> QED BY <3>1, Distance, Zenon DEF Visible
    <2> QED BY <1>1, <2>1, <2>2, NotifyFacts, SMTT(30) DEF IrqInv
  <1> QED BY <1>1, <1>2, <1>3, <1>4, <1>5 DEF IInv

\* The driver looks at the used index once more.
LEMMA DriverRecheckStep == ASSUME IInv, DriverRecheck PROVE IInv'
  <1>1. CountInv' /\ OwnedOnce' /\ len' = len /\ Used' = Used /\ NextHead' = NextHead
    BY Quiet, ZenonT(40) DEF DriverRecheck, devVars, drvVars, availMem, usedMem
  <1>2. TypeOK'
    BY WrapType, QueueAssumption, SMTT(30) DEF IInv, DriverRecheck, TypeOK, devVars, drvVars, availMem, usedMem
  <1>3. HandlerInv'
    BY <1>1, Ranges, Zenon DEF IInv, DriverRecheck, HandlerInv, devVars, drvVars, availMem, usedMem
  <1>4. KickInv'
    BY <1>1, NotifyFacts, Zenon DEF DriverRecheck, KickInv, Unkicked, devVars, drvVars, availMem, usedMem
  <1>5. IrqInv'
    <2>1. Visible = 0 <=> last_used = used_idx
      <3>1. last_used \in Idx /\ used_idx \in Idx
        BY Zenon DEF IInv, TypeOK
      <3> QED BY <3>1, Distance, SMTT(30) DEF Visible
    <2>2. Visible' = Visible /\ Buffered' = Buffered
      BY Zenon DEF DriverRecheck, Visible, Buffered, devVars, usedMem
    <2>3. /\ UNCHANGED <<dpc, signal, num_added, irq, last_used, used_event>>
          /\ ipc = "recheck"
          /\ ipc' = IF last_used = used_idx THEN "idle" ELSE "drain"
      BY Zenon DEF DriverRecheck, devVars, availMem
    <2> QED BY <2>1, <2>2, <2>3, <1>1, NotifyFacts, SMTT(30) DEF IrqInv
  <1> QED BY <1>1, <1>2, <1>3, <1>4, <1>5 DEF IInv

\* do_pop_unchecked takes a head or leaves a malformed one where it is.
LEMMA DoPopUncheckedStep == ASSUME IInv, DoPopUnchecked PROVE IInv'
  <1>1. CASE NextHead \in Malformed
    <2>1. CountInv' /\ OwnedOnce' /\ len' = len /\ Used' = Used /\ NextHead' = NextHead
      BY <1>1, Quiet, Zenon DEF DoPopUnchecked, drvVars, availMem, usedMem
    <2>2. TypeOK' /\ HandlerInv'
      BY <1>1, <2>1, ZenonT(40) DEF IInv, TypeOK, HandlerInv, DoPopUnchecked, drvVars, availMem, usedMem
    <2>3. KickInv'
      BY <1>1, <2>1, NotifyFacts, Zenon DEF KickInv, HandlerInv, DoPopUnchecked
    <2>4. IrqInv'
      BY <1>1, <2>1, NotifyFacts, Zenon DEF IrqInv, Visible, Buffered,
         DoPopUnchecked, drvVars, availMem, usedMem
    <2> QED BY <2>1, <2>2, <2>3, <2>4, Zenon DEF IInv
  <1>2. CASE NextHead \notin Malformed
    <2>1. CountInv' /\ OwnedOnce' /\ HandlerInv' /\ len' = len - 1 /\ Used' = Used
      BY <1>2, PopOwnership, Zenon
    <2>2. NextHead \in Heads
      <3>1. avail_ring \in [Heads -> Heads] /\ next_avail \in Idx
        BY Zenon DEF IInv, TypeOK
      <3>2. Slot(next_avail) \in Heads
        BY <3>1, QueueAssumption, SMTT(30) DEF Slot, Heads, Idx
      <3> QED BY <3>1, <3>2, Zenon DEF NextHead
    <2>3. TypeOK'
      BY <1>2, <2>2, WrapType, ZenonT(40) DEF IInv, TypeOK, DoPopUnchecked, drvVars, availMem, usedMem
    <2>4. KickInv'
      BY <1>2, <2>1, NotifyFacts, Zenon DEF KickInv, DoPopUnchecked
    <2>5. IrqInv'
      BY <1>2, <2>1, NotifyFacts, Zenon DEF IrqInv, Visible, Buffered,
         DoPopUnchecked, drvVars, availMem, usedMem
    <2> QED BY <2>1, <2>3, <2>4, <2>5, Zenon DEF IInv
  <1> QED BY <1>1, <1>2, Zenon

\* undo_pop puts the chain back and waits for resume.
LEMMA UndoPopStep == ASSUME IInv, UndoPop PROVE IInv'
  <1>1. CountInv' /\ OwnedOnce' /\ HandlerInv' /\ len' = len + 1 /\ Used' = Used
    BY UndoOwnership, Zenon
  <1>2. TypeOK'
    BY WrapType, Zenon DEF IInv, TypeOK, UndoPop, drvVars, availMem, usedMem
  <1>3. KickInv'
    BY <1>1, Zenon DEF IInv, KickInv, UndoPop
  <1>4. IrqInv'
    BY <1>1, NotifyFacts, Zenon DEF IrqInv, Visible, Buffered, UndoPop, drvVars,
       availMem, usedMem
  <1> QED BY <1>1, <1>2, <1>3, <1>4, Zenon DEF IInv

\* The part of add_used that Execute and Complete share.
LEMMA AddUsedStep ==
    ASSUME IInv, NEW h \in inflight, AddUsed(h), dpc' # "idle"
    PROVE  /\ CountInv' /\ OwnedOnce' /\ IrqInv' /\ len' = len
           /\ NextHead' = NextHead /\ Unkicked' = Unkicked
           /\ used_ring' \in [Heads -> Heads] /\ num_added' \in Idx
           /\ next_used' \in Idx /\ inflight' \subseteq Heads
  <1>1. CountInv' /\ OwnedOnce' /\ len' = len /\ Used' = Used + 1
    BY AddUsedOwnership, Zenon
  <1>2. NextHead' = NextHead /\ Unkicked' = Unkicked
    BY Zenon DEF AddUsed, NextHead, Unkicked, availMem, drvVars
  <1>3. h \in Heads /\ used_idx \in Idx /\ last_used \in Idx /\ next_used \in Idx
        /\ num_added \in Idx /\ used_ring \in [Heads -> Heads]
    BY ZenonT(40) DEF IInv, TypeOK
  <1>4. /\ used_ring' \in [Heads -> Heads] /\ num_added' \in Idx
        /\ next_used' \in Idx /\ inflight' \subseteq Heads
    BY <1>3, WrapType, Zenon DEF AddUsed, IInv, TypeOK
  <1>5. Visible' = Visible
    BY Zenon DEF AddUsed, Visible, drvVars
  <1>6. Buffered' = Buffered + 1
    <2>1. Used < QueueSize
      BY Counts, SMTT(30) DEF IInv
    <2>2. Buffered < IdxMod - 1
      BY <2>1, Ranges, SMTT(30)
    <2> QED BY <2>2, <1>3, Distance, Zenon DEF Buffered, AddUsed
  <1>7. EventIdx => num_added' = num_added + 1 /\ num_added' <= MaxBatch
    BY <1>3, QueueAssumption, SMTT(30) DEF AddUsed, WInc, Idx
  <1>8. UNCHANGED <<ipc, irq, used_event, last_used>> /\ signal'
    BY Zenon DEF AddUsed, drvVars, availMem
  <1>9. IrqInv'
    <2>1. CASE EventIdx
      BY <1>1, <1>5, <1>6, <1>7, <1>8, <2>1, NotifyFacts, SMTT(30) DEF IrqInv
    <2>2. CASE ~EventIdx
      BY <1>1, <1>5, <1>6, <1>8, <2>2, NotifyFacts, SMTT(30) DEF IrqInv
    <2> QED BY <2>1, <2>2, ZenonT(30)
  <1> QED BY <1>1, <1>2, <1>4, <1>9, Zenon

\* A synchronous request goes to the used ring.
LEMMA ExecuteStep == ASSUME IInv, Execute PROVE IInv'
  <1>1. cur \in inflight
    BY Zenon DEF IInv, HandlerInv, Execute
  <1>2. /\ CountInv' /\ OwnedOnce' /\ IrqInv' /\ len' = len
        /\ NextHead' = NextHead /\ Unkicked' = Unkicked
        /\ used_ring' \in [Heads -> Heads] /\ num_added' \in Idx
        /\ next_used' \in Idx /\ inflight' \subseteq Heads
    BY <1>1, AddUsedStep, ZenonT(40) DEF Execute
  <1>3. TypeOK'
    BY <1>2, SMTT(30) DEF IInv, TypeOK, Execute, AddUsed, drvVars, availMem
  <1>4. HandlerInv' /\ KickInv'
    BY <1>2, Zenon DEF IInv, HandlerInv, KickInv, Execute, AddUsed
  <1> QED BY <1>2, <1>3, <1>4, Zenon DEF IInv

\* A completed request goes to the used ring, in any order.
LEMMA CompleteStep == ASSUME IInv, Complete PROVE IInv'
  <1>1. PICK h \in inflight : AddUsed(h)
    BY Zenon DEF Complete
  <1>2. /\ CountInv' /\ OwnedOnce' /\ IrqInv' /\ len' = len
        /\ NextHead' = NextHead /\ Unkicked' = Unkicked
        /\ used_ring' \in [Heads -> Heads] /\ num_added' \in Idx
        /\ next_used' \in Idx /\ inflight' \subseteq Heads
    BY <1>1, AddUsedStep, ZenonT(40) DEF Complete
  <1>3. TypeOK'
    BY <1>1, <1>2, SMTT(30) DEF IInv, TypeOK, Complete, AddUsed, drvVars, availMem
  <1>4. HandlerInv' /\ KickInv'
    BY <1>1, <1>2, ZenonT(40) DEF IInv, HandlerInv, KickInv, Complete, AddUsed
  <1> QED BY <1>2, <1>3, <1>4, Zenon DEF IInv

\* The driver offers a free head.
LEMMA DriverAddStep == ASSUME IInv, DriverAdd PROVE IInv'
  <1>1. /\ CountInv' /\ OwnedOnce' /\ HandlerInv'
        /\ avail_ring' \in [Heads -> Heads] /\ free' \subseteq Heads
        /\ len' = len + 1 /\ Used' = Used
        /\ len > 0 => NextHead' = NextHead
    BY AddOwnership, ZenonT(40)
  <1>2. TypeOK'
    <2>1. avail_idx' \in Idx
      BY WrapType, ZenonT(40) DEF IInv, TypeOK, DriverAdd
    <2>2. UNCHANGED <<devVars, last_used, kicked_idx, ipc, used_event, usedMem, kick, irq>>
      BY Zenon DEF DriverAdd
    <2> QED BY <1>1, <2>1, <2>2, SMTT(30) DEF IInv, TypeOK, devVars, usedMem
  <1>3. Unkicked' = Unkicked + 1
    <2>1. /\ avail_idx \in Idx /\ kicked_idx \in Idx
          /\ avail_idx' = WInc(avail_idx) /\ kicked_idx' = kicked_idx
          /\ WSub(avail_idx, kicked_idx) < IdxMod - 1
      BY ZenonT(40) DEF IInv, TypeOK, DriverAdd
    <2>2. WSub(WInc(avail_idx), kicked_idx) = WSub(avail_idx, kicked_idx) + 1
      BY <2>1, Distance, ZenonT(40)
    <2> QED BY <2>1, <2>2, ZenonT(40) DEF Unkicked
  <1>4. KickInv'
    <2>1. KickInv /\ len \in Nat /\ Unkicked \in Nat
      BY Ranges DEF IInv
    <2>2. UNCHANGED <<aev_buffer, dpc, next_avail, avail_event, kick, resume>>
      BY Zenon DEF DriverAdd, devVars, usedMem
    <2>3. CASE len = 0
      BY <1>1, <1>3, <2>1, <2>2, <2>3, SMTT(30) DEF KickInv
    <2>4. CASE len > 0
      BY <1>1, <1>3, <2>1, <2>2, <2>4, SMTT(30) DEF KickInv
    <2> QED BY <2>1, <2>3, <2>4, SMTT(30)
  <1>5. IrqInv'
    BY <1>1, NotifyFacts, Zenon DEF IrqInv, Visible, Buffered, DriverAdd, devVars,
       usedMem
  <1> QED BY <1>1, <1>2, <1>4, <1>5, ZenonT(40) DEF IInv

\* The driver takes a used head back.
LEMMA DriverReclaimStep == ASSUME IInv, DriverReclaim PROVE IInv'
  <1>1. CountInv' /\ OwnedOnce' /\ free' \subseteq Heads
        /\ len' = len /\ Used' = Used - 1 /\ Used > 0
    BY ReclaimOwnership, ZenonT(40)
  <1>2. TypeOK'
    BY <1>1, WrapType, SMTT(30) DEF IInv, TypeOK, DriverReclaim, devVars, availMem, usedMem
  <1>3. HandlerInv' /\ KickInv'
    BY <1>1, Zenon DEF IInv, HandlerInv, KickInv, NextHead, Unkicked, DriverReclaim,
       devVars, availMem, usedMem
  <1>4. Visible' = Visible - 1 /\ Buffered' = Buffered
    <2>1. /\ last_used \in Idx /\ used_idx \in Idx /\ last_used # used_idx
          /\ last_used' = WInc(last_used) /\ used_idx' = used_idx
          /\ next_used' = next_used
      BY Zenon DEF IInv, TypeOK, DriverReclaim, devVars, usedMem
    <2>2. WSub(used_idx, last_used) \in Idx /\ WSub(used_idx, last_used) # 0
      BY <2>1, Distance, WrapType, Zenon
    <2>3. WSub(used_idx, last_used) > 0
      BY <2>2 DEF Idx
    <2>4. WSub(used_idx, WInc(last_used)) = WSub(used_idx, last_used) - 1
      BY <2>1, <2>3, Distance, ZenonT(40)
    <2> QED BY <2>1, <2>4, ZenonT(40) DEF Visible, Buffered
  <1>5. IrqInv'
    <2>1. /\ IrqInv /\ Visible \in Nat /\ Buffered \in Nat /\ Used \in Nat
          /\ num_added \in Nat /\ MaxBatch \in Nat
      BY Ranges DEF IInv
    <2>2. /\ UNCHANGED <<dpc, signal, used_event, num_added, ipc, irq>>
          /\ ipc = "drain"
      BY Zenon DEF DriverReclaim, devVars, availMem
    <2> QED BY <1>1, <1>4, <2>1, <2>2, SMTT(30) DEF IrqInv
  <1> QED BY <1>1, <1>2, <1>3, <1>5, ZenonT(40) DEF IInv

----------------------------------------------------------------------------
(* The theorems.                                                           *)

\* Queue::new and a driver that owns every head satisfy the invariant.
LEMMA InitIInv == Init => IInv
  <1> SUFFICES ASSUME Init PROVE IInv
    BY Zenon
  <1>1. 0 \in Idx /\ WSub(0, 0) = 0
    BY QueueAssumption DEF Idx, WSub
  <1>2. TypeOK
    <2>1. 0 \in Heads
      BY QueueAssumption DEF Heads
    <2>2. [s \in Heads |-> 0] \in [Heads -> Heads]
      BY <2>1, Zenon
    <2> QED BY <1>1, <2>2, Zenon DEF Init, TypeOK
  <1>3. len = 0 /\ Used = 0 /\ Visible = 0 /\ Buffered = 0 /\ Unkicked = 0
    BY <1>1, ZenonT(40) DEF Init, len, Used, Visible, Buffered, Unkicked
  <1>4. CountInv
    <2>1. Cardinality(Heads) = QueueSize
      BY FS_Interval, QueueAssumption, SMTT(30) DEF Heads
    <2> QED BY <2>1, <1>3, FS_EmptySet, QueueAssumption, SMTT(30) DEF Init, CountInv
  <1>5. AvailHeads = {} /\ UsedHeads = {}
    BY <1>3, SMTT(30) DEF AvailHeads, UsedHeads, RingHeads, Used
  <1>6. OwnedOnce
    BY <1>3, <1>5, SMTT(30) DEF Init, OwnedOnce, RingDistinct, Used
  <1>7. HandlerInv /\ KickInv /\ IrqInv
    BY <1>3, QueueAssumption DEF Init, HandlerInv, KickInv, IrqInv
  <1> QED BY <1>2, <1>4, <1>6, <1>7, ZenonT(40) DEF IInv

\* Every step of the device, the store buffer or the driver preserves it.
LEMMA NextIInv == IInv /\ [Next]_vars => IInv'
  <1> SUFFICES ASSUME IInv, [Next]_vars PROVE IInv'
    BY Zenon
  <1>1. CASE Device
    BY <1>1, QueueEventStep, ResumeEventStep, CompletionEventStep, PopCheckLenStep,
       RecheckAvailStep, DoPopUncheckedStep, UndoPopStep, SubmitStep, ExecuteStep,
       CompleteStep, PrepareKickStep, ReturnStep, DrainUsedIdxStep,
       DrainAvailEventStep, ZenonT(40) DEF Device
  <1>2. CASE Driver
    BY <1>2, DriverAddStep, DriverKickStep, DriverIrqStep, DriverReclaimStep,
       DriverEnableIrqStep, DriverRecheckStep, ZenonT(40) DEF Driver
  <1>3. CASE UNCHANGED vars
    <2>1. CountInv' /\ OwnedOnce' /\ len' = len /\ Used' = Used /\ NextHead' = NextHead
      BY <1>3, Quiet, ZenonT(40) DEF vars, devVars, drvVars, availMem, usedMem
    <2>2. TypeOK'
      <3>1. TypeOK
        BY Zenon DEF IInv
      <3> QED BY <1>3, <3>1, SMTT(30) DEF TypeOK, vars, devVars, drvVars, availMem, usedMem
    <2>3. HandlerInv' /\ KickInv'
      BY <1>3, <2>1, ZenonT(40) DEF IInv, HandlerInv, KickInv, Unkicked, vars, devVars, drvVars,
         availMem, usedMem
    <2>4. IrqInv'
      BY <1>3, <2>1, SMTT(30) DEF IInv, IrqInv, Visible, Buffered, vars, devVars, drvVars,
         availMem, usedMem
    <2> QED BY <2>1, <2>2, <2>3, <2>4, ZenonT(40) DEF IInv
  <1> QED BY <1>1, <1>2, <1>3, Zenon DEF Next

\* IInv is an invariant of the queue, for every size, index width and setting
\* of VIRTIO_F_RING_EVENT_IDX.
THEOREM InductiveInvariant == Spec => []IInv
  BY InitIInv, NextIInv, PTL DEF Spec

\* The device's and the driver's variables keep their types.
THEOREM TypeCorrect == Spec => []TypeOK
  <1>1. IInv => TypeOK
    BY Zenon DEF IInv
  <1> QED BY <1>1, InductiveInvariant, PTL

\* The panic of pop and try_enable_notification is unreachable.
THEOREM PanicUnreachable == Spec => []NoPanic
  <1>1. IInv => NoPanic
    <2>1. ASSUME IInv PROVE len <= QueueSize /\ dpc # "panic"
      BY <2>1, Ranges, SMTT(30) DEF IInv, HandlerInv
    <2> QED BY <2>1, Zenon DEF NoPanic
  <1> QED BY <1>1, InductiveInvariant, PTL

\* Every head always has exactly one owner: pop, undo_pop and add_used neither
\* lose nor duplicate a buffer, and no ring entry is overwritten while live.
THEOREM SingleOwner == Spec => []OwnedOnce
  <1>1. IInv => OwnedOnce
    BY ZenonT(40) DEF IInv
  <1> QED BY <1>1, InductiveInvariant, PTL

\* try_enable_notification loses no notification of the driver.
THEOREM NoNotificationLost == Spec => []NoLostKick
  <1>1. IInv => NoLostKick
    <2> SUFFICES ASSUME IInv, dpc = "idle", ~kick, ~resume, kicked_idx = avail_idx
                 PROVE  len = 0 \/ NextHead \in Malformed
      BY Zenon DEF NoLostKick
    <2>1. Unkicked = 0
      BY Distance, ZenonT(40) DEF IInv, TypeOK, Unkicked
    <2> QED BY <2>1, Ranges, SMTT(30) DEF IInv, KickInv
  <1> QED BY <1>1, InductiveInvariant, PTL

\* prepare_kick suppresses no interrupt the driver is waiting for.
THEOREM NoInterruptLost == Spec => []NoLostIrq
  <1>1. IInv => NoLostIrq
    <2> SUFFICES ASSUME IInv, dpc = "idle", ~irq, ipc = "idle"
                 PROVE  last_used = next_used
      BY ZenonT(40) DEF NoLostIrq
    <2>1. Used = 0
      BY Ranges, QueueAssumption, SMTT(30) DEF IInv, IrqInv
    <2> QED BY <2>1, Distance, ZenonT(40) DEF IInv, TypeOK, Used
  <1> QED BY <1>1, InductiveInvariant, PTL

----------------------------------------------------------------------------
(* The virtqueue implements the pool of buffers.                           *)

\* The first n entries of a ring from index `start`, as a sequence.
Window(ring, start, n) == [k \in 1..n |-> ring[Slot(WAdd(start, k - 1))]]

\* The chain that can be put back is held only between the pop and its outcome.
CurInv == dpc # "held" => cur = NoHead

----------------------------------------------------------------------------
(* Rings as sequences.                                                     *)

\* A window of a ring is a sequence of heads.
LEMMA WindowSeq ==
    ASSUME NEW ring \in [Heads -> Heads], NEW start \in Idx, NEW n \in 0..QueueSize
    PROVE  /\ Window(ring, start, n) \in Seq(Heads) /\ Len(Window(ring, start, n)) = n
           /\ \A k \in 1..n : Window(ring, start, n)[k] = ring[Slot(WAdd(start, k - 1))]
           /\ \A j \in 0..(QueueSize - 1) : Slot(WAdd(start, j)) \in Heads
  <1>1. \A j \in 0..(QueueSize - 1) : Slot(WAdd(start, j)) \in Heads
    BY SlotInjective, ZenonT(40)
  <1>2. \A k \in 1..n : k - 1 \in 0..(QueueSize - 1)
    BY QueueAssumption
  <1>3. \A k \in 1..n : ring[Slot(WAdd(start, k - 1))] \in Heads
    BY <1>1, <1>2, ZenonT(40)
  <1>4. Window(ring, start, n) \in [1..n -> Heads]
    BY <1>3, ZenonT(40) DEF Window
  <1>5. n \in Nat
    BY QueueAssumption
  <1> QED BY <1>1, <1>4, <1>5, SMTT(30) DEF Window

\* Writing a head behind a window appends it.
LEMMA WindowPush ==
    ASSUME NEW ring \in [Heads -> Heads], NEW start \in Idx,
           NEW n \in 0..(QueueSize - 1), NEW h \in Heads
    PROVE  Window([ring EXCEPT ![Slot(WAdd(start, n))] = h], start, n + 1)
             = Append(Window(ring, start, n), h)
  <1> DEFINE new == [ring EXCEPT ![Slot(WAdd(start, n))] = h]
             W == Window(ring, start, n)
             V == Window(new, start, n + 1)
  <1>1. n \in 0..QueueSize /\ n + 1 \in 0..QueueSize /\ n \in Nat
    BY QueueAssumption, SMTT(30)
  <1>2. Slot(WAdd(start, n)) \in Heads
    BY SlotInjective, Zenon
  <1>3. new \in [Heads -> Heads] /\ new[Slot(WAdd(start, n))] = h
    BY <1>2, Zenon
  <1>4. /\ W \in Seq(Heads) /\ Len(W) = n
        /\ \A k \in 1..n : W[k] = ring[Slot(WAdd(start, k - 1))]
    BY <1>1, WindowSeq, Zenon
  <1>5. \A k \in 1..n : new[Slot(WAdd(start, k - 1))] = ring[Slot(WAdd(start, k - 1))]
    <2> TAKE k \in 1..n
    <2>1. k - 1 \in 0..(QueueSize - 1) /\ k - 1 # n
      BY <1>1, QueueAssumption
    <2>2. /\ Slot(WAdd(start, k - 1)) \in Heads
          /\ Slot(WAdd(start, k - 1)) # Slot(WAdd(start, n))
      BY <2>1, SlotInjective, Zenon
    <2> QED BY <2>2, Zenon
  <1> HIDE DEF new, W
  <1>6. /\ V \in Seq(Heads) /\ Len(V) = n + 1
        /\ \A k \in 1..(n + 1) : V[k] = new[Slot(WAdd(start, k - 1))]
    BY <1>1, <1>3, WindowSeq, ZenonT(40)
  <1> HIDE DEF V
  <1>7. \A k \in 1..n : V[k] = W[k]
    BY <1>1, <1>4, <1>5, <1>6, SMTT(30)
  <1>8. V[n + 1] = h
    <2>1. (n + 1) - 1 = n /\ n + 1 \in 1..(n + 1)
      BY <1>1, SMTT(30)
    <2> QED BY <1>3, <1>6, <2>1, Zenon
  <1> DEFINE A == Append(W, h)
  <1>9. /\ A \in Seq(Heads) /\ Len(A) = n + 1 /\ A[n + 1] = h
        /\ \A k \in 1..n : A[k] = W[k]
    BY <1>4
  <1> HIDE DEF A
  <1>10. \A k \in 1..(n + 1) : V[k] = A[k]
    <2> TAKE k \in 1..(n + 1)
    <2>1. k \in 1..n \/ k = n + 1
      BY <1>1
    <2> QED BY <2>1, <1>7, <1>8, <1>9, ZenonT(40)
  <1>11. V = A
    BY <1>6, <1>9, <1>10, SeqEqual, Zenon
  <1> QED BY <1>11, Zenon DEF A, V, W, new

\* Advancing the start of a window takes its first head off.
LEMMA WindowPop ==
    ASSUME NEW ring \in [Heads -> Heads], NEW start \in Idx, NEW n \in 1..QueueSize
    PROVE  /\ Window(ring, start, n) # <<>>
           /\ Head(Window(ring, start, n)) = ring[Slot(start)]
           /\ Tail(Window(ring, start, n)) = Window(ring, WInc(start), n - 1)
           /\ Window(ring, start, n) = <<ring[Slot(start)]>> \o Window(ring, WInc(start), n - 1)
  <1> DEFINE W == Window(ring, start, n)
             V == Window(ring, WInc(start), n - 1)
  <1>1. /\ n \in 0..QueueSize /\ n - 1 \in 0..QueueSize /\ n \in Nat /\ n - 1 \in Nat
        /\ WInc(start) \in Idx
    BY QueueAssumption, WrapType
  <1>2. /\ W \in Seq(Heads) /\ Len(W) = n
        /\ \A k \in 1..n : W[k] = ring[Slot(WAdd(start, k - 1))]
    BY <1>1, WindowSeq, Zenon
  <1>3. /\ V \in Seq(Heads) /\ Len(V) = n - 1
        /\ \A k \in 1..(n - 1) : V[k] = ring[Slot(WAdd(WInc(start), k - 1))]
    BY <1>1, WindowSeq, ZenonT(40)
  <1> HIDE DEF W, V
  <1>4. \A k \in 1..(n - 1) : V[k] = W[k + 1]
    <2> TAKE k \in 1..(n - 1)
    <2>1. k - 1 \in 0..(IdxMod - 2) /\ (k - 1) + 1 = (k + 1) - 1 /\ k + 1 \in 1..n
      BY <1>1, QueueAssumption
    <2>2. WAdd(WInc(start), k - 1) = WAdd(start, (k - 1) + 1)
      BY <2>1, WAddShift, Zenon
    <2> QED BY <1>2, <1>3, <2>1, <2>2, ZenonT(30)
  <1>5. W[1] = ring[Slot(start)]
    <2>1. 1 \in 1..n /\ 1 - 1 = 0 /\ 0 \in 0..(IdxMod - 2)
      BY QueueAssumption, SMTT(30)
    <2> QED BY <1>2, <2>1, WAddShift, ZenonT(40)
  <1>6. W # <<>> /\ Head(W) = W[1]
    BY <1>1, <1>2, SMTT(30)
  <1> DEFINE T == Tail(W)
  <1>7. T \in Seq(Heads) /\ Len(T) = n - 1 /\ \A k \in 1..(n - 1) : T[k] = W[k + 1]
    BY <1>2, <1>6, SMTT(30)
  <1> HIDE DEF T
  <1>8. T = V
    BY <1>3, <1>4, <1>7, SeqEqual, ZenonT(40)
  <1> DEFINE S == <<W[1]>>
             C == S \o V
  <1>9. W[1] \in Heads /\ S \in Seq(Heads) /\ Len(S) = 1 /\ S[1] = W[1]
    BY <1>1, <1>2, SMTT(30)
  <1> HIDE DEF S
  <1>10. /\ C \in Seq(Heads) /\ Len(C) = Len(S) + Len(V)
         /\ \A k \in 1..(Len(S) + Len(V)) :
              C[k] = IF k <= Len(S) THEN S[k] ELSE V[k - Len(S)]
    BY <1>3, <1>9, ConcatProperties, ZenonT(40)
  <1> HIDE DEF C
  <1>11. Len(C) = n /\ \A k \in 1..n : C[k] = W[k]
    <2>1. Len(S) + Len(V) = n
      BY <1>1, <1>3, <1>9, SMTT(30)
    <2>2. \A k \in 1..n : C[k] = W[k]
      <3> TAKE k \in 1..n
      <3>1. CASE k = 1
        BY <1>9, <1>10, <2>1, <3>1, SMTT(30)
      <3>2. CASE k # 1
        <4>1. k - 1 \in 1..(n - 1) /\ (k - 1) + 1 = k /\ ~(k <= 1)
          BY <1>1, <3>2, SMTT(30)
        <4>2. C[k] = V[k - 1]
          BY <1>9, <1>10, <2>1, <4>1, ZenonT(40)
        <4>3. V[k - 1] = W[k]
          BY <1>4, <4>1, Zenon
        <4> QED BY <4>2, <4>3, ZenonT(40)
      <3> QED BY <3>1, <3>2, ZenonT(40)
    <2> QED BY <1>10, <2>1, <2>2, Zenon
  <1>12. C = W
    BY <1>2, <1>10, <1>11, SeqEqual, ZenonT(40)
  <1> QED BY <1>5, <1>6, <1>8, <1>12, ZenonT(40) DEF W, V, T, C, S

----------------------------------------------------------------------------
(* Every step is a step of the pool.                                       *)

\* The mapped FIFOs are windows of the rings.
LEMMA PoolFacts ==
    ASSUME IInv
    PROVE  /\ AvailSeq = Window(avail_ring, next_avail, len)
           /\ UsedSeq = Window(used_ring, last_used, Used)
           /\ len \in 0..QueueSize /\ Used \in 0..QueueSize
           /\ next_avail \in Idx /\ avail_idx \in Idx /\ next_used \in Idx
           /\ last_used \in Idx
           /\ avail_ring \in [Heads -> Heads] /\ used_ring \in [Heads -> Heads]
           /\ inflight \subseteq Heads /\ free \subseteq Heads
  BY Ranges, ZenonT(40) DEF AvailSeq, UsedSeq, Window, IInv, TypeOK

\* What a step leaves alone that the FIFOs are read from.
LEMMA FifoFrame ==
    /\ UNCHANGED <<avail_ring, next_avail, avail_idx>> => AvailSeq' = AvailSeq
    /\ UNCHANGED <<used_ring, last_used, next_used>> => UsedSeq' = UsedSeq
  BY DEF AvailSeq, UsedSeq, len, Used

\* do_pop_unchecked takes the oldest chain offered, or leaves a malformed one.
LEMMA PopIsTake ==
    ASSUME IInv, CurInv, DoPopUnchecked
    PROVE  Pool!Take \/ UNCHANGED Pool!poolVars
  <1>1. CASE NextHead \in Malformed
    <2>1. UNCHANGED <<avail_ring, next_avail, avail_idx, used_ring, last_used, next_used,
                      free, inflight, cur>>
      BY <1>1, Zenon DEF DoPopUnchecked, drvVars, availMem, usedMem
    <2> QED BY <2>1, FifoFrame, Zenon DEF Pool!poolVars
  <1>2. CASE NextHead \notin Malformed
    <2>1. /\ dpc = "take" /\ cur' = NextHead /\ inflight' = inflight \cup {NextHead}
          /\ next_avail' = WInc(next_avail)
          /\ UNCHANGED <<avail_ring, avail_idx, used_ring, last_used, next_used, free>>
      BY <1>2, ZenonT(40) DEF DoPopUnchecked, drvVars, availMem, usedMem
    <2>2. len \in 1..QueueSize /\ len' = len - 1
      BY <1>2, <2>1, PopOwnership, PoolFacts, QueueAssumption, SMTT(30) DEF IInv, HandlerInv
    <2>3. AvailSeq' = Window(avail_ring, WInc(next_avail), len - 1)
      BY <2>1, <2>2, ZenonT(40) DEF AvailSeq, Window
    <2>4. /\ AvailSeq # <<>> /\ Head(AvailSeq) = NextHead /\ AvailSeq' = Tail(AvailSeq)
      <3> DEFINE W == Window(avail_ring, next_avail, len)
      <3>1. /\ W # <<>> /\ Head(W) = avail_ring[Slot(next_avail)]
            /\ Tail(W) = Window(avail_ring, WInc(next_avail), len - 1)
        BY <2>2, PoolFacts, WindowPop, Zenon
      <3>2. AvailSeq = W
        BY PoolFacts, Zenon
      <3> HIDE DEF W
      <3> QED BY <2>3, <3>1, <3>2, ZenonT(40) DEF NextHead
    <2>5. cur = NoHead /\ UsedSeq' = UsedSeq
      BY <2>1, FifoFrame, Zenon DEF CurInv
    <2> QED BY <2>1, <2>4, <2>5, Zenon DEF Pool!Take
  <1> QED BY <1>1, <1>2, Zenon

\* undo_pop puts the chain back in front.
LEMMA UndoIsPutBack ==
    ASSUME IInv, UndoPop
    PROVE  Pool!PutBack
  <1>1. cur \in inflight /\ avail_ring[Slot(WDec(next_avail))] = cur
    BY Zenon DEF IInv, HandlerInv, UndoPop
  <1>2. /\ next_avail' = WDec(next_avail) /\ inflight' = inflight \ {cur} /\ cur' = NoHead
        /\ UNCHANGED <<avail_ring, avail_idx, used_ring, last_used, next_used, free>>
    BY Zenon DEF UndoPop, drvVars, availMem, usedMem
  <1>3. len' = len + 1 /\ CountInv'
    BY UndoOwnership, ZenonT(40)
  <1>4. len + 1 \in 1..QueueSize
    BY <1>1, Counts, SMTT(30) DEF IInv
  <1>5. WDec(next_avail) \in Idx /\ WInc(WDec(next_avail)) = next_avail /\ (len + 1) - 1 = len
    BY PoolFacts, WrapType, Distance, QueueAssumption, SMTT(30)
  <1>6. AvailSeq' = Window(avail_ring, WDec(next_avail), len + 1)
    BY <1>2, <1>3, ZenonT(40) DEF AvailSeq, Window
  <1>7. AvailSeq' = <<cur>> \o AvailSeq
    <2> DEFINE start == WDec(next_avail)
    <2>1. Window(avail_ring, start, len + 1)
            = <<avail_ring[Slot(start)]>> \o Window(avail_ring, WInc(start), (len + 1) - 1)
      BY <1>4, <1>5, PoolFacts, WindowPop, ZenonT(40)
    <2>2. AvailSeq = Window(avail_ring, next_avail, len)
      BY PoolFacts, Zenon
    <2> QED BY <1>1, <1>5, <1>6, <2>1, <2>2, ZenonT(40)
  <1>8. cur # NoHead
    BY <1>1, PoolFacts, QueueAssumption DEF Heads, NoHead
  <1>9. UsedSeq' = UsedSeq
    BY <1>2, FifoFrame, Zenon
  <1> QED BY <1>2, <1>7, <1>8, <1>9, ZenonT(40) DEF Pool!PutBack

\* add_used appends the chain to the FIFO of used buffers.
LEMMA AddUsedIsGiveBack ==
    ASSUME IInv, NEW h \in inflight, AddUsed(h), cur \in {h, NoHead}, cur' = NoHead
    PROVE  Pool!GiveBack
  <1>1. /\ next_used' = WInc(next_used) /\ inflight' = inflight \ {h}
        /\ used_ring' = [used_ring EXCEPT ![Slot(next_used)] = h]
        /\ UNCHANGED <<free, last_used, next_avail, avail_ring, avail_idx>>
    BY ZenonT(40) DEF AddUsed, drvVars, availMem
  <1>2. Used' = Used + 1 /\ Used \in 0..(QueueSize - 1)
    BY AddUsedOwnership, Counts DEF IInv
  <1>3. WAdd(last_used, Used) = next_used /\ h \in Heads
    BY PoolFacts, Distance, ZenonT(40) DEF Used
  <1>4. UsedSeq' = Window(used_ring', last_used, Used + 1)
    BY <1>1, <1>2, SMTT(30) DEF UsedSeq, Window
  <1>5. UsedSeq' = Append(UsedSeq, h)
    <2>1. Window([used_ring EXCEPT ![Slot(WAdd(last_used, Used))] = h], last_used, Used + 1)
            = Append(Window(used_ring, last_used, Used), h)
      BY <1>2, <1>3, PoolFacts, WindowPush, ZenonT(40)
    <2>2. UsedSeq = Window(used_ring, last_used, Used)
      BY PoolFacts, Zenon
    <2> QED BY <1>1, <1>3, <1>4, <2>1, <2>2, Zenon
  <1>6. AvailSeq' = AvailSeq
    BY <1>1, FifoFrame, Zenon
  <1> QED BY <1>1, <1>5, <1>6, ZenonT(40) DEF Pool!GiveBack

\* The driver's add appends the buffer to the FIFO of offered ones.
LEMMA AddIsOffer ==
    ASSUME IInv, DriverAdd
    PROVE  Pool!Offer
  <1>1. PICK h \in free :
          /\ free' = free \ {h}
          /\ avail_ring' = [avail_ring EXCEPT ![Slot(avail_idx)] = h]
    BY Zenon DEF DriverAdd
  <1>2. /\ UNCHANGED <<next_avail, next_used, last_used, used_ring, inflight, cur>>
        /\ len' = len + 1
    BY AddOwnership, ZenonT(30) DEF DriverAdd, devVars, usedMem
  <1>3. len \in 0..(QueueSize - 1) /\ h \in Heads
    BY <1>1, Counts, PoolFacts, SMTT(30) DEF IInv
  <1>4. WAdd(next_avail, len) = avail_idx
    BY PoolFacts, Distance, Zenon DEF len
  <1>5. AvailSeq' = Window(avail_ring', next_avail, len + 1)
    BY <1>2, Zenon DEF AvailSeq, Window
  <1>6. AvailSeq' = Append(AvailSeq, h)
    <2>1. Window([avail_ring EXCEPT ![Slot(WAdd(next_avail, len))] = h], next_avail, len + 1)
            = Append(Window(avail_ring, next_avail, len), h)
      BY <1>3, PoolFacts, WindowPush, ZenonT(40)
    <2>2. AvailSeq = Window(avail_ring, next_avail, len)
      BY PoolFacts, Zenon
    <2> QED BY <1>1, <1>4, <1>5, <2>1, <2>2, Zenon
  <1>7. UsedSeq' = UsedSeq
    BY <1>2, FifoFrame, Zenon
  <1> QED BY <1>1, <1>2, <1>6, <1>7, Zenon DEF Pool!Offer

\* The driver's interrupt handler takes the oldest used buffer.
LEMMA ReclaimIsReclaim ==
    ASSUME IInv, DriverReclaim
    PROVE  Pool!Reclaim
  <1>1. /\ free' = free \cup {used_ring[Slot(last_used)]} /\ last_used' = WInc(last_used)
        /\ UNCHANGED <<next_avail, avail_idx, avail_ring, next_used, used_ring, inflight, cur>>
    BY Zenon DEF DriverReclaim, devVars, usedMem, availMem
  <1>2. Used' = Used - 1 /\ Used \in 1..QueueSize
    BY ReclaimOwnership, PoolFacts, QueueAssumption, SMTT(30)
  <1>3. UsedSeq' = Window(used_ring, WInc(last_used), Used - 1)
    BY <1>1, <1>2, Zenon DEF UsedSeq, Window
  <1>4. /\ UsedSeq # <<>> /\ Head(UsedSeq) = used_ring[Slot(last_used)]
        /\ UsedSeq' = Tail(UsedSeq)
    <2> DEFINE W == Window(used_ring, last_used, Used)
    <2>1. /\ W # <<>> /\ Head(W) = used_ring[Slot(last_used)]
          /\ Tail(W) = Window(used_ring, WInc(last_used), Used - 1)
      BY <1>2, PoolFacts, WindowPop, Zenon
    <2>2. UsedSeq = W
      BY PoolFacts, Zenon
    <2> HIDE DEF W
    <2> QED BY <1>3, <2>1, <2>2, ZenonT(40)
  <1>5. AvailSeq' = AvailSeq
    BY <1>1, FifoFrame, Zenon
  <1> QED BY <1>1, <1>4, <1>5, Zenon DEF Pool!Reclaim

\* The steps that move no buffer.
LEMMA QuietSteps ==
    ASSUME \/ QueueEvent \/ ResumeEvent \/ CompletionEvent \/ PopCheckLen \/ RecheckAvail
           \/ PrepareKick \/ Return \/ DrainUsedIdx \/ DrainAvailEvent \/ DriverKick
           \/ DriverIrq \/ DriverEnableIrq \/ DriverRecheck \/ UNCHANGED vars
    PROVE  UNCHANGED Pool!poolVars
  <1>1. UNCHANGED <<avail_ring, next_avail, avail_idx, used_ring, last_used, next_used,
                    free, inflight, cur>>
    BY Zenon DEF vars, devVars, drvVars, availMem, usedMem, QueueEvent, ResumeEvent,
       CompletionEvent, PopCheckLen, RecheckAvail, PrepareKick, Return, DrainUsedIdx,
       DrainAvailEvent, DriverKick, DriverIrq, DriverEnableIrq, DriverRecheck
  <1> QED BY <1>1, FifoFrame, Zenon DEF Pool!poolVars

\* The chain popped last is forgotten with its outcome.
LEMMA CurStep ==
    ASSUME CurInv, [Next]_vars
    PROVE  CurInv'
  BY Zenon DEF CurInv, Next, Device, Driver, vars, devVars, drvVars, availMem, usedMem,
     QueueEvent, ResumeEvent, CompletionEvent, PopCheckLen, RecheckAvail,
     DoPopUnchecked, UndoPop, Submit, Execute, Complete, PrepareKick, Return,
     DrainUsedIdx, DrainAvailEvent, DriverAdd, DriverKick, DriverIrq, DriverReclaim,
     DriverEnableIrq, DriverRecheck

\* Every step of the queue is a step of the pool, or none.
LEMMA PoolStep ==
    ASSUME IInv, CurInv, [Next]_vars
    PROVE  [Pool!PoolNext]_(Pool!poolVars)
  <1>1. CASE \/ QueueEvent \/ ResumeEvent \/ CompletionEvent \/ PopCheckLen \/ RecheckAvail
             \/ PrepareKick \/ Return \/ DrainUsedIdx \/ DrainAvailEvent \/ DriverKick
             \/ DriverIrq \/ DriverEnableIrq \/ DriverRecheck \/ UNCHANGED vars
    BY <1>1, QuietSteps, Zenon
  <1>2. CASE DoPopUnchecked
    BY <1>2, PopIsTake, Zenon DEF Pool!PoolNext
  <1>3. CASE UndoPop
    BY <1>3, UndoIsPutBack, ZenonT(40) DEF Pool!PoolNext
  <1>4. CASE Submit
    <2>1. /\ dpc = "held" /\ cur' = NoHead
          /\ UNCHANGED <<avail_ring, next_avail, avail_idx, used_ring, last_used,
                         next_used, free, inflight>>
      BY <1>4, ZenonT(40) DEF Submit, drvVars, availMem, usedMem
    <2>2. cur # NoHead
      BY <2>1, PoolFacts, QueueAssumption, SMTT(30) DEF IInv, HandlerInv, Heads, NoHead
    <2>3. Pool!Keep
      BY <2>1, <2>2, FifoFrame, Zenon DEF Pool!Keep
    <2> QED BY <2>3, Zenon DEF Pool!PoolNext
  <1>5. CASE Execute
    <2>1. cur \in inflight /\ AddUsed(cur) /\ cur' = NoHead
      BY <1>5, Zenon DEF Execute, IInv, HandlerInv
    <2> QED BY <2>1, AddUsedIsGiveBack, Zenon DEF Pool!PoolNext
  <1>6. CASE Complete
    <2>1. PICK h \in inflight : AddUsed(h)
      BY <1>6, Zenon DEF Complete
    <2>2. cur = NoHead /\ cur' = NoHead
      BY <1>6, ZenonT(40) DEF Complete, CurInv
    <2> QED BY <2>1, <2>2, AddUsedIsGiveBack, ZenonT(40) DEF Pool!PoolNext
  <1>7. CASE DriverAdd
    BY <1>7, AddIsOffer, ZenonT(40) DEF Pool!PoolNext
  <1>8. CASE DriverReclaim
    BY <1>8, ReclaimIsReclaim, ZenonT(40) DEF Pool!PoolNext
  <1> QED BY <1>1, <1>2, <1>3, <1>4, <1>5, <1>6, <1>7, <1>8, SMTT(30) DEF Next, Device, Driver

----------------------------------------------------------------------------
(* The theorem.                                                            *)

\* The split virtqueue of queue.rs and a conforming driver implement the pool:
\* chains reach the device in the order they were offered, undo_pop restores
\* that order, and they reach the driver in the order of the add_used calls,
\* whatever the indices, the store buffer and the notifications do meanwhile.
THEOREM QueueImplementsPool == Spec => ImplementsPool
  <1>1. Init => Pool!PoolInit /\ CurInv
    <2> SUFFICES ASSUME Init PROVE Pool!PoolInit /\ CurInv
      BY Zenon
    <2>1. len = 0 /\ Used = 0
      BY QueueAssumption DEF Init, len, Used, WSub
    <2>2. 1..0 = {}
      OBVIOUS
    <2>3. AvailSeq = <<>> /\ UsedSeq = <<>>
      BY <2>1, <2>2 DEF AvailSeq, UsedSeq
    <2> QED BY <2>3, Zenon DEF Init, Pool!PoolInit, CurInv
  <1>2. CurInv /\ [Next]_vars => CurInv'
    BY CurStep
  <1>3. IInv /\ CurInv /\ [Next]_vars => [Pool!PoolNext]_(Pool!poolVars)
    BY PoolStep, Zenon
  <1> QED BY <1>1, <1>2, <1>3, InductiveInvariant, PTL
          DEF Spec, ImplementsPool, Pool!PoolSpec
=============================================================================
