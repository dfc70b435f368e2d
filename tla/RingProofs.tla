----------------------------- MODULE RingProofs -----------------------------
(***************************************************************************)
(* Proofs about the rings of two devices: those that the requests of an    *)
(* asynchronous block device pass through (IoUring), for every size of the *)
(* rings and every width of their indices, and the queues of the vsock     *)
(* device (VsockDevice), for any traffic.                                  *)
(***************************************************************************)
EXTENDS IoUring, VsockDevice, Integers, FiniteSetTheorems, TLAPS

Idx == 0..(Wrap - 1)
Elements(c) == {c[k] : k \in 1..Len(c)}
Distinct(c) == \A j, k \in 1..Len(c) : c[j] = c[k] => j = k
Reapable == Elements(completed)

\* The rings have their types, and neither index is a whole ring ahead of the other.
RingTypes ==
    /\ sqes \in [0..(SqCount - 1) -> Nat] /\ cqes \in [0..(CqCount - 1) -> Nat]
    /\ sq_head \in Idx /\ unmasked_tail \in Idx /\ cq_tail \in Idx /\ unmasked_head \in Idx
    /\ to_submit \in Nat /\ num_ops \in Nat /\ pushed \in Nat /\ drained \in BOOLEAN
    /\ completed \in Seq(Nat) /\ IsFiniteSet(inflight) /\ IsFiniteSet(reaped)
    /\ pending <= SqCount /\ num_ops <= CqCount /\ pending <= pushed

\* The submission ring holds the last operations pushed, in their order.
SubmissionRing ==
    \A k \in 0..(pending - 1) : sqes[sq_mask(sq_head + k)] = pushed - pending + k + 1

\* The completion ring holds the completions in their order.
CompletionRing ==
    /\ Len(completed) = Ready
    /\ \A k \in 1..Ready : completed[k] = cqes[cq_mask(unmasked_head + k - 1)]

\* What has left the submission ring is with the kernel, on the completion ring or
\* reaped, and in one place only.
OnePlace ==
    /\ inflight \cup Reapable \cup reaped = 1..(pushed - pending)
    /\ inflight \cap Reapable = {} /\ inflight \cap reaped = {} /\ Reapable \cap reaped = {}
    /\ Distinct(completed)

RingCounts ==
    /\ num_ops = pending + Cardinality(inflight) + Ready /\ to_submit = pending
    /\ Cardinality(inflight) + Ready + Cardinality(reaped) = pushed - pending

RingInv ==
    /\ RingTypes /\ SubmissionRing /\ CompletionRing /\ OnePlace /\ RingCounts
    /\ DrainLeavesNothing

-----------------------------------------------------------------------------
(* Arithmetic of the indices.                                              *)

LEMMA Sizes ==
    /\ Wrap \in Nat \ {0} /\ SqCount \in Nat \ {0} /\ CqCount \in Nat \ {0} /\ MaxOps \in Nat
    /\ Wrap % SqCount = 0 /\ Wrap % CqCount = 0 /\ SqCount < Wrap /\ CqCount < Wrap
  BY RingAssumption

\* Multiples of different factors are a whole divisor apart.
LEMMA MultiplesApart ==
    ASSUME NEW C \in Nat \ {0}, NEW x \in Int, NEW y \in Int, x < y
    PROVE  C * y >= C * x + C
  <1>1. C * (y - x - 1) >= 0
    OBVIOUS
  <1>2. C * (y - x - 1) = C * y - C * x - C
    OBVIOUS
  <1>3. C * y \in Int /\ C * x \in Int
    OBVIOUS
  <1> QED BY <1>1, <1>2, <1>3

LEMMA Divided ==
    ASSUME NEW C \in Nat \ {0}, NEW a \in Nat
    PROVE  a \div C \in Nat /\ a % C \in 0..(C - 1) /\ a = C * (a \div C) + (a % C)
  OBVIOUS

\* Quotient and remainder are unique.
LEMMA ModUnique ==
    ASSUME NEW C \in Nat \ {0}, NEW a \in Nat, NEW q \in Int, NEW r \in 0..(C - 1), a = C * q + r
    PROVE  a % C = r
  <1> DEFINE p == a \div C
             s == a % C
  <1>1. p \in Nat /\ s \in 0..(C - 1) /\ a = C * p + s
    BY Divided, Zenon
  <1> HIDE DEF p, s
  <1>2. C * p \in Int /\ C * q \in Int
    BY <1>1
  <1>3. ~(p < q)
    <2> SUFFICES ASSUME p < q PROVE FALSE
      BY Zenon
    <2>1. C * q >= C * p + C
      BY <1>1, MultiplesApart
    <2> QED BY <1>1, <1>2, <2>1
  <1>4. ~(q < p)
    <2> SUFFICES ASSUME q < p PROVE FALSE
      BY Zenon
    <2>1. C * p >= C * q + C
      BY <1>1, MultiplesApart
    <2> QED BY <1>1, <1>2, <2>1
  <1>5. p = q
    BY <1>1, <1>3, <1>4
  <1>6. r = s
    BY <1>1, <1>2, <1>5
  <1> QED BY <1>6, Zenon DEF s

\* The mask of a wrapped index is that of the index, where the ring size divides
\* Wrap.
LEMMA MaskWraps ==
    ASSUME NEW C \in Nat \ {0}, Wrap % C = 0, NEW a \in Nat
    PROVE  (a + Wrap) % C = a % C
  <1> DEFINE k == Wrap \div C
             p == a \div C
             s == a % C
  <1>1. k \in Nat /\ Wrap = C * k + 0
    BY Sizes, Divided, Zenon
  <1>2. p \in Nat /\ s \in 0..(C - 1) /\ a = C * p + s
    BY Divided, Zenon
  <1> HIDE DEF k, p, s
  <1>3. C * (p + k) = C * p + C * k /\ C * p \in Int /\ C * k \in Int
    BY <1>1, <1>2
  <1>4. a + Wrap = C * (p + k) + s /\ a + Wrap \in Nat /\ p + k \in Int
    BY <1>1, <1>2, <1>3
  <1>5. (a + Wrap) % C = s
    BY <1>2, <1>4, ModUnique, Zenon
  <1> QED BY <1>5, Zenon DEF s

\* Less than a ring apart, masks differ.
LEMMA MasksDiffer ==
    ASSUME NEW C \in Nat \ {0}, NEW a \in Nat, NEW b \in Nat, a < b, b - a < C
    PROVE  a % C # b % C
  <1> DEFINE p == a \div C
             q == b \div C
             s == a % C
             t == b % C
  <1>1. p \in Int /\ s \in 0..(C - 1) /\ a = C * p + s
    BY Divided
  <1>2. q \in Int /\ t \in 0..(C - 1) /\ b = C * q + t
    BY Divided
  <1> HIDE DEF p, q, s, t
  <1>3. C * p \in Int /\ C * q \in Int
    BY <1>1, <1>2
  <1>4. s # t
    <2> SUFFICES ASSUME s = t PROVE FALSE
      BY Zenon
    <2>1. CASE p < q
      <3>1. C * q >= C * p + C
        BY <1>1, <1>2, <2>1, MultiplesApart, Zenon
      <3> QED BY <1>1, <1>2, <1>3, <3>1
    <2>2. CASE q < p
      <3>1. C * p >= C * q + C
        BY <1>1, <1>2, <2>2, MultiplesApart, Zenon
      <3> QED BY <1>1, <1>2, <1>3, <3>1
    <2>3. CASE p = q
      BY <1>1, <1>2, <1>3, <2>3
    <2> QED BY <1>1, <1>2, <2>1, <2>2, <2>3
  <1> QED BY <1>4, Zenon DEF s, t

LEMMA MinusIs ==
    ASSUME NEW a \in Idx, NEW b \in Idx
    PROVE  /\ Minus(a, b) \in Nat /\ Minus(a, b) < Wrap
           /\ Minus(a, b) = IF a >= b THEN a - b ELSE a + Wrap - b
  BY Sizes DEF Minus, Idx

LEMMA PlusIs ==
    ASSUME NEW a \in Idx, NEW n \in Nat, n < Wrap
    PROVE  /\ Plus(a, n) \in Idx
           /\ Plus(a, n) = IF a + n < Wrap THEN a + n ELSE a + n - Wrap
  BY Sizes DEF Plus, Idx

\* The tail of a ring moves.
LEMMA TailMoves ==
    ASSUME NEW a \in Idx, NEW b \in Idx, NEW n \in Nat, Minus(a, b) + n < Wrap
    PROVE  Plus(a, n) \in Idx /\ Minus(Plus(a, n), b) = Minus(a, b) + n
  <1>1. n < Wrap
    BY MinusIs, Sizes
  <1>2. Plus(a, n) \in Idx
    BY <1>1, PlusIs, Zenon
  <1> DEFINE d == Minus(a, b)
             x == Plus(a, n)
             z == Minus(Plus(a, n), b)
  <1>3. /\ d = (IF a >= b THEN a - b ELSE a + Wrap - b)
        /\ x = (IF a + n < Wrap THEN a + n ELSE a + n - Wrap)
        /\ z = (IF x >= b THEN x - b ELSE x + Wrap - b)
        /\ x \in Idx
    BY <1>1, <1>2, MinusIs, PlusIs, Zenon
  <1>4. d + n < Wrap
    BY Zenon
  <1> HIDE DEF d, x, z
  <1>5. z = d + n
    BY <1>3, <1>4, Sizes DEF Idx
  <1> QED BY <1>2, <1>5, Zenon DEF z, d

\* The head of a ring moves.
LEMMA HeadMoves ==
    ASSUME NEW a \in Idx, NEW b \in Idx, NEW n \in Nat, n <= Minus(a, b)
    PROVE  Plus(b, n) \in Idx /\ Minus(a, Plus(b, n)) = Minus(a, b) - n
  <1>1. n < Wrap
    BY MinusIs, Sizes
  <1>2. Plus(b, n) \in Idx
    BY <1>1, PlusIs, Zenon
  <1> DEFINE d == Minus(a, b)
             x == Plus(b, n)
             z == Minus(a, Plus(b, n))
  <1>3. /\ d = (IF a >= b THEN a - b ELSE a + Wrap - b)
        /\ x = (IF b + n < Wrap THEN b + n ELSE b + n - Wrap)
        /\ z = (IF a >= x THEN a - x ELSE a + Wrap - x)
        /\ x \in Idx
    BY <1>1, <1>2, MinusIs, PlusIs, Zenon
  <1>4. n <= d
    BY Zenon
  <1> HIDE DEF d, x, z
  <1>5. z = d - n
    BY <1>3, <1>4, Sizes DEF Idx
  <1> QED BY <1>2, <1>5, Zenon DEF z, d

\* The mask of the entry k behind an index that has moved by n.
LEMMA MaskMoves ==
    ASSUME NEW C \in Nat \ {0}, Wrap % C = 0, NEW a \in Idx, NEW n \in Nat, n < Wrap, NEW k \in Nat
    PROVE  (Plus(a, n) + k) % C = (a + n + k) % C
  <1>1. Plus(a, n) \in Idx /\ Plus(a, n) = (IF a + n < Wrap THEN a + n ELSE a + n - Wrap)
    BY PlusIs, Zenon
  <1>2. CASE a + n < Wrap
    BY <1>1, <1>2, Zenon
  <1>3. CASE ~(a + n < Wrap)
    <2> DEFINE b == a + n - Wrap + k
    <2>1. b \in Nat /\ b + Wrap = a + n + k /\ Plus(a, n) + k = b
      BY <1>1, <1>3, Sizes DEF Idx
    <2> HIDE DEF b
    <2>2. (b + Wrap) % C = b % C
      BY <2>1, MaskWraps, Zenon
    <2> QED BY <2>1, <2>2, Zenon
  <1> QED BY <1>2, <1>3, Zenon

\* The entries from the head of a ring to its tail, seen from the tail.
LEMMA MaskOfTail ==
    ASSUME NEW C \in Nat \ {0}, Wrap % C = 0, NEW a \in Idx, NEW b \in Idx, NEW k \in Nat
    PROVE  (a + k) % C = (b + Minus(a, b) + k) % C
  <1> DEFINE d == Minus(a, b)
  <1>1. d \in Nat /\ d = (IF a >= b THEN a - b ELSE a + Wrap - b)
    BY MinusIs, Zenon
  <1> HIDE DEF d
  <1>2. CASE a >= b
    <2>1. b + d + k = a + k
      BY <1>1, <1>2 DEF Idx
    <2> QED BY <2>1, Zenon DEF d
  <1>3. CASE ~(a >= b)
    <2> DEFINE x == a + k
    <2>1. x \in Nat /\ b + d + k = x + Wrap
      BY <1>1, <1>3, Sizes DEF Idx
    <2> HIDE DEF x
    <2>2. (x + Wrap) % C = x % C
      BY <2>1, MaskWraps, Zenon
    <2> QED BY <2>1, <2>2, Zenon DEF x, d
  <1> QED BY <1>2, <1>3, Zenon

-----------------------------------------------------------------------------
(* What the rings hold.                                                    *)

LEMMA CountTypes ==
    ASSUME RingInv
    PROVE  /\ pending \in Nat /\ Ready \in Nat /\ pushed - pending \in Nat
           /\ Cardinality(inflight) \in Nat /\ Cardinality(reaped) \in Nat
           /\ Ready + Cardinality(inflight) <= CqCount /\ to_submit = pending
           /\ inflight \subseteq 1..(pushed - pending) /\ Reapable \subseteq 1..(pushed - pending)
  <1>1. pending \in Nat /\ Ready \in Nat
    BY MinusIs, Zenon DEF RingInv, RingTypes, pending, Ready
  <1>2. Cardinality(inflight) \in Nat /\ Cardinality(reaped) \in Nat
    BY FS_CardinalityType, Zenon DEF RingInv, RingTypes
  <1>3. pushed - pending \in Nat
    BY <1>1 DEF RingInv, RingTypes
  <1>4. Ready + Cardinality(inflight) <= CqCount /\ to_submit = pending
    <2>1. num_ops = pending + Cardinality(inflight) + Ready /\ to_submit = pending /\ num_ops <= CqCount
      BY Zenon DEF RingInv, RingTypes, RingCounts
    <2>2. num_ops \in Nat /\ CqCount \in Nat
      BY Sizes, Zenon DEF RingInv, RingTypes
    <2> QED BY <1>1, <1>2, <2>1, <2>2
  <1>5. inflight \subseteq 1..(pushed - pending) /\ Reapable \subseteq 1..(pushed - pending)
    BY Zenon DEF RingInv, OnePlace
  <1> QED BY <1>1, <1>2, <1>3, <1>4, <1>5, Zenon

\* The kernel takes the operations that were pushed first.
LEMMA TakenIs ==
    ASSUME RingInv, NEW n \in Nat, n <= pending
    PROVE  /\ Taken(n) = (pushed - pending + 1)..(pushed - pending + n)
           /\ IsFiniteSet(Taken(n)) /\ Cardinality(Taken(n)) = n
           /\ Taken(n) \cap (1..(pushed - pending)) = {}
  <1> DEFINE b == pushed - pending
             E(k) == sqes[sq_mask(sq_head + k)]
  <1>1. b \in Nat /\ pending \in Nat
    BY CountTypes, Zenon
  <1>2. \A k \in 0..(pending - 1) : E(k) = b + k + 1
    BY Zenon DEF RingInv, SubmissionRing
  <1>3. Taken(n) = {E(k) : k \in 0..(n - 1)}
    BY Zenon DEF Taken
  <1> HIDE DEF b, E
  <1>4. \A k \in 0..(n - 1) : E(k) = b + k + 1
    BY <1>1, <1>2
  <1>5. Taken(n) = (b + 1)..(b + n)
    <2>1. ASSUME NEW x \in Taken(n) PROVE x \in (b + 1)..(b + n)
      <3>1. PICK k \in 0..(n - 1) : x = E(k)
        BY <1>3, <2>1, Zenon
      <3> QED BY <1>1, <1>4, <3>1
    <2>2. ASSUME NEW x \in (b + 1)..(b + n) PROVE x \in Taken(n)
      <3>1. x - b - 1 \in 0..(n - 1)
        BY <1>1
      <3>2. E(x - b - 1) = x
        BY <1>1, <1>4, <3>1
      <3> QED BY <1>3, <3>1, <3>2, Zenon
    <2> QED BY <2>1, <2>2, Zenon
  <1>6. IsFiniteSet((b + 1)..(b + n)) /\ Cardinality((b + 1)..(b + n)) = n
    <2>1. b + 1 \in Int /\ b + n \in Int
      BY <1>1
    <2>2. /\ IsFiniteSet((b + 1)..(b + n))
          /\ Cardinality((b + 1)..(b + n)) = IF b + 1 > b + n THEN 0 ELSE (b + n) - (b + 1) + 1
      BY <2>1, FS_Interval, Zenon
    <2> QED BY <1>1, <2>2
  <1>7. ((b + 1)..(b + n)) \cap (1..b) = {}
    BY <1>1
  <1> QED BY <1>5, <1>6, <1>7, Zenon DEF b

\* The kernel's head moves past what it takes.
LEMMA SubmissionShrinks ==
    ASSUME RingInv, NEW n \in Nat, n <= pending,
           sq_head' = Plus(sq_head, n), sqes' = sqes, unmasked_tail' = unmasked_tail, pushed' = pushed
    PROVE  sq_head' \in Idx /\ pending' = pending - n /\ SubmissionRing'
  <1>1. sq_head \in Idx /\ unmasked_tail \in Idx /\ pushed \in Nat /\ pending \in Nat
    BY CountTypes, Zenon DEF RingInv, RingTypes
  <1>2. sq_head' \in Idx /\ Minus(unmasked_tail, Plus(sq_head, n)) = pending - n
    BY <1>1, HeadMoves, Zenon DEF pending
  <1>3. pending' = pending - n
    BY <1>2, Zenon DEF pending
  <1>4. n < Wrap
    BY <1>1, MinusIs, Sizes DEF pending
  <1>5. ASSUME NEW k \in 0..(pending - n - 1)
        PROVE  sqes[sq_mask(Plus(sq_head, n) + k)] = pushed - (pending - n) + k + 1
    <2>1. n + k \in 0..(pending - 1) /\ k \in Nat
      BY <1>1
    <2>2. (Plus(sq_head, n) + k) % SqCount = (sq_head + n + k) % SqCount
      BY <1>1, <1>4, <2>1, Sizes, MaskMoves
    <2>3. sqes[sq_mask(sq_head + (n + k))] = pushed - pending + (n + k) + 1
      BY <2>1, Zenon DEF RingInv, SubmissionRing
    <2>4. sq_head + n + k = sq_head + (n + k) /\ pushed - pending + (n + k) + 1 = pushed - (pending - n) + k + 1
      BY <1>1, <2>1 DEF Idx
    <2> QED BY <2>2, <2>3, <2>4, Zenon DEF sq_mask
  <1>6. SubmissionRing'
    <2>1. SubmissionRing' <=> \A k \in 0..(pending' - 1) : sqes'[sq_mask(sq_head' + k)] = pushed' - pending' + k + 1
      BY Zenon DEF SubmissionRing, sq_mask
    <2> QED BY <1>3, <1>5, <2>1, Zenon
  <1> QED BY <1>2, <1>3, <1>6, Zenon

LEMMA PushKeeps == RingInv /\ push => RingInv'
  <1> SUFFICES ASSUME RingInv, push PROVE RingInv'
    BY Zenon
  <1>1. /\ sq_head \in Idx /\ unmasked_tail \in Idx /\ pushed \in Nat /\ pending \in Nat
        /\ num_ops \in Nat /\ sqes \in [0..(SqCount - 1) -> Nat] /\ pushed - pending \in Nat
    BY CountTypes, Zenon DEF RingInv, RingTypes
  <1>2. pending < SqCount /\ num_ops < CqCount
    BY <1>1, Sizes DEF push, full_squeue, full_cqueue
  <1>3. unmasked_tail' \in Idx /\ Minus(unmasked_tail', sq_head) = pending + 1
    <2>1. Minus(unmasked_tail, sq_head) + 1 < Wrap /\ 1 \in Nat
      BY <1>1, <1>2, Sizes DEF pending
    <2>2. Plus(unmasked_tail, 1) \in Idx /\ Minus(Plus(unmasked_tail, 1), sq_head) = Minus(unmasked_tail, sq_head) + 1
      BY <1>1, <2>1, TailMoves, Zenon
    <2> QED BY <2>2, Zenon DEF push, pending
  <1>4. pending' = pending + 1
    BY <1>3, Zenon DEF push, kernel_side, pending
  <1>5. Ready' = Ready /\ Reapable' = Reapable
    BY Zenon DEF push, kernel_side, Ready, Reapable, Elements, Minus
  <1>6. SubmissionRing'
    <2> DEFINE t == sq_mask(unmasked_tail)
    <2>1. t = (sq_head + pending) % SqCount /\ t \in 0..(SqCount - 1)
      <3>1. (unmasked_tail + 0) % SqCount = (sq_head + Minus(unmasked_tail, sq_head) + 0) % SqCount
        BY <1>1, Sizes, MaskOfTail
      <3>2. unmasked_tail + 0 = unmasked_tail /\ sq_head + pending + 0 = sq_head + pending
        BY <1>1 DEF Idx
      <3>3. unmasked_tail % SqCount \in 0..(SqCount - 1)
        BY <1>1, Sizes, Divided DEF Idx
      <3> QED BY <3>1, <3>2, <3>3, Zenon DEF pending, sq_mask
    <2>2. sqes' = [sqes EXCEPT ![t] = pushed + 1]
      BY Zenon DEF push
    <2> HIDE DEF t
    <2>3. ASSUME NEW k \in 0..(pending + 1 - 1)
          PROVE  sqes'[sq_mask(sq_head + k)] = (pushed + 1) - (pending + 1) + k + 1
      <3>1. CASE k = pending
        <4>1. sq_mask(sq_head + k) = t
          BY <2>1, <3>1, Zenon DEF sq_mask
        <4>2. sqes'[t] = pushed + 1
          BY <1>1, <2>1, <2>2, Zenon
        <4> QED BY <1>1, <3>1, <4>1, <4>2
      <3>2. CASE k # pending
        <4>1. k \in 0..(pending - 1)
          BY <1>1, <3>2
        <4>2. sq_head + k \in Nat /\ sq_head + pending \in Nat /\ sq_head + k < sq_head + pending
              /\ (sq_head + pending) - (sq_head + k) < SqCount
          BY <1>1, <1>2, <4>1, Sizes DEF Idx
        <4>3. (sq_head + k) % SqCount # (sq_head + pending) % SqCount
          BY <4>2, Sizes, MasksDiffer, Zenon
        <4>4. sq_mask(sq_head + k) # t /\ sq_mask(sq_head + k) \in 0..(SqCount - 1)
          BY <2>1, <4>2, <4>3, Sizes, Divided, Zenon DEF sq_mask
        <4>5. sqes[sq_mask(sq_head + k)] = pushed - pending + k + 1
          BY <4>1, Zenon DEF RingInv, SubmissionRing
        <4>6. sqes'[sq_mask(sq_head + k)] = sqes[sq_mask(sq_head + k)]
          BY <1>1, <2>2, <4>4, Zenon
        <4> QED BY <1>1, <4>1, <4>5, <4>6
      <3> QED BY <3>1, <3>2, Zenon
    <2>4. SubmissionRing' <=> \A k \in 0..(pending' - 1) : sqes'[sq_mask(sq_head' + k)] = pushed' - pending' + k + 1
      BY Zenon DEF SubmissionRing, sq_mask
    <2>5. sq_head' = sq_head /\ pushed' = pushed + 1
      BY Zenon DEF push, kernel_side
    <2>6. ASSUME NEW k, k \in 0..(pending' - 1)
          PROVE  sqes'[sq_mask(sq_head' + k)] = pushed' - pending' + k + 1
      <3>1. k \in 0..(pending + 1 - 1)
        BY <1>1, <1>4, <2>6
      <3>2. sqes'[sq_mask(sq_head + k)] = (pushed + 1) - (pending + 1) + k + 1
        BY <2>3, <3>1, Zenon
      <3> QED BY <1>4, <2>5, <3>2, Zenon
    <2> QED BY <2>4, <2>6, Zenon
  <1>7. RingTypes'
    <2>1. sqes' \in [0..(SqCount - 1) -> Nat]
      <3> DEFINE t == sq_mask(unmasked_tail)
      <3>1. sqes' = [sqes EXCEPT ![t] = pushed + 1] /\ pushed + 1 \in Nat
        BY <1>1 DEF push
      <3> HIDE DEF t
      <3> QED BY <1>1, <3>1, Zenon
    <2>2. /\ sq_head' \in Idx /\ cq_tail' \in Idx /\ unmasked_head' \in Idx /\ drained' \in BOOLEAN
          /\ cqes' \in [0..(CqCount - 1) -> Nat] /\ completed' \in Seq(Nat)
          /\ IsFiniteSet(inflight') /\ IsFiniteSet(reaped')
      BY Zenon DEF push, kernel_side, RingInv, RingTypes
    <2>3. to_submit' \in Nat /\ num_ops' \in Nat /\ pushed' \in Nat
      BY <1>1 DEF push, RingInv, RingTypes
    <2>4. pending' <= SqCount /\ num_ops' <= CqCount /\ pending' <= pushed'
      BY <1>1, <1>2, <1>4, Sizes DEF push
    <2> QED BY <1>3, <2>1, <2>2, <2>3, <2>4, Zenon DEF RingTypes
  <1>8. CompletionRing'
    BY <1>5, Zenon DEF push, kernel_side, RingInv, CompletionRing, cq_mask
  <1>9. pushed' - pending' = pushed - pending
    BY <1>1, <1>4 DEF push
  <1>10. OnePlace'
    BY <1>5, <1>9, Zenon DEF push, kernel_side, RingInv, OnePlace
  <1>11. RingCounts'
    BY <1>1, <1>4, <1>5, <1>9, CountTypes, SMTT(30) DEF push, kernel_side, RingInv, RingCounts
  <1>12. DrainLeavesNothing'
    BY Zenon DEF push, DrainLeavesNothing
  <1> QED BY <1>6, <1>7, <1>8, <1>10, <1>11, <1>12, Zenon DEF RingInv

LEMMA SubmitKeeps == RingInv /\ submit => RingInv'
  <1> SUFFICES ASSUME RingInv, submit PROVE RingInv'
    OBVIOUS
  <1>1. /\ to_submit \in Nat /\ pending \in Nat /\ to_submit = pending /\ pushed \in Nat
        /\ pushed - pending \in Nat /\ inflight \subseteq 1..(pushed - pending)
        /\ Reapable \subseteq 1..(pushed - pending) /\ Ready \in Nat
    BY CountTypes, Zenon DEF RingInv, RingTypes
  <1>2. PICK n \in 0..to_submit : Enter(n)
    BY <1>1 DEF submit
  <1>3. n \in Nat /\ n <= pending
    BY <1>1, <1>2
  <1>4. sq_head' \in Idx /\ pending' = pending - n /\ SubmissionRing'
    BY <1>2, <1>3, SubmissionShrinks, Zenon DEF Enter, submit
  <1>5. to_submit' = pending - n
    BY <1>1, <1>2 DEF Enter
  <1>6. inflight' = inflight \cup Taken(n)
    BY <1>2, Zenon DEF Enter
  <1>7. /\ Taken(n) = (pushed - pending + 1)..(pushed - pending + n)
        /\ IsFiniteSet(Taken(n)) /\ Cardinality(Taken(n)) = n
        /\ Taken(n) \cap (1..(pushed - pending)) = {}
    BY <1>3, TakenIs, Zenon
  <1>8. Ready' = Ready /\ Reapable' = Reapable
    BY Zenon DEF submit, Ready, Reapable, Elements, Minus
  <1>9. IsFiniteSet(inflight') /\ Cardinality(inflight') = Cardinality(inflight) + n
    <2>1. inflight \cap Taken(n) = {}
      BY <1>1, <1>7, Zenon
    <2>2. IsFiniteSet(inflight)
      BY Zenon DEF RingInv, RingTypes
    <2>3. /\ IsFiniteSet(inflight \cup Taken(n))
          /\ Cardinality(inflight \cup Taken(n))
               = Cardinality(inflight) + Cardinality(Taken(n)) - Cardinality(inflight \cap Taken(n))
      BY <1>7, <2>2, FS_Union, Zenon
    <2>4. Cardinality(inflight \cap Taken(n)) = 0 /\ Cardinality(inflight) \in Nat
      BY <2>1, <2>2, FS_EmptySet, FS_CardinalityType, Zenon
    <2> QED BY <1>3, <1>6, <1>7, <2>3, <2>4
  <1>10. RingTypes'
    <2>1. /\ sqes' \in [0..(SqCount - 1) -> Nat] /\ unmasked_tail' \in Idx /\ cq_tail' \in Idx
          /\ unmasked_head' \in Idx /\ drained' \in BOOLEAN /\ cqes' \in [0..(CqCount - 1) -> Nat]
          /\ completed' \in Seq(Nat) /\ IsFiniteSet(reaped') /\ num_ops' \in Nat /\ pushed' \in Nat
          /\ num_ops' <= CqCount
      BY Zenon DEF submit, RingInv, RingTypes
    <2>2. to_submit' \in Nat /\ pending' <= SqCount /\ pending' <= pushed'
      <3>1. pending <= SqCount /\ pending <= pushed /\ pushed' = pushed
        BY Zenon DEF submit, RingInv, RingTypes
      <3> QED BY <1>1, <1>3, <1>4, <1>5, <3>1, Sizes
    <2> QED BY <1>4, <1>9, <2>1, <2>2, Zenon DEF RingTypes
  <1>11. CompletionRing'
    BY <1>8, Zenon DEF submit, RingInv, CompletionRing, cq_mask
  <1>12. pushed' - pending' = pushed - pending + n /\ reaped' = reaped /\ completed' = completed
    BY <1>1, <1>3, <1>4 DEF submit
  <1>13. OnePlace'
    <2> DEFINE b == pushed - pending
    <2>1. inflight \cup Reapable \cup reaped = 1..b
      BY Zenon DEF RingInv, OnePlace
    <2>2. b \in Nat /\ Taken(n) = (b + 1)..(b + n) /\ Taken(n) \cap (1..b) = {}
      BY <1>1, <1>7, Zenon
    <2>3. pushed' - pending' = b + n
      BY <1>12, Zenon
    <2> HIDE DEF b
    <2>4. (1..b) \cup ((b + 1)..(b + n)) = 1..(b + n)
      BY <1>3, <2>2
    <2>5. inflight' \cup Reapable' \cup reaped' = 1..(pushed' - pending')
      <3>1. inflight' \cup Reapable' \cup reaped' = (1..b) \cup Taken(n)
        BY <1>6, <1>8, <1>12, <2>1, Zenon
      <3> QED BY <2>2, <2>3, <2>4, <3>1, Zenon
    <2>6. inflight' \cap Reapable' = {} /\ inflight' \cap reaped' = {}
      <3>1. inflight \cap Reapable = {} /\ inflight \cap reaped = {}
        BY Zenon DEF RingInv, OnePlace
      <3> QED BY <1>6, <1>8, <1>12, <2>1, <2>2, <3>1, Zenon
    <2> QED BY <1>8, <1>12, <2>5, <2>6, Zenon DEF RingInv, OnePlace
  <1>14. RingCounts'
    <2>1. /\ num_ops = pending + Cardinality(inflight) + Ready
          /\ Cardinality(inflight) + Ready + Cardinality(reaped) = pushed - pending
      BY Zenon DEF RingInv, RingCounts
    <2>2. Cardinality(inflight) \in Nat /\ Cardinality(reaped) \in Nat
      BY CountTypes, Zenon
    <2>3. num_ops' = num_ops
      BY Zenon DEF submit
    <2>4. num_ops' = pending' + Cardinality(inflight') + Ready'
      BY <1>1, <1>3, <1>4, <1>8, <1>9, <2>1, <2>2, <2>3, SMTT(30)
    <2>5. Cardinality(inflight') + Ready' + Cardinality(reaped') = pushed' - pending'
      BY <1>1, <1>3, <1>8, <1>9, <1>12, <2>1, <2>2
    <2> QED BY <1>4, <1>5, <2>4, <2>5, Zenon DEF RingCounts
  <1>15. DrainLeavesNothing'
    BY Zenon DEF submit, DrainLeavesNothing
  <1> QED BY <1>4, <1>10, <1>11, <1>13, <1>14, <1>15, Zenon DEF RingInv

\* The kernel's tail moves past what it writes: an entry written m behind the tail
\* lands on no entry that is waiting.
LEMMA TailSlot ==
    ASSUME RingInv, NEW m \in Nat, Ready + m < CqCount
    PROVE  /\ cq_mask(cq_tail + m) = cq_mask(unmasked_head + Ready + m)
           /\ cq_mask(cq_tail + m) \in 0..(CqCount - 1)
           /\ \A k \in 0..(Ready + m - 1) : cq_mask(unmasked_head + k) # cq_mask(cq_tail + m)
  <1>1. cq_tail \in Idx /\ unmasked_head \in Idx /\ Ready \in Nat
    BY CountTypes, Zenon DEF RingInv, RingTypes
  <1>2. (cq_tail + m) % CqCount = (unmasked_head + Ready + m) % CqCount
    BY <1>1, Sizes, MaskOfTail, Zenon DEF Ready
  <1>3. cq_tail + m \in Nat /\ (cq_tail + m) % CqCount \in 0..(CqCount - 1)
    BY <1>1, Sizes, Divided DEF Idx
  <1>4. ASSUME NEW k \in 0..(Ready + m - 1)
        PROVE  (unmasked_head + k) % CqCount # (unmasked_head + Ready + m) % CqCount
    <2> DEFINE x == unmasked_head + k
               y == unmasked_head + Ready + m
    <2>1. x \in Nat /\ y \in Nat /\ x < y /\ y - x < CqCount
      BY <1>1, Sizes DEF Idx
    <2> HIDE DEF x, y
    <2>2. x % CqCount # y % CqCount
      BY <2>1, Sizes, MasksDiffer, Zenon
    <2> QED BY <2>2, Zenon DEF x, y
  <1> QED BY <1>2, <1>3, <1>4, Zenon DEF cq_mask

LEMMA Concatenated ==
    ASSUME NEW c \in Seq(Nat), NEW m \in Nat, NEW d \in [1..m -> Nat]
    PROVE  /\ c \o d \in Seq(Nat) /\ Len(c \o d) = Len(c) + m /\ Len(c) \in Nat
           /\ \A k \in 1..(Len(c) + m) : (c \o d)[k] = IF k <= Len(c) THEN c[k] ELSE d[k - Len(c)]
  <1>1. d \in Seq(Nat) /\ Len(d) = m /\ Len(c) \in Nat
    OBVIOUS
  <1>2. c \o d \in Seq(Nat) /\ Len(c \o d) = Len(c) + m
    BY <1>1, SMTT(30)
  <1>3. ASSUME NEW k \in 1..(Len(c) + m)
        PROVE  (c \o d)[k] = IF k <= Len(c) THEN c[k] ELSE d[k - Len(c)]
    BY <1>1
  <1> QED BY <1>1, <1>2, <1>3, Zenon

\* Completions that enter the ring in an order: what waits keeps its place.
LEMMA CompletionGrows ==
    ASSUME RingInv, NEW m \in Nat, Ready + m <= CqCount,
           NEW order \in [1..m -> Nat],
           cq_tail' = Plus(cq_tail, m), unmasked_head' = unmasked_head,
           completed' = completed \o order, DOMAIN cqes' = 0..(CqCount - 1),
           \A i \in 1..m : cqes'[cq_mask(cq_tail + i - 1)] = order[i],
           \A s \in 0..(CqCount - 1) :
              (\A i \in 1..m : cq_mask(cq_tail + i - 1) # s) => cqes'[s] = cqes[s]
    PROVE  cq_tail' \in Idx /\ Ready' = Ready + m /\ completed' \in Seq(Nat) /\ CompletionRing'
  <1>1. /\ cq_tail \in Idx /\ unmasked_head \in Idx /\ Ready \in Nat /\ completed \in Seq(Nat)
        /\ Len(completed) = Ready
    BY CountTypes, Zenon DEF RingInv, RingTypes, CompletionRing
  <1>2. cq_tail' \in Idx /\ Minus(Plus(cq_tail, m), unmasked_head) = Ready + m
    <2>1. Minus(cq_tail, unmasked_head) + m < Wrap
      BY <1>1, Sizes DEF Ready
    <2> QED BY <1>1, <2>1, TailMoves, Zenon DEF Ready
  <1>3. Ready' = Ready + m
    BY <1>2, Zenon DEF Ready
  <1>5. /\ completed' \in Seq(Nat) /\ Len(completed') = Ready + m
        /\ \A k \in 1..(Ready + m) :
              completed'[k] = IF k <= Ready THEN completed[k] ELSE order[k - Ready]
    BY <1>1, Concatenated, ZenonT(30)
  <1>6. ASSUME NEW k \in 1..(Ready + m)
        PROVE  completed'[k] = cqes'[cq_mask(unmasked_head + k - 1)]
    <2>1. CASE k <= Ready
      <3> DEFINE s == cq_mask(unmasked_head + k - 1)
      <3>1. unmasked_head + k - 1 = unmasked_head + (k - 1) /\ k - 1 \in 0..(Ready - 1)
        BY <1>1, <2>1 DEF Idx
      <3>2. \A i \in 1..m : cq_mask(cq_tail + i - 1) # s
        <4> SUFFICES ASSUME NEW i \in 1..m PROVE cq_mask(cq_tail + i - 1) # s
          BY Zenon
        <4>1. /\ i - 1 \in Nat /\ Ready + (i - 1) < CqCount /\ cq_tail + i - 1 = cq_tail + (i - 1)
              /\ k - 1 \in 0..(Ready + (i - 1) - 1)
          BY <1>1, <3>1, Sizes DEF Idx
        <4>2. cq_mask(unmasked_head + (k - 1)) # cq_mask(cq_tail + (i - 1))
          BY <4>1, TailSlot, Zenon
        <4> QED BY <3>1, <4>1, <4>2, Zenon
      <3>3. s \in 0..(CqCount - 1)
        <4>1. unmasked_head + (k - 1) \in Nat
          BY <1>1, <3>1 DEF Idx
        <4> QED BY <3>1, <4>1, Sizes, Divided, Zenon DEF cq_mask
      <3>4. cqes'[s] = cqes[s]
        BY <3>2, <3>3, Zenon
      <3>5. k \in 1..Ready
        BY <1>1, <2>1
      <3>6. completed[k] = cqes[s]
        BY <3>5, Zenon DEF RingInv, CompletionRing
      <3> QED BY <1>5, <2>1, <3>4, <3>6, Zenon
    <2>2. CASE ~(k <= Ready)
      <3> DEFINE i == k - Ready
      <3>1. /\ i \in 1..m /\ i - 1 \in Nat /\ Ready + (i - 1) < CqCount
            /\ unmasked_head + k - 1 = unmasked_head + Ready + (i - 1)
            /\ cq_tail + i - 1 = cq_tail + (i - 1)
        BY <1>1, <2>2, Sizes DEF Idx
      <3>2. completed'[k] = order[i]
        BY <1>5, <2>2, Zenon
      <3> HIDE DEF i
      <3>3. cq_mask(cq_tail + (i - 1)) = cq_mask(unmasked_head + Ready + (i - 1))
        BY <3>1, TailSlot, Zenon
      <3>4. cqes'[cq_mask(cq_tail + i - 1)] = order[i]
        BY <3>1, Zenon
      <3> QED BY <3>1, <3>2, <3>3, <3>4, Zenon
    <2> QED BY <2>1, <2>2, Zenon
  <1>7. CompletionRing'
    <2>1. CompletionRing' <=>
             /\ Len(completed') = Ready'
             /\ \A k \in 1..Ready' : completed'[k] = cqes'[cq_mask(unmasked_head' + k - 1)]
      BY Zenon DEF CompletionRing, cq_mask
    <2>2. Len(completed') = Ready'
      BY <1>3, <1>5, Zenon
    <2> QED BY <1>3, <1>6, <2>1, <2>2, Zenon
  <1> QED BY <1>2, <1>3, <1>5, <1>7, Zenon

\* What is reapable once an order of completions has been added to the ring, and
\* that none of them is there twice.
LEMMA ReapableGrows ==
    ASSUME NEW c \in Seq(Nat), NEW D \in SUBSET Nat, Cardinality(D) \in Nat,
           NEW order \in Orders(D), Distinct(c), Elements(c) \cap D = {}
    PROVE  Elements(c \o order) = Elements(c) \cup D /\ Distinct(c \o order)
  <1> DEFINE l == Len(c)
             e == c \o order
             m == Cardinality(D)
  <1>0. /\ order \in [1..m -> D] /\ order \in [1..m -> Nat] /\ m \in Nat
        /\ \A j, k \in 1..m : order[j] = order[k] => j = k
        /\ \A x \in D : \E i \in 1..m : order[i] = x
    <2>1. /\ order \in [1..m -> D]
          /\ \A j, k \in 1..m : order[j] = order[k] => j = k
          /\ \A x \in D : \E i \in 1..m : order[i] = x
      BY Zenon DEF Orders
    <2> HIDE DEF m
    <2>2. order \in [1..m -> Nat]
      BY <2>1, Zenon
    <2> QED BY <2>1, <2>2, Zenon DEF m
  <1> HIDE DEF m
  <1>c. /\ \A j, k \in 1..l : c[j] = c[k] => j = k
        /\ {c[k] : k \in 1..l} \cap D = {}
    BY Zenon DEF Distinct, Elements
  <1>1. /\ l \in Nat /\ Len(e) = l + m
        /\ \A k \in 1..(l + m) : e[k] = IF k <= l THEN c[k] ELSE order[k - l]
    <2>1. order \in [1..m -> Nat] /\ m \in Nat
      BY <1>0, Zenon
    <2> QED BY <2>1, Concatenated, Zenon
  <1> HIDE DEF l, e
  <1>2. Len(e) = l + m
    BY <1>1, Zenon
  <1>3. \A k \in 1..l : e[k] = c[k] /\ k \in 1..(l + m)
    BY <1>0, <1>1
  <1>4. \A i \in 1..m : e[l + i] = order[i] /\ l + i \in 1..(l + m)
    BY <1>0, <1>1
  <1>5. \A k \in 1..(l + m) : k \in 1..l \/ \E i \in 1..m : k = l + i
    <2> SUFFICES ASSUME NEW k \in 1..(l + m), k \notin 1..l PROVE k - l \in 1..m /\ k = l + (k - l)
      BY Zenon
    <2> QED BY <1>0, <1>1
  <1>6. {e[k] : k \in 1..Len(e)} = {c[k] : k \in 1..l} \cup D
    <2>1. ASSUME NEW x \in {e[k] : k \in 1..Len(e)} PROVE x \in {c[k] : k \in 1..l} \cup D
      <3>1. PICK k \in 1..(l + m) : x = e[k]
        BY <1>2, <2>1, Zenon
      <3>2. CASE k \in 1..l
        BY <1>3, <3>1, <3>2, Zenon
      <3>3. CASE \E i \in 1..m : k = l + i
        BY <1>0, <1>4, <3>1, <3>3
      <3> QED BY <1>5, <3>2, <3>3, Zenon
    <2>2. ASSUME NEW x \in {c[k] : k \in 1..l} PROVE x \in {e[k] : k \in 1..Len(e)}
      BY <1>2, <1>3, <2>2, Zenon
    <2>3. ASSUME NEW x \in D PROVE x \in {e[k] : k \in 1..Len(e)}
      <3>1. PICK i \in 1..m : order[i] = x
        BY <1>0, <2>3, Zenon
      <3>2. e[l + i] = x /\ l + i \in 1..Len(e)
        BY <1>2, <1>4, <3>1, Zenon
      <3> QED BY <3>2, Zenon
    <2> QED BY <2>1, <2>2, <2>3, Zenon
  <1>7. ASSUME NEW j \in 1..Len(e), NEW k \in 1..Len(e), e[j] = e[k] PROVE j = k
    <2>1. CASE j \in 1..l /\ k \in 1..l
      BY <1>c, <1>3, <1>7, <2>1, Zenon
    <2>2. CASE j \in 1..l /\ k \notin 1..l
      <3>1. PICK i \in 1..m : k = l + i
        BY <1>2, <1>5, <2>2, Zenon
      <3>2. e[j] = c[j] /\ e[k] = order[i] /\ order[i] \in D
        BY <1>0, <1>3, <1>4, <2>2, <3>1, Zenon
      <3> QED BY <1>c, <1>7, <2>2, <3>2, Zenon
    <2>3. CASE j \notin 1..l /\ k \in 1..l
      <3>1. PICK i \in 1..m : j = l + i
        BY <1>2, <1>5, <2>3, Zenon
      <3>2. e[k] = c[k] /\ e[j] = order[i] /\ order[i] \in D
        BY <1>0, <1>3, <1>4, <2>3, <3>1, Zenon
      <3> QED BY <1>c, <1>7, <2>3, <3>2, Zenon
    <2>4. CASE j \notin 1..l /\ k \notin 1..l
      <3>1. PICK i \in 1..m : j = l + i
        BY <1>2, <1>5, <2>4, Zenon
      <3>2. PICK h \in 1..m : k = l + h
        BY <1>2, <1>5, <2>4, Zenon
      <3>3. order[i] = order[h]
        BY <1>4, <1>7, <3>1, <3>2, Zenon
      <3> QED BY <1>0, <3>1, <3>2, <3>3, Zenon
    <2> QED BY <2>1, <2>2, <2>3, <2>4, Zenon
  <1> QED BY <1>6, <1>7, Zenon DEF e, l, Distinct, Elements

LEMMA CompleteKeeps == RingInv /\ CompleteOp => RingInv'
  <1> SUFFICES ASSUME RingInv, CompleteOp PROVE RingInv'
    OBVIOUS
  <1>1. PICK op \in inflight :
          /\ inflight' = inflight \ {op} /\ completed' = Append(completed, op)
          /\ cqes' = [cqes EXCEPT ![cq_mask(cq_tail)] = op] /\ cq_tail' = Plus(cq_tail, 1)
          /\ UNCHANGED <<sqes, sq_head, unmasked_tail, to_submit, unmasked_head, num_ops, pushed, reaped, drained>>
    BY Zenon DEF CompleteOp
  <1>2. /\ pending \in Nat /\ Ready \in Nat /\ pushed - pending \in Nat /\ Cardinality(inflight) \in Nat
        /\ Cardinality(reaped) \in Nat /\ Ready + Cardinality(inflight) <= CqCount
        /\ inflight \subseteq 1..(pushed - pending) /\ Reapable \subseteq 1..(pushed - pending)
        /\ IsFiniteSet(inflight) /\ completed \in Seq(Nat) /\ cq_tail \in Idx
        /\ cqes \in [0..(CqCount - 1) -> Nat]
    BY CountTypes, Zenon DEF RingInv, RingTypes
  <1>3. op \in Nat
    BY <1>2
  <1>4. IsFiniteSet(inflight') /\ Cardinality(inflight') = Cardinality(inflight) - 1 /\ Cardinality(inflight) > 0
    <2>1. /\ IsFiniteSet(inflight \ {op})
          /\ Cardinality(inflight \ {op}) = IF op \in inflight THEN Cardinality(inflight) - 1 ELSE Cardinality(inflight)
      BY <1>2, FS_RemoveElement, Zenon
    <2>2. Cardinality(inflight \ {op}) \in Nat
      BY <2>1, FS_CardinalityType, Zenon
    <2> QED BY <1>1, <1>2, <2>1, <2>2
  <1> DEFINE order == [i \in 1..1 |-> op]
             t == cq_mask(cq_tail)
  <1>5. order \in [1..1 -> Nat] /\ Append(completed, op) = completed \o order /\ order \in [1..1 -> {op}]
        /\ order[1] = op
    BY <1>2, <1>3, SMTT(30)
  <1>6. t \in 0..(CqCount - 1)
    <2>1. cq_tail \in Nat
      BY <1>2 DEF Idx
    <2> QED BY <2>1, Sizes, Divided, Zenon DEF cq_mask
  <1>7. cqes' \in [0..(CqCount - 1) -> Nat] /\ cqes'[t] = op /\ \A s \in 0..(CqCount - 1) : s # t => cqes'[s] = cqes[s]
    <2>1. cqes' = [cqes EXCEPT ![t] = op]
      BY <1>1, Zenon
    <2> HIDE DEF t
    <2> QED BY <1>2, <1>3, <1>6, <2>1, Zenon
  <1>8. \A i \in 1..1 : cq_mask(cq_tail + i - 1) = t /\ i = 1
    BY <1>2 DEF Idx
  <1>9. cq_tail' \in Idx /\ Ready' = Ready + 1 /\ completed' \in Seq(Nat) /\ CompletionRing'
    <2>1. Ready + 1 <= CqCount /\ 1 \in Nat /\ 1 \in 1..1
      BY <1>2, <1>4, Sizes, SMTT(30)
    <2>2. DOMAIN cqes' = 0..(CqCount - 1)
      BY <1>7, Zenon
    <2>3. \A i \in 1..1 : cqes'[cq_mask(cq_tail + i - 1)] = order[i]
      BY <1>5, <1>7, <1>8, Zenon
    <2>4. \A s \in 0..(CqCount - 1) : (\A i \in 1..1 : cq_mask(cq_tail + i - 1) # s) => cqes'[s] = cqes[s]
      BY <1>7, <1>8, <2>1, Zenon
    <2>5. cq_tail' = Plus(cq_tail, 1) /\ unmasked_head' = unmasked_head /\ completed' = completed \o order
      BY <1>1, <1>5, Zenon
    <2> HIDE DEF order, t
    <2> QED BY <1>5, <2>1, <2>2, <2>3, <2>4, <2>5, CompletionGrows, Zenon
  <1>10. pending' = pending
    BY <1>1, Zenon DEF pending, Minus
  <1>11. Reapable' = Reapable \cup {op} /\ Reapable \cap {op} = {} /\ Distinct(completed')
    <2>1. Reapable \cap {op} = {} /\ Distinct(completed)
      BY Zenon DEF RingInv, OnePlace
    <2>2. Cardinality({op}) = 1 /\ {op} \in SUBSET Nat
      BY <1>3, FS_Singleton, Zenon
    <2>3. order \in Orders({op})
      <3>1. /\ \A j, k \in 1..1 : order[j] = order[k] => j = k
            /\ \A x \in {op} : \E i \in 1..1 : order[i] = x
        BY <1>5
      <3> HIDE DEF order
      <3> QED BY <1>5, <2>2, <3>1, Zenon DEF Orders
    <2> HIDE DEF order
    <2>4. Elements(completed \o order) = Elements(completed) \cup {op} /\ Distinct(completed \o order)
      <3>1. Elements(completed) \cap {op} = {} /\ completed \in Seq(Nat) /\ Cardinality({op}) \in Nat
        BY <1>2, <2>1, <2>2 DEF Reapable
      <3> QED BY <2>1, <2>2, <2>3, <3>1, ReapableGrows, Zenon
    <2> QED BY <1>1, <1>5, <2>1, <2>4, Zenon DEF Reapable
  <1>12. pushed' - pending' = pushed - pending /\ reaped' = reaped
    BY <1>1, <1>10, Zenon
  <1>13. OnePlace'
    <2>1. /\ inflight \cup Reapable \cup reaped = 1..(pushed - pending)
          /\ inflight \cap Reapable = {} /\ inflight \cap reaped = {} /\ Reapable \cap reaped = {}
      BY Zenon DEF RingInv, OnePlace
    <2>2. inflight' \cup Reapable' \cup reaped' = 1..(pushed' - pending')
      <3>1. inflight' \cup Reapable' \cup reaped' = inflight \cup Reapable \cup reaped
        BY <1>1, <1>11, <1>12, Zenon
      <3> QED BY <1>12, <2>1, <3>1, Zenon
    <2>3. inflight' \cap Reapable' = {} /\ inflight' \cap reaped' = {} /\ Reapable' \cap reaped' = {}
      <3>1. (inflight \ {op}) \cap (Reapable \cup {op}) = {} /\ (inflight \ {op}) \cap reaped = {}
        BY <2>1, Zenon
      <3>2. (Reapable \cup {op}) \cap reaped = {}
        BY <2>1, Zenon
      <3> QED BY <1>1, <1>11, <1>12, <3>1, <3>2, Zenon
    <2> QED BY <1>11, <2>2, <2>3, Zenon DEF OnePlace
  <1>14. RingTypes'
    <2>1. /\ sqes' \in [0..(SqCount - 1) -> Nat] /\ sq_head' \in Idx /\ unmasked_tail' \in Idx
          /\ unmasked_head' \in Idx /\ drained' \in BOOLEAN /\ to_submit' \in Nat
          /\ IsFiniteSet(reaped') /\ num_ops' \in Nat /\ pushed' \in Nat
          /\ num_ops' <= CqCount /\ pending' <= SqCount /\ pending' <= pushed'
      BY <1>1, <1>10, Zenon DEF RingInv, RingTypes
    <2> QED BY <1>4, <1>7, <1>9, <2>1, Zenon DEF RingTypes
  <1>15. SubmissionRing'
    BY <1>1, <1>10, Zenon DEF RingInv, SubmissionRing, sq_mask
  <1>16. RingCounts'
    <2>1. /\ num_ops = pending + Cardinality(inflight) + Ready /\ to_submit = pending
          /\ Cardinality(inflight) + Ready + Cardinality(reaped) = pushed - pending
      BY Zenon DEF RingInv, RingCounts
    <2>2. num_ops' = num_ops /\ to_submit' = to_submit
      BY <1>1, Zenon
    <2>3. num_ops' = pending' + Cardinality(inflight') + Ready'
      <3>1. pending + Cardinality(inflight) + Ready = pending + (Cardinality(inflight) - 1) + (Ready + 1)
        <4>1. pending \in Nat /\ Cardinality(inflight) \in Nat /\ Ready \in Nat
          BY <1>2, Zenon
        <4> QED BY <4>1
      <3> QED BY <1>4, <1>9, <1>10, <2>1, <2>2, <3>1, Zenon
    <2>4. Cardinality(inflight') + Ready' + Cardinality(reaped') = pushed' - pending'
      BY <1>2, <1>4, <1>9, <1>12, <2>1
    <2> QED BY <1>10, <2>1, <2>2, <2>3, <2>4, Zenon DEF RingCounts
  <1>17. DrainLeavesNothing'
    BY <1>1, Zenon DEF RingInv, DrainLeavesNothing
  <1> QED BY <1>9, <1>13, <1>14, <1>15, <1>16, <1>17, Zenon DEF RingInv

LEMMA PopKeeps == RingInv /\ pop => RingInv'
  <1> SUFFICES ASSUME RingInv, pop PROVE RingInv'
    OBVIOUS
  <1>1. /\ pending \in Nat /\ Ready \in Nat /\ pushed - pending \in Nat /\ Cardinality(inflight) \in Nat
        /\ Cardinality(reaped) \in Nat /\ cq_tail \in Idx /\ unmasked_head \in Idx
        /\ completed \in Seq(Nat) /\ num_ops \in Nat /\ IsFiniteSet(reaped) /\ Len(completed) = Ready
        /\ Reapable \subseteq 1..(pushed - pending) /\ Ready > 0
    BY CountTypes, Zenon DEF RingInv, RingTypes, CompletionRing, pop
  <1> DEFINE x == completed[1]
  <1>2. x = cqes[slot] /\ 1 \in 1..Ready
    <2>1. 1 \in 1..Ready /\ unmasked_head + 1 - 1 = unmasked_head
      BY <1>1 DEF Idx
    <2>2. completed[1] = cqes[cq_mask(unmasked_head + 1 - 1)]
      BY <2>1, Zenon DEF RingInv, CompletionRing
    <2> QED BY <2>1, <2>2, Zenon DEF slot
  <1>3. /\ reaped' = reaped \cup {x} /\ completed' = Tail(completed)
        /\ unmasked_head' = Plus(unmasked_head, 1) /\ drained' = FALSE
        /\ UNCHANGED <<sqes, sq_head, unmasked_tail, to_submit, pushed, inflight, cqes, cq_tail>>
    BY <1>2, Zenon DEF pop, kernel_side
  <1>4. num_ops' = num_ops - 1 /\ num_ops > 0
    <2>1. num_ops = pending + Cardinality(inflight) + Ready
      BY Zenon DEF RingInv, RingCounts
    <2>2. num_ops > 0
      BY <1>1, <2>1
    <2> QED BY <1>1, <2>2, Zenon DEF pop
  <1>5. unmasked_head' \in Idx /\ Ready' = Ready - 1
    <2>1. 1 <= Minus(cq_tail, unmasked_head) /\ 1 \in Nat
      BY <1>1 DEF Ready
    <2>2. Plus(unmasked_head, 1) \in Idx /\ Minus(cq_tail, Plus(unmasked_head, 1)) = Minus(cq_tail, unmasked_head) - 1
      BY <1>1, <2>1, HeadMoves, Zenon
    <2> QED BY <1>3, <2>2, Zenon DEF Ready
  <1>6. /\ completed' \in Seq(Nat) /\ Len(completed') = Ready - 1
        /\ \A k \in 1..(Ready - 1) : completed'[k] = completed[k + 1]
    BY <1>1, <1>3
  <1>7. CompletionRing'
    <2>1. ASSUME NEW k \in 1..(Ready - 1)
          PROVE  completed'[k] = cqes'[cq_mask(unmasked_head' + k - 1)]
      <3>1. /\ k + 1 \in 1..Ready /\ k - 1 \in Nat /\ 1 \in Nat /\ 1 < Wrap
            /\ unmasked_head + (k + 1) - 1 = unmasked_head + 1 + (k - 1)
        BY <1>1, Sizes DEF Idx
      <3>2. completed[k + 1] = cqes[cq_mask(unmasked_head + (k + 1) - 1)]
        BY <3>1, Zenon DEF RingInv, CompletionRing
      <3>3. (Plus(unmasked_head, 1) + (k - 1)) % CqCount = (unmasked_head + 1 + (k - 1)) % CqCount
        BY <1>1, <3>1, Sizes, MaskMoves
      <3>4. unmasked_head' + k - 1 = Plus(unmasked_head, 1) + (k - 1)
        BY <1>3, <1>5, Zenon DEF Idx
      <3>5. cqes' = cqes /\ completed'[k] = completed[k + 1]
        BY <1>3, <1>6, Zenon
      <3> QED BY <3>1, <3>2, <3>3, <3>4, <3>5, Zenon DEF cq_mask
    <2>2. CompletionRing' <=>
             /\ Len(completed') = Ready'
             /\ \A k \in 1..Ready' : completed'[k] = cqes'[cq_mask(unmasked_head' + k - 1)]
      BY Zenon DEF CompletionRing, cq_mask
    <2>3. Len(completed') = Ready'
      BY <1>5, <1>6, Zenon
    <2> QED BY <1>5, <2>1, <2>2, <2>3, Zenon
  <1>8. Reapable' = Reapable \ {x} /\ x \in Reapable /\ Distinct(completed')
    <2> DEFINE l == Ready
    <2>1. Distinct(completed) /\ Reapable = {completed[k] : k \in 1..l}
      BY <1>1, Zenon DEF RingInv, OnePlace, Reapable, Elements
    <2>2. Reapable' = {completed'[k] : k \in 1..(l - 1)}
      BY <1>6, Zenon DEF Reapable, Elements
    <2>3. l \in Nat /\ \A k \in 1..(l - 1) : completed'[k] = completed[k + 1]
      BY <1>1, <1>6, Zenon
    <2>4. \A j, k \in 1..l : completed[j] = completed[k] => j = k
      BY <1>1, <2>1, Zenon DEF Distinct
    <2>5. Len(completed') = l - 1 /\ 1 \in 1..l
      BY <1>2, <1>6, Zenon
    <2> HIDE DEF l
    <2>6. \A k \in 1..(l - 1) : k + 1 \in 1..l /\ k + 1 # 1
      BY <2>3
    <2>7. \A k \in 1..l : k # 1 => k - 1 \in 1..(l - 1) /\ (k - 1) + 1 = k
      BY <2>3
    <2>8. ASSUME NEW y \in Reapable' PROVE y \in Reapable \ {x}
      <3>1. PICK k \in 1..(l - 1) : y = completed'[k]
        BY <2>2, <2>8, Zenon
      <3>2. y = completed[k + 1] /\ k + 1 \in 1..l /\ k + 1 # 1
        BY <2>3, <2>6, <3>1, Zenon
      <3> QED BY <2>1, <2>4, <2>5, <3>2, Zenon
    <2>9. ASSUME NEW y \in Reapable \ {x} PROVE y \in Reapable'
      <3>1. PICK k \in 1..l : y = completed[k] /\ k # 1
        BY <2>1, <2>9, Zenon
      <3>2. completed'[k - 1] = y /\ k - 1 \in 1..(l - 1)
        BY <2>3, <2>7, <3>1, Zenon
      <3> QED BY <2>2, <3>2, Zenon
    <2>10. Distinct(completed')
      <3>1. ASSUME NEW j \in 1..(l - 1), NEW k \in 1..(l - 1), completed'[j] = completed'[k] PROVE j = k
        <4>1. completed[j + 1] = completed[k + 1]
          BY <2>3, <3>1, Zenon
        <4>2. j + 1 = k + 1
          BY <2>4, <2>6, <4>1, Zenon
        <4> QED BY <4>2
      <3> QED BY <2>5, <3>1, Zenon DEF Distinct
    <2> QED BY <2>1, <2>5, <2>8, <2>9, <2>10, Zenon
  <1>9. pending' = pending
    BY <1>3, Zenon DEF pending, Minus
  <1>10. pushed' - pending' = pushed - pending /\ inflight' = inflight
    BY <1>3, <1>9, Zenon
  <1>11. /\ inflight \cup Reapable \cup reaped = 1..(pushed - pending)
         /\ inflight \cap Reapable = {} /\ inflight \cap reaped = {} /\ Reapable \cap reaped = {}
    BY Zenon DEF RingInv, OnePlace
  <1>12. OnePlace'
    <2> HIDE DEF x
    <2>1. inflight' \cup Reapable' \cup reaped' = 1..(pushed' - pending')
      <3>1. inflight' \cup Reapable' \cup reaped' = inflight \cup Reapable \cup reaped
        BY <1>3, <1>8, <1>10, Zenon
      <3> QED BY <1>10, <1>11, <3>1, Zenon
    <2>2. inflight' \cap Reapable' = {} /\ inflight' \cap reaped' = {} /\ Reapable' \cap reaped' = {}
      <3>1. inflight \cap (Reapable \ {x}) = {} /\ inflight \cap (reaped \cup {x}) = {}
        BY <1>8, <1>11, Zenon
      <3>2. (Reapable \ {x}) \cap (reaped \cup {x}) = {}
        BY <1>11, Zenon
      <3> QED BY <1>3, <1>8, <1>10, <3>1, <3>2, Zenon
    <2> QED BY <1>8, <2>1, <2>2, Zenon DEF OnePlace
  <1>13. IsFiniteSet(reaped') /\ Cardinality(reaped') = Cardinality(reaped) + 1
    <2>1. x \notin reaped
      BY <1>8, <1>11, Zenon
    <2> HIDE DEF x
    <2>2. /\ IsFiniteSet(reaped \cup {x})
          /\ Cardinality(reaped \cup {x}) = IF x \in reaped THEN Cardinality(reaped) ELSE Cardinality(reaped) + 1
      BY <1>1, FS_AddElement, Zenon
    <2> QED BY <1>3, <2>1, <2>2, Zenon
  <1>14. RingTypes'
    <2>1. /\ sqes' \in [0..(SqCount - 1) -> Nat] /\ sq_head' \in Idx /\ unmasked_tail' \in Idx
          /\ cqes' \in [0..(CqCount - 1) -> Nat] /\ cq_tail' \in Idx
          /\ drained' \in BOOLEAN /\ to_submit' \in Nat
          /\ IsFiniteSet(inflight') /\ pushed' \in Nat /\ pending' <= SqCount /\ pending' <= pushed'
      BY <1>3, <1>9, Zenon DEF RingInv, RingTypes
    <2>2. num_ops <= CqCount
      BY Zenon DEF RingInv, RingTypes
    <2>3. num_ops' \in Nat /\ num_ops' <= CqCount
      BY <1>1, <1>4, <2>2, Sizes
    <2> QED BY <1>5, <1>6, <1>13, <2>1, <2>3, Zenon DEF RingTypes
  <1>15. SubmissionRing'
    BY <1>3, <1>9, Zenon DEF RingInv, SubmissionRing, sq_mask
  <1>16. RingCounts'
    <2>1. /\ num_ops = pending + Cardinality(inflight) + Ready /\ to_submit = pending
          /\ Cardinality(inflight) + Ready + Cardinality(reaped) = pushed - pending
      BY Zenon DEF RingInv, RingCounts
    <2>2. /\ pending \in Nat /\ Cardinality(inflight) \in Nat /\ Ready \in Nat /\ Cardinality(reaped) \in Nat
          /\ to_submit' = to_submit
      BY <1>1, <1>3, Zenon
    <2>3. num_ops' = pending' + Cardinality(inflight') + Ready'
      <3>1. pending + Cardinality(inflight) + Ready - 1 = pending + Cardinality(inflight) + (Ready - 1)
        BY <2>2, Zenon
      <3>2. num_ops' = pending + Cardinality(inflight) + Ready - 1
        BY <1>4, <2>1, <2>2
      <3> QED BY <1>5, <1>9, <1>10, <3>1, <3>2, Zenon
    <2>4. Cardinality(inflight') + Ready' + Cardinality(reaped') = pushed' - pending'
      <3>1. Cardinality(inflight) + (Ready - 1) + (Cardinality(reaped) + 1)
              = Cardinality(inflight) + Ready + Cardinality(reaped)
        BY <2>2
      <3> QED BY <1>5, <1>10, <1>13, <2>1, <3>1, Zenon
    <2> QED BY <1>9, <2>1, <2>2, <2>3, <2>4, Zenon DEF RingCounts
  <1>17. DrainLeavesNothing'
    BY <1>3, Zenon DEF DrainLeavesNothing
  <1> QED BY <1>7, <1>12, <1>14, <1>15, <1>16, <1>17, Zenon DEF RingInv

Written(order) ==
    [s \in 0..CqCount - 1 |->
       IF \E i \in 1..Len(order) : cq_mask(cq_tail + i - 1) = s
       THEN order[CHOOSE i \in 1..Len(order) : cq_mask(cq_tail + i - 1) = s] ELSE cqes[s]]

\* The ring after a drain: each entry the kernel wrote is found in its slot.
LEMMA DrainWrites ==
    ASSUME RingInv, NEW D \in SUBSET Nat, NEW m \in Nat, m = Cardinality(D), Ready + m <= CqCount,
           NEW order \in Orders(D), cqes' = Written(order)
    PROVE  /\ order \in [1..m -> Nat] /\ cqes' \in [0..(CqCount - 1) -> Nat]
           /\ \A i \in 1..m : cqes'[cq_mask(cq_tail + i - 1)] = order[i]
           /\ \A s \in 0..(CqCount - 1) :
                (\A i \in 1..m : cq_mask(cq_tail + i - 1) # s) => cqes'[s] = cqes[s]
  <1>1. order \in [1..m -> D]
    BY Zenon DEF Orders
  <1>2. order \in [1..m -> Nat]
    BY <1>1, Zenon
  <1>3. Len(order) = m
    BY <1>2
  <1> DEFINE At(i) == cq_mask(cq_tail + i - 1)
             Pick(s) == CHOOSE i \in 1..m : At(i) = s
  <1>4. cqes' = [s \in 0..(CqCount - 1) |-> IF \E i \in 1..m : At(i) = s THEN order[Pick(s)] ELSE cqes[s]]
    BY <1>3, Zenon DEF Written
  <1>5. /\ cq_tail \in Idx /\ unmasked_head \in Idx /\ Ready \in Nat /\ cqes \in [0..(CqCount - 1) -> Nat]
    BY CountTypes, Zenon DEF RingInv, RingTypes
  <1>6. ASSUME NEW i \in 1..m PROVE At(i) \in 0..(CqCount - 1)
    <2>1. cq_tail + i - 1 \in Nat
      BY <1>5 DEF Idx
    <2> QED BY <2>1, Sizes, Divided, Zenon DEF cq_mask
  <1>7. ASSUME NEW i \in 1..m, NEW j \in 1..m, i < j PROVE At(i) # At(j)
    <2> DEFINE a == cq_tail + i - 1
               b == cq_tail + j - 1
    <2>1. a \in Nat /\ b \in Nat /\ a < b /\ b - a < CqCount
      BY <1>5, <1>7, Sizes DEF Idx
    <2> HIDE DEF a, b
    <2>2. a % CqCount # b % CqCount
      BY <2>1, Sizes, MasksDiffer, Zenon
    <2> QED BY <2>2, Zenon DEF a, b, cq_mask
  <1> HIDE DEF At
  <1>8. ASSUME NEW s, \E i \in 1..m : At(i) = s PROVE Pick(s) \in 1..m /\ At(Pick(s)) = s
    BY <1>8, Zenon
  <1> HIDE DEF Pick
  <1>9. ASSUME NEW i \in 1..m PROVE Pick(At(i)) = i
    <2>1. Pick(At(i)) \in 1..m /\ At(Pick(At(i))) = At(i)
      BY <1>8, Zenon
    <2> DEFINE j == Pick(At(i))
    <2>2. j \in 1..m /\ At(j) = At(i)
      BY <2>1, Zenon
    <2> HIDE DEF j
    <2>3. ~(i < j) /\ ~(j < i)
      BY <1>7, <2>2, Zenon
    <2>4. j = i
      BY <2>2, <2>3
    <2> QED BY <2>4, Zenon DEF j
  <1>10. ASSUME NEW i \in 1..m PROVE cqes'[At(i)] = order[i]
    <2>1. cqes'[At(i)] = order[Pick(At(i))]
      BY <1>4, <1>6, Zenon
    <2> QED BY <1>9, <2>1, Zenon
  <1>11. ASSUME NEW s \in 0..(CqCount - 1), \A i \in 1..m : At(i) # s PROVE cqes'[s] = cqes[s]
    BY <1>4, <1>11, Zenon
  <1>12. cqes' \in [0..(CqCount - 1) -> Nat]
    <2>1. ASSUME NEW s \in 0..(CqCount - 1)
          PROVE  (IF \E i \in 1..m : At(i) = s THEN order[Pick(s)] ELSE cqes[s]) \in Nat
      <3>1. CASE \E i \in 1..m : At(i) = s
        BY <1>2, <1>8, <3>1, Zenon
      <3>2. CASE ~\E i \in 1..m : At(i) = s
        BY <1>5, <3>2, Zenon
      <3> QED BY <3>1, <3>2, Zenon
    <2> QED BY <1>4, <2>1, Zenon
  <1> QED BY <1>2, <1>10, <1>11, <1>12, Zenon DEF At

LEMMA DrainKeeps == RingInv /\ drain => RingInv'
  <1> SUFFICES ASSUME RingInv, drain PROVE RingInv'
    OBVIOUS
  <1>1. /\ pending \in Nat /\ Ready \in Nat /\ pushed - pending \in Nat /\ Cardinality(inflight) \in Nat
        /\ Cardinality(reaped) \in Nat /\ to_submit = pending /\ pushed \in Nat
        /\ completed \in Seq(Nat) /\ IsFiniteSet(inflight)
        /\ inflight \subseteq 1..(pushed - pending) /\ Reapable \subseteq 1..(pushed - pending)
    BY CountTypes, Zenon DEF RingInv, RingTypes
  <1>2. PICK n \in 0..to_submit : \E done \in SUBSET (inflight \cup Taken(n)) :
          /\ n = to_submit => Ready + Cardinality(done) >= min_complete
          /\ sq_head' = Plus(sq_head, n) /\ to_submit' = to_submit - n
          /\ inflight' = (inflight \cup Taken(n)) \ done
          /\ cq_tail' = Plus(cq_tail, Cardinality(done))
          /\ \E order \in Orders(done) :
               /\ cqes' = Written(order) /\ completed' = completed \o order
          /\ drained' = TRUE
          /\ UNCHANGED <<sqes, unmasked_tail, unmasked_head, num_ops, pushed, reaped>>
    <2>1. (IF PartialEnters THEN 0..to_submit ELSE {to_submit}) \subseteq 0..to_submit
      BY <1>1
    <2> QED BY <2>1, Zenon DEF drain, Written
  <1>3. PICK done \in SUBSET (inflight \cup Taken(n)) :
          /\ n = to_submit => Ready + Cardinality(done) >= min_complete
          /\ sq_head' = Plus(sq_head, n) /\ to_submit' = to_submit - n
          /\ inflight' = (inflight \cup Taken(n)) \ done
          /\ cq_tail' = Plus(cq_tail, Cardinality(done))
          /\ \E order \in Orders(done) :
               /\ cqes' = Written(order) /\ completed' = completed \o order
          /\ drained' = TRUE
          /\ UNCHANGED <<sqes, unmasked_tail, unmasked_head, num_ops, pushed, reaped>>
    BY <1>2, Zenon
  <1>4. PICK order \in Orders(done) :
               /\ cqes' = Written(order) /\ completed' = completed \o order
    BY <1>3, Zenon
  <1> DEFINE b == pushed - pending
             F == inflight \cup Taken(n)
             m == Cardinality(done)
  <1>5. n \in Nat /\ n <= pending /\ b \in Nat
    BY <1>1, <1>2
  <1>6. /\ Taken(n) = (b + 1)..(b + n) /\ IsFiniteSet(Taken(n)) /\ Cardinality(Taken(n)) = n
        /\ Taken(n) \cap (1..b) = {}
    BY <1>5, TakenIs, Zenon
  <1>7. sq_head' \in Idx /\ pending' = pending - n /\ SubmissionRing'
    BY <1>3, <1>5, SubmissionShrinks, Zenon
  <1>8. IsFiniteSet(F) /\ Cardinality(F) = Cardinality(inflight) + n
    <2>1. /\ IsFiniteSet(inflight \cup Taken(n))
          /\ Cardinality(inflight \cup Taken(n))
               = Cardinality(inflight) + Cardinality(Taken(n)) - Cardinality(inflight \cap Taken(n))
      BY <1>1, <1>6, FS_Union, Zenon
    <2>2. inflight \cap Taken(n) = {}
      BY <1>1, <1>6, Zenon
    <2>3. Cardinality(inflight \cap Taken(n)) = 0 /\ Cardinality(inflight) \in Nat
      BY <1>1, <2>2, FS_EmptySet, Zenon
    <2> QED BY <1>5, <1>6, <2>1, <2>3
  <1>9. F \subseteq Nat /\ F \subseteq 1..(b + n) /\ done \in SUBSET F /\ done \in SUBSET Nat
    <2>1. F \subseteq 1..(b + n)
      BY <1>1, <1>5, <1>6
    <2> HIDE DEF b
    <2>2. 1..(b + n) \subseteq Nat
      BY <1>5
    <2> QED BY <2>1, <2>2, Zenon
  <1>10. m \in Nat /\ m <= Cardinality(F) /\ (Cardinality(F) = m => F = done)
    <2>1. IsFiniteSet(done) /\ m <= Cardinality(F) /\ (Cardinality(F) = m => F = done)
      BY <1>8, <1>9, FS_Subset, Zenon
    <2> QED BY <2>1, FS_CardinalityType, Zenon
  <1>11. IsFiniteSet(F \ done) /\ Cardinality(F \ done) = Cardinality(F) - m
    <2>1. IsFiniteSet(F \ done) /\ Cardinality(F \ done) = Cardinality(F) - Cardinality(F \cap done)
      BY <1>8, FS_Difference, Zenon
    <2>2. F \cap done = done
      BY <1>9, Zenon
    <2> QED BY <2>1, <2>2, Zenon
  <1>12. num_ops = pending + Cardinality(inflight) + Ready
         /\ Cardinality(inflight) + Ready + Cardinality(reaped) = pushed - pending
    BY Zenon DEF RingInv, RingCounts
  <1>13. num_ops \in Nat /\ num_ops <= CqCount
    BY Zenon DEF RingInv, RingTypes
  <1> DEFINE f == Cardinality(inflight)
  <1>14. f \in Nat /\ Cardinality(F) = f + n /\ num_ops = pending + f + Ready
    BY <1>1, <1>8, <1>12, Zenon
  <1> HIDE DEF b, F, m, f
  <1>15. Ready + m <= CqCount
    BY <1>1, <1>5, <1>10, <1>13, <1>14, Sizes, SMTT(30)
  <1>16. /\ order \in [1..m -> Nat] /\ cqes' \in [0..(CqCount - 1) -> Nat]
         /\ \A i \in 1..m : cqes'[cq_mask(cq_tail + i - 1)] = order[i]
         /\ \A s \in 0..(CqCount - 1) : (\A i \in 1..m : cq_mask(cq_tail + i - 1) # s) => cqes'[s] = cqes[s]
    BY <1>4, <1>9, <1>10, <1>15, DrainWrites, Zenon DEF m
  <1>17. cq_tail' \in Idx /\ Ready' = Ready + m /\ completed' \in Seq(Nat) /\ CompletionRing'
    <2>1. cq_tail' = Plus(cq_tail, m) /\ unmasked_head' = unmasked_head /\ completed' = completed \o order
      BY <1>3, <1>4, Zenon DEF m
    <2>2. DOMAIN cqes' = 0..(CqCount - 1)
      BY <1>16, Zenon
    <2> QED BY <1>10, <1>15, <1>16, <2>1, <2>2, CompletionGrows, Zenon
  <1>18. inflight' = F \ done /\ reaped' = reaped /\ pushed' = pushed /\ num_ops' = num_ops
         /\ to_submit' = pending - n
    BY <1>1, <1>3, Zenon DEF F
  <1>19. pushed' - pending' = b + n
    BY <1>1, <1>5, <1>7, <1>18 DEF b
  <1>20. /\ inflight \cup Reapable \cup reaped = 1..b
         /\ inflight \cap Reapable = {} /\ inflight \cap reaped = {} /\ Reapable \cap reaped = {}
         /\ Distinct(completed)
    BY Zenon DEF RingInv, OnePlace, b
  <1>21. /\ (F \ done) \cup (Reapable \cup done) \cup reaped = 1..(b + n)
         /\ (F \ done) \cap (Reapable \cup done) = {} /\ (F \ done) \cap reaped = {}
         /\ (Reapable \cup done) \cap reaped = {} /\ Reapable \cap done = {}
    <2>1. F = inflight \cup ((b + 1)..(b + n)) /\ inflight \subseteq 1..b
      BY <1>1, <1>6, Zenon DEF F, b
    <2>2. (1..b) \cup ((b + 1)..(b + n)) = 1..(b + n) /\ (1..b) \cap ((b + 1)..(b + n)) = {}
      BY <1>5
    <2>3. F \cap Reapable = {} /\ F \cap reaped = {}
      BY <1>20, <2>1, <2>2, Zenon
    <2>4. F \cup Reapable \cup reaped = 1..(b + n)
      BY <1>20, <2>1, <2>2, Zenon
    <2> QED BY <1>9, <1>20, <2>3, <2>4, Zenon
  <1>22. Reapable' = Reapable \cup done /\ Distinct(completed')
    <2>1. Elements(completed \o order) = Elements(completed) \cup done /\ Distinct(completed \o order)
      BY <1>1, <1>4, <1>9, <1>10, <1>20, <1>21, ReapableGrows, Zenon DEF Reapable, m
    <2> QED BY <1>4, <2>1, Zenon DEF Reapable
  <1>23. OnePlace'
    BY <1>18, <1>19, <1>21, <1>22, Zenon DEF OnePlace
  <1>24. RingTypes'
    <2>1. /\ sqes' \in [0..(SqCount - 1) -> Nat] /\ unmasked_tail' \in Idx /\ unmasked_head' \in Idx
          /\ IsFiniteSet(reaped') /\ pushed' \in Nat /\ num_ops' \in Nat /\ num_ops' <= CqCount
          /\ drained' \in BOOLEAN
      BY <1>3, Zenon DEF RingInv, RingTypes
    <2>2. pending <= SqCount /\ pending <= pushed
      BY Zenon DEF RingInv, RingTypes
    <2>3. to_submit' \in Nat /\ pending' <= SqCount /\ pending' <= pushed'
      BY <1>1, <1>5, <1>7, <1>18, <2>2, Sizes
    <2> QED BY <1>7, <1>11, <1>16, <1>17, <1>18, <2>1, <2>3, Zenon DEF RingTypes
  <1>25. RingCounts'
    <2>1. Cardinality(inflight') = f + n - m
      BY <1>5, <1>10, <1>11, <1>14, <1>18, SMTT(30)
    <2>2. num_ops' = pending' + Cardinality(inflight') + Ready'
      <3>1. pending + f + Ready = (pending - n) + (f + n - m) + (Ready + m)
        BY <1>1, <1>5, <1>10, <1>14
      <3> QED BY <1>7, <1>14, <1>17, <1>18, <2>1, <3>1, Zenon
    <2>3. Cardinality(inflight') + Ready' + Cardinality(reaped') = pushed' - pending'
      <3>1. f + Ready + Cardinality(reaped) = b /\ Cardinality(reaped) \in Nat
        BY <1>1, <1>12, Zenon DEF f, b
      <3>2. (f + n - m) + (Ready + m) + Cardinality(reaped) = b + n
        <4>1. f \in Nat /\ n \in Nat /\ m \in Nat /\ Ready \in Nat
          BY <1>1, <1>5, <1>10, <1>14, Zenon
        <4>2. \A r, c \in Nat : f + r + c = b => (f + n - m) + (r + m) + c = b + n
          BY <4>1
        <4> QED BY <3>1, <4>1, <4>2, Zenon
      <3> QED BY <1>17, <1>18, <1>19, <2>1, <3>2, Zenon
    <2> QED BY <1>7, <1>18, <2>2, <2>3, Zenon DEF RingCounts
  <1>26. DrainLeavesNothing'
    <2> SUFFICES ASSUME to_submit' = 0 PROVE inflight' = {}
      BY Zenon DEF DrainLeavesNothing
    <2>1. n = to_submit /\ n = pending
      BY <1>1, <1>5, <1>18
    <2>2. Ready + m >= num_ops
      BY <1>3, <2>1, Zenon DEF m, min_complete
    <2>3. Cardinality(F) = m
      BY <1>1, <1>5, <1>10, <1>14, <2>1, <2>2, SMTT(30)
    <2> QED BY <1>10, <1>18, <2>3, Zenon
  <1> QED BY <1>7, <1>17, <1>23, <1>24, <1>25, <1>26, Zenon DEF RingInv

-----------------------------------------------------------------------------
(* The theorem.                                                            *)

LEMMA RingInit == UringInit => RingInv
  <1> SUFFICES ASSUME UringInit PROVE RingInv
    BY Zenon
  <1>1. 0 \in Idx /\ Minus(0, 0) = 0
    <2>1. 0 \in Idx
      BY Sizes DEF Idx
    <2> QED BY <2>1, MinusIs DEF Idx
  <1>2. pending = 0 /\ Ready = 0
    BY <1>1, Zenon DEF UringInit, pending, Ready
  <1>3. IsFiniteSet({}) /\ Cardinality({}) = 0
    BY FS_EmptySet, Zenon
  <1>4. Reapable = {} /\ Len(completed) = 0 /\ Distinct(completed)
    BY DEF UringInit, Reapable, Elements, Distinct
  <1>5. RingTypes
    BY <1>1, <1>2, <1>3, Sizes DEF UringInit, RingTypes
  <1>6. SubmissionRing
    BY <1>2 DEF SubmissionRing
  <1>7. CompletionRing
    BY <1>2, <1>4 DEF CompletionRing
  <1>8. OnePlace
    <2>1. 1..(pushed - pending) = {}
      BY <1>2 DEF UringInit
    <2> QED BY <1>4, <2>1, Zenon DEF UringInit, OnePlace
  <1>9. RingCounts
    BY <1>2, <1>3 DEF UringInit, RingCounts
  <1> QED BY <1>5, <1>6, <1>7, <1>8, <1>9, Zenon DEF UringInit, RingInv, DrainLeavesNothing

LEMMA RingStep == RingInv /\ [UringNext]_uvars => RingInv'
  <1> SUFFICES ASSUME RingInv, [UringNext]_uvars PROVE RingInv'
    BY Zenon
  <1>1. CASE push
    BY <1>1, PushKeeps, Zenon
  <1>2. CASE submit
    BY <1>2, SubmitKeeps, ZenonT(30)
  <1>3. CASE CompleteOp
    BY <1>3, CompleteKeeps, Zenon
  <1>4. CASE pop
    BY <1>4, PopKeeps, Zenon
  <1>5. CASE drain
    BY <1>5, DrainKeeps, Zenon
  <1>6. CASE UNCHANGED uvars
    <2>1. pending' = pending /\ Ready' = Ready /\ Reapable' = Reapable
      BY <1>6, Zenon DEF uvars, pending, Ready, Minus, Reapable, Elements
    <2>2. RingTypes'
      BY <1>6, <2>1, Zenon DEF uvars, RingInv, RingTypes
    <2>3. SubmissionRing' /\ CompletionRing'
      BY <1>6, <2>1, Zenon DEF uvars, RingInv, SubmissionRing, CompletionRing, sq_mask, cq_mask
    <2>4. OnePlace' /\ RingCounts' /\ DrainLeavesNothing'
      BY <1>6, <2>1, Zenon DEF uvars, RingInv, OnePlace, RingCounts, DrainLeavesNothing, Distinct
    <2> QED BY <2>2, <2>3, <2>4, Zenon DEF RingInv
  <1> QED BY <1>1, <1>2, <1>3, <1>4, <1>5, <1>6, Zenon DEF UringNext

LEMMA RingInvExact == RingInv => RingsAreExact
  <1> SUFFICES ASSUME RingInv PROVE RingsAreExact
    BY Zenon
  <1>1. /\ pending \in Nat /\ Ready \in Nat /\ pushed - pending \in Nat /\ pushed \in Nat
        /\ Cardinality(inflight) \in Nat /\ Cardinality(reaped) \in Nat
        /\ Ready + Cardinality(inflight) <= CqCount /\ completed \in Seq(Nat)
    BY CountTypes, Zenon DEF RingInv, RingTypes
  <1>2. CqNeverOverruns
    BY <1>1, Zenon DEF CqNeverOverruns
  <1>3. OpsAreCounted
    BY Zenon DEF RingInv, RingCounts, OpsAreCounted
  <1>4. completed = [i \in 1..Ready |-> cqes[cq_mask(unmasked_head + i - 1)]]
    <2> DEFINE C(i) == cqes[cq_mask(unmasked_head + i - 1)]
    <2>1. Len(completed) = Ready /\ \A k \in 1..Ready : completed[k] = C(k)
      BY Zenon DEF RingInv, CompletionRing
    <2> HIDE DEF C
    <2>2. completed = [i \in 1..Ready |-> C(i)]
      BY <1>1, <2>1
    <2> QED BY <2>2, Zenon DEF C
  <1>5. Queued \cup inflight \cup {completed[i] : i \in 1..Len(completed)} \cup reaped = 1..pushed
    <2> DEFINE b == pushed - pending
    <2>1. Taken(pending) = (b + 1)..(b + pending) /\ b \in Nat /\ b + pending = pushed
      BY <1>1, TakenIs
    <2>2. Queued = Taken(pending)
      BY Zenon DEF Queued, Taken
    <2>3. inflight \cup Reapable \cup reaped = 1..b /\ Reapable = {completed[i] : i \in 1..Len(completed)}
      BY Zenon DEF RingInv, OnePlace, Reapable, Elements
    <2> HIDE DEF b
    <2>4. (1..b) \cup ((b + 1)..(b + pending)) = 1..pushed
      BY <1>1, <2>1, SMTT(30)
    <2>5. Queued \cup inflight \cup Reapable \cup reaped = 1..pushed
      BY <2>1, <2>2, <2>3, <2>4, Zenon
    <2> QED BY <2>3, <2>5, Zenon
  <1>6. pending + Cardinality(inflight) + Len(completed) + Cardinality(reaped) = pushed
    <2>1. Cardinality(inflight) + Ready + Cardinality(reaped) = pushed - pending /\ Len(completed) = Ready
      BY Zenon DEF RingInv, RingCounts, CompletionRing
    <2> QED BY <1>1, <2>1, SMTT(30)
  <1> QED BY <1>2, <1>3, <1>4, <1>5, <1>6, Zenon DEF RingInv, RingsAreExact, EveryOpOnce

\* RingInv always holds of the io_uring of a block device (io_uring/src/queue): each
\* operation is in one place, found by both sides through their masks, whatever the
\* sizes of the rings, the width of the indices and what each enter takes.
THEOREM RingInvariant == UringSpec => []RingInv
  <1>1. UringInit => RingInv
    BY RingInit, Zenon
  <1>2. RingInv /\ [UringNext]_uvars => RingInv'
    BY RingStep, Zenon
  <1> QED BY <1>1, <1>2, PTL DEF UringSpec

\* Every operation pushed comes back once with its user data, the counts are right,
\* completions never overrun their ring, and a drain that submits everything leaves
\* nothing with the kernel.
THEOREM RingsExact == UringSpec => []RingsAreExact
  BY RingInvariant, RingInvExact, PTL

----------------------------------------------------------------------------
(* The vsock device.  What a handler leaves behind is judged by what the   *)
(* queues hold, so the invariant keeps the device's own used index beside  *)
(* the one in guest memory, and says of a snapshot what it says of the     *)
(* device: a restore brings all of it back at once.                        *)

RingType == [Queues -> [avail : Nat, used : Nat]]

\* The used index in memory is the device's, and what the driver has not seen
\* has its interrupt.
Signalled(r, d, s, i) ==
    \A q \in {"rx", "tx"} : r[q].used = d[q].used /\ (r[q].used > s[q] => i)

VsockInv ==
    /\ ring \in RingType /\ dev \in RingType /\ seen \in [Queues -> Nat]
    /\ pending_rx \in Nat /\ irq \in BOOLEAN
    /\ Signalled(ring, dev, seen, irq)
    /\ image.taken => /\ image.ring \in RingType /\ image.dev \in RingType
                      /\ image.seen \in [Queues -> Nat] /\ image.irq \in BOOLEAN
                      /\ Signalled(image.ring, image.dev, image.seen, image.irq)
    /\ PacketsAreDelivered /\ TxIsServed

\* pop and add_used of n buffers change one queue only.
OneQueueMoves(c, q, n, r, d) ==
    /\ c.ring \in RingType /\ c.dev \in RingType
    /\ \A p \in Queues \ {q} : c.ring[p] = r[p] /\ c.dev[p] = d[p]
    /\ c.ring[q].avail = r[q].avail /\ c.ring[q].used = d[q].used + n
    /\ c.dev[q].avail = d[q].avail + n /\ c.dev[q].used = d[q].used + n

LEMMA Consumed ==
    ASSUME NEW r \in RingType, NEW d \in RingType, NEW q \in Queues, NEW n \in Nat
    PROVE  OneQueueMoves(Consume(q, n, r, d), q, n, r, d)
  <1> DEFINE Rec == [avail : Nat, used : Nat]
             c == Consume(q, n, r, d)
             R == [r[q] EXCEPT !.used = d[q].used + n]
             D == [d[q] EXCEPT !.avail = d[q].avail + n]
             E == [D EXCEPT !.used = d[q].used + n]
             e == [d EXCEPT ![q] = D]
  <1>1. r \in [Queues -> Rec] /\ d \in [Queues -> Rec] /\ r[q] \in Rec /\ d[q] \in Rec
    BY Zenon DEF RingType
  <1>2. R \in Rec /\ R.avail = r[q].avail /\ R.used = d[q].used + n
    BY <1>1
  <1>3. D \in Rec /\ D.avail = d[q].avail + n /\ D.used = d[q].used
    BY <1>1
  <1>4. E \in Rec /\ E.avail = d[q].avail + n /\ E.used = d[q].used + n
    <2> HIDE DEF D
    <2> QED BY <1>1, <1>3
  <1>5. c.ring = [r EXCEPT ![q] = R]
    BY Zenon DEF Consume
  <1>6. e[q] = D /\ e \in [Queues -> Rec]
    BY <1>1, <1>3, Zenon
  <1>7. c.dev = [e EXCEPT ![q] = [e[q] EXCEPT !.used = e[q].used + n]]
    BY Zenon DEF Consume
  <1>8. [e[q] EXCEPT !.used = e[q].used + n] = E
    BY <1>3, <1>6, Zenon
  <1>9. c.dev = [e EXCEPT ![q] = E]
    BY <1>7, <1>8, ZenonT(30)
  <1>10. \A p \in Queues \ {q} : e[p] = d[p]
    BY <1>1, Zenon
  <1> HIDE DEF c, R, D, E, e, Rec
  <1>11. /\ c.ring \in [Queues -> Rec] /\ c.ring[q] = R
         /\ \A p \in Queues \ {q} : c.ring[p] = r[p]
    BY <1>1, <1>2, <1>5, Zenon
  <1>12. /\ c.dev \in [Queues -> Rec] /\ c.dev[q] = E
         /\ \A p \in Queues \ {q} : c.dev[p] = d[p]
    BY <1>4, <1>6, <1>9, <1>10, Zenon
  <1> QED BY <1>2, <1>4, <1>11, <1>12, Zenon DEF c, Rec, RingType, OneQueueMoves

\* process_rx leaves no packet beside a free buffer, unless the backend's queue
\* ran dry, and tells the driver.
LEMMA Received ==
    ASSUME VsockInv, NEW r \in RingType, NEW d \in RingType, NEW held \in Nat, NEW sent \in Nat,
           r["rx"] = ring["rx"], d["rx"] = dev["rx"], ReceiveInto(r, d, held, sent)
    PROVE  \E n \in Nat :
             /\ ring' = Consume("rx", n, r, d).ring /\ dev' = Consume("rx", n, r, d).dev
             /\ irq' = (irq \/ sent > 0 \/ n > 0)
             /\ pending_rx' \in Nat
             /\ pending_rx' > 0 /\ ~stalled' => n = Waiting("rx")
  <1>1. PICK o \in IF wants_rx(held) THEN RxOutcomes(Waiting("rx"), held) ELSE {[used |-> 0, filled |-> 0, ran_dry |-> FALSE]} :
           /\ ring' = Consume("rx", o.used, r, d).ring
           /\ dev' = Consume("rx", o.used, r, d).dev
           /\ pending_rx' = held - o.filled /\ stalled' = o.ran_dry
           /\ irq' = (irq \/ raise_irq(sent, o.used))
    BY Zenon DEF ReceiveInto
  <1>2. Waiting("rx") \in Int
    BY SMTT(30) DEF VsockInv, RingType, Waiting, Queues
  <1>3. /\ o.used \in Nat /\ o.filled \in 0..held
        /\ o.filled = held \/ o.used = Waiting("rx") \/ o.ran_dry
    <2>1. CASE held > 0
      <3>1. o \in RxOutcomes(Waiting("rx"), held)
        BY <2>1, Zenon DEF wants_rx
      <3> QED BY <1>2, <3>1, SMTT(30) DEF RxOutcomes
    <2>2. CASE ~(held > 0)
      BY <2>2, SMTT(30) DEF wants_rx
    <2> QED BY <2>1, <2>2, Zenon
  <1>4. pending_rx' \in Nat /\ (pending_rx' > 0 /\ ~stalled' => o.used = Waiting("rx"))
    <2>1. o.filled = held => pending_rx' = 0
      BY <1>1
    <2>2. pending_rx' \in Nat
      BY <1>1, <1>3
    <2> QED BY <1>1, <1>3, <2>1, <2>2
  <1>5. irq' = (irq \/ sent > 0 \/ o.used > 0)
    BY <1>1, Zenon DEF raise_irq, VsockInv
  <1> QED BY <1>1, <1>3, <1>4, <1>5, Zenon

\* process_rx on its own, for what the handlers need of it.
LEMMA ReceiveStep ==
    ASSUME VsockInv, ReceiveInto(ring, dev, pending_rx, 0)
    PROVE  /\ ring' \in RingType /\ dev' \in RingType /\ pending_rx' \in Nat /\ irq' \in BOOLEAN
           /\ Signalled(ring', dev', seen, irq')
           /\ pending_rx' > 0 /\ ~stalled' => Waiting("rx")' = 0
           /\ Waiting("tx")' = Waiting("tx")
  <1> USE DEF VsockInv
  <1>1. PICK n \in Nat :
             /\ ring' = Consume("rx", n, ring, dev).ring /\ dev' = Consume("rx", n, ring, dev).dev
             /\ irq' = (irq \/ 0 > 0 \/ n > 0)
             /\ pending_rx' \in Nat
             /\ pending_rx' > 0 /\ ~stalled' => n = Waiting("rx")
    BY Received, Zenon
  <1>2. "rx" \in Queues /\ "tx" \in Queues \ {"rx"}
    BY Zenon DEF Queues
  <1>3. /\ ring' \in RingType /\ dev' \in RingType
        /\ ring'["tx"] = ring["tx"] /\ dev'["tx"] = dev["tx"]
        /\ ring'["rx"].avail = ring["rx"].avail /\ ring'["rx"].used = dev["rx"].used + n
        /\ dev'["rx"].avail = dev["rx"].avail + n /\ dev'["rx"].used = dev["rx"].used + n
    <2>1. OneQueueMoves(Consume("rx", n, ring, dev), "rx", n, ring, dev)
      BY <1>2, Consumed, Zenon
    <2> QED BY <1>1, <1>2, <2>1, ZenonT(30) DEF OneQueueMoves
  <1>4. \A q \in {"rx", "tx"} : /\ ring[q].used \in Nat /\ dev[q].used \in Nat /\ seen[q] \in Nat
                               /\ ring[q].avail \in Nat /\ dev[q].avail \in Nat
    BY Zenon DEF RingType, Queues
  <1>5. Signalled(ring', dev', seen, irq')
    <2>1. n > 0 => irq'
      BY <1>1, Zenon
    <2>2. irq => irq'
      BY <1>1, ZenonT(30)
    <2>3. n = 0 \/ n > 0
      OBVIOUS
    <2> QED BY <1>3, <1>4, <2>1, <2>2, <2>3, SMTT(30) DEF Signalled
  <1> QED BY <1>1, <1>3, <1>4, <1>5 DEF Waiting

\* process_tx and then process_rx: packets of the guest are left only to a
\* backend that refused one.
LEMMA TransmitStep ==
    ASSUME VsockInv, NEW notified \in Nat, Transmit(notified)
    PROVE  /\ ring' \in RingType /\ dev' \in RingType /\ pending_rx' \in Nat /\ irq' \in BOOLEAN
           /\ Signalled(ring', dev', seen, irq')
           /\ pending_rx' > 0 /\ ~stalled' => Waiting("rx")' = 0
           /\ Waiting("tx")' > 0 => refusing'
  <1> USE DEF VsockInv
  <1>1. \A q \in {"rx", "tx"} : /\ ring[q].used \in Nat /\ dev[q].used \in Nat /\ seen[q] \in Nat
                               /\ ring[q].avail \in Nat /\ dev[q].avail \in Nat
    BY Zenon DEF RingType, Queues
  <1>2. PICK t \in TxOutcomes :
          /\ refusing' = (refusing \/ t.refused)
          /\ ReceiveInto(Consume("tx", t.sent, ring, dev).ring, Consume("tx", t.sent, ring, dev).dev,
                         pending_rx + t.replies + notified, t.sent)
    BY Zenon DEF Transmit
  <1>3. /\ t.sent \in 0..Waiting("tx") /\ t.replies \in Nat
        /\ t.refused <=> t.sent < Waiting("tx")
    BY VsockAssumption, SMTT(30) DEF TxOutcomes
  <1>4. t.sent \in Nat /\ Waiting("tx") \in Int
    BY <1>1, <1>3, SMTT(30) DEF Waiting
  <1> DEFINE r == Consume("tx", t.sent, ring, dev).ring
             d == Consume("tx", t.sent, ring, dev).dev
             pending1 == pending_rx + t.replies + notified
  <1>5. ReceiveInto(r, d, pending1, t.sent)
    BY <1>2, Zenon
  <1>6. /\ r \in RingType /\ d \in RingType /\ pending1 \in Nat
        /\ r["rx"] = ring["rx"] /\ d["rx"] = dev["rx"]
        /\ r["tx"].avail = ring["tx"].avail /\ r["tx"].used = dev["tx"].used + t.sent
        /\ d["tx"].avail = dev["tx"].avail + t.sent /\ d["tx"].used = dev["tx"].used + t.sent
    <2>1. "tx" \in Queues /\ "rx" \in Queues \ {"tx"}
      BY Zenon DEF Queues
    <2>2. pending1 \in Nat
      BY <1>3, SMTT(30)
    <2> HIDE DEF pending1
    <2>3. OneQueueMoves(Consume("tx", t.sent, ring, dev), "tx", t.sent, ring, dev)
      BY <1>4, <2>1, Consumed, ZenonT(30)
    <2> QED BY <2>1, <2>2, <2>3, ZenonT(30) DEF OneQueueMoves
  <1> HIDE DEF r, d, pending1
  <1>7. PICK n \in Nat :
             /\ ring' = Consume("rx", n, r, d).ring /\ dev' = Consume("rx", n, r, d).dev
             /\ irq' = (irq \/ t.sent > 0 \/ n > 0)
             /\ pending_rx' \in Nat
             /\ pending_rx' > 0 /\ ~stalled' => n = Waiting("rx")
    BY <1>4, <1>5, <1>6, Received, SMTT(60)
  <1>8. "rx" \in Queues /\ "tx" \in Queues \ {"rx"}
    BY Zenon DEF Queues
  <1>9. /\ ring' \in RingType /\ dev' \in RingType
        /\ ring'["tx"] = r["tx"] /\ dev'["tx"] = d["tx"]
        /\ ring'["rx"].avail = ring["rx"].avail /\ ring'["rx"].used = dev["rx"].used + n
        /\ dev'["rx"].avail = dev["rx"].avail + n /\ dev'["rx"].used = dev["rx"].used + n
    <2>1. OneQueueMoves(Consume("rx", n, r, d), "rx", n, r, d)
      BY <1>6, <1>8, Consumed, Zenon
    <2> QED BY <1>6, <1>7, <1>8, <2>1, ZenonT(30) DEF OneQueueMoves
  <1>10. Signalled(ring', dev', seen, irq')
    <2>1. /\ n > 0 => irq'
          /\ t.sent > 0 => irq'
          /\ irq => irq'
      BY <1>7, Zenon
    <2>2. ring'["rx"].used = dev'["rx"].used /\ (ring'["rx"].used > seen["rx"] => irq')
      BY <1>1, <1>9, <2>1, SMTT(30) DEF Signalled
    <2>3. ring'["tx"].used = dev'["tx"].used /\ (ring'["tx"].used > seen["tx"] => irq')
      BY <1>1, <1>4, <1>6, <1>9, <2>1, SMTT(30) DEF Signalled
    <2> QED BY <2>2, <2>3, Zenon DEF Signalled
  <1>11. Waiting("tx")' > 0 => refusing'
    <2>1. Waiting("tx")' = Waiting("tx") - t.sent
      BY <1>1, <1>4, <1>6, <1>9, SMTT(30) DEF Waiting
    <2>2. Waiting("tx")' > 0 => t.refused
      BY <1>3, <1>4, <2>1, SMTT(30)
    <2> QED BY <1>2, <2>2, Zenon
  <1>12. pending_rx' > 0 /\ ~stalled' => Waiting("rx")' = 0
    BY <1>1, <1>7, <1>9, SMTT(60) DEF Waiting
  <1> QED BY <1>7, <1>9, <1>10, <1>11, <1>12, Zenon

\* Whatever waits in the vsock device has an event to come: for any number of
\* buffers and packets, across snapshots and restores, except packets that a
\* backend with an RX queue out of step did not find.
THEOREM VsockServed == VsockSpec => []VsockIsServed
  <1>1. VsockInit => VsockInv
    <2> SUFFICES ASSUME VsockInit PROVE VsockInv
      OBVIOUS
    <2>1. ring \in RingType /\ dev \in RingType /\ seen \in [Queues -> Nat]
      BY Zenon DEF VsockInit, RingType
    <2>2. \A q \in {"rx", "tx"} : /\ ring[q] = [avail |-> 0, used |-> 0]
                                 /\ dev[q] = [avail |-> 0, used |-> 0] /\ seen[q] = 0
      BY Zenon DEF VsockInit, Queues
    <2>3. image = [taken |-> FALSE] /\ pending_rx = 0 /\ irq = FALSE
      BY Zenon DEF VsockInit
    <2>4. ~image.taken
      BY <2>3, Zenon
    <2>5. Waiting("tx") = 0
      BY <2>2 DEF Waiting
    <2>6. Signalled(ring, dev, seen, irq)
      BY <2>2 DEF Signalled
    <2>7. PacketsAreDelivered /\ TxIsServed
      BY <2>3, <2>5 DEF PacketsAreDelivered, TxIsServed
    <2>8. pending_rx \in Nat /\ irq \in BOOLEAN
      BY <2>3, ZenonT(30)
    <2> QED BY <2>1, <2>4, <2>6, <2>7, <2>8, Zenon DEF VsockInv
  <1>2. ASSUME VsockInv, [VsockNext]_vdvars PROVE VsockInv'
    <2> USE <1>2 DEF VsockInv
    <2>1. CASE handle_rxq_event
      BY <2>1, ReceiveStep, SMTT(60) DEF handle_rxq_event, Handles, PacketsAreDelivered, TxIsServed, history
    <2>2. CASE handle_txq_event
      BY <2>2, TransmitStep, SMTT(60) DEF handle_txq_event, Handles, PacketsAreDelivered, TxIsServed, history
    <2>3. CASE notify_backend
      <3>1. PICK n \in 0..MaxPending - pending_rx : Transmit(n)
        BY <2>3, Zenon DEF notify_backend, Retransmit
      <3>2. n \in Nat
        BY <3>1, VsockAssumption
      <3> QED BY <2>3, <3>1, <3>2, TransmitStep, SMTT(60)
           DEF notify_backend, Handles, PacketsAreDelivered, TxIsServed, history
    <2>4. CASE handle_evq_event \/ activate \/ handle_activate_event \/ pause_vm \/ resume_vm \/ BackendReady
      BY <2>4, ZenonT(30) DEF handle_evq_event, activate, handle_activate_event, pause_vm, resume_vm, BackendReady,
         Handles, PacketsAreDelivered, TxIsServed, Waiting, Signalled, history
    <2>5. CASE save
      <3>1. /\ ResetRing \in RingType /\ ResetDev \in RingType
            /\ \A q \in {"rx", "tx"} : ResetRing[q] = ring[q] /\ ResetDev[q] = dev[q]
        <4>1. CASE sends_reset
          <5>1. "ev" \in Queues /\ {"rx", "tx"} \subseteq Queues \ {"ev"} /\ 1 \in Nat
            BY Zenon DEF Queues
          <5>2. ResetRing = Consume("ev", 1, ring, dev).ring /\ ResetDev = Consume("ev", 1, ring, dev).dev
            BY <4>1, Zenon DEF ResetRing, ResetDev
          <5>3. OneQueueMoves(Consume("ev", 1, ring, dev), "ev", 1, ring, dev)
            BY <5>1, Consumed, Zenon
          <5> QED BY <5>1, <5>2, <5>3, Zenon DEF OneQueueMoves
        <4> QED BY <4>1, ZenonT(30) DEF ResetRing, ResetDev
      <3>2. /\ image'.taken /\ image'.irq = irq /\ image'.dev = dev /\ image'.ring = ResetRing
            /\ image'.seen = seen /\ ring' = ResetRing /\ dev' = ResetDev /\ irq' = (irq \/ sends_reset)
            /\ UNCHANGED <<seen, queue_evts, pending_rx, stalled, refusing, lost>>
        BY <2>5, ZenonT(30) DEF save
      <3> QED BY <3>1, <3>2, ZenonT(30) DEF PacketsAreDelivered, TxIsServed, Waiting, Signalled
    <2>6. CASE restore
      <3>1. /\ image.taken /\ ring' = image.ring /\ dev' = image.dev /\ seen' = image.seen
            /\ irq' = image.irq /\ pending_rx' = 0 /\ image' = image
            /\ lost' = (image.ring["tx"].avail > image.dev["tx"].avail)
        BY <2>6, Zenon DEF restore
      <3>2. image.ring["tx"].avail \in Nat /\ image.dev["tx"].avail \in Nat
        BY <3>1, Zenon DEF RingType, Queues
      <3>3. PacketsAreDelivered'
        BY <3>1, SMTT(30) DEF PacketsAreDelivered
      <3>4. Waiting("tx")' = image.ring["tx"].avail - image.dev["tx"].avail
        BY <3>1, Zenon DEF Waiting
      <3>5. Waiting("tx")' > 0 => lost'
        <4>1. Waiting("tx")' > 0 => image.ring["tx"].avail > image.dev["tx"].avail
          BY <3>2, <3>4, SMTT(30)
        <4> QED BY <3>1, <4>1, Zenon
      <3>6. TxIsServed'
        BY <3>5, Zenon DEF TxIsServed
      <3> QED BY <3>1, <3>3, <3>6, Zenon DEF Signalled
    <2>7. ASSUME NEW q \in Queues, DriverPosts(q) PROVE VsockInv'
      <3>1. /\ ring' \in RingType
            /\ \A p \in Queues : ring'[p].used = ring[p].used /\ (p # q => ring'[p] = ring[p])
        BY <2>7 DEF DriverPosts, RingType
      <3>2. /\ queue_evts' = queue_evts \cup {q} /\ lost' = (lost /\ q # "tx")
            /\ UNCHANGED <<dev, seen, pending_rx, stalled, refusing, irq, image>>
        BY <2>7, Zenon DEF DriverPosts
      <3>3. {"rx", "tx"} \subseteq Queues
        BY Zenon DEF Queues
      <3>4. Signalled(ring', dev', seen', irq')
        BY <3>1, <3>2, <3>3, Zenon DEF Signalled
      <3>5. PacketsAreDelivered'
        BY <3>1, <3>2, <3>3, Zenon DEF PacketsAreDelivered, Waiting, Queues
      <3>6. TxIsServed'
        BY <3>1, <3>2, <3>3, Zenon DEF TxIsServed, Waiting
      <3> QED BY <3>1, <3>2, <3>4, <3>5, <3>6, Zenon
    <2>8. CASE DriverInterrupted
      <3>1. /\ seen' = [q \in Queues |-> ring[q].used]
            /\ UNCHANGED <<ring, dev, queue_evts, pending_rx, stalled, refusing, image, lost>> /\ irq' = FALSE
        BY <2>8, Zenon DEF DriverInterrupted
      <3>2. seen' \in [Queues -> Nat] /\ \A q \in {"rx", "tx"} : seen'[q] = ring[q].used /\ ring[q].used \in Nat
        BY <3>1, Zenon DEF RingType, Queues
      <3>3. Signalled(ring', dev', seen', irq')
        BY <3>1, <3>2, SMTT(30) DEF Signalled
      <3> QED BY <3>1, <3>2, <3>3, Zenon DEF PacketsAreDelivered, TxIsServed, Waiting
    <2>9. CASE UNCHANGED vdvars
      BY <2>9, Zenon DEF vdvars, PacketsAreDelivered, TxIsServed, Waiting, Signalled
    <2> QED BY <2>1, <2>2, <2>3, <2>4, <2>5, <2>6, <2>7, <2>8, <2>9, ZenonT(30) DEF VsockNext
  <1>3. VsockInv => VsockIsServed
    BY Zenon DEF VsockInv, VsockIsServed, UsedIsSignalled, Signalled
  <1> QED BY <1>1, <1>2, <1>3, PTL DEF VsockSpec
=============================================================================
