------------------------------ MODULE IoUring ------------------------------
(***************************************************************************)
(* The io_uring of an asynchronous block device (io_uring/src/lib.rs,       *)
(* queue/submission.rs, queue/completion.rs) under its engine               *)
(* (devices/src/virtio/block/io/async_io.rs).  Two rings are shared with    *)
(* the kernel: each side caches its own index, reads the other's, and finds *)
(* entries through a mask.  Indices wrap at Wrap (2^32 in the code).        *)
(***************************************************************************)
EXTENDS Naturals, Sequences, FiniteSets

CONSTANTS
  Wrap, SqCount, CqCount,     \* ring sizes, powers of two that divide Wrap
  MaxOps,                     \* how many operations are pushed
  PartialEnters               \* whether io_uring_enter may stop early or fail

\* A slot keeps its index over a wrap, and a full ring is not taken for an empty one.
ASSUME RingAssumption ==
    /\ {Wrap, MaxOps} \subseteq Nat /\ {SqCount, CqCount} \subseteq Nat \ {0}
    /\ Wrap % SqCount = 0 /\ Wrap % CqCount = 0 /\ SqCount < Wrap /\ CqCount < Wrap

Ops == 1..MaxOps              \* the user_data of the operations, in push order

VARIABLES
  sqes, sq_head, unmasked_tail, to_submit,   \* the submission ring; the kernel moves its head
  inflight,                                  \* operations the kernel works on
  cqes, cq_tail, unmasked_head,              \* the completion ring; the kernel moves its tail
  num_ops, pushed, reaped,                   \* how many were pushed; which came back
  completed,                                 \* history: completions not yet popped, in their order
  drained                                    \* history: drain has just returned
uvars == <<sqes, sq_head, unmasked_tail, to_submit, inflight, cqes, cq_tail, unmasked_head, num_ops,
           pushed, reaped, completed, drained>>
kernel_side == <<sq_head, inflight, cqes, cq_tail>>

Minus(a, b) == (a + Wrap - b) % Wrap         \* Wrapping<u32> subtraction
Plus(a, b) == (a + b) % Wrap
sq_mask(i) == i % SqCount
cq_mask(i) == i % CqCount

-----------------------------------------------------------------------------
pending == Minus(unmasked_tail, sq_head)

full_cqueue == num_ops >= CqCount

full_squeue == pending >= SqCount

\* IoUring::push and SubmissionQueue::push; the file is registered.  A push that
\* fails hands the user data back.
push ==
    /\ pushed < MaxOps /\ ~full_cqueue /\ ~full_squeue
    /\ sqes' = [sqes EXCEPT ![sq_mask(unmasked_tail)] = pushed + 1]
    /\ unmasked_tail' = Plus(unmasked_tail, 1) /\ to_submit' = to_submit + 1
    /\ num_ops' = num_ops + 1 /\ pushed' = pushed + 1 /\ drained' = FALSE
    /\ UNCHANGED <<unmasked_head, reaped, completed, kernel_side>>

\* The kernel takes n entries from its head on.
Taken(n) == {sqes[sq_mask(sq_head + i)] : i \in 0..n - 1}
Enter(n) ==
    /\ sq_head' = Plus(sq_head, n) /\ inflight' = inflight \cup Taken(n)
    /\ to_submit' = IF n > to_submit THEN 0 ELSE to_submit - n

\* submit: kick_submission_queue.
submit ==
    /\ to_submit > 0
    /\ \E n \in IF PartialEnters THEN 0..to_submit ELSE {to_submit} : Enter(n)
    /\ drained' = FALSE
    /\ UNCHANGED <<sqes, unmasked_tail, unmasked_head, num_ops, pushed, reaped, cqes, cq_tail, completed>>

\* The kernel completes an operation, in any order.
CompleteOp ==
    \E op \in inflight :
      /\ inflight' = inflight \ {op} /\ completed' = Append(completed, op)
      /\ cqes' = [cqes EXCEPT ![cq_mask(cq_tail)] = op] /\ cq_tail' = Plus(cq_tail, 1)
      /\ UNCHANGED <<sqes, sq_head, unmasked_tail, to_submit, unmasked_head, num_ops, pushed, reaped, drained>>

Ready == Minus(cq_tail, unmasked_head)

\* Mutant: the slot is looked up after the head has moved.
slot_after == cq_mask(Plus(unmasked_head, 1))
slot == cq_mask(unmasked_head)

\* CompletionQueue::pop and IoUring::pop.
pop ==
    /\ Ready > 0
    /\ reaped' = reaped \cup {cqes[slot]} /\ completed' = Tail(completed)
    /\ unmasked_head' = Plus(unmasked_head, 1)
    /\ num_ops' = IF num_ops > 0 THEN num_ops - 1 ELSE 0
    /\ drained' = FALSE
    /\ UNCHANGED <<sqes, unmasked_tail, to_submit, pushed, kernel_side>>

min_complete == num_ops

\* The orders in which the kernel may complete the operations of a set.
Orders(S) ==
    {order \in [1..Cardinality(S) -> S] :
        /\ \A i, j \in 1..Cardinality(S) : order[i] = order[j] => i = j
        /\ \A op \in S : \E i \in 1..Cardinality(S) : order[i] = op}

\* drain: io_uring_enter submits everything and waits until min_complete entries
\* are in the completion ring.  When it takes fewer entries than it was given
\* the kernel does not wait.
drain ==
    \E n \in IF PartialEnters THEN 0..to_submit ELSE {to_submit} :
      \E done \in SUBSET (inflight \cup Taken(n)) :
        /\ n = to_submit => Ready + Cardinality(done) >= min_complete
        /\ sq_head' = Plus(sq_head, n) /\ to_submit' = to_submit - n
        /\ inflight' = (inflight \cup Taken(n)) \ done
        /\ cq_tail' = Plus(cq_tail, Cardinality(done))
        /\ \E order \in Orders(done) :
             /\ cqes' = [s \in 0..CqCount - 1 |->
                           IF \E i \in 1..Len(order) : cq_mask(cq_tail + i - 1) = s
                           THEN order[CHOOSE i \in 1..Len(order) : cq_mask(cq_tail + i - 1) = s] ELSE cqes[s]]
             /\ completed' = completed \o order
        /\ drained' = TRUE
        /\ UNCHANGED <<sqes, unmasked_tail, unmasked_head, num_ops, pushed, reaped>>

UringInit ==
    /\ sqes = [i \in 0..SqCount - 1 |-> 0] /\ cqes = [i \in 0..CqCount - 1 |-> 0]
    /\ sq_head = 0 /\ unmasked_tail = 0 /\ to_submit = 0 /\ inflight = {}
    /\ cq_tail = 0 /\ unmasked_head = 0 /\ num_ops = 0 /\ pushed = 0 /\ reaped = {}
    /\ completed = << >> /\ drained = FALSE

UringNext == push \/ submit \/ CompleteOp \/ pop \/ drain
UringSpec == UringInit /\ [][UringNext]_uvars

-----------------------------------------------------------------------------
(* Properties.                                                             *)

\* Types of the rings, their indices and the operations in flight.
UringTypeOK ==
    /\ {sq_head, unmasked_tail, cq_tail, unmasked_head} \subseteq 0..Wrap - 1
    /\ to_submit \in 0..SqCount /\ num_ops \in 0..CqCount /\ inflight \subseteq Ops

Queued == {sqes[sq_mask(sq_head + i)] : i \in 0..pending - 1}

\* Operations come back exactly once, with the user data they were pushed with,
\* in the order of their completion; those not reaped are on exactly one of
\* the rings or with the kernel.  Every pointer is freed once ("It's up to the
\* caller to make sure that this value is ever freed").
EveryOpOnce ==
    /\ completed = [i \in 1..Ready |-> cqes[cq_mask(unmasked_head + i - 1)]]
    /\ Queued \cup inflight \cup {completed[i] : i \in 1..Len(completed)} \cup reaped = 1..pushed
    /\ pending + Cardinality(inflight) + Len(completed) + Cardinality(reaped) = pushed

\* "The total number of ops. These includes the ops on the submission queue, the
\* in-flight ops and the ops that are in the CQ, but haven't been popped yet."
OpsAreCounted == num_ops = pending + Cardinality(inflight) + Ready /\ to_submit = pending

\* "Submit all operations and wait for their completion": when drain returns
\* nothing is left with the kernel, provided it took all it was given.
DrainLeavesNothing == drained /\ to_submit = 0 => inflight = {}

\* Completions never overrun the ring the engine has not read.
CqNeverOverruns == Ready + Cardinality(inflight) <= CqCount

\* The io_uring rings lose and invent nothing over any wrap of their indices:
\* every operation pushed comes back once with its user data, num_ops and
\* to_submit count what is outstanding, completions never overrun their ring,
\* and a drain leaves nothing with the kernel.
RingsAreExact == EveryOpOnce /\ OpsAreCounted /\ CqNeverOverruns /\ DrainLeavesNothing
=============================================================================
