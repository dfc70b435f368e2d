------------------------------- MODULE TxBuf -------------------------------
(***************************************************************************)
(* The ring buffer of a vsock connection                                   *)
(* (devices/src/virtio/vsock/csm/txbuf.rs): two offsets that wrap at the   *)
(* width of u32, taken modulo the size of the buffer to index it, filled   *)
(* by one or two copies and emptied by one or two writes.                  *)
(***************************************************************************)
EXTENDS Naturals, Sequences

CONSTANTS
    U32,        \* 2^32, a multiple of Size
    Size,       \* TxBuf::SIZE
    Byte,       \* the bytes that are told apart
    MaxPush     \* bytes in one push

\* The offsets wrap at a multiple of the size (2^32 and 64 KiB in the code),
\* which is not the size itself: a full buffer is told from an empty one.
ASSUME TxBufAssumption ==
    /\ Size \in Nat \ {0} /\ U32 \in Nat /\ U32 > Size /\ U32 % Size = 0
    /\ MaxPush \in Nat /\ Byte # {}

VARIABLES data, head, tail,
          pushed, flushed   \* the last bytes accepted by push, taken by the sink

txvars == <<data, head, tail, pushed, flushed>>

len == (head + U32 - tail) % U32
head_ofs == head % Size
tail_ofs == tail % Size
is_empty == len = 0

Minimum(a, b) == IF a < b THEN a ELSE b

TxBufInit ==
    /\ data \in [0..(Size - 1) -> {CHOOSE b \in Byte : TRUE}]
    /\ head = 0 /\ tail = 0 /\ pushed = <<>> /\ flushed = <<>>

\* Mutant: the part of the slice behind the end of the buffer is not copied.
CopiedOnce(src) ==
    LET n == Minimum(Size - head_ofs, Len(src))
    IN  [i \in 0..(Size - 1) |->
            IF i >= head_ofs /\ i < head_ofs + n THEN src[i - head_ofs + 1] ELSE data[i]]

\* The first copy runs from head_ofs to the end of the slice at most, the
\* second one from its start.
Copied(src) ==
    LET n == Minimum(Size - head_ofs, Len(src))
    IN  [i \in 0..(Size - 1) |->
            IF i >= head_ofs /\ i < head_ofs + n THEN src[i - head_ofs + 1]
            ELSE IF n < Len(src) /\ i < Len(src) - n THEN src[n + i + 1]
            ELSE data[i]]

push(src) ==
    IF len + Len(src) > Size
    THEN pushed' = <<>> /\ flushed' = <<>> /\ UNCHANGED <<data, head, tail>>
    ELSE /\ data' = Copied(src) /\ head' = (head + Len(src)) % U32
         /\ pushed' = src /\ flushed' = <<>> /\ UNCHANGED tail

\* flush_to: the first write offers the bytes up to the end of the slice, and
\* only when the sink takes them all is there a second one, from the start of
\* the slice.  A sink that fails takes nothing.
flush_to(n1, n2) ==
    LET first == Minimum(Size - tail_ofs, len)
        Slice(from, n) == [i \in 1..n |-> data[from + i - 1]]
    IN  /\ n1 <= first /\ n2 <= len - first /\ (n1 < first => n2 = 0)
        /\ flushed' = Slice(tail_ofs, n1) \o Slice(0, n2)
        /\ tail' = (tail + n1 + n2) % U32
        /\ pushed' = <<>> /\ UNCHANGED <<data, head>>

Push == \E n \in 1..MaxPush : \E src \in [1..n -> Byte] : push(src)
Flush == \E n1, n2 \in 0..Size : ~is_empty /\ flush_to(n1, n2)
TxBufNext == Push \/ Flush
TxBufSpec == TxBufInit /\ [][TxBufNext]_txvars

\* What has been pushed and not yet flushed, oldest first.
Content == [i \in 1..len |-> data[(tail + i - 1) % Size]]

-----------------------------------------------------------------------------
(* Properties.                                                             *)

\* Types of the ring's offsets and contents.
TxBufTypeOK ==
    /\ data \in [0..(Size - 1) -> Byte]
    /\ head \in 0..(U32 - 1) /\ tail \in 0..(U32 - 1)

QueueStep == /\ Content \o pushed' = flushed' \o Content'
             /\ Len(Content') <= Size

\* The buffer is a queue of at most Size bytes: a push adds the whole slice
\* behind the content or nothing, and what a flush hands to the sink, in one
\* write or two, is a prefix of the content; the wrap of the offsets and of
\* the slice never shows.
IsQueue == [][QueueStep]_txvars

=============================================================================
