----------------------------- MODULE MCDevices ------------------------------
(***************************************************************************)
(* Small instances of the components of the device model, for one run of   *)
(* TLC: the block device, its io_uring, the MMIO transport and the bus;    *)
(* and, on the variables of a pool that they share, each under the names   *)
(* of its own module, the rate limiter, descriptor chains and the balloon. *)
(* The initial state chooses one of them; the others stand still.          *)
(***************************************************************************)
EXTENDS BlockDevice, IoUring, MmioTransport, Bus, TLC

CONSTANTS
    Components,                 \* those the run looks at
    LimiterNs, LimiterConfigs  \* NsPerMs and Configs of RateLimiter

VARIABLES
    which,     \* the component that runs
    v1, v2, v3, v4, v5, v6, v7, v8, v9,
    v10, v11, v12, v13, v14, v15, v16, v17, v18    \* the pool
pool == <<v1, v2, v3, v4, v5, v6, v7, v8, v9, v10, v11, v12, v13,
          v14, v15, v16, v17, v18>>

Cfg(size, burst, refill_time) ==
    [size |-> size, burst |-> burst, refill_time |-> refill_time]

\* An operation every 2 ms and a byte every 3 ms, which the timer of 2 ms does
\* not divide.
BothLimited == "Ops" :> Cfg(2, 1, 4) @@ "Bytes" :> Cfg(2, 1, 6)
\* Only the bytes are limited, and some requests exceed the bucket.
OverLimited == "Ops" :> Cfg(0, 0, 0) @@ "Bytes" :> Cfg(2, 1, 4)
\* Two tokens per millisecond: borrowing one token is paid in half of one.
FastRefill == "Ops" :> Cfg(0, 0, 0) @@ "Bytes" :> Cfg(4, 0, 2)
LengthsOf == BothLimited :> {0, 1, 2} @@ OverLimited :> {1, 4} @@ FastRefill :> {1, 5}
Slow == {BothLimited, OverLimited}
Fast == {FastRefill}

\* One feature the device offers and one it does not, on the first page.
OfferedOrNot == [p \in {0, 1} |-> IF p = 0 THEN {<<p, "offered">>, <<p, "unknown">>} ELSE {}]

\* Descriptors of the inflate queue: sparse, reversed, doubled and excessive page
\* frame numbers, some at the end of memory and past it, and two that cannot be
\* read.
Desc(k, pfns) == [kind |-> k, pfns |-> pfns]
Descs == {Desc("pages", <<0, 3>>), Desc("pages", <<2, 1>>), Desc("pages", <<4, 4>>), Desc("pages", <<3, 4>>),
          Desc("pages", <<0, 1, 2>>), Desc("writeonly", <<>>), Desc("unreadable", <<1>>)}

AllComponents == {"limiter", "block", "uring", "chains", "mmio", "balloon", "bus"}
OnlyLimiter == {"limiter"}
Addresses == 0..8

\* The heads of the block device are alike: of the ways to give them kinds, one
\* for each number of heads of each kind.
KindOrder == "io" :> 1 @@ "id" :> 2 @@ "bad" :> 3
UpToOrder(k) == \A h, g \in Heads : h < g => KindOrder[k[h]] <= KindOrder[k[g]]

\* The rings of the transport share no variable with its interrupts and selectors:
\* either these move or the rings do.
RingsOrInterrupts ==
    \/ ~overran /\ avail_len = [i \in DOMAIN queues |-> 0]
    \/ /\ interrupt_status = {} /\ ~irq_evt /\ raising = << >> /\ handler = Idle /\ unseen = {}
       /\ acked_features_select = 0 /\ queue_select = 0

limiter == INSTANCE RateLimiter WITH
    U64 <- 1000, NsPerMs <- LimiterNs, Configs <- LimiterConfigs,
    NewConfigs <- {Cfg(3, 1, 3), Cfg(0, 0, 0)},
    Requests <- [c \in LimiterConfigs |-> LengthsOf[c]], TimerMs <- 2,
    MaxTime <- 4, MaxUpdates <- 1, MaxRestores <- 1,
    now <- v1, bucket <- v2, timer_active <- v3, timer <- v4, req <- v5, fails <- v6,
    updates <- v7, restores <- v8, config <- v9, granted <- v10, since <- v11,
    credit <- v12
chains == INSTANCE DescriptorChains WITH
    Lens <- {0, 1, 2, 4}, MaxChain <- 3, Sectors <- {0, 1, 7}, Wrap <- 8,
    NumSectors <- 2, SectorSize <- 2, IdBytes <- 2, HdrSize <- 2, MaxPkt <- 2,
    descs <- v1, dangling <- v2, what <- v3, done <- v4
balloon == INSTANCE Balloon WITH
    MaxPagesInDesc <- 2, CompactBuffer <- 3, NumPfns <- 5, MemPages <- 4,
    Bufs <- {1}, MaxPosts <- 2, MaxRestores <- 1, MaxPatches <- 1,
    activated <- v1, registered <- v2, evts <- v3, posted <- v4, next <- v5, used <- v6,
    deflate <- v7, holes <- v8, stats_avail <- v9, stats_used <- v10,
    stats_desc_index <- v11, stats_polling_interval_s <- v12, irq <- v13, bad <- v14,
    lost <- v15, panicked <- v16, restores <- v17, patches <- v18

ASSUME limiter!LimiterAssumption
ASSUME BlockAssumption

-----------------------------------------------------------------------------
\* A component uses the first n variables of the pool; the rest stay empty.
Unused == "unused"
EmptyFrom(n, i, v) == IF i <= n THEN TRUE ELSE v = Unused
KeptFrom(n, i, v) == IF i <= n THEN TRUE ELSE UNCHANGED v
Empty(n) ==
    /\ EmptyFrom(n, 1, v1) /\ EmptyFrom(n, 2, v2) /\ EmptyFrom(n, 3, v3)
    /\ EmptyFrom(n, 4, v4) /\ EmptyFrom(n, 5, v5) /\ EmptyFrom(n, 6, v6)
    /\ EmptyFrom(n, 7, v7) /\ EmptyFrom(n, 8, v8) /\ EmptyFrom(n, 9, v9)
    /\ EmptyFrom(n, 10, v10) /\ EmptyFrom(n, 11, v11) /\ EmptyFrom(n, 12, v12)
    /\ EmptyFrom(n, 13, v13) /\ EmptyFrom(n, 14, v14) /\ EmptyFrom(n, 15, v15)
    /\ EmptyFrom(n, 16, v16) /\ EmptyFrom(n, 17, v17) /\ EmptyFrom(n, 18, v18)
Kept(n) ==
    /\ KeptFrom(n, 1, v1) /\ KeptFrom(n, 2, v2) /\ KeptFrom(n, 3, v3)
    /\ KeptFrom(n, 4, v4) /\ KeptFrom(n, 5, v5) /\ KeptFrom(n, 6, v6)
    /\ KeptFrom(n, 7, v7) /\ KeptFrom(n, 8, v8) /\ KeptFrom(n, 9, v9)
    /\ KeptFrom(n, 10, v10) /\ KeptFrom(n, 11, v11) /\ KeptFrom(n, 12, v12)
    /\ KeptFrom(n, 13, v13) /\ KeptFrom(n, 14, v14) /\ KeptFrom(n, 15, v15)
    /\ KeptFrom(n, 16, v16) /\ KeptFrom(n, 17, v17) /\ KeptFrom(n, 18, v18)

AllInit ==
    /\ which \in Components
    /\ Init /\ UringInit /\ MmioInit /\ BusInit
    /\ IF which = "block" THEN UpToOrder(kind) ELSE kind = [h \in Heads |-> "io"]
    /\ \/ which = "limiter" /\ limiter!Init /\ Empty(12)
       \/ which = "chains" /\ chains!ChainsInit /\ Empty(4)
       \/ which = "balloon" /\ balloon!BalloonInit /\ Empty(18)
       \/ which \in {"block", "uring", "mmio", "bus"} /\ Empty(0)

\* All the components with variables of their own, except c, stand still.
Others(c) ==
    /\ IF c = "block" THEN TRUE ELSE UNCHANGED vars
    /\ IF c = "uring" THEN TRUE ELSE UNCHANGED uvars
    /\ IF c = "mmio" THEN TRUE ELSE UNCHANGED tvars
    /\ IF c = "bus" THEN TRUE ELSE UNCHANGED busvars

\* These stop when their bounds are reached; the others must not.
MayStop == which \in {"uring", "chains", "balloon", "bus"} /\ Others("none") /\ UNCHANGED pool

AllNext ==
    /\ UNCHANGED which
    /\ \/ which = "block" /\ Next /\ Others("block") /\ UNCHANGED pool
       \/ which = "uring" /\ UringNext /\ Others("uring") /\ UNCHANGED pool
       \/ which = "mmio" /\ MmioNext /\ RingsOrInterrupts' /\ Others("mmio") /\ UNCHANGED pool
       \/ which = "bus" /\ BusNext /\ Others("bus") /\ UNCHANGED pool
       \/ which = "limiter" /\ limiter!Next /\ Kept(12) /\ Others("none")
       \/ which = "chains" /\ chains!ChainsNext /\ Kept(4) /\ Others("none")
       \/ which = "balloon" /\ balloon!BalloonNext /\ Kept(18) /\ Others("none")
       \/ MayStop
AllSpec == AllInit /\ [][AllNext]_<<which, vars, uvars, tvars, busvars, pool>>

-----------------------------------------------------------------------------
(* Properties of the components of the pool.                               *)

\* The rate limiter is blocked exactly as long as its timer will wake it.
BlockedIffArmed == which = "limiter" => limiter!BlockedIffArmed

\* The rate limiter grants no more than size, burst and rate allow, or twice
\* the rate when requests exceed the bucket, and a request once its tokens are
\* earned.
RateBound == which = "limiter" => limiter!RateBound

\* A request touches exactly what it may and reports it: Request::parse and the
\* vsock packet constructors follow the directions of the descriptors, the
\* disk file is accessed inside its bounds, and the length in the used ring is
\* what was written to guest memory, or less when the file engine failed.
TransfersExact ==
    which = "chains" => chains!DirectionsKept /\ chains!WithinDisk /\ chains!UsedLenIsWritten

\* The pages the balloon gives back to the host are those of the descriptors
\* process_inflate acknowledged, except in a range that runs past the end of
\* memory, and compact_page_frame_numbers turns them into disjoint, maximal
\* ranges of exactly these pages.
PagesExact == which = "balloon" => balloon!InflateExact /\ balloon!CompactExact
=============================================================================
