------------------------------ MODULE Balloon ------------------------------
(***************************************************************************)
(* The balloon device (devices/src/virtio/balloon): the inflate, deflate    *)
(* and statistics queues, the statistics timer, the updates of the API and  *)
(* a restore from a snapshot followed by the artificial kick of the resume. *)
(*                                                                          *)
(* The event loop runs one handler at a time; the guest's driver posts      *)
(* buffers and kicks in between, and the API may ask for an update at any   *)
(* moment after the boot, before the driver has activated the device too.   *)
(***************************************************************************)
EXTENDS Naturals, Sequences, SequencesExt

CONSTANTS
  MaxPagesInDesc, CompactBuffer,  \* MAX_PAGES_IN_DESC <= MAX_PAGE_COMPACT_BUFFER
  NumPfns,                        \* page frame numbers are 0..NumPfns - 1 (u32)
  MemPages,                       \* the guest has the pages 0..MemPages - 1
  Descs,                          \* the inflate descriptors a driver may post
  Bufs,                           \* its statistics buffers; a compliant driver has one
  MaxPosts, MaxRestores, MaxPatches

VARIABLES
  activated, registered,   \* DeviceState::Activated; the runtime events are registered
  evts,                    \* the queue events that are pending
  posted, next, used,      \* inflate: posted by the driver, popped, put in the used ring
  deflate,                 \* deflate: the number of buffers posted and not yet used
  holes,                   \* the pages given back to the host
  stats_avail, stats_used, stats_desc_index,
  stats_polling_interval_s,
  irq,                     \* an interrupt is pending
  bad,                     \* history: process_inflate skipped or gave up on a malformed buffer
  lost,                    \* history: the statistics buffers neither held nor returned
  panicked, restores, patches
bvars == <<activated, registered, evts, posted, next, used, deflate, holes, stats_avail,
           stats_used, stats_desc_index, stats_polling_interval_s, irq, bad, lost, panicked,
           restores, patches>>

NoIndex == 0

-----------------------------------------------------------------------------
(* compact_page_frame_numbers                                              *)

distinct(v, i) == v[i] # v[i - 1]

\* One round of the loop over the sorted numbers; "previous" is where the most
\* recent range starts.
CompactStep(v, acc, i) ==
    IF ~distinct(v, i) THEN acc
    ELSE LET end == v[acc.previous] + acc.length
             a   == [acc EXCEPT !.overflow = @ \/ end >= NumPfns]
         IN IF v[i] = end THEN [a EXCEPT !.length = @ + 1]
            ELSE [a EXCEPT !.result = Append(@, <<v[acc.previous], acc.length>>),
                           !.previous = i, !.length = 1]

compact(v) ==
    LET sorted == SortSeq(v, LAMBDA a, b : a < b)
        rounds == FoldLeft(LAMBDA acc, i : CompactStep(sorted, acc, i),
                           [result |-> << >>, previous |-> 1, length |-> 1, overflow |-> FALSE],
                           [i \in 1..Len(v) - 1 |-> i + 1])
    IN [rounds EXCEPT !.result = Append(@, <<sorted[rounds.previous], rounds.length>>)]

compact_page_frame_numbers(v) == IF v = << >> THEN << >> ELSE compact(v).result

PagesOf(range) == range[1]..range[1] + range[2] - 1

\* Mutant: a range that ends with the last page of memory is refused.
remove_range_inside(range) == IF PagesOf(range) \subseteq 0..MemPages - 2 THEN PagesOf(range) ELSE {}
\* A range that does not lie in guest memory, which is one region here, is
\* refused as a whole; process_inflate goes on with the next one.
remove_range(range) == IF PagesOf(range) \subseteq 0..MemPages - 1 THEN PagesOf(range) ELSE {}

-----------------------------------------------------------------------------
(* The inflate and deflate queues.                                         *)

has_room(buf, d) == Len(d.pfns) <= CompactBuffer - Len(buf)

\* The inner loop of process_inflate: collect page frame numbers until the
\* queue is empty or the next descriptor does not fit.
RECURSIVE fill(_)
fill(st) ==
    IF st.next = Len(posted) THEN st
    ELSE LET d      == posted[st.next + 1]
             popped == [st EXCEPT !.next = @ + 1, !.found = TRUE]
             acked  == [popped EXCEPT !.used = Append(@, st.next + 1)]
         IN CASE d.kind = "writeonly" -> fill(acked)
              [] d.kind # "writeonly" /\ Len(d.pfns) > MaxPagesInDesc ->
                   fill([popped EXCEPT !.bad = TRUE])
              [] d.kind # "writeonly" /\ Len(d.pfns) <= MaxPagesInDesc ->
                   IF ~has_room(st.buf, d) THEN [st EXCEPT !.found = TRUE]
                   ELSE IF d.kind = "unreadable" THEN [popped EXCEPT !.err = TRUE, !.bad = TRUE]
                   ELSE fill([acked EXCEPT !.buf = @ \o d.pfns])

\* The outer loop: give the pages back and go on until nothing was found.  An
\* error leaves at once, with pages collected and no interrupt.
RECURSIVE inflate(_)
inflate(st) ==
    LET f == fill([st EXCEPT !.buf = << >>, !.found = FALSE])
        ranges == compact_page_frame_numbers(f.buf)
        r == [f EXCEPT !.holes = @ \cup UNION {remove_range(ranges[i]) : i \in DOMAIN ranges}]
    IN IF f.err THEN f ELSE IF f.found THEN inflate(r) ELSE r

InflateResult ==
    inflate([next |-> next, used |-> used, holes |-> holes, bad |-> bad,
             buf |-> << >>, found |-> TRUE, err |-> FALSE])

\* The effect of process_inflate, except on the interrupt.
process_inflate ==
    LET r == InflateResult
    IN next' = r.next /\ used' = r.used /\ holes' = r.holes /\ bad' = r.bad
inflate_signals == LET r == InflateResult IN Len(r.used) > Len(used) /\ ~r.err
process_deflate_queue == deflate' = 0
deflate_signals == deflate > 0

Handles(q) == ~panicked /\ activated /\ registered /\ q \in evts /\ evts' = evts \ {q}
queues_of_stats == <<stats_avail, stats_used, stats_desc_index, lost, stats_polling_interval_s>>

process_inflate_queue_event ==
    /\ Handles("inflate") /\ process_inflate
    /\ irq' = (irq \/ inflate_signals)
    /\ UNCHANGED <<activated, registered, posted, deflate, queues_of_stats, panicked, restores, patches>>

process_deflate_queue_event ==
    /\ Handles("deflate") /\ process_deflate_queue
    /\ irq' = (irq \/ deflate_signals)
    /\ UNCHANGED <<activated, registered, posted, next, used, holes, bad, queues_of_stats,
                   panicked, restores, patches>>

-----------------------------------------------------------------------------
(* Statistics.                                                             *)

\* A buffer found while one is held is returned; a buffer with a tag that
\* update_with_stat does not know ends the loop, and is not held.
RECURSIVE read_stats(_)
read_stats(st) ==
    IF st.avail = << >> THEN st
    ELSE LET head == Head(st.avail)
             back == [st EXCEPT !.avail = Tail(@),
                                !.used = IF st.index = NoIndex THEN @ ELSE Append(@, st.index)]
         IN IF head.unknown_tag THEN [back EXCEPT !.lost = @ \cup {head.buf}]
            ELSE read_stats([back EXCEPT !.index = head.buf])

process_stats_queue_event ==
    /\ Handles("stats")
    /\ LET r == read_stats([avail |-> stats_avail, used |-> stats_used,
                            index |-> stats_desc_index, lost |-> lost])
       IN /\ stats_avail' = r.avail /\ stats_used' = r.used
          /\ stats_desc_index' = r.index /\ lost' = r.lost
    /\ UNCHANGED <<activated, registered, posted, next, used, deflate, holes, bad,
                   stats_polling_interval_s, irq, panicked, restores, patches>>

index_after_take == NoIndex

\* Returns the buffer the device holds, so that the driver fills it again.
trigger_stats_update ==
    IF stats_desc_index # NoIndex
    THEN /\ stats_used' = Append(stats_used, stats_desc_index)
         /\ stats_desc_index' = index_after_take /\ irq' = TRUE
    ELSE UNCHANGED <<stats_used, stats_desc_index, irq>>

process_stats_timer_event ==
    /\ ~panicked /\ activated /\ registered /\ stats_polling_interval_s > 0
    /\ trigger_stats_update
    /\ UNCHANGED <<activated, registered, evts, posted, next, used, deflate, holes, stats_avail, lost,
                   stats_polling_interval_s, bad, panicked, restores, patches>>

\* PATCH /balloon/statistics.  The device may not be active yet, and then
\* trigger_stats_update unwraps the memory it does not have.
update_stats_polling_interval ==
    /\ ~panicked /\ patches < MaxPatches /\ patches' = patches + 1
    /\ \E interval_s \in 1..2 :
         /\ stats_polling_interval_s \notin {0, interval_s}
         /\ IF activated
            THEN trigger_stats_update /\ stats_polling_interval_s' = interval_s /\ UNCHANGED panicked
            ELSE panicked' = TRUE /\ UNCHANGED <<stats_used, stats_desc_index, irq, stats_polling_interval_s>>
    /\ UNCHANGED <<activated, registered, evts, posted, next, used, deflate, holes, stats_avail, lost, bad, restores>>

-----------------------------------------------------------------------------
(* Activation, the driver and the restore.                                 *)

\* The driver sets DRIVER_OK; the event loop then registers the other events.
activate ==
    /\ ~panicked /\ ~activated /\ activated' = TRUE
    /\ UNCHANGED <<registered, evts, posted, next, used, deflate, holes, queues_of_stats, irq, bad,
                   panicked, restores, patches>>

process_activate_event ==
    /\ ~panicked /\ activated /\ ~registered /\ registered' = TRUE
    /\ UNCHANGED <<activated, evts, posted, next, used, deflate, holes, queues_of_stats, irq, bad,
                   panicked, restores, patches>>

DriverInflates ==
    /\ activated /\ ~panicked /\ Len(posted) < MaxPosts
    /\ \E d \in Descs : posted' = Append(posted, d)
    /\ evts' = evts \cup {"inflate"}
    /\ UNCHANGED <<activated, registered, next, used, deflate, holes, queues_of_stats, irq, bad,
                   panicked, restores, patches>>

DriverDeflates ==
    /\ activated /\ ~panicked /\ deflate = 0 /\ deflate' = 1
    /\ evts' = evts \cup {"deflate"}
    /\ UNCHANGED <<activated, registered, posted, next, used, holes, queues_of_stats, irq, bad,
                   panicked, restores, patches>>

HeldByDriver(b) ==
    /\ b # stats_desc_index /\ b \notin Range(stats_used) \cup lost
    /\ \A i \in DOMAIN stats_avail : stats_avail[i].buf # b

\* The driver fills a statistics buffer: the first time, or one it got back.
DriverFillsStats ==
    /\ activated /\ ~panicked /\ stats_polling_interval_s > 0
    /\ \E b \in Bufs, unknown_tag \in BOOLEAN :
         /\ HeldByDriver(b) \/ b \in Range(stats_used)
         /\ stats_used' = SelectSeq(stats_used, LAMBDA x : x # b)
         /\ stats_avail' = Append(stats_avail, [buf |-> b, unknown_tag |-> unknown_tag])
    /\ evts' = evts \cup {"stats"}
    /\ irq' = FALSE
    /\ UNCHANGED <<activated, registered, posted, next, used, deflate, holes, stats_desc_index,
                   stats_polling_interval_s, bad, lost, panicked, restores, patches>>

process_virtio_queues == process_inflate /\ process_deflate_queue

\* A new process restores the device: pending events are gone and the timer
\* starts again, kick_devices makes up for the events of an active device.
Restore ==
    /\ ~panicked /\ restores < MaxRestores /\ restores' = restores + 1
    /\ registered' = activated /\ evts' = {}
    /\ IF activated
       THEN process_virtio_queues /\ irq' = (irq \/ inflate_signals \/ deflate_signals)
       ELSE UNCHANGED <<next, used, holes, bad, deflate, irq>>
    /\ UNCHANGED <<activated, posted, queues_of_stats, panicked, patches>>

BalloonInit ==
    /\ activated = FALSE /\ registered = FALSE /\ evts = {}
    /\ posted = << >> /\ next = 0 /\ used = << >> /\ deflate = 0 /\ holes = {}
    /\ stats_avail = << >> /\ stats_used = << >> /\ stats_desc_index = NoIndex
    /\ stats_polling_interval_s = 1
    /\ irq = FALSE /\ bad = FALSE /\ lost = {} /\ panicked = FALSE /\ restores = 0 /\ patches = 0

BalloonNext ==
    \/ activate \/ process_activate_event
    \/ DriverInflates \/ DriverDeflates \/ DriverFillsStats
    \/ process_inflate_queue_event \/ process_deflate_queue_event
    \/ process_stats_queue_event \/ process_stats_timer_event
    \/ update_stats_polling_interval \/ Restore

BalloonSpec == BalloonInit /\ [][BalloonNext]_bvars

-----------------------------------------------------------------------------
(* Properties.                                                             *)

\* Types of the balloon's configuration, queues and statistics.
BalloonTypeOK ==
    /\ evts \subseteq {"inflate", "deflate", "stats"} /\ next \in 0..Len(posted)
    /\ holes \subseteq 0..MemPages - 1 /\ deflate \in 0..1
    /\ stats_desc_index \in Bufs \cup {NoIndex}
    /\ {activated, registered, irq, bad, panicked} \subseteq BOOLEAN /\ lost \subseteq Bufs

Acknowledged == UNION {Range(posted[used[i]].pfns) : i \in DOMAIN used}
InMemory == 0..MemPages - 1

\* The pages given back to the host are pages of the descriptors that
\* process_inflate acknowledged, however many rounds of the page buffer it took,
\* and all of them that lie in memory; unless a range of them runs past the end
\* of memory, which remove_range refuses as a whole.
InflateExact ==
    ~bad => /\ holes \subseteq Acknowledged \cap InMemory
            /\ \A p \in (Acknowledged \cap InMemory) \ holes : p..MemPages \subseteq Acknowledged

\* The page frame numbers of everything posted, in the order of the queue.
Collected == FoldLeft(LAMBDA acc, d : acc \o d.pfns, << >>, posted)

\* compact_page_frame_numbers returns ranges of exactly the pages it was given,
\* no page twice, no two ranges that could be one; and, as its comment claims,
\* the end of a range "will never overflow" 32 bits when it is compared.
CompactExact ==
    Collected # << >> =>
      LET c == compact(Collected) IN
      /\ ~c.overflow
      /\ UNION {PagesOf(c.result[i]) : i \in DOMAIN c.result} = Range(Collected)
      /\ \A i, j \in DOMAIN c.result :
           i < j => c.result[i][1] + c.result[i][2] < c.result[j][1]
=============================================================================
