-------------------------- MODULE MemorySnapshot --------------------------
(***************************************************************************)
(* The guest memory of a snapshot: full and diff memory files               *)
(* (vmm/src/persist.rs, vmm/src/memory_snapshot.rs), the two dirty page     *)
(* bitmaps they rest on, the merge of diff files into their base by the     *)
(* rebase-snap tool, and loading a microVM from the merged file.            *)
(*                                                                          *)
(* Memory changes in four ways: the guest writes it (KVM's bitmap notes the *)
(* page), a device writes it from the event loop (Firecracker's bitmap), the *)
(* kernel writes it for a block request in flight, which nobody notes until *)
(* the completion is processed, and the balloon device empties the pages it *)
(* is given, which nobody notes at all.                                     *)
(***************************************************************************)
EXTENDS Naturals, Sequences

CONSTANTS
  Regions,               \* the regions of guest memory as describe gives them, in pages
  MaxWrites, MaxSnapshots,
  Faulty                 \* whether writing a memory file can fail

NumPages == Regions[Len(Regions)].offset + Regions[Len(Regions)].size
Pages == 0..NumPages - 1        \* page numbers are offsets in the memory file
offset(r) == Regions[r].offset
PagesOfRegion(r) == offset(r)..offset(r) + Regions[r].size - 1

\* describe: a region begins where the one before it ends.
ASSUME SnapAssumption ==
    /\ Regions \in Seq([offset : Nat, size : Nat \ {0}]) /\ Regions # << >> /\ offset(1) = 0
    /\ \A r \in 1..Len(Regions) - 1 : offset(r + 1) = offset(r) + Regions[r].size

VARIABLES
  vcpus_run, mem, writes,
  kvm_dirty, fc_dirty,   \* the pages marked in KVM's and in Firecracker's bitmap
  track_dirty_pages,
  io,                    \* pages of block requests in flight: "submitted" or "written"
  base, layers,          \* the user's memory file, and the diff files to merge into it
  cursor,                \* how far rebase-snap has got with the first of them
  writer,                \* where dump_dirty has got with a diff file
  snapped, snapshots,    \* history: memory at the last snapshot, or as loaded; their number
  failed,                \* history: a diff snapshot has failed since
  inflated               \* history: pages the balloon has emptied since a file had them
svars == <<vcpus_run, mem, writes, kvm_dirty, fc_dirty, track_dirty_pages, io, base, layers,
           cursor, writer, snapped, snapshots, failed, inflated>>
files == <<base, layers, cursor, writer, snapped, snapshots, failed, inflated>>

\* The thread of the VMM is not writing a diff file.
Free == writer = << >>

-----------------------------------------------------------------------------
(* Memory changes.                                                         *)

Changed(p) == mem' = [mem EXCEPT ![p] = writes + 1] /\ writes' = writes + 1
CanWrite == writes < MaxWrites

GuestWrites ==
    /\ vcpus_run /\ CanWrite
    /\ \E p \in Pages : Changed(p) /\ kvm_dirty' = IF track_dirty_pages THEN kvm_dirty \cup {p} ELSE {}
    /\ UNCHANGED <<vcpus_run, fc_dirty, track_dirty_pages, io, files>>

mark_dirty_mem(pages) == IF track_dirty_pages THEN fc_dirty \cup pages ELSE {}

\* The event loop runs while the vCPUs are paused too.
DeviceWrites ==
    /\ Free /\ CanWrite
    /\ \E p \in Pages : Changed(p) /\ fc_dirty' = mark_dirty_mem({p})
    /\ UNCHANGED <<vcpus_run, kvm_dirty, track_dirty_pages, io, files>>

\* process_inflate: remove_range gives the page back to the host, and it reads
\* zero from then on.  Neither bitmap is told.
BalloonInflates ==
    /\ Free /\ CanWrite /\ writes' = writes + 1
    /\ \E p \in Pages : mem' = [mem EXCEPT ![p] = 0] /\ inflated' = inflated \cup {p}
    /\ UNCHANGED <<vcpus_run, kvm_dirty, fc_dirty, track_dirty_pages, io, base, layers, cursor, writer,
                   snapped, snapshots, failed>>

SubmitIo ==
    /\ Free /\ io = << >> /\ CanWrite
    /\ \E p \in Pages : io' = <<[page |-> p, state |-> "submitted"]>>
    /\ UNCHANGED <<vcpus_run, mem, writes, kvm_dirty, fc_dirty, track_dirty_pages, files>>

KernelWrites ==
    /\ io # << >> /\ io[1].state = "submitted" /\ CanWrite
    /\ Changed(io[1].page) /\ io' = <<[io[1] EXCEPT !.state = "written"]>>
    /\ UNCHANGED <<vcpus_run, kvm_dirty, fc_dirty, track_dirty_pages, files>>

CompleteIo ==
    /\ Free /\ io # << >> /\ io[1].state = "written"
    /\ fc_dirty' = mark_dirty_mem({io[1].page}) /\ io' = << >>
    /\ UNCHANGED <<vcpus_run, mem, writes, kvm_dirty, track_dirty_pages, files>>

pause_vcpus ==
    /\ vcpus_run /\ vcpus_run' = FALSE
    /\ UNCHANGED <<mem, writes, kvm_dirty, fc_dirty, track_dirty_pages, io, files>>
resume_vcpus ==
    /\ Free /\ ~vcpus_run /\ vcpus_run' = TRUE
    /\ UNCHANGED <<mem, writes, kvm_dirty, fc_dirty, track_dirty_pages, io, files>>

-----------------------------------------------------------------------------
(* create_snapshot, on the VMM's thread, for a paused microVM.              *)

dump(m) == [p \in Pages |-> m[p]]

\* Saving the block devices waits for what is in flight (prepare_save) before
\* the memory is looked at.
drained_mem == IF io # << >> /\ io[1].state = "submitted" THEN [mem EXCEPT ![io[1].page] = writes + 1] ELSE mem
drained_dirty == IF io # << >> THEN mark_dirty_mem({io[1].page}) ELSE fc_dirty

save_state ==
    /\ Free /\ ~vcpus_run /\ snapshots < MaxSnapshots /\ (io # << >> => CanWrite)
    /\ mem' = drained_mem /\ io' = << >>
    /\ writes' = IF drained_mem # mem THEN writes + 1 ELSE writes
    /\ UNCHANGED <<vcpus_run, track_dirty_pages>>

\* A full memory file replaces the user's base.  The bitmaps are left alone.
CreateFull ==
    /\ save_state
    /\ base' = dump(drained_mem) /\ layers' = << >> /\ cursor' = 0
    /\ snapped' = drained_mem /\ snapshots' = snapshots + 1 /\ failed' = FALSE /\ inflated' = {}
    /\ fc_dirty' = drained_dirty /\ UNCHANGED <<kvm_dirty, writer>>

\* A diff one: get_dirty_bitmap reads and clears KVM's bitmap, and dump_dirty
\* begins.
CreateDiff ==
    /\ save_state /\ track_dirty_pages
    /\ kvm_dirty' = {} /\ fc_dirty' = drained_dirty /\ snapshots' = snapshots + 1
    /\ writer' = <<[bitmap |-> kvm_dirty, slot |-> 1, page |-> 0, writer_offset |-> 0, pos |-> 0,
                    dirty_batch_start |-> 0, write_size |-> 0, file |-> [p \in {} |-> 0]]>>
    /\ UNCHANGED <<base, layers, cursor, snapped, failed, inflated>>

\* It fails with the bitmaps of `cleared` slots already taken from KVM.
get_dirty_bitmap_fails ==
    /\ Faulty /\ save_state /\ track_dirty_pages
    /\ \E cleared \in 0..Len(Regions) :
         /\ kvm_dirty' = kvm_dirty \ UNION {PagesOfRegion(r) : r \in 1..cleared}
         /\ failed' = (failed \/ cleared > 0)
    /\ fc_dirty' = drained_dirty /\ snapshots' = snapshots + 1
    /\ UNCHANGED <<base, layers, cursor, writer, snapped, inflated>>

\* Writing a full one fails: nothing but the file has changed.
CreateFullFails ==
    /\ Faulty /\ save_state
    /\ fc_dirty' = drained_dirty /\ snapshots' = snapshots + 1
    /\ UNCHANGED <<kvm_dirty, base, layers, cursor, writer, snapped, failed, inflated>>

-----------------------------------------------------------------------------
(* dump_dirty: batches of dirty pages are written where the writer stands.  *)

\* write_all_to: the batch goes where the writer stands.
WriteBatch(w) ==
    LET written == w.pos..w.pos + w.write_size - 1
    IN [w EXCEPT !.file = [p \in DOMAIN w.file \cup written |->
                             IF p \in written THEN mem[offset(w.slot) + w.dirty_batch_start + (p - w.pos)]
                             ELSE w.file[p]],
                 !.pos = w.pos + w.write_size, !.write_size = 0]

seek_pos(writer_offset, page) == writer_offset + page
is_dirty(w) == offset(w.slot) + w.page \in w.bitmap \cup fc_dirty

DumpPage(w) ==
    IF is_dirty(w)
    THEN IF w.write_size = 0
         THEN [w EXCEPT !.pos = seek_pos(w.writer_offset, w.page), !.dirty_batch_start = w.page, !.write_size = 1]
         ELSE [w EXCEPT !.write_size = @ + 1]
    ELSE IF w.write_size > 0 THEN WriteBatch(w) ELSE w

\* Mutant: a batch that reaches the end of its region is not written.
last_batch_dropped(w) == [w EXCEPT !.write_size = 0]
last_batch(w) == IF w.write_size > 0 THEN WriteBatch(w) ELSE w

Dumping == writer # << >>
UNCHANGED_but_files == UNCHANGED <<vcpus_run, mem, writes, kvm_dirty, track_dirty_pages, io, base, cursor, snapshots>>

NextPage ==
    /\ Dumping /\ writer[1].slot <= Len(Regions) /\ writer[1].page < Regions[writer[1].slot].size
    /\ writer' = <<[DumpPage(writer[1]) EXCEPT !.page = @ + 1]>>
    /\ UNCHANGED fc_dirty /\ UNCHANGED <<layers, snapped, failed, inflated>> /\ UNCHANGED_but_files

\* The end of a region, whose bitmap is reset.
NextRegion ==
    /\ Dumping /\ writer[1].slot <= Len(Regions) /\ writer[1].page = Regions[writer[1].slot].size
    /\ writer' = <<[last_batch(writer[1]) EXCEPT !.slot = @ + 1, !.page = 0,
                                                 !.writer_offset = @ + Regions[writer[1].slot].size]>>
    /\ fc_dirty' = fc_dirty \ PagesOfRegion(writer[1].slot)
    /\ UNCHANGED <<layers, snapped, failed, inflated>> /\ UNCHANGED_but_files

Dumped ==
    /\ Dumping /\ writer[1].slot > Len(Regions)
    /\ layers' = Append(layers, writer[1].file) /\ snapped' = mem /\ writer' = << >>
    /\ inflated' = inflated \ DOMAIN writer[1].file
    /\ UNCHANGED <<fc_dirty, failed>> /\ UNCHANGED_but_files

\* A write, flush or sync fails.  The user drops the file.
DumpFails ==
    /\ Faulty /\ Dumping /\ writer' = << >> /\ failed' = TRUE
    /\ UNCHANGED <<fc_dirty, layers, snapped, inflated>> /\ UNCHANGED_but_files

-----------------------------------------------------------------------------
(* rebase-snap: copy the data of the first layer over the base.             *)

Layer == layers[1]
\* seek_data: the next page at or after c that is not a hole.
seek_data(c) == {p \in DOMAIN Layer : p >= c /\ \A q \in DOMAIN Layer : q >= c => p <= q}
\* seek_hole: the end of the data that starts at p.
seek_hole(p) == CHOOSE e \in p + 1..NumPages : /\ p..e - 1 \subseteq DOMAIN Layer /\ e \notin DOMAIN Layer

\* sendfile copies some of the block and moves the cursor.
RebaseStep ==
    /\ layers # << >>
    /\ \E block_start \in seek_data(cursor) :
         \E end \in block_start + 1..seek_hole(block_start) :
           /\ base' = [p \in Pages |-> IF p \in block_start..end - 1 THEN Layer[p] ELSE base[p]]
           /\ cursor' = end
    /\ UNCHANGED <<vcpus_run, mem, writes, kvm_dirty, fc_dirty, track_dirty_pages, io, layers, writer, snapped, snapshots, failed, inflated>>

RebaseDone ==
    /\ layers # << >> /\ seek_data(cursor) = {}
    /\ layers' = Tail(layers) /\ cursor' = 0
    /\ UNCHANGED <<vcpus_run, mem, writes, kvm_dirty, fc_dirty, track_dirty_pages, io, base, writer, snapped, snapshots, failed, inflated>>

\* The tool is stopped half way and run again.
RebaseRestarts ==
    /\ layers # << >> /\ cursor > 0 /\ cursor' = 0
    /\ UNCHANGED <<vcpus_run, mem, writes, kvm_dirty, fc_dirty, track_dirty_pages, io, base, layers, writer, snapped, snapshots, failed, inflated>>

-----------------------------------------------------------------------------
\* A new process, after the end of the old one, loads the merged file, with or
\* without enable_diff_snapshots.  Its next diff is one to what it loaded.
load_memory ==
    /\ layers = << >> /\ snapshots > 0
    /\ mem' = base /\ io' = << >> /\ vcpus_run' = FALSE
    /\ kvm_dirty' = {} /\ fc_dirty' = {} /\ track_dirty_pages' \in BOOLEAN
    /\ snapped' = base /\ failed' = FALSE /\ inflated' = {}
    /\ writer' = << >> /\ UNCHANGED <<writes, base, layers, cursor, snapshots>>

SnapInit ==
    /\ vcpus_run = TRUE /\ mem = [p \in Pages |-> 0] /\ writes = 0
    /\ kvm_dirty = {} /\ fc_dirty = {} /\ track_dirty_pages \in BOOLEAN /\ io = << >>
    /\ base = [p \in Pages |-> 0] /\ layers = << >> /\ cursor = 0 /\ writer = << >>
    /\ snapped = [p \in Pages |-> 0] /\ snapshots = 0 /\ failed = FALSE
    /\ inflated = {}

SnapNext ==
    \/ GuestWrites \/ DeviceWrites \/ BalloonInflates \/ SubmitIo \/ KernelWrites \/ CompleteIo
    \/ pause_vcpus \/ resume_vcpus
    \/ CreateFull \/ CreateDiff \/ get_dirty_bitmap_fails \/ CreateFullFails
    \/ NextPage \/ NextRegion \/ Dumped \/ DumpFails
    \/ RebaseStep \/ RebaseDone \/ RebaseRestarts \/ load_memory

SnapSpec == SnapInit /\ [][SnapNext]_svars

-----------------------------------------------------------------------------
(* Properties.                                                             *)

\* Types of the memory, the bitmaps and the snapshot files.
SnapTypeOK ==
    /\ DOMAIN mem = Pages /\ DOMAIN base = Pages /\ writes \in 0..MaxWrites
    /\ kvm_dirty \subseteq Pages /\ fc_dirty \subseteq Pages /\ cursor \in 0..NumPages
    /\ \A i \in DOMAIN layers : DOMAIN layers[i] \subseteq Pages

\* What page p reads in the base with the layers merged into it: the last layer
\* that has data there, or else the base.
Reads(p, v) ==
    \/ base[p] = v /\ \A k \in 1..Len(layers) : p \notin DOMAIN layers[k]
    \/ \E k \in 1..Len(layers) : /\ p \in DOMAIN layers[k] /\ layers[k][p] = v
                                 /\ \A l \in k + 1..Len(layers) : p \notin DOMAIN layers[l]

\* "After executing the command above, the base would be a resumable snapshot
\* memory file describing the state of the memory at the moment of creation of
\* the layer": the base with the layers still to merge, at any moment of
\* a merge, is the memory of the last snapshot.  Pages a diff leaves out have
\* not changed since the snapshot before.  A diff that fails breaks the chain
\* until a full snapshot starts a new one.  The exception to the quoted line are
\* pages the balloon emptied: they were zero at the snapshot, and the merged file
\* has what was in them before, unless they were written after.
DiffsAddUp ==
    ~failed => \A p \in Pages : Reads(p, snapped[p]) \/ (p \in inflated /\ snapped[p] = 0)
=============================================================================
