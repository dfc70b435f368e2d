---------------------------- MODULE SnapshotFile ----------------------------
(***************************************************************************)
(* The microVM state file: the version it is written for                     *)
(* (vmm/src/persist.rs, version_map.rs), its format and its checksum         *)
(* (snapshot/src/lib.rs), and what is refused when it is loaded.  The CRC is *)
(* modelled as free of collisions, bincode by the fields it keeps.           *)
(***************************************************************************)
EXTENDS Naturals, Sequences

CONSTANTS Latest,          \* version_map.latest_version()
          MaxDevices,      \* FC_V0_23_MAX_DEVICES
          MaxVcpus,        \* MAX_SUPPORTED_VCPUS
          Vms,             \* the microVMs that are snapshotted
          MaxSaves

V0_23 == 1
V0_24 == 2
V1_0 == 4
V1_1 == 5
V1_2 == 6
None == 0
Vendors == {"intel", "amd"}

VARIABLES
  vm, host,           \* the microVM, the vendor of the host that loads
  file, writing,      \* the state file: a sequence of items; what is still to be written to it
  whole,              \* ghost: the microVM the file was last written for in full, or None
  loaded,             \* the microVM that was loaded, or None
  saves
sfvars == <<vm, host, file, writing, whole, loaded, saves>>

NoVm == [vcpus |-> 0]
Item(k, v) == [kind |-> k, value |-> v, intact |-> TRUE]

-----------------------------------------------------------------------------
(* Saving.                                                                 *)

incompatible_features(m, v) ==
    v < V1_1 /\ \/ m.block_event_idx /\ v < V1_0
                \/ m.net_event_idx

\* get_snapshot_data_version: what the requested version is refused for, early
version_ok(m, v) ==
    /\ v <= V0_23 => m.irqs <= MaxDevices
    /\ ~incompatible_features(m, v)

\* Mutant: a balloon is dropped instead of refused.
balloon_serialize_any(m, v) == TRUE
balloon_serialize(m, v) == ~(v < V0_24 /\ m.balloon)

\* The fields a version does not have take their default when it is read.
translated(m, v) ==
    [m EXCEPT !.engine = IF v < V1_0 THEN "Sync" ELSE @,
              !.mmds = IF v < V1_1 /\ @ # "none" THEN "V1" ELSE @,
              !.smt = v >= V1_2 /\ @,
              !.balloon = v >= V0_24 /\ @]

\* snapshot_state_to_file, up to the serialization: the file is truncated first
create_snapshot(target) ==
    LET v == IF target = None THEN Latest ELSE target IN
    /\ writing = <<>> /\ saves < MaxSaves /\ saves' = saves + 1
    /\ version_ok(vm, v)
    /\ file' = <<>> /\ whole' = NoVm
    /\ writing' = <<Item("magic", <<>>), Item("hdr", <<v>>)>> \o
                  (IF balloon_serialize(vm, v) THEN <<Item("state", <<translated(vm, v)>>), Item("crc", <<>>)>> ELSE <<>>)
    /\ UNCHANGED <<vm, host, loaded>>

WriteItem ==
    /\ writing # <<>> /\ writing' = Tail(writing)
    /\ LET i == Head(writing)
       IN /\ file' = Append(file, IF i.kind = "crc" THEN [i EXCEPT !.value = file] ELSE i)
          /\ whole' = IF i.kind = "crc" THEN vm ELSE whole
    /\ UNCHANGED <<vm, host, loaded, saves>>

\* The process dies, or a write fails: the rest is never written.
WriteStops == writing # <<>> /\ writing' = <<>> /\ UNCHANGED <<vm, host, file, whole, loaded, saves>>

Corrupt ==
    /\ writing = <<>> /\ whole # NoVm
    /\ \E i \in 1..Len(file) : file' = [file EXCEPT ![i].intact = FALSE]
    /\ whole' = NoVm
    /\ UNCHANGED <<vm, host, writing, loaded, saves>>

\* A file that a later release wrote.
NewerFile ==
    /\ writing = <<>> /\ whole # NoVm /\ file[2].value # <<Latest + 1>>
    /\ LET items == [SubSeq(file, 1, 3) EXCEPT ![2].value = <<Latest + 1>>] IN file' = Append(items, Item("crc", items))
    /\ whole' = NoVm /\ UNCHANGED <<vm, host, writing, loaded, saves>>

-----------------------------------------------------------------------------
(* Loading.                                                                *)

crc_ok(items, stored) == stored.kind = "crc" /\ stored.intact /\ items = stored.value

data_version_ok(v) == v <= Latest /\ v # 0

vcpu_count_ok(n) == n > 0 /\ n <= MaxVcpus

\* Snapshot::load and snapshot_state_sanity_check.  Whether the vendor matches
\* is computed and not used.
load ==
    LET n == Len(file)
        items == SubSeq(file, 1, n - 1)
    IN /\ n > 0 /\ crc_ok(items, file[n])
       /\ Len(items) = 3 /\ data_version_ok(items[2].value[1])
       /\ LET m == items[3].value[1] IN
            /\ vcpu_count_ok(m.vcpus) /\ m.regions > 0
            /\ loaded' = m
       /\ UNCHANGED <<vm, host, file, writing, whole, saves>>

SnapshotFileInit ==
    /\ vm \in Vms /\ host \in Vendors /\ file = <<>> /\ writing = <<>> /\ whole = NoVm /\ loaded = NoVm /\ saves = 0

SnapshotFileNext ==
    \/ \E target \in {None} \cup 1..V1_2 : create_snapshot(target)
    \/ WriteItem \/ WriteStops \/ Corrupt \/ NewerFile
    \/ loaded = NoVm /\ load

SnapshotFileSpec == SnapshotFileInit /\ [][SnapshotFileNext]_sfvars

-----------------------------------------------------------------------------
(* Properties.                                                             *)

\* Types of the snapshot files and the microVM loaded from them.
SnapshotFileTypeOK ==
    /\ vm \in Vms /\ host \in Vendors /\ Len(file) <= 4 /\ Len(writing) <= 4 /\ saves \in 0..MaxSaves
    /\ loaded # NoVm => loaded.vcpus \in 1..MaxVcpus

\* A microVM comes back with the devices it had, and with queues that the
\* version it was written for can describe: what a version cannot keep and the
\* guest depends on is refused when the snapshot is created.
GuestStateKept ==
    loaded # NoVm =>
      /\ loaded.balloon = vm.balloon /\ loaded.irqs = vm.irqs
      /\ loaded.block_event_idx = vm.block_event_idx /\ loaded.net_event_idx = vm.net_event_idx

\* A file that was written in full describes no queue with a feature that its
\* version cannot keep (notification suppression, since 1.0 for the block device
\* and 1.1 for the net device).
FeaturesFitVersion ==
    (whole # NoVm) => LET v == file[2].value[1] IN
                        /\ whole.net_event_idx => v >= V1_1
                        /\ whole.block_event_idx => v >= V1_0
=============================================================================
