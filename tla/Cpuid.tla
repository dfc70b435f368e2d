------------------------------- MODULE Cpuid --------------------------------
(***************************************************************************)
(* The CPUID tables that KvmVcpu::configure gives to the vCPUs of a microVM *)
(* (cpuid/src/transformer): what a guest is told of its topology and caches. *)
(* The builder configures the vCPUs one after the other, each from a copy   *)
(* of the entries KVM supports.  An entry has the fields of its registers   *)
(* that a property is about: "id" the APIC id, "n" a number of CPUs, "bits"  *)
(* a shift or a core id, "level" and "share" those of a cache.  The others  *)
(* keep what the host says: Host.                                           *)
(***************************************************************************)
EXTENDS Integers, Sequences, FiniteSets

CONSTANTS Counts,        \* numbers of vCPUs
          KvmLists,      \* what KVM_GET_SUPPORTED_CPUID returns: [vendor, entries]
          HostLeaves,    \* [vendor, caches]: the levels of the cache leaves of a host, which
                         \* on AMD has the leaves 0x8000001D and 0x8000001E
          MaxEntries     \* KVM_MAX_CPUID_ENTRIES

VARIABLES vendor, kvm_cpuid, caches,   \* the host
          cpu_count, smt,              \* the machine configuration
          tables,                      \* the tables of the vCPUs configured so far
          outcome                      \* "", or how configure ended otherwise
cpuidvars == <<vendor, kvm_cpuid, caches, cpu_count, smt, tables, outcome>>

Host == 99
Entry(function, index) ==
    [function |-> function, index |-> index, id |-> Host, n |-> Host, bits |-> Host,
     level |-> 0, share |-> Host, significant |-> FALSE]
Cache(function, index, level) ==
    [Entry(function, index) EXCEPT !.level = level, !.significant = function = "4"]

-----------------------------------------------------------------------------
(* VmSpec.                                                                 *)

cpu_bits(count, ht) == IF count > 1 /\ ht THEN 1 ELSE 0
cpus_per_core == 2 ^ cpu_bits(cpu_count, smt)

\* The smallest power of two that is not below count; 0 where the u8 overflows.
get_max_cpus_per_package(count) ==
    IF count > 128 THEN 0 ELSE 2 ^ (CHOOSE k \in 0..7 : 2 ^ k >= count /\ (k = 0 \/ 2 ^ (k - 1) < count))

-----------------------------------------------------------------------------
(* One entry of the table of the vCPU cpu_index.                           *)

update_feature_info_entry(e, cpu_index) ==
    [e EXCEPT !.id = cpu_index, !.n = get_max_cpus_per_package(cpu_count)]

\* Mutant: the L3 cache is shared like the others.
update_cache_parameters_per_core(e) == IF e.level = 0 THEN e ELSE [e EXCEPT !.share = cpus_per_core - 1]
update_cache_parameters_entry(e) ==
    [e EXCEPT !.share = CASE e.level \in {1, 2} -> cpus_per_core - 1
                          [] e.level = 3 -> cpu_count - 1
                          [] OTHER -> @]

update_deterministic_cache_entry(e) ==
    [update_cache_parameters_entry(e) EXCEPT !.n = (cpu_count \div cpus_per_core) - 1]

update_extended_topology_entry(e, cpu_index) ==
    [e EXCEPT !.id = cpu_index,
              !.bits = CASE e.index = 0 -> cpu_bits(cpu_count, smt) [] e.index = 1 -> 7 [] OTHER -> 0,
              !.n = CASE e.index = 0 -> cpus_per_core [] e.index = 1 -> cpu_count [] OTHER -> 0]

update_amd_features_entry(e) == [e EXCEPT !.bits = 7, !.n = cpu_count - 1]
update_extended_cache_topology_entry(e) ==
    [update_cache_parameters_entry(e) EXCEPT !.significant = TRUE]
update_extended_apic_id_entry(e, cpu_index) ==
    [e EXCEPT !.id = cpu_index, !.bits = cpu_index \div cpus_per_core, !.n = cpus_per_core - 1]

\* entry_transformer_fn of the two vendors
Transformed(e, cpu_index) ==
    CASE e.function = "1" -> update_feature_info_entry(e, cpu_index)
      [] e.function = "4" /\ vendor = "intel" -> update_deterministic_cache_entry(e)
      [] e.function = "b" /\ vendor = "intel" -> update_extended_topology_entry(e, cpu_index)
      [] e.function = "80000008" /\ vendor = "amd" -> update_amd_features_entry(e)
      [] e.function = "8000001d" /\ vendor = "amd" -> update_extended_cache_topology_entry(e)
      [] e.function = "8000001e" /\ vendor = "amd" -> update_extended_apic_id_entry(e, cpu_index)
      [] OTHER -> e

-----------------------------------------------------------------------------
(* process_cpuid: entries come and go before they are transformed.         *)

missing_core_level(l) == \A k \in DOMAIN l : ~(l[k].function = "b" /\ l[k].index = 1)
IntelEntries(l) ==
    IF missing_core_level(l) THEN Append(l, [Entry("b", 1) EXCEPT !.significant = TRUE]) ELSE l

use_host_cpuid_function(l, function, entries) ==
    SelectSeq(l, LAMBDA e : e.function # function) \o entries

ApicEntries(l) ==
    use_host_cpuid_function(SelectSeq(l, LAMBDA e : e.function # "b"), "8000001e", <<Entry("8000001e", 0)>>)
AmdEntries(l) ==
    use_host_cpuid_function(ApicEntries(l), "8000001d",
      [k \in DOMAIN caches |-> Cache("8000001d", k - 1, caches[k])])

Entries == CASE vendor = "intel" -> IntelEntries(kvm_cpuid)
             [] vendor = "amd" -> AmdEntries(kvm_cpuid)
             [] OTHER -> kvm_cpuid

\* No push goes past the size of the table.
TooMany ==
    \/ Len(Entries) > MaxEntries
    \/ vendor = "amd" /\ Len(ApicEntries(kvm_cpuid)) > MaxEntries

\* The assertion of write_bits_in_range: the values fit in their fields; and
\* no subtraction goes below zero.
Fits(e) ==
    /\ e.function = "1" => e.id \in 0..255 /\ e.n \in 0..255
    /\ e.function = "4" => e.n \in 0..63
    /\ e.function \in {"4", "8000001d"} /\ e.level \in 1..3 => e.share \in 0..4095
    /\ e.function = "8000001e" => e.bits \in 0..255

\* filter_cpuid for the next vCPU
filter_cpuid ==
    LET cpu_index == Len(tables)
        table == [k \in DOMAIN Entries |-> Transformed(Entries[k], cpu_index)]
    IN /\ outcome = "" /\ cpu_index < cpu_count
       /\ IF TooMany
          THEN outcome' = "Fam" /\ UNCHANGED tables
          ELSE IF vendor # "other" /\ get_max_cpus_per_package(cpu_count) = 0
          THEN outcome' = "VcpuCountOverflow" /\ UNCHANGED tables
          ELSE IF vendor # "other" /\ ~ \A k \in DOMAIN table : Fits(table[k])
          THEN outcome' = "panic" /\ UNCHANGED tables
          ELSE tables' = Append(tables, table) /\ UNCHANGED outcome
       /\ UNCHANGED <<vendor, kvm_cpuid, caches, cpu_count, smt>>

\* With SMT the number of vCPUs is 1 or even (VmResources).
CpuidInit ==
    /\ \E l \in KvmLists, h \in HostLeaves :
         /\ l.vendor = h.vendor /\ vendor = l.vendor
         /\ kvm_cpuid = l.entries /\ caches = h.caches
    /\ cpu_count \in Counts /\ smt \in BOOLEAN
    /\ smt => cpu_count = 1 \/ cpu_count % 2 = 0
    /\ tables = <<>> /\ outcome = ""

CpuidNext == filter_cpuid
CpuidSpec == CpuidInit /\ [][CpuidNext]_cpuidvars

-----------------------------------------------------------------------------
(* What a guest makes of its tables.                                       *)

Vcpus == DOMAIN tables
Leaves(v, function) == {tables[v][k] : k \in {k \in DOMAIN tables[v] : tables[v][k].function = function}}
Leaf(v, function, index) == CHOOSE e \in Leaves(v, function) : e.index = index
ApicId(v) == Leaf(v, "1", 0).id

\* The core: the APIC id without the bits of the threads, or the core id.
Core(v) == IF vendor = "intel" THEN Leaf(v, "b", 0).id \div 2 ^ Leaf(v, "b", 0).bits
                               ELSE Leaf(v, "8000001e", 0).bits
\* Two vCPUs share a cache if their APIC ids agree above the bits that the
\* number of sharers takes.
Sharing(e, a, b) ==
    LET size == get_max_cpus_per_package(e.share + 1) IN (a \div size) = (b \div size)
CacheLeaf == IF vendor = "intel" THEN "4" ELSE "8000001d"

\* The vCPUs of a core share their L1 and L2 caches, no other two do, and all
\* share the L3: the cores of leaf 0xB or 0x8000001E are those of the cache
\* leaves, for every number of vCPUs ("The L3 cache is shared among all the
\* logical threads", update_cache_parameters_entry).
CachesFollowCores ==
    vendor # "other" =>
      \A v, w \in Vcpus : \A e \in Leaves(v, CacheLeaf) :
        e.level \in 1..3 =>
          (Sharing(e, ApicId(v), ApicId(w)) <=> e.level = 3 \/ Core(v) = Core(w))

\* A core has as many vCPUs as the guest is told, two with SMT: leaf 0xB or
\* 0x8000001E counts the vCPUs that it places in one core.
CoresAreFull ==
    vendor # "other" /\ Len(tables) = cpu_count =>
      \A v \in Vcpus :
        /\ Cardinality({w \in Vcpus : Core(w) = Core(v)}) =
             IF vendor = "intel" THEN Leaf(v, "b", 0).n ELSE Leaf(v, "8000001e", 0).n + 1
        /\ Cardinality({w \in Vcpus : Core(w) = Core(v)}) = IF smt /\ cpu_count > 1 THEN 2 ELSE 1
=============================================================================
