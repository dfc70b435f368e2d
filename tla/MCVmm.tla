------------------------------- MODULE MCVmm --------------------------------
(***************************************************************************)
(* Small instances of the components that start, control and save a        *)
(* microVM and serve its metadata, for one run of TLC: vCPU control, the   *)
(* API server, the resources, logger and metrics, the jailer, the builder, *)
(* memory snapshots; and, on the variables of a pool that they share, each *)
(* under the names of its own module, state snapshots, seccomp filters,    *)
(* the KVM state of a vCPU, the CPUID tables, the requests of the API, the *)
(* data store of the metadata service and its packet formats.  The initial *)
(* state chooses one of them; the others stand still.                      *)
(***************************************************************************)
EXTENDS VcpuControl, ApiServer, VmResources, Telemetry, Jailer, Builder, MemorySnapshot

VARIABLES
    which,     \* the component that runs
    v1, v2, v3, v4, v5, v6, v7, v8, v9, v10, v11, v12, v13    \* the pool
pool == <<v1, v2, v3, v4, v5, v6, v7, v8, v9, v10, v11, v12, v13>>

\* Boot configurations: all the devices, two devices of a kind, no device.
Device(type, id) == [type |-> type, id |-> id]
BootConfigs ==
    {<<Device("boot_timer", "bt"), Device("balloon", "balloon"), Device("block", "a"),
       Device("block", "b"), Device("net", "a"), Device("vsock", "vsock")>>,
     <<Device("block", "a"), Device("net", "a"), Device("net", "b")>>,
     <<Device("balloon", "balloon"), Device("block", "b"), Device("block", "a")>>,
     <<>>}

\* Guest memory in two regions.
TwoRegions == <<[offset |-> 0, size |-> 2], [offset |-> 2, size |-> 1]>>

\* MicroVMs that differ in what some version of the snapshot format cannot keep.
Vms == [irqs : {1, 3}, balloon : BOOLEAN, engine : {"Sync", "Async"}, block_event_idx : BOOLEAN,
        net_event_idx : BOOLEAN, mmds : {"none", "V2"}, smt : {TRUE}, vcpus : {0, 1, 2},
        regions : {1}, vendor : {"intel"}]

\* Seccomp filters: every condition alone; rules of several conditions, which
\* need one, five or six statements each; and filters that are refused.
Cond(rel, len, v, m) == [operator |-> rel, arg_len |-> len, arg_number |-> 0, value |-> v, mask |-> m]
Rule(nr, cs) == [syscall |-> nr, conditions |-> cs]
Filter(rules) == [default_action |-> "trap", filter_action |-> "allow", filter |-> rules]
Words == 0..3
OneCondition ==
    {Filter(<<Rule(1, <<Cond(rel, len, v, 0)>>)>>) :
        rel \in {"eq", "ne", "lt", "le", "gt", "ge"}, len \in {"qword", "dword"}, v \in Words}
    \cup {Filter(<<Rule(1, <<Cond("masked_eq", len, v, m)>>)>>) :
              len \in {"qword", "dword"}, v \in Words, m \in Words}
Mixed == {Cond("masked_eq", "qword", 3, 1), Cond("ge", "qword", 2, 0), Cond("ne", "dword", 0, 0)}
RuleChains ==
    {Filter(<<Rule(1, a), Rule(2, b), Rule(1, c)>>) :
        a \in UNION {[1..n -> Mixed] : n \in 0..3}, b \in {<<>>, <<Cond("ge", "qword", 2, 0)>>},
        c \in {<<>>, <<Cond("ne", "dword", 0, 0)>>,
               <<Cond("masked_eq", "qword", 3, 1), Cond("le", "qword", 1, 0), Cond("lt", "qword", 3, 0)>>}}
Refused == {[default_action |-> "allow", filter_action |-> "allow", filter |-> <<>>],
            Filter(<<Rule(9, <<>>)>>), Filter(<<>>)}
Calls == [nr : {1, 2, 3}, arch : {"target"}, args : [{0} -> Words]]
         \cup [nr : {1}, arch : {"other"}, args : [{0} -> {0}]]

\* Hosts: two of one model, one of another with the model that templates give
\* to a guest, and one of another vendor that cannot tell its TSC frequency.
HostOf(vendor, model, khz, has_tsc, msrs, features) ==
    [vendor |-> vendor, model |-> model, khz |-> khz, has_tsc |-> has_tsc, msrs |-> msrs, features |-> features]
HostSet ==
    {HostOf("intel", "skylake", khz, TRUE, {"star", "deadline", "bndcfgs", "mcg_ctl"}, {"mtrr", "mce", "bndcfgs"}) :
        khz \in {3000000, 3000750}}
    \cup {HostOf("intel", "haswell", 2400000, TRUE, {"star", "deadline"}, {"mtrr", "mce"}),
          HostOf("amd", "milan", 2500000, FALSE, {"star", "deadline"}, {"mtrr", "mce"})}

\* The entries of KVM_GET_SUPPORTED_CPUID: with or without the core level of
\* leaf 0xB, the AMD leaves, and so many that nothing can be added.
Plain(function, index) ==
    [function |-> function, index |-> index, id |-> 99, n |-> 99, bits |-> 99, level |-> 0, share |-> 99,
     significant |-> FALSE]
CacheOf(function, index, level) == [Plain(function, index) EXCEPT !.level = level, !.significant = TRUE]
IntelList == <<Plain("1", 0), CacheOf("4", 0, 1), CacheOf("4", 1, 2), CacheOf("4", 2, 3), CacheOf("4", 3, 0),
               Plain("b", 0)>>
AmdList == <<Plain("1", 0), Plain("b", 0), Plain("80000008", 0)>>
CpuidLists ==
    [vendor : {"intel"}, entries : {IntelList, Append(IntelList, Plain("b", 1)),
                                    IntelList \o [k \in 1..3 |-> Plain("d", k - 1)]}]
    \cup [vendor : {"amd"}, entries : {AmdList, AmdList \o <<CacheOf("8000001d", 0, 1), Plain("8000001e", 0)>>}]
    \cup [vendor : {"other"}, entries : {<<Plain("1", 0)>>}]

\* URIs: every path of the API and one that is not, with ids and operations
\* that are right, wrong, missing or empty.
Paths == {"", "actions", "balloon", "boot-source", "logger", "machine-config", "metrics", "mmds", "version",
          "vsock", "vm", "shutdown-internal", "network-interfaces", "snapshot", "unknown"}
Operations == {<<"mmds", "config">>, <<"mmds", "other">>, <<"balloon", "statistics">>, <<"balloon", "other">>,
               <<"vm", "config">>, <<"snapshot", "create">>, <<"snapshot", "load">>, <<"drives", "">>, <<"mmds", "">>}
UriSet ==
    {<<"", p>> : p \in Paths} \cup {<<"">> \o o : o \in Operations}
    \cup {<<"", p, s>> : p \in {"drives", "network-interfaces"}, s \in {"id", "other", "not-an-id"}}
    \cup {<<"", "", "drives", "", "id">>}
\* No body, one that does not deserialize, and others.
BodyOf(present, ok, id, given) == [present |-> present, ok |-> ok, id |-> id, given |-> given]
BodySet ==
    {BodyOf(FALSE, FALSE, "", "nothing"), BodyOf(TRUE, FALSE, "", "nothing"), BodyOf(TRUE, TRUE, "not-an-id", "plain")}
    \cup {BodyOf(TRUE, TRUE, "id", g) : g \in {"plain", "deprecated", "both", "nothing"}}

\* Documents, patches and paths of the metadata service.
Str(v) == [k |-> "str", v |-> v]
Obj(m) == [k |-> "obj", m |-> m]
Null == [k |-> "null"]
Other == [k |-> "other"]
A(v) == [x \in {"a"} |-> v]
AB(v, w) == [x \in {"a", "b"} |-> IF x = "a" THEN v ELSE w]
Puts == {Str("s"), Obj(<<>>), Obj(AB(Str("s"), Obj(A(Other)))),
         Obj(AB(Obj(AB(Str("s"), Str("s"))), Str("t")))}
Patches == {Obj([x \in {"c"} |-> Str("t")]), Str("s"), Obj(A(Null)), Obj(A(Obj(A(Null)))),
            Obj(AB(Obj(AB(Null, Str("t"))), Obj(A(Obj(A(Null)))))), Obj([x \in {"b"} |-> Str("t")])}
Uris == {<<"/", "latest", "/", "api", "/", "token">>, <<"/", "/", "/", "/">>,
         <<"/", "/", "/", "a", "/", "/", "b">>}

snapfile == INSTANCE SnapshotFile WITH
    Latest <- 6, MaxDevices <- 2, MaxVcpus <- 1, MaxSaves <- 1,
    vm <- v1, host <- v2, file <- v3, writing <- v4, whole <- v5, loaded <- v6,
    saves <- v7
seccomp == INSTANCE Seccomp WITH
    Word <- 2, MaxJump <- 15, BPF_MAX_LEN <- 60, SyscallTable <- {1, 2, 3},
    Filters <- OneCondition \cup RuleChains \cup Refused,
    filter <- v1, is_basic <- v2, compiled <- v3, call <- v4, pc <- v5,
    accumulator <- v6, verdict <- v7
vstate == INSTANCE VcpuState WITH
    Hosts <- HostSet, Templates <- {"None", "T2S", "T2A"}, MaxMsrEntries <- 4, MaxGenerations <- 2,
    host <- v1, template <- v2, kvm <- v3, tsc <- v4, msr <- v5, msr_list <- v6, pc <- v7,
    step <- v8, state <- v9, file <- v10, was <- v11, why <- v12, generation <- v13
cpuid == INSTANCE Cpuid WITH
    Counts <- {1, 2, 3, 6, 10, 32}, KvmLists <- CpuidLists, MaxEntries <- 9,
    HostLeaves <- {[vendor |-> "intel", caches |-> <<>>], [vendor |-> "amd", caches |-> <<1, 1, 2, 3>>],
                   [vendor |-> "other", caches |-> <<>>]},
    vendor <- v1, kvm_cpuid <- v2, caches <- v3, cpu_count <- v4, smt <- v5, tables <- v6,
    outcome <- v7
apireq == INSTANCE ApiRequest WITH
    Uris <- UriSet, Bodies <- BodySet, MaxRequests <- 2,
    last <- v1, parsed <- v2, response <- v3, count <- v4, fails <- v5,
    deprecated_http_api_calls <- v6, shutdown_flag <- v7, served <- v8
service == INSTANCE Mmds WITH
    DataStoreLimit <- 7, MaxCount <- 1, MinTtl <- 1, MaxTtl <- 1, Ttls <- {0, 1},
    MsPerSecond <- 1, MaxTime <- 1, MaxIssued <- 2, MaxKeys <- 2,
    data_store <- v1, is_initialized <- v2, authority <- v3, clock <- v4, issued <- v5,
    response <- v6
pdu == INSTANCE Pdu WITH
    FrameLens <- {13, 14, 33, 34, 41, 42, 43, 54, 58},
    TotalLens <- {19, 20, 28, 29, 40, 44}, HeaderLens <- {16, 20, 24, 60},
    DataOffsets <- {4, 5, 6, 15}, BufLens <- {19, 20, 23, 24, 25, 28},
    MssLefts <- {0, 3, 4, 5, 8}, PayloadLens <- {0, 1, 2, 5}, Kinds <- {0, 1, 2, 3, 5},
    MaxOptions <- 4,
    frame <- v1, seg <- v2, kinds <- v3

ASSUME ControlAssumption
ASSUME vstate!HostAssumption

-----------------------------------------------------------------------------
\* A component uses the first n variables of the pool; the rest stay empty.
Unused == "unused"
EmptyFrom(n, k, v) == IF k <= n THEN TRUE ELSE v = Unused
KeptFrom(n, k, v) == IF k <= n THEN TRUE ELSE UNCHANGED v
Empty(n) ==
    /\ EmptyFrom(n, 1, v1) /\ EmptyFrom(n, 2, v2) /\ EmptyFrom(n, 3, v3)
    /\ EmptyFrom(n, 4, v4) /\ EmptyFrom(n, 5, v5) /\ EmptyFrom(n, 6, v6)
    /\ EmptyFrom(n, 7, v7) /\ EmptyFrom(n, 8, v8) /\ EmptyFrom(n, 9, v9)
    /\ EmptyFrom(n, 10, v10) /\ EmptyFrom(n, 11, v11) /\ EmptyFrom(n, 12, v12)
    /\ EmptyFrom(n, 13, v13)
Kept(n) ==
    /\ KeptFrom(n, 1, v1) /\ KeptFrom(n, 2, v2) /\ KeptFrom(n, 3, v3)
    /\ KeptFrom(n, 4, v4) /\ KeptFrom(n, 5, v5) /\ KeptFrom(n, 6, v6)
    /\ KeptFrom(n, 7, v7) /\ KeptFrom(n, 8, v8) /\ KeptFrom(n, 9, v9)
    /\ KeptFrom(n, 10, v10) /\ KeptFrom(n, 11, v11) /\ KeptFrom(n, 12, v12)
    /\ KeptFrom(n, 13, v13)

Extended == {"vcpus", "api", "resources", "telemetry", "jailer", "builder", "memory"}
OnPool ==
    \/ which = "file" /\ snapfile!SnapshotFileInit /\ Empty(7)
    \/ which = "seccomp" /\ seccomp!SeccompInit /\ Empty(7)
    \/ which = "vstate" /\ vstate!VcpuStateInit /\ Empty(13)
    \/ which = "cpuid" /\ cpuid!CpuidInit /\ Empty(7)
    \/ which = "requests" /\ apireq!ApiRequestInit /\ Empty(8)
    \/ which = "mmds" /\ service!MmdsInit /\ Empty(6)
    \/ which = "pdu" /\ pdu!PduInit /\ Empty(3)

\* Only the component that runs begins in each of its initial states.
AllInit ==
    /\ (which \in Extended /\ Empty(0)) \/ OnPool
    /\ Init /\ ResInit /\ TelemetryInit
    /\ ApiInit /\ (which # "api" => vmm.pc = "preboot")
    /\ JailerInit /\ (which # "jailer" => version = 1 /\ opt = [j \in Jailers |-> [id |-> "i1", pidns |-> TRUE]])
    /\ BuilderInit /\ (which # "builder" => conf = <<>>)
    /\ SnapInit /\ (which # "memory" => track_dirty_pages)

\* All the components with variables of their own, except c, stand still.
Others(c) ==
    /\ IF c = "vcpus" THEN TRUE ELSE UNCHANGED vars
    /\ IF c = "api" THEN TRUE ELSE UNCHANGED avars
    /\ IF c = "resources" THEN TRUE ELSE UNCHANGED rvars
    /\ IF c = "telemetry" THEN TRUE ELSE UNCHANGED tmvars
    /\ IF c = "jailer" THEN TRUE ELSE UNCHANGED jvars
    /\ IF c = "builder" THEN TRUE ELSE UNCHANGED bdvars
    /\ IF c = "memory" THEN TRUE ELSE UNCHANGED svars

\* Every one of them stops when its bounds are reached.
MayStop == Others("none") /\ UNCHANGED pool

\* A late answer is one to the first command: SavedWhilePaused says nothing of
\* what follows one.
EarlyTimeouts == timeouts' > 0 => commands' = 1

\* The balloon is given pages that are not zero, while no request is in flight
\* and the chain of snapshots is whole.
SomeInflations == ~(inflated' \subseteq inflated) => mem' # mem /\ io = <<>> /\ ~failed

AllNext ==
    /\ UNCHANGED which
    /\ \/ which = "vcpus" /\ Next /\ EarlyTimeouts /\ Others("vcpus") /\ UNCHANGED pool
       \/ which = "api" /\ ApiNext /\ Others("api") /\ UNCHANGED pool
       \/ which = "resources" /\ ResNext /\ Others("resources") /\ UNCHANGED pool
       \/ which = "telemetry" /\ TelemetryNext /\ Others("telemetry") /\ UNCHANGED pool
       \/ which = "jailer" /\ JailerNext /\ Others("jailer") /\ UNCHANGED pool
       \/ which = "builder" /\ BuilderNext /\ Others("builder") /\ UNCHANGED pool
       \/ which = "memory" /\ SnapNext /\ SomeInflations /\ Others("memory") /\ UNCHANGED pool
       \/ which = "file" /\ snapfile!SnapshotFileNext /\ Kept(7) /\ Others("none")
       \/ which = "seccomp" /\ seccomp!SeccompNext /\ Kept(7) /\ Others("none")
       \/ which = "vstate" /\ vstate!VcpuStateNext /\ Kept(13) /\ Others("none")
       \/ which = "cpuid" /\ cpuid!CpuidNext /\ Kept(7) /\ Others("none")
       \/ which = "requests" /\ apireq!ApiRequestNext /\ Kept(8) /\ Others("none")
       \/ which = "mmds" /\ service!MmdsNext /\ Kept(6) /\ Others("none")
       \/ which = "pdu" /\ pdu!PduNext /\ Kept(3) /\ Others("none")
       \/ MayStop
AllSpec == AllInit /\ [][AllNext]_<<which, vars, avars, rvars, tmvars, jvars, bdvars, svars, pool>>

-----------------------------------------------------------------------------
(* Properties of the components of the pool.                               *)

\* A microVM comes back from its state file with the devices and features it
\* had, in every version of the format that accepts it.
StateIsKept == which = "file" => snapfile!GuestStateKept /\ snapfile!FeaturesFitVersion

\* The compiled BPF program decides every system call as the rules say.
VerdictIsRight == which = "seccomp" => seccomp!VerdictIsRight

\* The KVM state of a guest survives its restore, or the load is refused: no
\* ioctl undoes another, no MSR the guest can use is lost in any version of the
\* format, the TSC keeps its frequency, and KVM refuses nothing that was saved.
KvmStateKept ==
    which = "vstate" =>
        /\ vstate!RestoredIsSaved /\ vstate!MsrsKept
        /\ vstate!TscKept /\ vstate!RestoreIsAccepted

\* The CPUID leaves agree on the topology: the cache leaves describe the cores
\* that the topology leaves describe, and a core has the vCPUs the guest is
\* told.
TopologyAgrees == which = "cpuid" => cpuid!CachesFollowCores /\ cpuid!CoresAreFull

\* The requests of the API are understood as its description documents them.
RoutesAsDocumented == which = "requests" => apireq!RoutesAsDocumented

\* What the guest gets of the MMDS is right.  Frames are written and read
\* right, whatever their lengths say: one that the MMDS stack would take is
\* recognised, the accesses of the parsers stay in it, a segment that is
\* written is read back with its payload, and the MSS option is found.  With
\* version 2, the request in it reads metadata exactly with a token of this
\* authority that has not expired.
MmdsReadsRight ==
    /\ which = "pdu" => pdu!NoFalseNegatives /\ pdu!AccessesInFrame
    /\ which = "pdu" => pdu!SegmentReadsBack /\ pdu!MssIsFound
    /\ which = "mmds" => service!TokensGuardReads
=============================================================================
