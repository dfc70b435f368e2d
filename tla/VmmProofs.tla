----------------------------- MODULE VmmProofs ------------------------------
(***************************************************************************)
(* Proofs about the components around the VMM: the API server, the metrics, *)
(* the jailer and the configuration before boot.                            *)
(***************************************************************************)
EXTENDS ApiServer, Telemetry, Jailer, VmResources, Integers, TLAPS

-----------------------------------------------------------------------------
(* The API server.  The channels carry no identifiers: what makes an        *)
(* answer match is that a request is in exactly one place at a time.        *)

\* The request of the API thread is on its channel, with the VMM thread that has
\* taken it before boot, or answered.
Placed ==
    \/ from_api = <<api.req>> /\ to_api = << >> /\ vmm.pc # "preboot_read"
    \/ from_api = << >> /\ to_api = << >> /\ vmm.pc = "preboot_read" /\ vmm.req = api.req
    \/ from_api = << >> /\ to_api = <<api.req>> /\ vmm.pc # "preboot_read"

Requests == [op : VmmAction \cup {"none"}, id : Nat]

ApiInv ==
    /\ api \in [pc : {"idle", "sent", "waiting", "exited"}, req : Requests]
    /\ vmm \in [pc : {"preboot", "preboot_read", "epoll", "paused", "read", "exiting", "join", "done"},
               req : Requests]
    /\ made \in Nat
    /\ api.pc \in {"idle", "exited"} => from_api = << >> /\ to_api = << >> /\ vmm.pc # "preboot_read"
    /\ api.pc \in {"sent", "waiting"} => Placed

\* Steps of the API thread and of its clients.
LEMMA ApiThreadKeepsInv ==
    ASSUME ApiInv, (\E op \in VmmAction : SendRequest(op)) \/ ApiThread
    PROVE  ApiInv'
  <1> USE DEF ApiInv
  <1>1. ASSUME NEW op \in VmmAction, SendRequest(op) PROVE ApiInv'
    <2>1. Request(op, made + 1) \in Requests
      BY DEF Request, Requests
    <2>2. /\ from_api = << >> /\ to_api = << >> /\ vmm.pc # "preboot_read"
          /\ api' = [pc |-> "sent", req |-> Request(op, made + 1)]
          /\ from_api' = Append(from_api, Request(op, made + 1))
          /\ UNCHANGED <<to_api, vmm>> /\ made' = made + 1
      BY <1>1, Zenon DEF SendRequest
    <2>3. Append(<< >>, Request(op, made + 1)) = <<Request(op, made + 1)>>
      OBVIOUS
    <2> QED BY <2>1, <2>2, <2>3 DEF Placed
  <1>2. CASE WriteEvent
    BY <1>2, Zenon DEF WriteEvent, Placed
  <1>3. CASE ReceiveOutcome
    <2>1. NoRequest \in Requests
      BY Zenon DEF NoRequest, Requests
    <2>2. /\ to_api' = Tail(to_api) /\ api' = [pc |-> "idle", req |-> NoRequest]
          /\ UNCHANGED <<from_api, vmm, made>> /\ to_api # << >> /\ Placed
      BY <1>3, Zenon DEF ReceiveOutcome
    <2>3. from_api = << >> /\ to_api = <<api.req>> /\ vmm.pc # "preboot_read"
      BY <2>2, Zenon DEF Placed
    <2>4. Tail(<<api.req>>) = << >>
      OBVIOUS
    <2> QED BY <2>1, <2>2, <2>3, <2>4, Zenon
  <1>4. CASE ShutdownInternal
    BY <1>4, Zenon DEF ShutdownInternal
  <1> QED BY <1>1, <1>2, <1>3, <1>4, Zenon DEF ApiThread

\* A channel that is not empty holds the request of the API thread.
LEMMA OnChannel ==
    ASSUME ApiInv, from_api # << >>
    PROVE  /\ api.pc \in {"sent", "waiting"} /\ from_api = <<api.req>> /\ to_api = << >>
           /\ Head(from_api) = api.req /\ Tail(from_api) = << >>
           /\ \A r : Append(to_api, r) = <<r>>
  <1>1. api.pc \in {"sent", "waiting"} /\ from_api = <<api.req>> /\ to_api = << >>
    BY Zenon DEF ApiInv, Placed
  <1> QED BY <1>1

\* Steps of the VMM thread.
LEMMA VmmThreadKeepsInv ==
    ASSUME ApiInv, VmmThread \/ StopVmm
    PROVE  ApiInv'
  <1> USE DEF ApiInv
  <1>0. NoRequest \in Requests
    BY Zenon DEF NoRequest, Requests
  <1>1. CASE PrebootReceive
    <2>1. /\ vmm' = [pc |-> "preboot_read", req |-> Head(from_api)] /\ from_api' = Tail(from_api)
          /\ UNCHANGED <<api, to_api, made>> /\ from_api # << >>
      BY <1>1, Zenon DEF PrebootReceive
    <2> QED BY <2>1, OnChannel, Zenon DEF Placed
  <1>2. CASE PrebootHandle
    <2>1. PICK c \in handle_preboot_request(ctl, vmm.req.op) :
            /\ to_api' = Append(to_api, vmm.req)
            /\ vmm' = [pc |-> IF c.fatal_error THEN "exiting" ELSE IF c.built_vmm THEN "epoll" ELSE "preboot",
                       req |-> NoRequest]
      BY <1>2, Zenon DEF PrebootHandle, respond, answer
    <2>2. UNCHANGED <<api, from_api, made>> /\ vmm.pc = "preboot_read"
      BY <1>2, Zenon DEF PrebootHandle
    <2>3. /\ api.pc \in {"sent", "waiting"} /\ from_api = << >> /\ to_api = << >> /\ vmm.req = api.req
      BY <2>2, Zenon DEF Placed
    <2>4. Append(<< >>, vmm.req) = <<api.req>>
      BY <2>3
    <2>5. vmm'.pc \in {"exiting", "epoll", "preboot"}
          /\ vmm' \in [pc : {"exiting", "epoll", "preboot"}, req : Requests]
      BY <1>0, <2>1, Zenon
    <2> QED BY <2>1, <2>2, <2>3, <2>4, <2>5, Zenon DEF Placed
  <1>3. ASSUME NEW next \in {"read", "paused"}, from_api # << >>,
               handle_request(Head(from_api), next), UNCHANGED <<api, made>>
        PROVE  ApiInv'
    <2>1. to_api' = <<api.req>> /\ from_api' = << >> /\ vmm' = [pc |-> next, req |-> NoRequest]
      BY <1>3, OnChannel, Zenon DEF handle_request, answer
    <2> QED BY <1>0, <1>3, <2>1, OnChannel, Zenon DEF Placed
  <1>4. CASE Process
    <2>1. CASE from_api # << >>
      <3>1. AfterFirst(Head(from_api).op) \in {"read", "paused"}
        BY Zenon DEF AfterFirst
      <3> QED BY <1>3, <1>4, <2>1, <3>1, Zenon DEF Process
    <2>2. CASE from_api = << >>
      BY <1>4, <2>2, Zenon DEF Process, Placed
    <2> QED BY <2>1, <2>2, Zenon
  <1>5. CASE PausedProcess
    <2>1. AfterPaused(Head(from_api).op) \in {"read", "paused"}
      BY Zenon DEF AfterPaused
    <2> QED BY <1>3, <1>5, <2>1, Zenon DEF PausedProcess
  <1>6. CASE ReadEvent
    BY <1>6, Zenon DEF ReadEvent, Placed
  <1>7. CASE SendShutdown \/ JoinApi \/ StopVmm
    BY <1>7, Zenon DEF SendShutdown, JoinApi, StopVmm, Placed
  <1> QED BY <1>1, <1>2, <1>4, <1>5, <1>6, <1>7, Zenon DEF VmmThread

\* The API thread only ever takes the response to its own request, although the
\* channels carry no identifiers: across boot, the pause loop, spurious events and
\* any number of requests, an answer is never left over and never mixed up.
THEOREM ApiAnswersMatch == ApiSpec => []AnswersMatch
  <1>1. ApiInit => ApiInv
    <2>1. NoRequest \in Requests
      BY Zenon DEF NoRequest, Requests
    <2> QED BY <2>1 DEF ApiInit, ApiInv
  <1>2. ApiInv /\ [ApiNext]_avars => ApiInv'
    <2>1. CASE UNCHANGED avars
      BY <2>1, Zenon DEF avars, ApiInv, Placed
    <2> QED BY <2>1, ApiThreadKeepsInv, VmmThreadKeepsInv, Zenon DEF ApiNext
  <1>3. ApiInv => AnswersMatch
    <2> SUFFICES ASSUME ApiInv PROVE AnswersMatch
      BY Zenon
    <2>1. \/ to_api = << >> /\ from_api = << >>
          \/ to_api = << >> /\ from_api = <<api.req>>
          \/ to_api = <<api.req>> /\ from_api = << >>
      BY Zenon DEF ApiInv, Placed
    <2>2. Len(<< >>) = 0 /\ Len(<<api.req>>) = 1 /\ \A i \in 1..1 : <<api.req>>[i] = api.req
      OBVIOUS
    <2>3. Len(to_api) + Len(from_api) <= 1
      <3>1. CASE to_api = << >> /\ from_api = << >>
        BY <3>1
      <3>2. CASE to_api = << >> /\ from_api = <<api.req>>
        BY <3>2
      <3>3. CASE to_api = <<api.req>> /\ from_api = << >>
        BY <3>3
      <3> QED BY <2>1, <3>1, <3>2, <3>3, Zenon
    <2>4. \A i \in 1..Len(to_api) : to_api[i] = api.req
      BY <2>1, <2>2
    <2> QED BY <2>3, <2>4, Zenon DEF ApiInv, AnswersMatch
  <1> QED BY <1>1, <1>2, <1>3, PTL DEF ApiSpec

-----------------------------------------------------------------------------
(* Metrics.  A flush takes current and old in one step and stores old in     *)
(* another, while other threads go on counting.                              *)

MetricsInv ==
    /\ {current, old, reported, lost} \subseteq Nat
    /\ flush \in [at : {"idle", "load", "store", "write"}, snapshot : Nat, delta : Nat]
    /\ old <= current
    /\ flush.at = "store" => flush.delta = flush.snapshot - old /\ flush.snapshot <= current
    /\ FlushesAddUp

\* SharedIncMetric::serialize and write_metrics: for any number of threads and
\* increments between the steps of a flush, what the flushes have reported or a
\* failed write has lost adds up to what the metric says was flushed, and the delta
\* of two counters read while others count never wraps.
THEOREM MetricsAddUp == TelemetrySpec => []FlushesAddUp
  <1>1. TelemetryInit => MetricsInv
    BY DEF TelemetryInit, MetricsInv, FlushesAddUp, Idle
  <1>2. MetricsInv /\ [TelemetryNext]_tmvars => MetricsInv'
    <2> SUFFICES ASSUME MetricsInv, [TelemetryNext]_tmvars PROVE MetricsInv'
      BY Zenon
    <2> USE DEF MetricsInv, FlushesAddUp
    <2>1. CASE inc
      BY <2>1 DEF inc
    <2>2. CASE init_metrics
      BY <2>2, Zenon DEF init_metrics
    <2>3. CASE write_metrics
      BY <2>3 DEF write_metrics, Idle
    <2>4. CASE SerializeLoad
      BY <2>4 DEF SerializeLoad
    <2>5. CASE SerializeStore
      BY <2>5, Zenon DEF SerializeStore, stored_snapshot
    <2>6. CASE WriteLine
      BY <2>6 DEF WriteLine, Idle
    <2>7. ASSUME UNCHANGED mvars PROVE MetricsInv'
      BY <2>7, Zenon DEF mvars
    <2>8. ASSUME NEW t \in Threads, call_init(t) \/ Closure(t) \/ StoreState(t) PROVE MetricsInv'
      BY <2>7, <2>8, Zenon DEF call_init, Closure, StoreState
    <2>9. CASE UNCHANGED tmvars
      BY <2>7, <2>9, Zenon DEF tmvars
    <2> QED BY <2>1, <2>2, <2>3, <2>4, <2>5, <2>6, <2>8, <2>9, Zenon DEF TelemetryNext
  <1>3. MetricsInv => FlushesAddUp
    BY Zenon DEF MetricsInv
  <1> QED BY <1>1, <1>2, <1>3, PTL DEF TelemetrySpec

-----------------------------------------------------------------------------
(* The jailers.  JailerInv says of each of them what its next step relies   *)
(* on, and that the device node it has created makes a jail its own: two    *)
(* jailers with one id race for it, and mknod fails for the second.         *)

InCgroups == {"create_dir", "read", "read_again", "write", "subtree", "value"}
InJail == {"chroot", "pivot", "mknod_tun", "mknod_kvm", "exec", "save_pid"}

\* The jailer has created the first device of the jail.
Holds(j) == step[j] \in {"mknod_kvm", "exec", "save_pid"} \/ j \in running

\* The levels of the cgroup tree that the next write of a jailer needs are set,
\* and so are the files before the one it works on.
CgroupsReady(j) ==
    /\ step[j] \in {"read", "read_again", "write"} => version = 1 /\ at[j] \in 1..Leaf
    /\ step[j] \in {"read_again", "write"} => inherited[file[j]][at[j] - 1]
    /\ step[j] = "subtree" => at[j] \in 0..Depth /\ (at[j] > 0 => inherited[file[j]][at[j] - 1])
    /\ step[j] = "value" => inherited[file[j]][Depth]
    /\ step[j] \in InCgroups => 1..(file[j] - 1) \subseteq leaf[Id(j)]
    /\ step[j] \in InJail \cup {"attach"} => leaf[Id(j)] = Files

JailReady(j) ==
    /\ step[j] \in InJail => j \in tasks
    /\ step[j] \in {"mknod_tun", "mknod_kvm", "exec", "save_pid"} => j \in chrooted
    /\ step[j] \in {"mknod_kvm", "exec", "save_pid"} => "tun" \in dir[Id(j)] /\ "pid" \notin dir[Id(j)]
    /\ step[j] \in {"exec", "save_pid"} => "kvm" \in dir[Id(j)]
    /\ j \in running => /\ step[j] \in {"save_pid", "done", "unsaved"} /\ j \in chrooted /\ j \in tasks
                       /\ leaf[Id(j)] = Files /\ {"tun", "kvm"} \subseteq dir[Id(j)]

JailerInv ==
    /\ JailerTypeOK /\ opt \in [Jailers -> [id : Ids, pidns : BOOLEAN]] /\ version \in {1, 2}
    /\ version = 1 => \A f \in Files : inherited[f][0]
    /\ \A j \in Jailers : CgroupsReady(j) /\ JailReady(j)
    /\ \A i \in Ids : "pid" \in dir[i] => "tun" \in dir[i]
    /\ \A j, k \in Jailers : Holds(j) /\ Holds(k) /\ Id(j) = Id(k) => j = k

\* The order of the files, in a form that needs no arithmetic later.
LEMMA FilesInOrder ==
    /\ 1 \in Files /\ 1..0 = {} /\ Depth \in 0..Depth /\ Leaf \in 1..Leaf /\ Leaf - 1 = Depth
    /\ \A f \in Files : /\ 1..(f + 1 - 1) = 1..(f - 1) \cup {f}
                        /\ f + 1 \notin Files => 1..(f - 1) \cup {f} = Files
  BY JailerAssumption DEF Files, Leaf

\* A jailer that does not move is not disturbed by cgroup files that get set.
LEMMA CgroupsFrame ==
    ASSUME NEW k \in Jailers, JailerInv, UNCHANGED <<opt, version>>,
           step'[k] = step[k], file'[k] = file[k], at'[k] = at[k],
           \A f \in Files, l \in 0..Depth : inherited[f][l] => inherited'[f][l],
           leaf[Id(k)] \subseteq leaf'[Id(k)], leaf'[Id(k)] \subseteq Files
    PROVE  CgroupsReady(k)'
  <1>1. CgroupsReady(k) /\ Id(k)' = Id(k) /\ file[k] \in Files /\ at[k] \in 0..Leaf
    BY Zenon DEF JailerInv, JailerTypeOK, Id
  <1>2. at[k] \in 1..Leaf => at[k] - 1 \in 0..Depth
    BY JailerAssumption DEF Leaf
  <1>3. step[k] \in {"read_again", "write"} => inherited'[file[k]][at[k] - 1]
    BY <1>1, <1>2, Zenon DEF CgroupsReady
  <1>4. step[k] = "subtree" => at[k] \in 0..Depth /\ (at[k] > 0 => inherited'[file[k]][at[k] - 1])
    <2>1. at[k] \in 0..Depth /\ at[k] > 0 => at[k] - 1 \in 0..Depth
      BY JailerAssumption
    <2> QED BY <1>1, <2>1, Zenon DEF CgroupsReady
  <1>5. step[k] = "value" => inherited'[file[k]][Depth]
    BY <1>1, FilesInOrder, Zenon DEF CgroupsReady
  <1>6. step[k] \in InCgroups => 1..(file[k] - 1) \subseteq leaf'[Id(k)]
    BY <1>1, Zenon DEF CgroupsReady
  <1>7. step[k] \in InJail \cup {"attach"} => leaf'[Id(k)] = Files
    BY <1>1, Zenon DEF CgroupsReady
  <1>8. step[k] \in {"read", "read_again", "write"} => version = 1 /\ at[k] \in 1..Leaf
    BY <1>1, Zenon DEF CgroupsReady
  <1>9. CgroupsReady(k)' =
          /\ step'[k] \in {"read", "read_again", "write"} => version' = 1 /\ at'[k] \in 1..Leaf
          /\ step'[k] \in {"read_again", "write"} => inherited'[file'[k]][at'[k] - 1]
          /\ step'[k] = "subtree" => at'[k] \in 0..Depth /\ (at'[k] > 0 => inherited'[file'[k]][at'[k] - 1])
          /\ step'[k] = "value" => inherited'[file'[k]][Depth]
          /\ step'[k] \in InCgroups => 1..(file'[k] - 1) \subseteq leaf'[Id(k)']
          /\ step'[k] \in InJail \cup {"attach"} => leaf'[Id(k)'] = Files
    BY DEF CgroupsReady, Id, Leaf, InCgroups, InJail, Files
  <1> QED BY <1>1, <1>3, <1>4, <1>5, <1>6, <1>7, <1>8, <1>9, Zenon

\* A jailer that does not move is not disturbed in its jail by one that leaves what
\* it has made there.
LEMMA JailFrame ==
    ASSUME NEW k \in Jailers, JailReady(k), step'[k] = step[k], Id(k)' = Id(k),
           k \in tasks => k \in tasks', k \in chrooted => k \in chrooted', k \in running' => k \in running,
           leaf[Id(k)] = Files => leaf'[Id(k)] = Files,
           "tun" \in dir[Id(k)] => "tun" \in dir'[Id(k)], "kvm" \in dir[Id(k)] => "kvm" \in dir'[Id(k)],
           step[k] \in {"mknod_kvm", "exec", "save_pid"} => "pid" \notin dir'[Id(k)]
    PROVE  JailReady(k)'
  <1>1. /\ step[k] \in InJail => k \in tasks
        /\ step[k] \in {"mknod_tun", "mknod_kvm", "exec", "save_pid"} => k \in chrooted
        /\ step[k] \in {"mknod_kvm", "exec", "save_pid"} => "tun" \in dir[Id(k)]
        /\ step[k] \in {"exec", "save_pid"} => "kvm" \in dir[Id(k)]
        /\ k \in running => /\ step[k] \in {"save_pid", "done", "unsaved"} /\ k \in chrooted /\ k \in tasks
                            /\ leaf[Id(k)] = Files /\ "tun" \in dir[Id(k)] /\ "kvm" \in dir[Id(k)]
    BY Zenon DEF JailReady
  <1>2. /\ step[k] \in InJail => k \in tasks'
        /\ step[k] \in {"mknod_tun", "mknod_kvm", "exec", "save_pid"} => k \in chrooted'
        /\ step[k] \in {"mknod_kvm", "exec", "save_pid"} => "tun" \in dir'[Id(k)] /\ "pid" \notin dir'[Id(k)]
        /\ step[k] \in {"exec", "save_pid"} => "kvm" \in dir'[Id(k)]
        /\ k \in running' => /\ step[k] \in {"save_pid", "done", "unsaved"} /\ k \in chrooted' /\ k \in tasks'
                             /\ leaf'[Id(k)] = Files /\ {"tun", "kvm"} \subseteq dir'[Id(k)]
    BY <1>1, Zenon
  <1>3. JailReady(k)' =
          /\ step'[k] \in InJail => k \in tasks'
          /\ step'[k] \in {"mknod_tun", "mknod_kvm", "exec", "save_pid"} => k \in chrooted'
          /\ step'[k] \in {"mknod_kvm", "exec", "save_pid"} => "tun" \in dir'[Id(k)'] /\ "pid" \notin dir'[Id(k)']
          /\ step'[k] \in {"exec", "save_pid"} => "kvm" \in dir'[Id(k)']
          /\ k \in running' => /\ step'[k] \in {"save_pid", "done", "unsaved"} /\ k \in chrooted' /\ k \in tasks'
                               /\ leaf'[Id(k)'] = Files /\ {"tun", "kvm"} \subseteq dir'[Id(k)']
    BY SMTT(30) DEF JailReady, InJail, Files, Id
  <1> QED BY <1>2, <1>3, Zenon

\* What a step of a jailer on the cgroups has to show: it sets files, leaves the
\* jails alone, and prepares its own next step.
LEMMA CgroupStep ==
    ASSUME NEW j \in Jailers, JailerInv, dirUnchanged, UNCHANGED <<opt, version>>, JailerTypeOK',
           step[j] \in InCgroups \cup {"start", "attach"},
           step'[j] \in InCgroups \cup {"attach", "chroot", "failed"},
           \A k \in Jailers \ {j} : step'[k] = step[k] /\ file'[k] = file[k] /\ at'[k] = at[k],
           \A f \in Files, l \in 0..Depth : inherited[f][l] => inherited'[f][l],
           \A i \in Ids : leaf[i] \subseteq leaf'[i],
           tasks \subseteq tasks', step'[j] = "chroot" => j \in tasks',
           CgroupsReady(j)'
    PROVE  JailerInv'
  <1>0. \A k \in Jailers : Id(k) \in Ids /\ Id(k)' = Id(k)
    BY Zenon DEF JailerInv, Id
  <1>1. \A k \in Jailers \ {j} : CgroupsReady(k)'
    <2> SUFFICES ASSUME NEW k \in Jailers \ {j} PROVE CgroupsReady(k)'
      BY Zenon
    <2>1. leaf'[Id(k)] \subseteq Files
      BY <1>0, Zenon DEF JailerTypeOK
    <2> QED BY <1>0, <2>1, CgroupsFrame, Zenon
  <1>2. j \notin running
    BY Zenon DEF JailerInv, JailReady, InCgroups
  <1>3. \A k \in Jailers : Holds(k)' => Holds(k)
    BY <1>2, Zenon DEF Holds, dirUnchanged, InCgroups
  <1>4. \A k \in Jailers : leaf[Id(k)] = Files => leaf'[Id(k)] = Files
    BY <1>0, Zenon DEF JailerTypeOK
  <1>5. ASSUME NEW k \in Jailers \ {j} PROVE JailReady(k)'
    <2>1. JailReady(k) /\ Id(k)' = Id(k) /\ step'[k] = step[k] /\ (k \in tasks => k \in tasks')
          /\ (leaf[Id(k)] = Files => leaf'[Id(k)] = Files)
      BY <1>0, <1>4, Zenon DEF JailerInv
    <2>2. dir' = dir /\ chrooted' = chrooted /\ running' = running
      BY Zenon DEF dirUnchanged
    <2>3. step[k] \in {"mknod_kvm", "exec", "save_pid"} => "pid" \notin dir'[Id(k)]
      BY <2>1, <2>2, Zenon DEF JailReady
    <2> QED BY <2>1, <2>2, <2>3, JailFrame, Zenon
  <1>6. JailReady(j)'
    BY <1>2, Zenon DEF JailReady, dirUnchanged, InCgroups, InJail
  <1>7. version' = 1 => \A f \in Files : inherited'[f][0]
    BY JailerAssumption DEF JailerInv
  <1>8. \A k, m \in Jailers : (Holds(k) /\ Holds(m) /\ Id(k) = Id(m))' => k = m
    BY <1>0, <1>3 DEF JailerInv
  <1>9. \A k \in Jailers : (CgroupsReady(k) /\ JailReady(k))'
    BY <1>1, <1>5, <1>6
  <1>10. \A i \in Ids : "pid" \in dir'[i] => "tun" \in dir'[i]
    BY Zenon DEF JailerInv, dirUnchanged
  <1>11. (opt \in [Jailers -> [id : Ids, pidns : BOOLEAN]] /\ version \in {1, 2})'
    BY Zenon DEF JailerInv
  <1> QED BY <1>7, <1>8, <1>9, <1>10, <1>11 DEF JailerInv, Files

\* The type invariant after a jump of one jailer.
LEMMA JumpTypes ==
    ASSUME NEW j \in Jailers, JailerInv, dirUnchanged, NEW s, NEW f, NEW l, Jump(j, s, f, l),
           s \in InCgroups \cup {"attach", "chroot", "failed"}, f \in Files, l \in 0..Leaf,
           (inherited \in [Files -> [0..Depth -> BOOLEAN]] /\ leaf \in [Ids -> SUBSET Files]
             /\ tasks \subseteq Jailers)'
    PROVE  /\ JailerTypeOK' /\ step'[j] = s /\ file'[j] = f /\ at'[j] = l
           /\ \A k \in Jailers \ {j} : step'[k] = step[k] /\ file'[k] = file[k] /\ at'[k] = at[k]
  BY Zenon DEF JailerInv, JailerTypeOK, Jump, dirUnchanged, InCgroups, Files, Leaf

CgroupSteps == InCgroups \cup {"attach"}

\* Prepare and create_dir.
LEMMA PrepareKeepsInv ==
    ASSUME NEW j \in Jailers, JailerInv, Prepare(j) \/ create_dir(j)
    PROVE  JailerInv' /\ (step[j] \in CgroupSteps => step'[j] # "failed")
  <1>0. /\ file[j] \in Files /\ at[j] \in 0..Leaf /\ Leaf \in 0..Leaf /\ 0 \in 0..Depth /\ Depth \in Nat
        /\ CgroupsReady(j) /\ Id(j) \in Ids
    BY JailerAssumption DEF JailerInv, JailerTypeOK, Leaf, Id
  <1>1. UNCHANGED <<opt, version, inherited, leaf, tasks>> /\ dirUnchanged
    BY Zenon DEF Prepare, create_dir, cgUnchanged
  <1>2. (inherited \in [Files -> [0..Depth -> BOOLEAN]] /\ leaf \in [Ids -> SUBSET Files]
          /\ tasks \subseteq Jailers)'
    BY <1>1, Zenon DEF JailerInv, JailerTypeOK, Files
  <1>3. CASE Prepare(j)
    <2>1. PICK s \in {"failed", "create_dir"} : Jump(j, s, 1, Leaf)
      BY <1>3, Zenon DEF Prepare
    <2>2. /\ JailerTypeOK' /\ step'[j] = s /\ file'[j] = 1 /\ at'[j] = Leaf
          /\ \A k \in Jailers \ {j} : step'[k] = step[k] /\ file'[k] = file[k] /\ at'[k] = at[k]
      BY <1>0, <1>1, <1>2, <2>1, JumpTypes, FilesInOrder, Zenon DEF InCgroups
    <2>3. CgroupsReady(j)'
      BY <2>2, FilesInOrder DEF CgroupsReady, InJail
    <2>4. step[j] = "start"
      BY <1>3, Zenon DEF Prepare
    <2> QED BY <1>1, <2>2, <2>3, <2>4, CgroupStep, Zenon DEF InCgroups, CgroupSteps
  <1>4. CASE create_dir(j)
    <2> DEFINE s == IF version = 1 THEN "read" ELSE "subtree"
               l == IF version = 1 THEN Leaf ELSE 0
    <2>1. Jump(j, s, file[j], l) /\ step[j] = "create_dir"
      BY <1>4, Zenon DEF create_dir, FirstLevel
    <2>2. /\ JailerTypeOK' /\ step'[j] = s /\ file'[j] = file[j] /\ at'[j] = l
          /\ \A k \in Jailers \ {j} : step'[k] = step[k] /\ file'[k] = file[k] /\ at'[k] = at[k]
      <3>1. l \in 0..Leaf /\ s \in InCgroups
        BY <1>0, SMTT(30) DEF Leaf, InCgroups
      <3> HIDE DEF s, l
      <3> QED BY <1>0, <1>1, <1>2, <2>1, <3>1, JumpTypes, Zenon
    <2>3. CgroupsReady(j)'
      <3>1. 1..(file[j] - 1) \subseteq leaf[Id(j)]
        BY <1>0, <2>1 DEF CgroupsReady, InCgroups
      <3>2. Id(j)' = Id(j) /\ Leaf' = Leaf
        BY <1>1, ZenonT(40) DEF Id, Leaf
      <3> QED BY <1>0, <1>1, <2>2, <3>1, <3>2, FilesInOrder DEF CgroupsReady, InJail
    <2> QED BY <1>1, <2>1, <2>2, <2>3, CgroupStep, Zenon DEF InCgroups, CgroupSteps
  <1> QED BY <1>3, <1>4, Zenon

\* A jump on the cgroups, with what its target needs.
LEMMA CgroupMove ==
    ASSUME NEW j \in Jailers, JailerInv, dirUnchanged, UNCHANGED <<opt, version>>,
           NEW s, NEW f, NEW l, Jump(j, s, f, l), step[j] \in CgroupSteps,
           s \in InCgroups \cup {"attach", "chroot"}, f \in Files, l \in 0..Leaf,
           (inherited \in [Files -> [0..Depth -> BOOLEAN]] /\ leaf \in [Ids -> SUBSET Files]
             /\ tasks \subseteq Jailers)',
           \A g \in Files, m \in 0..Depth : inherited[g][m] => inherited'[g][m],
           \A i \in Ids : leaf[i] \subseteq leaf'[i],
           tasks \subseteq tasks', s = "chroot" => j \in tasks',
           s \in {"read", "read_again", "write"} => version = 1 /\ l \in 1..Leaf,
           s \in {"read_again", "write"} => inherited'[f][l - 1],
           s = "subtree" => l \in 0..Depth /\ (l > 0 => inherited'[f][l - 1]),
           s = "value" => inherited'[f][Depth],
           s \in InCgroups => 1..(f - 1) \subseteq leaf'[Id(j)],
           s \in {"attach", "chroot"} => leaf'[Id(j)] = Files
    PROVE  JailerInv' /\ step'[j] # "failed"
  <1>1. /\ JailerTypeOK' /\ step'[j] = s /\ file'[j] = f /\ at'[j] = l
        /\ \A k \in Jailers \ {j} : step'[k] = step[k] /\ file'[k] = file[k] /\ at'[k] = at[k]
    BY JumpTypes, Zenon
  <1>2. CgroupsReady(j)'
    <2>1. Id(j)' = Id(j) /\ Leaf' = Leaf
      BY Zenon DEF Id, Leaf
    <2> QED BY <1>1, <2>1, Zenon DEF CgroupsReady, InJail, InCgroups, Files
  <1>3. s # "failed"
    BY Zenon DEF InCgroups
  <1> QED BY <1>1, <1>2, <1>3, CgroupStep DEF CgroupSteps

\* A step that only moves the program counter.
LEMMA GoToIsJump ==
    ASSUME NEW j \in Jailers, JailerInv, NEW s, GoTo(j, s), UNCHANGED <<file, at>>
    PROVE  Jump(j, s, file[j], at[j])
  BY Zenon DEF JailerInv, JailerTypeOK, GoTo, Jump

\* Setting a file of one level keeps what is set.
LEMMA SetLevel ==
    ASSUME NEW F, NEW L, NEW h \in [F -> [L -> BOOLEAN]], NEW f \in F, NEW l \in L,
           NEW h2, h2 = [h EXCEPT ![f][l] = TRUE]
    PROVE  h2 \in [F -> [L -> BOOLEAN]] /\ h2[f][l] /\ \A g \in F, m \in L : h[g][m] => h2[g][m]
  <1> DEFINE r == [h[f] EXCEPT ![l] = TRUE]
  <1>1. r \in [L -> BOOLEAN] /\ r[l] /\ \A m \in L : h[f][m] => r[m]
    BY Zenon
  <1>2. h2 = [h EXCEPT ![f] = r]
    BY Zenon
  <1> HIDE DEF r
  <1>3. h2 \in [F -> [L -> BOOLEAN]] /\ h2[f] = r /\ \A g \in F \ {f} : h2[g] = h[g]
    BY <1>1, <1>2, Zenon
  <1> QED BY <1>1, <1>3, Zenon

\* inherit_from_parent_aux goes up to a level that is set and comes back.
LEMMA InheritKeepsInv ==
    ASSUME NEW j \in Jailers, JailerInv, ReadParent(j) \/ ReadAgain(j) \/ WriteLevel(j)
    PROVE  JailerInv' /\ step'[j] # "failed"
  <1> DEFINE f == file[j]
             l == at[j]
  <1>0. /\ f \in Files /\ Id(j) \in Ids /\ Depth \in Nat /\ Leaf = Depth + 1
        /\ step[j] \in {"read", "read_again", "write"} /\ step[j] \in CgroupSteps
        /\ version = 1 /\ l \in 1..Leaf /\ inherited[f][0]
        /\ 1..(f - 1) \subseteq leaf[Id(j)]
        /\ step[j] \in {"read_again", "write"} => inherited[f][l - 1]
    <2>1. step[j] \in {"read", "read_again", "write"}
      BY Zenon DEF ReadParent, ReadAgain, WriteLevel
    <2> QED BY <2>1, JailerAssumption, Zenon DEF JailerInv, JailerTypeOK, Leaf, Id, CgroupsReady,
               InCgroups, CgroupSteps
  <1>1. dirUnchanged /\ UNCHANGED <<opt, version, tasks>>
    BY Zenon DEF ReadParent, ReadAgain, WriteLevel, cgUnchanged
  <1>2. /\ inherited \in [Files -> [0..Depth -> BOOLEAN]] /\ leaf \in [Ids -> SUBSET Files]
        /\ tasks \subseteq Jailers /\ tasks' \subseteq Jailers
    BY <1>1, Zenon DEF JailerInv, JailerTypeOK
  <1>3. ASSUME NEW s \in {"read", "write", "read_again", "value"}, NEW m \in 0..Leaf, Jump(j, s, f, m),
               UNCHANGED <<inherited, leaf>>,
               s # "value" => m \in 1..Leaf, s \in {"read_again", "write"} => inherited[f][m - 1],
               s = "value" => inherited[f][Depth]
        PROVE  JailerInv' /\ step'[j] # "failed"
    <2>1. s \in InCgroups /\ s \notin {"attach", "chroot", "subtree"}
      BY Zenon DEF InCgroups
    <2> HIDE DEF f, l
    <2> QED BY <1>0, <1>1, <1>2, <1>3, <2>1, CgroupMove DEF f, Files
  <1>4. CASE ReadParent(j)
    <2>1. UNCHANGED <<inherited, leaf>> /\ step[j] = "read"
      BY <1>4 DEF ReadParent, cgUnchanged
    <2>2. CASE inherited[f][l - 1]
      <3>1. Jump(j, "write", f, l)
        BY <1>4, <2>2, GoToIsJump, ZenonT(40) DEF ReadParent, ParentSet
      <3>2. l \in 0..Leaf
        BY <1>0, SMTT(30)
      <3> HIDE DEF f, l
      <3> QED BY <1>0, <1>3, <2>1, <2>2, <3>1, <3>2
    <2>3. CASE ~inherited[f][l - 1]
      <3>1. l # 1
        BY <1>0, <2>3
      <3>2. retry_left(l) /\ l - 1 \in 1..Leaf /\ l - 1 \in 0..Leaf
        BY <1>0, <3>1, SMTT(30) DEF retry_left, cg_parent_depth
      <3>3. Jump(j, "read", f, l - 1)
        BY <1>4, <2>3, <3>2 DEF ReadParent, ParentSet
      <3> HIDE DEF f, l
      <3> QED BY <1>3, <2>1, <3>2, <3>3, SMTT(30)
    <2> QED BY <2>2, <2>3
  <1>5. CASE ReadAgain(j)
    <2>1. UNCHANGED <<inherited, leaf>> /\ step[j] = "read_again"
      BY <1>5, Zenon DEF ReadAgain, cgUnchanged
    <2>2. inherited[f][l - 1] /\ l \in 0..Leaf
      BY <1>0, <2>1, SMTT(30)
    <2>3. Jump(j, "write", f, l)
      BY <1>5, <2>2, GoToIsJump DEF ReadAgain, ParentSet
    <2> HIDE DEF f, l
    <2> QED BY <1>0, <1>3, <2>1, <2>2, <2>3, Zenon
  <1>6. CASE WriteLevel(j)
    <2>0. step[j] = "write" /\ inherited[f][l - 1]
      BY <1>0, <1>6, ZenonT(40) DEF WriteLevel
    <2>1. CASE l = Leaf
      <3>1. Jump(j, "value", f, Leaf) /\ leaf' = [leaf EXCEPT ![Id(j)] = @ \cup {f}] /\ UNCHANGED inherited
        BY <1>0, <1>6, <2>1, SMTT(30) DEF WriteLevel, Return
      <3>2. /\ leaf' \in [Ids -> SUBSET Files] /\ \A i \in Ids : leaf[i] \subseteq leaf'[i]
            /\ 1..(f - 1) \subseteq leaf'[Id(j)]
        BY <1>0, <1>2, <3>1, SMTT(30)
      <3>3. Leaf - 1 = Depth /\ Leaf \in 0..Leaf /\ "value" \in InCgroups
        BY <1>0, SMTT(30) DEF InCgroups
      <3>4. inherited'[f][Depth] /\ inherited' = inherited
        BY <2>0, <2>1, <3>1, <3>3, SMTT(30)
      <3> HIDE DEF f, l
      <3> QED BY <1>0, <1>1, <1>2, <3>1, <3>2, <3>3, <3>4, CgroupMove, SMTT(30) DEF f, Files
    <2>2. CASE l # Leaf
      <3>1. Jump(j, "read_again", f, l + 1) /\ leaf' = leaf
        BY <1>6, <2>2 DEF WriteLevel, Return
      <3>2. l \in 0..Depth /\ l + 1 \in 1..Leaf /\ l + 1 \in 0..Leaf /\ (l + 1) - 1 = l
        BY <1>0, <2>2
      <3>3. \/ inherited' = [inherited EXCEPT ![f][l] = TRUE]
            \/ inherited' = inherited /\ inherited[f][l]
        BY <1>6, <2>2, Zenon DEF WriteLevel
      <3> HIDE DEF f, l
      <3>4. /\ inherited' \in [Files -> [0..Depth -> BOOLEAN]] /\ inherited'[f][l]
            /\ \A g \in Files, m \in 0..Depth : inherited[g][m] => inherited'[g][m]
        <4>1. CASE inherited' = [inherited EXCEPT ![f][l] = TRUE]
          BY <1>0, <1>2, <3>2, <4>1, SetLevel
        <4>2. CASE inherited' = inherited /\ inherited[f][l]
          BY <1>2, <4>2, Zenon
        <4> QED BY <3>3, <4>1, <4>2, Zenon
      <3>5. "read_again" \in InCgroups
        BY Zenon DEF InCgroups
      <3> QED BY <1>0, <1>1, <1>2, <3>1, <3>2, <3>4, <3>5, CgroupMove, SMTT(30) DEF f, Files
    <2> QED BY <2>1, <2>2
  <1> QED BY <1>4, <1>5, <1>6, Zenon

\* write_all_subtree_control enables a controller from the mount point down.
LEMMA SubtreeKeepsInv ==
    ASSUME NEW j \in Jailers, JailerInv, WriteSubtree(j)
    PROVE  JailerInv' /\ step'[j] # "failed"
  <1> DEFINE f == file[j]
             l == at[j]
  <1>0. /\ f \in Files /\ Id(j) \in Ids /\ Depth \in Nat /\ Leaf = Depth + 1
        /\ step[j] = "subtree" /\ step[j] \in CgroupSteps
        /\ l \in 0..Depth /\ (l > 0 => inherited[f][l - 1])
        /\ 1..(f - 1) \subseteq leaf[Id(j)]
    <2>1. step[j] = "subtree"
      BY Zenon DEF WriteSubtree
    <2> QED BY <2>1, JailerAssumption, Zenon DEF JailerInv, JailerTypeOK, Leaf, Id, CgroupsReady,
               InCgroups, CgroupSteps
  <1>1. dirUnchanged /\ UNCHANGED <<opt, version, leaf, tasks>>
    BY Zenon DEF WriteSubtree
  <1>2. /\ inherited \in [Files -> [0..Depth -> BOOLEAN]] /\ leaf' \in [Ids -> SUBSET Files]
        /\ tasks' \subseteq Jailers
    BY <1>1, ZenonT(40) DEF JailerInv, JailerTypeOK
  <1>3. /\ inherited' = [inherited EXCEPT ![f][l] = TRUE]
        /\ IF l < Depth THEN Jump(j, "subtree", f, l + 1) ELSE Jump(j, "value", f, Leaf)
    BY <1>0 DEF WriteSubtree, LastSubtree
  <1> HIDE DEF f, l
  <1>4. /\ inherited' \in [Files -> [0..Depth -> BOOLEAN]] /\ inherited'[f][l]
        /\ \A g \in Files, m \in 0..Depth : inherited[g][m] => inherited'[g][m]
    BY <1>0, <1>2, <1>3, SetLevel, ZenonT(40)
  <1>5. "subtree" \in InCgroups /\ "value" \in InCgroups
    BY DEF InCgroups
  <1>6. CASE l < Depth
    <2>1. l + 1 \in 0..Depth /\ l + 1 \in 0..Leaf /\ (l + 1) - 1 = l
      BY <1>0, <1>6
    <2> QED BY <1>0, <1>1, <1>2, <1>3, <1>4, <1>5, <1>6, <2>1, CgroupMove, ZenonT(40) DEF Files
  <1>7. CASE ~ (l < Depth)
    <2>1. l = Depth /\ Leaf \in 0..Leaf
      BY <1>0, <1>7
    <2> QED BY <1>0, <1>1, <1>2, <1>3, <1>4, <1>5, <1>7, <2>1, CgroupMove DEF Files
  <1> QED BY <1>6, <1>7, Zenon

\* The value of each file is written in its turn, and then the task attached.
LEMMA ValueKeepsInv ==
    ASSUME NEW j \in Jailers, JailerInv, WriteValue(j) \/ attach_pid(j)
    PROVE  JailerInv' /\ step'[j] # "failed"
  <1> DEFINE f == file[j]
  <1>0. /\ f \in Files /\ Id(j) \in Ids /\ Leaf \in 0..Leaf /\ at[j] \in 0..Leaf
        /\ step[j] \in {"value", "attach"} /\ step[j] \in CgroupSteps /\ CgroupsReady(j)
    <2>1. step[j] \in {"value", "attach"}
      BY Zenon DEF WriteValue, attach_pid
    <2> QED BY <2>1, JailerAssumption DEF JailerInv, JailerTypeOK, Leaf, Id, InCgroups, CgroupSteps
  <1>1. dirUnchanged /\ UNCHANGED <<opt, version, inherited>>
    BY Zenon DEF WriteValue, attach_pid
  <1>2. /\ inherited' \in [Files -> [0..Depth -> BOOLEAN]] /\ leaf \in [Ids -> SUBSET Files]
        /\ tasks \subseteq Jailers
    BY <1>1, Zenon DEF JailerInv, JailerTypeOK
  <1>3. CASE WriteValue(j)
    <2>1. step[j] = "value" /\ tasks' = tasks
      BY <1>3, SMTT(30) DEF WriteValue
    <2>2. inherited[f][Depth] /\ 1..(f - 1) \subseteq leaf[Id(j)]
      BY <1>0, <2>1, SMTT(30) DEF CgroupsReady, InCgroups
    <2>3. /\ leaf' = [leaf EXCEPT ![Id(j)] = @ \cup {f}]
          /\ Jump(j, after_value(f), IF f + 1 \in Files THEN f + 1 ELSE 1, Leaf)
      BY <1>3, <2>2, SMTT(30) DEF WriteValue
    <2> HIDE DEF f
    <2>4. /\ leaf' \in [Ids -> SUBSET Files] /\ \A i \in Ids : leaf[i] \subseteq leaf'[i]
          /\ 1..(f - 1) \cup {f} \subseteq leaf'[Id(j)] /\ leaf'[Id(j)] \subseteq Files
      BY <1>0, <1>2, <2>2, <2>3, SMTT(30)
    <2>5. CASE f + 1 \in Files
      <3>1. Jump(j, "create_dir", f + 1, Leaf)
        BY <2>3, <2>5, Zenon DEF after_value
      <3>2. 1..(f + 1 - 1) \subseteq leaf'[Id(j)] /\ "create_dir" \in InCgroups
        BY <1>0, <2>4, FilesInOrder, ZenonT(40) DEF InCgroups
      <3> QED BY <1>0, <1>1, <1>2, <2>1, <2>4, <2>5, <3>1, <3>2, CgroupMove, SMTT(60) DEF Files
    <2>6. CASE f + 1 \notin Files
      <3>1. Jump(j, "attach", 1, Leaf)
        BY <2>3, <2>6 DEF after_value
      <3>2. leaf'[Id(j)] = Files /\ 1 \in Files /\ "attach" \notin InCgroups
        <4>1. 1..(f - 1) \cup {f} = Files /\ 1 \in Files
          BY <1>0, <2>6, FilesInOrder, Zenon
        <4> QED BY <2>4, <4>1, ZenonT(40) DEF InCgroups
      <3> QED BY <1>0, <1>1, <1>2, <2>1, <2>4, <3>1, <3>2, CgroupMove, SMTT(30) DEF Files
    <2> QED BY <2>5, <2>6, ZenonT(40)
  <1>4. CASE attach_pid(j)
    <2>1. step[j] = "attach" /\ leaf[Id(j)] = Files
      BY <1>0, <1>4, ZenonT(40) DEF attach_pid, CgroupsReady
    <2>2. Jump(j, "chroot", f, at[j]) /\ tasks' = tasks \cup {j} /\ leaf' = leaf
      BY <1>4, <2>1, GoToIsJump, SMTT(30) DEF attach_pid
    <2>3. tasks' \subseteq Jailers /\ "chroot" \notin InCgroups
      BY <1>2, <2>2, SMTT(30) DEF InCgroups
    <2> HIDE DEF f
    <2> QED BY <1>0, <1>1, <1>2, <2>1, <2>2, <2>3, CgroupMove, Zenon DEF Files
  <1> QED BY <1>3, <1>4, Zenon

\* Steps in the jail change no cgroup.
LEMMA JailMove ==
    ASSUME NEW j \in Jailers, JailerInv, NEW s \in InJail \cup {"done", "unsaved", "failed"}, GoTo(j, s),
           cgUnchanged, UNCHANGED <<opt, version, file, at>>, step[j] \in InJail
    PROVE  /\ \A k \in Jailers : CgroupsReady(k)' /\ Id(k)' = Id(k) /\ Id(k) \in Ids
           /\ step'[j] = s /\ \A k \in Jailers \ {j} : step'[k] = step[k]
           /\ \A i \in Ids : dir[i] \subseteq {"old_root", "tun", "kvm", "pid"}
           /\ dir' \in [Ids -> SUBSET {"old_root", "tun", "kvm", "pid"}] /\ chrooted' \subseteq Jailers
                /\ running' \subseteq Jailers => JailerTypeOK'
  <1>1. \A k \in Jailers : Id(k)' = Id(k) /\ Id(k) \in Ids
    BY Zenon DEF JailerInv, Id
  <1>2. step'[j] = s /\ \A k \in Jailers \ {j} : step'[k] = step[k]
    BY Zenon DEF JailerInv, JailerTypeOK, GoTo
  <1>3. \A k \in Jailers \ {j} : CgroupsReady(k)'
    <2> SUFFICES ASSUME NEW k \in Jailers \ {j} PROVE CgroupsReady(k)'
      BY Zenon
    <2>1. leaf'[Id(k)] \subseteq Files /\ leaf'[Id(k)] = leaf[Id(k)] /\ inherited' = inherited
      BY <1>1, ZenonT(40) DEF JailerInv, JailerTypeOK, cgUnchanged
    <2> QED BY <1>1, <1>2, <2>1, CgroupsFrame, Zenon
  <1>4. CgroupsReady(j)'
    <2>1. leaf[Id(j)] = Files
      BY Zenon DEF JailerInv, CgroupsReady
    <2> QED BY <1>1, <1>2, <2>1, ZenonT(40) DEF CgroupsReady, InCgroups, InJail, cgUnchanged, Files
  <1>5. /\ dir' \in [Ids -> SUBSET {"old_root", "tun", "kvm", "pid"}] /\ chrooted' \subseteq Jailers
             /\ running' \subseteq Jailers => JailerTypeOK'
    BY DEF JailerInv, JailerTypeOK, GoTo, cgUnchanged, InJail, Files, Leaf
  <1> QED BY <1>1, <1>2, <1>3, <1>4, <1>5 DEF JailerInv, JailerTypeOK

\* What is left to show of a step in the jail.
LEMMA JailStep ==
    ASSUME NEW j \in Jailers, JailerInv, NEW s \in InJail \cup {"done", "unsaved", "failed"}, GoTo(j, s),
           cgUnchanged, UNCHANGED <<opt, version, file, at>>, step[j] \in InJail,
           dir' \in [Ids -> SUBSET {"old_root", "tun", "kvm", "pid"}], chrooted' \subseteq Jailers,
           running' \subseteq Jailers,
           \A k \in Jailers : JailReady(k)',
           \A i \in Ids : "pid" \in dir'[i] => "tun" \in dir'[i],
           \A k \in Jailers \ {j} : Holds(k)' => Holds(k),
           Holds(j)' => Holds(j) \/ \A k \in Jailers \ {j} : Holds(k) => Id(k) # Id(j)
    PROVE  JailerInv'
  <1>1. JailerTypeOK' /\ \A k \in Jailers : CgroupsReady(k)' /\ Id(k)' = Id(k)
    BY JailMove, ZenonT(40)
  <1>2. \A k, m \in Jailers : (Holds(k) /\ Holds(m) /\ Id(k) = Id(m))' => k = m
    BY <1>1, Zenon DEF JailerInv
  <1>3. version' = 1 => \A f \in Files : inherited'[f][0]
    BY Zenon DEF JailerInv, cgUnchanged
  <1>4. (opt \in [Jailers -> [id : Ids, pidns : BOOLEAN]] /\ version \in {1, 2})'
    BY Zenon DEF JailerInv
  <1> QED BY <1>1, <1>2, <1>3, <1>4, ZenonT(40) DEF JailerInv, Files

\* The root of the jail is made and entered.
LEMMA ChrootKeepsInv ==
    ASSUME NEW j \in Jailers, JailerInv, mkdir_old_root(j) \/ pivot_root(j)
    PROVE  JailerInv'
  <1>0. PICK s \in {"pivot", "mknod_tun", "failed"} :
          GoTo(j, s) /\ (s = "mknod_tun" => j \in chrooted')
    BY Zenon DEF mkdir_old_root, pivot_root, CreateNew, chroot_failed
  <1>1. /\ cgUnchanged /\ UNCHANGED <<opt, version, file, at, running>> /\ step[j] \in {"chroot", "pivot"}
        /\ chrooted \subseteq chrooted' /\ chrooted' \subseteq chrooted \cup {j}
        /\ \/ dir' = dir \/ dir' = [dir EXCEPT ![Id(j)] = @ \cup {"old_root"}]
           \/ dir' = [dir EXCEPT ![Id(j)] = @ \ {"old_root"}]
    BY Zenon DEF mkdir_old_root, pivot_root, CreateNew
  <1>2. /\ dir \in [Ids -> SUBSET {"old_root", "tun", "kvm", "pid"}] /\ chrooted \subseteq Jailers
        /\ running \subseteq Jailers /\ Id(j) \in Ids
    BY Zenon DEF JailerInv, JailerTypeOK, Id
  <1>3. /\ dir' \in [Ids -> SUBSET {"old_root", "tun", "kvm", "pid"}]
        /\ \A i \in Ids, e \in {"tun", "kvm", "pid"} : e \in dir'[i] <=> e \in dir[i]
    BY <1>1, <1>2
  <1>4. s \in InJail \cup {"done", "unsaved", "failed"} /\ step[j] \in InJail
    BY <1>1, ZenonT(40) DEF InJail
  <1>5. /\ \A k \in Jailers : Id(k)' = Id(k) /\ Id(k) \in Ids
        /\ step'[j] = s /\ \A k \in Jailers \ {j} : step'[k] = step[k]
    <2>1. cgUnchanged /\ UNCHANGED <<opt, version, file, at>> /\ GoTo(j, s)
      BY <1>0, <1>1, Zenon
    <2> QED BY <1>4, <2>1, JailMove, ZenonT(40)
  <1>6. j \notin running /\ j \in tasks
    BY <1>1 DEF JailerInv, JailReady, InJail
  <1>7. ASSUME NEW k \in Jailers \ {j} PROVE JailReady(k)'
    <2>1. JailReady(k) /\ Id(k)' = Id(k) /\ Id(k) \in Ids /\ step'[k] = step[k]
      BY <1>5, Zenon DEF JailerInv
    <2>2. tasks' = tasks /\ leaf' = leaf /\ (k \in chrooted => k \in chrooted') /\ running' = running
      BY <1>1, Zenon DEF cgUnchanged
    <2>3. \A e \in {"tun", "kvm", "pid"} : e \in dir'[Id(k)] <=> e \in dir[Id(k)]
      BY <1>3, <2>1, Zenon
    <2>4. step[k] \in {"mknod_kvm", "exec", "save_pid"} => "pid" \notin dir'[Id(k)]
      BY <2>1, <2>3, Zenon DEF JailReady
    <2>5. ("tun" \in dir[Id(k)] => "tun" \in dir'[Id(k)]) /\ ("kvm" \in dir[Id(k)] => "kvm" \in dir'[Id(k)])
      BY <2>3, Zenon
    <2> QED BY <2>1, <2>2, <2>4, <2>5, JailFrame, Zenon
  <1>8. JailReady(j)'
    BY <1>0, <1>1, <1>5, <1>6, Zenon DEF JailReady, cgUnchanged
  <1>9. \A k \in Jailers : Holds(k)' => Holds(k)
    BY <1>1, <1>5, <1>6, SMTT(30) DEF Holds
  <1>10. \A i \in Ids : "pid" \in dir'[i] => "tun" \in dir'[i]
    BY <1>3 DEF JailerInv
  <1>11. chrooted' \subseteq Jailers /\ running' \subseteq Jailers
    BY <1>1, <1>2, Zenon
  <1>12. \A k \in Jailers : JailReady(k)'
    BY <1>7, <1>8, ZenonT(40)
  <1> QED BY <1>0, <1>1, <1>3, <1>4, <1>9, <1>10, <1>11, <1>12, JailStep

\* Device nodes are created once: the jailer that creates the first one holds the
\* jail.
LEMMA MknodKeepsInv ==
    ASSUME NEW j \in Jailers, JailerInv, MknodTun(j) \/ MknodKvm(j)
    PROVE  JailerInv'
  <1> DEFINE dev == IF step[j] = "mknod_tun" THEN "tun" ELSE "kvm"
             next == IF step[j] = "mknod_tun" THEN "mknod_kvm" ELSE "exec"
             Entries == {"old_root", "tun", "kvm", "pid"}
  <1>1. /\ cgUnchanged /\ UNCHANGED <<opt, version, file, at>> /\ UNCHANGED <<chrooted, running>>
        /\ step[j] \in {"mknod_tun", "mknod_kvm"}
        /\ IF dev \in dir[Id(j)] THEN GoTo(j, "failed") /\ dir' = dir
           ELSE GoTo(j, next) /\ dir' = [dir EXCEPT ![Id(j)] = @ \cup {dev}]
    BY Zenon DEF MknodTun, MknodKvm, mknod_and_own_dev, CreateNew
  <1>2. /\ dir \in [Ids -> SUBSET Entries] /\ chrooted' \subseteq Jailers /\ running' \subseteq Jailers
        /\ Id(j) \in Ids /\ step[j] \in InJail /\ JailReady(j)
        /\ \A i \in Ids : "pid" \in dir[i] => "tun" \in dir[i]
    BY <1>1, SMTT(30) DEF JailerInv, JailerTypeOK, Id, InJail
  <1>3. j \notin running /\ j \in tasks /\ j \in chrooted
        /\ (step[j] = "mknod_kvm" => "tun" \in dir[Id(j)] /\ "pid" \notin dir[Id(j)])
    BY <1>1, <1>2 DEF JailReady, InJail
  <1>4. CASE dev \in dir[Id(j)]
    <2>1. GoTo(j, "failed") /\ dir' = dir
      BY <1>1, <1>4
    <2>2. /\ \A k \in Jailers : Id(k)' = Id(k) /\ Id(k) \in Ids
          /\ step'[j] = "failed" /\ \A k \in Jailers \ {j} : step'[k] = step[k]
      BY <1>1, <1>2, <2>1, JailMove, ZenonT(40)
    <2>3. ASSUME NEW k \in Jailers PROVE JailReady(k)'
      <3>1. tasks' = tasks /\ leaf' = leaf /\ chrooted' = chrooted /\ running' = running /\ JailReady(k)
        BY <1>1, Zenon DEF cgUnchanged, JailerInv
      <3>2. CASE k = j
        BY <1>3, <2>2, <3>1, <3>2, Zenon DEF JailReady, InJail
      <3>3. CASE k # j
        <4>1. step[k] \in {"mknod_kvm", "exec", "save_pid"} => "pid" \notin dir'[Id(k)]
          BY <2>1, <3>1, Zenon DEF JailReady
        <4>2. step'[k] = step[k] /\ Id(k)' = Id(k)
          BY <2>2, <3>3, Zenon
        <4> QED BY <2>1, <3>1, <4>1, <4>2, JailFrame, Zenon
      <3> QED BY <3>2, <3>3, Zenon
    <2>4. \A k \in Jailers : Holds(k)' => Holds(k)
      BY <1>1, <1>3, <2>2, SMTT(30) DEF Holds
    <2> QED BY <1>1, <1>2, <2>1, <2>3, <2>4, JailStep, ZenonT(40)
  <1>5. CASE dev \notin dir[Id(j)]
    <2>1. GoTo(j, next) /\ dir' = [dir EXCEPT ![Id(j)] = @ \cup {dev}]
      BY <1>1, <1>5, Zenon
    <2>2. next \in InJail \cup {"done", "unsaved", "failed"} /\ dev \in {"tun", "kvm"}
      BY Zenon DEF InJail
    <2>3. /\ dir' \in [Ids -> SUBSET Entries] /\ dev \in dir'[Id(j)]
          /\ \A i \in Ids : dir[i] \subseteq dir'[i] /\ ("pid" \in dir'[i] => "pid" \in dir[i])
      BY <1>2, <2>1, <2>2
    <2>4. /\ \A k \in Jailers : Id(k)' = Id(k) /\ Id(k) \in Ids
          /\ step'[j] = next /\ \A k \in Jailers \ {j} : step'[k] = step[k]
      BY <1>1, <1>2, <2>1, <2>2, JailMove, ZenonT(40)
    <2>5. ASSUME NEW k \in Jailers \ {j} PROVE JailReady(k)'
      <3>1. tasks' = tasks /\ leaf' = leaf /\ chrooted' = chrooted /\ running' = running /\ JailReady(k)
        BY <1>1, Zenon DEF cgUnchanged, JailerInv
      <3>2. step'[k] = step[k] /\ Id(k)' = Id(k) /\ Id(k) \in Ids
        BY <2>4, Zenon
      <3>3. ("tun" \in dir[Id(k)] => "tun" \in dir'[Id(k)]) /\ ("kvm" \in dir[Id(k)] => "kvm" \in dir'[Id(k)])
        BY <2>3, <3>2, Zenon
      <3>4. step[k] \in {"mknod_kvm", "exec", "save_pid"} => "pid" \notin dir'[Id(k)]
        BY <2>3, <3>1, <3>2, Zenon DEF JailReady
      <3> QED BY <3>1, <3>2, <3>3, <3>4, JailFrame, Zenon
    <2>6. "tun" \in dir'[Id(j)] /\ "pid" \notin dir'[Id(j)] /\ (next = "exec" => "kvm" \in dir'[Id(j)])
      BY <1>1, <1>2, <1>3, <1>5, <2>3, ZenonT(30)
    <2>7. JailReady(j)'
      BY <1>1, <1>3, <2>4, <2>6 DEF JailReady, cgUnchanged
    <2>8. \A k \in Jailers : JailReady(k)'
      BY <2>5, <2>7, Zenon
    <2>9. \A k \in Jailers \ {j} : Holds(k)' => Holds(k)
      BY <1>1, <2>4, Zenon DEF Holds
    <2>10. Holds(j) \/ \A k \in Jailers \ {j} : Holds(k) => Id(k) # Id(j)
      <3>1. CASE step[j] = "mknod_kvm"
        BY <3>1, Zenon DEF Holds
      <3>2. CASE step[j] = "mknod_tun"
        <4>1. "tun" \notin dir[Id(j)]
          BY <1>5, <3>2, SMTT(30)
        <4>2. \A k \in Jailers : Holds(k) => "tun" \in dir[Id(k)]
          BY DEF JailerInv, JailReady, Holds
        <4> QED BY <4>1, <4>2, ZenonT(40)
      <3> QED BY <1>1, <3>1, <3>2
    <2>11. \A i \in Ids : "pid" \in dir'[i] => "tun" \in dir'[i]
      BY <1>2, <2>3, Zenon
    <2> HIDE DEF dev, next
    <2> QED BY <1>1, <1>2, <2>1, <2>2, <2>3, <2>8, <2>9, <2>10, <2>11, JailStep, SMTT(30)
  <1> QED BY <1>4, <1>5

\* Firecracker is started, and its pid saved.
LEMMA ExecKeepsInv ==
    ASSUME NEW j \in Jailers, JailerInv, Exec(j) \/ save_exec_file_pid(j)
    PROVE  JailerInv'
  <1>0. step[j] \in {"exec", "save_pid"} /\ cgUnchanged /\ UNCHANGED <<opt, version, file, at>>
        /\ UNCHANGED chrooted
    BY Zenon DEF Exec, save_exec_file_pid
  <1>1. /\ step[j] \in InJail /\ JailReady(j) /\ Holds(j) /\ Id(j) \in Ids /\ leaf[Id(j)] = Files
        /\ dir \in [Ids -> SUBSET {"old_root", "tun", "kvm", "pid"}] /\ chrooted' \subseteq Jailers
        /\ running \subseteq Jailers
    BY <1>0, Zenon DEF JailerInv, JailerTypeOK, Holds, InJail, Id, CgroupsReady
  <1>2. /\ j \in tasks /\ j \in chrooted /\ {"tun", "kvm"} \subseteq dir[Id(j)] /\ "pid" \notin dir[Id(j)]
    BY <1>0, <1>1, ZenonT(40) DEF JailReady, InJail
  <1>3. CASE Exec(j)
    <2>1. PICK s \in {"save_pid", "done"} : GoTo(j, s)
      BY <1>3, Zenon DEF Exec
    <2>2. running' = running \cup {j} /\ dir' = dir
      BY <1>3, Zenon DEF Exec
    <2>3. s \in InJail \cup {"done", "unsaved", "failed"}
      BY SMTT(30) DEF InJail
    <2>4. /\ \A k \in Jailers : Id(k)' = Id(k) /\ Id(k) \in Ids
          /\ step'[j] = s /\ \A k \in Jailers \ {j} : step'[k] = step[k]
      BY <1>0, <1>1, <2>1, <2>3, JailMove
    <2>5. ASSUME NEW k \in Jailers \ {j} PROVE JailReady(k)'
      <3>1. tasks' = tasks /\ leaf' = leaf /\ chrooted' = chrooted /\ JailReady(k)
        BY <1>0, Zenon DEF cgUnchanged, JailerInv
      <3>2. step'[k] = step[k] /\ Id(k)' = Id(k) /\ (k \in running' => k \in running)
        BY <2>2, <2>4, Zenon
      <3>3. step[k] \in {"mknod_kvm", "exec", "save_pid"} => "pid" \notin dir'[Id(k)]
        BY <2>2, <3>1, Zenon DEF JailReady
      <3> QED BY <2>2, <3>1, <3>2, <3>3, JailFrame, Zenon
    <2>6. JailReady(j)'
      BY <1>0, <1>1, <1>2, <2>2, <2>4, Zenon DEF JailReady, cgUnchanged, Files
    <2>7. \A k \in Jailers : JailReady(k)'
      BY <2>5, <2>6
    <2>8. \A k \in Jailers \ {j} : Holds(k)' => Holds(k)
      BY <2>2, <2>4, ZenonT(40) DEF Holds
    <2>9. running' \subseteq Jailers /\ dir' \in [Ids -> SUBSET {"old_root", "tun", "kvm", "pid"}]
          /\ \A i \in Ids : "pid" \in dir'[i] => "tun" \in dir'[i]
      BY <1>1, <2>2 DEF JailerInv
    <2> QED BY <1>0, <1>1, <2>1, <2>3, <2>7, <2>8, <2>9, JailStep
  <1>4. CASE save_exec_file_pid(j)
    <2>0. PICK s \in {"done", "unsaved"} : GoTo(j, s)
      BY <1>2, <1>4, Zenon DEF save_exec_file_pid, CreateNew
    <2>1. (dir' = [dir EXCEPT ![Id(j)] = @ \cup {"pid"}] \/ dir' = dir) /\ running' = running
      BY <1>2, <1>4, Zenon DEF save_exec_file_pid, CreateNew
    <2> s \in InJail \cup {"done", "unsaved", "failed"}
      BY Zenon
    <2>2. /\ \A k \in Jailers : Id(k)' = Id(k) /\ Id(k) \in Ids
          /\ step'[j] = s /\ \A k \in Jailers \ {j} : step'[k] = step[k]
      BY <1>0, <1>1, <2>0, JailMove, ZenonT(40)
    <2>3. /\ dir' \in [Ids -> SUBSET {"old_root", "tun", "kvm", "pid"}]
          /\ \A i \in Ids : dir[i] \subseteq dir'[i]
          /\ \A i \in Ids : "pid" \in dir'[i] => "pid" \in dir[i] \/ i = Id(j)
      BY <1>1, <2>1, ZenonT(40)
    <2>4. \A k \in Jailers \ {j} : JailReady(k)'
      <3> SUFFICES ASSUME NEW k \in Jailers \ {j} PROVE JailReady(k)'
        BY Zenon
      <3>1. Holds(k) => Id(k) # Id(j)
        BY <1>1 DEF JailerInv
      <3>2. step[k] \in {"mknod_kvm", "exec", "save_pid"} => "pid" \notin dir'[Id(k)]
        BY <2>2, <2>3, <3>1, ZenonT(40) DEF Holds, JailerInv, JailReady
      <3>3. tasks' = tasks /\ leaf' = leaf /\ chrooted' = chrooted /\ running' = running /\ JailReady(k)
        BY <1>0, <2>1, Zenon DEF cgUnchanged, JailerInv
      <3>4. step'[k] = step[k] /\ Id(k)' = Id(k) /\ Id(k) \in Ids
        BY <2>2, Zenon
      <3>5. ("tun" \in dir[Id(k)] => "tun" \in dir'[Id(k)]) /\ ("kvm" \in dir[Id(k)] => "kvm" \in dir'[Id(k)])
        BY <2>3, <3>4, Zenon
      <3> QED BY <3>2, <3>3, <3>4, <3>5, JailFrame, Zenon
    <2>5. JailReady(j)'
      BY <1>0, <1>1, <1>2, <2>1, <2>2, <2>3, Zenon DEF JailReady, cgUnchanged, InJail, Files
    <2>6. \A k \in Jailers : JailReady(k)'
      BY <2>4, <2>5, SMTT(30)
    <2>7. \A k \in Jailers \ {j} : Holds(k)' => Holds(k)
      BY <2>1, <2>2, SMTT(30) DEF Holds
    <2>8. \A i \in Ids : "pid" \in dir'[i] => "tun" \in dir'[i]
      BY <1>2, <2>3, SMTT(30) DEF JailerInv
    <2>9. running' \subseteq Jailers
      BY <1>1, <2>1
    <2> QED BY <1>0, <1>1, <2>0, <2>3, <2>6, <2>7, <2>8, <2>9, JailStep, ZenonT(40)
  <1> QED BY <1>3, <1>4, Zenon

\* A Firecracker that exits, and a jail that is cleaned up when nobody uses it.
LEMMA EndKeepsInv ==
    ASSUME JailerInv, (\E j \in Jailers : Exits(j)) \/ (\E i \in Ids : Cleanup(i))
    PROVE  JailerInv' /\ step' = step
  <1>0. \A k \in Jailers : Id(k) \in Ids
    BY DEF JailerInv, Id
  <1>1. ASSUME NEW j \in Jailers, Exits(j) PROVE JailerInv' /\ step' = step
    <2>1. /\ UNCHANGED <<opt, version, step, file, at, chrooted, dir, inherited, leaf, tasks>>
          /\ running' = running \ {j}
      BY <1>1 DEF Exits, cgUnchanged
    <2>2. \A k \in Jailers : CgroupsReady(k)' /\ JailReady(k)' /\ (Holds(k)' => Holds(k)) /\ Id(k)' = Id(k)
      BY <2>1, ZenonT(40) DEF JailerInv, CgroupsReady, JailReady, Holds, Id, Leaf, InCgroups, InJail, Files
    <2>3. JailerTypeOK'
      BY <2>1, Zenon DEF JailerInv, JailerTypeOK, Files, Leaf
    <2>4. \A k, m \in Jailers : (Holds(k) /\ Holds(m) /\ Id(k) = Id(m))' => k = m
      BY <2>2, Zenon DEF JailerInv
    <2>5. /\ opt' = opt /\ version' = version /\ inherited' = inherited /\ dir' = dir /\ step' = step
      BY <2>1, Zenon
    <2>6. \A k \in Jailers : (CgroupsReady(k) /\ JailReady(k))'
      BY <2>2
    <2> QED BY <2>3, <2>4, <2>5, <2>6, ZenonT(40) DEF JailerInv, Files
  <1>2. ASSUME NEW i \in Ids, Cleanup(i) PROVE JailerInv' /\ step' = step
    <2>1. /\ UNCHANGED <<opt, version, step, file, at, inherited, tasks, chrooted, running>>
          /\ dir' = [dir EXCEPT ![i] = {}] /\ leaf' = [leaf EXCEPT ![i] = {}]
          /\ \A k \in Jailers : Id(k) = i => k \notin running /\ step[k] \in {"start", "done", "unsaved", "failed"}
      BY <1>2, ZenonT(40) DEF Cleanup
    <2>2. /\ leaf' \in [Ids -> SUBSET Files] /\ dir' \in [Ids -> SUBSET {"old_root", "tun", "kvm", "pid"}]
          /\ dir'[i] = {} /\ \A m \in Ids \ {i} : leaf'[m] = leaf[m] /\ dir'[m] = dir[m]
      BY <2>1 DEF JailerInv, JailerTypeOK
    <2>3. \A k \in Jailers : Id(k)' = Id(k)
      BY <2>1, Zenon DEF Id
    <2>4. ASSUME NEW k \in Jailers PROVE CgroupsReady(k)' /\ JailReady(k)'
      <3>1. CASE Id(k) = i
        BY <2>1, <3>1, Zenon DEF CgroupsReady, JailReady, InCgroups, InJail
      <3>2. CASE Id(k) # i
        <4>1. leaf'[Id(k)] = leaf[Id(k)] /\ dir'[Id(k)] = dir[Id(k)]
          BY <1>0, <2>2, <3>2, ZenonT(40)
        <4>2. leaf'[Id(k)] \subseteq Files
          BY <1>0, <2>2, ZenonT(40)
        <4>3. CgroupsReady(k)'
          BY <2>1, <4>1, <4>2, CgroupsFrame, ZenonT(40)
        <4>4. JailReady(k)'
          <5>1. JailReady(k) /\ step' = step /\ tasks' = tasks /\ chrooted' = chrooted /\ running' = running
            BY <2>1, Zenon DEF JailerInv
          <5>2. step[k] \in {"mknod_kvm", "exec", "save_pid"} => "pid" \notin dir'[Id(k)]
            BY <4>1, <5>1, Zenon DEF JailReady
          <5> QED BY <2>3, <4>1, <5>1, <5>2, JailFrame, Zenon
        <4> QED BY <4>3, <4>4
      <3> QED BY <3>1, <3>2
    <2>5. JailerTypeOK'
      BY <2>1, <2>2 DEF JailerInv, JailerTypeOK, Files, Leaf
    <2>6. \A k, m \in Jailers : (Holds(k) /\ Holds(m) /\ Id(k) = Id(m))' => k = m
      BY <2>1, <2>3, Zenon DEF JailerInv, Holds
    <2>7. \A m \in Ids : "pid" \in dir'[m] => "tun" \in dir'[m]
      BY <2>2, Zenon DEF JailerInv
    <2>8. opt' = opt /\ version' = version /\ inherited' = inherited /\ step' = step
      BY <2>1, Zenon
    <2>9. \A k \in Jailers : (CgroupsReady(k) /\ JailReady(k))'
      BY <2>4, Zenon
    <2> QED BY <2>5, <2>6, <2>7, <2>8, <2>9, Zenon DEF JailerInv, Files
  <1> QED BY <1>1, <1>2, ZenonT(40)

\* No step disturbs what another jailer relies on, and no cgroup step fails.
LEMMA JailersStep ==
    ASSUME JailerInv, JailerNext
    PROVE  JailerInv' /\ CgroupStepSucceeds
  <1>1. CASE \E i \in Ids : Cleanup(i)
    BY <1>1, EndKeepsInv, Zenon DEF CgroupStepSucceeds
  <1>2. ASSUME NEW j \in Jailers, JailerStep(j)
        PROVE  JailerInv' /\ CgroupStepSucceeds
    <2>1. CASE Exits(j)
      BY <2>1, EndKeepsInv, Zenon DEF CgroupStepSucceeds
    <2>2. CASE ~Exits(j)
      <3>1. \A k \in Jailers \ {j} : step'[k] = step[k]
        <4>1. ASSUME NEW s, step' = [step EXCEPT ![j] = s]
              PROVE  \A k \in Jailers \ {j} : step'[k] = step[k]
          BY <4>1, SMTT(30) DEF JailerInv, JailerTypeOK
        <4>2. CASE Prepare(j) \/ create_dir(j) \/ ReadParent(j) \/ ReadAgain(j)
          BY <4>1, <4>2, SMTT(30) DEF Prepare, create_dir, ReadParent, ReadAgain, Return, Jump, GoTo
        <4>3. CASE WriteLevel(j) \/ WriteSubtree(j) \/ WriteValue(j) \/ attach_pid(j)
          BY <4>1, <4>3, ZenonT(40) DEF WriteLevel, WriteSubtree, WriteValue, attach_pid, Return, Jump, GoTo
        <4>4. CASE mkdir_old_root(j) \/ pivot_root(j) \/ MknodTun(j) \/ MknodKvm(j)
          BY <4>1, <4>4 DEF mkdir_old_root, pivot_root, MknodTun, MknodKvm, mknod_and_own_dev,
             CreateNew, GoTo
        <4>5. CASE Exec(j) \/ save_exec_file_pid(j)
          BY <4>1, <4>5, ZenonT(40) DEF Exec, save_exec_file_pid, CreateNew, GoTo
        <4> QED BY <1>2, <2>2, <4>2, <4>3, <4>4, <4>5, ZenonT(40) DEF JailerStep
      <3>2. JailerInv' /\ (step[j] \in CgroupSteps => step'[j] # "failed")
        <4>1. CASE Prepare(j) \/ create_dir(j)
          BY <4>1, PrepareKeepsInv, Zenon
        <4>2. CASE ReadParent(j) \/ ReadAgain(j) \/ WriteLevel(j)
          BY <4>2, InheritKeepsInv, ZenonT(40)
        <4>3. CASE WriteSubtree(j) \/ WriteValue(j) \/ attach_pid(j)
          BY <4>3, SubtreeKeepsInv, ValueKeepsInv, ZenonT(30)
        <4>4. CASE mkdir_old_root(j) \/ pivot_root(j)
          BY <4>4, ChrootKeepsInv, SMTT(30) DEF mkdir_old_root, pivot_root, CgroupSteps, InCgroups
        <4>5. CASE MknodTun(j) \/ MknodKvm(j)
          BY <4>5, MknodKeepsInv, SMTT(30) DEF MknodTun, MknodKvm, CgroupSteps, InCgroups
        <4>6. CASE Exec(j) \/ save_exec_file_pid(j)
          BY <4>6, ExecKeepsInv DEF Exec, save_exec_file_pid, CgroupSteps, InCgroups
        <4> QED BY <1>2, <2>2, <4>1, <4>2, <4>3, <4>4, <4>5, <4>6, ZenonT(40) DEF JailerStep
      <3>3. \A k \in Jailers : step[k] \in CgroupSteps => step'[k] # "failed"
        BY <3>1, <3>2, Zenon DEF CgroupSteps, InCgroups
      <3> QED BY <3>2, <3>3 DEF CgroupStepSucceeds, CgroupSteps, InCgroups
    <2> QED BY <2>1, <2>2, Zenon
  <1> QED BY <1>1, <1>2, Zenon DEF JailerNext

\* The jailer, for any number of jailers at work at once, any ids, any depth of the
\* parent cgroup and any number of cgroup files: a Firecracker only runs in its own
\* jail, a failed jailer leaves none behind unless the host failed on its pid file,
\* and no jailer's work on the shared cgroups makes another fail.
THEOREM JailersApart == JailerSpec => JailersKeepApart
  <1>1. JailerInit => JailerInv
    <2> SUFFICES ASSUME JailerInit PROVE JailerInv
      BY Zenon
    <2>1. \A j \in Jailers : step[j] = "start" /\ j \notin running
      BY SMTT(30) DEF JailerInit
    <2>2. \A j \in Jailers : CgroupsReady(j) /\ JailReady(j) /\ ~Holds(j)
      BY <2>1 DEF CgroupsReady, JailReady, Holds, InCgroups, InJail
    <2>3. 1 \in Files /\ Leaf \in 0..Leaf /\ 0 \in 0..Depth
      BY JailerAssumption DEF Files, Leaf
    <2>4. /\ inherited \in [Files -> [0..Depth -> BOOLEAN]]
          /\ version = 1 => \A f \in Files : inherited[f][0]
      BY <2>3, Zenon DEF JailerInit
    <2>5. JailerTypeOK
      BY <2>3, <2>4, Zenon DEF JailerInit, JailerTypeOK
    <2> QED BY <2>2, <2>4, <2>5, Zenon DEF JailerInit, JailerInv
  <1>2. JailerInv /\ [JailerNext]_jvars => JailerInv' /\ [CgroupStepSucceeds]_jvars
    <2>1. ASSUME JailerInv, UNCHANGED jvars PROVE JailerInv'
      BY <2>1, ZenonT(40) DEF jvars, JailerInv, JailerTypeOK, CgroupsReady, JailReady, Holds, Id, InCgroups,
         InJail, Files, Leaf
    <2> QED BY <2>1, JailersStep, Zenon
  <1>3. JailerInv => ExecIsJailed /\ JailIsExclusive
    BY Zenon DEF JailerInv, JailerTypeOK, JailReady, ExecIsJailed, JailIsExclusive, Holds
  <1> QED BY <1>1, <1>2, <1>3, PTL DEF JailerSpec, JailersKeepApart

-----------------------------------------------------------------------------
(* The configuration before boot.                                           *)

Drive == [id : Drives, root : BOOLEAN]
Nic == [id : Ifaces, mac : Options(Macs), mmds : Options(Addrs)]

\* What is asked of a list of interfaces, of any list.
NicsDistinct(s) ==
    \A i, j \in 1..Len(s) :
      i = j \/ (s[i].id # s[j].id /\ (s[i].mac = Nothing \/ s[i].mac # s[j].mac))
OneAddress(s) ==
    \A i, j \in 1..Len(s) : s[i].mmds # Nothing /\ s[j].mmds # Nothing => s[i].mmds = s[j].mmds

ResInv ==
    /\ vm_config \in [vcpu_count : VcpuCounts \cup {1}, smt : BOOLEAN, mem_size_mib : Nat]
    /\ balloon \in SUBSET [amount_mib : Amounts]
    /\ block \in Seq(Drive)
    /\ net_devices \in Seq(Nic)
    /\ ConfigIsConsistent

\* unwrap_or returns a value of the option or the default.
LEMMA UnwrapType ==
    ASSUME NEW S, NEW T, NEW maybe \in Options(S), NEW d \in T, S \subseteq T
    PROVE  unwrap_or(maybe, d) \in T
  <1>1. CASE maybe = {}
    BY <1>1, Zenon DEF unwrap_or
  <1>2. CASE maybe # {}
    <2>1. PICK x \in S : maybe = {x}
      BY <1>2, ZenonT(40) DEF Options, Some, Nothing
    <2> QED BY <1>2, <2>1, Zenon DEF unwrap_or
  <1> QED BY <1>1, <1>2, Zenon

\* The balloon fits whichever of the memory and the balloon is set last.
LEMMA VmConfigKeepsInv ==
    ASSUME ResInv, UpdateVmConfig
    PROVE  ResInv'
  <1> PICK cfg \in VmUpdateConfig :
         /\ update_vm_config(cfg)
         /\ UNCHANGED <<boot_source, block, net_devices, balloon, vsock, sockets>>
    BY Zenon DEF UpdateVmConfig
  <1> DEFINE vcpu_count == unwrap_or(cfg.vcpu_count, vm_config.vcpu_count)
             smt == unwrap_or(cfg.smt, vm_config.smt)
             mem == unwrap_or(cfg.mem_size_mib, vm_config.mem_size_mib)
             vcpus_set == [vm_config EXCEPT !.vcpu_count = vcpu_count, !.smt = smt]
  <1>1. vcpu_count \in VcpuCounts \cup {1} /\ smt \in BOOLEAN /\ mem \in Nat
    <2>1. /\ cfg.vcpu_count \in Options(VcpuCounts) /\ cfg.smt \in Options(BOOLEAN)
          /\ cfg.mem_size_mib \in Options(MemSizes)
      BY Zenon DEF VmUpdateConfig
    <2>2. vcpu_count \in VcpuCounts \cup {1}
      <3>1. vm_config.vcpu_count \in VcpuCounts \cup {1}
        BY Zenon DEF ResInv
      <3>2. VcpuCounts \subseteq VcpuCounts \cup {1}
        BY Zenon
      <3> HIDE DEF vcpu_count
      <3> QED BY <2>1, <3>1, <3>2, UnwrapType, Zenon DEF vcpu_count
    <2>3. smt \in BOOLEAN
      BY <2>1, UnwrapType, ZenonT(40) DEF ResInv
    <2>4. mem \in Nat
      BY <2>1, UnwrapType, ResAssumption, Zenon DEF ResInv
    <2> QED BY <2>2, <2>3, <2>4
  <1>2. \/ vm_config' = vm_config
        \/ vm_config' = vcpus_set
        \/ mem_fits_balloon(mem) /\ vm_config' = [vcpus_set EXCEPT !.mem_size_mib = mem]
    BY Zenon DEF update_vm_config
  <1> HIDE DEF vcpu_count, smt, mem
  <1>3. vm_config' \in [vcpu_count : VcpuCounts \cup {1}, smt : BOOLEAN, mem_size_mib : Nat]
    BY <1>1, <1>2, Zenon DEF ResInv
  <1>4. BalloonFitsMemory'
    <2> SUFFICES ASSUME NEW b \in balloon PROVE b.amount_mib <= vm_config'.mem_size_mib
      BY Zenon DEF BalloonFitsMemory
    <2>1. b.amount_mib \in Nat /\ b.amount_mib <= vm_config.mem_size_mib
      BY ResAssumption, Zenon DEF ResInv, ConfigIsConsistent, BalloonFitsMemory
    <2>2. \/ vm_config'.mem_size_mib = vm_config.mem_size_mib
          \/ vm_config'.mem_size_mib = mem /\ mem >= b.amount_mib
      BY <1>2, Zenon DEF ResInv, mem_fits_balloon
    <2> QED BY <1>1, <2>1, <2>2, Zenon
  <1> QED BY <1>3, <1>4, ZenonT(40) DEF ResInv, ConfigIsConsistent, RootIsFirst, NoDuplicates, MmdsAddressesAgree

LEMMA BalloonKeepsInv ==
    ASSUME ResInv, SetBalloonDevice
    PROVE  ResInv'
  <1> PICK amount \in Amounts :
         /\ UNCHANGED <<vm_config, block, net_devices>>
         /\ \/ balloon' = balloon
            \/ ~(amount > vm_config.mem_size_mib) /\ balloon' = {[amount_mib |-> amount]}
    BY Zenon DEF SetBalloonDevice, Some
  <1>1. balloon' \in SUBSET [amount_mib : Amounts]
    BY DEF ResInv
  <1>2. BalloonFitsMemory'
    BY ResAssumption DEF ResInv, ConfigIsConsistent, BalloonFitsMemory
  <1> QED BY <1>1, <1>2 DEF ResInv, ConfigIsConsistent, RootIsFirst, NoDuplicates, MmdsAddressesAgree

\* What a list is once an entry is put in front of it, or at its end.
LEMMA Prepended ==
    ASSUME NEW S, NEW e \in S, NEW seq \in Seq(S)
    PROVE  /\ <<e>> \o seq \in Seq(S) /\ Len(<<e>> \o seq) = Len(seq) + 1 /\ (<<e>> \o seq)[1] = e
           /\ \A i \in 2..Len(<<e>> \o seq) : i - 1 \in 1..Len(seq) /\ (<<e>> \o seq)[i] = seq[i - 1]
  OBVIOUS

LEMMA Appended ==
    ASSUME NEW S, NEW e \in S, NEW seq \in Seq(S)
    PROVE  /\ Append(seq, e) \in Seq(S) /\ Len(Append(seq, e)) = Len(seq) + 1
           /\ Append(seq, e)[Len(Append(seq, e))] = e
           /\ \A k \in 1..Len(seq) : Append(seq, e)[k] = seq[k]
  OBVIOUS

LEMMA LengthIsNatural ==
    ASSUME NEW S, NEW seq \in Seq(S)
    PROVE  Len(seq) \in Nat
  OBVIOUS

\* A drive is updated in place, or moves to the front as the new root.
LEMMA DriveUpdated ==
    ASSUME NEW drive \in Drive, NEW index \in position(block, drive.id),
           block \in Seq(Drive), RootIsFirst,
           \A i, j \in 1..Len(block) : block[i].id = block[j].id => i = j,
           drive.root /\ index # 1 => ~block[1].root
    PROVE  LET new == update_slot(index, drive)
           IN  /\ new \in Seq(Drive)
               /\ \A i \in 1..Len(new) : new[i].root => i = 1
               /\ \A i, j \in 1..Len(new) : new[i].id = new[j].id => i = j
  <1>1. index \in 1..Len(block) /\ block[index].id = drive.id /\ 1 \in 1..Len(block)
    BY DEF position
  <1> DEFINE updated == [block EXCEPT ![index] = drive]
  <1>2. /\ updated \in Seq(Drive) /\ Len(updated) = Len(block)
        /\ \A i \in 1..Len(block) : updated[i] = IF i = index THEN drive ELSE block[i]
    BY <1>1
  <1>3. \A i \in 1..Len(block) : updated[i].id = block[i].id
    BY <1>1, <1>2, ZenonT(40)
  <1> HIDE DEF updated
  <1>4. CASE index # 1 /\ drive.root
    <2> DEFINE new == swap(updated, 1, index)
    <2>1. update_slot(index, drive) = new
      BY <1>4, Zenon DEF update_slot, updated
    <2>2. /\ new \in Seq(Drive) /\ Len(new) = Len(block)
          /\ \A i \in 1..Len(block) : new[i] = IF i = 1 THEN drive ELSE IF i = index THEN block[1] ELSE block[i]
      BY <1>1, <1>2, <1>4 DEF swap
    <2> HIDE DEF new
    <2>3. \A i \in 1..Len(new) : new[i].root => i = 1
      BY <1>4, <2>2, Zenon DEF RootIsFirst
    <2>4. \A i, j \in 1..Len(new) : new[i].id = new[j].id => i = j
      BY <1>1, <1>4, <2>2, SMTT(30)
    <2> QED BY <2>1, <2>2, <2>3, <2>4
  <1>5. CASE ~(index # 1 /\ drive.root)
    <2>1. update_slot(index, drive) = updated
      BY <1>5, Zenon DEF update_slot, updated
    <2>2. \A i \in 1..Len(updated) : updated[i].root => i = 1
      BY <1>2, <1>5, Zenon DEF RootIsFirst
    <2>3. \A i, j \in 1..Len(updated) : updated[i].id = updated[j].id => i = j
      BY <1>2, <1>3, Zenon
    <2> QED BY <1>2, <2>1, <2>2, <2>3
  <1> QED BY <1>4, <1>5, Zenon

LEMMA DrivesKeepInv ==
    ASSUME ResInv, SetBlockDevice
    PROVE  ResInv'
  <1> PICK drive \in Drive :
         /\ \E created \in BOOLEAN : insert_block(drive, created)
         /\ UNCHANGED <<vm_config, boot_source, net_devices, balloon, vsock, sockets>>
    BY Zenon DEF SetBlockDevice, Drive
  <1> DEFINE found == position(block, drive.id)
             slot == CHOOSE i \in found : TRUE
  <1>1. \/ block' = block
        \/ /\ ~(drive.root /\ has_root_device /\ found # {1})
           /\ \/ found # {} /\ block' = update_slot(slot, drive)
              \/ found = {} /\ drive.root /\ block' = <<drive>> \o block
              \/ found = {} /\ ~drive.root /\ block' = Append(block, drive)
    BY Zenon DEF insert_block
  <1>2. /\ block \in Seq(Drive) /\ RootIsFirst
        /\ \A i, j \in 1..Len(block) : block[i].id = block[j].id => i = j
    BY SMTT(30) DEF ResInv, ConfigIsConsistent, NoDuplicates
  <1>3. found = {i \in 1..Len(block) : block[i].id = drive.id}
    BY DEF position
  <1>4. block = << >> \/ (1 \in 1..Len(block) /\ block[1].root \in BOOLEAN)
    <2>1. block = << >> \/ Len(block) \in Nat \ {0}
      BY <1>2
    <2>2. block = << >> \/ (1 \in 1..Len(block) /\ block[1] \in Drive)
      BY <1>2, <2>1
    <2> QED BY <2>2, Zenon DEF Drive
  <1>5. ASSUME NEW new \in Seq(Drive), block' = new,
               \A i \in 1..Len(new) : new[i].root => i = 1,
               \A i, j \in 1..Len(new) : new[i].id = new[j].id => i = j
        PROVE  ResInv'
    BY <1>5, ZenonT(40) DEF ResInv, ConfigIsConsistent, RootIsFirst, NoDuplicates, MmdsAddressesAgree, BalloonFitsMemory
  <1> HIDE DEF found, slot
  <1>6. CASE block' = block
    BY <1>2, <1>5, <1>6 DEF RootIsFirst
  <1>7. CASE ~(drive.root /\ has_root_device /\ found # {1}) /\ found # {} /\ block' = update_slot(slot, drive)
    <2>1. slot \in found
      BY <1>7, Zenon DEF slot
    <2>2. drive.root /\ slot # 1 => ~block[1].root
      BY <1>2, <1>3, <1>7, <2>1 DEF has_root_device
    <2>3. slot \in position(block, drive.id)
      BY <2>1, Zenon DEF found
    <2> QED BY <1>2, <1>5, <1>7, <2>2, <2>3, DriveUpdated
  <1>8. CASE ~(drive.root /\ has_root_device /\ found # {1}) /\ found = {} /\ drive.root /\ block' = <<drive>> \o block
    <2> DEFINE new == <<drive>> \o block
    <2>1. /\ new \in Seq(Drive) /\ Len(new) = Len(block) + 1 /\ new[1] = drive
          /\ \A i \in 2..Len(new) : i - 1 \in 1..Len(block) /\ new[i] = block[i - 1]
      <3>1. drive \in Drive /\ block \in Seq(Drive)
        BY <1>2, Zenon
      <3> QED BY <3>1, Prepended
    <2>2. \A i \in 1..Len(block) : ~block[i].root /\ block[i].id # drive.id
      BY <1>2, <1>3, <1>4, <1>8, SMTT(30) DEF RootIsFirst, has_root_device
    <2> HIDE DEF new
    <2>3. ASSUME NEW i \in 1..Len(new), new[i].root PROVE i = 1
      <3>1. Len(new) \in Nat
        BY <2>1, LengthIsNatural, Zenon
      <3>2. i = 1 \/ i \in 2..Len(new)
        BY <3>1, SMTT(30)
      <3> QED BY <2>1, <2>2, <2>3, <3>2, Zenon
    <2>4. ASSUME NEW i \in 1..Len(new), NEW j \in 1..Len(new), new[i].id = new[j].id PROVE i = j
      <3>1. CASE i = 1 \/ j = 1
        <4>1. \A k \in 2..Len(new) : new[k].id # drive.id
          BY <2>1, <2>2, SMTT(30)
        <4>2. CASE i = 1
          BY <2>1, <2>4, <4>1, <4>2, SMTT(30)
        <4>3. CASE j = 1
          BY <2>1, <2>4, <4>1, <4>3, SMTT(30)
        <4> QED BY <3>1, <4>2, <4>3, ZenonT(40)
      <3>2. CASE i \in 2..Len(new) /\ j \in 2..Len(new)
        <4>1. /\ i - 1 \in 1..Len(block) /\ j - 1 \in 1..Len(block)
              /\ block[i - 1].id = block[j - 1].id
          BY <2>1, <2>4, <3>2, SMTT(30)
        <4>2. i - 1 = j - 1
          BY <1>2, <4>1, SMTT(30)
        <4> QED BY <4>2, SMTT(30)
      <3> QED BY <1>2, <2>1, <3>1, <3>2, SMTT(30)
    <2> QED BY <1>5, <1>8, <2>1, <2>3, <2>4, Zenon DEF new
  <1>9. CASE found = {} /\ ~drive.root /\ block' = Append(block, drive)
    <2> DEFINE new == Append(block, drive)
    <2>1. /\ new \in Seq(Drive) /\ Len(new) = Len(block) + 1 /\ new[Len(block) + 1] = drive
          /\ \A i \in 1..Len(block) : new[i] = block[i]
      BY <1>2
    <2>2. \A i \in 1..Len(block) : block[i].id # drive.id
      BY <1>3, <1>9
    <2> HIDE DEF new
    <2>3. \A i \in 1..Len(new) : new[i].root => i = 1
      BY <1>2, <1>9, <2>1, SMTT(30) DEF RootIsFirst
    <2>4. \A i, j \in 1..Len(new) : new[i].id = new[j].id => i = j
      BY <1>2, <2>1, <2>2, SMTT(30)
    <2> QED BY <1>5, <1>9, <2>1, <2>3, <2>4, ZenonT(30) DEF new
  <1> QED BY <1>1, <1>6, <1>7, <1>8, <1>9, Zenon

\* swap_remove takes one element away: the last one takes its place.
LEMMA SwapRemoved ==
    ASSUME NEW s \in Seq(Nic), NEW i \in 1..Len(s)
    PROVE  /\ swap_remove(s, i) \in Seq(Nic) /\ Len(swap_remove(s, i)) = Len(s) - 1
           /\ \A k \in 1..Len(s) - 1 : swap_remove(s, i)[k] = IF k = i THEN s[Len(s)] ELSE s[k]
  <1> DEFINE t == [s EXCEPT ![i] = s[Len(s)]]
  <1>1. /\ t \in Seq(Nic) /\ Len(t) = Len(s)
        /\ \A k \in 1..Len(s) : t[k] = IF k = i THEN s[Len(s)] ELSE s[k]
    OBVIOUS
  <1>2. swap_remove(s, i) = SubSeq(t, 1, Len(s) - 1)
    BY Zenon DEF swap_remove
  <1> HIDE DEF t
  <1> QED BY <1>1, <1>2

\* Without the interface of an identifier, the others are as they were.
LEMMA InterfaceRemoved ==
    ASSUME NEW s \in Seq(Nic), NicsDistinct(s), NEW i \in 1..Len(s)
    PROVE  /\ swap_remove(s, i) \in Seq(Nic) /\ NicsDistinct(swap_remove(s, i))
           /\ \A k \in 1..Len(swap_remove(s, i)) : \E m \in 1..Len(s) :
                swap_remove(s, i)[k] = s[m] /\ s[m].id # s[i].id
  <1> DEFINE t == swap_remove(s, i)
             origin == [k \in 1..Len(s) - 1 |-> IF k = i THEN Len(s) ELSE k]
  <1>1. /\ t \in Seq(Nic) /\ Len(t) = Len(s) - 1
        /\ \A k \in 1..Len(s) - 1 : t[k] = IF k = i THEN s[Len(s)] ELSE s[k]
    BY SwapRemoved, Zenon
  <1> HIDE DEF t
  <1>2. \A k \in 1..Len(t) : t[k] = s[origin[k]] /\ origin[k] \in 1..Len(s) /\ origin[k] # i
    BY <1>1, SMTT(30)
  <1>3. \A k, l \in 1..Len(t) : origin[k] = origin[l] => k = l
    BY <1>1, SMTT(30)
  <1> HIDE DEF origin
  <1>4. \A k \in 1..Len(t) : s[origin[k]].id # s[i].id
    BY <1>2 DEF NicsDistinct
  <1>5. NicsDistinct(t)
    <2> SUFFICES ASSUME NEW k \in 1..Len(t), NEW l \in 1..Len(t), k # l
                 PROVE  t[k].id # t[l].id /\ (t[k].mac = Nothing \/ t[k].mac # t[l].mac)
      BY Zenon DEF NicsDistinct
    <2>1. origin[k] # origin[l] /\ origin[k] \in 1..Len(s) /\ origin[l] \in 1..Len(s)
      BY <1>2, <1>3, Zenon
    <2>2. t[k] = s[origin[k]] /\ t[l] = s[origin[l]]
      BY <1>2, Zenon
    <2>3. s[origin[k]].id # s[origin[l]].id /\ (s[origin[k]].mac = Nothing \/ s[origin[k]].mac # s[origin[l]].mac)
      BY <2>1, Zenon DEF NicsDistinct
    <2> QED BY <2>2, <2>3, Zenon
  <1>6. \A k \in 1..Len(t) : \E m \in 1..Len(s) : t[k] = s[m] /\ s[m].id # s[i].id
    BY <1>2, <1>4, ZenonT(40)
  <1> QED BY <1>1, <1>5, <1>6 DEF t

\* Every interface that is added, replaced or left keeps the list distinct.
LEMMA InterfacesKeepInv ==
    ASSUME ResInv, BuildNetDevice
    PROVE  ResInv'
  <1> PICK cfg \in [id : Ifaces, mac : Options(Macs)], created \in BOOLEAN :
         /\ build_net(cfg, created)
         /\ UNCHANGED <<vm_config, boot_source, block, balloon, vsock, sockets>>
    BY ZenonT(40) DEF BuildNetDevice
  <1> DEFINE found == position(net_devices, cfg.id)
             slot == CHOOSE i \in found : TRUE
             removed == IF found = {} THEN net_devices ELSE swap_remove(net_devices, slot)
             added == [id |-> cfg.id, mac |-> cfg.mac, mmds |-> Nothing]
  <1>1. \/ net_devices' = net_devices
        \/ net_devices' = removed
        \/ ~mac_conflict(cfg) /\ net_devices' = Append(removed, added)
    BY ZenonT(40) DEF build_net
  <1>2. net_devices \in Seq(Nic) /\ NicsDistinct(net_devices) /\ OneAddress(net_devices)
    BY ZenonT(30) DEF ResInv, ConfigIsConsistent, NoDuplicates, NicsDistinct, OneAddress, MmdsAddressesAgree
  <1>3. ASSUME NEW new \in Seq(Nic), net_devices' = new, NicsDistinct(new), OneAddress(new)
        PROVE  ResInv'
    BY <1>3, SMTT(30) DEF ResInv, ConfigIsConsistent, RootIsFirst, NoDuplicates, MmdsAddressesAgree,
       BalloonFitsMemory, NicsDistinct, OneAddress
  <1>4. added \in Nic
    BY DEF Nic, Options
  <1>5. /\ removed \in Seq(Nic) /\ NicsDistinct(removed)
        /\ \A k \in 1..Len(removed) : \E m \in 1..Len(net_devices) :
             removed[k] = net_devices[m] /\ removed[k].id # cfg.id
    <2>1. CASE found = {}
      <3>1. removed = net_devices
        BY <2>1, Zenon
      <3>2. \A k \in 1..Len(net_devices) : net_devices[k].id # cfg.id
        BY <2>1, Zenon DEF position
      <3> QED BY <1>2, <3>1, <3>2, Zenon
    <2>2. CASE found # {}
      <3>1. slot \in found
        BY <2>2, Zenon
      <3>2. slot \in 1..Len(net_devices) /\ net_devices[slot].id = cfg.id
        BY <3>1, Zenon DEF position
      <3>3. removed = swap_remove(net_devices, slot)
        BY <2>2, Zenon
      <3> HIDE DEF found, slot, removed
      <3>4. /\ removed \in Seq(Nic) /\ NicsDistinct(removed)
            /\ \A k \in 1..Len(removed) : \E m \in 1..Len(net_devices) :
                 removed[k] = net_devices[m] /\ net_devices[m].id # net_devices[slot].id
        <4> DEFINE list == net_devices
        <4>1. list \in Seq(Nic) /\ NicsDistinct(list) /\ slot \in 1..Len(list)
          BY <1>2, <3>2, Zenon
        <4> HIDE DEF list
        <4>2. /\ swap_remove(list, slot) \in Seq(Nic) /\ NicsDistinct(swap_remove(list, slot))
              /\ \A k \in 1..Len(swap_remove(list, slot)) : \E m \in 1..Len(list) :
                   swap_remove(list, slot)[k] = list[m] /\ list[m].id # list[slot].id
          BY <4>1, InterfaceRemoved, ZenonT(40)
        <4> QED BY <3>3, <4>2, Zenon DEF list
      <3> QED BY <3>2, <3>4, Zenon
    <2> QED BY <2>1, <2>2, Zenon
  <1> HIDE DEF found, slot, removed
  <1>6. OneAddress(removed)
    BY <1>2, <1>5, SMTT(30) DEF OneAddress
  <1>7. CASE ~mac_conflict(cfg) /\ net_devices' = Append(removed, added)
    <2> DEFINE new == Append(removed, added)
    <2>1. /\ new \in Seq(Nic) /\ Len(new) = Len(removed) + 1 /\ new[Len(new)] = added
          /\ \A k \in 1..Len(removed) : new[k] = removed[k]
      <3>1. added \in Nic /\ removed \in Seq(Nic)
        BY <1>4, <1>5, Zenon
      <3> HIDE DEF added
      <3> QED BY <3>1, Appended, SMTT(30)
    <2>2. \A k \in 1..Len(removed) :
            /\ removed[k].id # added.id
            /\ removed[k].mac = Nothing \/ removed[k].mac # added.mac
            /\ added.mac = Nothing \/ added.mac # removed[k].mac
      BY <1>5, <1>7, Zenon DEF mac_conflict
    <2> HIDE DEF new
    <2>3. NicsDistinct(new)
      <3> SUFFICES ASSUME NEW i \in 1..Len(new), NEW j \in 1..Len(new), i # j
                   PROVE  new[i].id # new[j].id /\ (new[i].mac = Nothing \/ new[i].mac # new[j].mac)
        BY Zenon DEF NicsDistinct
      <3>1. CASE i \in 1..Len(removed) /\ j \in 1..Len(removed)
        BY <1>5, <2>1, <3>1, ZenonT(40) DEF NicsDistinct
      <3>2. CASE i = Len(new) /\ j \in 1..Len(removed)
        BY <2>1, <2>2, <3>2, Zenon
      <3>3. CASE i \in 1..Len(removed) /\ j = Len(new)
        BY <2>1, <2>2, <3>3, ZenonT(40)
      <3>4. Len(removed) \in Nat
        BY <1>5, LengthIsNatural, Zenon
      <3>5. \A k \in 1..Len(new) : k \in 1..Len(removed) \/ k = Len(new)
        BY <2>1, <3>4
      <3> QED BY <3>1, <3>2, <3>3, <3>5, Zenon
    <2>4. added.mmds = Nothing
      OBVIOUS
    <2> HIDE DEF added
    <2>5. OneAddress(new)
      <3>0. Len(removed) \in Nat
        BY <1>5, LengthIsNatural, Zenon
      <3>1. \A i \in 1..Len(new) : i \in 1..Len(removed) \/ i = Len(new)
        BY <2>1, <3>0
      <3>2. \A i \in 1..Len(new) : new[i].mmds # Nothing => i \in 1..Len(removed)
        BY <2>1, <2>4, <3>1, Zenon
      <3> QED BY <1>6, <2>1, <3>2, SMTT(30) DEF OneAddress
    <2> QED BY <1>3, <1>7, <2>1, <2>3, <2>5, Zenon DEF new
  <1> QED BY <1>1, <1>2, <1>3, <1>5, <1>6, <1>7

\* One call gives all the stacks one address and takes the others away.
LEMMA MmdsKeepsInv ==
    ASSUME ResInv, SetMmdsConfig
    PROVE  ResInv'
  <1> PICK ifaces \in SUBSET Ifaces, addr \in Addrs :
         /\ UNCHANGED <<vm_config, block, balloon>>
         /\ \/ net_devices' = net_devices
            \/ net_devices' = [i \in 1..Len(net_devices) |->
                 [net_devices[i] EXCEPT !.mmds = stack_of(net_devices[i], ifaces, addr)]]
    BY Zenon DEF SetMmdsConfig
  <1> DEFINE new == [i \in 1..Len(net_devices) |->
                 [net_devices[i] EXCEPT !.mmds = stack_of(net_devices[i], ifaces, addr)]]
  <1>1. net_devices \in Seq(Nic) /\ NicsDistinct(net_devices)
    BY Zenon DEF ResInv, ConfigIsConsistent, NoDuplicates, NicsDistinct
  <1>2. CASE net_devices' = net_devices
    BY <1>2 DEF ResInv, ConfigIsConsistent, RootIsFirst, NoDuplicates, MmdsAddressesAgree, BalloonFitsMemory
  <1>3. CASE net_devices' = new
    <2>1. \A i \in 1..Len(net_devices) :
            /\ stack_of(net_devices[i], ifaces, addr) \in {Nothing, Some(addr)}
            /\ stack_of(net_devices[i], ifaces, addr) \in Options(Addrs)
      BY Zenon DEF stack_of, Options
    <2>2. \A i \in 1..Len(net_devices) :
            /\ new[i] \in Nic /\ new[i].id = net_devices[i].id /\ new[i].mac = net_devices[i].mac
            /\ new[i].mmds \in {Nothing, Some(addr)}
      <3> SUFFICES ASSUME NEW i \in 1..Len(net_devices)
                   PROVE  /\ new[i] \in Nic /\ new[i].id = net_devices[i].id
                          /\ new[i].mac = net_devices[i].mac /\ new[i].mmds \in {Nothing, Some(addr)}
        BY Zenon
      <3>1. net_devices[i] \in Nic
        BY <1>1
      <3> DEFINE stack == stack_of(net_devices[i], ifaces, addr)
      <3>2. new[i] = [net_devices[i] EXCEPT !.mmds = stack]
        BY Zenon
      <3>3. stack \in {Nothing, Some(addr)} /\ stack \in Options(Addrs)
        BY <2>1, Zenon
      <3> HIDE DEF new, stack
      <3> QED BY <3>1, <3>2, <3>3, Zenon DEF Nic
    <2>3. Len(net_devices) \in Nat /\ DOMAIN new = 1..Len(net_devices)
      BY <1>1
    <2> HIDE DEF new
    <2>4. new \in Seq(Nic) /\ Len(new) = Len(net_devices)
      <3>1. new = [i \in 1..Len(net_devices) |-> new[i]]
        BY Zenon DEF new
      <3> QED BY <2>2, <2>3, <3>1
    <2>5. NicsDistinct(new)
      BY <1>1, <2>2, <2>4 DEF NicsDistinct
    <2>6. OneAddress(new)
      BY <2>2, <2>4, ZenonT(40) DEF OneAddress
    <2> QED BY <1>3, <2>4, <2>5, <2>6 DEF ResInv, ConfigIsConsistent, RootIsFirst, NoDuplicates,
         MmdsAddressesAgree, BalloonFitsMemory, NicsDistinct, OneAddress
  <1> QED BY <1>2, <1>3, Zenon

\* Before boot, for any drives, interfaces, addresses and sizes and any number of
\* requests in any order, the configuration is consistent.
THEOREM ConfigConsistent == ResSpec => []ConfigIsConsistent
  <1>1. ResInit => ResInv
    <2> SUFFICES ASSUME ResInit PROVE ResInv
      BY SMTT(30)
    <2>1. vm_config \in [vcpu_count : VcpuCounts \cup {1}, smt : BOOLEAN, mem_size_mib : Nat]
      BY SMTT(30) DEF ResInit
    <2>2. block = << >> /\ net_devices = << >> /\ balloon = {}
      BY SMTT(30) DEF ResInit, Nothing
    <2> QED BY <2>1, <2>2 DEF ResInv, ConfigIsConsistent, RootIsFirst, NoDuplicates,
         MmdsAddressesAgree, BalloonFitsMemory
  <1>2. ResInv /\ [ResNext]_rvars => ResInv'
    <2>1. ASSUME ResInv, UNCHANGED <<vm_config, block, net_devices, balloon>> PROVE ResInv'
      BY <2>1, ZenonT(40) DEF ResInv, ConfigIsConsistent, RootIsFirst, NoDuplicates, MmdsAddressesAgree, BalloonFitsMemory
    <2> QED BY <2>1, VmConfigKeepsInv, BalloonKeepsInv, DrivesKeepInv, InterfacesKeepInv, MmdsKeepsInv
         DEF ResNext, SetVsockDevice, BuildBootSource, rvars
  <1>3. ResInv => ConfigIsConsistent
    BY Zenon DEF ResInv
  <1> QED BY <1>1, <1>2, <1>3, PTL DEF ResSpec
=============================================================================
