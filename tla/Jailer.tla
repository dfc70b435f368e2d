------------------------------- MODULE Jailer -------------------------------
(***************************************************************************)
(* The jailer (jailer/src/env.rs, cgroup.rs, chroot.rs): several of them run *)
(* at once below one parent cgroup, possibly with the same id.  Each file    *)
(* system operation is a step, because jailers share the cgroup tree and,    *)
(* with one id, the jail's directory.  External: the kernel's rules for      *)
(* cpuset files (a file cannot be set below an empty one, a task cannot join *)
(* before every file is set), for cgroup.subtree_control, for mknod, mkdir   *)
(* and O_EXCL on what exists, and for writing a file that is being executed. *)
(***************************************************************************)
EXTENDS Naturals, FiniteSets

CONSTANTS Jailers, Ids,
          Depth,           \* components of the parent cgroup
          NumFiles         \* the files of one controller that --cgroup sets

ASSUME JailerAssumption == Depth \in Nat /\ NumFiles \in Nat \ {0}

Files == 1..NumFiles

VARIABLES
  opt,          \* [Jailers -> [id, pidns : BOOLEAN]]
  version,      \* 1 or 2
  step, file, at, \* where a jailer is: its step, the cgroup file, the level of the recursion
  inherited,    \* [Files -> [0..Depth -> BOOLEAN]]: v1: the file of a level is not empty; v2: subtree_control has +controller
  leaf,         \* [Ids -> SUBSET Files]: the files set in the microVM's own cgroup
  tasks,        \* the jailers in their cgroup
  chrooted,     \* the jailers whose root is the jail
  dir,          \* [Ids -> SUBSET {"old_root", "tun", "kvm", "pid"}]: what is in the jail's directory
  running       \* the jailers whose Firecracker runs
jvars == <<opt, version, step, file, at, inherited, leaf, tasks, chrooted, dir, running>>

Leaf == Depth + 1
GoTo(j, s) == step' = [step EXCEPT ![j] = s]
Jump(j, s, f, l) == /\ step' = [step EXCEPT ![j] = s]
                    /\ file' = [file EXCEPT ![j] = f] /\ at' = [at EXCEPT ![j] = l]
Id(j) == opt[j].id
cgUnchanged == UNCHANGED <<inherited, leaf, tasks>>
dirUnchanged == UNCHANGED <<chrooted, dir, running>>

-----------------------------------------------------------------------------
(* Env::run up to the cgroups.                                             *)

\* copy_exec_to_chroot, join_netns, ResourceLimits::install
Prepare(j) ==
    /\ step[j] = "start"
    /\ IF \E k \in running : Id(k) = Id(j) THEN Jump(j, "failed", 1, Leaf)
       ELSE Jump(j, "create_dir", 1, Leaf) \/ Jump(j, "failed", 1, Leaf)
    /\ cgUnchanged /\ dirUnchanged /\ UNCHANGED <<opt, version>>

\* write_value: the microVM's cgroup directory is created, its files are empty
FirstLevel == IF version = 1 THEN Leaf ELSE 0
create_dir(j) ==
    /\ step[j] = "create_dir"
    /\ Jump(j, IF version = 1 THEN "read" ELSE "subtree", file[j], FirstLevel)
    /\ cgUnchanged /\ dirUnchanged /\ UNCHANGED <<opt, version>>

-----------------------------------------------------------------------------
(* inherit_from_parent_aux on the path of level at[j].                     *)

cg_parent_depth == Depth
\* retry_depth of the call for level l
retry_left(l) == cg_parent_depth + l > Leaf

\* The caller: one level down, or write_value itself.
Return(j, ok) ==
    IF at[j] = Leaf THEN Jump(j, IF ok THEN "value" ELSE "failed", file[j], Leaf)
    ELSE Jump(j, "read_again", file[j], at[j] + 1)

ParentSet(j) == inherited[file[j]][at[j] - 1]

ReadParent(j) ==
    /\ step[j] = "read"
    /\ IF ParentSet(j) THEN GoTo(j, "write") /\ UNCHANGED <<file, at>>
       ELSE IF retry_left(at[j]) THEN Jump(j, "read", file[j], at[j] - 1)
       ELSE Return(j, FALSE)
    /\ cgUnchanged /\ dirUnchanged /\ UNCHANGED <<opt, version>>

ReadAgain(j) ==
    /\ step[j] = "read_again"
    /\ IF ParentSet(j) THEN GoTo(j, "write") /\ UNCHANGED <<file, at>> ELSE Return(j, FALSE)
    /\ cgUnchanged /\ dirUnchanged /\ UNCHANGED <<opt, version>>

\* The write may fail where another jailer has set the file already.
WriteLevel(j) ==
    /\ step[j] = "write"
    /\ \/ Return(j, TRUE) /\ IF at[j] = Leaf THEN leaf' = [leaf EXCEPT ![Id(j)] = @ \cup {file[j]}] /\ UNCHANGED inherited
                             ELSE inherited' = [inherited EXCEPT ![file[j]][at[j]] = TRUE] /\ UNCHANGED leaf
       \/ at[j] < Leaf /\ inherited[file[j]][at[j]] /\ Return(j, FALSE) /\ UNCHANGED <<inherited, leaf>>
    /\ dirUnchanged /\ UNCHANGED <<opt, version, tasks>>

-----------------------------------------------------------------------------
(* write_all_subtree_control: from the mount point down to the parent.     *)

LastSubtree == Depth

WriteSubtree(j) ==
    /\ step[j] = "subtree"
    /\ LET l == at[j] IN
       IF l > 0 /\ ~inherited[file[j]][l - 1] THEN GoTo(j, "failed") /\ UNCHANGED <<file, at, inherited>>
       ELSE /\ inherited' = [inherited EXCEPT ![file[j]][l] = TRUE]
            /\ IF l < LastSubtree THEN Jump(j, "subtree", file[j], l + 1) ELSE Jump(j, "value", file[j], Leaf)
    /\ dirUnchanged /\ UNCHANGED <<opt, version, leaf, tasks>>

\* writeln_special of the value, then the next cgroup, or the second loop of run
after_value(f) == IF f + 1 \in Files THEN "create_dir" ELSE "attach"
WriteValue(j) ==
    /\ step[j] = "value"
    /\ IF inherited[file[j]][Depth]
       THEN /\ leaf' = [leaf EXCEPT ![Id(j)] = @ \cup {file[j]}]
            /\ Jump(j, after_value(file[j]), IF file[j] + 1 \in Files THEN file[j] + 1 ELSE 1, Leaf)
       ELSE GoTo(j, "failed") /\ UNCHANGED <<file, at, leaf>>
    /\ dirUnchanged /\ UNCHANGED <<opt, version, inherited, tasks>>

attach_pid(j) ==
    /\ step[j] = "attach"
    /\ IF leaf[Id(j)] = Files THEN GoTo(j, "chroot") /\ tasks' = tasks \cup {j}
       ELSE GoTo(j, "failed") /\ UNCHANGED tasks
    /\ dirUnchanged /\ UNCHANGED <<opt, version, file, at, inherited, leaf>>

-----------------------------------------------------------------------------
(* The jail's directory.  j's jailer creates an entry, which must not exist. *)

CreateNew(j, entry, next) ==
    IF entry \in dir[Id(j)] THEN GoTo(j, "failed") /\ UNCHANGED dir
    ELSE GoTo(j, next) /\ dir' = [dir EXCEPT ![Id(j)] = @ \cup {entry}]

\* chroot.rs: a failure of a mount leaves old_root behind
mkdir_old_root(j) ==
    /\ step[j] = "chroot" /\ CreateNew(j, "old_root", "pivot")
    /\ cgUnchanged /\ UNCHANGED <<opt, version, file, at, chrooted, running>>
chroot_failed == "failed"
pivot_root(j) ==
    /\ step[j] = "pivot"
    /\ \/ GoTo(j, "mknod_tun") /\ chrooted' = chrooted \cup {j} /\ dir' = [dir EXCEPT ![Id(j)] = @ \ {"old_root"}]
       \/ GoTo(j, chroot_failed) /\ UNCHANGED <<chrooted, dir>>
    /\ cgUnchanged /\ UNCHANGED <<opt, version, file, at, running>>

\* Mutant: a device that exists is taken as it is.
mknod_existing(j, dev, next) == GoTo(j, next) /\ dir' = [dir EXCEPT ![Id(j)] = @ \cup {dev}]
mknod_and_own_dev(j, dev, next) == CreateNew(j, dev, next)

MknodTun(j) ==
    /\ step[j] = "mknod_tun" /\ mknod_and_own_dev(j, "tun", "mknod_kvm")
    /\ cgUnchanged /\ UNCHANGED <<opt, version, file, at, chrooted, running>>
MknodKvm(j) ==
    /\ step[j] = "mknod_kvm" /\ mknod_and_own_dev(j, "kvm", "exec")
    /\ cgUnchanged /\ UNCHANGED <<opt, version, file, at, chrooted, running>>

\* exec_command, or exec_into_new_pid_ns: the child runs before its pid is saved
Exec(j) ==
    /\ step[j] = "exec" /\ running' = running \cup {j}
    /\ GoTo(j, IF opt[j].pidns THEN "save_pid" ELSE "done")
    /\ cgUnchanged /\ UNCHANGED <<opt, version, file, at, chrooted, dir>>
\* The host may also fail to create or to write the pid file: the jailer ends
\* with an error, and with its child running.
save_exec_file_pid(j) ==
    /\ step[j] = "save_pid"
    /\ \/ CreateNew(j, "pid", "done")
       \/ GoTo(j, "unsaved") /\ (dir' = [dir EXCEPT ![Id(j)] = @ \cup {"pid"}] \/ UNCHANGED dir)
    /\ cgUnchanged /\ UNCHANGED <<opt, version, file, at, chrooted, running>>

\* Firecracker exits; and, as the documentation asks, the user removes what is left of a jail nobody uses.
Exits(j) ==
    /\ j \in running /\ step[j] \in {"done", "unsaved"} /\ running' = running \ {j}
    /\ cgUnchanged /\ UNCHANGED <<opt, version, step, file, at, chrooted, dir>>
Cleanup(i) ==
    /\ dir[i] # {} /\ \A j \in Jailers : Id(j) = i => j \notin running /\ step[j] \in {"start", "done", "unsaved", "failed"}
    /\ dir' = [dir EXCEPT ![i] = {}] /\ leaf' = [leaf EXCEPT ![i] = {}]
    /\ UNCHANGED <<opt, version, step, file, at, inherited, tasks, chrooted, running>>

JailerStep(j) ==
    \/ Prepare(j) \/ create_dir(j) \/ ReadParent(j) \/ ReadAgain(j) \/ WriteLevel(j) \/ WriteSubtree(j)
    \/ WriteValue(j) \/ attach_pid(j) \/ mkdir_old_root(j) \/ pivot_root(j) \/ MknodTun(j) \/ MknodKvm(j)
    \/ Exec(j) \/ save_exec_file_pid(j) \/ Exits(j)

JailerInit ==
    /\ opt \in [Jailers -> [id : Ids, pidns : BOOLEAN]] /\ version \in {1, 2}
    /\ step = [j \in Jailers |-> "start"] /\ file = [j \in Jailers |-> 1] /\ at = [j \in Jailers |-> Leaf]
    /\ inherited = [f \in Files |-> [l \in 0..Depth |-> version = 1 /\ l = 0]]
    /\ leaf = [i \in Ids |-> {}] /\ tasks = {} /\ chrooted = {} /\ dir = [i \in Ids |-> {}] /\ running = {}

JailerNext == (\E j \in Jailers : JailerStep(j)) \/ (\E i \in Ids : Cleanup(i))

JailerSpec == JailerInit /\ [][JailerNext]_jvars

-----------------------------------------------------------------------------
(* Properties.                                                             *)

\* Types of the steps of the jailers and the file system they share.
JailerTypeOK ==
    /\ step \in [Jailers -> {"start", "create_dir", "read", "read_again", "write", "subtree", "value", "attach", "chroot",
                           "pivot", "mknod_tun", "mknod_kvm", "exec", "save_pid", "done", "unsaved", "failed"}]
    /\ file \in [Jailers -> Files] /\ at \in [Jailers -> 0..Leaf]
    /\ inherited \in [Files -> [0..Depth -> BOOLEAN]] /\ leaf \in [Ids -> SUBSET Files]
    /\ dir \in [Ids -> SUBSET {"old_root", "tun", "kvm", "pid"}]
    /\ tasks \subseteq Jailers /\ chrooted \subseteq Jailers /\ running \subseteq Jailers

CgroupStepSucceeds ==
    \A j \in Jailers :
      step[j] \in {"create_dir", "read", "read_again", "write", "subtree", "value", "attach"} => step'[j] # "failed"

\* Firecracker runs only in the jail: with the jail as its root, in its cgroup
\* with every requested value set, and with the devices in place.
ExecIsJailed ==
    \A j \in running : /\ j \in chrooted /\ j \in tasks /\ leaf[Id(j)] = Files
                       /\ {"tun", "kvm"} \subseteq dir[Id(j)]

\* A jailer that fails leaves no Firecracker behind.  With a new PID namespace its
\* last fallible step comes after the child has started: only an error of the
\* host on the pid file ("unsaved") does, never what another jailer left.
\* And no two Firecrackers run in one jail, one without a pid file included.
JailIsExclusive ==
    /\ \A j \in Jailers : step[j] = "failed" => j \notin running
    /\ \A j, k \in running : Id(j) = Id(k) => j = k

\* Jailers at work at the same time do not disturb each other: a Firecracker
\* that runs has its own jail as root, its cgroup and its devices, a jailer that
\* fails leaves none behind unless the host failed to write its pid file, and the
\* cgroup steps succeed whatever the others do to the parent cgroups.
JailersKeepApart ==
    /\ [](ExecIsJailed /\ JailIsExclusive)
    /\ [][CgroupStepSucceeds]_jvars
=============================================================================
