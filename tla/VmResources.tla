----------------------------- MODULE VmResources ---------------------------
(***************************************************************************)
(* The configuration of a microVM before it boots: VmResources             *)
(* (vmm/src/resources.rs) with the builders of vmm/src/vmm_config.  A file *)
(* that cannot be opened, a tap that cannot be created and the like are    *)
(* failures the environment chooses.                                       *)
(***************************************************************************)
EXTENDS Naturals, Sequences

CONSTANTS
    VcpuCounts, MemSizes, Amounts,  \* values requests carry, in vCPUs and MiB
    Drives, Ifaces, Macs, Addrs,    \* identifiers and addresses
    MaxDrives, MaxSets              \* bounds: drives, requests made

ASSUME ResAssumption == MemSizes \subseteq Nat /\ Amounts \subseteq Nat

VARIABLES
    vm_config,           \* vcpu_count, smt, mem_size_mib
    boot_source,         \* the configuration named and the one built
    block,               \* BlockBuilder::list
    net_devices,         \* NetBuilder's list
    balloon, vsock,      \* sets of at most one
    sockets,             \* vsock socket files that exist
    res,                 \* the last update: whether it was refused
    sets                 \* requests made
rvars == <<vm_config, boot_source, block, net_devices, balloon, vsock, sockets, res, sets>>

Nothing == {}
Some(x) == {x}
unwrap_or(opt, d) == IF opt = {} THEN d ELSE CHOOSE x \in opt : TRUE
Options(S) == {Nothing} \cup {Some(x) : x \in S}

swap(s, i, j) == [s EXCEPT ![i] = s[j], ![j] = s[i]]
position(s, id) == {i \in 1..Len(s) : s[i].id = id}

-----------------------------------------------------------------------------
(* Machine configuration.                                                  *)

valid_vcpus(smt, n) == n # 0 /\ ~(smt /\ n > 1 /\ n % 2 = 1)
\* Mutant: a memory size is not compared with the balloon.
any_mem_fits(mem) == TRUE
mem_fits_balloon(mem) == \A b \in balloon : mem >= b.amount_mib

\* The vCPUs are stored before the memory size is looked at.
update_vm_config(cfg) ==
    LET vcpu_count == unwrap_or(cfg.vcpu_count, vm_config.vcpu_count)
        smt == unwrap_or(cfg.smt, vm_config.smt)
        mem == unwrap_or(cfg.mem_size_mib, vm_config.mem_size_mib)
        vcpus_set == [vm_config EXCEPT !.vcpu_count = vcpu_count, !.smt = smt]
    IN  IF ~valid_vcpus(smt, vcpu_count) THEN vm_config' = vm_config /\ res' = "refused"
        ELSE IF mem = 0 \/ ~mem_fits_balloon(mem) THEN vm_config' = vcpus_set /\ res' = "refused"
        ELSE vm_config' = [vcpus_set EXCEPT !.mem_size_mib = mem] /\ res' = "ok"

VmUpdateConfig == [vcpu_count : Options(VcpuCounts), smt : Options(BOOLEAN), mem_size_mib : Options(MemSizes)]

UpdateVmConfig ==
    \E cfg \in VmUpdateConfig :
      /\ update_vm_config(cfg)
      /\ UNCHANGED <<boot_source, block, net_devices, balloon, vsock, sockets>>

-----------------------------------------------------------------------------
(* Drives.                                                                 *)

has_root_device == block # <<>> /\ block[1].root
\* The slot is updated, and a new root device moves to the front.
update_slot(index, drive) ==
    LET updated == [block EXCEPT ![index] = drive]
    IN  IF index # 1 /\ drive.root THEN swap(updated, 1, index) ELSE updated

insert_block(drive, created) ==
    LET at == position(block, drive.id)
    IN  IF (drive.root /\ has_root_device /\ at # {1}) \/ ~created
        THEN block' = block /\ res' = "refused"
        ELSE /\ res' = "ok"
             /\ block' = IF at # {} THEN update_slot(CHOOSE i \in at : TRUE, drive)
                         ELSE IF drive.root THEN <<drive>> \o block ELSE Append(block, drive)

SetBlockDevice ==
    \E drive \in [id : Drives, root : BOOLEAN], created \in BOOLEAN :
      /\ Len(block) < MaxDrives \/ position(block, drive.id) # {}
      /\ insert_block(drive, created)
      /\ UNCHANGED <<vm_config, boot_source, net_devices, balloon, vsock, sockets>>

-----------------------------------------------------------------------------
(* Network interfaces and the MMDS network stacks on them.                 *)

mac_conflict(cfg) == \E i \in 1..Len(net_devices) :
    cfg.mac # Nothing /\ cfg.mac = net_devices[i].mac /\ cfg.id # net_devices[i].id

swap_remove(s, i) == SubSeq([s EXCEPT ![i] = s[Len(s)]], 1, Len(s) - 1)

\* The interface that is updated is removed before its successor is created.
build_net(cfg, created) ==
    LET at == position(net_devices, cfg.id)
        removed == IF at = {} THEN net_devices ELSE swap_remove(net_devices, CHOOSE i \in at : TRUE)
    IN  IF mac_conflict(cfg) THEN net_devices' = net_devices /\ res' = "refused"
        ELSE IF ~created THEN net_devices' = removed /\ res' = "refused"
        ELSE net_devices' = Append(removed, [id |-> cfg.id, mac |-> cfg.mac, mmds |-> Nothing]) /\ res' = "ok"

BuildNetDevice ==
    \E cfg \in [id : Ifaces, mac : Options(Macs)], created \in BOOLEAN :
      /\ build_net(cfg, created)
      /\ UNCHANGED <<vm_config, boot_source, block, balloon, vsock, sockets>>

stack_of(net, ifaces, addr) == IF net.id \in ifaces THEN Some(addr) ELSE Nothing

\* set_mmds_network_stack_config: every interface named must exist; the others
\* lose their stack.
SetMmdsConfig ==
    \E ifaces \in SUBSET Ifaces, addr \in Addrs, link_local \in BOOLEAN :
      LET known == {net_devices[i].id : i \in 1..Len(net_devices)}
          valid == link_local /\ ifaces # {} /\ ifaces \subseteq known
      IN  /\ res' = IF valid THEN "ok" ELSE "refused"
          /\ net_devices' = IF valid
                            THEN [i \in 1..Len(net_devices) |->
                                    [net_devices[i] EXCEPT !.mmds = stack_of(net_devices[i], ifaces, addr)]]
                            ELSE net_devices
          /\ UNCHANGED <<vm_config, boot_source, block, balloon, vsock, sockets>>

-----------------------------------------------------------------------------
(* Balloon, vsock and boot source.                                         *)

SetBalloonDevice ==
    \E amount \in Amounts, created \in BOOLEAN :
      /\ IF amount > vm_config.mem_size_mib \/ ~created THEN balloon' = balloon /\ res' = "refused"
         ELSE balloon' = Some([amount_mib |-> amount]) /\ res' = "ok"
      /\ UNCHANGED <<vm_config, boot_source, block, net_devices, vsock, sockets>>

socket_removed(existing) == sockets \ existing

\* VsockBuilder::insert drops the device there is, with its socket, first; the
\* new device binds a socket of its own.
SetVsockDevice ==
    \E path \in {"v1", "v2"}, removed, created \in BOOLEAN :
      /\ IF vsock # Nothing /\ ~removed
         THEN vsock' = Nothing /\ sockets' = sockets /\ res' = "refused"
         ELSE IF created /\ path \notin socket_removed(vsock)
         THEN vsock' = Some(path) /\ sockets' = socket_removed(vsock) \cup {path} /\ res' = "ok"
         ELSE vsock' = Nothing /\ sockets' = socket_removed(vsock) /\ res' = "refused"
      /\ UNCHANGED <<vm_config, boot_source, block, net_devices, balloon>>

\* build_boot_source keeps the configuration even if it cannot be built.
BuildBootSource ==
    \E kernel \in {"k1", "k2"}, opened \in BOOLEAN :
      /\ boot_source' = [config |-> kernel, builder |-> IF opened THEN Some(kernel) ELSE boot_source.builder]
      /\ res' = IF opened THEN "ok" ELSE "refused"
      /\ UNCHANGED <<vm_config, block, net_devices, balloon, vsock, sockets>>

-----------------------------------------------------------------------------
ResInit ==
    /\ vm_config = [vcpu_count |-> 1, smt |-> FALSE, mem_size_mib |-> 2]
    /\ boot_source = [config |-> "none", builder |-> Nothing]
    /\ block = <<>> /\ net_devices = <<>> /\ balloon = Nothing /\ vsock = Nothing /\ sockets = {}
    /\ res = "ok" /\ sets = 0

ResNext ==
    /\ sets < MaxSets /\ sets' = sets + 1
    /\ \/ UpdateVmConfig \/ SetBlockDevice \/ BuildNetDevice \/ SetMmdsConfig
       \/ SetBalloonDevice \/ SetVsockDevice \/ BuildBootSource

ResSpec == ResInit /\ [][ResNext]_rvars

-----------------------------------------------------------------------------
(* Properties.                                                             *)

\* Types of the resources configured before boot.
ResTypeOK ==
    /\ vm_config \in [vcpu_count : VcpuCounts \cup {1}, smt : BOOLEAN, mem_size_mib : MemSizes \cup {2}]
    /\ block \in Seq([id : Drives, root : BOOLEAN]) /\ Len(block) <= MaxDrives
    /\ res \in {"ok", "refused"}

\* There is at most one root drive and it is the first of the list, whatever
\* updates turn drives into root drives and back ("at most one root block
\* device and it would be the first in the list", BlockBuilder).
RootIsFirst == \A i \in 1..Len(block) : block[i].root => i = 1

\* Drives and interfaces have distinct identifiers and, where they are given,
\* interfaces have distinct MAC addresses after any series of updates.
NoDuplicates ==
    /\ \A i, j \in 1..Len(block) : block[i].id = block[j].id => i = j
    /\ \A i, j \in 1..Len(net_devices) :
         \/ i = j
         \/ net_devices[i].id # net_devices[j].id
            /\ (net_devices[i].mac = Nothing \/ net_devices[i].mac # net_devices[j].mac)

\* The balloon never asks for more than the memory of the microVM, whichever
\* of the two is set last (set_balloon_device and update_vm_config).
BalloonFitsMemory == \A b \in balloon : b.amount_mib <= vm_config.mem_size_mib

\* The interfaces with an MMDS stack all answer at one address: mmds_config
\* reports the first one's ("they will all be equal").
MmdsAddressesAgree ==
    \A i, j \in 1..Len(net_devices) :
      net_devices[i].mmds # Nothing /\ net_devices[j].mmds # Nothing => net_devices[i].mmds = net_devices[j].mmds

\* Whatever the order of the setters, the configuration is consistent: the root
\* drive is the first, no drive, interface or MAC address is there twice, the
\* balloon is not larger than the memory, and all MMDS stacks answer at one
\* address.
ConfigIsConsistent == RootIsFirst /\ NoDuplicates /\ BalloonFitsMemory /\ MmdsAddressesAgree
=============================================================================
