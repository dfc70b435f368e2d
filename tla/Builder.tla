------------------------------ MODULE Builder ------------------------------
(***************************************************************************)
(* Building a microVM, for boot and from a snapshot (vmm/src/builder.rs),    *)
(* with the MMIO device manager (vmm/src/device_manager/mmio.rs, persist.rs):*)
(* each step may fail, a failed boot may be tried again in the same process, *)
(* and what the guest has been told of its devices must still be true after  *)
(* a restore in another process.                                             *)
(***************************************************************************)
EXTENDS Integers, Sequences, FiniteSets, Functions

CONSTANTS Configs,       \* sequences of devices, in the order they are attached
          IRQ_BASE, IRQ_MAX,
          MaxBoots, MaxRestores

\* The devices of the configurations.  The builders of VmResources keep the ids
\* of the devices of a kind apart.
Devices == UNION {Range(c) : c \in Configs}
identifier(d) == <<d.type, d.id>>

ASSUME BuilderAssumption ==
    /\ IRQ_BASE \in Nat /\ IRQ_MAX \in Nat /\ Configs \subseteq Seq(Devices)
    /\ \A c \in Configs : \A i, j \in 1..Len(c) : identifier(c[i]) = identifier(c[j]) => i = j

NoVmm == [stage |-> "none"]
Serial == [type |-> "serial", id |-> "serial"]
VmmSub == [type |-> "vmm", id |-> "vmm"]
IsVirtio(d) == d.type # "boot_timer"

VARIABLES
  conf,            \* the devices of VmResources
  boot_cmdline,    \* BootConfig.cmdline
  vm,             \* what is being built, or runs
  subs,            \* subscribers of the event manager: <<generation, device>>
  stdin_reg,       \* the generation of the serial device that stdin is registered for
  gen,             \* the attempt that vmm belongs to
  filtered,        \* the seccomp filter of the VMM thread is loaded
  saved,           \* the device states of a snapshot
  guest_cmdline,   \* what guest memory, saved with the snapshot, tells of the devices
  restores
bdvars == <<conf, boot_cmdline, vm, subs, stdin_reg, gen, filtered, saved, guest_cmdline, restores>>

-----------------------------------------------------------------------------
(* The device manager.                                                     *)

Manager == [info |-> [i \in {} |-> 0], next_irq |-> IRQ_BASE, used |-> {}]

\* IdAllocator and AddressAllocator (first match); a slot is MMIO_LEN long.
first_free(used) == CHOOSE a \in 1..(Cardinality(used) + 1) : a \notin used /\ \A b \in 1..(a - 1) : b \in used

irq_after(m) == m.next_irq + 1

can_allocate(m, irq_count) == m.next_irq + irq_count <= IRQ_MAX + 1

\* register_mmio_device after allocate_mmio_resources
mmio_registered(m, d, addr, irqs) ==
    [m EXCEPT !.info = [i \in DOMAIN @ \cup {identifier(d)} |->
                          IF i = identifier(d) THEN [addr |-> addr, irqs |-> irqs] ELSE @[i]],
              !.used = @ \cup {addr}]

attached(m, d) ==
    IF IsVirtio(d)
    THEN [mmio_registered(m, d, first_free(m.used), <<m.next_irq>>) EXCEPT !.next_irq = irq_after(m)]
    ELSE mmio_registered(m, d, first_free(m.used), <<>>)

\* Mutant: a restored device takes the first free resources.
restored_fresh(m, d, info) == attached(m, d)
restored(m, d, info) == mmio_registered(m, d, info.addr, info.irqs)

Told(d, info) == [id |-> identifier(d), addr |-> info.addr, irq |-> info.irqs[1]]

-----------------------------------------------------------------------------
(* The event manager: a descriptor is registered once, for the first who     *)
(* asks.                                                                    *)

Subscribe(d) ==
    /\ subs' = subs \cup {<<gen, d>>}
    /\ stdin_reg' = IF d = Serial /\ stdin_reg = 0 THEN gen ELSE stdin_reg

-----------------------------------------------------------------------------
(* build_microvm_for_boot                                                  *)

kept_cmdline(c) == boot_cmdline

after_start == "filter"

StartMicroVm ==
    /\ vm = NoVmm /\ saved = {} /\ gen < MaxBoots /\ gen' = gen + 1
    /\ vm' = [stage |-> "create", left |-> conf, manager |-> Manager, cmdline |-> boot_cmdline, vcpus |-> "none"]
    /\ UNCHANGED <<conf, boot_cmdline, subs, stdin_reg, filtered, saved, guest_cmdline, restores>>

\* create_vmm_and_vcpus, after the guest memory, the kernel and the initrd
create_vmm_and_vcpus ==
    /\ vm.stage = "create" /\ Subscribe(Serial)
    /\ vm' = [vm EXCEPT !.stage = "attach", !.vcpus = "created"]
    /\ UNCHANGED <<conf, boot_cmdline, gen, filtered, saved, guest_cmdline, restores>>

\* attach_virtio_device or attach_boot_timer_device of the next device
attach_device ==
    /\ vm.stage = "attach" /\ vm.left # <<>>
    /\ LET d == Head(vm.left)
           m == attached(vm.manager, d)
           c == IF IsVirtio(d) THEN Append(vm.cmdline, Told(d, m.info[identifier(d)])) ELSE vm.cmdline
       IN /\ can_allocate(vm.manager, IF IsVirtio(d) THEN 1 ELSE 0)
          /\ IF IsVirtio(d) THEN Subscribe(d) ELSE UNCHANGED <<subs, stdin_reg>>
          /\ vm' = [vm EXCEPT !.left = Tail(@), !.manager = m, !.cmdline = c]
          /\ boot_cmdline' = kept_cmdline(c)
    /\ UNCHANGED <<conf, gen, filtered, saved, guest_cmdline, restores>>

\* The device is subscribed before its registration fails.
attach_fails ==
    /\ vm.stage = "attach" /\ vm.left # <<>> /\ IsVirtio(Head(vm.left))
    /\ Subscribe(Head(vm.left)) /\ vm' = NoVmm
    /\ UNCHANGED <<conf, boot_cmdline, gen, filtered, saved, guest_cmdline, restores>>

configure_system_for_boot ==
    /\ vm.stage = "attach" /\ vm.left = <<>>
    /\ guest_cmdline' = vm.cmdline /\ vm' = [vm EXCEPT !.stage = "start"]
    /\ UNCHANGED <<conf, boot_cmdline, subs, stdin_reg, gen, filtered, saved, restores>>

start_vcpus ==
    /\ vm.stage = "start" /\ vm' = [vm EXCEPT !.stage = after_start, !.vcpus = "paused"]
    /\ UNCHANGED <<conf, boot_cmdline, subs, stdin_reg, gen, filtered, saved, guest_cmdline, restores>>

apply_filter ==
    /\ vm.stage = "filter" /\ filtered' = TRUE /\ vm' = [vm EXCEPT !.stage = "resume"]
    /\ UNCHANGED <<conf, boot_cmdline, subs, stdin_reg, gen, saved, guest_cmdline, restores>>

resume_vm ==
    /\ vm.stage = "resume" /\ Subscribe(VmmSub)
    /\ vm' = [vm EXCEPT !.stage = "built", !.vcpus = "running"]
    /\ UNCHANGED <<conf, boot_cmdline, gen, filtered, saved, guest_cmdline, restores>>

\* Any other step returns an error: what was built is dropped.
StepFails ==
    /\ vm.stage \in {"create", "attach", "start", "filter", "resume"} /\ vm' = NoVmm
    /\ UNCHANGED <<conf, boot_cmdline, subs, stdin_reg, gen, filtered, saved, guest_cmdline, restores>>

-----------------------------------------------------------------------------
(* Snapshots.                                                              *)

\* MMIODeviceManager::save of a paused microVM; the boot timer has no state.
save ==
    /\ vm.stage = "built" /\ saved = {}
    /\ saved' = {<<i, vm.manager.info[i]>> : i \in {x \in DOMAIN vm.manager.info : x[1] # "boot_timer"}}
    /\ UNCHANGED <<conf, boot_cmdline, vm, subs, stdin_reg, gen, filtered, guest_cmdline, restores>>

\* A new process loads the snapshot: create_vmm_and_vcpus, then
\* MMIODeviceManager::restore.
LoadSnapshot ==
    /\ saved # {} /\ restores < MaxRestores /\ restores' = restores + 1 /\ gen' = gen + 1
    /\ vm' = [stage |-> "restore", left |-> saved, manager |-> Manager, cmdline |-> <<>>, vcpus |-> "created"]
    /\ subs' = {<<gen', Serial>>} /\ stdin_reg' = gen' /\ filtered' = FALSE
    /\ UNCHANGED <<conf, boot_cmdline, saved, guest_cmdline>>

\* Balloon, block, network, vsock; devices of a kind in any order.
restore_device ==
    /\ vm.stage = "restore" /\ vm.left # {}
    /\ \E t \in {"balloon", "block", "net", "vsock"} :
         /\ \E s \in vm.left : s[1][1] = t
         /\ \A s \in vm.left : s[1][1] = t \/ <<t, s[1][1]>> \in
                {<<"balloon", "block">>, <<"balloon", "net">>, <<"balloon", "vsock">>,
                 <<"block", "net">>, <<"block", "vsock">>, <<"net", "vsock">>}
         /\ \E s \in {x \in vm.left : x[1][1] = t} :
              LET d == [type |-> s[1][1], id |-> s[1][2]]
              IN /\ s[2].addr \notin vm.manager.used
                 /\ vm' = [vm EXCEPT !.left = @ \ {s}, !.manager = restored(@, d, s[2])]
                 /\ Subscribe(d)
    /\ UNCHANGED <<conf, boot_cmdline, gen, filtered, saved, guest_cmdline, restores>>

\* start_vcpus and restore_vcpu_states; the microVM is left paused.
restore_vcpus ==
    /\ vm.stage = "restore" /\ vm.left = {} /\ Subscribe(VmmSub)
    /\ vm' = [vm EXCEPT !.stage = "restore_filter", !.vcpus = "paused"]
    /\ UNCHANGED <<conf, boot_cmdline, gen, filtered, saved, guest_cmdline, restores>>

restore_filter ==
    /\ vm.stage = "restore_filter" /\ filtered' = TRUE /\ vm' = [vm EXCEPT !.stage = "built"]
    /\ UNCHANGED <<conf, boot_cmdline, subs, stdin_reg, gen, saved, guest_cmdline, restores>>

ResumeRestored ==
    /\ vm.stage = "built" /\ vm.vcpus = "paused" /\ vm' = [vm EXCEPT !.vcpus = "running"]
    /\ UNCHANGED <<conf, boot_cmdline, subs, stdin_reg, gen, filtered, saved, guest_cmdline, restores>>

BuilderInit ==
    /\ conf \in Configs /\ boot_cmdline = <<>> /\ vm = NoVmm /\ subs = {} /\ stdin_reg = 0 /\ gen = 0
    /\ filtered = FALSE /\ saved = {} /\ guest_cmdline = <<>> /\ restores = 0

BuilderNext ==
    \/ StartMicroVm \/ create_vmm_and_vcpus \/ attach_device \/ attach_fails \/ configure_system_for_boot
    \/ start_vcpus \/ apply_filter \/ resume_vm \/ StepFails
    \/ save \/ LoadSnapshot \/ restore_device \/ restore_vcpus \/ restore_filter \/ ResumeRestored

BuilderSpec == BuilderInit /\ [][BuilderNext]_bdvars

-----------------------------------------------------------------------------
(* Properties.                                                             *)

Runs == vm # NoVmm /\ vm.vcpus = "running"
Info == vm.manager.info

\* Types of the microVM being built and its devices.
BuilderTypeOK ==
    /\ conf \in Configs /\ gen \in 0..(MaxBoots + MaxRestores) /\ stdin_reg \in 0..gen
    /\ vm.stage \in {"none", "create", "attach", "start", "filter", "resume", "built", "restore", "restore_filter"}
    /\ vm # NoVmm => vm.manager.next_irq \in IRQ_BASE..(IRQ_MAX + 1)

\* A guest that runs has been told of every virtio device once, at the address
\* and the interrupt it has, after failed attempts to boot and after a restore.
GuestToldRight ==
    Runs => /\ Range(guest_cmdline) = {[id |-> i, addr |-> Info[i].addr, irq |-> Info[i].irqs[1]] :
                                         i \in {x \in DOMAIN Info : x[1] # "boot_timer"}}
            /\ Len(guest_cmdline) = Cardinality(Range(guest_cmdline))

\* No two devices of a microVM share an address or an interrupt line, and no
\* line is past the last one of the interrupt controller.
ResourcesDisjoint ==
    vm # NoVmm => \A i, j \in DOMAIN Info :
                     /\ i # j => Info[i].addr # Info[j].addr /\ Range(Info[i].irqs) \cap Range(Info[j].irqs) = {}
                     /\ Range(Info[i].irqs) \subseteq IRQ_BASE..IRQ_MAX

\* The guest finds its devices, after a restore too: its kernel command line
\* names every virtio device once, at the address and interrupt it has, and no
\* two devices share either.
DevicesAreFound == GuestToldRight /\ ResourcesDisjoint
=============================================================================
