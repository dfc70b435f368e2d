----------------------------- MODULE VcpuState ------------------------------
(***************************************************************************)
(* The state of a vCPU and of its VM inside KVM through configuration,       *)
(* snapshot and restore (vmm/src/vstate/vcpu/x86_64.rs, vstate/vm.rs, the    *)
(* TSC checks of build_microvm_from_snapshot, the MSR lists of arch and      *)
(* cpuid).  KVM is modelled by what the comments of the code say of its      *)
(* ioctls.  A part of the state is at "reset", as configured for "boot", or   *)
(* what the "guest" made of it.                                              *)
(***************************************************************************)
EXTENDS Integers, Sequences, FiniteSets

CONSTANTS Hosts,           \* [vendor, model, khz, has_tsc, msrs, features]
          Templates,       \* the CPU templates in use
          MaxMsrEntries,   \* KVM_MAX_MSR_ENTRIES
          MaxGenerations

Msrs == {"star", "deadline", "mtrr", "mce", "bndcfgs", "arch_cap", "mcg_ctl"}
Within(a, b, state) ==
    (IF a > b THEN a - b ELSE b - a) <= (state * 250 + 500000) \div 1000000

\* Hosts of one model differ in frequency by no more than their calibration.
HostAssumption ==
    \A g, h \in Hosts : g.vendor = h.vendor /\ g.model = h.model => Within(g.khz, h.khz, g.khz)

VARIABLES
  host, template,   \* where the process runs; the template the microVM was booted with
  kvm, tsc, msr,    \* inside KVM: the parts, the frequency of the TSC, the MSRs
  msr_list,         \* KvmVcpu::msr_list
  pc, step, state,  \* what is going on, the next ioctl of it, the state saved or restored
  file,             \* the last snapshot
  was,              \* ghost: what KVM held when it was taken
  why,              \* why an operation failed
  generation
vsvars == <<host, template, kvm, tsc, msr, msr_list, pc, step, state, file, was, why, generation>>

NoFile == [version |-> 0]
NoTsc == 0
NoCpuid == [vendor |-> "none", model |-> "none", features |-> {}]
VcpuParts == {"cpuid", "mp_state", "regs", "sregs", "xsave", "xcrs", "debug_regs", "lapic", "vcpu_events"}
VmParts == {"pit", "clock", "pic_master", "pic_slave", "ioapic"}
AtReset == [p \in VcpuParts \cup VmParts |-> IF p = "cpuid" THEN NoCpuid ELSE "reset"]
NoMsr == [m \in Msrs |-> 0]

-----------------------------------------------------------------------------
(* Which MSRs are saved.                                                   *)

msr_should_serialize(m) == m \in {"star", "deadline", "mtrr", "mce"}
supported_guest_msrs(h) == {m \in h.msrs : msr_should_serialize(m)}

cpuid_to_msrs_to_save(c) == {m \in {"bndcfgs", "mtrr", "mce"} : m \in c.features}
msrs_to_save_by_cpuid(c) == IF c.vendor \in {"intel", "amd"} THEN cpuid_to_msrs_to_save(c) ELSE {}
msr_entries_to_save(t) == IF t \in {"T2S", "T2CL"} THEN {"arch_cap"} ELSE {}

\* The templates of Haswell mask MPX, and set MCE and MTRR.
set_cpuid_entries(t, c) ==
    IF t = "None" THEN c
    ELSE [c EXCEPT !.model = IF t = "C3" THEN "ivybridge" ELSE "haswell",
                   !.features = (@ \ {"bndcfgs"}) \cup {"mtrr", "mce"}]
validate_vendor_id(t, h) == t # "None" => h.vendor = IF t = "T2A" THEN "amd" ELSE "intel"

\* The MSR list in pieces of MaxMsrEntries, in the order of a HashSet: any.
chunks(S) ==
    LET n == (Cardinality(S) + MaxMsrEntries - 1) \div MaxMsrEntries
    IN {c \in [1..n -> SUBSET S] :
          /\ UNION {c[k] : k \in 1..n} = S
          /\ \A k \in 1..n : Cardinality(c[k]) =
               IF k < n THEN MaxMsrEntries ELSE Cardinality(S) - (n - 1) * MaxMsrEntries}

-----------------------------------------------------------------------------
(* Booting and running.                                                    *)

Fail(reason) ==
    /\ pc' = "failed" /\ why' = reason
    /\ UNCHANGED <<host, template, kvm, tsc, msr, msr_list, step, state, file, was, generation>>

\* KvmVcpu::configure, after new
configure ==
    LET c == set_cpuid_entries(template, [vendor |-> host.vendor, model |-> host.model, features |-> host.features])
    IN /\ pc = "new" /\ validate_vendor_id(template, host)
       /\ msr_list' = msr_list \cup msrs_to_save_by_cpuid(c) \cup msr_entries_to_save(template)
       /\ msr' = [m \in Msrs |-> IF m \in msr_entries_to_save(template) THEN 1 ELSE msr[m]]
       /\ kvm' = [kvm EXCEPT !["cpuid"] = c, !["regs"] = "boot", !["xsave"] = "boot", !["sregs"] = "boot",
                             !["lapic"] = "boot"]
       /\ pc' = "running"
       /\ UNCHANGED <<host, template, tsc, step, state, file, was, why, generation>>
configure_fails == pc = "new" /\ Fail(IF validate_vendor_id(template, host) THEN "ioctl" ELSE "vendor")

\* The guest changes everything it can; it may leave a startup event in the
\* LAPIC or an exception pending, and the clock stable or not.
GuestRuns ==
    /\ pc = "running" /\ pc' = "paused"
    /\ \E waiting, exception, stable \in BOOLEAN :
         kvm' = [p \in DOMAIN kvm |->
                   CASE p = "cpuid" -> kvm[p]
                     [] p = "mp_state" /\ waiting -> "waiting"
                     [] p = "lapic" /\ waiting -> "startup"
                     [] p = "vcpu_events" /\ ~exception -> "reset"
                     [] p = "clock" /\ stable -> "stable"
                     [] OTHER -> "guest"]
    /\ msr' = [m \in Msrs |-> IF m \in {"star", "deadline"} \cup kvm["cpuid"].features THEN 1 ELSE msr[m]]
    /\ UNCHANGED <<host, template, tsc, msr_list, step, state, file, was, why, generation>>

-----------------------------------------------------------------------------
(* Saving: KvmVcpu::save_state on the vCPU's thread, then Vm::save_state.  *)

SaveOrder == <<"mp_state", "regs", "sregs", "xsave", "xcrs", "debug_regs", "lapic", "tsc_khz",
               "msrs", "vcpu_events", "cpuid", "pit", "clock", "pic_master", "pic_slave", "ioapic">>

\* KVM_GET_MP_STATE lets the vCPU accept what is pending in its LAPIC.
Accepted(k, p) ==
    IF p = "mp_state" /\ k["lapic"] = "startup"
    THEN [k EXCEPT !["lapic"] = "guest", !["mp_state"] = "guest"] ELSE k

clock_flags(v) == IF v = "stable" THEN "guest" ELSE v

\* What an ioctl adds to the state s that is being saved, KVM being in k.
Saved(s, k, p) ==
    CASE p = "tsc_khz" -> {[s EXCEPT !.tsc = IF host.has_tsc THEN tsc ELSE NoTsc]}
      [] p = "msrs" -> {[s EXCEPT !.msrs = [n \in DOMAIN c |-> [m \in c[n] |-> msr[m]]]] : c \in chunks(msr_list)}
      [] p = "clock" -> {[s EXCEPT !.parts[p] = clock_flags(k[p])]}
      [] OTHER -> {[s EXCEPT !.parts[p] = k[p]]}

save_state ==
    /\ pc = "paused" /\ pc' = "save" /\ step' = 1
    /\ state' = [parts |-> AtReset, tsc |-> NoTsc, msrs |-> <<>>]
    /\ UNCHANGED <<host, template, kvm, tsc, msr, msr_list, file, was, why, generation>>

SaveStep ==
    LET p == SaveOrder[step] IN
    /\ pc = "save" /\ step' = step + 1
    /\ kvm' = Accepted(kvm, p)
    /\ state' \in Saved(state, kvm', p)
    /\ pc' = IF step = Len(SaveOrder) THEN "saved" ELSE pc
    /\ UNCHANGED <<host, template, tsc, msr, msr_list, file, was, why, generation>>

\* An ioctl fails; a TSC frequency that cannot be read is left out instead.
SaveFails ==
    /\ pc = "save" /\ SaveOrder[step] # "tsc_khz" /\ pc' = "paused" /\ step' = 1
    /\ UNCHANGED <<host, template, kvm, tsc, msr, msr_list, state, file, was, why, generation>>

ser_saved_msrs(v, msrs) == v < 3 => Len(msrs) = 1

\* Version 1 has no TSC frequency; before version 3 there is one list of MSRs.
Serialize(v) ==
    /\ pc = "saved" /\ pc' = "paused" /\ step' = 1
    /\ IF ser_saved_msrs(v, state.msrs)
       THEN /\ file' = [version |-> v, parts |-> state.parts, tsc |-> IF v < 2 THEN NoTsc ELSE state.tsc,
                        msrs |-> IF v < 3 THEN SubSeq(state.msrs, 1, 1) ELSE state.msrs]
            /\ was' = [kvm |-> kvm, tsc |-> tsc, msr |-> msr, booted |-> generation = 0, host |-> host]
       ELSE UNCHANGED <<file, was>>
    /\ UNCHANGED <<host, template, kvm, tsc, msr, msr_list, state, why, generation>>

-----------------------------------------------------------------------------
(* Restoring in a new process, on any host.                                *)

is_same_model(c, h) == c.vendor = h.vendor /\ c.model = h.model

is_tsc_scaling_required(khz, state_tsc) == ~Within(khz, state_tsc, state_tsc)

LoadSnapshot(h) ==
    LET same == is_same_model(file.parts["cpuid"], h)
        failure == IF same THEN "" ELSE IF file.tsc = NoTsc THEN "tsc" ELSE IF ~h.has_tsc THEN "ioctl" ELSE ""
    IN /\ file # NoFile /\ pc = "paused" /\ generation < MaxGenerations
       /\ generation' = generation + 1 /\ host' = h
       /\ kvm' = AtReset /\ msr' = NoMsr /\ msr_list' = supported_guest_msrs(h)
       /\ tsc' = IF ~same /\ failure = "" /\ is_tsc_scaling_required(h.khz, file.tsc) THEN file.tsc ELSE h.khz
       /\ pc' = IF failure = "" THEN "restore" ELSE "failed"
       /\ why' = failure /\ step' = 1 /\ state' = file
       /\ UNCHANGED <<template, file, was>>

\* Mutant: the MSRs come before the LAPIC.
RestoreMsrsFirst == <<"pit", "clock", "pic_master", "pic_slave", "ioapic", "cpuid", "mp_state",
                      "regs", "sregs", "xsave", "xcrs", "debug_regs", "msrs", "lapic", "vcpu_events">>
RestoreOrder == <<"pit", "clock", "pic_master", "pic_slave", "ioapic", "cpuid", "mp_state",
                  "regs", "sregs", "xsave", "xcrs", "debug_regs", "lapic", "msrs", "vcpu_events">>

\* SET_REGS clears a pending exception; SET_LAPIC needs the APIC base of the
\* special registers; the deadline MSR needs the LAPIC.
SetPart(k, p, v) ==
    CASE p = "regs" -> [k EXCEPT ![p] = v, !["vcpu_events"] = "reset"]
      [] p = "lapic" /\ k["sregs"] = "reset" -> k
      [] OTHER -> [k EXCEPT ![p] = v]
SetMsrs ==
    [m \in Msrs |->
       LET holding == {n \in DOMAIN state.msrs : m \in DOMAIN state.msrs[n]}
       IN IF holding # {} /\ (m = "deadline" => kvm["lapic"] # "reset")
          THEN state.msrs[CHOOSE n \in holding : TRUE][m] ELSE msr[m]]

\* KVM takes no MSR of a feature before it knows the CPUID, and no clock with
\* the stable flag.
Refused(p) ==
    \/ p = "clock" /\ state.parts[p] = "stable"
    \/ p = "msrs" /\ kvm["cpuid"] = NoCpuid

RestoreStep ==
    LET p == RestoreOrder[step] IN
    /\ pc = "restore" /\ ~Refused(p)
    /\ step' = step + 1 /\ pc' = IF step = Len(RestoreOrder) THEN "restored" ELSE pc
    /\ msr' = IF p = "msrs" THEN SetMsrs ELSE msr
    /\ kvm' = IF p = "msrs" THEN kvm ELSE SetPart(kvm, p, state.parts[p])
    /\ UNCHANGED <<host, template, tsc, msr_list, state, file, was, why, generation>>

RestoreFails ==
    pc = "restore" /\ Fail(IF Refused(RestoreOrder[step]) THEN "refused" ELSE "ioctl")

Resume ==
    /\ pc = "restored" /\ pc' = "running"
    /\ UNCHANGED <<host, template, kvm, tsc, msr, msr_list, step, state, file, was, why, generation>>

VcpuStateInit ==
    /\ host \in Hosts /\ template \in Templates
    /\ kvm = AtReset /\ tsc = host.khz /\ msr = NoMsr /\ msr_list = supported_guest_msrs(host)
    /\ pc = "new" /\ step = 1 /\ state = NoFile /\ file = NoFile /\ was = NoFile /\ why = "" /\ generation = 0

VcpuStateNext ==
    \/ configure \/ configure_fails \/ GuestRuns
    \/ save_state \/ SaveStep \/ SaveFails \/ (\E v \in 1..3 : Serialize(v))
    \/ (\E h \in Hosts : LoadSnapshot(h))
    \/ RestoreStep \/ RestoreFails \/ Resume

VcpuStateSpec == VcpuStateInit /\ [][VcpuStateNext]_vsvars

-----------------------------------------------------------------------------
(* Properties.                                                             *)

\* A vCPU that was restored is as it was when it was saved: no ioctl of
\* save_state or restore_state undoes what an earlier one read or wrote, and
\* the interrupt controllers, the timer and the clock come with it.
RestoredIsSaved ==
    pc = "restored" =>
      /\ kvm = [was.kvm EXCEPT !["clock"] = clock_flags(@)]
      /\ \A n \in DOMAIN file.msrs : \A m \in DOMAIN file.msrs[n] : msr[m] = was.msr[m]

\* "If a MSR is writable from inside the Guest [...] then we will need to save
\* it every time we take a snapshot" (configure): no MSR the guest can use is
\* lost, whatever the number of MSRs and the version of the snapshot.  This
\* is so for a snapshot of a microVM that was booted.
MsrsKept == pc = "restored" /\ was.booted => \A m \in Msrs : msr[m] = was.msr[m]

\* The TSC of a restored guest runs, within the tolerance, at the frequency it
\* had, or the load is refused; unless a template gave the guest the model of
\* another host, where is_same_model then skips the check.
TscKept ==
    pc = "restored" /\ was.kvm["cpuid"].model = was.host.model => Within(tsc, was.tsc, was.tsc)

\* A snapshot is only refused where it cannot be restored: KVM refuses nothing
\* that save_state wrote.
RestoreIsAccepted == why # "refused"
=============================================================================
