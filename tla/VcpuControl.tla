---------------------------- MODULE VcpuControl ----------------------------
(***************************************************************************)
(* The VMM thread and the vCPU threads (vmm/src/lib.rs and                 *)
(* vmm/src/vstate/vcpu/mod.rs).  The VMM sends an event to each vCPU and    *)
(* kicks it with a signal, then reads one response from each.  A vCPU that  *)
(* is running guest code looks at its events only when KVM_RUN was          *)
(* interrupted.  Teardown starts with exit_evt and ends when every vCPU     *)
(* thread is joined.                                                       *)
(***************************************************************************)
EXTENDS Integers, Sequences

CONSTANTS
    N,            \* vCPUs 1..N
    StrictClient, \* Resume is only asked of a VM that is reported Paused
    MaxCommands,  \* bound on the API requests
    MaxTimeouts   \* bound on the responses that take RECV_TIMEOUT_SEC

\* What the constants must be.
ControlAssumption ==
    /\ N \in Nat \ {0}
    /\ StrictClient \in BOOLEAN
    /\ MaxCommands \in Nat /\ MaxTimeouts \in Nat

Vcpus == 1..N
Commands == {"Resume", "Pause", "SaveState", "RestoreState"}
ExitCodes == {"Ok", "GenericError"}

VARIABLES
    st,             \* state of each vCPU thread
    code,           \* with which code it exits
    signal,         \* a kick is pending for the thread
    immediate_exit, \* kvm_run.immediate_exit
    events,         \* channel to each vCPU
    responses,      \* channel from each vCPU
    exit_evt,       \* vcpus_exit_evt is readable
    pc,             \* where the VMM thread is
    op, i, bad,     \* the command, the vCPU it has got to, a response was wrong
    vm_state,       \* instance_info.state
    exit_code,      \* what Vmm::process has found
    shutdown,       \* shutdown_exit_code
    commands, timeouts,
    unquiet         \* history: vCPUs not paused when a save succeeded

vcpu == <<st, code, signal, immediate_exit, events, responses>>
vmm_thread == <<pc, op, i, bad, vm_state, exit_code, shutdown, commands, timeouts, unquiet>>
vars == <<vcpu, exit_evt, vmm_thread>>

None == "None"

Init ==
    /\ st = [v \in Vcpus |-> "paused"]
    /\ code = [v \in Vcpus |-> None]
    /\ signal = [v \in Vcpus |-> FALSE]
    /\ immediate_exit = [v \in Vcpus |-> FALSE]
    /\ events = [v \in Vcpus |-> <<>>]
    /\ responses = [v \in Vcpus |-> <<>>]
    /\ exit_evt = FALSE
    /\ pc = "idle" /\ op = None /\ i = 1 /\ bad = FALSE
    /\ vm_state = "Paused"
    /\ exit_code = None /\ shutdown = None
    /\ commands = 0 /\ timeouts = 0 /\ unquiet = {}

----------------------------------------------------------------------------
(* A vCPU thread.                                                          *)

Respond(v, r) == responses' = [responses EXCEPT ![v] = Append(@, r)]
Take(v) == events' = [events EXCEPT ![v] = Tail(@)]
Goto(v, s) == st' = [st EXCEPT ![v] = s]

\* The signal handler.
HandleSignal(v) ==
    /\ signal[v] /\ st[v] # "finished"
    /\ signal' = [signal EXCEPT ![v] = FALSE]
    /\ immediate_exit' = [immediate_exit EXCEPT ![v] = TRUE]
    /\ UNCHANGED <<st, code, events, responses, exit_evt, vmm_thread>>

\* run_emulation: KVM_RUN returns EINTR, immediate_exit is cleared.
Interrupted(v) ==
    /\ st[v] = "running" /\ immediate_exit[v]
    /\ immediate_exit' = [immediate_exit EXCEPT ![v] = FALSE]
    /\ Goto(v, "interrupted")
    /\ UNCHANGED <<code, signal, events, responses, exit_evt, vmm_thread>>

\* run_emulation: VcpuEmulation::Stopped, or an error.
EmulationStops(v) ==
    /\ st[v] = "running" /\ ~immediate_exit[v]
    /\ \E c \in ExitCodes : code' = [code EXCEPT ![v] = c]
    /\ Goto(v, "exit")
    /\ UNCHANGED <<signal, immediate_exit, events, responses, exit_evt, vmm_thread>>

\* The guest resets the machine through the keyboard controller, whose
\* reset_evt is vcpus_exit_evt; the vCPU goes on.
GuestReset(v) ==
    /\ st[v] = "running" /\ ~immediate_exit[v] /\ ~exit_evt
    /\ exit_evt' = TRUE
    /\ UNCHANGED <<vcpu, vmm_thread>>

RunningSaves(v) ==
    /\ st[v] = "interrupted"
    /\ IF events[v] = <<>>
       THEN Goto(v, "running") /\ UNCHANGED <<events, responses>>
       ELSE /\ Take(v)
            /\ LET e == Head(events[v])
               IN  \/ e = "Pause" /\ Respond(v, "Paused") /\ Goto(v, "paused")
                   \/ e = "Resume" /\ Respond(v, "Resumed") /\ Goto(v, "running")
                   \/ /\ e = "SaveState"
                      /\ Respond(v, "SavedState") /\ Goto(v, "running")
                   \/ /\ e = "RestoreState"
                      /\ Respond(v, "NotAllowed") /\ Goto(v, "running")
                   \/ e = "Finish" /\ Goto(v, "finished") /\ UNCHANGED responses
    /\ UNCHANGED <<code, signal, immediate_exit, exit_evt, vmm_thread>>

\* The end of Vcpu::running: at most one event is taken, then back to KVM_RUN.
Running(v) ==
    /\ st[v] = "interrupted"
    /\ IF events[v] = <<>>
       THEN Goto(v, "running") /\ UNCHANGED <<events, responses>>
       ELSE /\ Take(v)
            /\ LET e == Head(events[v])
               IN  \/ e = "Pause" /\ Respond(v, "Paused") /\ Goto(v, "paused")
                   \/ e = "Resume" /\ Respond(v, "Resumed") /\ Goto(v, "running")
                   \/ /\ e \in {"SaveState", "RestoreState"}
                      /\ Respond(v, "NotAllowed") /\ Goto(v, "running")
                   \/ e = "Finish" /\ Goto(v, "finished") /\ UNCHANGED responses
    /\ UNCHANGED <<code, signal, immediate_exit, exit_evt, vmm_thread>>

\* Vcpu::paused blocks in recv.  KVM may fail to save or restore the state.
Paused(v) ==
    /\ st[v] = "paused" /\ events[v] # <<>>
    /\ Take(v)
    /\ LET e == Head(events[v])
       IN  \/ e = "Resume" /\ Respond(v, "Resumed") /\ Goto(v, "running")
           \/ e = "Pause" /\ Respond(v, "Paused") /\ UNCHANGED st
           \/ /\ e = "SaveState" /\ UNCHANGED st
              /\ Respond(v, "SavedState") \/ Respond(v, "Error")
           \/ /\ e = "RestoreState" /\ UNCHANGED st
              /\ Respond(v, "RestoredState") \/ Respond(v, "Error")
           \/ e = "Finish" /\ Goto(v, "finished") /\ UNCHANGED responses
    /\ UNCHANGED <<code, signal, immediate_exit, exit_evt, vmm_thread>>

\* Vcpu::exit: first the eventfd, then Exited, and again for every event until
\* Finish.
ExitSignals(v) ==
    /\ st[v] = "exit"
    /\ exit_evt' = TRUE
    /\ Goto(v, "exiting")
    /\ UNCHANGED <<code, signal, immediate_exit, events, responses, vmm_thread>>

ExitResponds(v) ==
    /\ st[v] = "exiting"
    /\ Respond(v, code[v])
    /\ Goto(v, "exited")
    /\ UNCHANGED <<code, signal, immediate_exit, events, exit_evt, vmm_thread>>

Exited(v) ==
    /\ st[v] = "exited" /\ events[v] # <<>>
    /\ Take(v)
    /\ Goto(v, IF Head(events[v]) = "Finish" THEN "finished" ELSE "exiting")
    /\ UNCHANGED <<code, signal, immediate_exit, responses, exit_evt, vmm_thread>>

VcpuStep(v) ==
    \/ HandleSignal(v) \/ Interrupted(v) \/ Running(v) \/ Paused(v)
    \/ ExitSignals(v) \/ ExitResponds(v) \/ Exited(v)

Guest(v) == EmulationStops(v) \/ GuestReset(v)

----------------------------------------------------------------------------
(* The VMM thread.                                                         *)

SendWithoutKick(v, e) ==
    /\ events' = [events EXCEPT ![v] = Append(@, e)]
    /\ UNCHANGED signal

\* VcpuHandle::send_event: the message, then the signal.
SendEvent(v, e) ==
    /\ events' = [events EXCEPT ![v] = Append(@, e)]
    /\ signal' = [signal EXCEPT ![v] = TRUE]

\* resume_vm, pause_vm and save_vcpu_states for the API, restore_vcpu_states
\* for a VM that is being loaded from a snapshot.
Command ==
    /\ pc = "idle" /\ commands < MaxCommands
    /\ op' \in Commands
    /\ op' = "RestoreState" => commands = 0
    /\ op' = "Resume" /\ StrictClient => vm_state = "Paused"
    /\ commands' = commands + 1
    /\ pc' = "send" /\ i' = 1 /\ bad' = FALSE
    /\ UNCHANGED <<vcpu, exit_evt, vm_state, exit_code, shutdown, timeouts, unquiet>>

Send ==
    /\ pc = "send"
    /\ SendEvent(i, op)
    /\ IF i < N THEN i' = i + 1 /\ pc' = pc ELSE i' = 1 /\ pc' = "receive"
    /\ UNCHANGED <<st, code, immediate_exit, responses, exit_evt, op, bad, vm_state,
                   exit_code, shutdown, commands, timeouts, unquiet>>

Expected(o) ==
    CASE o = "Resume" -> "Resumed" [] o = "Pause" -> "Paused"
      [] o = "SaveState" -> "SavedState" [] o = "RestoreState" -> "RestoredState"

\* A Vmm that cannot restore its vCPUs is dropped, and Drop calls stop.
Fails ==
    /\ pc' = IF op = "RestoreState" THEN "finish" ELSE "idle"
    /\ i' = 1
    /\ UNCHANGED <<vm_state, unquiet>>

Succeeds ==
    /\ pc' = "idle" /\ i' = 1
    /\ vm_state' = CASE op = "Resume" -> "Running" [] op = "Pause" -> "Paused"
                     [] OTHER -> vm_state
    /\ unquiet' = IF op # "SaveState" THEN unquiet
                  ELSE unquiet \cup {v \in Vcpus : st[v] # "paused"}

\* Resume and Pause give up at the first wrong response and leave the others
\* unread; the states are all collected before they are looked at.
Receive ==
    /\ pc = "receive" /\ responses[i] # <<>>
    /\ responses' = [responses EXCEPT ![i] = Tail(@)]
    /\ bad' = (bad \/ Head(responses[i]) # Expected(op))
    /\ \/ /\ i < N /\ (bad' => op \in {"SaveState", "RestoreState"})
          /\ i' = i + 1
          /\ UNCHANGED <<pc, vm_state, unquiet>>
       \/ i < N /\ bad' /\ op \in {"Resume", "Pause"} /\ Fails
       \/ i = N /\ bad' /\ Fails
       \/ i = N /\ ~bad' /\ Succeeds
    /\ UNCHANGED <<st, code, signal, immediate_exit, events, exit_evt, op,
                   exit_code, shutdown, commands, timeouts>>

\* recv_timeout gives up on a vCPU that has not answered.
ReceiveTimeout ==
    /\ pc = "receive" /\ responses[i] = <<>> /\ timeouts < MaxTimeouts
    /\ timeouts' = timeouts + 1
    /\ Fails
    /\ UNCHANGED <<vcpu, exit_evt, op, bad, exit_code, shutdown, commands>>

\* Vmm::process.
ExitEvent ==
    /\ pc = "idle" /\ exit_evt
    /\ exit_evt' = FALSE
    /\ pc' = "query" /\ i' = 1
    /\ UNCHANGED <<vcpu, op, bad, vm_state, exit_code, shutdown, commands, timeouts,
                   unquiet>>

\* One try_recv of the search for the first exit code.
Query ==
    /\ pc = "query"
    /\ responses' = IF responses[i] = <<>> THEN responses
                    ELSE [responses EXCEPT ![i] = Tail(@)]
    /\ IF responses[i] # <<>> /\ Head(responses[i]) \in ExitCodes
       THEN exit_code' = Head(responses[i]) /\ pc' = "finish" /\ i' = 1
       ELSE /\ exit_code' = exit_code
            /\ IF i < N THEN pc' = pc /\ i' = i + 1 ELSE pc' = "finish" /\ i' = 1
    /\ UNCHANGED <<st, code, signal, immediate_exit, events, exit_evt, op, bad,
                   vm_state, shutdown, commands, timeouts, unquiet>>

\* Vmm::stop: Finish to every vCPU, then join every thread.
Finish ==
    /\ pc = "finish"
    /\ SendEvent(i, "Finish")
    /\ IF i < N THEN i' = i + 1 /\ pc' = pc ELSE i' = 1 /\ pc' = "join"
    /\ UNCHANGED <<st, code, immediate_exit, responses, exit_evt, op, bad, vm_state,
                   exit_code, shutdown, commands, timeouts, unquiet>>

Join ==
    /\ pc = "join"
    /\ \A v \in Vcpus : st[v] = "finished"
    /\ shutdown' = IF exit_code = None THEN "Ok" ELSE exit_code
    /\ pc' = "done"
    /\ UNCHANGED <<vcpu, exit_evt, op, i, bad, vm_state, exit_code, commands,
                   timeouts, unquiet>>

VmmStep == Send \/ Receive \/ ExitEvent \/ Query \/ Finish \/ Join

Next ==
    \/ Command \/ VmmStep \/ ReceiveTimeout
    \/ \E v \in Vcpus : VcpuStep(v) \/ Guest(v)

Spec == Init /\ [][Next]_vars

\* Threads are scheduled, signals are delivered; the client and the guest need
\* do nothing.
Fairness == WF_vars(VmmStep) /\ \A v \in Vcpus : WF_vars(VcpuStep(v))
FairSpec == Spec /\ Fairness

----------------------------------------------------------------------------
(* Properties.                                                             *)

\* Every variable has its type.
TypeOK ==
    /\ st \in [Vcpus -> {"paused", "running", "interrupted", "exit", "exiting",
                         "exited", "finished"}]
    /\ code \in [Vcpus -> ExitCodes \cup {None}]
    /\ signal \in [Vcpus -> BOOLEAN] /\ immediate_exit \in [Vcpus -> BOOLEAN]
    /\ \A v \in Vcpus :
        /\ events[v] \in Seq(Commands \cup {"Finish"})
        /\ responses[v] \in Seq(ExitCodes \cup {"Resumed", "Paused", "SavedState",
                                 "RestoredState", "NotAllowed", "Error"})
    /\ i \in Vcpus
    /\ pc \in {"idle", "send", "receive", "query", "finish", "join", "done"}
    /\ vm_state \in {"Paused", "Running"}
    /\ exit_code \in ExitCodes \cup {None} /\ shutdown \in ExitCodes \cup {None}

\* A VM that is reported Paused executes no guest code, unless a response timed
\* out: Paused is only reported when every vCPU has said so, and no vCPU leaves
\* that state by itself.
PausedIsPaused ==
    vm_state = "Paused" /\ pc = "idle" /\ timeouts = 0
        => \A v \in Vcpus : st[v] = "paused"

\* As long as no response misses its timeout, a save succeeds only while every
\* vCPU is paused, whatever responses a failed Resume or Pause left unread.  A
\* late response can break this: the answers of a vCPU are then read as those
\* to later commands, every Resume or Pause that fails at an earlier vCPU puts
\* them one further behind, and in the end a SavedState from before a Resume is
\* read as the answer to a save while that vCPU runs.  One late answer and
\* eleven commands do it with two vCPUs, two late ones and three commands with
\* one.
SavedWhilePaused == timeouts = 0 => unquiet = {}

\* Once a vCPU has exited, or the guest has reset the machine, every vCPU thread
\* is joined and the VMM stops.
Stops == (exit_evt \/ \E v \in Vcpus : st[v] = "exited") ~> pc = "done"

\* The VMM that has handled the exit event of a vCPU stops with the exit code of
\* a vCPU.  (exit_evt is still set when only a reset was handled, and the vCPU
\* exited later: then Ok is right.)
ExitCodeKept ==
    shutdown # None /\ ~exit_evt /\ (\E v \in Vcpus : code[v] # None)
        => \E v \in Vcpus : shutdown = code[v]
=============================================================================
