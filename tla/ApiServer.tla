------------------------------ MODULE ApiServer ----------------------------
(***************************************************************************)
(* The API thread (api_server/src/lib.rs), the VMM thread that serves it   *)
(* (firecracker/src/api_server_adapter.rs) and the two controllers that    *)
(* decide what a request may do before and after boot                      *)
(* (vmm/src/rpc_interface.rs).  The threads share two channels and an      *)
(* eventfd; each step below is one access to them.  What a device, a       *)
(* resource or a vCPU answers is left open: an operation may fail.         *)
(***************************************************************************)
EXTENDS Naturals, Sequences

CONSTANTS
    MaxRequests,         \* requests the clients make
    Events               \* TRUE: devices and vCPUs raise events too

VARIABLES
    api,                 \* the API thread: its program counter and its request
    from_api, to_api,    \* the channels
    event_fd,            \* the counter of api_event_fd
    vmm,                 \* the VMM thread: its program counter
    ctl,                 \* the controllers
    made,                \* requests made so far
    shutdown_sent        \* /shutdown-internal waits on the API socket
avars == <<api, from_api, to_api, event_fd, vmm, ctl, made, shutdown_sent>>

-----------------------------------------------------------------------------
(* The controllers.                                                        *)

\* The VmmActions that only the pre-boot controller serves and that configure
\* boot resources, those it serves without, and those for a running microVM.
BootConfig == {"ConfigureBootSource", "InsertBlockDevice", "InsertNetworkDevice", "SetBalloonDevice",
               "SetVsockDevice", "SetMmdsConfiguration", "UpdateVmConfiguration"}
BootEnds == {"StartMicroVm", "LoadSnapshot", "LoadSnapshotAndResume"}
PrebootOnly == BootConfig \cup BootEnds \cup {"ConfigureLogger", "ConfigureMetrics"}
Anytime == {"GetBalloonConfig", "GetFullVmConfig", "GetMMDS", "GetVmMachineConfig", "GetVmInstanceInfo",
            "GetVmmVersion", "PatchMMDS", "PutMMDS"}
RuntimeOnly == {"CreateSnapshot", "FlushMetrics", "Pause", "Resume", "GetBalloonStats", "UpdateBalloon",
                "UpdateBalloonStatistics", "UpdateBlockDevice", "UpdateNetworkInterface", "SendCtrlAltDel"}
VmmAction == PrebootOnly \cup Anytime \cup RuntimeOnly

\* state is the microVM's.  History: whether a boot resource was configured,
\* whether a snapshot was loaded, and whether the last thing asked of the
\* microVM's state was not a pause.
Controller == [boot_path : BOOLEAN, built_vmm : BOOLEAN, fatal_error : BOOLEAN,
               state : {"NotStarted", "Running", "Paused"}, configured : BOOLEAN, loaded : BOOLEAN, unfrozen : BOOLEAN]
NewController == [boot_path |-> FALSE, built_vmm |-> FALSE, fatal_error |-> FALSE, state |-> "NotStarted",
                  configured |-> FALSE, loaded |-> FALSE, unfrozen |-> FALSE]

configure(c, ok) == [c EXCEPT !.boot_path = TRUE, !.configured = TRUE]

start_microvm(c, ok) == IF ok THEN [c EXCEPT !.built_vmm = TRUE, !.state = "Running"] ELSE c

load_snapshot(c, resume_vm, restored, resumed) ==
    IF c.boot_path THEN c
    ELSE IF ~restored \/ (resume_vm /\ ~resumed) THEN [c EXCEPT !.fatal_error = TRUE]
    ELSE [c EXCEPT !.built_vmm = TRUE, !.loaded = TRUE, !.unfrozen = TRUE, !.state = IF resume_vm THEN "Running" ELSE "Paused"]

\* The controllers a request may leave behind.
handle_preboot_request(c, op) ==
    CASE op \in BootConfig -> {configure(c, ok) : ok \in BOOLEAN}
      [] op = "StartMicroVm" -> {start_microvm(c, ok) : ok \in BOOLEAN}
      [] op \in {"LoadSnapshot", "LoadSnapshotAndResume"} ->
           {load_snapshot(c, op = "LoadSnapshotAndResume", a, b) : a, b \in BOOLEAN}
      [] OTHER -> {c}

handle_runtime_request(c, op) ==
    CASE op = "Pause"  -> {c, [c EXCEPT !.state = "Paused", !.unfrozen = FALSE]}
      [] op = "Resume" -> {[c EXCEPT !.unfrozen = TRUE], [c EXCEPT !.state = "Running", !.unfrozen = TRUE]}
      [] OTHER -> {c}

-----------------------------------------------------------------------------
(* The API thread.                                                         *)

NoRequest == [op |-> "none", id |-> 0]
Request(op, id) == [op |-> op, id |-> id]

\* handle_request of a request that parses; one that does not is answered
\* with an error by this thread alone.
SendRequest(op) ==
    /\ api.pc = "idle" /\ made < MaxRequests
    /\ made' = made + 1
    /\ api' = [pc |-> "sent", req |-> Request(op, made + 1)]
    /\ from_api' = Append(from_api, Request(op, made + 1))
    /\ UNCHANGED <<to_api, event_fd, vmm, ctl, shutdown_sent>>

\* serve_vmm_action_request goes on: wake the VMM thread ...
WriteEvent ==
    /\ api.pc = "sent"
    /\ event_fd' = event_fd + 1
    /\ api' = [api EXCEPT !.pc = "waiting"]
    /\ UNCHANGED <<from_api, to_api, vmm, ctl, made, shutdown_sent>>

\* ... and wait for the outcome.
ReceiveOutcome ==
    /\ api.pc = "waiting" /\ to_api # <<>>
    /\ to_api' = Tail(to_api)
    /\ api' = [pc |-> "idle", req |-> NoRequest]
    /\ UNCHANGED <<from_api, event_fd, vmm, ctl, made, shutdown_sent>>

\* The server meets /shutdown-internal and bind_and_run returns.
ShutdownInternal ==
    /\ api.pc = "idle" /\ shutdown_sent
    /\ api' = [api EXCEPT !.pc = "exited"] /\ shutdown_sent' = FALSE
    /\ UNCHANGED <<from_api, to_api, event_fd, vmm, ctl, made>>

-----------------------------------------------------------------------------
(* The VMM thread before boot: build_microvm_from_requests.                *)

\* Mutant: every request is answered twice.
answer_twice(req) == to_api' = to_api \o <<req, req>>
answer(req) == to_api' = Append(to_api, req)

\* recv_req takes the message, then the event that comes with it.
PrebootReceive ==
    /\ vmm.pc = "preboot" /\ from_api # <<>>
    /\ vmm' = [pc |-> "preboot_read", req |-> Head(from_api)] /\ from_api' = Tail(from_api)
    /\ UNCHANGED <<api, to_api, event_fd, ctl, made, shutdown_sent>>

respond(c, req) == answer(req)

PrebootHandle ==
    /\ vmm.pc = "preboot_read" /\ event_fd > 0
    /\ event_fd' = 0
    /\ \E c \in handle_preboot_request(ctl, vmm.req.op) :
         /\ ctl' = c
         /\ respond(c, vmm.req)
         /\ vmm' = [pc |-> IF c.fatal_error THEN "exiting" ELSE IF c.built_vmm THEN "epoll" ELSE "preboot",
                    req |-> NoRequest]
    /\ UNCHANGED <<api, from_api, made, shutdown_sent>>

-----------------------------------------------------------------------------
(* The VMM thread at run time: run_microvm and ApiServerAdapter::process.  *)

handle_request(req, next) ==
    /\ ctl' \in handle_runtime_request(ctl, req.op)
    /\ answer(req)
    /\ from_api' = Tail(from_api)
    /\ vmm' = [pc |-> next, req |-> NoRequest]

\* Where process goes on after the first request, and after one of the loop.
AfterFirst(op) == IF op = "Pause" THEN "paused" ELSE "read"
AfterPaused(op) == IF op = "Resume" THEN "read" ELSE "paused"

Process ==
    /\ vmm.pc = "epoll" /\ event_fd > 0
    /\ IF from_api # <<>> THEN handle_request(Head(from_api), AfterFirst(Head(from_api).op))
       ELSE vmm' = [vmm EXCEPT !.pc = "read"] /\ UNCHANGED <<from_api, to_api, ctl>>
    /\ UNCHANGED <<api, event_fd, made, shutdown_sent>>

event_kept == event_fd

\* The loop blocks on the channel and leaves the eventfd alone.
PausedProcess ==
    /\ vmm.pc = "paused" /\ from_api # <<>>
    /\ handle_request(Head(from_api), AfterPaused(Head(from_api).op))
    /\ event_fd' = event_kept
    /\ UNCHANGED <<api, made, shutdown_sent>>

\* The event is consumed after the answer has been sent.
ReadEvent ==
    /\ vmm.pc = "read" /\ event_fd > 0
    /\ event_fd' = 0 /\ vmm' = [vmm EXCEPT !.pc = "epoll"]
    /\ UNCHANGED <<api, from_api, to_api, ctl, made, shutdown_sent>>

\* A vCPU has exited: Vmm::stop, and run_microvm returns.
StopVmm ==
    /\ Events /\ vmm.pc = "epoll"
    /\ vmm' = [vmm EXCEPT !.pc = "exiting"]
    /\ UNCHANGED <<api, from_api, to_api, event_fd, ctl, made, shutdown_sent>>

\* The end of run_with_api: tell the API thread and join it.
SendShutdown ==
    /\ vmm.pc = "exiting"
    /\ shutdown_sent' = TRUE /\ vmm' = [vmm EXCEPT !.pc = "join"]
    /\ UNCHANGED <<api, from_api, to_api, event_fd, ctl, made>>

JoinApi ==
    /\ vmm.pc = "join" /\ api.pc = "exited"
    /\ vmm' = [vmm EXCEPT !.pc = "done"]
    /\ UNCHANGED <<api, from_api, to_api, event_fd, ctl, made, shutdown_sent>>

-----------------------------------------------------------------------------
\* The microVM comes from requests, or from a configuration file.
ApiInit ==
    /\ api = [pc |-> "idle", req |-> NoRequest]
    /\ from_api = <<>> /\ to_api = <<>> /\ event_fd = 0 /\ made = 0 /\ shutdown_sent = FALSE
    /\ \E built \in BOOLEAN :
         /\ ctl = IF built THEN start_microvm(NewController, TRUE) ELSE NewController
         /\ vmm = [pc |-> IF built THEN "epoll" ELSE "preboot", req |-> NoRequest]

ApiThread == WriteEvent \/ ReceiveOutcome \/ ShutdownInternal
VmmThread == PrebootReceive \/ PrebootHandle \/ Process \/ PausedProcess \/ ReadEvent \/ SendShutdown \/ JoinApi
ApiNext == (\E op \in VmmAction : SendRequest(op)) \/ ApiThread \/ VmmThread \/ StopVmm

ApiSpec == ApiInit /\ [][ApiNext]_avars
\* Both threads are scheduled; clients, devices and vCPUs need not do anything.
ApiFairness == WF_avars(ApiThread) /\ WF_avars(VmmThread)
ApiLiveSpec == ApiSpec /\ ApiFairness

-----------------------------------------------------------------------------
(* Properties.                                                             *)

\* Types of the two threads, their channels and the event.
ApiTypeOK ==
    /\ api.pc \in {"idle", "sent", "waiting", "exited"}
    /\ vmm.pc \in {"preboot", "preboot_read", "epoll", "paused", "read", "exiting", "join", "done"}
    /\ ctl \in Controller /\ event_fd \in Nat /\ made \in 0..MaxRequests /\ shutdown_sent \in BOOLEAN

\* The response the API thread takes from the channel is the one to its own
\* request, and none is left over when it has no request open, across boot,
\* the pause loop and spurious events (the channels carry no identifiers).
AnswersMatch ==
    /\ \A i \in 1..Len(to_api) : to_api[i] = api.req
    /\ Len(to_api) + Len(from_api) <= 1
    /\ api.pc \in {"idle", "exited"} => to_api = <<>> /\ from_api = <<>>

\* Every request is answered while the microVM runs ("The API socket is always
\* available", SPECIFICATION.md).  Violated: the event of the next request can
\* be written before the event of the last one is read.
RequestIsAnswered == (api.pc = "waiting" /\ vmm.pc = "epoll") ~> (api.pc # "waiting" \/ vmm.pc = "exiting")
=============================================================================
