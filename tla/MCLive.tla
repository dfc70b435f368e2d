------------------------------- MODULE MCLive -------------------------------
(***************************************************************************)
(* What must eventually happen, for two runs of TLC: the liveness of the   *)
(* virtqueue and of vCPU control, and that of the block device, the TCP    *)
(* endpoint, the network device and the serial console.  The initial state *)
(* chooses one of them; the others stand still.                            *)
(***************************************************************************)
EXTENDS Integers, Sequences, FiniteSets

VARIABLE which      \* the component that runs

VARIABLES
    queue_next_avail, queue_next_used, queue_num_added, queue_dpc, queue_inflight,
    queue_cur, queue_signal, queue_resume, queue_aev_buffer, queue_avail_idx,
    queue_avail_ring, queue_used_event, queue_used_idx, queue_used_ring,
    queue_avail_event, queue_kick, queue_irq, queue_free, queue_last_used,
    queue_kicked_idx, queue_ipc
queue_vars == <<queue_next_avail, queue_next_used, queue_num_added, queue_dpc,
                queue_inflight, queue_cur, queue_signal, queue_resume, queue_aev_buffer,
                queue_avail_idx, queue_avail_ring, queue_used_event, queue_used_idx,
                queue_used_ring, queue_avail_event, queue_kick, queue_irq, queue_free,
                queue_last_used, queue_kicked_idx, queue_ipc>>
Queue == INSTANCE VirtQueue WITH
    QueueSize <- 1, IdxMod <- 4, EventIdx <- TRUE, MaxBatch <- 1, Malformed <- {},
    next_avail <- queue_next_avail, next_used <- queue_next_used,
    num_added <- queue_num_added, dpc <- queue_dpc, inflight <- queue_inflight,
    cur <- queue_cur, signal <- queue_signal, resume <- queue_resume,
    aev_buffer <- queue_aev_buffer, avail_idx <- queue_avail_idx,
    avail_ring <- queue_avail_ring, used_event <- queue_used_event,
    used_idx <- queue_used_idx, used_ring <- queue_used_ring,
    avail_event <- queue_avail_event, kick <- queue_kick, irq <- queue_irq,
    free <- queue_free, last_used <- queue_last_used, kicked_idx <- queue_kicked_idx,
    ipc <- queue_ipc

VARIABLES
    control_st, control_code, control_signal, control_immediate_exit, control_events,
    control_responses, control_exit_evt, control_pc, control_op, control_i, control_bad,
    control_vm_state, control_exit_code, control_shutdown, control_commands,
    control_timeouts, control_unquiet
control_vars == <<control_st, control_code, control_signal, control_immediate_exit,
                  control_events, control_responses, control_exit_evt, control_pc,
                  control_op, control_i, control_bad, control_vm_state,
                  control_exit_code, control_shutdown, control_commands,
                  control_timeouts, control_unquiet>>
Control == INSTANCE VcpuControl WITH
    N <- 2, StrictClient <- TRUE, MaxCommands <- 3, MaxTimeouts <- 0,
    st <- control_st, code <- control_code, signal <- control_signal,
    immediate_exit <- control_immediate_exit, events <- control_events,
    responses <- control_responses, exit_evt <- control_exit_evt, pc <- control_pc,
    op <- control_op, i <- control_i, bad <- control_bad, vm_state <- control_vm_state,
    exit_code <- control_exit_code, shutdown <- control_shutdown,
    commands <- control_commands, timeouts <- control_timeouts,
    unquiet <- control_unquiet

VARIABLES
    block_free, block_avail, block_kind, block_used, block_armed, block_queue_evt,
    block_pc, block_throttled, block_blocked, block_sq, block_kernel, block_cq,
    block_ring_ops, block_comp_evt, block_registered, block_lost, block_running,
    block_irq, block_saved_irq, block_updates, block_saves, block_errors
block_vars == <<block_free, block_avail, block_kind, block_used, block_armed,
                block_queue_evt, block_pc, block_throttled, block_blocked, block_sq,
                block_kernel, block_cq, block_ring_ops, block_comp_evt, block_registered,
                block_lost, block_running, block_irq, block_saved_irq, block_updates,
                block_saves, block_errors>>
Block == INSTANCE BlockDevice WITH
    Heads <- {"h1", "h2"}, Kinds <- {"io"}, Engine <- "Async", SqSize <- 1, CqSize <- 1,
    Limited <- TRUE, MaxUpdates <- 0, MaxSaves <- 0, MaxErrors <- 0,
    free <- block_free, avail <- block_avail, kind <- block_kind, used <- block_used,
    armed <- block_armed, queue_evt <- block_queue_evt, pc <- block_pc,
    throttled <- block_throttled, blocked <- block_blocked, sq <- block_sq,
    kernel <- block_kernel, cq <- block_cq, ring_ops <- block_ring_ops,
    comp_evt <- block_comp_evt, registered <- block_registered, lost <- block_lost,
    running <- block_running, irq <- block_irq, saved_irq <- block_saved_irq,
    updates <- block_updates, saves <- block_saves, errors <- block_errors

VARIABLES
    tcp_ep, tcp_guest, tcp_to_host, tcp_to_guest, tcp_lost, tcp_strays
tcp_vars == <<tcp_ep, tcp_guest, tcp_to_host, tcp_to_guest, tcp_lost, tcp_strays>>
Tcp == INSTANCE TcpEndpoint WITH
    Wrap <- 32, MaxWindow <- 8, MaxAdvert <- 6, Mss <- 1, RtoCountMax <- 2, RcvBuf <- 3,
    ResLen <- 2, HostIsn <- 30, GuestIsn <- 29, Scripts <- {<<"x", "e", "x", "e">>},
    Windows <- {2}, MaxNet <- 1, MaxLoss <- 0, MaxStray <- 0,
    ep <- tcp_ep, guest <- tcp_guest, to_host <- tcp_to_host, to_guest <- tcp_to_guest,
    lost <- tcp_lost, strays <- tcp_strays

VARIABLES
    net_net, net_tap, net_mmds, net_rxq, net_txq, net_rx_blocked, net_tx_blocked,
    net_got, net_budget
net_vars == <<net_net, net_tap, net_mmds, net_rxq, net_txq, net_rx_blocked,
              net_tx_blocked, net_got, net_budget>>
Net == INSTANCE NetDevice WITH
    MaxFrames <- 2, MaxRx <- 2, MaxTx <- 1, MaxTapErrors <- 1, MaxThrottles <- 1,
    Overdraw <- TRUE,
    net <- net_net, tap <- net_tap, mmds <- net_mmds, rxq <- net_rxq, txq <- net_txq,
    rx_blocked <- net_rx_blocked, tx_blocked <- net_tx_blocked, got <- net_got,
    budget <- net_budget

VARIABLES
    serial_stdin, serial_eof, serial_fifo, serial_input_reg, serial_ready_reg,
    serial_buffer_ready, serial_typed, serial_got, serial_failed
serial_vars == <<serial_stdin, serial_eof, serial_fifo, serial_input_reg,
                 serial_ready_reg, serial_buffer_ready, serial_typed, serial_got,
                 serial_failed>>
Serial == INSTANCE SerialInput WITH
    FifoSize <- 2, MaxBytes <- 6,
    stdin <- serial_stdin, eof <- serial_eof, fifo <- serial_fifo,
    input_reg <- serial_input_reg, ready_reg <- serial_ready_reg,
    buffer_ready <- serial_buffer_ready, typed <- serial_typed, got <- serial_got,
    failed <- serial_failed

-----------------------------------------------------------------------------
Core == {"queue", "vcpus"}
Services == {"block", "tcp", "net", "serial"}
LiveInit(components) ==
    /\ which \in components
    /\ Queue!Init /\ Control!Init /\ Block!Init /\ Tcp!Init /\ Net!NetInit /\ Serial!SerialInit

CoreInit == LiveInit(Core)
ServiceInit == LiveInit(Services)

\* All the components but c stand still.
Others(c) ==
    /\ UNCHANGED which
    /\ IF c = "queue" THEN TRUE ELSE UNCHANGED queue_vars
    /\ IF c = "vcpus" THEN TRUE ELSE UNCHANGED control_vars
    /\ IF c = "block" THEN TRUE ELSE UNCHANGED block_vars
    /\ IF c = "tcp" THEN TRUE ELSE UNCHANGED tcp_vars
    /\ IF c = "net" THEN TRUE ELSE UNCHANGED net_vars
    /\ IF c = "serial" THEN TRUE ELSE UNCHANGED serial_vars

\* These stop when their bounds are reached; the block device must not.
MayStop == which # "block" /\ Others("none")

\* The component that runs is scheduled as fairly as its own module says.
CoreNext ==
    \/ which = "queue" /\ Queue!Next /\ Others("queue")
    \/ which = "vcpus" /\ Control!Next /\ Others("vcpus")
    \/ MayStop
CoreFairness ==
    \/ which = "queue" /\ Queue!Fairness
    \/ which = "vcpus" /\ Control!Fairness

ServiceNext ==
    \/ which = "block" /\ Block!Next /\ Others("block")
    \/ which = "tcp" /\ Tcp!Next /\ Others("tcp")
    \/ which = "net" /\ Net!NetNext /\ Others("net")
    \/ which = "serial" /\ Serial!SerialNext /\ Others("serial")
    \/ MayStop
ServiceFairness ==
    \/ which = "block" /\ Block!Fairness
    \/ which = "tcp" /\ Tcp!Fairness
    \/ which = "net" /\ Net!NetFairness
    \/ which = "serial" /\ Serial!SerialFairness

all_vars == <<which, queue_vars, control_vars, block_vars, tcp_vars, net_vars, serial_vars>>
CoreSpec == CoreInit /\ [][CoreNext]_all_vars /\ CoreFairness
ServiceSpec == ServiceInit /\ [][ServiceNext]_all_vars /\ ServiceFairness

-----------------------------------------------------------------------------
(* Properties, each of the component it names.                             *)

\* When the driver stops adding chains, all of them return to it.
AllReturn == which = "queue" => Queue!AllReturn

\* A VMM that has started to shut down ends all vCPU threads.
Stops == which = "vcpus" => Control!Stops

\* Every request the driver offers to the block device is answered.
Answered == which = "block" => Block!Answered

\* A complete request in the buffer of a live TCP connection is answered, or
\* the connection ends.
RequestsAreAnswered == which = "tcp" => Tcp!RequestsAreAnswered

\* A frame that waits in the tap is read, or a frame is deferred, unless its edge
\* was taken while a limiter was blocked that had let too large a frame pass, or
\* by a read that failed.
TapIsRead == which = "net" => Net!TapIsRead

\* What is typed is read by the guest, unless stdin or the UART fails.
TypedIsRead == which = "serial" => Serial!TypedIsRead
=============================================================================
