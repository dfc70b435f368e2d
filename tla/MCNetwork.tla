----------------------------- MODULE MCNetwork ------------------------------
(***************************************************************************)
(* Small instances of the components of the network side, for one run of   *)
(* TLC: the vsock connection, its TX buffer, the muxer and the vsock       *)
(* device; the network device, and the TCP endpoint, connection handler    *)
(* and checksum of the stack behind it.  The initial state chooses one of  *)
(* them; the others stand still.                                           *)
(***************************************************************************)
EXTENDS TxBuf, VsockConnection, VsockDevice, TcpHandler, NetDevice, Checksum

VARIABLES
    which,                                                      \* the component that runs
    mux, now, mux_phase, rxbufs, rx_event, errors, inputs,      \* those of VsockMuxer
    ep, tcp_guest, to_host, to_guest, tcp_lost, strays          \* and of TcpEndpoint
mux_vars == <<mux, now, mux_phase, rxbufs, rx_event, errors, inputs>>
tcp_vars == <<ep, tcp_guest, to_host, to_guest, tcp_lost, strays>>

\* Buffers the driver posts in each queue of the vsock device.
Posts == [rx |-> 1, tx |-> 2, ev |-> 1]

muxer == INSTANCE VsockMuxer WITH
    MaxConn <- 2, RxqSize <- 1, KillqSize <- 1, ListenPorts <- {1}, FirstPort <- 2,
    NumPorts <- 2, PeerPorts <- {1}, MaxBufs <- 1, Timeout <- 1, MaxTime <- 3,
    MaxErrors <- 1, MaxInputs <- 3, Ops <- {"RESPONSE", "SHUTDOWN", "RW"},
    phase <- mux_phase
ShortScript == <<"x", "x", "x">>
tcp == INSTANCE TcpEndpoint WITH
    Wrap <- 32, MaxWindow <- 8, MaxAdvert <- 6, Mss <- 1, RtoCountMax <- 2, RcvBuf <- 3,
    ResLen <- 2, HostIsn <- 30, GuestIsn <- 29,
    Scripts <- {<<"x", "e", "x", "e">>, ShortScript}, Windows <- {1},
    MaxNet <- 1, MaxLoss <- 1, MaxStray <- 1,
    guest <- tcp_guest, lost <- tcp_lost

-----------------------------------------------------------------------------
\* Only the component that runs begins in each of its initial states.
AllInit ==
    /\ which \in {"connection", "txbuf", "muxer", "vsock",
                  "tcp", "handler", "net", "checksum"}
    /\ TxBufInit /\ muxer!Init /\ VsockInit
    /\ Init /\ NetInit
    /\ ConnInit /\ (which # "connection" => state = "LocalInit")
    /\ tcp!Init /\ (which # "tcp" => tcp_guest.script = ShortScript)
    /\ ChecksumInit /\ (which # "checksum" => udp /\ length = 0 /\ sum = Proto)

\* All the components but c stand still.
Others(c) ==
    /\ IF c = "connection" THEN TRUE ELSE UNCHANGED cvars
    /\ IF c = "txbuf" THEN TRUE ELSE UNCHANGED txvars
    /\ IF c = "muxer" THEN TRUE ELSE UNCHANGED mux_vars
    /\ IF c = "vsock" THEN TRUE ELSE UNCHANGED vdvars
    /\ IF c = "tcp" THEN TRUE ELSE UNCHANGED tcp_vars
    /\ IF c = "handler" THEN TRUE ELSE UNCHANGED hvars
    /\ IF c = "net" THEN TRUE ELSE UNCHANGED vars
    /\ IF c = "checksum" THEN TRUE ELSE UNCHANGED csvars

\* These stop when their bounds are reached; the others must not.
MayStop ==
    which \in {"muxer", "vsock", "tcp", "net", "checksum"} /\ Others("none")

\* A TCP connection meets a lost segment or a stray one, not both.
OneFault == tcp_lost' + strays' <= 1

AllNext ==
    /\ UNCHANGED which
    /\ \/ which = "connection" /\ ConnNext /\ Others("connection")
       \/ which = "txbuf" /\ TxBufNext /\ Others("txbuf")
       \/ which = "muxer" /\ muxer!Next /\ Others("muxer")
       \/ which = "vsock" /\ VsockNext /\ Others("vsock")
       \/ which = "tcp" /\ tcp!Next /\ OneFault /\ Others("tcp")
       \/ which = "handler" /\ Next /\ Others("handler")
       \/ which = "net" /\ NetNext /\ Others("net")
       \/ which = "checksum" /\ ChecksumNext /\ Others("checksum")
       \/ MayStop
AllSpec ==
    AllInit /\ [][AllNext]_<<which, cvars, txvars, mux_vars, vdvars, tcp_vars, hvars, vars,
                            csvars>>

-----------------------------------------------------------------------------
\* What the muxer keeps beside its connection map agrees with the map: an RX or
\* kill queue that believes to be synchronized holds every connection it should,
\* except those that a rebuilt kill queue passed over, the epoll set what each
\* connection wants to hear of, and the host ports in use are reserved, as the
\* host listens on none of them.
TablesAgree ==
    muxer!RxqInSync /\ muxer!KillqInSync /\ muxer!ListensToWanted /\ muxer!PortsReserved

\* Neither direction of the TCP stream is damaged by loss, repetition or
\* timeouts: what Endpoint sends carries the sequence number of its place in
\* the stream of responses and stays in the guest's window, and its receive
\* buffer holds exactly the bytes that were acknowledged and not yet parsed,
\* with the window open for the rest.  It closes its half only after the guest
\* has every response.  And a write that finds nothing to send leaves the
\* status of the endpoint as it was, which TcpHandler relies on.
StreamsIntact ==
    /\ [](which = "tcp" =>
          /\ tcp!ResponseIntact /\ tcp!RespectsGuestWindow
          /\ tcp!RequestIntact /\ tcp!WindowFitsBuffer
          /\ tcp!AnsweredBeforeClose)
    /\ [][which = "tcp" => tcp!SilentWriteKeepsStatus]_tcp_vars
=============================================================================
