-------------------------- MODULE DescriptorChains --------------------------
(***************************************************************************)
(* What the block and the vsock device make of a descriptor chain            *)
(* (devices/src/virtio/block/request.rs, vsock/packet.rs).  A chain is its   *)
(* descriptors, and whether the last one names a next one that is not valid. *)
(* Lengths and sectors are in units; the width of a sector number is kept.   *)
(***************************************************************************)
EXTENDS Naturals, Sequences

CONSTANTS Lens, MaxChain,
          Sectors, Wrap,             \* sector numbers, 2^64
          NumSectors, SectorSize,    \* of the disk
          IdBytes,                   \* VIRTIO_BLK_ID_BYTES
          HdrSize, MaxPkt            \* VSOCK_PKT_HDR_SIZE, MAX_PKT_BUF_SIZE

VARIABLES descs, dangling,           \* the chain
          what,                      \* what its header says
          done                       \* what the device did with it
dcvars == <<descs, dangling, what, done>>

has_next(i) == i < Len(descs) \/ dangling
next_descriptor(i) == i < Len(descs)           \* there is one
Types == {"In", "Out", "Flush", "GetDeviceID", "Unsupported"}
Nothing == [by |-> "nobody"]
Refused == [by |-> "refused"]

-----------------------------------------------------------------------------
(* Request::parse.  The status descriptor is the second or the third.      *)

top_sector_ok(sector, len) ==
    /\ sector + (len \div SectorSize) < Wrap
    /\ sector + (len \div SectorSize) <= NumSectors

data_direction_ok(t, w) ==
    /\ t = "Out" => ~w
    /\ t \in {"In", "GetDeviceID"} => w

parse(t, sector) ==
    LET data == has_next(2)
        status == IF data THEN 3 ELSE 2
        len == IF data THEN descs[2].len ELSE 0
        ok == /\ ~descs[1].write_only /\ next_descriptor(1)
              /\ data => next_descriptor(2) /\ data_direction_ok(t, descs[2].write_only)
              /\ ~data => t = "Flush"
              /\ t \in {"In", "Out"} => len % SectorSize = 0 /\ top_sector_ok(sector, len)
              /\ t = "GetDeviceID" => len >= IdBytes
              /\ descs[status].write_only /\ descs[status].len >= 1
    IN IF ok THEN [by |-> "block", type |-> t, sector |-> sector, data_len |-> len, status |-> status]
       ELSE Refused

\* What has been moved when the file engine, or write_slice for the identifier,
\* returns.  An engine that fails may have moved some of the data before.
transfers(req, err) ==
    CASE req.type \in {"In", "Out"} -> 0..req.data_len
      [] req.type = "GetDeviceID" -> IF err THEN 0..IdBytes - 1 ELSE {IdBytes}
      [] OTHER -> {0}

\* Mutant: what a read that came up short has left in memory is not reported.
to_mem_if_ok(req, n) == IF n = req.data_len THEN n ELSE 0
to_mem(req, n) == IF req.type \in {"In", "GetDeviceID"} THEN n ELSE 0

\* PendingRequest::finish and write_status_and_finish
finish(req, n, err, status_written) ==
    [by |-> "block", req |-> req, transferred |-> n, failed |-> err,
     status |-> IF req.type = "Unsupported" THEN "UNSUPP"
                ELSE IF err \/ (req.type # "Flush" /\ n # req.data_len) THEN "IOERR" ELSE "OK",
     used_len |-> IF ~status_written THEN 0
                  ELSE 1 + (IF err \/ req.type = "Unsupported" THEN 0 ELSE to_mem(req, n))]

BlockRequest ==
    \E t \in Types, sector \in Sectors :
      /\ what' = t /\ UNCHANGED <<descs, dangling>>
      /\ LET req == parse(t, sector) IN
         IF req = Refused THEN done' = Refused
         ELSE \E err, written \in BOOLEAN : \E n \in transfers(req, err) :
                /\ req.type = "Unsupported" => ~err
                /\ done' = finish(req, n, err, written)

-----------------------------------------------------------------------------
(* VsockPacket::from_tx_virtq_head, from_rx_virtq_head.                    *)

check_hdr_desc(expected) == descs[1].write_only = expected /\ descs[1].len >= HdrSize
init_buf(expected) == next_descriptor(1) /\ descs[2].write_only = expected

buf_fits(len) == descs[2].len >= len

VsockTxPacket ==
    \E len \in Lens :
      /\ what' = "tx" /\ UNCHANGED <<descs, dangling>>
      /\ done' = IF /\ check_hdr_desc(FALSE)
                    /\ len # 0 => len <= MaxPkt /\ init_buf(FALSE) /\ buf_fits(len)
                 THEN [by |-> "vsock", len |-> len] ELSE Refused

\* The connection fills the buffer up to count bytes; commit_hdr checks the length it has set.
VsockRxPacket ==
    \E len \in Lens :
      /\ what' = "rx" /\ UNCHANGED <<descs, dangling>>
      /\ done' = IF check_hdr_desc(TRUE) /\ init_buf(TRUE) /\ buf_fits(len) /\ len <= MaxPkt
                 THEN [by |-> "vsock", len |-> len] ELSE Refused

ChainsInit ==
    /\ descs \in UNION {[1..n -> [write_only : BOOLEAN, len : Lens]] : n \in 1..MaxChain}
    /\ dangling \in BOOLEAN /\ what = "none" /\ done = Nothing
ChainsNext == done = Nothing /\ (BlockRequest \/ VsockTxPacket \/ VsockRxPacket)
ChainsSpec == ChainsInit /\ [][ChainsNext]_dcvars

-----------------------------------------------------------------------------
(* Properties.                                                             *)

ByBlock == done.by = "block"

\* The device writes only where the chain says it may, and reads only where it
\* may not write: data, status and packets, whatever the shape of the chain.
DirectionsKept ==
    /\ ByBlock => /\ ~descs[1].write_only /\ descs[done.req.status].write_only /\ done.req.status \in 2..Len(descs)
                  /\ done.req.type \in {"In", "GetDeviceID"} => descs[2].write_only /\ done.req.data_len <= descs[2].len
                  /\ done.req.type = "Out" => ~descs[2].write_only
    /\ (done.by = "vsock" /\ done.len > 0) => descs[2].write_only = (what = "rx") /\ done.len <= descs[2].len /\ done.len <= MaxPkt

\* A request that reaches the file stays inside the disk, sector numbers of
\* 2^64 - 1 included.
WithinDisk ==
    (ByBlock /\ done.req.type \in {"In", "Out"}) =>
       /\ (done.req.sector * SectorSize) + done.req.data_len <= NumSectors * SectorSize
       /\ done.req.data_len % SectorSize = 0

\* The length in the used ring is never more than was written to the guest's
\* memory, and it is exactly that, the data of a read that came up short and the
\* status byte included, unless the engine reported an error: what it had moved
\* before then stays unreported.  A request is answered OK only if all of it was
\* done.
UsedLenIsWritten ==
    ByBlock =>
       LET data == IF done.req.type \in {"In", "GetDeviceID"} THEN done.transferred ELSE 0
       IN /\ done.used_len # 0 => /\ done.used_len <= 1 + data
                                  /\ ~done.failed => done.used_len = 1 + data
          /\ (done.status = "OK" /\ done.req.type # "Flush") => done.transferred = done.req.data_len
          /\ done.status = "OK" => ~done.failed
=============================================================================
