----------------------------- MODULE BufferPool -----------------------------
(***************************************************************************)
(* What a virtqueue promises, without rings, indices or notifications:     *)
(* buffers circulate from the driver through a FIFO to the device and      *)
(* through a second FIFO back.  Only the buffer taken last can be put      *)
(* back, and it goes back to the front.                                    *)
(***************************************************************************)
EXTENDS Integers, Sequences

CONSTANTS Buffers, NoBuffer

VARIABLES
    free,      \* buffers the driver owns
    offered,   \* the FIFO of buffers offered to the device
    device,    \* buffers the device owns
    held,      \* the buffer taken last, while it can still be put back
    used       \* the FIFO of buffers given back to the driver

poolVars == <<free, offered, device, held, used>>

PoolInit ==
    /\ free = Buffers /\ offered = <<>> /\ device = {}
    /\ held = NoBuffer /\ used = <<>>

Offer ==
    /\ \E b \in free : free' = free \ {b} /\ offered' = Append(offered, b)
    /\ UNCHANGED <<device, held, used>>

Take ==
    /\ offered # <<>> /\ held = NoBuffer
    /\ held' = Head(offered)
    /\ device' = device \cup {Head(offered)}
    /\ offered' = Tail(offered)
    /\ UNCHANGED <<free, used>>

PutBack ==
    /\ held # NoBuffer
    /\ offered' = <<held>> \o offered
    /\ device' = device \ {held}
    /\ held' = NoBuffer
    /\ UNCHANGED <<free, used>>

Keep ==
    /\ held # NoBuffer
    /\ held' = NoBuffer
    /\ UNCHANGED <<free, offered, device, used>>

GiveBack ==
    /\ \E b \in device :
         /\ held \in {b, NoBuffer}
         /\ used' = Append(used, b) /\ device' = device \ {b}
    /\ held' = NoBuffer
    /\ UNCHANGED <<free, offered>>

Reclaim ==
    /\ used # <<>>
    /\ free' = free \cup {Head(used)}
    /\ used' = Tail(used)
    /\ UNCHANGED <<offered, device, held>>

PoolNext == Offer \/ Take \/ PutBack \/ Keep \/ GiveBack \/ Reclaim

PoolSpec == PoolInit /\ [][PoolNext]_poolVars
=============================================================================
