-------------------------------- MODULE Bus --------------------------------
(***************************************************************************)
(* The bus that routes the guest's port and MMIO accesses to the devices     *)
(* (devices/src/bus.rs).  A range is known by its base alone: BusRange       *)
(* compares only the first of its two numbers.                               *)
(***************************************************************************)
EXTENDS Naturals

CONSTANTS Address,     \* the addresses a range may start at or be routed for
          Lengths      \* the lengths a device asks for, zero among them

\* Addresses and lengths are u64.
ASSUME BusAssumption == Address \subseteq Nat /\ Lengths \subseteq Nat

VARIABLES devices,     \* the ordered map: base |-> length, for the bases it holds
          inserted     \* ranges that insert has accepted (ghost)
busvars == <<devices, inserted>>

Bases == DOMAIN devices

\* The last range that does not start after addr.
first_before(addr) ==
    LET before == {b \in Bases : b <= addr} IN {b \in before : \A c \in before : c <= b}

\* Mutant: the first address after a range belongs to it.
in_range_incl(base, addr) == addr - base <= devices[base]
in_range(base, addr) == addr - base < devices[base]

\* The base of the device that owns addr, if there is one.
get_device(addr) == {b \in first_before(addr) : in_range(b, addr)}

starts_inside(base, len) == \E b \in first_before(base + len - 1) : b >= base

insert(base, len) ==
    /\ len # 0 /\ get_device(base) = {} /\ ~starts_inside(base, len)
    /\ devices' = [b \in Bases \cup {base} |-> IF b = base THEN len ELSE devices[b]]
    /\ inserted' = inserted \cup {<<base, len>>}

BusInit == devices = [b \in {} |-> 0] /\ inserted = {}
BusNext == \E base \in Address, len \in Lengths : insert(base, len)
BusSpec == BusInit /\ [][BusNext]_busvars

-----------------------------------------------------------------------------
(* Properties.                                                             *)

\* Types of the devices of the bus and the ranges it accepted.
BusTypeOK ==
    /\ inserted \subseteq Address \X Lengths /\ Bases \subseteq Address
    /\ \A b \in Bases : devices[b] \in Lengths

Owns(r, addr) == r[1] <= addr /\ addr < r[1] + r[2]

\* "no two devices can overlap in this address space": no address is in two of
\* the ranges that insert has accepted.
NoOverlap == \A r, s \in inserted : r # s => r[1] + r[2] <= s[1] \/ s[1] + s[2] <= r[1]

\* An access is routed to the device whose range holds its address, whatever
\* the order in which the devices were inserted, and to none when no range does.
RoutesToOwner ==
    \A addr \in Address : get_device(addr) = {r[1] : r \in {x \in inserted : Owns(x, addr)}}
=============================================================================
