---------------------------- MODULE DeviceProofs ----------------------------
(***************************************************************************)
(* Proofs about components of the device model: the bus, for every address *)
(* space; the MMIO transport, for every number of queues and all features; *)
(* the block device, for every finite set of descriptor heads, both        *)
(* engines and every size of the io_uring queues; and the builder and its  *)
(* device manager, for every configuration.                                *)
(***************************************************************************)
EXTENDS Bus, MmioTransport, BlockDevice, Builder, Integers, FiniteSetTheorems,
        WellFoundedInduction, TLAPS

-----------------------------------------------------------------------------
(* The bus, for every set of addresses and of lengths.  The bus looks only *)
(* at the last range that starts at or below an address, so the argument   *)
(* needs that this range exists and that none before it reaches further,   *)
(* which is what BusInv adds.                                              *)

\* The ghost lists the map's ranges, each of which holds an address; they are
\* disjoint.
BusInv ==
    /\ Bases \subseteq Nat /\ devices \in [Bases -> Nat \ {0}]
    /\ inserted = {<<b, devices[b]>> : b \in Bases}
    /\ \A b, c \in Bases : b < c => b + devices[b] <= c

\* A set of natural numbers with an upper bound has a greatest element.
LEMMA GreatestExists ==
    ASSUME NEW S \in SUBSET Nat, NEW n \in Nat, S # {}, \A x \in S : x <= n
    PROVE  \E m \in S : \A x \in S : x <= m
  <1> DEFINE T == {n - x : x \in S}
             R == OpToRel(<, Nat)
  <1>1. T \subseteq Nat /\ T # {}
    <2>1. \A x \in S : n - x \in Nat
      OBVIOUS
    <2>2. PICK x \in S : TRUE
      BY Zenon
    <2>3. n - x \in T
      BY <2>2, Zenon
    <2> QED BY <2>1, <2>3, Zenon
  <1>2. IsWellFoundedOn(R, Nat)
    BY NatLessThanWellFounded, Zenon
  <1>3. \A x, y \in Nat : x < y => <<x, y>> \in R
    <2>1. \A x, y \in Nat : <<x, y>> \in Nat \X Nat /\ <<x, y>>[1] = x /\ <<x, y>>[2] = y
      BY Zenon
    <2> QED BY <2>1, Zenon DEF OpToRel
  <1> HIDE DEF T, R
  <1>4. PICK d \in T : \A e \in T : ~ (<<e, d>> \in R)
    BY <1>1, <1>2, WFMin, Zenon
  <1>5. \A e \in T : d <= e
    <2> TAKE e \in T
    <2>1. e \in Nat /\ d \in Nat
      BY <1>1, Zenon
    <2>2. ~ (e < d)
      BY <2>1, <1>4, <1>3, Zenon
    <2> QED BY <2>1, <2>2
  <1>6. PICK m \in S : d = n - m
    BY <1>4, Zenon DEF T
  <1>7. \A x \in S : n - m <= n - x
    BY <1>5, <1>6, Zenon DEF T
  <1> QED BY <1>7

\* If some range starts at or below an address, first_before finds the last one.
LEMMA FirstBeforeExists ==
    ASSUME BusInv, NEW addr \in Nat, NEW b \in Bases, b <= addr
    PROVE  \E m \in Bases : first_before(addr) = {m} /\ b <= m /\ m <= addr
  <1> DEFINE S == {x \in Bases : x <= addr}
  <1>1. PICK m \in S : \A x \in S : x <= m
    <2>1. S \in SUBSET Nat /\ S # {} /\ \A x \in S : x <= addr
      BY Zenon DEF BusInv
    <2> QED BY <2>1, GreatestExists, Zenon
  <1>2. first_before(addr) = {x \in S : \A y \in S : y <= x}
    BY Zenon DEF first_before
  <1>3. \A x \in S : x \in Nat
    BY Zenon DEF BusInv
  <1>4. first_before(addr) = {m}
    BY <1>1, <1>2, <1>3
  <1> QED BY <1>1, <1>4, Zenon

\* get_device finds the range that holds an address.
LEMMA GetDeviceOwner ==
    ASSUME BusInv, NEW addr \in Nat
    PROVE  get_device(addr) = {b \in Bases : b <= addr /\ addr < b + devices[b]}
  <1>1. ASSUME NEW b \in get_device(addr)
        PROVE  b \in Bases /\ b <= addr /\ addr < b + devices[b]
    <2>1. b \in Bases /\ b <= addr /\ addr - b < devices[b]
      BY <1>1, Zenon DEF get_device, first_before, in_range
    <2>2. b \in Nat /\ devices[b] \in Nat
      BY <2>1, Zenon DEF BusInv
    <2> QED BY <2>1, <2>2
  <1>2. ASSUME NEW b \in Bases, b <= addr, addr < b + devices[b]
        PROVE  b \in get_device(addr)
    <2>1. PICK m \in Bases : first_before(addr) = {m} /\ b <= m /\ m <= addr
      BY <1>2, FirstBeforeExists, Zenon
    <2>2. /\ b \in Nat /\ m \in Nat /\ devices[b] \in Nat
          /\ b < m => b + devices[b] <= m
      BY <1>2, <2>1 DEF BusInv
    <2>3. b = m
      BY <1>2, <2>1, <2>2
    <2> QED BY <1>2, <2>1, <2>2, <2>3 DEF get_device, in_range
  <1> QED BY <1>1, <1>2, Zenon DEF get_device

\* insert keeps the ranges apart.
LEMMA InsertKeepsApart ==
    ASSUME BusInv, NEW base \in Address, NEW size \in Lengths, insert(base, size)
    PROVE  BusInv'
  <1>0. /\ Bases \subseteq Nat /\ \A b \in Bases : devices[b] \in Nat \ {0}
        /\ \A b, c \in Bases : b < c => b + devices[b] <= c
    BY Zenon DEF BusInv
  <1>1. base \in Nat /\ size \in Nat \ {0}
    BY BusAssumption, Zenon DEF insert
  <1>2. \A b \in Bases : b <= base => b + devices[b] <= base
    BY <1>1, GetDeviceOwner DEF insert, BusInv
  <1>3. \A b \in Bases : b > base => base + size <= b
    <2> SUFFICES ASSUME NEW b \in Bases, b > base, b <= base + size - 1 PROVE FALSE
      BY <1>0, <1>1
    <2>1. PICK m \in Bases : first_before(base + size - 1) = {m} /\ b <= m
      BY <1>1, FirstBeforeExists
    <2>2. starts_inside(base, size)
      BY <1>1, <2>1 DEF starts_inside, BusInv
    <2> QED BY <2>2, Zenon DEF insert
  <1>4. base \notin Bases
    BY <1>1, <1>2 DEF BusInv
  <1>5. /\ Bases' = Bases \cup {base} /\ devices'[base] = size
        /\ \A b \in Bases : devices'[b] = devices[b]
        /\ devices' \in [Bases' -> Nat \ {0}]
    BY <1>1, <1>4, Zenon DEF insert, Bases, BusInv
  <1>6. inserted' = {<<b, devices'[b]>> : b \in Bases'}
    BY <1>4, <1>5, Zenon DEF insert, BusInv
  <1>7. \A b, c \in Bases' : b < c => b + devices'[b] <= c
    BY <1>0, <1>1, <1>2, <1>3, <1>5
  <1> QED BY <1>1, <1>5, <1>6, <1>7, Zenon DEF BusInv

\* BusInv holds of every reachable state of the bus.
THEOREM BusInvariant == BusSpec => []BusInv
  <1>1. BusInit => BusInv
    BY Zenon DEF BusInit, BusInv, Bases
  <1>2. BusInv /\ [BusNext]_busvars => BusInv'
    <2> SUFFICES ASSUME BusInv, [BusNext]_busvars PROVE BusInv'
      BY Zenon
    <2>1. CASE UNCHANGED busvars
      BY <2>1, Zenon DEF busvars, BusInv, Bases
    <2>2. CASE BusNext
      BY <2>2, InsertKeepsApart, Zenon DEF BusNext
    <2> QED BY <2>1, <2>2, Zenon
  <1> QED BY <1>1, <1>2, PTL DEF BusSpec

\* No two devices that Bus::insert accepted share an address, whatever their
\* number, their sizes and the order of the calls.
THEOREM BusNoOverlap == BusSpec => []NoOverlap
  <1>1. BusInv => NoOverlap
    <2> SUFFICES ASSUME BusInv, NEW r \in inserted, NEW s \in inserted, r # s
                 PROVE  r[1] + r[2] <= s[1] \/ s[1] + s[2] <= r[1]
      BY Zenon DEF NoOverlap
    <2>1. PICK b \in Bases : r = <<b, devices[b]>>
      BY Zenon DEF BusInv
    <2>2. PICK c \in Bases : s = <<c, devices[c]>>
      BY Zenon DEF BusInv
    <2>3. b < c \/ c < b
      BY <2>1, <2>2 DEF BusInv
    <2> QED BY <2>1, <2>2, <2>3, Zenon DEF BusInv
  <1> QED BY <1>1, BusInvariant, PTL

\* Bus::get_device routes every address to the device that was inserted over
\* it, and to none if there is none.
THEOREM BusRoutesToOwner == BusSpec => []RoutesToOwner
  <1>1. BusInv => RoutesToOwner
    <2> SUFFICES ASSUME BusInv, NEW addr \in Address
                 PROVE  get_device(addr) = {r[1] : r \in {x \in inserted : Owns(x, addr)}}
      BY Zenon DEF RoutesToOwner
    <2>1. get_device(addr) = {b \in Bases : b <= addr /\ addr < b + devices[b]}
      BY GetDeviceOwner, BusAssumption, Zenon
    <2>2. {r[1] : r \in {x \in inserted : Owns(x, addr)}}
            = {b \in Bases : Owns(<<b, devices[b]>>, addr)}
      <3>1. inserted = {<<b, devices[b]>> : b \in Bases}
        BY Zenon DEF BusInv
      <3>2. {r[1] : r \in {x \in inserted : Owns(x, addr)}}
              \subseteq {b \in Bases : Owns(<<b, devices[b]>>, addr)}
        BY <3>1
      <3>3. ASSUME NEW b \in Bases, Owns(<<b, devices[b]>>, addr)
            PROVE  b \in {r[1] : r \in {x \in inserted : Owns(x, addr)}}
        <4>1. <<b, devices[b]>> \in {x \in inserted : Owns(x, addr)}
          BY <3>1, <3>3, Zenon
        <4>2. <<b, devices[b]>>[1] = b
          BY Zenon
        <4> QED BY <4>1, <4>2, Zenon
      <3> QED BY <3>2, <3>3, Zenon
    <2> QED BY <2>1, <2>2, Zenon DEF Owns
  <1> QED BY <1>1, BusInvariant, PTL

-----------------------------------------------------------------------------
(* The MMIO transport.  A device that is active has a status with DRIVER_OK *)
(* or FAILED, from which no write leads back: that is why its queues and    *)
(* its interrupt status are safe from register writes.  What it has to pop  *)
(* is bounded at the activation by the maximal size and later, for a driver *)
(* that keeps to the rules, by the size of the queue.                       *)

\* What trigger_irq may have left to do.
Raised == {<< >>, <<[op |-> "evt"]>>} \cup {trigger_irq(q) : q \in Irqs}

\* An event that trigger_irq will still write.
EvtToCome == \E i \in DOMAIN raising : raising[i].op = "evt"

RegistersOk == \A i \in DOMAIN queues : registers_ok(queues[i])
LensOk == \A i \in DOMAIN queues : len(i) <= MaxSize
QueueTypes ==
    /\ avail_len \in [DOMAIN queues -> Nat]
    /\ \A i \in DOMAIN queues : DOMAIN queues[i] = DOMAIN NewQueue /\ queues[i].size \in Nat

MmioInv ==
    /\ activated \in BOOLEAN /\ acked_features \subseteq avail_features
    /\ QueueTypes
    /\ activated /\ ~overran => LensOk
    /\ activated => RegistersOk /\ device_status \cap {DRIVER_OK, FAILED} # {}
    /\ ~activated => unseen = {} /\ raising = << >>
    /\ raising \in Raised
    /\ NoLostInterrupt

\* What is left of a trigger_irq whose first step is done.
LEMMA AfterRaiseStep ==
    ASSUME raising \in Raised, raising # << >>, raising' = Tail(raising)
    PROVE  /\ raising' \in Raised
           /\ raising[1].op = "status" => EvtToCome'
           /\ raising[1].op # "status" => raising[1].op = "evt"
           /\ raising[1].op = "status" => raising[1].irq \in Irqs
  <1>1. CASE raising = <<[op |-> "evt"]>>
    BY <1>1 DEF Raised
  <1>2. ASSUME NEW q \in Irqs, raising = trigger_irq(q)
        PROVE  raising' = <<[op |-> "evt"]>> /\ raising[1] = [op |-> "status", irq |-> q]
    BY <1>2 DEF trigger_irq
  <1>3. ASSUME raising' = <<[op |-> "evt"]>> PROVE EvtToCome'
    <2>1. 1 \in DOMAIN <<[op |-> "evt"]>> /\ <<[op |-> "evt"]>>[1].op = "evt"
      OBVIOUS
    <2> QED BY <1>3, <2>1, Zenon DEF EvtToCome
  <1>4. CASE \E q \in Irqs : raising = trigger_irq(q)
    <2>0. PICK q \in Irqs : raising = trigger_irq(q)
      BY <1>4, Zenon
    <2>1. raising' = <<[op |-> "evt"]>> /\ raising[1] = [op |-> "status", irq |-> q]
      BY <1>2, <2>0, Zenon
    <2>2. raising[1].op = "status" /\ raising[1].irq \in Irqs
      BY <2>1
    <2> QED BY <1>3, <2>1, <2>2, Zenon DEF Raised
  <1> QED BY <1>1, <1>4, Zenon DEF Raised

\* Steps that leave the queues and their rings alone.
LEMMA QueuesKept ==
    ASSUME UNCHANGED <<queues, avail_len>>
    PROVE  RegistersOk' = RegistersOk /\ LensOk' = LensOk /\ QueueTypes' = QueueTypes
  BY Zenon DEF RegistersOk, LensOk, QueueTypes, registers_ok, ring_ok, is_power_of_two, len, NewQueue

\* Register writes keep the queues of an active device valid.
LEMMA RegistersKeepInv ==
    ASSUME MmioInv,
           \/ update_queue_field \/ SelectQueue \/ SelectAckedFeatures
           \/ ack_features_by_page \/ set_device_status
    PROVE  MmioInv'
  <1>1. ASSUME UNCHANGED <<interrupt_status, irq_evt, raising, handler, unseen>>
        PROVE  NoLostInterrupt'
    BY <1>1, Zenon DEF NoLostInterrupt, MmioInv
  <1>2. CASE update_queue_field
    <2>1. ~activated
      BY <1>2, Zenon DEF update_queue_field, queues_open, check_device_status, MmioInv,
         FEATURES_OK, DRIVER_OK, FAILED
    <2>2. DOMAIN queues' = DOMAIN queues /\ avail_len' = avail_len
      BY <1>2, Zenon DEF update_queue_field, interrupts, rings
    <2>3. ASSUME NEW i \in DOMAIN queues
          PROVE  DOMAIN queues'[i] = DOMAIN NewQueue /\ queues'[i].size \in Nat
      <3>1. DOMAIN queues[i] = {"size", "ready", "ring"} /\ queues[i].size \in Nat
        BY <2>3 DEF MmioInv, QueueTypes, NewQueue
      <3>2. \/ queues'[i] = queues[i]
            \/ \E v \in Sizes : queues'[i] = [queues[i] EXCEPT !.size = v]
            \/ \E v \in BOOLEAN : queues'[i] = [queues[i] EXCEPT !.ready = v]
            \/ \E x : queues'[i] = [queues[i] EXCEPT !.ring = x]
        <4> DEFINE q == queues[queue_select]
        <4>1. \/ \E v \in Sizes : queues' = [queues EXCEPT ![queue_select] = [q EXCEPT !.size = v]]
              \/ \E v \in BOOLEAN : queues' = [queues EXCEPT ![queue_select] = [q EXCEPT !.ready = v]]
              \/ \E x : queues' = [queues EXCEPT ![queue_select] = [q EXCEPT !.ring = x]]
          BY <1>2, Zenon DEF update_queue_field
        <4>2. ASSUME NEW w, queues' = [queues EXCEPT ![queue_select] = w]
              PROVE  queues'[i] = IF i = queue_select THEN w ELSE queues[i]
          BY <2>3, <4>2, Zenon
        <4> QED BY <4>1, <4>2, Zenon
      <3>3. DOMAIN queues'[i] = {"size", "ready", "ring"} /\ queues'[i].size \in Nat
        <4>1. CASE \E v \in Sizes : queues'[i] = [queues[i] EXCEPT !.size = v]
          BY <3>1, <4>1, MmioAssumption
        <4>2. CASE \E v \in BOOLEAN : queues'[i] = [queues[i] EXCEPT !.ready = v]
          BY <3>1, <4>2
        <4>3. CASE \E x : queues'[i] = [queues[i] EXCEPT !.ring = x]
          BY <3>1, <4>3
        <4> QED BY <3>1, <3>2, <4>1, <4>2, <4>3, Zenon
      <3> QED BY <3>3 DEF NewQueue
    <2>4. QueueTypes'
      BY <2>2, <2>3, Zenon DEF MmioInv, QueueTypes, NewQueue
    <2> QED BY <1>1, <1>2, <2>1, <2>4, Zenon DEF update_queue_field, registers, interrupts, MmioInv,
               avail_features, Offered, Bits, Raised
  <1>3. CASE SelectQueue \/ SelectAckedFeatures
    <2>1. UNCHANGED <<device_status, device, interrupts>>
      BY <1>3, Zenon DEF SelectQueue, SelectAckedFeatures
    <2> QED BY <1>1, <2>1, QueuesKept, Zenon DEF device, interrupts, rings, MmioInv, avail_features,
               Offered, Bits, Raised
  <1>4. CASE ack_features_by_page
    <2>1. acked_features' \subseteq avail_features
      BY <1>4, Zenon DEF ack_features_by_page, acknowledged, MmioInv
    <2> QED BY <1>1, <1>4, <2>1, QueuesKept, Zenon DEF ack_features_by_page, registers, interrupts,
               rings, MmioInv, avail_features, Offered, Bits, Raised
  <1>5. CASE set_device_status
    <2>1. ASSUME NEW status \in SUBSET StatusBits, SetStatus(status) PROVE MmioInv'
      <3>1. ~activated
        BY <2>1, Zenon DEF SetStatus, Advances, MmioInv, INIT, ACKNOWLEDGE, DRIVER, DRIVER_OK, FAILED
      <3> QED BY <1>1, <2>1, <3>1, QueuesKept, Zenon DEF SetStatus, device, interrupts, rings,
                 MmioInv, Raised, avail_features, Offered, Bits
    <2>2. ASSUME NEW status \in SUBSET StatusBits, SetDriverOk(status) PROVE MmioInv'
      <3>1. DRIVER_OK \in device_status'
        BY <2>2, Zenon DEF SetDriverOk, Advances
      <3>2. /\ activated' \in BOOLEAN /\ (activated => activated')
            /\ activated' => RegistersOk /\ (~overran => LensOk)
        BY <2>2, Zenon DEF SetDriverOk, activates, MmioInv, are_queues_valid, is_valid, RegistersOk,
           LensOk
      <3>3. UNCHANGED <<queues, avail_len, overran>>
        BY <2>2, Zenon DEF SetDriverOk, interrupts, rings
      <3> QED BY <1>1, <2>2, <3>1, <3>2, <3>3, QueuesKept, Zenon DEF SetDriverOk, interrupts, MmioInv,
                 Raised, avail_features, Offered, Bits
    <2>3. ASSUME NEW status \in SUBSET StatusBits, SetFailed(status) PROVE MmioInv'
      BY <1>1, <2>3, QueuesKept, Zenon DEF SetFailed, device, interrupts, rings, MmioInv, Raised,
         avail_features, Offered, Bits
    <2>4. CASE WriteZero /\ FAILED \in reset_result
      <3>1. FAILED \in device_status' /\ UNCHANGED <<device, interrupts>>
        BY <2>4, Zenon DEF WriteZero
      <3> QED BY <1>1, <3>1, QueuesKept, Zenon DEF device, interrupts, rings, MmioInv, Raised,
                 avail_features, Offered, Bits
    <2>5. CASE WriteZero /\ FAILED \notin reset_result
      <3>1. /\ ~activated
            /\ UNCHANGED <<acked_features, activated, irq_evt, raising, handler, unseen, avail_len>>
            /\ queues' = [i \in DOMAIN queues |-> NewQueue]
        BY <2>5, Zenon DEF WriteZero, reset_result, reset, rings
      <3>2. unseen' = {} /\ NoLostInterrupt'
        BY <3>1, Zenon DEF MmioInv, NoLostInterrupt
      <3>3. QueueTypes'
        <4>1. NewQueue.size \in Nat
          BY DEF NewQueue
        <4> HIDE DEF NewQueue
        <4>2. NewQueue' = NewQueue
          BY DEF NewQueue
        <4> QED BY <3>1, <4>1, <4>2, Zenon DEF MmioInv, QueueTypes
      <3> QED BY <3>1, <3>2, <3>3, Zenon DEF MmioInv, Raised, avail_features, Offered, Bits
    <2> QED BY <1>5, <2>1, <2>2, <2>3, <2>4, <2>5, Zenon DEF set_device_status
  <1> QED BY <1>2, <1>3, <1>4, <1>5, Zenon

\* What the driver publishes and the device pops: as long as no driver makes more
\* available than its queue holds, an active queue has at most MaxSize to pop.
LEMMA RingsKeepInv ==
    ASSUME MmioInv, DriverPublishes \/ DevicePops
    PROVE  MmioInv'
  <1>1. UNCHANGED <<registers, device, interrupt_status, irq_evt, raising, handler, unseen>>
    BY Zenon DEF DriverPublishes, DevicePops
  <1>2. NoLostInterrupt'
    BY <1>1, Zenon DEF NoLostInterrupt, MmioInv
  <1>3. QueueTypes' /\ (activated /\ ~overran' => LensOk')
    <2>1. CASE DriverPublishes
      <3>1. PICK i \in DOMAIN queues :
              /\ avail_len' = [avail_len EXCEPT ![i] = avail_len[i] + 1]
              /\ overran' = (overran \/ (activated /\ avail_len[i] >= queues[i].size))
        BY <2>1, Zenon DEF DriverPublishes, len
      <3>2. /\ avail_len \in [DOMAIN queues -> Nat] /\ queues[i].size \in Nat
            /\ queues' = queues /\ MaxSize \in Nat
        BY <1>1, MmioAssumption, Zenon DEF MmioInv, QueueTypes, device
      <3>3. avail_len' \in [DOMAIN queues -> Nat]
        BY <3>1, <3>2
      <3>4. ASSUME activated, ~overran', NEW j \in DOMAIN queues PROVE avail_len'[j] <= MaxSize
        <4>1. queues[i].size <= MaxSize /\ ~overran /\ ~(avail_len[i] >= queues[i].size)
          BY <3>1, <3>4, Zenon DEF MmioInv, RegistersOk, registers_ok
        <4>2. avail_len[j] <= MaxSize
          BY <3>4, <4>1, Zenon DEF MmioInv, LensOk, len
        <4> QED BY <3>1, <3>2, <4>1, <4>2
      <3> QED BY <3>2, <3>3, <3>4, Zenon DEF MmioInv, QueueTypes, LensOk, len, NewQueue
    <2>2. CASE DevicePops
      <3>1. PICK i \in DOMAIN queues :
              /\ avail_len[i] > 0 /\ avail_len' = [avail_len EXCEPT ![i] = avail_len[i] - 1]
              /\ overran' = overran
        BY <2>2, Zenon DEF DevicePops, len
      <3>2. avail_len \in [DOMAIN queues -> Nat] /\ queues' = queues /\ MaxSize \in Nat
        BY <1>1, MmioAssumption, Zenon DEF MmioInv, QueueTypes, device
      <3>3. avail_len' \in [DOMAIN queues -> Nat]
        BY <3>1, <3>2
      <3>4. ASSUME activated, ~overran', NEW j \in DOMAIN queues PROVE avail_len'[j] <= MaxSize
        <4>1. avail_len[j] <= MaxSize
          BY <3>1, <3>4, Zenon DEF MmioInv, LensOk, len
        <4> QED BY <3>1, <3>2, <4>1
      <3> QED BY <3>2, <3>3, <3>4, Zenon DEF MmioInv, QueueTypes, LensOk, len, NewQueue
    <2> QED BY <2>1, <2>2, Zenon
  <1>4. RegistersOk' = RegistersOk
    BY <1>1, Zenon DEF device, RegistersOk, registers_ok, ring_ok, is_power_of_two
  <1> QED BY <1>1, <1>2, <1>3, <1>4, Zenon DEF registers, device, MmioInv, Raised, avail_features,
             Offered, Bits

\* The two steps of trigger_irq and the guest's handler lose no interrupt.
LEMMA InterruptsKeepInv ==
    ASSUME MmioInv, Raise \/ RaiseStep \/ Deliver \/ ReadInterruptStatus \/ AckInterrupt
    PROVE  MmioInv'
  <1> USE DEF MmioInv
  <1>0. ASSUME UNCHANGED <<registers, device, rings>>
        PROVE  /\ activated' = activated /\ acked_features' \subseteq avail_features'
               /\ QueueTypes' /\ (activated' /\ ~overran' => LensOk')
               /\ activated' => RegistersOk' /\ (device_status \cap {DRIVER_OK, FAILED} # {})'
    BY <1>0, QueuesKept, Zenon DEF registers, device, rings, avail_features, Offered, Bits
  <1>1. CASE Raise
    <2>1. raising' \in Raised /\ activated /\ raising = << >>
      BY <1>1, Zenon DEF Raise, Raised
    <2>2. UNCHANGED <<registers, device, interrupt_status, irq_evt, handler, unseen, rings>>
      BY <1>1, Zenon DEF Raise
    <2>3. NoLostInterrupt'
      BY <2>1, <2>2 DEF NoLostInterrupt
    <2> QED BY <1>0, <2>1, <2>2, <2>3, Zenon
  <1>2. CASE RaiseStep
    <2>1. /\ raising # << >> /\ raising' = Tail(raising)
          /\ UNCHANGED <<registers, device, handler, rings>>
      BY <1>2, Zenon DEF RaiseStep
    <2>2. activated
      BY <2>1, Zenon
    <2>3. /\ raising' \in Raised
          /\ raising[1].op = "status" => EvtToCome'
          /\ raising[1].op # "status" => raising[1].op = "evt"
      BY <2>1, AfterRaiseStep, Zenon
    <2>4. NoLostInterrupt'
      <3>1. CASE raising[1].op = "status"
        <4>1. /\ interrupt_status' = interrupt_status \cup {raising[1].irq}
              /\ unseen' = unseen \cup {raising[1].irq} /\ UNCHANGED <<irq_evt, handler>>
          BY <1>2, <3>1, Zenon DEF RaiseStep
        <4> QED BY <2>3, <3>1, <4>1, Zenon DEF NoLostInterrupt, EvtToCome
      <3>2. CASE raising[1].op # "status"
        <4>1. irq_evt' = TRUE /\ UNCHANGED <<interrupt_status, unseen, handler>>
          BY <1>2, <3>2, Zenon DEF RaiseStep
        <4> QED BY <4>1, Zenon DEF NoLostInterrupt
      <3> QED BY <3>1, <3>2, Zenon
    <2> QED BY <1>0, <2>1, <2>2, <2>3, <2>4, Zenon
  <1>3. CASE Deliver
    <2>1. NoLostInterrupt'
      BY <1>3 DEF Deliver, NoLostInterrupt
    <2> QED BY <1>0, <1>3, <2>1, Zenon DEF Deliver
  <1>4. CASE ReadInterruptStatus
    <2>1. NoLostInterrupt'
      BY <1>4, Zenon DEF ReadInterruptStatus, NoLostInterrupt
    <2> QED BY <1>0, <1>4, <2>1, Zenon DEF ReadInterruptStatus
  <1>5. CASE AckInterrupt
    <2>1. NoLostInterrupt'
      BY <1>5, Zenon DEF AckInterrupt, NoLostInterrupt, fetch_and_not
    <2> QED BY <1>0, <1>5, <2>1, Zenon DEF AckInterrupt
  <1> QED BY <1>1, <1>2, <1>3, <1>4, <1>5, Zenon

\* MmioInv holds of every reachable state of the transport.
THEOREM MmioInvariant == MmioSpec => []MmioInv
  <1>1. MmioInit => MmioInv
    <2>1. NewQueue.size \in Nat /\ 0 \in Nat
      BY DEF NewQueue
    <2> HIDE DEF NewQueue
    <2> QED BY <2>1, Zenon DEF MmioInit, MmioInv, Raised, NoLostInterrupt, QueueTypes
  <1>2. MmioInv /\ [MmioNext]_tvars => MmioInv'
    <2>1. CASE UNCHANGED tvars
      BY <2>1, QueuesKept, Zenon DEF tvars, MmioInv, Raised, NoLostInterrupt, avail_features, Offered,
         Bits
    <2> QED BY <2>1, RegistersKeepInv, RingsKeepInv, InterruptsKeepInv, Zenon DEF MmioNext
  <1> QED BY <1>1, <1>2, PTL DEF MmioSpec

\* MmioTransport and MmioTransportState: what a snapshot saves of a transport is
\* accepted by build_queues_checked, whatever registers the guest has written in
\* whatever order, for any number of queues, sizes and features, if its driver
\* makes no more available on an active queue than the queue holds.
THEOREM TransportIsRestorable == MmioSpec => []SnapshotRestorable
  <1>1. MmioInv => SnapshotRestorable
    BY Zenon DEF MmioInv, SnapshotRestorable, build_queues_checked, is_valid, RegistersOk,
       registers_ok, LensOk
  <1> QED BY <1>1, MmioInvariant, PTL

\* IrqTrigger::trigger_irq: no interleaving of its two steps with the guest's
\* reads and acknowledgements of the status register loses an interrupt.
THEOREM InterruptsAreNotLost == MmioSpec => []NoLostInterrupt
  <1>1. MmioInv => NoLostInterrupt
    BY Zenon DEF MmioInv
  <1> QED BY <1>1, MmioInvariant, PTL

-----------------------------------------------------------------------------
(* The block device: no request is duplicated or dropped, ring_ops counts  *)
(* the operations in flight, and no wake-up is lost.                       *)
(*                                                                         *)
(* BlockInv has two parts.  Placed says where every head is: in exactly    *)
(* one of seven places, once.  Woken says which event is still to come     *)
(* whenever there is work: one for the ring while notifications are        *)
(* disarmed, one for the completion queue while it is not empty, and for a *)
(* throttled device a completion.                                          *)

\* The heads in a sequence are different.
Inj(s) == \A a, b \in 1..Len(s) : s[a] = s[b] => a = b

PlaceType ==
    /\ free \subseteq Heads /\ used \subseteq Heads /\ kernel \subseteq Heads
    /\ lost \subseteq Heads
    /\ avail \in Seq(Heads) /\ sq \in Seq(Heads) /\ cq \in Seq(Heads)
    /\ ring_ops \in Nat

FlagType ==
    /\ kind \in [Heads -> Kinds]
    /\ pc \in {"idle", "loop", "submit", "complete", "saved"}
    /\ armed \in BOOLEAN /\ queue_evt \in BOOLEAN /\ throttled \in BOOLEAN
    /\ blocked \in BOOLEAN /\ comp_evt \in BOOLEAN /\ registered \in BOOLEAN
    /\ running \in BOOLEAN /\ irq \in BOOLEAN /\ saved_irq \in BOOLEAN
    /\ errors \in Nat

\* Every head is in one place, once.
Placed ==
    /\ Inj(avail) /\ Inj(sq) /\ Inj(cq)
    /\ free \cup Elems(avail) \cup used \cup Elems(sq) \cup kernel \cup Elems(cq) \cup lost = Heads
    /\ free \cap (Elems(avail) \cup used \cup Elems(sq) \cup kernel \cup Elems(cq) \cup lost) = {}
    /\ Elems(avail) \cap (used \cup Elems(sq) \cup kernel \cup Elems(cq) \cup lost) = {}
    /\ used \cap (Elems(sq) \cup kernel \cup Elems(cq) \cup lost) = {}
    /\ Elems(sq) \cap (kernel \cup Elems(cq) \cup lost) = {}
    /\ kernel \cap (Elems(cq) \cup lost) = {}
    /\ Elems(cq) \cap lost = {}

\* Whatever work there is has an event that will get it done.
Woken ==
    /\ pc = "saved" => ~running
    /\ ~armed \/ avail # <<>> => pc = "loop" \/ queue_evt \/ blocked \/ throttled \/ ~running
    /\ cq # <<>> => comp_evt \/ pc = "complete"
    /\ errors = 0 /\ sq # <<>> => pc \in {"loop", "submit"}
    /\ errors = 0 /\ pc = "saved" => kernel = {} /\ cq = <<>>
    /\ throttled => Engine = "Async"
    /\ throttled /\ errors = 0 /\ registered => ring_ops > 0 \/ comp_evt \/ pc = "complete"

\* The inductive invariant.
BlockInv == PlaceType /\ FlagType /\ Placed /\ NumOpsExact /\ Woken /\ NothingLost

----------------------------------------------------------------------------
(* Heads in sequences.                                                     *)

\* A sequence holds no head exactly when it is empty.
LEMMA ElemsEmpty ==
    ASSUME NEW S, NEW s \in Seq(S)
    PROVE  Elems(s) \subseteq S /\ (Elems(s) = {} <=> s = <<>>) /\ Elems(<<>>) = {} /\ Inj(<<>>)
  <1>1. \A i \in 1..Len(s) : s[i] \in S
    OBVIOUS
  <1>2. s # <<>> => 1 \in 1..Len(s)
    OBVIOUS
  <1>3. 1..Len(<<>>) = {}
    OBVIOUS
  <1>4. Elems(<<>>) = {} /\ Inj(<<>>)
    BY <1>3, Zenon DEF Elems, Inj
  <1>5. s # <<>> => s[1] \in Elems(s)
    BY <1>2, Zenon DEF Elems
  <1> QED BY <1>1, <1>4, <1>5, Zenon DEF Elems

\* What a push at the back does.
LEMMA ElemsAppend ==
    ASSUME NEW S, NEW s \in Seq(S), NEW h \in S, h \notin Elems(s), Inj(s)
    PROVE  /\ Append(s, h) \in Seq(S) /\ Len(Append(s, h)) = Len(s) + 1
           /\ Elems(Append(s, h)) = Elems(s) \cup {h} /\ Inj(Append(s, h))
  <1> DEFINE t == Append(s, h)
  <1>1. t \in Seq(S) /\ Len(t) = Len(s) + 1
    OBVIOUS
  <1>2. \A i \in 1..Len(s) : t[i] = s[i]
    OBVIOUS
  <1>3. t[Len(s) + 1] = h
    OBVIOUS
  <1>4. Len(s) \in Nat
    OBVIOUS
  <1> HIDE DEF t
  <1>5. 1..Len(t) = (1..Len(s)) \cup {Len(s) + 1}
    BY <1>1, <1>4
  <1>6. Elems(t) = Elems(s) \cup {h}
    BY <1>2, <1>3, <1>5, ZenonT(30) DEF Elems
  <1>7. \A i \in 1..Len(s) : t[i] # h
    BY <1>2, Zenon DEF Elems
  <1>8. Inj(t)
    <2> SUFFICES ASSUME NEW a \in 1..Len(t), NEW b \in 1..Len(t), t[a] = t[b]
                 PROVE  a = b
      BY Zenon DEF Inj
    <2>1. CASE a \in 1..Len(s) /\ b \in 1..Len(s)
      BY <2>1, <1>2, Zenon DEF Inj
    <2>2. CASE a = Len(s) + 1 \/ b = Len(s) + 1
      BY <2>2, <1>3, <1>5, <1>7, Zenon
    <2> QED BY <2>1, <2>2, <1>5, Zenon
  <1> QED BY <1>1, <1>6, <1>8, Zenon DEF t

\* What a pop at the front does.
LEMMA ElemsTail ==
    ASSUME NEW S, NEW s \in Seq(S), s # <<>>, Inj(s)
    PROVE  /\ Head(s) \in Elems(s) /\ Head(s) \in S
           /\ Tail(s) \in Seq(S) /\ Len(Tail(s)) = Len(s) - 1
           /\ Elems(Tail(s)) = Elems(s) \ {Head(s)} /\ Inj(Tail(s))
  <1> DEFINE t == Tail(s)
  <1>1. t \in Seq(S) /\ Len(t) = Len(s) - 1 /\ Len(s) \in Nat \ {0} /\ Head(s) = s[1]
    OBVIOUS
  <1>2. \A i \in 1..Len(t) : t[i] = s[i + 1]
    OBVIOUS
  <1> HIDE DEF t
  <1>3. \A i \in 1..Len(t) : i + 1 \in 1..Len(s) /\ i + 1 # 1
    BY <1>1
  <1>4. \A j \in 1..Len(s) : j # 1 => j - 1 \in 1..Len(t) /\ (j - 1) + 1 = j
    BY <1>1
  <1>5. 1 \in 1..Len(s)
    BY <1>1
  <1>6. Elems(t) \subseteq Elems(s) \ {Head(s)}
    BY <1>1, <1>2, <1>3, <1>5 DEF Elems, Inj
  <1>7. Elems(s) \ {Head(s)} \subseteq Elems(t)
    <2> SUFFICES ASSUME NEW j \in 1..Len(s), s[j] # s[1]
                 PROVE  s[j] \in Elems(t)
      BY <1>1, Zenon DEF Elems
    <2>1. j - 1 \in 1..Len(t) /\ t[j - 1] = s[j]
      BY <1>2, <1>4, Zenon
    <2> QED BY <2>1, Zenon DEF Elems
  <1>8. Inj(t)
    <2> SUFFICES ASSUME NEW a \in 1..Len(t), NEW b \in 1..Len(t), t[a] = t[b]
                 PROVE  a = b
      BY Zenon DEF Inj
    <2>1. s[a + 1] = s[b + 1] /\ a + 1 \in 1..Len(s) /\ b + 1 \in 1..Len(s)
      BY <1>2, <1>3, Zenon
    <2>2. a + 1 = b + 1
      BY <2>1, Zenon DEF Inj
    <2> QED BY <2>2
  <1>9. Head(s) \in Elems(s)
    BY <1>1, <1>5, Zenon DEF Elems
  <1>10. Head(s) \in S
    OBVIOUS
  <1> QED BY <1>1, <1>6, <1>7, <1>8, <1>9, <1>10, Zenon DEF t

\* Splitting a sequence of different heads splits its heads.
LEMMA ElemsSplit ==
    ASSUME NEW S, NEW s \in Seq(S), Inj(s), NEW n \in 0..(Len(s) - 1)
    PROVE  LET p == SubSeq(s, 1, n)
               q == SubSeq(s, n + 1, Len(s))
           IN  /\ p \in Seq(S) /\ q \in Seq(S) /\ Len(p) = n /\ Len(q) = Len(s) - n
               /\ Elems(p) \cup Elems(q) = Elems(s) /\ Elems(p) \cap Elems(q) = {}
               /\ Inj(p) /\ Inj(q)
  <1> DEFINE p == SubSeq(s, 1, n)
             q == SubSeq(s, n + 1, Len(s))
  <1>1. Len(s) \in Nat /\ n \in Nat /\ n < Len(s)
    OBVIOUS
  <1>2. p \in Seq(S) /\ Len(p) = n /\ \A i \in 1..n : p[i] = s[i]
    BY <1>1
  <1>3. q \in Seq(S) /\ Len(q) = Len(s) - n /\ \A i \in 1..(Len(s) - n) : q[i] = s[n + i]
    BY <1>1
  <1> HIDE DEF p, q
  <1>4. \A i \in 1..n : i \in 1..Len(s)
    BY <1>1
  <1>5. \A i \in 1..(Len(s) - n) : n + i \in 1..Len(s) /\ \A k \in 1..n : n + i # k
    BY <1>1
  <1>6. \A j \in 1..Len(s) : j \in 1..n \/ (j - n \in 1..(Len(s) - n) /\ n + (j - n) = j)
    BY <1>1
  <1>7. Elems(p) = {s[i] : i \in 1..n}
    BY <1>2, Zenon DEF Elems
  <1>8. Elems(q) = {s[n + i] : i \in 1..(Len(s) - n)}
    BY <1>3, Zenon DEF Elems
  <1>9. Elems(p) \cup Elems(q) \subseteq Elems(s)
    BY <1>4, <1>5, <1>7, <1>8, Zenon DEF Elems
  <1>10. Elems(s) \subseteq Elems(p) \cup Elems(q)
    <2> SUFFICES ASSUME NEW j \in 1..Len(s)
                 PROVE  s[j] \in Elems(p) \cup Elems(q)
      BY Zenon DEF Elems
    <2>1. CASE j \in 1..n
      BY <2>1, <1>7, Zenon
    <2>2. CASE j - n \in 1..(Len(s) - n) /\ n + (j - n) = j
      <3>1. s[n + (j - n)] \in Elems(q)
        BY <2>2, <1>8, Zenon
      <3> QED BY <3>1, <2>2, Zenon
    <2> QED BY <2>1, <2>2, <1>6, Zenon
  <1>11. Elems(p) \cap Elems(q) = {}
    <2> SUFFICES ASSUME NEW k \in 1..n, NEW i \in 1..(Len(s) - n), s[k] = s[n + i]
                 PROVE  FALSE
      BY <1>7, <1>8, Zenon
    <2> QED BY <1>4, <1>5, Zenon DEF Inj
  <1>12. Inj(p)
    BY <1>2, <1>4, Zenon DEF Inj
  <1>13. Inj(q)
    <2> SUFFICES ASSUME NEW a \in 1..(Len(s) - n), NEW b \in 1..(Len(s) - n), q[a] = q[b]
                 PROVE  a = b
      BY <1>3, Zenon DEF Inj
    <2>1. n + a = n + b
      BY <1>3, <1>5, Zenon DEF Inj
    <2> QED BY <2>1, <1>1
  <1> QED BY <1>2, <1>3, <1>9, <1>10, <1>11, <1>12, <1>13, Zenon DEF p, q

\* A sequence of different heads has as many heads as it is long.
LEMMA ElemsCard ==
    ASSUME NEW S, NEW s \in Seq(S), Inj(s)
    PROVE  IsFiniteSet(Elems(s)) /\ Cardinality(Elems(s)) = Len(s)
  <1>1. Len(s) \in Nat /\ \A i \in 1..Len(s) : s[i] \in Elems(s)
    BY DEF Elems
  <1>2. IsFiniteSet(1..Len(s)) /\ Cardinality(1..Len(s)) = Len(s)
    <2>1. 1 \in Int /\ Len(s) \in Int
      BY <1>1
    <2>2. Cardinality(1..Len(s)) = IF 1 > Len(s) THEN 0 ELSE Len(s) - 1 + 1
      BY <2>1, FS_Interval, Zenon
    <2>3. IsFiniteSet(1..Len(s))
      BY <2>1, FS_Interval, Zenon
    <2> QED BY <2>2, <2>3, <1>1
  <1> DEFINE f == [i \in 1..Len(s) |-> s[i]]
  <1>3. f \in Bijection(1..Len(s), Elems(s))
    <2>1. f \in [1..Len(s) -> Elems(s)]
      BY <1>1, Zenon
    <2>2. f \in Injection(1..Len(s), Elems(s))
      BY <2>1, Zenon DEF Injection, IsInjective, Inj
    <2>3. f \in Surjection(1..Len(s), Elems(s))
      BY <2>1, Zenon DEF Surjection, Elems
    <2> QED BY <2>2, <2>3, Zenon DEF Bijection
  <1>4. ExistsBijection(1..Len(s), Elems(s))
    BY <1>3, Zenon DEF ExistsBijection
  <1> HIDE DEF f
  <1> QED BY <1>2, <1>4, FS_Bijection, Zenon

\* Disjoint finite sets add up.
LEMMA DisjointCard ==
    ASSUME NEW S, IsFiniteSet(S), NEW T, IsFiniteSet(T), S \cap T = {}
    PROVE  /\ IsFiniteSet(S \cup T)
           /\ Cardinality(S \cup T) = Cardinality(S) + Cardinality(T)
           /\ Cardinality(S) \in Nat /\ Cardinality(T) \in Nat
  <1>1. Cardinality(S \cup T) = Cardinality(S) + Cardinality(T) - Cardinality(S \cap T)
    BY FS_Union, Zenon
  <1>2. Cardinality(S \cap T) = 0
    BY FS_EmptySet, Zenon
  <1>3. Cardinality(S) \in Nat /\ Cardinality(T) \in Nat
    BY FS_CardinalityType, Zenon
  <1>4. IsFiniteSet(S \cup T)
    BY FS_Union, ZenonT(30)
  <1> QED BY <1>1, <1>2, <1>3, <1>4

\* Heads the kernel works on can be counted.
LEMMA KernelCard ==
    ASSUME BlockAssumption, NEW K \in SUBSET Heads
    PROVE  IsFiniteSet(K) /\ Cardinality(K) \in Nat /\ (Cardinality(K) = 0 <=> K = {})
  <1>1. IsFiniteSet(K)
    BY FS_Subset, Zenon DEF BlockAssumption
  <1> QED BY <1>1, FS_CardinalityType, FS_EmptySet, Zenon

----------------------------------------------------------------------------
(* Where the heads are.                                                    *)

\* What the placement depends on.
places == <<free, avail, used, sq, kernel, cq, lost, ring_ops>>

\* A step that moves no head keeps every head in its place.
LEMMA PlacesFrame ==
    ASSUME BlockInv, UNCHANGED places
    PROVE  Placed' /\ NumOpsExact'
  <1>1. /\ Elems(avail)' = Elems(avail) /\ Elems(sq)' = Elems(sq) /\ Elems(cq)' = Elems(cq)
        /\ Inj(avail)' = Inj(avail) /\ Inj(sq)' = Inj(sq) /\ Inj(cq)' = Inj(cq)
    BY Zenon DEF places, Elems, Inj
  <1>2. /\ free' = free /\ used' = used /\ kernel' = kernel /\ lost' = lost
        /\ ring_ops' = ring_ops /\ sq' = sq /\ cq' = cq
    BY Zenon DEF places
  <1> QED BY <1>1, <1>2, Zenon DEF BlockInv, Placed, NumOpsExact

\* The types of what a step leaves or sets to a value of its own.
LEMMA FlagsStep ==
    ASSUME BlockAssumption, BlockInv, Next
    PROVE  FlagType'
  <1> USE DEF BlockInv, FlagType, ring, engine, guest, kvm, counts
  <1>1. CASE ProcessQueueEvent
    BY <1>1, Zenon DEF ProcessQueueEvent
  <1>2. CASE ProcessRateLimiterEvent
    BY <1>2, Zenon DEF ProcessRateLimiterEvent
  <1>3. CASE PopNone
    BY <1>3, Zenon DEF PopNone
  <1>4. CASE RateLimited
    BY <1>4, Zenon DEF RateLimited
  <1>5. CASE Executed
    BY <1>5, Zenon DEF Executed, Granted, Announce
  <1>6. CASE Submitted
    BY <1>6, Zenon DEF Submitted, Granted
  <1>7. CASE Throttled
    BY <1>7, Zenon DEF Throttled, Granted
  <1>8. CASE KickSubmissionQueue
    BY <1>8, Zenon DEF KickSubmissionQueue
  <1>9. CASE KickFails
    BY <1>9 DEF KickFails
  <1>10. CASE CompletionEvent
    BY <1>10, Zenon DEF CompletionEvent
  <1>11. CASE PopCompletion
    BY <1>11, Zenon DEF PopCompletion, Announce
  <1>12. CASE CompletionsDone
    BY <1>12, Zenon DEF CompletionsDone
  <1>13. CASE UpdateDiskImage
    BY <1>13, Zenon DEF UpdateDiskImage
  <1>14. CASE Pause
    BY <1>14, Zenon DEF Pause
  <1>15. CASE PrepareSave
    BY <1>15, Zenon DEF PrepareSave, Announce
  <1>16. CASE PrepareSaveFails
    BY <1>16 DEF PrepareSaveFails, Announce
  <1>17. CASE SnapshotWritten
    BY <1>17, Zenon DEF SnapshotWritten
  <1>18. CASE Restore
    BY <1>18, Zenon DEF Restore
  <1>19. CASE Resume
    BY <1>19, Zenon DEF Resume
  <1>20. CASE KernelCompletes
    BY <1>20 DEF KernelCompletes
  <1>21. CASE DriverAdd
    BY <1>21, Zenon DEF DriverAdd
  <1>22. CASE DriverReclaim
    BY <1>22, Zenon DEF DriverReclaim
  <1> QED BY <1>1, <1>2, <1>3, <1>4, <1>5, <1>6, <1>7, <1>8, <1>9, <1>10, <1>11,
             <1>12, <1>13, <1>14, <1>15, <1>16, <1>17, <1>18, <1>19, <1>20,
             <1>21, <1>22, Zenon DEF Next, Device

\* Every step keeps every head in one place and ring_ops exact.
LEMMA PlaceStep ==
    ASSUME BlockAssumption, BlockInv, Next
    PROVE  PlaceType' /\ Placed' /\ NumOpsExact'
  <1> DEFINE A == Elems(avail)
             S == Elems(sq)
             C == Elems(cq)
             Goal == PlaceType' /\ Placed' /\ NumOpsExact'
  <1>1. PlaceType /\ Placed /\ NumOpsExact
    BY Zenon DEF BlockInv
  <1>2. /\ A \subseteq Heads /\ S \subseteq Heads /\ C \subseteq Heads
        /\ (S = {} <=> sq = <<>>) /\ (C = {} <=> cq = <<>>)
        /\ Elems(<<>>) = {} /\ Inj(<<>>)
    BY <1>1, ElemsEmpty DEF PlaceType
  <1>3. IsFiniteSet(kernel) /\ Cardinality(kernel) \in Nat /\ Len(sq) \in Nat /\ Len(cq) \in Nat
    BY <1>1, KernelCard DEF PlaceType
  <1>4. /\ IsFiniteSet(S) /\ Cardinality(S) = Len(sq)
        /\ IsFiniteSet(C) /\ Cardinality(C) = Len(cq)
    BY <1>1, ElemsCard, Zenon DEF PlaceType, Placed
  <1>5. SqSize \in Nat /\ CqSize \in Nat /\ SqSize <= CqSize
    BY Zenon DEF BlockAssumption
  <1>6. UNCHANGED places => Goal
    <2>1. UNCHANGED places => PlaceType'
      BY <1>1, SMTT(30) DEF places, PlaceType
    <2> QED BY <2>1, PlacesFrame, Zenon
  <1>7. CASE \/ ProcessQueueEvent \/ ProcessRateLimiterEvent \/ PopNone \/ RateLimited
             \/ Throttled \/ CompletionEvent \/ CompletionsDone \/ Pause
             \/ SnapshotWritten \/ Resume
    BY <1>6, <1>7, Zenon DEF places, ring, engine, guest, kvm, ProcessQueueEvent,
       ProcessRateLimiterEvent, PopNone, RateLimited, Throttled, CompletionEvent,
       CompletionsDone, Pause, SnapshotWritten, Resume
  <1>8. CASE Executed
    <2>1. /\ avail # <<>> /\ used' = used \cup {Head(avail)} /\ avail' = Tail(avail)
          /\ UNCHANGED <<free, sq, kernel, cq, ring_ops, lost>>
      BY <1>8, Zenon DEF Executed, engine, guest
    <2>2. /\ Head(avail) \in A /\ avail' \in Seq(Heads) /\ Inj(avail')
          /\ Elems(avail') = A \ {Head(avail)}
      BY <1>1, <2>1, ElemsTail DEF PlaceType, Placed
    <2>3. PlaceType'
      BY <1>1, <1>2, <2>1, <2>2, Zenon DEF PlaceType
    <2>4. Placed'
      BY <1>1, <2>1, <2>2 DEF Placed
    <2> QED BY <1>1, <2>1, <2>3, <2>4, Zenon DEF NumOpsExact
  <1>9. CASE Submitted
    <2>1. /\ avail # <<>> /\ sq' = Append(sq, Head(avail)) /\ avail' = Tail(avail)
          /\ ring_ops' = ring_ops + 1 /\ ring_ops < CqSize /\ Len(sq) < SqSize
          /\ UNCHANGED <<free, used, kernel, cq, lost>>
      BY <1>9, <1>1, <1>3, <1>5, SMTT(30) DEF Submitted, EngineFull, guest, PlaceType
    <2>2. /\ Head(avail) \in A /\ Head(avail) \in Heads
          /\ avail' \in Seq(Heads) /\ Inj(avail') /\ Elems(avail') = A \ {Head(avail)}
      BY <1>1, <2>1, ElemsTail DEF PlaceType, Placed
    <2>3. Head(avail) \notin S
      BY <1>1, <2>2, Zenon DEF Placed
    <2>4. /\ sq' \in Seq(Heads) /\ Len(sq') = Len(sq) + 1
          /\ Elems(sq') = S \cup {Head(avail)} /\ Inj(sq')
      BY <1>1, <2>1, <2>2, <2>3, ElemsAppend, SMTT(30) DEF PlaceType, Placed
    <2>5. PlaceType'
      BY <1>1, <2>1, <2>2, <2>4, SMTT(30) DEF PlaceType
    <2>6. Placed'
      BY <1>1, <2>1, <2>2, <2>4 DEF Placed
    <2>7. NumOpsExact'
      <3>1. ring_ops = Len(sq) + Cardinality(kernel) + Len(cq)
        BY <1>1, Zenon DEF NumOpsExact
      <3>2. Cardinality(kernel') = Cardinality(kernel) /\ Len(cq') = Len(cq)
        BY <2>1, Zenon
      <3>3. ring_ops' = Len(sq') + Cardinality(kernel') + Len(cq')
        BY <1>3, <2>1, <2>4, <3>1, <3>2, SMTT(30)
      <3>4. ring_ops' <= CqSize /\ Len(sq') <= SqSize
        BY <1>3, <1>5, <2>1, <2>4, <3>1, SMTT(30)
      <3> QED BY <3>3, <3>4, Zenon DEF NumOpsExact
    <2> QED BY <2>5, <2>6, <2>7, Zenon
  <1>10. CASE KickSubmissionQueue
    <2>1. /\ kernel' = kernel \cup S /\ sq' = <<>>
          /\ UNCHANGED <<free, avail, used, cq, ring_ops, lost>>
      BY <1>10, Zenon DEF KickSubmissionQueue, ring, guest
    <2>2. Cardinality(kernel \cup S) = Cardinality(kernel) + Len(sq)
      BY <1>1, <1>3, <1>4, DisjointCard, Zenon DEF Placed
    <2>3. PlaceType'
      BY <1>1, <1>2, <2>1, SMTT(30) DEF PlaceType
    <2>4. Placed'
      BY <1>1, <1>2, <2>1 DEF Placed
    <2>5. Len(sq') = 0 /\ Cardinality(kernel') = Cardinality(kernel) + Len(sq)
      BY <2>1, <2>2, Zenon
    <2>6. NumOpsExact'
      BY <1>1, <1>3, <1>5, <2>1, <2>5 DEF NumOpsExact
    <2> QED BY <2>3, <2>4, <2>6
  <1>11. CASE KickFails
    <2>1. PICK n \in 0..(Len(sq) - 1) :
             /\ kernel' = kernel \cup Elems(SubSeq(sq, 1, n))
             /\ sq' = SubSeq(sq, n + 1, Len(sq))
      BY <1>11, Zenon DEF KickFails
    <2> DEFINE P == SubSeq(sq, 1, n)
    <2>2. UNCHANGED <<free, avail, used, cq, ring_ops, lost>>
      BY <1>11, Zenon DEF KickFails, ring, guest
    <2>3. /\ P \in Seq(Heads) /\ sq' \in Seq(Heads) /\ Len(P) = n /\ Len(sq') = Len(sq) - n
          /\ Elems(P) \cup Elems(sq') = S /\ Elems(P) \cap Elems(sq') = {}
          /\ Inj(P) /\ Inj(sq')
      BY <1>1, <2>1, ElemsSplit DEF PlaceType, Placed
    <2> HIDE DEF P
    <2>4. kernel' = kernel \cup Elems(P)
      BY <2>1, Zenon DEF P
    <2>5. IsFiniteSet(Elems(P)) /\ Cardinality(Elems(P)) = n
      BY <2>3, ElemsCard, Zenon
    <2>6. kernel \cap Elems(P) = {}
      BY <1>1, <2>3, Zenon DEF Placed
    <2>7. Cardinality(kernel') = Cardinality(kernel) + n
      BY <1>3, <2>4, <2>5, <2>6, DisjointCard, Zenon
    <2>8. PlaceType'
      BY <1>1, <1>2, <2>2, <2>3, <2>4, Zenon DEF PlaceType
    <2>9. Placed'
      BY <1>1, <2>2, <2>3, <2>4, SMTT(30) DEF Placed
    <2>10. NumOpsExact'
      BY <1>1, <1>3, <1>5, <2>1, <2>2, <2>3, <2>7, SMTT(30) DEF NumOpsExact
    <2> QED BY <2>8, <2>9, <2>10, Zenon
  <1>12. CASE PopCompletion
    <2>1. /\ cq # <<>> /\ used' = used \cup {Head(cq)} /\ cq' = Tail(cq)
          /\ ring_ops' = ring_ops - 1
          /\ UNCHANGED <<free, avail, sq, kernel, lost>>
      BY <1>12, Zenon DEF PopCompletion, guest
    <2>2. /\ Head(cq) \in C /\ cq' \in Seq(Heads) /\ Len(cq') = Len(cq) - 1
          /\ Inj(cq') /\ Elems(cq') = C \ {Head(cq)}
      BY <1>1, <2>1, ElemsTail DEF PlaceType, Placed
    <2>3. Len(cq) > 0
      BY <1>1, <2>1 DEF PlaceType
    <2>4. ring_ops' \in Nat
      BY <1>1, <1>3, <2>1, <2>3 DEF NumOpsExact
    <2>5. PlaceType'
      BY <1>1, <1>2, <2>1, <2>2, <2>4, Zenon DEF PlaceType
    <2>6. Placed'
      BY <1>1, <2>1, <2>2 DEF Placed
    <2>7. NumOpsExact'
      BY <1>1, <1>3, <1>5, <2>1, <2>2, SMTT(30) DEF NumOpsExact
    <2> QED BY <2>5, <2>6, <2>7
  <1>13. CASE UpdateDiskImage \/ Restore
    <2>1. /\ sq' = <<>> /\ kernel' = {} /\ cq' = <<>> /\ ring_ops' = 0
          /\ lost' = lost \cup S \cup kernel \cup C
          /\ UNCHANGED <<free, avail, used>>
      BY <1>13, Zenon DEF UpdateDiskImage, Restore, ring, guest
    <2>2. Len(sq') = 0 /\ Len(cq') = 0 /\ Cardinality(kernel') = 0
      BY <2>1, FS_EmptySet, Zenon
    <2>3. PlaceType'
      BY <1>1, <1>2, <2>1 DEF PlaceType
    <2>4. Placed'
      BY <1>1, <1>2, <2>1, Zenon DEF Placed
    <2>5. NumOpsExact'
      BY <1>5, <2>1, <2>2 DEF NumOpsExact
    <2> QED BY <2>3, <2>4, <2>5
  <1>14. CASE PrepareSave
    <2>1. /\ sq' = <<>> /\ kernel' = {} /\ cq' = <<>> /\ ring_ops' = 0
          /\ used' = used \cup S \cup kernel \cup C
          /\ UNCHANGED <<free, avail, lost>>
      BY <1>14, Zenon DEF PrepareSave, guest
    <2>2. Len(sq') = 0 /\ Len(cq') = 0 /\ Cardinality(kernel') = 0
      BY <2>1, FS_EmptySet, SMTT(30)
    <2>3. PlaceType'
      BY <1>1, <1>2, <2>1, SMTT(30) DEF PlaceType
    <2>4. Placed'
      BY <1>1, <1>2, <2>1, SMTT(30) DEF Placed
    <2>5. NumOpsExact'
      BY <1>5, <2>1, <2>2 DEF NumOpsExact
    <2> QED BY <2>3, <2>4, <2>5
  <1>15. CASE PrepareSaveFails
    <2>1. /\ cq' = <<>> /\ ring_ops' = ring_ops - Len(cq) /\ used' = used \cup C
          /\ UNCHANGED <<free, avail, sq, kernel, lost>>
      BY <1>15, Zenon DEF PrepareSaveFails, guest
    <2>2. Len(cq') = 0
      BY <2>1, Zenon
    <2>3. ring_ops' \in Nat
      BY <1>1, <1>3, <2>1, SMTT(30) DEF NumOpsExact
    <2>4. PlaceType'
      BY <1>1, <1>2, <2>1, <2>3, SMTT(30) DEF PlaceType
    <2>5. Placed'
      BY <1>1, <1>2, <2>1 DEF Placed
    <2>6. NumOpsExact'
      BY <1>1, <1>3, <1>5, <2>1, <2>2 DEF NumOpsExact
    <2> QED BY <2>4, <2>5, <2>6
  <1>16. CASE KernelCompletes
    <2>1. PICK h \in kernel : kernel' = kernel \ {h} /\ cq' = Append(cq, h)
      BY <1>16, Zenon DEF KernelCompletes
    <2>2. UNCHANGED <<free, avail, used, sq, ring_ops, lost>>
      BY <1>16, Zenon DEF KernelCompletes, ring, guest
    <2>3. h \in Heads /\ h \notin C
      BY <1>1, Zenon DEF PlaceType, Placed
    <2>4. /\ cq' \in Seq(Heads) /\ Len(cq') = Len(cq) + 1
          /\ Elems(cq') = C \cup {h} /\ Inj(cq')
      BY <1>1, <2>1, <2>3, ElemsAppend DEF PlaceType, Placed
    <2>5. Cardinality(kernel') = Cardinality(kernel) - 1
      BY <1>3, <2>1, FS_RemoveElement, Zenon
    <2>6. PlaceType'
      BY <1>1, <2>1, <2>2, <2>4, Zenon DEF PlaceType
    <2>7. Placed'
      BY <1>1, <2>1, <2>2, <2>4, SMTT(30) DEF Placed
    <2>8. NumOpsExact'
      BY <1>1, <1>3, <1>5, <2>2, <2>4, <2>5, SMTT(30) DEF NumOpsExact
    <2> QED BY <2>6, <2>7, <2>8, Zenon
  <1>17. CASE DriverAdd
    <2>1. PICK h \in free : free' = free \ {h} /\ avail' = Append(avail, h)
      BY <1>17, Zenon DEF DriverAdd
    <2>2. UNCHANGED <<used, sq, kernel, cq, ring_ops, lost>>
      BY <1>17, Zenon DEF DriverAdd, engine
    <2>3. h \in Heads /\ h \notin A
      BY <1>1, Zenon DEF PlaceType, Placed
    <2>4. avail' \in Seq(Heads) /\ Elems(avail') = A \cup {h} /\ Inj(avail')
      BY <1>1, <2>1, <2>3, ElemsAppend DEF PlaceType, Placed
    <2>5. PlaceType'
      BY <1>1, <2>1, <2>2, <2>4, ZenonT(30) DEF PlaceType
    <2>6. Placed'
      BY <1>1, <2>1, <2>2, <2>4, SMTT(30) DEF Placed
    <2> QED BY <1>1, <2>2, <2>5, <2>6, Zenon DEF NumOpsExact
  <1>18. CASE DriverReclaim
    <2>1. PICK h \in used : used' = used \ {h} /\ free' = free \cup {h}
      BY <1>18, Zenon DEF DriverReclaim
    <2>2. UNCHANGED <<avail, sq, kernel, cq, ring_ops, lost>>
      BY <1>18, Zenon DEF DriverReclaim, engine
    <2>3. PlaceType'
      BY <1>1, <2>1, <2>2, Zenon DEF PlaceType
    <2>4. Placed'
      BY <1>1, <2>1, <2>2, SMTT(30) DEF Placed
    <2> QED BY <1>1, <2>2, <2>3, <2>4 DEF NumOpsExact
  <1> QED BY <1>7, <1>8, <1>9, <1>10, <1>11, <1>12, <1>13, <1>14, <1>15, <1>16,
             <1>17, <1>18, Zenon DEF Next, Device

----------------------------------------------------------------------------
(* Which event is still to come.                                           *)

\* Every step leaves an event for the work there is.
LEMMA WokenStep ==
    ASSUME BlockAssumption, BlockInv, Next
    PROVE  Woken'
  <1>1. PlaceType /\ FlagType /\ Woken /\ NumOpsExact
    BY Zenon DEF BlockInv
  <1>2. /\ Len(sq) \in Nat /\ Len(cq) \in Nat /\ Cardinality(kernel) \in Nat
        /\ (Len(sq) = 0 <=> sq = <<>>) /\ (Len(cq) = 0 <=> cq = <<>>)
        /\ (Cardinality(kernel) = 0 <=> kernel = {})
    BY <1>1, KernelCard DEF PlaceType
  <1>3. ring_ops > 0 <=> sq # <<>> \/ kernel # {} \/ cq # <<>>
    <2>1. ring_ops = Len(sq) + Cardinality(kernel) + Len(cq)
      BY <1>1, Zenon DEF NumOpsExact
    <2>2. ring_ops > 0 <=> Len(sq) # 0 \/ Cardinality(kernel) # 0 \/ Len(cq) # 0
      BY <1>2, <2>1
    <2> QED BY <1>2, <2>2, Zenon
  <1>4. SqSize > 0 /\ CqSize > 0 /\ SqSize \in Nat /\ CqSize \in Nat
    BY DEF BlockAssumption
  <1>5. EngineFull => ring_ops > 0
    BY <1>1, <1>2, <1>4 DEF EngineFull, NumOpsExact
  <1> USE DEF FlagType, Woken, ring, engine, guest, kvm, counts
  <1>6. CASE ProcessQueueEvent
    BY <1>1, <1>6, Zenon DEF ProcessQueueEvent
  <1>7. CASE ProcessRateLimiterEvent
    BY <1>1, <1>7, Zenon DEF ProcessRateLimiterEvent
  <1>8. CASE PopNone
    BY <1>1, <1>8, Zenon DEF PopNone
  <1>9. CASE RateLimited
    BY <1>1, <1>9, Zenon DEF RateLimited
  <1>10. CASE Executed
    BY <1>1, <1>10 DEF Executed
  <1>11. CASE Submitted
    <2>1. ring_ops' > 0
      BY <1>1, <1>11, SMTT(30) DEF Submitted, PlaceType
    <2> QED BY <1>1, <1>11, <2>1, Zenon DEF Submitted
  <1>12. CASE Throttled
    BY <1>1, <1>5, <1>12 DEF Throttled, ToEngine
  <1>13. CASE KickSubmissionQueue
    BY <1>1, <1>13, Zenon DEF KickSubmissionQueue
  <1>14. CASE KickFails
    <2>1. errors' # 0
      BY <1>1, <1>14 DEF KickFails
    <2> QED BY <1>1, <1>14, <2>1, Zenon DEF KickFails
  <1>15. CASE CompletionEvent
    BY <1>1, <1>15, Zenon DEF CompletionEvent
  <1>16. CASE PopCompletion
    BY <1>1, <1>16, Zenon DEF PopCompletion
  <1>17. CASE CompletionsDone
    BY <1>1, <1>17, Zenon DEF CompletionsDone
  <1>18. CASE UpdateDiskImage
    BY <1>1, <1>18, Zenon DEF UpdateDiskImage
  <1>19. CASE Pause
    BY <1>1, <1>19, Zenon DEF Pause
  <1>20. CASE PrepareSave
    BY <1>1, <1>3, <1>20, Zenon DEF PrepareSave
  <1>21. CASE PrepareSaveFails
    <2>1. errors' # 0
      BY <1>1, <1>21 DEF PrepareSaveFails
    <2> QED BY <1>1, <1>21, <2>1, Zenon DEF PrepareSaveFails
  <1>22. CASE SnapshotWritten
    BY <1>1, <1>22, ZenonT(30) DEF SnapshotWritten
  <1>23. CASE Restore
    BY <1>1, <1>23 DEF Restore
  <1>24. CASE Resume
    BY <1>1, <1>24, Zenon DEF Resume
  <1>25. CASE KernelCompletes
    <2>1. kernel # {}
      BY <1>25, Zenon DEF KernelCompletes
    <2> QED BY <1>1, <1>25, <2>1, Zenon DEF KernelCompletes
  <1>26. CASE DriverAdd
    BY <1>1, <1>26 DEF DriverAdd
  <1>27. CASE DriverReclaim
    BY <1>1, <1>27, Zenon DEF DriverReclaim
  <1> QED BY <1>6, <1>7, <1>8, <1>9, <1>10, <1>11, <1>12, <1>13, <1>14, <1>15,
             <1>16, <1>17, <1>18, <1>19, <1>20, <1>21, <1>22, <1>23, <1>24,
             <1>25, <1>26, <1>27, ZenonT(30) DEF Next, Device

\* Every step drops a head only after a failed drain.
LEMMA LostStep ==
    ASSUME BlockInv, Next
    PROVE  NothingLost'
  <1>1. PlaceType /\ FlagType /\ Placed /\ Woken /\ NothingLost
    BY Zenon DEF BlockInv
  <1>2. /\ (Elems(sq) = {} <=> sq = <<>>) /\ (Elems(cq) = {} <=> cq = <<>>)
        /\ Elems(sq) \subseteq Heads /\ Elems(cq) \subseteq Heads
    BY <1>1, ElemsEmpty DEF PlaceType
  <1>3. UNCHANGED <<lost, errors>> => NothingLost'
    BY <1>1, Zenon DEF NothingLost
  <1>4. CASE UpdateDiskImage
    <2>1. free = Heads /\ errors' = errors
      BY <1>4, Zenon DEF UpdateDiskImage
    <2>2. Elems(sq) = {} /\ kernel = {} /\ Elems(cq) = {}
      BY <1>1, <1>2, <2>1, Zenon DEF Placed, PlaceType
    <2>3. lost' = lost
      BY <1>4, <2>2, Zenon DEF UpdateDiskImage
    <2> QED BY <1>3, <2>1, <2>3, Zenon
  <1>5. CASE Restore
    <2> SUFFICES ASSUME errors' = 0 PROVE lost' = {}
      BY Zenon DEF NothingLost
    <2>1. errors = 0 /\ pc = "saved"
      BY <1>5, Zenon DEF Restore, counts
    <2>2. sq = <<>> /\ kernel = {} /\ cq = <<>> /\ lost = {}
      BY <1>1, <2>1, Zenon DEF Woken, NothingLost
    <2> QED BY <1>2, <1>5, <2>2, Zenon DEF Restore
  <1>6. CASE KickFails \/ PrepareSaveFails
    <2>1. errors' # 0
      BY <1>1, <1>6, SMTT(30) DEF KickFails, PrepareSaveFails, FlagType
    <2> QED BY <2>1, Zenon DEF NothingLost
  <1>7. ASSUME Next, ~UpdateDiskImage, ~Restore, ~KickFails, ~PrepareSaveFails
        PROVE  UNCHANGED <<lost, errors>>
    BY <1>7, Zenon DEF Next, Device, counts, ProcessQueueEvent, ProcessRateLimiterEvent, PopNone,
       RateLimited, Executed, Submitted, Throttled, KickSubmissionQueue,
       CompletionEvent, PopCompletion, CompletionsDone, Pause, PrepareSave,
       SnapshotWritten, Resume, KernelCompletes, DriverAdd, DriverReclaim
  <1> QED BY <1>3, <1>4, <1>5, <1>6, <1>7, Zenon

----------------------------------------------------------------------------
(* The theorems.                                                           *)

\* BlockInv is inductive: whatever the driver, the kernel and the API do, every
\* head is in one place and all work has an event that will get it done.
THEOREM BlockInvariant == ASSUME BlockAssumption PROVE Spec => []BlockInv
  <1>1. Init => BlockInv
    <2> SUFFICES ASSUME Init PROVE BlockInv
      BY Zenon
    <2>1. <<>> \in Seq(Heads)
      OBVIOUS
    <2>2. Elems(<<>>) = {} /\ Inj(<<>>)
      BY <2>1, ElemsEmpty, Zenon
    <2>3. PlaceType
      BY <2>1, Zenon DEF Init, PlaceType
    <2>4. FlagType
      BY Zenon DEF Init, FlagType
    <2>5. Placed
      BY <2>2, Zenon DEF Init, Placed
    <2>6. NumOpsExact
      <3>1. Len(<<>>) = 0 /\ Cardinality({}) = 0
        BY FS_EmptySet, Zenon
      <3> QED BY <3>1 DEF Init, NumOpsExact, BlockAssumption
    <2>7. Woken /\ NothingLost
      BY Zenon DEF Init, Woken, NothingLost
    <2> QED BY <2>3, <2>4, <2>5, <2>6, <2>7, Zenon DEF BlockInv
  <1>2. BlockInv /\ [Next]_vars => BlockInv'
    <2> SUFFICES ASSUME BlockInv, [Next]_vars PROVE BlockInv'
      BY Zenon
    <2>1. CASE Next
      BY <2>1, FlagsStep, PlaceStep, WokenStep, LostStep, Zenon DEF BlockInv
    <2>2. CASE UNCHANGED vars
      <3>1. UNCHANGED places
        BY <2>2, Zenon DEF vars, places, guest, ring, engine
      <3>2. Placed' /\ NumOpsExact'
        BY <3>1, PlacesFrame, Zenon
      <3>3. PlaceType'
        BY <3>1, Zenon DEF BlockInv, places, PlaceType
      <3>4. FlagType' /\ Woken' /\ NothingLost'
        BY <2>2 DEF BlockInv, FlagType, Woken, NothingLost, vars, guest, ring, engine,
           kvm, counts
      <3> QED BY <3>2, <3>3, <3>4, Zenon DEF BlockInv
    <2> QED BY <2>1, <2>2, Zenon
  <1> QED BY <1>1, <1>2, PTL DEF Spec

\* ring_ops counts exactly the operations in the ring, so the completion queue
\* cannot overflow; and a disk is replaced or saved without dropping a request.
THEOREM BlockNumOps == ASSUME BlockAssumption PROVE Spec => [](NumOpsExact /\ NothingLost)
  <1>1. BlockInv => NumOpsExact /\ NothingLost
    BY Zenon DEF BlockInv
  <1> QED BY <1>1, BlockInvariant, PTL

\* Every head has one owner: no request is run twice and none is dropped.
THEOREM BlockOneOwner == ASSUME BlockAssumption PROVE Spec => []OneOwner
  <1>1. BlockInv => OneOwner
    <2> HAVE BlockInv
    <2> DEFINE A == Elems(avail)
               S == Elems(sq)
               C == Elems(cq)
    <2>1. PlaceType /\ Placed
      BY Zenon DEF BlockInv
    <2>2. /\ IsFiniteSet(free) /\ IsFiniteSet(used) /\ IsFiniteSet(kernel)
          /\ IsFiniteSet(lost)
      BY <2>1, KernelCard, Zenon DEF PlaceType
    <2>3. /\ IsFiniteSet(A) /\ Cardinality(A) = Len(avail)
          /\ IsFiniteSet(S) /\ Cardinality(S) = Len(sq)
          /\ IsFiniteSet(C) /\ Cardinality(C) = Len(cq)
      BY <2>1, ElemsCard, Zenon DEF PlaceType, Placed
    <2> DEFINE U1 == free \cup A
               U2 == U1 \cup used
               U3 == U2 \cup S
               U4 == U3 \cup kernel
               U5 == U4 \cup C
               U6 == U5 \cup lost
    <2>4. /\ free \cap A = {} /\ U1 \cap used = {} /\ U2 \cap S = {} /\ U3 \cap kernel = {}
          /\ U4 \cap C = {} /\ U5 \cap lost = {} /\ U6 = Heads
      BY <2>1, Zenon DEF Placed
    <2> HIDE DEF A, S, C
    <2>5. /\ IsFiniteSet(U1) /\ Cardinality(U1) = Cardinality(free) + Cardinality(A)
          /\ Cardinality(free) \in Nat /\ Cardinality(A) \in Nat
      BY <2>2, <2>3, <2>4, DisjointCard, Zenon
    <2> HIDE DEF U1
    <2>6. /\ IsFiniteSet(U2) /\ Cardinality(U2) = Cardinality(U1) + Cardinality(used)
          /\ Cardinality(used) \in Nat
      BY <2>2, <2>4, <2>5, DisjointCard, Zenon
    <2> HIDE DEF U2
    <2>7. /\ IsFiniteSet(U3) /\ Cardinality(U3) = Cardinality(U2) + Cardinality(S)
          /\ Cardinality(S) \in Nat
      BY <2>3, <2>4, <2>6, DisjointCard, Zenon
    <2> HIDE DEF U3
    <2>8. /\ IsFiniteSet(U4) /\ Cardinality(U4) = Cardinality(U3) + Cardinality(kernel)
          /\ Cardinality(kernel) \in Nat
      BY <2>2, <2>4, <2>7, DisjointCard, Zenon
    <2> HIDE DEF U4
    <2>9. /\ IsFiniteSet(U5) /\ Cardinality(U5) = Cardinality(U4) + Cardinality(C)
          /\ Cardinality(C) \in Nat
      BY <2>3, <2>4, <2>8, DisjointCard, Zenon
    <2> HIDE DEF U5
    <2>10. /\ Cardinality(U6) = Cardinality(U5) + Cardinality(lost)
           /\ Cardinality(lost) \in Nat
      BY <2>2, <2>4, <2>9, DisjointCard, Zenon
    <2> HIDE DEF U6
    <2>11. Cardinality(Heads) = Cardinality(free) + Len(avail) + Cardinality(used) + Len(sq)
              + Cardinality(kernel) + Len(cq) + Cardinality(lost)
      BY <2>3, <2>4, <2>5, <2>6, <2>7, <2>8, <2>9, <2>10, SMTT(30)
    <2>12. free \cup Elems(avail) \cup used \cup Inflight \cup lost = Heads
      BY <2>1, Zenon DEF Placed, Inflight
    <2> QED BY <2>11, <2>12, Zenon DEF OneOwner
  <1> QED BY <1>1, BlockInvariant, PTL

\* A throttled device waits for a completion that will be announced, as long as
\* io_uring_enter has not failed and the event loop knows the engine.
THEOREM BlockThrottled == ASSUME BlockAssumption PROVE Spec => []ThrottledIsWoken
  <1>1. BlockInv => ThrottledIsWoken
    <2> SUFFICES ASSUME BlockInv, throttled, pc = "idle", Wakeable, errors = 0, ~comp_evt
                 PROVE  kernel # {}
      BY Zenon DEF ThrottledIsWoken
    <2>1. sq = <<>> /\ cq = <<>> /\ ring_ops > 0
      BY Zenon DEF BlockInv, Woken, Wakeable, FlagType
    <2>2. Len(sq) = 0 /\ Len(cq) = 0
      BY <2>1, Zenon
    <2>3. ring_ops = Len(sq) + Cardinality(kernel) + Len(cq) /\ Cardinality(kernel) \in Nat
      BY KernelCard, Zenon DEF BlockInv, PlaceType, NumOpsExact
    <2>4. Cardinality(kernel) # 0
      BY <2>1, <2>2, <2>3
    <2> QED BY <2>4, FS_EmptySet, Zenon
  <1> QED BY <1>1, BlockInvariant, PTL

\* A running device that waits in the event loop with no event on its way has no
\* work left: every event consumed without processing is made up for.
THEOREM BlockNotStranded == ASSUME BlockAssumption PROVE Spec => []NoStrandedWork
  <1>1. BlockInv /\ ThrottledIsWoken => NoStrandedWork
    BY Zenon DEF BlockInv, Woken, ThrottledIsWoken, NoStrandedWork
  <1> QED BY <1>1, BlockInvariant, BlockThrottled, PTL

-----------------------------------------------------------------------------
(* The builder.  What the guest has been told is only on the command line,  *)
(* and what it finds is in the register of the device manager: the two are  *)
(* written by different steps, and a restore writes only one of them.  The  *)
(* invariant relates both, at each stage, to what a snapshot holds.         *)

\* The virtio devices that a manager has registered, with their resources.
Virtio(info) == {<<i, info[i]>> : i \in {x \in DOMAIN info : x[1] # "boot_timer"}}

Line(irqs) == \E n \in IRQ_BASE..IRQ_MAX : irqs = <<n>>
Resources(r) == r = [addr |-> r.addr, irqs |-> r.irqs]

\* A register of devices that share neither an address nor an interrupt.
InfoOK(info) ==
    /\ \A i \in DOMAIN info :
         /\ i = <<i[1], i[2]>> /\ Resources(info[i])
         /\ IF i[1] = "boot_timer" THEN info[i].irqs = << >> ELSE Line(info[i].irqs)
    /\ \A i, j \in DOMAIN info :
         i # j => info[i].addr # info[j].addr /\ (info[i].irqs # << >> => info[i].irqs # info[j].irqs)

\* The same of the states in a snapshot.
SavedOK(states) ==
    /\ \A s \in states : /\ s = <<s[1], s[2]>> /\ s[1] = <<s[1][1], s[1][2]>> /\ s[1][1] # "boot_timer"
                         /\ Resources(s[2]) /\ Line(s[2].irqs)
    /\ \A s, t \in states :
         /\ s[1] = t[1] => s = t
         /\ s[1] # t[1] => s[2].addr # t[2].addr /\ s[2].irqs # t[2].irqs

Entry(s) == [id |-> s[1], addr |-> s[2].addr, irq |-> s[2].irqs[1]]
Entries(states) == {Entry(s) : s \in states}

\* A command line that names each of some devices once.
Names(c, states) ==
    /\ Range(c) = Entries(states) /\ c \in Seq(Range(c))
    /\ IsFiniteSet(Range(c)) /\ Len(c) = Cardinality(Range(c))

Fields == {"stage", "left", "manager", "cmdline", "vcpus"}
ManagerFields == {"info", "next_irq", "used"}

\* What a boot has attached so far: devices with resources that the manager m has
\* given out, and the command line c that names them.
BootManager(m, c) ==
    /\ DOMAIN m = ManagerFields /\ InfoOK(m.info)
    /\ m.next_irq \in Nat /\ m.next_irq >= IRQ_BASE /\ IsFiniteSet(m.used)
    /\ \A i \in DOMAIN m.info : /\ m.info[i].addr \in m.used
                                /\ m.info[i].irqs # << >> => m.info[i].irqs[1] < m.next_irq
    /\ Names(c, Virtio(m.info))

\* The devices that are left to attach.
Attaching ==
    /\ BootManager(vm.manager, vm.cmdline)
    /\ vm.left \in Seq(Devices)
    /\ \A k \in 1..Len(vm.left) : identifier(vm.left[k]) \notin DOMAIN Info
    /\ \A j, k \in 1..Len(vm.left) : identifier(vm.left[j]) = identifier(vm.left[k]) => j = k

BuilderInv ==
    /\ conf \in Configs /\ boot_cmdline = << >>
    /\ vm # NoVmm =>
         /\ DOMAIN vm = Fields
         /\ DOMAIN vm.manager = ManagerFields
         /\ InfoOK(Info)
         /\ vm.vcpus = "running" => vm.stage = "built"
         /\ vm.stage \in {"create", "attach"} => Attaching /\ saved = {}
         /\ vm.stage \in {"start", "filter", "resume"} => saved = {}
         /\ vm.stage \in {"start", "filter", "resume", "built", "restore_filter"} =>
              Names(guest_cmdline, Virtio(Info))
         /\ vm.stage = "restore" => /\ Virtio(Info) \cup vm.left = saved /\ saved # {}
                                    /\ \A i \in DOMAIN Info : i[1] # "boot_timer"
         /\ vm.stage \in {"create", "attach", "start", "filter", "resume", "built",
                          "restore", "restore_filter"}
    /\ saved # {} => SavedOK(saved) /\ Names(guest_cmdline, saved)

\* Every set of naturals has a least one.
LEMMA Least ==
    ASSUME NEW T, T \subseteq Nat, T # {}
    PROVE  \E x \in T : \A y \in T : x <= y
  <1> DEFINE R == {ss \in Nat \X Nat : ss[1] < ss[2]}
  <1>1. IsWellFoundedOn(R, Nat)
    BY NatLessThanWellFounded, Zenon DEF OpToRel
  <1>2. \A x, y \in Nat : y < x => <<y, x>> \in R
    BY Zenon
  <1> HIDE DEF R
  <1>3. PICK x \in T : \A y \in T : ~ (<<y, x>> \in R)
    BY <1>1, WFMin, Zenon
  <1>4. \A y \in T : ~(y < x)
    BY <1>2, <1>3, Zenon
  <1> QED BY <1>3, <1>4

\* AddressAllocator: there is a first slot that nobody uses.
LEMMA FirstFree ==
    ASSUME NEW taken, IsFiniteSet(taken)
    PROVE  first_free(taken) \notin taken
  <1> DEFINE n == Cardinality(taken)
  <1> DEFINE T == {a \in 1..(n + 1) : a \notin taken}
  <1>1. n \in Nat
    BY FS_CardinalityType, Zenon
  <1>2. T # {}
    <2> SUFFICES ASSUME T = {} PROVE FALSE
      BY Zenon
    <2>1. 1..(n + 1) \subseteq taken
      BY Zenon
    <2>2. Cardinality(1..(n + 1)) <= n
      BY <2>1, FS_Subset, Zenon
    <2>3. Cardinality(1..(n + 1)) = n + 1
      BY <1>1, FS_Interval
    <2> QED BY <1>1, <2>2, <2>3
  <1>3. PICK a \in T : \A y \in T : a <= y
    <2>1. T \subseteq Nat
      BY <1>1
    <2> QED BY <1>2, <2>1, Least, Zenon
  <1>4. \A b \in 1..(a - 1) : b \in taken
    BY <1>1, <1>3
  <1>5. \E c \in 1..(n + 1) : c \notin taken /\ \A b \in 1..(c - 1) : b \in taken
    BY <1>3, <1>4, Zenon
  <1> QED BY <1>5, Zenon DEF first_free

\* One more word of the command line.
LEMMA NamesOneMore ==
    ASSUME NEW c, NEW S, Names(c, S), NEW s, Entry(s) \notin Entries(S)
    PROVE  Names(Append(c, Entry(s)), S \cup {s})
  <1> DEFINE e == Entry(s)
  <1> DEFINE d == Append(c, e)
  <1>1. c \in Seq(Range(c)) /\ IsFiniteSet(Range(c)) /\ Len(c) = Cardinality(Range(c)) /\ Range(c) = Entries(S)
    BY Zenon DEF Names
  <1>2. Range(c) = {c[k] : k \in 1..Len(c)}
    <2>1. DOMAIN c = 1..Len(c)
      BY <1>1, SMTT(30)
    <2> QED BY <2>1, Zenon DEF Range
  <1>3. d \in Seq(Range(c) \cup {e}) /\ Len(d) = Len(c) + 1 /\ d[Len(c) + 1] = e /\ \A k \in 1..Len(c) : d[k] = c[k]
    <2> HIDE DEF e
    <2> QED BY <1>1
  <1>4. Range(d) = {d[k] : k \in 1..(Len(c) + 1)}
    <2> HIDE DEF e, d
    <2>1. DOMAIN d = 1..(Len(c) + 1)
      BY <1>3
    <2> QED BY <2>1, ZenonT(40) DEF Range
  <1>5. Range(d) = Range(c) \cup {e}
    <2> HIDE DEF e, d
    <2>1. Len(c) \in Nat
      BY <1>1
    <2>2. 1..(Len(c) + 1) = 1..Len(c) \cup {Len(c) + 1}
      BY <2>1
    <2>3. Range(d) \subseteq Range(c) \cup {e}
      BY <1>2, <1>3, <1>4, <2>2, Zenon
    <2>4. \A k \in 1..Len(c) : c[k] \in Range(d)
      BY <1>3, <1>4, <2>2, Zenon
    <2>5. e \in Range(d)
      BY <1>3, <1>4, <2>2, Zenon
    <2> QED BY <1>2, <2>3, <2>4, <2>5, ZenonT(40)
  <1>6. Entries(S \cup {s}) = Entries(S) \cup {e}
    BY Zenon DEF Entries
  <1>7. e \notin Range(c)
    BY <1>1, Zenon
  <1>8. IsFiniteSet(Range(d)) /\ Cardinality(Range(d)) = Cardinality(Range(c)) + 1
    BY <1>1, <1>5, <1>7, FS_AddElement, Zenon
  <1> HIDE DEF e, d
  <1>9. Len(d) = Cardinality(Range(d)) /\ d \in Seq(Range(d)) /\ Range(d) = Entries(S \cup {s})
    BY <1>1, <1>3, <1>5, <1>6, <1>8, ZenonT(40)
  <1> QED BY <1>8, <1>9, Zenon DEF Names, e, d

\* No word, no device.
LEMMA NamesNone == Names(<< >>, Virtio([i \in {} |-> 0]))
  <1>1. Range(<< >>) = {}
    BY DEF Range
  <1>2. Virtio([i \in {} |-> 0]) = {}
    BY Zenon DEF Virtio
  <1>3. Entries({}) = {}
    BY Zenon DEF Entries
  <1>4. Len(<< >>) = 0 /\ << >> \in Seq({})
    OBVIOUS
  <1>5. IsFiniteSet({}) /\ Cardinality({}) = 0
    BY FS_EmptySet, Zenon
  <1> QED BY <1>1, <1>2, <1>3, <1>4, <1>5, ZenonT(40) DEF Names

\* A device that is registered with resources of its own.
With(info, id, r) == [i \in DOMAIN info \cup {id} |-> IF i = id THEN r ELSE info[i]]

LEMMA WithKeepsInfo ==
    ASSUME NEW info, InfoOK(info), NEW id, id = <<id[1], id[2]>>, NEW r, Resources(r),
           IF id[1] = "boot_timer" THEN r.irqs = << >> ELSE Line(r.irqs),
           \A i \in DOMAIN info : i # id => info[i].addr # r.addr /\ (r.irqs # << >> => info[i].irqs # r.irqs)
    PROVE  InfoOK(With(info, id, r))
  <1> DEFINE f == With(info, id, r)
  <1>1. DOMAIN f = DOMAIN info \cup {id} /\ f[id] = r /\ \A i \in DOMAIN info : i # id => f[i] = info[i]
    BY Zenon DEF With
  <1> HIDE DEF f
  <1>2. ASSUME NEW i \in DOMAIN f
        PROVE  /\ i = <<i[1], i[2]>> /\ Resources(f[i])
               /\ IF i[1] = "boot_timer" THEN f[i].irqs = << >> ELSE Line(f[i].irqs)
    BY <1>1, <1>2, Zenon DEF InfoOK
  <1>3. ASSUME NEW i \in DOMAIN f, NEW j \in DOMAIN f, i # j
        PROVE  f[i].addr # f[j].addr /\ (f[i].irqs # << >> => f[i].irqs # f[j].irqs)
    BY <1>1, <1>3, ZenonT(30) DEF InfoOK
  <1>4. InfoOK(f)
    BY <1>2, <1>3, Zenon DEF InfoOK
  <1> QED BY <1>4, Zenon DEF f

LEMMA WithIsOneMore ==
    ASSUME NEW info, NEW id, NEW r, id \in DOMAIN info => info[id] = r
    PROVE  Virtio(With(info, id, r)) = IF id[1] = "boot_timer" THEN Virtio(info) ELSE Virtio(info) \cup {<<id, r>>}
  <1> DEFINE f == With(info, id, r)
  <1>1. DOMAIN f = DOMAIN info \cup {id} /\ f[id] = r /\ \A i \in DOMAIN info : i # id => f[i] = info[i]
    BY Zenon DEF With
  <1> HIDE DEF f
  <1>2. \A i \in DOMAIN info : f[i] = info[i]
    BY <1>1, Zenon
  <1>3. Virtio(f) = IF id[1] = "boot_timer" THEN Virtio(info) ELSE Virtio(info) \cup {<<id, r>>}
    BY <1>1, <1>2 DEF Virtio
  <1> QED BY <1>3, Zenon DEF f

\* allocate_mmio_resources and register_mmio_device of a virtio device.
LEMMA AttachVirtio ==
    ASSUME NEW m, NEW c, BootManager(m, c), NEW d, IsVirtio(d), identifier(d) \notin DOMAIN m.info,
           can_allocate(m, 1)
    PROVE  /\ BootManager(attached(m, d), Append(c, Told(d, attached(m, d).info[identifier(d)])))
           /\ DOMAIN attached(m, d).info = DOMAIN m.info \cup {identifier(d)}
  <1> DEFINE id == identifier(d)
  <1> DEFINE n == m.next_irq
  <1> DEFINE a == first_free(m.used)
  <1> DEFINE r == [addr |-> a, irqs |-> <<n>>]
  <1> DEFINE w == attached(m, d)
  <1> DEFINE g == mmio_registered(m, d, a, <<n>>)
  <1>1. DOMAIN m = ManagerFields /\ n \in Nat /\ IsFiniteSet(m.used) /\ n >= IRQ_BASE
    BY Zenon DEF BootManager
  <1>2. a \notin m.used
    BY <1>1, FirstFree, ZenonT(40)
  <1>3. DOMAIN g = ManagerFields /\ g.info = With(m.info, id, r) /\ g.used = m.used \cup {a}
    BY <1>1, Zenon DEF mmio_registered, With, ManagerFields
  <1>4. w = [g EXCEPT !.next_irq = n + 1]
    BY Zenon DEF attached, irq_after
  <1>5. DOMAIN w = ManagerFields /\ w.info = With(m.info, id, r) /\ w.used = m.used \cup {a} /\ w.next_irq = n + 1
    <2> HIDE DEF g, w, r, n
    <2> QED BY <1>3, <1>4, Zenon DEF ManagerFields
  <1>6. id = <<id[1], id[2]>> /\ id[1] # "boot_timer"
    BY Zenon DEF identifier, IsVirtio
  <1>7. r = [addr |-> r.addr, irqs |-> r.irqs] /\ r.addr = a /\ r.irqs = <<n>> /\ r.irqs[1] = n /\ <<n>> # << >>
    BY Zenon
  <1>8. Line(r.irqs)
    <2>1. n <= IRQ_MAX
      BY <1>1, BuilderAssumption DEF can_allocate
    <2>2. n \in IRQ_BASE..IRQ_MAX
      BY <1>1, <2>1, BuilderAssumption
    <2> QED BY <1>7, <2>2, Zenon DEF Line
  <1> HIDE DEF id, a, r, g, w, n
  <1>9. ASSUME NEW i \in DOMAIN m.info
        PROVE  m.info[i].addr # r.addr /\ m.info[i].irqs # r.irqs
    <2>1. m.info[i].addr \in m.used /\ (m.info[i].irqs # << >> => m.info[i].irqs[1] < n)
      BY <1>9, ZenonT(40) DEF BootManager, n
    <2>2. m.info[i].irqs = <<n>> => m.info[i].irqs[1] = n
      OBVIOUS
    <2>3. ~(n < n)
      BY <1>1
    <2> QED BY <1>2, <1>7, <2>1, <2>2, <2>3, ZenonT(40)
  <1>10. InfoOK(w.info)
    <2>1. InfoOK(m.info) /\ Resources(r)
      BY <1>7, Zenon DEF BootManager, Resources
    <2>2. InfoOK(With(m.info, id, r))
      BY <1>6, <1>8, <1>9, <2>1, WithKeepsInfo, ZenonT(40)
    <2> QED BY <1>5, <2>2, Zenon
  <1>11. Virtio(w.info) = Virtio(m.info) \cup {<<id, r>>}
    <2>1. id \notin DOMAIN m.info
      BY Zenon DEF id
    <2>2. Virtio(With(m.info, id, r)) = Virtio(m.info) \cup {<<id, r>>}
      BY <1>6, <2>1, WithIsOneMore, SMTT(30)
    <2> QED BY <1>5, <2>2, Zenon
  <1>12. DOMAIN w.info = DOMAIN m.info \cup {id} /\ w.info[id] = r /\ \A i \in DOMAIN m.info : i # id => w.info[i] = m.info[i]
    BY <1>5, Zenon DEF With
  <1>less. n < n + 1 /\ \A p \in Int : p < n => p < n + 1
    <2>1. n \in Nat
      BY <1>1, Zenon
    <2> QED BY <2>1
  <1>13. ASSUME NEW i \in DOMAIN w.info
         PROVE  w.info[i].addr \in w.used /\ (w.info[i].irqs # << >> => w.info[i].irqs[1] < n + 1)
    <2>1. CASE i = id
      <3>1. w.info[i].addr \in w.used /\ w.info[i].irqs[1] = n
        BY <1>5, <1>7, <1>12, <2>1, Zenon
      <3> QED BY <1>less, <3>1, Zenon
    <2>2. CASE i # id
      <3>1. i \in DOMAIN m.info /\ w.info[i] = m.info[i]
        BY <1>12, <1>13, <2>2, Zenon
      <3>2. m.info[i].addr \in m.used /\ (m.info[i].irqs # << >> => m.info[i].irqs[1] < n)
        BY <3>1, Zenon DEF BootManager, n
      <3>3. w.info[i].addr \in w.used
        BY <1>5, <3>1, <3>2, ZenonT(40)
      <3>4. ASSUME w.info[i].irqs # << >> PROVE w.info[i].irqs[1] < n + 1
        <4>1. i[1] # "boot_timer"
          BY <1>10, <1>13, <3>4, Zenon DEF InfoOK
        <4>2. PICK p \in IRQ_BASE..IRQ_MAX : w.info[i].irqs = <<p>>
          BY <1>10, <1>13, <4>1, ZenonT(40) DEF InfoOK, Line
        <4>3. w.info[i].irqs[1] = p /\ p \in Int
          BY <4>2, BuilderAssumption
        <4>4. p < n
          BY <3>1, <3>2, <3>4, <4>3, Zenon
        <4> QED BY <1>less, <4>3, <4>4, Zenon
      <3> QED BY <3>3, <3>4, Zenon
    <2> QED BY <2>1, <2>2, ZenonT(40)
  <1>14. Told(d, w.info[id]) = Entry(<<id, r>>)
    BY <1>12, Zenon DEF Told, Entry, id
  <1>15. Entry(<<id, r>>) \notin Entries(Virtio(m.info))
    <2>1. Entry(<<id, r>>).id = id
      BY ZenonT(40) DEF Entry
    <2>2. \A s \in Virtio(m.info) : Entry(s).id \in DOMAIN m.info
      BY DEF Entry, Virtio
    <2> QED BY <2>1, <2>2, Zenon DEF Entries, id
  <1>16. Names(Append(c, Told(d, w.info[id])), Virtio(w.info))
    <2>1. Names(c, Virtio(m.info))
      BY Zenon DEF BootManager
    <2>2. Names(Append(c, Entry(<<id, r>>)), Virtio(m.info) \cup {<<id, r>>})
      BY <1>15, <2>1, NamesOneMore, ZenonT(30)
    <2> QED BY <1>11, <1>14, <2>2, Zenon
  <1>17. IsFiniteSet(w.used)
    <2>1. IsFiniteSet(m.used)
      BY <1>1, Zenon
    <2>2. IsFiniteSet(m.used \cup {a})
      BY <2>1, FS_AddElement, Zenon
    <2> QED BY <1>5, <2>2, Zenon
  <1>18. w.next_irq \in Nat /\ w.next_irq >= IRQ_BASE
    BY <1>1, <1>5, BuilderAssumption, SMTT(30)
  <1>19. BootManager(w, Append(c, Told(d, w.info[id])))
    BY <1>5, <1>10, <1>13, <1>16, <1>17, <1>18, Zenon DEF BootManager
  <1> QED BY <1>12, <1>19, Zenon DEF w, id

\* The boot timer has an address and no interrupt, and the guest is not told.
LEMMA AttachBootTimer ==
    ASSUME NEW m, NEW c, BootManager(m, c), NEW d, ~IsVirtio(d), identifier(d) \notin DOMAIN m.info
    PROVE  /\ BootManager(attached(m, d), c)
           /\ DOMAIN attached(m, d).info = DOMAIN m.info \cup {identifier(d)}
  <1> DEFINE id == identifier(d)
  <1> DEFINE a == first_free(m.used)
  <1> DEFINE r == [addr |-> a, irqs |-> << >>]
  <1> DEFINE w == attached(m, d)
  <1>1. DOMAIN m = ManagerFields /\ m.next_irq \in Nat /\ IsFiniteSet(m.used) /\ m.next_irq >= IRQ_BASE
    BY Zenon DEF BootManager
  <1>2. a \notin m.used
    BY <1>1, FirstFree, Zenon
  <1>3. w = mmio_registered(m, d, a, << >>)
    BY ZenonT(40) DEF attached
  <1>4. DOMAIN w = ManagerFields /\ w.info = With(m.info, id, r) /\ w.used = m.used \cup {a} /\ w.next_irq = m.next_irq
    BY <1>1, <1>3, Zenon DEF mmio_registered, With, ManagerFields
  <1>5. id = <<id[1], id[2]>> /\ id[1] = "boot_timer"
    BY Zenon DEF identifier, IsVirtio
  <1>6. r = [addr |-> r.addr, irqs |-> r.irqs] /\ r.addr = a /\ r.irqs = << >>
    BY Zenon
  <1> HIDE DEF id, a, r, w
  <1>7. \A i \in DOMAIN m.info : m.info[i].addr # r.addr
    BY <1>2, <1>6, Zenon DEF BootManager
  <1>8. InfoOK(w.info)
    <2>1. InfoOK(m.info) /\ Resources(r)
      BY <1>6, Zenon DEF BootManager, Resources
    <2>2. InfoOK(With(m.info, id, r))
      BY <1>5, <1>6, <1>7, <2>1, WithKeepsInfo, Zenon
    <2> QED BY <1>4, <2>2, Zenon
  <1>9. Virtio(w.info) = Virtio(m.info)
    <2>1. id \notin DOMAIN m.info
      BY Zenon DEF id
    <2>2. Virtio(With(m.info, id, r)) = Virtio(m.info)
      BY <1>5, <2>1, WithIsOneMore, Zenon
    <2> QED BY <1>4, <2>2, Zenon
  <1>10. DOMAIN w.info = DOMAIN m.info \cup {id} /\ w.info[id] = r /\ \A i \in DOMAIN m.info : i # id => w.info[i] = m.info[i]
    BY <1>4, Zenon DEF With
  <1>11. \A i \in DOMAIN w.info : w.info[i].addr \in w.used /\ (w.info[i].irqs # << >> => w.info[i].irqs[1] < w.next_irq)
    BY <1>4, <1>6, <1>10, ZenonT(40) DEF BootManager
  <1>12. IsFiniteSet(w.used)
    BY <1>1, <1>2, <1>4, FS_AddElement, ZenonT(40)
  <1>13. BootManager(w, c)
    BY <1>1, <1>4, <1>8, <1>9, <1>11, <1>12, ZenonT(40) DEF BootManager
  <1> QED BY <1>10, <1>13, Zenon DEF w, id

LEMMA BuilderStarts == BuilderInit => BuilderInv
  BY Zenon DEF BuilderInit, BuilderInv

\* A new manager has registered nothing.
LEMMA NewManager ==
    /\ DOMAIN Manager = ManagerFields /\ InfoOK(Manager.info) /\ Virtio(Manager.info) = {}
    /\ DOMAIN Manager.info = {} /\ BootManager(Manager, << >>)
  <1>1. Manager.info = [i \in {} |-> 0] /\ Manager.used = {} /\ Manager.next_irq = IRQ_BASE
    BY Zenon DEF Manager
  <1>2. DOMAIN Manager = ManagerFields /\ DOMAIN Manager.info = {}
    BY Zenon DEF Manager, ManagerFields
  <1>3. InfoOK(Manager.info)
    BY <1>2, Zenon DEF InfoOK
  <1>4. Virtio(Manager.info) = {}
    BY <1>2, Zenon DEF Virtio
  <1>5. Names(<< >>, Virtio(Manager.info))
    BY <1>1, NamesNone, Zenon
  <1>6. IsFiniteSet(Manager.used)
    BY <1>1, FS_EmptySet, Zenon
  <1>7. IRQ_BASE \in Nat /\ IRQ_BASE >= IRQ_BASE
    BY BuilderAssumption
  <1> QED BY <1>1, <1>2, <1>3, <1>4, <1>5, <1>6, <1>7, ZenonT(40) DEF BootManager

\* build_microvm_for_boot starts with all devices to attach.
LEMMA StartKeeps ==
    ASSUME BuilderInv, StartMicroVm
    PROVE  BuilderInv'
  <1>1. /\ vm' = [stage |-> "create", left |-> conf, manager |-> Manager, cmdline |-> << >>, vcpus |-> "none"]
        /\ saved = {} /\ saved' = {} /\ conf' = conf /\ boot_cmdline' = boot_cmdline /\ conf \in Configs
        /\ boot_cmdline = << >>
    BY Zenon DEF BuilderInv, StartMicroVm
  <1>2. /\ vm'.stage = "create" /\ vm'.left = conf /\ vm'.manager = Manager /\ vm'.cmdline = << >>
        /\ vm'.vcpus = "none" /\ DOMAIN vm' = Fields
    BY <1>1, Zenon DEF Fields
  <1>3. conf \in Seq(Devices) /\ \A j, k \in 1..Len(conf) : identifier(conf[j]) = identifier(conf[k]) => j = k
    BY <1>1, BuilderAssumption, Zenon
  <1>4. Attaching'
    <2>1. \A k \in 1..Len(conf) : identifier(conf[k]) \notin DOMAIN Manager.info
      BY NewManager, Zenon
    <2> QED BY <1>2, <1>3, <2>1, NewManager, ZenonT(40) DEF Attaching, Info
  <1>5. InfoOK(Info') /\ DOMAIN vm'.manager = ManagerFields
    BY <1>2, NewManager, Zenon DEF Info
  <1> QED BY <1>1, <1>2, <1>4, <1>5, ZenonT(40) DEF BuilderInv

\* The next device is attached.
LEMMA AttachKeeps ==
    ASSUME BuilderInv, attach_device
    PROVE  BuilderInv'
  <1> DEFINE d == Head(vm.left)
  <1> DEFINE m == attached(vm.manager, d)
  <1> DEFINE c == IF IsVirtio(d) THEN Append(vm.cmdline, Told(d, m.info[identifier(d)])) ELSE vm.cmdline
  <1>0. vm.stage = "attach" /\ vm # NoVmm
    BY DEF attach_device, NoVmm
  <1>1. /\ vm.left # << >>
        /\ can_allocate(vm.manager, IF IsVirtio(d) THEN 1 ELSE 0)
        /\ vm' = [vm EXCEPT !.left = Tail(@), !.manager = m, !.cmdline = c]
        /\ boot_cmdline' = boot_cmdline /\ conf' = conf /\ saved' = saved /\ guest_cmdline' = guest_cmdline
    BY Zenon DEF attach_device, kept_cmdline
  <1>2. /\ DOMAIN vm = Fields /\ Attaching /\ saved = {} /\ vm.vcpus # "running"
        /\ BootManager(vm.manager, vm.cmdline) /\ vm.left \in Seq(Devices)
    BY <1>0, Zenon DEF BuilderInv, Attaching
  <1> HIDE DEF m, c
  <1>3. /\ vm'.stage = "attach" /\ vm'.left = Tail(vm.left) /\ vm'.manager = m /\ vm'.cmdline = c
        /\ vm'.vcpus = vm.vcpus /\ DOMAIN vm' = Fields
    BY <1>0, <1>1, <1>2, Zenon DEF Fields
  <1>4. 1 \in 1..Len(vm.left) /\ d = vm.left[1]
    BY <1>1, <1>2
  <1>5. identifier(d) \notin DOMAIN vm.manager.info
    BY <1>2, <1>4, Zenon DEF Attaching, Info
  <1>6. BootManager(m, c) /\ DOMAIN m.info = DOMAIN vm.manager.info \cup {identifier(d)}
    <2>1. CASE IsVirtio(d)
      <3>1. can_allocate(vm.manager, 1)
        BY <1>1, <2>1, Zenon
      <3> QED BY <1>2, <1>5, <2>1, <3>1, AttachVirtio, ZenonT(40) DEF m, c
    <2>2. CASE ~IsVirtio(d)
      BY <1>2, <1>5, <2>2, AttachBootTimer, ZenonT(40) DEF m, c
    <2> QED BY <2>1, <2>2, Zenon
  <1>7. /\ Tail(vm.left) \in Seq(Devices)
        /\ \A k \in 1..Len(Tail(vm.left)) : k + 1 \in 1..Len(vm.left) /\ k + 1 # 1 /\ Tail(vm.left)[k] = vm.left[k + 1]
    BY <1>1, <1>2
  <1>8. \A k \in 1..Len(Tail(vm.left)) : identifier(Tail(vm.left)[k]) \notin DOMAIN m.info
    BY <1>2, <1>4, <1>6, <1>7, ZenonT(30) DEF Attaching, Info
  <1>9. \A j, k \in 1..Len(Tail(vm.left)) : j + 1 = k + 1 => j = k
    OBVIOUS
  <1>10. \A j, k \in 1..Len(Tail(vm.left)) : identifier(Tail(vm.left)[j]) = identifier(Tail(vm.left)[k]) => j = k
    BY <1>2, <1>7, <1>9, ZenonT(30) DEF Attaching
  <1>11. Attaching'
    BY <1>3, <1>6, <1>7, <1>8, <1>10, Zenon DEF Attaching, Info
  <1>12. InfoOK(Info') /\ DOMAIN vm'.manager = ManagerFields
    BY <1>3, <1>6, Zenon DEF Info, BootManager
  <1> QED BY <1>1, <1>2, <1>3, <1>11, <1>12, ZenonT(40) DEF BuilderInv

\* Steps that change the stage and not the devices.
LEMMA StageKeeps ==
    ASSUME BuilderInv, vm # NoVmm, NEW st, NEW run, vm' = [vm EXCEPT !.stage = st, !.vcpus = run],
           UNCHANGED <<conf, boot_cmdline, saved, guest_cmdline>>,
           st \in {"attach", "start", "filter", "resume", "built", "restore_filter"},
           run = "running" => st = "built",
           st = "attach" => Attaching /\ saved = {},
           st \in {"start", "filter", "resume"} => saved = {},
           st # "attach" => Names(guest_cmdline, Virtio(Info))
    PROVE  BuilderInv'
  <1>1. DOMAIN vm = Fields /\ DOMAIN vm.manager = ManagerFields /\ InfoOK(Info)
    BY Zenon DEF BuilderInv
  <1>2. /\ vm'.stage = st /\ vm'.vcpus = run /\ vm'.left = vm.left /\ vm'.manager = vm.manager
        /\ vm'.cmdline = vm.cmdline /\ DOMAIN vm' = Fields
    BY <1>1, Zenon DEF Fields
  <1>3. Info' = Info
    BY <1>2, Zenon DEF Info
  <1>4. Attaching => Attaching'
    BY <1>2, <1>3, ZenonT(30) DEF Attaching
  <1> QED BY <1>1, <1>2, <1>3, <1>4, Zenon DEF BuilderInv

\* configure_system_for_boot writes the command line into guest memory.
LEMMA ConfigureKeeps ==
    ASSUME BuilderInv, configure_system_for_boot
    PROVE  BuilderInv'
  <1>1. vm.stage = "attach" /\ vm # NoVmm
    BY DEF configure_system_for_boot, NoVmm
  <1>2. /\ guest_cmdline' = vm.cmdline /\ vm' = [vm EXCEPT !.stage = "start"]
        /\ UNCHANGED <<conf, boot_cmdline, saved>>
    BY Zenon DEF configure_system_for_boot
  <1>3. DOMAIN vm = Fields /\ DOMAIN vm.manager = ManagerFields /\ InfoOK(Info) /\ Attaching /\ saved = {} /\ vm.vcpus # "running"
    BY <1>1, Zenon DEF BuilderInv
  <1>4. vm'.stage = "start" /\ vm'.vcpus = vm.vcpus /\ vm'.manager = vm.manager /\ DOMAIN vm' = Fields
    BY <1>2, <1>3, Zenon DEF Fields
  <1>5. Info' = Info /\ Names(guest_cmdline', Virtio(Info'))
    BY <1>2, <1>3, <1>4, Zenon DEF Info, Attaching, BootManager
  <1> QED BY <1>2, <1>3, <1>4, <1>5, Zenon DEF BuilderInv

\* A step fails and everything is dropped.
LEMMA FailKeeps ==
    ASSUME BuilderInv, vm' = NoVmm, UNCHANGED <<conf, boot_cmdline, saved, guest_cmdline>>
    PROVE  BuilderInv'
  BY Zenon DEF BuilderInv

\* The devices that are registered are those of a snapshot.
LEMMA VirtioIsSaved ==
    ASSUME NEW info, InfoOK(info)
    PROVE  SavedOK(Virtio(info))
  <1>1. ASSUME NEW s \in Virtio(info)
        PROVE  /\ s = <<s[1], s[2]>> /\ s[1] \in DOMAIN info /\ s[2] = info[s[1]] /\ s[1][1] # "boot_timer"
    BY <1>1 DEF Virtio
  <1>2. ASSUME NEW s \in Virtio(info)
        PROVE  s[1] = <<s[1][1], s[1][2]>> /\ Resources(s[2]) /\ Line(s[2].irqs)
    BY <1>1, <1>2, Zenon DEF InfoOK
  <1>3. ASSUME NEW s \in Virtio(info), NEW t \in Virtio(info)
        PROVE  /\ s[1] = t[1] => s = t
               /\ s[1] # t[1] => s[2].addr # t[2].addr /\ s[2].irqs # t[2].irqs
    <2>1. /\ s = <<s[1], s[2]>> /\ s[1] \in DOMAIN info /\ s[2] = info[s[1]]
          /\ t = <<t[1], t[2]>> /\ t[1] \in DOMAIN info /\ t[2] = info[t[1]]
      BY <1>1, Zenon
    <2>2. s[1] = t[1] => s = t
      BY <2>1, ZenonT(40)
    <2>3. Line(s[2].irqs) => s[2].irqs # << >>
      BY DEF Line
    <2>4. s[1] # t[1] => info[s[1]].addr # info[t[1]].addr
                         /\ (info[s[1]].irqs # << >> => info[s[1]].irqs # info[t[1]].irqs)
      BY <2>1, Zenon DEF InfoOK
    <2>5. Line(s[2].irqs)
      BY <1>2, Zenon
    <2> QED BY <2>1, <2>2, <2>3, <2>4, <2>5, Zenon
  <1> QED BY <1>1, <1>2, <1>3, ZenonT(40) DEF SavedOK

\* MMIODeviceManager::save
LEMMA SaveKeeps ==
    ASSUME BuilderInv, save
    PROVE  BuilderInv'
  <1>1. vm.stage = "built" /\ vm # NoVmm /\ saved = {} /\ saved' = Virtio(Info)
    BY DEF save, NoVmm, Virtio, Info
  <1>2. UNCHANGED <<conf, boot_cmdline, vm, guest_cmdline>>
    BY Zenon DEF save
  <1>3. InfoOK(Info) /\ Names(guest_cmdline, Virtio(Info))
    BY <1>1, Zenon DEF BuilderInv
  <1>4. SavedOK(saved') /\ Names(guest_cmdline', saved')
    BY <1>1, <1>2, <1>3, VirtioIsSaved, ZenonT(40)
  <1>5. Info' = Info
    BY <1>2, Zenon DEF Info
  <1> QED BY <1>1, <1>2, <1>4, <1>5, ZenonT(40) DEF BuilderInv

\* build_microvm_from_snapshot starts with all states to restore.
LEMMA LoadKeeps ==
    ASSUME BuilderInv, LoadSnapshot
    PROVE  BuilderInv'
  <1>1. /\ vm' = [stage |-> "restore", left |-> saved, manager |-> Manager, cmdline |-> <<>>, vcpus |-> "created"]
        /\ saved # {} /\ UNCHANGED <<conf, boot_cmdline, saved, guest_cmdline>>
    BY Zenon DEF LoadSnapshot
  <1>2. vm'.stage = "restore" /\ vm'.left = saved /\ vm'.manager = Manager /\ vm'.vcpus = "created" /\ DOMAIN vm' = Fields
    BY <1>1, Zenon DEF Fields
  <1>3. Info' = Manager.info
    BY <1>2, Zenon DEF Info
  <1>4. InfoOK(Info') /\ Virtio(Info') = {} /\ DOMAIN vm'.manager = ManagerFields
    BY <1>2, <1>3, NewManager, Zenon
  <1>5. DOMAIN Info' = {}
    BY <1>3, Zenon DEF Manager
  <1> QED BY <1>1, <1>2, <1>4, <1>5, ZenonT(40) DEF BuilderInv

\* A device is restored with the resources that it had.
LEMMA RestoreKeeps ==
    ASSUME BuilderInv, restore_device
    PROVE  BuilderInv'
  <1>1. vm.stage = "restore" /\ vm # NoVmm
    <2>1. vm.stage = "restore"
      BY ZenonT(30) DEF restore_device
    <2> QED BY <2>1 DEF NoVmm
  <1>2. PICK s \in vm.left :
            vm' = [vm EXCEPT !.left = @ \ {s},
                             !.manager = restored(@, [type |-> s[1][1], id |-> s[1][2]], s[2])]
    BY Zenon DEF restore_device
  <1>3. UNCHANGED <<conf, boot_cmdline, saved, guest_cmdline>>
    BY Zenon DEF restore_device
  <1>4. /\ DOMAIN vm = Fields /\ DOMAIN vm.manager = ManagerFields /\ InfoOK(Info)
        /\ Virtio(Info) \cup vm.left = saved /\ saved # {} /\ SavedOK(saved) /\ vm.vcpus # "running"
        /\ \A i \in DOMAIN Info : i[1] # "boot_timer"
    BY <1>1, Zenon DEF BuilderInv
  <1> DEFINE d == [type |-> s[1][1], id |-> s[1][2]]
  <1> DEFINE m == restored(vm.manager, d, s[2])
  <1>5. /\ vm'.stage = "restore" /\ vm'.left = vm.left \ {s} /\ vm'.manager = m /\ vm'.vcpus = vm.vcpus
        /\ DOMAIN vm' = Fields
    <2> HIDE DEF m
    <2>1. vm' = [vm EXCEPT !.left = @ \ {s}, !.manager = m]
      BY <1>2, Zenon DEF m
    <2> QED BY <1>1, <1>4, <2>1, ZenonT(40) DEF Fields
  <1>6. s \in saved
    BY <1>2, <1>4, ZenonT(40)
  <1>7. /\ s = <<s[1], s[2]>> /\ s[1] = <<s[1][1], s[1][2]>> /\ s[1][1] # "boot_timer"
        /\ Resources(s[2]) /\ Line(s[2].irqs)
    BY <1>4, <1>6, Zenon DEF SavedOK
  <1>8. identifier(d) = s[1]
    BY <1>7, Zenon DEF identifier
  <1>9. DOMAIN m = ManagerFields /\ m.info = With(Info, s[1], s[2])
    <2>1. /\ DOMAIN m = ManagerFields
          /\ m.info = With(vm.manager.info, identifier(d), [addr |-> s[2].addr, irqs |-> s[2].irqs])
      BY <1>4, Zenon DEF restored, mmio_registered, With, ManagerFields
    <2> QED BY <1>7, <1>8, <2>1, ZenonT(40) DEF Resources, Info
  <1> HIDE DEF d, m
  <1>10. ASSUME NEW i \in DOMAIN Info, i # s[1]
         PROVE  Info[i].addr # s[2].addr /\ (s[2].irqs # << >> => Info[i].irqs # s[2].irqs)
    <2> DEFINE t == <<i, Info[i]>>
    <2>1. t \in saved /\ t[1] = i /\ t[2] = Info[i]
      BY <1>4, <1>10, Zenon DEF Virtio
    <2>2. t[1] # s[1] => t[2].addr # s[2].addr /\ t[2].irqs # s[2].irqs
      BY <1>4, <1>6, <2>1, Zenon DEF SavedOK
    <2> HIDE DEF t
    <2> QED BY <1>10, <2>1, <2>2, Zenon
  <1>11. InfoOK(With(Info, s[1], s[2]))
    BY <1>4, <1>7, <1>10, WithKeepsInfo, Zenon
  <1>12. s[1] \in DOMAIN Info => Info[s[1]] = s[2]
    <2> SUFFICES ASSUME s[1] \in DOMAIN Info PROVE Info[s[1]] = s[2]
      BY Zenon
    <2> DEFINE t == <<s[1], Info[s[1]]>>
    <2>1. t \in saved /\ t[1] = s[1] /\ t[2] = Info[s[1]]
      BY <1>4, <1>7, ZenonT(40) DEF Virtio
    <2> HIDE DEF t
    <2> QED BY <1>4, <1>6, <2>1, ZenonT(40) DEF SavedOK
  <1>13. Virtio(With(Info, s[1], s[2])) = Virtio(Info) \cup {s}
    BY <1>7, <1>12, WithIsOneMore, SMTT(30)
  <1>14. Info' = With(Info, s[1], s[2])
    BY <1>5, <1>9, ZenonT(40) DEF Info
  <1>15. Virtio(Info') \cup vm'.left = saved'
    BY <1>2, <1>3, <1>4, <1>5, <1>13, <1>14, ZenonT(40)
  <1>16. InfoOK(Info') /\ DOMAIN vm'.manager = ManagerFields
    BY <1>5, <1>9, <1>11, <1>14, ZenonT(40)
  <1>17. \A i \in DOMAIN Info' : i[1] # "boot_timer"
    <2>1. DOMAIN With(Info, s[1], s[2]) = DOMAIN Info \cup {s[1]}
      BY Zenon DEF With
    <2> QED BY <1>4, <1>7, <1>14, <2>1, ZenonT(40)
  <1> QED BY <1>3, <1>4, <1>5, <1>15, <1>16, <1>17, ZenonT(40) DEF BuilderInv

\* Every step of a boot, a save and a restore keeps the invariant.
LEMMA BuilderKeeps ==
    ASSUME BuilderInv, [BuilderNext]_bdvars
    PROVE  BuilderInv'
  <1>1. CASE create_vmm_and_vcpus
    <2>1. vm.stage = "create" /\ vm # NoVmm /\ vm' = [vm EXCEPT !.stage = "attach", !.vcpus = "created"]
          /\ UNCHANGED <<conf, boot_cmdline, saved, guest_cmdline>>
      BY <1>1 DEF create_vmm_and_vcpus, NoVmm
    <2>2. Attaching /\ saved = {}
      BY <2>1, Zenon DEF BuilderInv
    <2> DEFINE st == "attach"
    <2> DEFINE run == "created"
    <2>4. vm' = [vm EXCEPT !.stage = st, !.vcpus = run]
      BY <2>1, Zenon
    <2>5. /\ st \in {"attach", "start", "filter", "resume", "built", "restore_filter"}
          /\ run = "running" => st = "built"
          /\ st = "attach" => Attaching /\ saved = {}
          /\ st \in {"start", "filter", "resume"} => saved = {}
          /\ st # "attach" => Names(guest_cmdline, Virtio(Info))
      BY <2>1, <2>2, Zenon
    <2> HIDE DEF st, run
    <2> QED BY <2>1, <2>4, <2>5, StageKeeps, ZenonT(40)
  <1>2. CASE start_vcpus
    <2>1. vm.stage = "start" /\ vm # NoVmm /\ vm' = [vm EXCEPT !.stage = "filter", !.vcpus = "paused"]
          /\ UNCHANGED <<conf, boot_cmdline, saved, guest_cmdline>>
      BY <1>2 DEF start_vcpus, NoVmm, after_start
    <2>2. Names(guest_cmdline, Virtio(Info)) /\ saved = {}
      BY <2>1, Zenon DEF BuilderInv
    <2> DEFINE st == "filter"
    <2> DEFINE run == "paused"
    <2>4. vm' = [vm EXCEPT !.stage = st, !.vcpus = run]
      BY <2>1, Zenon
    <2>5. /\ st \in {"attach", "start", "filter", "resume", "built", "restore_filter"}
          /\ run = "running" => st = "built"
          /\ st = "attach" => Attaching /\ saved = {}
          /\ st \in {"start", "filter", "resume"} => saved = {}
          /\ st # "attach" => Names(guest_cmdline, Virtio(Info))
      BY <2>1, <2>2, Zenon
    <2> HIDE DEF st, run
    <2> QED BY <2>1, <2>4, <2>5, StageKeeps, ZenonT(40)
  <1>3. CASE apply_filter
    <2>1. vm.stage = "filter" /\ vm # NoVmm /\ vm' = [vm EXCEPT !.stage = "resume"]
          /\ UNCHANGED <<conf, boot_cmdline, saved, guest_cmdline>>
      BY <1>3 DEF apply_filter, NoVmm
    <2>2. Names(guest_cmdline, Virtio(Info)) /\ saved = {} /\ vm.vcpus # "running" /\ DOMAIN vm = Fields
      BY <2>1, Zenon DEF BuilderInv
    <2>3. vm' = [vm EXCEPT !.stage = "resume", !.vcpus = vm.vcpus]
      BY <2>1, <2>2, Zenon DEF Fields
    <2> DEFINE st == "resume"
    <2> DEFINE run == vm.vcpus
    <2>4. vm' = [vm EXCEPT !.stage = st, !.vcpus = run]
      BY <2>3, Zenon
    <2>5. /\ st \in {"attach", "start", "filter", "resume", "built", "restore_filter"}
          /\ run = "running" => st = "built"
          /\ st = "attach" => Attaching /\ saved = {}
          /\ st \in {"start", "filter", "resume"} => saved = {}
          /\ st # "attach" => Names(guest_cmdline, Virtio(Info))
      BY <2>1, <2>2, Zenon
    <2> HIDE DEF st, run
    <2> QED BY <2>1, <2>4, <2>5, StageKeeps, ZenonT(40)
  <1>4. CASE resume_vm
    <2>1. vm.stage = "resume" /\ vm # NoVmm /\ vm' = [vm EXCEPT !.stage = "built", !.vcpus = "running"]
          /\ UNCHANGED <<conf, boot_cmdline, saved, guest_cmdline>>
      BY <1>4 DEF resume_vm, NoVmm
    <2>2. Names(guest_cmdline, Virtio(Info))
      BY <2>1, Zenon DEF BuilderInv
    <2> QED BY <2>1, <2>2, StageKeeps, Zenon
  <1>5. CASE restore_vcpus
    <2>1. vm.stage = "restore" /\ vm # NoVmm /\ vm' = [vm EXCEPT !.stage = "restore_filter", !.vcpus = "paused"]
          /\ vm.left = {} /\ UNCHANGED <<conf, boot_cmdline, saved, guest_cmdline>>
      BY <1>5 DEF restore_vcpus, NoVmm
    <2>2. Virtio(Info) = saved /\ Names(guest_cmdline, saved)
      BY <2>1, Zenon DEF BuilderInv
    <2> DEFINE st == "restore_filter"
    <2> DEFINE run == "paused"
    <2>4. vm' = [vm EXCEPT !.stage = st, !.vcpus = run]
      BY <2>1, Zenon
    <2>5. /\ st \in {"attach", "start", "filter", "resume", "built", "restore_filter"}
          /\ run = "running" => st = "built"
          /\ st = "attach" => Attaching /\ saved = {}
          /\ st \in {"start", "filter", "resume"} => saved = {}
          /\ st # "attach" => Names(guest_cmdline, Virtio(Info))
      BY <2>1, <2>2
    <2> HIDE DEF st, run
    <2> QED BY <2>1, <2>4, <2>5, StageKeeps, ZenonT(40)
  <1>6. CASE restore_filter
    <2>1. vm.stage = "restore_filter" /\ vm # NoVmm /\ vm' = [vm EXCEPT !.stage = "built"]
          /\ UNCHANGED <<conf, boot_cmdline, saved, guest_cmdline>>
      BY <1>6 DEF restore_filter, NoVmm
    <2>2. Names(guest_cmdline, Virtio(Info)) /\ DOMAIN vm = Fields
      BY <2>1, Zenon DEF BuilderInv
    <2>3. vm' = [vm EXCEPT !.stage = "built", !.vcpus = vm.vcpus]
      BY <2>1, <2>2, Zenon DEF Fields
    <2> QED BY <2>1, <2>2, <2>3, StageKeeps, Zenon
  <1>7. CASE ResumeRestored
    <2>1. vm.stage = "built" /\ vm # NoVmm /\ vm' = [vm EXCEPT !.vcpus = "running"]
          /\ UNCHANGED <<conf, boot_cmdline, saved, guest_cmdline>>
      BY <1>7 DEF ResumeRestored, NoVmm
    <2>2. Names(guest_cmdline, Virtio(Info)) /\ DOMAIN vm = Fields
      BY <2>1, Zenon DEF BuilderInv
    <2>3. vm' = [vm EXCEPT !.stage = "built", !.vcpus = "running"]
      BY <2>1, <2>2, Zenon DEF Fields
    <2> QED BY <2>1, <2>2, <2>3, StageKeeps, Zenon
  <1>8. CASE attach_fails \/ StepFails
    BY <1>8, FailKeeps, Zenon DEF attach_fails, StepFails
  <1>9. CASE UNCHANGED bdvars
    BY <1>9, Zenon DEF bdvars, BuilderInv, Attaching, Info
  <1> QED BY <1>1, <1>2, <1>3, <1>4, <1>5, <1>6, <1>7, <1>8, <1>9, StartKeeps, AttachKeeps, ConfigureKeeps,
             SaveKeeps, LoadKeeps, RestoreKeeps, ZenonT(40) DEF BuilderNext

\* The guest of a microVM that runs was told of its devices.
LEMMA InvDevicesAreFound == BuilderInv => DevicesAreFound
  <1> SUFFICES ASSUME BuilderInv PROVE DevicesAreFound
    BY Zenon
  <1>1. GuestToldRight
    <2> SUFFICES ASSUME Runs
                 PROVE  /\ Range(guest_cmdline) =
                             {[id |-> i, addr |-> Info[i].addr, irq |-> Info[i].irqs[1]] :
                                  i \in {x \in DOMAIN Info : x[1] # "boot_timer"}}
                        /\ Len(guest_cmdline) = Cardinality(Range(guest_cmdline))
      BY Zenon DEF GuestToldRight
    <2>1. Names(guest_cmdline, Virtio(Info))
      BY Zenon DEF BuilderInv, Runs
    <2>2. Entries(Virtio(Info)) = {[id |-> i, addr |-> Info[i].addr, irq |-> Info[i].irqs[1]] :
                                       i \in {x \in DOMAIN Info : x[1] # "boot_timer"}}
      <3> DEFINE V == {x \in DOMAIN Info : x[1] # "boot_timer"}
      <3> DEFINE E(x) == [id |-> x, addr |-> Info[x].addr, irq |-> Info[x].irqs[1]]
      <3>1. \A x : Entry(<<x, Info[x]>>) = E(x)
        BY Zenon DEF Entry
      <3>2. Entries(Virtio(Info)) = {E(x) : x \in V}
        <4> HIDE DEF E
        <4>1. \A e \in Entries(Virtio(Info)) : e \in {E(x) : x \in V}
          BY <3>1, Zenon DEF Entries, Virtio
        <4>2. \A x \in V : E(x) \in Entries(Virtio(Info))
          BY <3>1, Zenon DEF Entries, Virtio
        <4> QED BY <4>1, <4>2, Zenon
      <3> QED BY <3>2, Zenon
    <2> QED BY <2>1, <2>2, Zenon DEF Names
  <1>2. ResourcesDisjoint
    <2> SUFFICES ASSUME vm # NoVmm, NEW i \in DOMAIN Info, NEW j \in DOMAIN Info
                 PROVE  /\ i # j => /\ Info[i].addr # Info[j].addr
                                    /\ Range(Info[i].irqs) \cap Range(Info[j].irqs) = {}
                        /\ Range(Info[i].irqs) \subseteq IRQ_BASE..IRQ_MAX
      BY Zenon DEF ResourcesDisjoint
    <2>1. InfoOK(Info)
      BY Zenon DEF BuilderInv
    <2>2. Range(<< >>) = {} /\ \A n : Range(<<n>>) = {n}
      BY DEF Range
    <2>3. \A k \in DOMAIN Info : \/ Info[k].irqs = << >>
                                 \/ \E n \in IRQ_BASE..IRQ_MAX : Info[k].irqs = <<n>>
      BY <2>1, ZenonT(40) DEF InfoOK, Line
    <2>4. Range(Info[i].irqs) \subseteq IRQ_BASE..IRQ_MAX
      BY <2>2, <2>3, Zenon
    <2>5. i # j => Info[i].addr # Info[j].addr /\ (Info[i].irqs # << >> => Info[i].irqs # Info[j].irqs)
      BY <2>1, Zenon DEF InfoOK
    <2>6. i # j => Range(Info[i].irqs) \cap Range(Info[j].irqs) = {}
      <3> SUFFICES ASSUME i # j PROVE Range(Info[i].irqs) \cap Range(Info[j].irqs) = {}
        BY Zenon
      <3>1. CASE Info[i].irqs = << >> \/ Info[j].irqs = << >>
        BY <2>2, <3>1, Zenon
      <3>2. CASE Info[i].irqs # << >> /\ Info[j].irqs # << >>
        <4>1. PICK n : Info[i].irqs = <<n>>
          BY <2>3, <3>2, Zenon
        <4>2. PICK k : Info[j].irqs = <<k>>
          BY <2>3, <3>2, Zenon
        <4>3. n # k
          BY <2>5, <3>2, <4>1, <4>2, ZenonT(40)
        <4>4. Range(Info[i].irqs) = {n} /\ Range(Info[j].irqs) = {k}
          BY <2>2, <4>1, <4>2, Zenon
        <4> QED BY <4>3, <4>4, Zenon
      <3> QED BY <3>1, <3>2, Zenon
    <2> QED BY <2>4, <2>5, <2>6, Zenon
  <1> QED BY <1>1, <1>2, Zenon DEF DevicesAreFound

\* MMIODeviceManager, at boot and from a snapshot: for any devices, after any
\* failed attempts and any number of restores, a guest that runs finds each of its
\* devices where its command line says, and no two of them share a resource.
THEOREM DevicesFound == BuilderSpec => []DevicesAreFound
  <1>1. BuilderInv /\ [BuilderNext]_bdvars => BuilderInv'
    BY BuilderKeeps, Zenon
  <1> QED BY <1>1, BuilderStarts, InvDevicesAreFound, PTL DEF BuilderSpec
=============================================================================
