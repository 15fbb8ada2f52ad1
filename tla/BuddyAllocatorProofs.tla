------------------------ MODULE BuddyAllocatorProofs ------------------------
(***************************************************************************)
(* Proofs about the buddy allocator, for heaps of any size and any number  *)
(* of orders: init tiles the heap with aligned zones; free and live blocks *)
(* partition the zones whatever is allocated and freed; buddies are never  *)
(* both free; and the allocator implements the heap of KernelHeap.         *)
(***************************************************************************)
EXTENDS BuddyBlocks

(* The prover's default of five seconds is short for the larger steps.     *)
USE SMTT(20), ZenonT(20), SMTT(30)

----------------------------------------------------------------------------
(* init establishes and keeps the invariant.                               *)

LEMMA HeapTyped ==
  ASSUME NEW h \in Heaps
  PROVE  /\ h.start \in Nat /\ h.size \in Nat /\ h.start % block_size(MIN_ORDER) = 0
         /\ h.size >= block_size(MIN_ORDER)
         /\ MIN_ORDER \in Orders /\ MIN_ORDER \in Nat /\ MAX_ORDER \in Nat
         /\ block_size(MIN_ORDER) \in Nat /\ block_size(MIN_ORDER) > 0
<1>1. MIN_ORDER \in Orders
  BY BuddyAssumption DEF Orders
<1> QED BY <1>1, BuddyAssumption, OrderNat

LEMMA InitInv == BuddyInit => BuddyInv
<1> SUFFICES ASSUME BuddyInit PROVE BuddyInv
  OBVIOUS
<1>1. /\ heap \in Heaps /\ remaining = heap.size /\ zones = <<>> /\ max_order = MIN_ORDER
      /\ free_lists = [o \in Orders |-> <<>>] /\ initialized = FALSE /\ live = {}
  BY DEF BuddyInit
<1>2. /\ heap.start \in Nat /\ heap.size \in Nat /\ MIN_ORDER \in Orders
      /\ heap.start % block_size(MIN_ORDER) = 0
  BY <1>1, HeapTyped
<1>3. BuddyTypes
  <2>1. remaining \in 0..heap.size
    BY <1>1, <1>2
  <2>2. zones \in Seq([base : Nat, order : Orders]) /\ max_order \in Orders
    BY <1>1, <1>2
  <2>3. free_lists \in [Orders -> Seq(Nat)]
    BY <1>1
  <2> QED BY <1>1, <2>1, <2>2, <2>3, Zenon DEF BuddyTypes
<1>4. ZonesEnd = heap.start
  BY <1>1, <1>2 DEF ZonesEnd
<1>5. ZonesInv
  BY <1>1, <1>2, <1>4 DEF ZonesInv
<1>6. FreeBlocks = {} /\ LiveBlocks = {} /\ ZoneSet = {}
  BY <1>1 DEF FreeBlocks, LiveBlocks, ZoneSet
<1>7. BlocksInv
  BY <1>1, <1>6 DEF BlocksInv, Apart, NoBuddies
<1> QED BY <1>3, <1>5, <1>7 DEF BuddyInv

(* What a round of init's loop finds and does.                             *)
LEMMA AddZoneFacts ==
  ASSUME BuddyTypes, ZonesInv, AddZone
  PROVE  \E order \in Orders :
           /\ ZonesEnd \in Nat /\ heap.start <= ZonesEnd
           /\ ZonesEnd % block_size(order) = 0 /\ block_size(order) <= remaining
           /\ zones' = Append(zones, [base |-> ZonesEnd, order |-> order])
           /\ max_order' = IF order > max_order THEN order ELSE max_order
           /\ free_lists' = [free_lists EXCEPT
                               ![order] = push_free_block(@, ZonesEnd)]
           /\ remaining' = remaining - block_size(order)
           /\ ~initialized /\ UNCHANGED <<heap, initialized, live>>
<1> DEFINE S == {MIN_ORDER} \cup
                 {o \in Orders : /\ o <= largest_order_for(heap.size)
                                 /\ block_size(o) <= remaining
                                 /\ ZonesEnd % block_size(o) = 0}
           order == LargestOf(S)
<1>1. /\ heap.start \in Nat /\ heap.size \in Nat /\ MIN_ORDER \in Orders /\ MAX_ORDER \in Nat
      /\ MIN_ORDER \in Nat /\ remaining \in 0..heap.size
  BY HeapTyped DEF BuddyTypes
<1>2. S \subseteq 0..MAX_ORDER /\ MIN_ORDER \in S /\ S \subseteq Orders
  BY <1>1 DEF Orders
<1>3. order \in S
  BY <1>1, <1>2, Largest, Zenon
<1>4. remaining >= block_size(MIN_ORDER) /\ ZonesEnd % block_size(MIN_ORDER) = 0
  BY DEF AddZone, ZonesInv
<1>5. block_size(order) <= remaining /\ ZonesEnd % block_size(order) = 0
  BY <1>3, <1>4
<1>6. ZonesEnd \in Nat /\ heap.start <= ZonesEnd
  BY <1>1 DEF ZonesEnd
<1>7. /\ zones' = Append(zones, [base |-> ZonesEnd, order |-> order])
      /\ max_order' = IF order > max_order THEN order ELSE max_order
      /\ free_lists' = [free_lists EXCEPT ![order] = push_free_block(@, ZonesEnd)]
      /\ remaining' = remaining - block_size(order)
      /\ ~initialized /\ UNCHANGED <<heap, initialized, live>>
  BY DEF AddZone, ZonesEnd
<1> HIDE DEF order
<1>8. order \in Orders
  BY <1>2, <1>3
<1> QED BY <1>5, <1>6, <1>7, <1>8, Zenon

LEMMA AddZoneZones ==
  ASSUME BuddyTypes, ZonesInv, AddZone
  PROVE  BuddyTypes' /\ ZonesInv'
<1>1. PICK order \in Orders :
           /\ ZonesEnd \in Nat /\ heap.start <= ZonesEnd
           /\ ZonesEnd % block_size(order) = 0 /\ block_size(order) <= remaining
           /\ zones' = Append(zones, [base |-> ZonesEnd, order |-> order])
           /\ max_order' = IF order > max_order THEN order ELSE max_order
           /\ free_lists' = [free_lists EXCEPT
                               ![order] = push_free_block(@, ZonesEnd)]
           /\ remaining' = remaining - block_size(order)
           /\ ~initialized /\ UNCHANGED <<heap, initialized, live>>
  BY AddZoneFacts, Zenon
<1> DEFINE d == block_size(order)
           zone == [base |-> ZonesEnd, order |-> order]
           n == Len(zones)
<1>2. /\ heap \in Heaps /\ heap.start \in Nat /\ heap.size \in Nat /\ remaining \in 0..heap.size
      /\ d \in Nat /\ d > 0 /\ order \in Nat /\ zones \in Seq(Zones) /\ n \in Nat
      /\ max_order \in Orders /\ max_order \in Nat /\ live = {}
  <2>1. /\ heap \in Heaps /\ remaining \in 0..heap.size /\ max_order \in Orders
        /\ zones \in Seq(Zones)
    BY DEF BuddyTypes, Zones
  <2>2. heap.start \in Nat /\ heap.size \in Nat
    BY <2>1, HeapTyped
  <2>3. d \in Nat /\ d > 0 /\ order \in Nat /\ max_order \in Nat
    BY <2>1, OrderNat
  <2>4. live = {}
    BY <1>1 DEF BuddyTypes
  <2>5. n \in Nat
    BY <2>1
  <2> QED BY <2>1, <2>2, <2>3, <2>4, <2>5
<1> HIDE DEF n, zone, d
<1>3. remaining' \in 0..heap.size /\ ZonesEnd' = ZonesEnd + d
  <2>1. remaining' = remaining - d /\ d <= remaining
    BY <1>1 DEF d
  <2>2. ZonesEnd' = heap.start + heap.size - remaining'
    BY <1>1 DEF ZonesEnd
  <2> QED BY ONLY <1>2, <2>1, <2>2 DEF ZonesEnd
<1>4. zone \in Zones /\ zone.base = ZonesEnd /\ zone.order = order
  BY <1>1 DEF Zones, zone
<1>5. zones' \in Seq(Zones) /\ Len(zones') = n + 1 /\ zones'[n + 1] = zone
      /\ \A i \in 1..n : zones'[i] = zones[i]
  BY <1>1, <1>2, <1>4 DEF n, zone
<1>6. BuddyTypes'
  <2>1. free_lists' \in [Orders -> Seq(Nat)]
    <3>1. free_lists \in [Orders -> Seq(Nat)]
      BY DEF BuddyTypes
    <3>2. push_free_block(free_lists[order], ZonesEnd) \in Seq(Nat)
      BY <3>1, <1>1, PushFacts
    <3> QED BY <3>1, <3>2, <1>1
  <2>2. max_order' \in Orders
    BY <1>1, <1>2
  <2> QED BY <2>1, <2>2, <1>1, <1>2, <1>3, <1>5 DEF BuddyTypes, Zones
<1>7. ASSUME NEW i \in 1..(n + 1)
      PROVE  /\ heap.start <= zones'[i].base
             /\ zones'[i].base + block_size(zones'[i].order) <= ZonesEnd + d
             /\ zones'[i].base % block_size(zones'[i].order) = 0
             /\ zones'[i].order <= max_order'
  <2>1. CASE i = n + 1
    <3>1. zones'[i].base = ZonesEnd /\ zones'[i].order = order
      BY <2>1, <1>4, <1>5
    <3>2. heap.start <= ZonesEnd /\ ZonesEnd % d = 0 /\ order <= max_order'
      BY <1>1, <1>2 DEF d
    <3> QED BY <3>1, <3>2, <1>1, <1>2 DEF d
  <2>2. CASE i \in 1..n
    <3>1. /\ heap.start <= zones[i].base
          /\ zones[i].base + block_size(zones[i].order) <= ZonesEnd
          /\ zones[i].base % block_size(zones[i].order) = 0
          /\ zones[i].order <= max_order
      BY <2>2 DEF ZonesInv, n
    <3>2. zones[i] \in ZoneSet
      BY <2>2 DEF ZoneSet, n
    <3>3. zones[i].base \in Nat /\ zones[i].order \in Nat /\ block_size(zones[i].order) \in Nat
      BY <3>2, ZoneTyped
    <3>4. zones[i].base + block_size(zones[i].order) <= ZonesEnd + d
      <4>1. ZonesEnd \in Nat
        BY <1>1
      <4> QED BY ONLY <4>1, <3>1, <3>3, <1>2
    <3>5. zones[i].order <= max_order'
      <4>1. max_order' = IF order > max_order THEN order ELSE max_order
        BY <1>1
      <4> QED BY ONLY <4>1, <3>1, <3>3, <1>2
    <3> QED BY <3>1, <3>4, <3>5, <2>2, <1>5
  <2> QED BY <2>1, <2>2, <1>2
<1>8. ASSUME NEW i \in 1..(n + 1), NEW j \in 1..(n + 1), i < j
      PROVE  zones'[i].base + block_size(zones'[i].order) <= zones'[j].base
  <2>1. i \in 1..n /\ zones'[i] = zones[i]
    BY <1>2, <1>5, <1>8
  <2>2. CASE j = n + 1
    <3>1. zones[i].base + block_size(zones[i].order) <= ZonesEnd
      BY <2>1 DEF ZonesInv, n
    <3> QED BY <3>1, <2>1, <2>2, <1>4, <1>5
  <2>3. CASE j \in 1..n
    <3>1. zones[i].base + block_size(zones[i].order) <= zones[j].base
      BY <2>1, <2>3, <1>8 DEF ZonesInv, n
    <3> QED BY <3>1, <2>1, <2>3, <1>5
  <2> QED BY <2>2, <2>3, <1>2
<1>9. ASSUME NEW p \in heap.start..(ZonesEnd + d - 1)
      PROVE  \E i \in 1..(n + 1) : p \in ZoneBytes(zones'[i])
  <2>1. CASE p < ZonesEnd
    <3>1. p \in heap.start..(ZonesEnd - 1)
      BY <2>1, <1>1, <1>2
    <3>2. PICK i \in 1..n : p \in ZoneBytes(zones[i])
      BY <3>1 DEF ZonesInv, n
    <3>3. i \in 1..(n + 1) /\ zones'[i] = zones[i]
      BY <1>2, <1>5
    <3> QED BY <3>2, <3>3
  <2>2. CASE p >= ZonesEnd
    <3>1. p \in ZoneBytes(zone)
      BY <2>2, <1>1, <1>2, <1>4 DEF ZoneBytes, d
    <3> QED BY <3>1, <1>2, <1>5
  <2>3. p \in Nat /\ ZonesEnd \in Nat
    BY <1>1, <1>2
  <2> QED BY <2>1, <2>2, <2>3
<1>10. (ZonesEnd + d) % block_size(MIN_ORDER) = 0
  <2>1. MIN_ORDER \in Nat /\ block_size(MIN_ORDER) \in Nat /\ block_size(MIN_ORDER) > 0
    BY <1>2, HeapTyped
  <2>2. PICK k \in Nat : d = k * block_size(MIN_ORDER)
    <3>1. MIN_ORDER <= order
      BY <2>1 DEF Orders
    <3> QED BY <3>1, <2>1, <1>2, SizeMultiple DEF d
  <2>3. PICK e \in Nat : ZonesEnd = e * block_size(MIN_ORDER)
    <3>1. ZonesEnd \in Nat /\ ZonesEnd % block_size(MIN_ORDER) = 0
      BY <1>1 DEF ZonesInv
    <3>2. ZonesEnd = (ZonesEnd \div block_size(MIN_ORDER)) * block_size(MIN_ORDER)
                       + (ZonesEnd % block_size(MIN_ORDER))
          /\ ZonesEnd \div block_size(MIN_ORDER) \in Nat
      BY ONLY <2>1, <3>1, Divided
    <3> DEFINE f == ZonesEnd \div block_size(MIN_ORDER)
    <3> HIDE DEF f
    <3>3. f \in Nat /\ ZonesEnd = f * block_size(MIN_ORDER) + 0
      BY <3>1, <3>2 DEF f
    <3>4. f * block_size(MIN_ORDER) \in Nat
      BY <2>1, <3>3
    <3> QED BY <3>3, <3>4
  <2>4. ZonesEnd + d = (e + k) * block_size(MIN_ORDER) /\ e + k \in Nat
    BY <2>1, <2>2, <2>3
  <2>5. ((e + k) * block_size(MIN_ORDER) + 0) % block_size(MIN_ORDER) = 0
    BY <2>1, <2>4, DivUnique
  <2>6. (e + k) * block_size(MIN_ORDER) + 0 = (e + k) * block_size(MIN_ORDER)
    BY <2>1, <2>4
  <2> QED BY <2>4, <2>5, <2>6
<1>11. ZonesInv'
  <2>1. heap' = heap /\ ~initialized'
    BY <1>1
  <2>2. \A i \in 1..Len(zones') :
           /\ heap'.start <= zones'[i].base
           /\ zones'[i].base + block_size(zones'[i].order) <= ZonesEnd'
           /\ zones'[i].base % block_size(zones'[i].order) = 0
           /\ zones'[i].order <= max_order'
    BY <2>1, <1>3, <1>5, <1>7
  <2>3. \A i, j \in 1..Len(zones') :
          i < j => zones'[i].base + block_size(zones'[i].order) <= zones'[j].base
    BY <1>5, <1>8
  <2>4. \A p \in heap'.start..(ZonesEnd' - 1) :
          \E i \in 1..Len(zones') : p \in ZoneBytes(zones'[i])
    <3> SUFFICES ASSUME NEW p \in heap'.start..(ZonesEnd' - 1)
                 PROVE  \E i \in 1..Len(zones') : p \in ZoneBytes(zones'[i])
      OBVIOUS
    <3>1. ZonesEnd \in Nat /\ ZonesEnd' = ZonesEnd + d /\ heap'.start = heap.start
      BY <2>1, <1>1, <1>3
    <3>2. p \in heap.start..(ZonesEnd + d - 1)
      BY <3>1, <1>2
    <3>3. 1..Len(zones') = 1..(n + 1)
      BY <1>5
    <3> QED BY <3>2, <3>3, <1>9, Zenon
  <2>5. ZonesEnd' % block_size(MIN_ORDER) = 0
    BY <1>3, <1>10
  <2> QED BY <2>1, <2>2, <2>3, <2>4, <2>5 DEF ZonesInv, ZoneBytes
<1> QED BY <1>6, <1>11

LEMMA AddZoneBlocks ==
  ASSUME BuddyInv, AddZone
  PROVE  BlocksInv'
<1>1. PICK order \in Orders :
           /\ ZonesEnd \in Nat /\ heap.start <= ZonesEnd
           /\ ZonesEnd % block_size(order) = 0 /\ block_size(order) <= remaining
           /\ zones' = Append(zones, [base |-> ZonesEnd, order |-> order])
           /\ max_order' = IF order > max_order THEN order ELSE max_order
           /\ free_lists' = [free_lists EXCEPT
                               ![order] = push_free_block(@, ZonesEnd)]
           /\ remaining' = remaining - block_size(order)
           /\ ~initialized /\ UNCHANGED <<heap, initialized, live>>
  BY AddZoneFacts, Zenon DEF BuddyInv
<1> DEFINE zone == [base |-> ZonesEnd, order |-> order]
           new == Block(ZonesEnd, order)
<1>2. /\ BuddyTypes /\ ZonesInv /\ BlocksInv /\ BuddyTypes' /\ ZonesInv'
      /\ free_lists \in [Orders -> Seq(Nat)] /\ free_lists' \in [Orders -> Seq(Nat)]
  <2>1. BuddyTypes /\ ZonesInv /\ BlocksInv
    BY DEF BuddyInv
  <2>2. BuddyTypes' /\ ZonesInv'
    BY <2>1, AddZoneZones
  <2> QED BY <2>1, <2>2 DEF BuddyTypes
<1>3. live = {} /\ live' = {} /\ LiveBlocks = {} /\ LiveBlocks' = {}
  <2>1. live = {} /\ live' = {}
    BY <1>1, <1>2 DEF BuddyTypes
  <2> QED BY <2>1 DEF LiveBlocks
<1>4. zone \in Zones /\ zone.base = ZonesEnd /\ zone.order = order
  BY <1>1 DEF Zones
<1>5. ZoneSet' = ZoneSet \cup {zone}
  <2>1. zones \in Seq(Zones) /\ zones' = Append(zones, zone)
    BY <1>1, <1>2 DEF BuddyTypes, Zones
  <2>2. Len(zones) \in Nat /\ Len(zones') = Len(zones) + 1 /\ zones'[Len(zones) + 1] = zone
        /\ \A i \in 1..Len(zones) : zones'[i] = zones[i]
    BY <2>1, <1>4
  <2>3. \A z : z \in ZoneSet' <=> z \in ZoneSet \/ z = zone
    BY <2>2 DEF ZoneSet
  <2> QED BY <2>3
<1>6. new \in Blocks /\ new.addr = ZonesEnd /\ new.order = order
      /\ \A p : p \in BlockBytes(new) <=> p \in Nat /\ ZonesEnd <= p /\ p < ZonesEnd + block_size(order)
  BY <1>1, BlockIs
<1>7. \A z \in ZoneSet : \A p \in ZoneBytes(z) : p \in Nat /\ p < ZonesEnd
  <2> SUFFICES ASSUME NEW z \in ZoneSet, NEW p \in ZoneBytes(z) PROVE p \in Nat /\ p < ZonesEnd
    OBVIOUS
  <2>1. p \in Nat /\ p < z.base + block_size(z.order) /\ z.base \in Nat /\ block_size(z.order) \in Nat
    BY <1>2, ZoneTyped
  <2>2. z.base + block_size(z.order) <= ZonesEnd
    BY <1>2 DEF ZoneSet, ZonesInv
  <2> QED BY ONLY <2>1, <2>2, <1>1
<1>8. FreeBlocks \subseteq Blocks /\ FreeBlocks = FreeOf(free_lists)
      /\ \A o \in Orders : \A x : Block(x, o) \in FreeBlocks <=> x \in Elems(free_lists[o])
  BY <1>2, FreeTyped
<1>9. \A b \in FreeBlocks : \E z \in ZoneSet : Inside(z, b)
  BY <1>2, <1>3 DEF BlocksInv
<1>10. \A b \in FreeBlocks : \A p \in BlockBytes(b) : p \in Nat /\ p < ZonesEnd
  BY <1>2, <1>7, <1>8, <1>9, InsideBytes
<1>11. new \notin FreeBlocks
  <2>1. ZonesEnd \in BlockBytes(new)
    BY <1>6, BlockTyped
  <2> QED BY <2>1, <1>1, <1>10
<1>12. \A o \in Orders :
         /\ o # order => free_lists'[o] = free_lists[o]
         /\ o = order => free_lists'[o] = push_free_block(free_lists[o], ZonesEnd)
  BY <1>1, <1>2
<1>13. /\ Elems(free_lists'[order]) = Elems(free_lists[order]) \cup {ZonesEnd}
       /\ NoDup(free_lists'[order])
  <2>1. NoDup(free_lists[order]) /\ free_lists[order] \in Seq(Nat)
    BY <1>2 DEF BlocksInv, NoDup
  <2>2. ZonesEnd \notin Elems(free_lists[order])
    BY <1>8, <1>11
  <2> QED BY <2>1, <2>2, <1>1, <1>12, PushFacts, Zenon
<1>14. FreeBlocks' = FreeBlocks \cup {new}
  <2> DEFINE N == {new}
             R == {}
  <2>1. ASSUME NEW o \in Orders, NEW x \in Nat
        PROVE  x \in Elems(free_lists'[o]) <=>
                 (x \in Elems(free_lists[o]) /\ Block(x, o) \notin R) \/ Block(x, o) \in N
    <3>1. Block(x, o) = new <=> x = ZonesEnd /\ o = order
      BY DEF Block
    <3> QED BY <3>1, <1>12, <1>13
  <2>2. N \subseteq Blocks
    BY <1>6
  <2> HIDE DEF N, R
  <2>3. \A b : b \in FreeOf(free_lists') <=>
                (b \in FreeOf(free_lists) /\ b \notin R) \/ b \in N
    <3>1. Changed(free_lists, free_lists', R, N)
      BY <2>1 DEF Changed
    <3>2. free_lists \in [Orders -> Seq(Nat)] /\ free_lists' \in [Orders -> Seq(Nat)]
      BY <1>2
    <3> QED BY ONLY <3>1, <3>2, <2>2, ListsChange, Zenon
  <2>4. FreeBlocks' = FreeOf(free_lists')
    BY DEF FreeBlocks, FreeOf
  <2> QED BY <2>3, <2>4, <1>8 DEF N, R
<1> HIDE DEF new, zone
<1>15. \A o \in Orders : NoDup(free_lists'[o])
  <2>1. \A o \in Orders : NoDup(free_lists[o])
    BY <1>2 DEF BlocksInv, NoDup
  <2> QED BY <2>1, <1>12, <1>13
<1>16. Apart(FreeBlocks \cup {new})
  <2> SUFFICES ASSUME NEW x \in FreeBlocks \cup {new}, NEW y \in FreeBlocks \cup {new},
                      NEW p \in Nat, p \in BlockBytes(x), p \in BlockBytes(y)
               PROVE  x = y
    BY DEF Apart
  <2>1. CASE x \in FreeBlocks /\ y \in FreeBlocks
    BY <2>1, <1>2 DEF BlocksInv, Apart
  <2>2. p \in BlockBytes(new) => ~(p < ZonesEnd)
    BY <1>1, <1>6
  <2> QED BY <2>1, <2>2, <1>10
<1>17. \A p \in ZoneBytes(zone) : p \in BlockBytes(new)
  <2>1. zone \in ZoneSet'
    BY <1>5
  <2>2. block_size(order) \in Nat
    BY OrderNat
  <2> QED BY <2>2, <1>1, <1>4, <1>6 DEF ZoneBytes
<1>18. \A z \in ZoneSet' : \A p \in ZoneBytes(z) :
         \E b \in FreeBlocks' \cup LiveBlocks' : p \in BlockBytes(b)
  <2>1. \A z \in ZoneSet : \A p \in ZoneBytes(z) : \E b \in FreeBlocks : p \in BlockBytes(b)
    BY <1>2, <1>3 DEF BlocksInv
  <2> QED BY <2>1, <1>3, <1>5, <1>14, <1>17
<1>19. Inside(zone, new)
  <2>1. block_size(order) \in Nat /\ block_size(order) > 0 /\ order \in Nat
    BY OrderNat
  <2>2. ZonesEnd - ZonesEnd = 0 /\ 0 % block_size(order) = 0
    BY <2>1, <1>1
  <2> QED BY <2>1, <2>2, <1>1, <1>4, <1>6 DEF Inside
<1>20. \A b \in FreeBlocks' \cup LiveBlocks' : \E z \in ZoneSet' : Inside(z, b)
  BY <1>3, <1>5, <1>9, <1>14, <1>19
<1>21. NoBuddies(ZoneSet', FreeBlocks')
  <2> SUFFICES ASSUME NEW z \in ZoneSet', NEW x \in FreeBlocks', NEW y \in FreeBlocks',
                      Inside(z, x), x.order = y.order, x.order < z.order,
                      y.addr = buddy_addr(z, x.addr, x.order)
               PROVE  FALSE
    BY DEF NoBuddies
  <2>1. x \in Blocks /\ y \in Blocks /\ z \in Zones
    BY <1>2, <1>4, <1>5, <1>6, <1>8, <1>14, ZoneTyped
  <2>2. Inside(z, y)
    BY <2>1, BuddySymmetric
  <2>3. ASSUME NEW b \in Blocks, Inside(zone, b)
        PROVE  b \notin FreeBlocks
    <3>1. b.addr \in Nat /\ b.addr \in BlockBytes(b)
      BY BlockTyped
    <3>2. b.addr >= ZonesEnd
      BY <2>3, <3>1, <1>1, <1>4 DEF Inside
    <3> QED BY <3>1, <3>2, <1>1, <1>10
  <2>4. CASE z = zone
    <3>1. x = new
      BY <2>1, <2>3, <2>4, <1>14
    <3> QED BY <3>1, <2>4, <1>4, <1>6, OrderNat
  <2>5. CASE z \in ZoneSet
    <3>1. ~Inside(z, new)
      <4>1. new.addr \in BlockBytes(new)
        BY <1>6, BlockTyped
      <4> QED BY <4>1, <2>5, <1>1, <1>2, <1>6, <1>7, InsideBytes
    <3>2. x \in FreeBlocks /\ y \in FreeBlocks
      BY <3>1, <2>2, <1>14
    <3> QED BY <3>2, <2>5, <1>2 DEF BlocksInv, NoBuddies
  <2> QED BY <2>4, <2>5, <1>5
<1> QED BY <1>3, <1>14, <1>15, <1>16, <1>18, <1>20, <1>21 DEF BlocksInv, NoDup, Apart, BlockBytes, ZoneBytes, Inside, block_size

----------------------------------------------------------------------------
(* alloc keeps the invariant.                                              *)

(* What no step but init's touches.                                        *)
LEMMA ZonesStay ==
  ASSUME ZonesInv, UNCHANGED <<heap, remaining, zones, max_order, initialized>>
  PROVE  ZonesInv' /\ ZoneSet' = ZoneSet
<1>1. /\ heap' = heap /\ remaining' = remaining /\ zones' = zones
      /\ max_order' = max_order /\ initialized' = initialized
  OBVIOUS
<1>2. ZonesEnd' = ZonesEnd
  BY <1>1 DEF ZonesEnd
<1> QED BY <1>1, <1>2 DEF ZonesInv, ZoneSet, ZoneBytes, block_size

LEMMA AllocInv ==
  ASSUME BuddyInv, NEW layout \in Layouts, alloc(layout)
  PROVE  BuddyInv'
<1>1. PICK order \in Orders, from \in Orders, addr \in Nat :
        Allocated(layout, order, from, addr)
  BY AllocFacts
<1> DEFINE pop == Block(addr, from)
           new == Block(addr, order)
           H == Halves(addr, order, from)
           N == {new} \cup H
           S == FreeBlocks \cup LiveBlocks
           T == (S \ {pop}) \cup N
           a == [addr |-> addr, layout |-> layout]
<1>2. /\ order = order_for_size(layout) /\ FittingOrders(layout) # {} /\ order <= from
      /\ pop \in FreeBlocks
      /\ free_lists' \in [Orders -> Seq(Nat)] /\ \A o \in Orders : NoDup(free_lists'[o])
      /\ \A b : b \in FreeBlocks' <=> (b \in FreeBlocks /\ b # pop) \/ b \in H
      /\ live' = live \cup {a}
      /\ initialized /\ UNCHANGED <<heap, remaining, zones, max_order, initialized>>
  BY <1>1 DEF Allocated
<1>3. BuddyTypes /\ ZonesInv /\ BlocksInv
  BY DEF BuddyInv
<1>4. ZonesInv' /\ ZoneSet' = ZoneSet
  BY <1>2, <1>3, ZonesStay
<1>5. a \in [addr : Nat, layout : Layouts] /\ a.addr = addr /\ a.layout = layout
  OBVIOUS
<1>6. BuddyTypes'
  <2>1. live' \subseteq [addr : Nat, layout : Layouts]
    BY <1>2, <1>3, <1>5 DEF BuddyTypes
  <2>2. \A b \in live' : FittingOrders(b.layout) # {}
    BY <1>2, <1>3, <1>5 DEF BuddyTypes
  <2> QED BY <2>1, <2>2, <1>2, <1>3 DEF BuddyTypes
<1>7. /\ new \in Blocks /\ new.addr = addr /\ new.order = order
      /\ pop \in Blocks /\ pop.addr = addr /\ pop.order = from
  BY BlockIs
<1>8. /\ FreeBlocks \subseteq Blocks /\ LiveBlocks \subseteq Blocks
      /\ LiveBlocks = {LiveBlock(b) : b \in live}
  BY <1>3, FreeTyped, LiveTyped
<1>9. \A b : b \in LiveBlocks' <=> b \in LiveBlocks \/ b = new
  <2>1. LiveBlocks' = {LiveBlock(b) : b \in live'}
    BY DEF LiveBlocks, LiveBlock, Block
  <2>2. LiveBlock(a) = new
    BY <1>2, <1>5 DEF LiveBlock
  <2> QED BY <2>1, <2>2, <1>2, <1>8
<1>10. /\ N \subseteq Blocks /\ Apart(N) /\ new \notin H
       /\ \A p : (\E b \in N : p \in BlockBytes(b)) <=> p \in BlockBytes(pop)
  BY <1>2, SplitApart, Zenon
<1>11. /\ Apart(S) /\ FreeBlocks \cap LiveBlocks = {}
  BY <1>3 DEF BlocksInv
<1>12. PICK z \in ZoneSet : Inside(z, pop)
  BY <1>2, <1>3 DEF BlocksInv
<1>13. z \in Zones
  BY <1>3, ZoneTyped
<1>14. PICK m \in Nat : Numbered(z, pop, m)
  BY <1>7, <1>12, <1>13, OrderNat, InsideNumbered
<1>15. FreeBlocks' \cup LiveBlocks' = T
  <2>1. H \subseteq N /\ new \in N /\ \A b \in N : b = new \/ b \in H
    OBVIOUS
  <2> HIDE DEF N, H, new, pop
  <2>2. ASSUME NEW b PROVE b \in FreeBlocks' \cup LiveBlocks' <=> b \in T
    <3>1. b \in LiveBlocks => b # pop
      BY <1>2, <1>11
    <3>2. b \in T <=> ((b \in FreeBlocks \/ b \in LiveBlocks) /\ b # pop) \/ b \in N
      OBVIOUS
    <3>3. b \in N <=> b = new \/ b \in H
      BY <2>1
    <3>4. b \in FreeBlocks' <=> (b \in FreeBlocks /\ b # pop) \/ b \in H
      BY <1>2
    <3>5. b \in LiveBlocks' <=> b \in LiveBlocks \/ b = new
      BY <1>9
    <3> QED BY ONLY <3>1, <3>2, <3>3, <3>4, <3>5
  <2> QED BY <2>2
<1> HIDE DEF pop, new, H
<1>16. Apart(T) /\ (S \ {pop}) \cap N = {} /\ SameBytes(T, S)
  <2> DEFINE R == {pop}
  <2>1. S \subseteq Blocks /\ R \subseteq S
    BY <1>2, <1>8
  <2>2. SameBytes(N, R)
    BY <1>10 DEF SameBytes
  <2>3. N \subseteq Blocks /\ Apart(N) /\ Apart(S)
    BY <1>10, <1>11
  <2> HIDE DEF R, S, N
  <2>4. /\ Apart((S \ R) \cup N) /\ (S \ R) \cap N = {}
        /\ SameBytes((S \ R) \cup N, S)
    BY ONLY <2>1, <2>2, <2>3, Regroup
  <2> QED BY <2>4 DEF R
<1>17. FreeBlocks' \cap LiveBlocks' = {}
  <2> SUFFICES ASSUME NEW b, b \in FreeBlocks', b \in LiveBlocks' PROVE FALSE
    OBVIOUS
  <2>1. b # new
    <3>1. new \in N
      OBVIOUS
    <3> QED BY <3>1, <1>2, <1>10, <1>16
  <2>2. b \in LiveBlocks
    BY <2>1, <1>9
  <2>3. b \in H
    BY <2>2, <1>2, <1>11
  <2> QED BY <2>2, <2>3, <1>2, <1>11, <1>16
<1>18. \A b, c \in live' : b.addr = c.addr => b = c
  <2>1. \A b, c \in live : b.addr = c.addr => b = c
    BY <1>3 DEF BlocksInv
  <2>2. \A b \in live : b.addr # addr
    <3> SUFFICES ASSUME NEW b \in live, b.addr = addr PROVE FALSE
      OBVIOUS
    <3>1. LiveBlock(b) \in LiveBlocks /\ addr \in BlockBytes(LiveBlock(b))
      BY <1>3, LiveTyped
    <3>2. addr \in BlockBytes(pop)
      BY <1>7, BlockTyped
    <3>3. LiveBlock(b) = pop
      BY <3>1, <3>2, <1>2, <1>11 DEF Apart
    <3> QED BY <3>1, <3>3, <1>2, <1>11
  <2> QED BY <2>1, <2>2, <1>2, <1>5
<1>19. \A o \in Orders : order <= o /\ o <= from => \E n \in Nat : Numbered(z, Block(addr, o), n)
  BY <1>13, <1>14, FirstPiece DEF pop
<1>20. \A b \in H : Inside(z, b) /\ b.order < z.order /\ buddy_addr(z, b.addr, b.order) = addr
  <2> SUFFICES ASSUME NEW o \in order..(from - 1)
               PROVE  LET b == Block(addr + block_size(o), o)
                      IN  Inside(z, b) /\ b.order < z.order
                          /\ buddy_addr(z, b.addr, b.order) = addr
    BY DEF H, Halves
  <2>1. o \in Orders /\ o \in Nat /\ order <= o /\ o < from /\ o + 1 \in Nat /\ o + 1 <= from
    BY HalfOrders
  <2>2. o + 1 \in Orders
    BY <2>1, BuddyAssumption DEF Orders
  <2>3. order \in Nat /\ from \in Nat /\ z.order \in Nat
    BY <1>13, OrderNat DEF Zones
  <2>4. PICK n \in Nat : Numbered(z, Block(addr, o + 1), n)
    BY <2>1, <2>2, <2>3, <1>19
  <2>5. LET b == Block(addr + block_size(o), o)
        IN  Inside(z, b) /\ buddy_addr(z, b.addr, o) = addr
    BY <2>1, <2>2, <2>4, <1>13, UpperHalf
  <2>6. from <= z.order
    BY <1>7, <1>12 DEF Inside
  <2>7. o < z.order
    BY <2>1, <2>3, <2>6
  <2>8. Block(addr + block_size(o), o).order = o
    BY DEF Block
  <2> QED BY <2>5, <2>7, <2>8
<1>21. Inside(z, new)
  <2>1. PICK n \in Nat : Numbered(z, new, n)
    BY <1>2, <1>19, OrderNat DEF new
  <2> QED BY <2>1, <1>7, <1>13, OrderNat, NumberedInside
<1>22. \A b \in T : \E y \in ZoneSet : Inside(y, b)
  <2>1. \A b \in S : \E y \in ZoneSet : Inside(y, b)
    BY <1>3 DEF BlocksInv
  <2> QED BY <2>1, <1>20, <1>21
<1>23. NoBuddies(ZoneSet', FreeBlocks')
  <2>1. ASSUME NEW y \in ZoneSet, NEW b \in H, Inside(y, b), NEW c \in FreeBlocks',
               c.order = b.order, c.addr = buddy_addr(y, b.addr, b.order)
        PROVE  FALSE
    <3>1. b \in Blocks /\ c \in Blocks
      BY <1>2, <1>8, <1>10
    <3>2. y = z
      BY <2>1, <3>1, <1>3, <1>20, OneZone
    <3>3. c.addr = addr
      BY <2>1, <3>2, <1>20
    <3>4. addr \in BlockBytes(c) /\ addr \in BlockBytes(new)
      BY <3>1, <3>3, <1>7, BlockTyped
    <3>5. c \in T /\ new \in T
      BY <1>15
    <3>6. c = new
      BY <3>4, <3>5, <1>16 DEF Apart
    <3> QED BY <3>6, <1>9, <1>17
  <2> SUFFICES ASSUME NEW y \in ZoneSet, NEW b \in FreeBlocks', NEW c \in FreeBlocks',
                      Inside(y, b), b.order = c.order, b.order < y.order,
                      c.addr = buddy_addr(y, b.addr, b.order)
               PROVE  FALSE
    BY <1>4 DEF NoBuddies
  <2>2. b \in Blocks /\ c \in Blocks /\ y \in Zones
    BY <1>2, <1>3, <1>8, <1>10, ZoneTyped
  <2>3. Inside(y, c) /\ b.addr = buddy_addr(y, c.addr, c.order)
    BY <2>2, BuddySymmetric
  <2>4. b \notin H
    BY <2>1
  <2>5. c \notin H
    BY <2>1, <2>3, Zenon
  <2>6. b \in FreeBlocks /\ c \in FreeBlocks
    BY <2>4, <2>5, <1>2
  <2> QED BY <2>6, <1>3 DEF BlocksInv, NoBuddies
<1>24. \A y \in ZoneSet : \A p \in ZoneBytes(y) : \E b \in T : p \in BlockBytes(b)
  BY <1>3, <1>16 DEF BlocksInv, SameBytes
<1>25. BlocksInv'
  <2> HIDE DEF T
  <2>1. Apart(FreeBlocks' \cup LiveBlocks')
    BY <1>15, <1>16
  <2>2. \A y \in ZoneSet' : \A p \in ZoneBytes(y) :
          \E b \in FreeBlocks' \cup LiveBlocks' : p \in BlockBytes(b)
    BY <1>4, <1>15, <1>24
  <2>3. \A b \in FreeBlocks' \cup LiveBlocks' : \E y \in ZoneSet' : Inside(y, b)
    BY <1>4, <1>15, <1>22
  <2> QED BY <2>1, <2>2, <2>3, <1>2, <1>17, <1>18, <1>23
          DEF BlocksInv, NoDup, Apart, BlockBytes, ZoneBytes, Inside, block_size
<1> QED BY <1>4, <1>6, <1>25 DEF BuddyInv

----------------------------------------------------------------------------
(* dealloc keeps the invariant.                                            *)

LEMMA DeallocInv ==
  ASSUME BuddyInv, NEW a \in live, dealloc(a)
  PROVE  BuddyInv'
<1>1. PICK z, order, top : Freed(a, z, order, top)
  BY DeallocFacts
<1> DEFINE old == Block(a.addr, order)
           new == Block(Enclosing(z, a.addr, top), top)
           B == Buddies(z, a.addr, order, top)
           R == {old} \cup B
           N == {new}
           S == FreeBlocks \cup LiveBlocks
           T == (S \ R) \cup N
<1>2. /\ z \in ZoneSet /\ order \in Orders /\ top \in Orders /\ order <= top /\ top <= z.order
      /\ old = LiveBlock(a) /\ Inside(z, old)
      /\ top = z.order \/ Block(Buddy(z, a.addr, top), top) \notin FreeBlocks
      /\ B \subseteq FreeBlocks /\ new \in Blocks /\ Inside(z, new) /\ a.addr \in BlockBytes(new)
      /\ free_lists' \in [Orders -> Seq(Nat)] /\ \A o \in Orders : NoDup(free_lists'[o])
      /\ \A b : b \in FreeBlocks' <=> (b \in FreeBlocks /\ b \notin B) \/ b = new
      /\ live' = live \ {a} /\ UNCHANGED <<heap, remaining, zones, max_order, initialized>>
  BY <1>1 DEF Freed
<1>3. BuddyTypes /\ ZonesInv /\ BlocksInv
  BY DEF BuddyInv
<1>4. ZonesInv' /\ ZoneSet' = ZoneSet
  BY <1>2, <1>3, ZonesStay
<1>5. BuddyTypes'
  <2>1. live' \subseteq [addr : Nat, layout : Layouts] /\ \A b \in live' : FittingOrders(b.layout) # {}
    BY <1>2, <1>3 DEF BuddyTypes
  <2>2. initialized
    BY <1>3 DEF BuddyTypes
  <2> QED BY <2>1, <2>2, <1>2, <1>3 DEF BuddyTypes
<1>6. /\ FreeBlocks \subseteq Blocks /\ LiveBlocks \subseteq Blocks
      /\ LiveBlocks = {LiveBlock(b) : b \in live} /\ a.addr \in Nat
      /\ \A b \in live : LiveBlock(b).addr = b.addr
      /\ old \in LiveBlocks
  BY <1>2, <1>3, FreeTyped, LiveTyped
<1>7. z \in Zones /\ z.base <= a.addr /\ a.addr < z.base + block_size(z.order)
  <2>1. a.addr \in ZoneBytes(z) /\ z \in Zones
    BY <1>2, <1>3, <1>6, InsideBytes, ZoneTyped
  <2> QED BY <2>1, <1>2, <1>3, ZoneTyped
<1>8. \A b, c \in live : b.addr = c.addr => b = c
  BY <1>3 DEF BlocksInv
<1>9. \A b : b \in LiveBlocks' <=> b \in LiveBlocks /\ b # old
  <2>1. LiveBlocks' = {LiveBlock(b) : b \in live'}
    BY DEF LiveBlocks, LiveBlock, Block
  <2>2. \A b \in live : LiveBlock(b) = old => b = a
    BY <1>2, <1>6, <1>8
  <2> HIDE DEF old
  <2>3. \A b \in LiveBlocks' : b \in LiveBlocks /\ b # old
    BY <2>1, <2>2, <1>2, <1>6
  <2>4. \A b \in LiveBlocks : b # old => b \in LiveBlocks'
    BY <2>1, <1>2, <1>6
  <2> QED BY <2>3, <2>4
<1>10. PICK m \in Nat : Numbered(z, old, m)
  <2>1. old.addr \in Nat /\ old.order \in Nat
    BY <1>6, BlockTyped
  <2> QED BY <2>1, <1>2, <1>7, InsideNumbered
<1>11. \A p : p \in BlockBytes(new) <=> \E b \in R : p \in BlockBytes(b)
  BY <1>2, <1>6, <1>7, <1>10, MergeCovers
<1>12. Apart(S) /\ FreeBlocks \cap LiveBlocks = {}
  BY <1>3, Zenon DEF BlocksInv
<1>13. new.addr = Enclosing(z, a.addr, top) /\ new.order = top /\ top \in Nat /\ z.order \in Nat
  BY <1>2, <1>3, ZoneTyped, OrderNat, Zenon DEF Block
<1>14. top < z.order =>
         \A c \in FreeBlocks' : c.order = top => c.addr # Buddy(z, a.addr, top)
  <2> SUFFICES ASSUME top < z.order, NEW c \in FreeBlocks', c.order = top,
                      c.addr = Buddy(z, a.addr, top)
               PROVE  FALSE
    OBVIOUS
  <2>1. Buddy(z, a.addr, top) # Enclosing(z, a.addr, top)
    BY <1>2, <1>6, <1>7, PairOfBuddies
  <2>2. c # new
    BY <2>1, <1>13
  <2>3. c \in FreeBlocks /\ c \in Blocks
    BY <2>2, <1>2, <1>6
  <2>4. c = Block(Buddy(z, a.addr, top), top)
    BY <2>3, BlockTyped
  <2>5. top # z.order
    BY <1>13
  <2>6. top = z.order \/ Block(Buddy(z, a.addr, top), top) \notin FreeBlocks
    BY <1>2
  <2> QED BY <2>3, <2>4, <2>5, <2>6
<1>15. Buddy(z, a.addr, top) = buddy_addr(z, new.addr, new.order)
  BY <1>13 DEF Buddy
<1> HIDE DEF old, new, B
<1>16. FreeBlocks' \cup LiveBlocks' = T
  <2>1. ASSUME NEW b PROVE b \in FreeBlocks' \cup LiveBlocks' <=> b \in T
    <3>1. /\ b \in FreeBlocks => b # old
          /\ b \in LiveBlocks => b \notin B
      BY <1>2, <1>6, <1>12
    <3>2. b \in T <=> ((b \in FreeBlocks \/ b \in LiveBlocks) /\ b # old /\ b \notin B) \/ b = new
      OBVIOUS
    <3>3. b \in FreeBlocks' <=> (b \in FreeBlocks /\ b \notin B) \/ b = new
      BY <1>2
    <3>4. b \in LiveBlocks' <=> b \in LiveBlocks /\ b # old
      BY <1>9
    <3> HIDE DEF T
    <3> QED BY <3>1, <3>2, <3>3, <3>4
  <2> QED BY <2>1
<1>17. Apart(T) /\ (S \ R) \cap N = {} /\ SameBytes(T, S)
  <2>1. S \subseteq Blocks /\ R \subseteq S
    BY <1>2, <1>6
  <2>2. SameBytes(N, R)
    BY <1>11 DEF SameBytes
  <2>3. N \subseteq Blocks /\ Apart(N) /\ Apart(S)
    BY <1>2, <1>12 DEF Apart
  <2> HIDE DEF R, S, N
  <2> QED BY ONLY <2>1, <2>2, <2>3, Regroup
<1>18. FreeBlocks' \cap LiveBlocks' = {}
  <2> SUFFICES ASSUME NEW b, b \in FreeBlocks', b \in LiveBlocks' PROVE FALSE
    OBVIOUS
  <2>1. b \in LiveBlocks /\ b # old
    BY <1>9
  <2>2. b = new
    BY <2>1, <1>2, <1>12
  <2>3. b \in S /\ b \notin R
    BY <2>1, <1>2, <1>12
  <2> QED BY <2>2, <2>3, <1>17
<1>19. \A b, c \in live' : b.addr = c.addr => b = c
  BY <1>2, <1>8
<1>20. \A b \in T : \E y \in ZoneSet : Inside(y, b)
  <2>1. \A b \in S : \E y \in ZoneSet : Inside(y, b)
    BY <1>3 DEF BlocksInv
  <2> QED BY <2>1, <1>2
<1>21. NoBuddies(ZoneSet', FreeBlocks')
  <2>1. ASSUME NEW y \in ZoneSet, Inside(y, new), new.order < y.order, NEW c \in FreeBlocks',
               c.order = new.order, c.addr = buddy_addr(y, new.addr, new.order)
        PROVE  FALSE
    <3>1. y = z
      BY <2>1, <1>2, <1>3, OneZone
    <3> QED BY <3>1, <2>1, <1>13, <1>14, <1>15
  <2> SUFFICES ASSUME NEW y \in ZoneSet, NEW b \in FreeBlocks', NEW c \in FreeBlocks',
                      Inside(y, b), b.order = c.order, b.order < y.order,
                      c.addr = buddy_addr(y, b.addr, b.order)
               PROVE  FALSE
    BY <1>4 DEF NoBuddies
  <2>2. b \in Blocks /\ c \in Blocks /\ y \in Zones
    BY <1>2, <1>3, <1>6, ZoneTyped
  <2>3. Inside(y, c) /\ b.addr = buddy_addr(y, c.addr, c.order)
    BY <2>2, BuddySymmetric
  <2>4. b # new
    BY <2>1
  <2>5. c # new
    BY <2>1, <2>3, Zenon
  <2>6. b \in FreeBlocks /\ c \in FreeBlocks
    BY <2>4, <2>5, <1>2
  <2> QED BY <2>6, <1>3 DEF BlocksInv, NoBuddies
<1>22. \A y \in ZoneSet : \A p \in ZoneBytes(y) : \E b \in T : p \in BlockBytes(b)
  BY <1>3, <1>17 DEF BlocksInv, SameBytes
<1>23. BlocksInv'
  <2> HIDE DEF T
  <2>1. Apart(FreeBlocks' \cup LiveBlocks')
    BY <1>16, <1>17
  <2>2. \A y \in ZoneSet' : \A p \in ZoneBytes(y) :
          \E b \in FreeBlocks' \cup LiveBlocks' : p \in BlockBytes(b)
    BY <1>4, <1>16, <1>22
  <2>3. \A b \in FreeBlocks' \cup LiveBlocks' : \E y \in ZoneSet' : Inside(y, b)
    BY <1>4, <1>16, <1>20
  <2> QED BY <2>1, <2>2, <2>3, <1>2, <1>18, <1>19, <1>21
          DEF BlocksInv, NoDup, Apart, BlockBytes, ZoneBytes, Inside, block_size
<1> QED BY <1>4, <1>5, <1>23 DEF BuddyInv

----------------------------------------------------------------------------
LEMMA InitDoneInv ==
  ASSUME BuddyInv, InitDone
  PROVE  BuddyInv'
<1>1. BuddyTypes /\ ZonesInv /\ BlocksInv
  BY DEF BuddyInv
<1>2. /\ remaining < block_size(MIN_ORDER) /\ initialized' = TRUE
      /\ heap' = heap /\ remaining' = remaining /\ zones' = zones /\ max_order' = max_order
      /\ free_lists' = free_lists /\ live' = live
  BY DEF InitDone
<1>3. BuddyTypes'
  BY <1>1, <1>2 DEF BuddyTypes
<1>4. ZonesEnd' = ZonesEnd /\ ZoneSet' = ZoneSet
      /\ FreeBlocks' = FreeBlocks /\ LiveBlocks' = LiveBlocks
  BY <1>2 DEF ZonesEnd, ZoneSet, FreeBlocks, LiveBlocks
<1>5. ZonesInv'
  BY <1>1, <1>2, <1>4 DEF ZonesInv, ZoneBytes, block_size
<1>6. NoBuddies(ZoneSet', FreeBlocks')
  BY <1>1, <1>4 DEF BlocksInv
<1>7. BlocksInv'
  BY <1>1, <1>2, <1>4, <1>6 DEF BlocksInv, Apart, BlockBytes, ZoneBytes, Inside, block_size
<1> QED BY <1>3, <1>5, <1>7 DEF BuddyInv

LEMMA StepInv ==
  ASSUME BuddyInv, [BuddyNext]_buddy_vars
  PROVE  BuddyInv'
<1>1. CASE AddZone
  BY <1>1, AddZoneZones, AddZoneBlocks DEF BuddyInv
<1>2. CASE InitDone
  BY <1>2, InitDoneInv
<1>3. ASSUME NEW layout \in Layouts, alloc(layout) PROVE BuddyInv'
  BY <1>3, AllocInv
<1>4. ASSUME NEW a \in live, dealloc(a) PROVE BuddyInv'
  BY <1>4, DeallocInv
<1>5. CASE UNCHANGED buddy_vars
  <2>1. /\ heap' = heap /\ remaining' = remaining /\ zones' = zones /\ max_order' = max_order
        /\ free_lists' = free_lists /\ live' = live /\ initialized' = initialized
    BY <1>5 DEF buddy_vars
  <2>2. BuddyTypes'
    BY <2>1 DEF BuddyInv, BuddyTypes
  <2>3. ZonesInv' /\ ZoneSet' = ZoneSet
    BY <2>1, ZonesStay DEF BuddyInv
  <2>4. FreeBlocks' = FreeBlocks /\ LiveBlocks' = LiveBlocks
    BY <2>1 DEF FreeBlocks, LiveBlocks
  <2>5. NoBuddies(ZoneSet', FreeBlocks')
    BY <2>3, <2>4 DEF BuddyInv, BlocksInv
  <2>6. BlocksInv'
    BY <2>1, <2>3, <2>4, <2>5, Zenon
       DEF BuddyInv, BlocksInv, Apart, BlockBytes, ZoneBytes, Inside, block_size
  <2> QED BY <2>2, <2>3, <2>6 DEF BuddyInv
<1> QED BY <1>1, <1>2, <1>3, <1>4, <1>5 DEF BuddyNext

----------------------------------------------------------------------------
(* The theorems.                                                           *)

(* The inductive invariant: every step of init, alloc and dealloc keeps    *)
(* zones and blocks as BuddyInv describes them, for every heap, every      *)
(* range of orders and every sequence of calls.                            *)
THEOREM BuddyInvariant == BuddySpec => []BuddyInv
<1>1. BuddyInit => BuddyInv
  BY InitInv
<1>2. BuddyInv /\ [BuddyNext]_buddy_vars => BuddyInv'
  BY StepInv
<1> QED BY <1>1, <1>2, PTL DEF BuddySpec

LEMMA InvTile == BuddyInv => ZonesTileHeap
<1> SUFFICES ASSUME BuddyInv, initialized PROVE ZonesTileHeap
  BY Zenon DEF ZonesTileHeap
<1>1. BuddyTypes /\ ZonesInv
  BY DEF BuddyInv
<1>2. \A z \in ZoneSet : z.base % block_size(z.order) = 0 /\ z.order <= max_order
  BY <1>1, Zenon DEF ZonesInv, ZoneSet
<1>3. ASSUME NEW i \in 1..Len(zones), NEW j \in 1..Len(zones), i # j,
             NEW p, p \in ZoneBytes(zones[i]), p \in ZoneBytes(zones[j])
      PROVE  FALSE
  <2>1. zones[i] \in ZoneSet /\ zones[j] \in ZoneSet
    BY DEF ZoneSet
  <2>2. zones[i] = zones[j]
    BY <2>1, <1>1, <1>3, ZonesApart
  <2>3. zones[i].base \in Nat /\ block_size(zones[i].order) \in Nat /\ block_size(zones[i].order) > 0
    BY <2>1, <1>1, ZoneTyped
  <2>4. i < j => zones[i].base + block_size(zones[i].order) <= zones[j].base
    BY <1>1 DEF ZonesInv
  <2>5. j < i => zones[j].base + block_size(zones[j].order) <= zones[i].base
    BY <1>1 DEF ZonesInv
  <2> QED BY <1>3, <2>2, <2>3, <2>4, <2>5
<1>4. UNION {ZoneBytes(z) : z \in ZoneSet} = heap.start..(ZonesEnd - 1)
  <2>1. heap.start \in Nat /\ ZonesEnd \in Nat
    <3>1. heap.start \in Nat /\ heap.size \in Nat /\ remaining \in 0..heap.size
      BY <1>1, HeapTyped DEF BuddyTypes
    <3> QED BY <3>1 DEF ZonesEnd
  <2>2. ASSUME NEW z \in ZoneSet, NEW p \in ZoneBytes(z) PROVE p \in heap.start..(ZonesEnd - 1)
    <3>1. /\ p \in Nat /\ z.base <= p /\ p < z.base + block_size(z.order)
          /\ z.base \in Nat /\ block_size(z.order) \in Nat
      BY <1>1, ZoneTyped
    <3>2. heap.start <= z.base /\ z.base + block_size(z.order) <= ZonesEnd
      BY <1>1 DEF ZonesInv, ZoneSet
    <3> QED BY ONLY <2>1, <3>1, <3>2
  <2>3. ASSUME NEW p \in heap.start..(ZonesEnd - 1)
        PROVE  p \in UNION {ZoneBytes(z) : z \in ZoneSet}
    <3>1. PICK i \in 1..Len(zones) : p \in ZoneBytes(zones[i])
      BY <1>1 DEF ZonesInv
    <3>2. zones[i] \in ZoneSet
      BY DEF ZoneSet
    <3> QED BY <3>1, <3>2
  <2> QED BY <2>2, <2>3
<1>5. remaining < block_size(MIN_ORDER)
  BY <1>1 DEF ZonesInv
<1>6. \A i, j \in 1..Len(zones) : i # j => ZoneBytes(zones[i]) \cap ZoneBytes(zones[j]) = {}
  BY <1>3, Zenon
<1>7. UNION {ZoneBytes(z) : z \in ZoneSet}
        = heap.start..(heap.start + heap.size - remaining - 1)
  <2>1. heap.start \in Nat /\ heap.size \in Nat /\ remaining \in 0..heap.size
    BY <1>1, HeapTyped DEF BuddyTypes
  <2>2. \A p : p \in heap.start..(ZonesEnd - 1) <=>
              p \in heap.start..(heap.start + heap.size - remaining - 1)
    BY <2>1 DEF ZonesEnd
  <2> QED BY <1>4, <2>2
<1> QED BY <1>2, <1>5, <1>6, <1>7, Zenon DEF ZonesTileHeap

(* init divides the heap into zones aligned to their size, without overlap *)
(* and without leaving out as much as one minimum block: whatever the      *)
(* range it is given and whatever the orders.                              *)
THEOREM HeapTiled == BuddySpec => []ZonesTileHeap
BY BuddyInvariant, InvTile, PTL

LEMMA InvPartition == BuddyInv => ZonesPartitioned
<1> SUFFICES ASSUME BuddyInv PROVE ZonesPartitioned
  OBVIOUS
<1> DEFINE S == FreeBlocks \cup LiveBlocks
<1>1. BuddyTypes /\ ZonesInv /\ BlocksInv
  BY DEF BuddyInv
<1>2. S \subseteq Blocks
  BY <1>1, FreeTyped, LiveTyped
<1>3. \A x, y \in S : x # y => BlockBytes(x) \cap BlockBytes(y) = {}
  <2>1. \A x \in S : \A p \in BlockBytes(x) : p \in Nat
    BY <1>2, BlockTyped
  <2> QED BY <2>1, <1>1 DEF BlocksInv, Apart
<1>4. \A b \in S : \E z \in ZoneSet : Inside(z, b)
  BY <1>1 DEF BlocksInv
<1>5. \A b \in S : \E z \in ZoneSet :
        /\ BlockBytes(b) \subseteq ZoneBytes(z)
        /\ (b.addr - z.base) % block_size(b.order) = 0
  <2> SUFFICES ASSUME NEW b \in S
               PROVE  \E z \in ZoneSet : /\ BlockBytes(b) \subseteq ZoneBytes(z)
                                         /\ (b.addr - z.base) % block_size(b.order) = 0
    OBVIOUS
  <2>1. PICK z \in ZoneSet : Inside(z, b)
    BY <1>4
  <2>2. BlockBytes(b) \subseteq ZoneBytes(z)
    BY <2>1, <1>1, <1>2, InsideBytes
  <2> QED BY <2>1, <2>2 DEF Inside
<1>6. UNION {BlockBytes(b) : b \in S} = UNION {ZoneBytes(z) : z \in ZoneSet}
  <2>1. \A b \in S : \A p \in BlockBytes(b) : p \in UNION {ZoneBytes(z) : z \in ZoneSet}
    BY <1>5
  <2>2. \A z \in ZoneSet : \A p \in ZoneBytes(z) : p \in UNION {BlockBytes(b) : b \in S}
    BY <1>1 DEF BlocksInv
  <2> QED BY <2>1, <2>2
<1>7. /\ FreeBlocks \cap LiveBlocks = {}
      /\ \A o \in Orders : \A i, j \in 1..Len(free_lists[o]) :
           free_lists[o][i] = free_lists[o][j] => i = j
  BY <1>1 DEF BlocksInv
<1> QED BY <1>3, <1>5, <1>6, <1>7 DEF ZonesPartitioned

(* Every byte of a zone is always in exactly one block, free or live, and  *)
(* no block is listed twice: alloc's splits and dealloc's merges never     *)
(* lose memory, hand it out twice or cross into another zone.              *)
THEOREM BlocksPartition == BuddySpec => []ZonesPartitioned
BY BuddyInvariant, InvPartition, PTL

(* With nothing live, every free block is its zone.                        *)
LEMMA WholeZones ==
  ASSUME BuddyInv, live = {}, NEW b \in FreeBlocks, NEW z \in ZoneSet, Inside(z, b)
  PROVE  b.order = z.order
<1> DEFINE S == {n \in Nat : \E y \in ZoneSet, c \in FreeBlocks :
                   Inside(y, c) /\ c.order = n /\ n < y.order}
<1>1. BuddyTypes /\ ZonesInv /\ BlocksInv /\ LiveBlocks = {}
  BY DEF BuddyInv, LiveBlocks
<1>2. FreeBlocks \subseteq Blocks
  BY <1>1, FreeTyped
<1>3. S = {}
  <2> SUFFICES ASSUME S # {} PROVE FALSE
    OBVIOUS
  <2>1. PICK n \in S : \A i \in S : n <= i
    BY Least, Zenon
  <2>2. PICK y \in ZoneSet, c \in FreeBlocks : Inside(y, c) /\ c.order = n /\ n < y.order
    BY <2>1
  <2>3. /\ y \in Zones /\ c \in Blocks /\ c.addr \in Nat /\ n \in Orders /\ n \in Nat
        /\ c = Block(c.addr, n)
    BY <2>2, <1>1, <1>2, ZoneTyped, BlockTyped
  <2>4. PICK m \in Nat : Numbered(y, c, m)
    BY <2>2, <2>3, InsideNumbered
  <2>5. /\ Enclosing(y, c.addr, n) = c.addr
        /\ y.base <= c.addr /\ c.addr < y.base + block_size(y.order)
    BY <2>3, <2>4, EnclosingSelf
  <2> DEFINE g == Buddy(y, c.addr, n)
             e == Block(Enclosing(y, c.addr, n + 1), n + 1)
  <2>6. /\ g = buddy_addr(y, c.addr, n)
        /\ n + 1 \in Orders /\ n + 1 <= y.order /\ g \in Nat /\ Flip(EncNum(y, c.addr, n)) \in Nat
        /\ Numbered(y, Block(g, n), Flip(EncNum(y, c.addr, n)))
        /\ \A p : p \in BlockBytes(e) <=> p \in BlockBytes(c) \/ p \in BlockBytes(Block(g, n))
    <3>1. n < y.order
      BY <2>2
    <3>2. /\ n + 1 \in Orders /\ n + 1 <= y.order /\ g \in Nat
          /\ Flip(EncNum(y, c.addr, n)) \in Nat
          /\ Numbered(y, Block(g, n), Flip(EncNum(y, c.addr, n)))
          /\ \A p : p \in BlockBytes(e) <=>
                      \/ p \in BlockBytes(Block(Enclosing(y, c.addr, n), n))
                      \/ p \in BlockBytes(Block(g, n))
      BY <3>1, <2>3, <2>5, PairOfBuddies
    <3>3. Block(Enclosing(y, c.addr, n), n) = c
      BY <2>3, <2>5
    <3>4. g = buddy_addr(y, c.addr, n)
      BY <2>5 DEF Buddy
    <3> HIDE DEF g, e
    <3> QED BY <3>2, <3>3, <3>4
  <2>7. /\ EncNum(y, c.addr, n + 1) \in Nat /\ Enclosing(y, c.addr, n + 1) \in Nat
        /\ Numbered(y, e, EncNum(y, c.addr, n + 1))
    BY <2>3, <2>5, <2>6, EnclosingNumbered
  <2>8. e \in Blocks /\ e.order = n + 1 /\ Inside(y, e)
    <3>1. e \in Blocks /\ e.order = n + 1
      BY <2>6, <2>7, BlockIs
    <3> QED BY <3>1, <2>3, <2>7, NumberedInside
  <2> DEFINE h == Block(g, n)
  <2>9. h \in Blocks /\ h.addr = g /\ h.order = n /\ Inside(y, h) /\ g \in BlockBytes(h)
    <3>1. h \in Blocks /\ h.addr = g /\ h.order = n
      BY <2>3, <2>6, BlockIs
    <3> QED BY <3>1, <2>3, <2>6, NumberedInside, BlockTyped
  <2> HIDE DEF e, h, g
  <2>10. g \in ZoneBytes(y)
    BY <2>9, <1>1, InsideBytes
  <2>11. PICK f \in FreeBlocks : g \in BlockBytes(f)
    BY <2>10, <1>1 DEF BlocksInv
  <2>12. f \in Blocks /\ f.order \in Nat /\ f.addr \in Nat
    BY <1>2, BlockTyped
  <2>13. Inside(y, f)
    <3>1. PICK x \in ZoneSet : Inside(x, f)
      BY <1>1, Zenon DEF BlocksInv
    <3>2. g \in ZoneBytes(x)
      BY <3>1, <2>11, <2>12, <1>1, InsideBytes
    <3> QED BY <3>1, <3>2, <2>10, <1>1, ZonesApart
  <2>14. CASE f.order < n
    <3>1. f.order < y.order
      BY <2>2, <2>3, <2>12, <2>14, <1>1, ZoneTyped
    <3>2. f.order \in S
      BY <3>1, <2>12, <2>13
    <3> QED BY <3>2, <2>1, <2>3, <2>12, <2>14
  <2>15. CASE f.order = n
    <3>1. f.addr \in BlockBytes(h)
      BY <2>3, <2>9, <2>11, <2>12, <2>13, <2>15, Nested, BlockTyped
    <3>2. h.addr <= f.addr /\ f.addr <= h.addr
      BY <3>1, <2>9, <2>11, <2>12, BlockTyped
    <3>3. f.addr = g
      BY <3>2, <2>6, <2>9, <2>12
    <3>4. f.addr = buddy_addr(y, c.addr, c.order)
      BY <3>3, <2>2, <2>6
    <3>5. NoBuddies(ZoneSet, FreeBlocks)
      BY <1>1 DEF BlocksInv
    <3> QED BY <3>4, <3>5, <2>2, <2>15 DEF NoBuddies
  <2>16. CASE n < f.order
    <3>1. e.order <= f.order
      BY <2>3, <2>8, <2>12, <2>16
    <3>2. g \in BlockBytes(e) /\ c.addr \in BlockBytes(e)
      BY <2>3, <2>6, <2>9, BlockTyped DEF h
    <3>3. c.addr \in BlockBytes(f)
      BY <3>1, <3>2, <2>3, <2>8, <2>11, <2>12, <2>13, Nested
    <3>4. c.addr \in BlockBytes(c)
      BY <2>3, BlockTyped
    <3>5. f = c
      BY <3>3, <3>4, <2>3, <1>1 DEF BlocksInv, Apart
    <3> QED BY <3>5, <2>2, <2>3, <2>16
  <2> QED BY <2>3, <2>12, <2>14, <2>15, <2>16
<1>4. b.order \in Nat /\ z.order \in Nat /\ b.order <= z.order
  BY <1>1, <1>2, ZoneTyped, BlockTyped DEF Inside
<1> QED BY <1>3, <1>4

LEMMA InvCoalesced == BuddyInv => FullyCoalesced
<1> SUFFICES ASSUME BuddyInv PROVE FullyCoalesced
  OBVIOUS
<1>1. BuddyTypes /\ ZonesInv /\ BlocksInv
  BY DEF BuddyInv
<1>2. FreeBlocks \subseteq Blocks
  BY <1>1, FreeTyped
<1>3. \A b \in FreeBlocks : \E z \in ZoneSet : Inside(z, b)
  BY <1>1 DEF BlocksInv
<1>4. ASSUME NEW z \in ZoneSet, NEW x \in FreeBlocks, NEW y \in FreeBlocks,
             BlockBytes(x) \subseteq ZoneBytes(z), x.order = y.order, x.order < z.order
      PROVE  y.addr # buddy_addr(z, x.addr, x.order)
  <2>1. PICK w \in ZoneSet : Inside(w, x)
    BY <1>3
  <2>2. x.addr \in ZoneBytes(w) /\ x.addr \in ZoneBytes(z)
    BY <2>1, <1>1, <1>2, <1>4, InsideBytes, BlockTyped
  <2>3. w = z
    BY <2>2, <1>1, ZonesApart
  <2> QED BY <2>1, <2>3, <1>1, <1>4 DEF BlocksInv, NoBuddies
<1>5. ASSUME live = {}
      PROVE  FreeBlocks = {[addr |-> z.base, order |-> z.order] : z \in ZoneSet}
  <2>1. ASSUME NEW b \in FreeBlocks, NEW z \in ZoneSet, Inside(z, b)
        PROVE  b = [addr |-> z.base, order |-> z.order]
    <3>1. b.order = z.order
      BY <2>1, <1>5, WholeZones
    <3>2. /\ b.addr \in Nat /\ z.base \in Nat /\ block_size(z.order) \in Nat
          /\ b = Block(b.addr, b.order)
      BY <1>1, <1>2, ZoneTyped, BlockTyped
    <3>3. z.base <= b.addr /\ b.addr + block_size(z.order) <= z.base + block_size(z.order)
      BY <2>1, <3>1 DEF Inside
    <3>4. b.addr = z.base
      BY <3>2, <3>3
    <3> QED BY <3>1, <3>2, <3>4 DEF Block
  <2>2. ASSUME NEW z \in ZoneSet
        PROVE  [addr |-> z.base, order |-> z.order] \in FreeBlocks
    <3>1. z.base \in ZoneBytes(z)
      BY <1>1, ZoneTyped
    <3>2. LiveBlocks = {}
      BY <1>5 DEF LiveBlocks
    <3>3. PICK b \in FreeBlocks : z.base \in BlockBytes(b)
      BY <3>1, <3>2, <1>1 DEF BlocksInv
    <3>4. PICK y \in ZoneSet : Inside(y, b)
      BY <1>3
    <3>5. y = z
      BY <3>1, <3>3, <3>4, <1>1, <1>2, InsideBytes, ZonesApart
    <3> QED BY <3>4, <3>5, <2>1
  <2> QED BY <2>1, <2>2, <1>3
<1> QED BY <1>4, <1>5 DEF FullyCoalesced

(* dealloc merges as far as it can and alloc splits no more than it must,  *)
(* so that two buddies are never both free; after everything is freed,     *)
(* every zone is one free block again.                                     *)
THEOREM FreeBlocksCoalesced == BuddySpec => []FullyCoalesced
BY BuddyInvariant, InvCoalesced, PTL

----------------------------------------------------------------------------
(* The allocator implements the heap its users are promised.               *)

LEMMA InitMaps == BuddyInit => Promise!HeapInit
<1> SUFFICES ASSUME BuddyInit PROVE Promise!HeapInit
  OBVIOUS
<1>1. zones = <<>> /\ live = {}
  BY DEF BuddyInit
<1>2. ZoneSet = {}
  BY <1>1 DEF ZoneSet
<1>3. UNION {ZoneBytes(z) : z \in ZoneSet} = {}
  BY <1>2
<1> QED BY <1>1, <1>3 DEF Promise!HeapInit

LEMMA AddZoneMaps ==
  ASSUME BuddyInv, AddZone
  PROVE  \E lo, hi \in AllBytes : Promise!Grow(lo..hi)
<1>1. PICK order \in Orders :
           /\ ZonesEnd \in Nat /\ heap.start <= ZonesEnd
           /\ ZonesEnd % block_size(order) = 0 /\ block_size(order) <= remaining
           /\ zones' = Append(zones, [base |-> ZonesEnd, order |-> order])
           /\ max_order' = IF order > max_order THEN order ELSE max_order
           /\ free_lists' = [free_lists EXCEPT
                               ![order] = push_free_block(@, ZonesEnd)]
           /\ remaining' = remaining - block_size(order)
           /\ ~initialized /\ UNCHANGED <<heap, initialized, live>>
  BY AddZoneFacts, Zenon DEF BuddyInv
<1> DEFINE zone == [base |-> ZonesEnd, order |-> order]
           lo == ZonesEnd
           hi == ZonesEnd + block_size(order) - 1
<1>2. /\ heap \in Heaps /\ heap.start \in Nat /\ heap.size \in Nat /\ remaining \in 0..heap.size
      /\ block_size(order) \in Nat /\ block_size(order) > 0 /\ BuddyTypes
  BY HeapTyped, OrderNat DEF BuddyInv, BuddyTypes
<1>3. lo \in heap.start..(heap.start + heap.size) /\ hi \in heap.start..(heap.start + heap.size)
  <2>1. ZonesEnd = heap.start + heap.size - remaining /\ block_size(order) <= remaining
    BY <1>1 DEF ZonesEnd
  <2>2. heap.start <= ZonesEnd /\ ZonesEnd <= heap.start + heap.size /\ ZonesEnd \in Nat
    BY ONLY <2>1, <1>2
  <2>3. hi \in Nat /\ ZonesEnd <= hi /\ hi <= heap.start + heap.size
    BY ONLY <2>1, <2>2, <1>2
  <2> QED BY ONLY <2>2, <2>3, <1>2
<1>4. lo \in AllBytes /\ hi \in AllBytes
  BY <1>2, <1>3 DEF AllBytes
<1>5. live = {} /\ live' = live
  BY <1>1, <1>2 DEF BuddyTypes
<1>6. ZoneSet' = ZoneSet \cup {zone}
  <2>1. zones \in Seq(Zones) /\ zones' = Append(zones, zone) /\ zone \in Zones
    BY <1>1, <1>2 DEF BuddyTypes, Zones
  <2>2. Len(zones) \in Nat /\ Len(zones') = Len(zones) + 1 /\ zones'[Len(zones) + 1] = zone
        /\ \A i \in 1..Len(zones) : zones'[i] = zones[i]
    BY <2>1
  <2>3. \A z : z \in ZoneSet' <=> z \in ZoneSet \/ z = zone
    BY <2>2 DEF ZoneSet
  <2> QED BY <2>3
<1> DEFINE chunk == lo..hi
           before == UNION {ZoneBytes(z) : z \in ZoneSet}
           after == UNION {ZoneBytes(z) : z \in ZoneSet'}
<1>7. ZoneBytes(zone) = chunk
  BY DEF ZoneBytes
<1> HIDE DEF zone, chunk, hi, lo
<1>8. after = before \cup chunk
  <2>1. \A p \in after : p \in before \/ p \in chunk
    BY <1>6, <1>7
  <2>2. \A p \in before : p \in after
    BY <1>6
  <2>3. \A p \in chunk : p \in after
    BY <1>6, <1>7
  <2> QED BY <2>1, <2>2, <2>3
<1>9. (UNION {ZoneBytes(z) : z \in ZoneSet})' = after
  BY DEF ZoneBytes, block_size
<1>10. Promise!Grow(chunk)
  <2> HIDE DEF after
  <2> QED BY <1>5, <1>8, <1>9 DEF Promise!Grow
<1> QED BY <1>4, <1>10 DEF chunk

LEMMA SameExtent ==
  ASSUME zones' = zones
  PROVE  (UNION {ZoneBytes(z) : z \in ZoneSet})' = UNION {ZoneBytes(z) : z \in ZoneSet}
<1>1. ZoneSet' = ZoneSet
  BY DEF ZoneSet
<1> QED BY <1>1 DEF ZoneBytes, block_size

LEMMA AllocMaps ==
  ASSUME BuddyInv, NEW layout \in Layouts, alloc(layout)
  PROVE  \E addr \in AllBytes : Promise!Alloc([addr |-> addr, layout |-> layout])
<1>1. PICK order \in Orders, from \in Orders, addr \in Nat :
        Allocated(layout, order, from, addr)
  BY AllocFacts
<1> DEFINE pop == Block(addr, from)
           a == [addr |-> addr, layout |-> layout]
<1>2. /\ order = order_for_size(layout) /\ FittingOrders(layout) # {} /\ order <= from
      /\ pop \in FreeBlocks /\ live' = live \cup {a} /\ zones' = zones
  BY <1>1 DEF Allocated
<1>3. BuddyTypes /\ ZonesInv /\ BlocksInv
  BY DEF BuddyInv
<1>4. /\ layout.size \in Nat /\ layout.size <= block_size(order)
      /\ layout.align <= block_size(order)
  BY <1>2, FittingOrder
<1>5. /\ pop \in Blocks /\ pop.order = from /\ pop.addr = addr
      /\ \A p : p \in BlockBytes(pop) <=> p \in Nat /\ addr <= p /\ p < addr + block_size(from)
  BY BlockIs
<1>6. PICK z \in ZoneSet : Inside(z, pop)
  BY <1>2, <1>3, Zenon DEF BlocksInv
<1>7. z \in Zones
  BY <1>3, ZoneTyped
<1>8. PICK m \in Nat : Numbered(z, pop, m)
  BY <1>5, <1>6, <1>7, OrderNat, InsideNumbered
<1>9. PICK n \in Nat : Numbered(z, Block(addr, order), n)
  BY <1>2, <1>7, <1>8, FirstPiece
<1>10. addr % layout.align = 0
  BY <1>3, <1>4, <1>9, AlignedBlock
<1>11. order \in Nat /\ from \in Nat /\ block_size(order) \in Nat /\ block_size(from) \in Nat
       /\ block_size(order) <= block_size(from)
  BY <1>2, OrderNat, SizeGrows
<1>12. \A p \in Promise!Bytes(a) : p \in BlockBytes(pop)
  <2>1. Promise!Bytes(a) = addr..(addr + layout.size - 1)
    BY DEF Promise!Bytes
  <2> QED BY <2>1, <1>4, <1>5, <1>11
<1>13. Promise!Bytes(a) \subseteq UNION {ZoneBytes(y) : y \in ZoneSet}
  BY <1>3, <1>5, <1>6, <1>12, InsideBytes
<1>14. ASSUME NEW b \in live, NEW p, p \in Promise!Bytes(a), p \in Promise!Bytes(b)
       PROVE  FALSE
  <2>1. /\ LiveBlock(b) \in LiveBlocks /\ LiveBlock(b) \in Blocks /\ b.addr \in Nat
        /\ LiveBlock(b).addr = b.addr /\ b.layout \in Layouts
        /\ FittingOrders(b.layout) # {}
    BY <1>3, LiveTyped DEF BuddyTypes
  <2>2. b.layout.size \in Nat /\ b.layout.size <= block_size(order_for_size(b.layout))
    BY <2>1, FittingOrder, Zenon
  <2>3. LiveBlock(b).order = order_for_size(b.layout)
    BY DEF LiveBlock, Block
  <2>4. p \in Int /\ b.addr <= p /\ p < b.addr + b.layout.size
    <3>1. Promise!Bytes(b) = b.addr..(b.addr + b.layout.size - 1)
      BY DEF Promise!Bytes
    <3>2. p \in b.addr..(b.addr + b.layout.size - 1)
      BY <3>1, <1>14
    <3> QED BY ONLY <3>2, <2>1, <2>2
  <2>5. p \in BlockBytes(pop) /\ p \in Nat
    BY <1>5, <1>12, <1>14
  <2>6. block_size(LiveBlock(b).order) \in Nat
    BY <2>1, BlockTyped
  <2>7. p \in BlockBytes(LiveBlock(b))
    <3>1. p \in Nat /\ LiveBlock(b).addr <= p /\ LiveBlock(b).addr \in Nat
      BY ONLY <2>1, <2>4, <2>5
    <3>2. p < LiveBlock(b).addr + block_size(LiveBlock(b).order)
      BY ONLY <2>1, <2>2, <2>3, <2>4, <2>5, <2>6
    <3> QED BY <3>1, <3>2, <2>1, BlockTyped
  <2>8. LiveBlock(b) = pop
    BY <2>1, <2>5, <2>7, <1>2, <1>3, Zenon DEF BlocksInv, Apart
  <2> QED BY <2>1, <2>8, <1>2, <1>3, Zenon DEF BlocksInv
<1>15. addr \in AllBytes
  <2>1. addr \in ZoneBytes(z)
    BY <1>3, <1>5, <1>6, InsideBytes, BlockTyped
  <2>2. /\ heap \in Heaps /\ heap.start \in Nat /\ heap.size \in Nat /\ remaining \in 0..heap.size
    BY <1>3, HeapTyped DEF BuddyTypes
  <2>3. heap.start <= z.base /\ z.base + block_size(z.order) <= ZonesEnd
    BY <1>3 DEF ZonesInv, ZoneSet
  <2>4. /\ z.base \in Nat /\ block_size(z.order) \in Nat /\ z.base <= addr
        /\ addr < z.base + block_size(z.order)
    BY <2>1, <1>3, ZoneTyped
  <2>5. addr \in heap.start..(heap.start + heap.size)
    BY ONLY <2>2, <2>3, <2>4, addr \in Nat DEF ZonesEnd
  <2> QED BY <2>2, <2>5 DEF AllBytes
<1>16. Promise!Fits(a)
  BY <1>10, <1>13, <1>14 DEF Promise!Fits
<1>17. Promise!Alloc(a)
  BY <1>2, <1>16, SameExtent DEF Promise!Alloc
<1> QED BY <1>15, <1>17

LEMMA StepMaps ==
  ASSUME BuddyInv, [BuddyNext]_buddy_vars
  PROVE  [Promise!HeapNext]_(Promise!heap_vars)
<1>1. CASE AddZone
  BY <1>1, AddZoneMaps DEF Promise!HeapNext
<1>2. CASE InitDone
  <2>1. zones' = zones /\ live' = live
    BY <1>2 DEF InitDone
  <2> QED BY <2>1, SameExtent DEF Promise!heap_vars
<1>3. ASSUME NEW layout \in Layouts, alloc(layout) PROVE Promise!HeapNext
  BY <1>3, AllocMaps, Zenon DEF Promise!HeapNext
<1>4. ASSUME NEW a \in live, dealloc(a) PROVE Promise!HeapNext
  <2>1. zones' = zones /\ live' = live \ {a}
    BY <1>4 DEF dealloc
  <2>2. Promise!Dealloc(a)
    BY <2>1, SameExtent DEF Promise!Dealloc
  <2> QED BY <2>2 DEF Promise!HeapNext
<1>5. CASE UNCHANGED buddy_vars
  <2>1. zones' = zones /\ live' = live
    BY <1>5 DEF buddy_vars
  <2> QED BY <2>1, SameExtent DEF Promise!heap_vars
<1> QED BY <1>1, <1>2, <1>3, <1>4, <1>5 DEF BuddyNext

(* alloc and dealloc implement the heap that kmem/heap.rs promises: memory *)
(* inside the heap, aligned as the layout asks and disjoint from every     *)
(* live allocation, for every heap, every set of layouts and all orders.   *)
THEOREM BuddyImplementsHeap == BuddySpec => ImplementsHeap
<1>1. BuddyInit => Promise!HeapInit
  BY InitMaps
<1>2. BuddyInv /\ [BuddyNext]_buddy_vars => [Promise!HeapNext]_(Promise!heap_vars)
  BY StepMaps
<1> QED BY <1>1, <1>2, BuddyInvariant, PTL DEF BuddySpec, ImplementsHeap, Promise!HeapSpec
=============================================================================
