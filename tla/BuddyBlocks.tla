---------------------------- MODULE BuddyBlocks ----------------------------
(***************************************************************************)
(* Lemmas about the blocks of the buddy allocator, and its inductive       *)
(* invariant.  The blocks of an order in a zone are numbered; the buddy of *)
(* block m is the other half of the pair that m belongs to.  From that     *)
(* follows what alloc's splits and dealloc's merges do to the bytes of a   *)
(* zone, and what they do to the free lists.                               *)
(***************************************************************************)
EXTENDS BuddyAllocator, Integers, WellFoundedInduction, TLAPS

(* The prover's default of five seconds is short for the larger steps.     *)
USE SMTT(20), ZenonT(20), SMTT(30)

----------------------------------------------------------------------------
(* Least and greatest elements, and induction on sets of numbers.          *)

LEMMA Least ==
  ASSUME NEW S \in SUBSET Nat, S # {}
  PROVE  \E x \in S : \A y \in S : x <= y
<1>1. IsWellFoundedOn(OpToRel(<, Nat), Nat)
  BY NatLessThanWellFounded, Zenon
<1>2. PICK x \in S : \A y \in S : ~ (<<y, x>> \in OpToRel(<, Nat))
  BY <1>1, WFMin, Zenon
<1>3. \A y \in S : ~ (y < x)
  BY <1>2, Zenon DEF OpToRel
<1>4. \A y \in S : x <= y
  BY <1>3
<1> QED BY <1>4

LEMMA Smallest ==
  ASSUME NEW S \in SUBSET Nat, S # {}
  PROVE  SmallestOf(S) \in S /\ \A y \in S : SmallestOf(S) <= y
<1>1. \E x \in S : \A y \in S : x <= y
  BY Least
<1> QED BY <1>1, Zenon DEF SmallestOf

LEMMA Largest ==
  ASSUME NEW n \in Nat, NEW S \in SUBSET (0..n), S # {}
  PROVE  LargestOf(S) \in S /\ \A y \in S : y <= LargestOf(S)
<1> DEFINE D == {x \in Nat : n - x \in S}
<1>1. \A t \in S : n - t \in Nat /\ n - (n - t) = t
  OBVIOUS
<1>2. \A t \in S : n - t \in D
  BY <1>1
<1>3. D \in SUBSET Nat /\ D # {}
  BY <1>2, Zenon
<1>4. \A x \in D : x \in Nat /\ n - x \in S
  OBVIOUS
<1> HIDE DEF D
<1>5. PICK x \in D : \A y \in D : x <= y
  BY <1>3, Least
<1>6. n - x \in S
  BY <1>4
<1>7. \A t \in S : t <= n - x
  BY <1>1, <1>2, <1>4, <1>5
<1> QED BY <1>6, <1>7, Zenon DEF LargestOf

LEMMA SetInduction ==
  ASSUME NEW S \in SUBSET Nat, 0 \in S, \A n \in S : n + 1 \in S
  PROVE  S = Nat
<1>1. ASSUME S # Nat PROVE FALSE
  <2>1. (Nat \ S) \in SUBSET Nat /\ (Nat \ S) # {}
    BY <1>1, Zenon
  <2>2. PICK x \in Nat \ S : \A y \in Nat \ S : x <= y
    BY <2>1, Least, Zenon
  <2>3. x \in Nat /\ x # 0 /\ x - 1 \in Nat /\ (x - 1) + 1 = x /\ ~(x <= x - 1)
    BY <2>2
  <2>4. x - 1 \in S
    BY <2>2, <2>3
  <2> QED BY <2>2, <2>3, <2>4
<1> QED BY <1>1

----------------------------------------------------------------------------
(* Powers of two.                                                          *)

(* g lists the first powers of two.                                        *)
Powers(n, g) ==
  /\ g \in [0..n -> Nat] /\ g[0] = 1
  /\ \A k \in 0..n : k # 0 => g[k] = 2 * g[k - 1]

LEMMA PowersExist == ASSUME NEW n \in Nat PROVE \E g : Powers(n, g)
<1> DEFINE S == {m \in Nat : \E g : Powers(m, g)}
<1>1. 0 \in S
  <2>1. Powers(0, [k \in 0..0 |-> 1])
    BY DEF Powers
  <2> QED BY <2>1
<1>2. ASSUME NEW m \in S PROVE m + 1 \in S
  <2>1. m \in Nat
    OBVIOUS
  <2>2. PICK g : Powers(m, g)
    OBVIOUS
  <2> DEFINE h == [k \in 0..(m + 1) |-> IF k = m + 1 THEN 2 * g[m] ELSE g[k]]
  <2>3. g \in [0..m -> Nat] /\ g[m] \in Nat
    BY <2>1, <2>2 DEF Powers
  <2>4. h \in [0..(m + 1) -> Nat] /\ h[0] = 1
    BY <2>1, <2>2, <2>3 DEF Powers
  <2>5. ASSUME NEW k \in 0..(m + 1), k # 0 PROVE h[k] = 2 * h[k - 1]
    <3>1. CASE k = m + 1
      BY <2>1, <3>1
    <3>2. CASE k # m + 1
      <4>1. k \in 0..m /\ k - 1 \in 0..m /\ k - 1 # m + 1
        BY <2>1, <2>5, <3>2
      <4>2. h[k] = g[k] /\ h[k - 1] = g[k - 1]
        BY <2>1, <4>1, <3>2
      <4> QED BY <2>2, <2>5, <4>1, <4>2 DEF Powers
    <3> QED BY <3>1, <3>2
  <2> HIDE DEF h
  <2>6. Powers(m + 1, h)
    BY <2>4, <2>5 DEF Powers
  <2> QED BY <2>1, <2>6
<1>3. S \in SUBSET Nat
  OBVIOUS
<1> HIDE DEF S
<1>4. S = Nat
  BY ONLY <1>1, <1>2, <1>3, SetInduction
<1> QED BY <1>4 DEF S

LEMMA PowersAgree ==
  ASSUME NEW n \in Nat
  PROVE  \A m, l \in Nat : \A g, h :
           Powers(m, g) /\ Powers(l, h) /\ n <= m /\ n <= l => g[n] = h[n]
<1> DEFINE Agree(k) == \A m, l \in Nat : \A g, h :
                         Powers(m, g) /\ Powers(l, h) /\ k <= m /\ k <= l => g[k] = h[k]
           S == {k \in Nat : Agree(k)}
<1>1. 0 \in S
  BY DEF Powers
<1>2. ASSUME NEW k \in S PROVE k + 1 \in S
  <2>1. k \in Nat /\ k + 1 \in Nat /\ Agree(k)
    OBVIOUS
  <2> SUFFICES ASSUME NEW m \in Nat, NEW l \in Nat, NEW g, NEW h, Powers(m, g), Powers(l, h),
                      k + 1 <= m, k + 1 <= l
               PROVE  g[k + 1] = h[k + 1]
    BY <2>1
  <2>2. k <= m /\ k <= l /\ k + 1 \in 0..m /\ k + 1 \in 0..l /\ k + 1 # 0 /\ (k + 1) - 1 = k
    BY <2>1
  <2>3. g[k] = h[k]
    BY <2>1, <2>2
  <2>4. g[k + 1] = 2 * g[k] /\ h[k + 1] = 2 * h[k]
    BY ONLY <2>2, Powers(m, g), Powers(l, h) DEF Powers
  <2> QED BY <2>3, <2>4
<1>3. S \in SUBSET Nat
  OBVIOUS
<1> HIDE DEF S, Agree
<1>4. S = Nat
  BY ONLY <1>1, <1>2, <1>3, SetInduction
<1>5. Agree(n)
  BY <1>4 DEF S
<1> QED BY <1>5 DEF Agree

LEMMA PowerOfTwoDef ==
  PowerOfTwo = [n \in Nat |-> IF n = 0 THEN 1 ELSE 2 * PowerOfTwo[n - 1]]
<1> DEFINE P(n) == CHOOSE g : Powers(n, g)
           f == [n \in Nat |-> P(n)[n]]
<1>1. \A n \in Nat : Powers(n, P(n))
  BY PowersExist
<1> HIDE DEF P
<1>2. ASSUME NEW n \in Nat PROVE f[n] = IF n = 0 THEN 1 ELSE 2 * f[n - 1]
  <2>1. CASE n = 0
    BY <1>1, <2>1 DEF Powers
  <2>2. CASE n # 0
    <3>1. n - 1 \in Nat /\ n \in 0..n /\ n - 1 <= n /\ n - 1 <= n - 1
      BY <2>2
    <3>2. Powers(n, P(n)) /\ Powers(n - 1, P(n - 1))
      BY <1>1, <3>1
    <3>3. P(n)[n] = 2 * P(n)[n - 1]
      BY <2>2, <3>1, <3>2 DEF Powers
    <3>4. P(n)[n - 1] = P(n - 1)[n - 1]
      BY <3>1, <3>2, PowersAgree
    <3> QED BY <2>2, <3>1, <3>3, <3>4
  <2> QED BY <2>1, <2>2
<1>3. f = [n \in Nat |-> IF n = 0 THEN 1 ELSE 2 * f[n - 1]]
  BY <1>2
<1> HIDE DEF f
<1> QED BY <1>3 DEF PowerOfTwo

LEMMA SizeZero == block_size(0) = 1
  BY PowerOfTwoDef DEF block_size

LEMMA SizeDoubles == ASSUME NEW n \in Nat PROVE block_size(n + 1) = 2 * block_size(n)
<1>1. n + 1 \in Nat /\ n + 1 # 0 /\ (n + 1) - 1 = n
  OBVIOUS
<1>2. PowerOfTwo[n + 1] = IF n + 1 = 0 THEN 1 ELSE 2 * PowerOfTwo[(n + 1) - 1]
  BY <1>1, PowerOfTwoDef
<1> QED BY <1>1, <1>2 DEF block_size

LEMMA SizeNat == ASSUME NEW n \in Nat PROVE block_size(n) \in Nat /\ block_size(n) > 0
<1> DEFINE S == {k \in Nat : block_size(k) \in Nat /\ block_size(k) > 0}
<1>1. 0 \in S
  BY SizeZero
<1>2. ASSUME NEW k \in S PROVE k + 1 \in S
  BY SizeDoubles
<1>3. S \in SUBSET Nat
  OBVIOUS
<1> HIDE DEF S
<1>4. S = Nat
  BY ONLY <1>1, <1>2, <1>3, SetInduction
<1> QED BY <1>4 DEF S

(* A larger block is made of blocks of a smaller order.                    *)
LEMMA SizeMultiple ==
  ASSUME NEW m \in Nat, NEW n \in Nat, m <= n
  PROVE  \E k \in Nat : k > 0 /\ block_size(n) = k * block_size(m)
<1> DEFINE S == {d \in Nat : \E k \in Nat : k > 0 /\ block_size(m + d) = k * block_size(m)}
<1>1. 0 \in S
  <2>1. m + 0 = m /\ block_size(m) = 1 * block_size(m)
    BY SizeNat
  <2> QED BY <2>1
<1>2. ASSUME NEW d \in S PROVE d + 1 \in S
  <2>1. PICK k \in Nat : k > 0 /\ block_size(m + d) = k * block_size(m)
    OBVIOUS
  <2>2. d \in Nat /\ m + d \in Nat /\ m + (d + 1) = (m + d) + 1
    OBVIOUS
  <2>3. block_size(m + (d + 1)) = 2 * block_size(m + d)
    BY <2>2, SizeDoubles
  <2>4. 2 * (k * block_size(m)) = (2 * k) * block_size(m) /\ 2 * k \in Nat /\ 2 * k > 0
    BY <2>1, SizeNat
  <2> QED BY <2>1, <2>2, <2>3, <2>4
<1>3. S \in SUBSET Nat
  OBVIOUS
<1> HIDE DEF S
<1>4. S = Nat
  BY ONLY <1>1, <1>2, <1>3, SetInduction
<1>5. n - m \in S /\ m + (n - m) = n
  BY <1>4
<1> QED BY <1>5 DEF S

LEMMA SizeEven ==
  ASSUME NEW m \in Nat, NEW n \in Nat, m < n
  PROVE  \E k \in Nat : k > 0 /\ block_size(n) = (2 * k) * block_size(m)
<1>1. m + 1 \in Nat /\ m + 1 <= n
  OBVIOUS
<1>2. PICK k \in Nat : k > 0 /\ block_size(n) = k * block_size(m + 1)
  BY <1>1, SizeMultiple
<1>3. k * (2 * block_size(m)) = (2 * k) * block_size(m)
  BY SizeNat
<1> QED BY <1>2, <1>3, SizeDoubles

LEMMA SizeGrows ==
  ASSUME NEW m \in Nat, NEW n \in Nat
  PROVE  /\ m <= n => block_size(m) <= block_size(n)
         /\ m < n => 2 * block_size(m) <= block_size(n)
<1>1. ASSUME m <= n PROVE block_size(m) <= block_size(n)
  <2>1. PICK k \in Nat : k > 0 /\ block_size(n) = k * block_size(m)
    BY <1>1, SizeMultiple
  <2>2. (k - 1) * block_size(m) >= 0
    BY <2>1, SizeNat
  <2>3. (k - 1) * block_size(m) = k * block_size(m) - block_size(m)
    BY SizeNat
  <2> QED BY <2>1, <2>2, <2>3, SizeNat
<1>2. ASSUME m < n PROVE 2 * block_size(m) <= block_size(n)
  <2>1. PICK k \in Nat : k > 0 /\ block_size(n) = k * block_size(m + 1)
    BY <1>2, SizeMultiple
  <2>2. (k - 1) * block_size(m + 1) >= 0
    BY <2>1, SizeNat
  <2>3. (k - 1) * block_size(m + 1) = k * block_size(m + 1) - block_size(m + 1)
    BY SizeNat
  <2> QED BY <2>1, <2>2, <2>3, SizeNat, SizeDoubles
<1> QED BY <1>1, <1>2

----------------------------------------------------------------------------
(* The inductive invariant.                                                *)

Blocks == [addr : Nat, order : Orders]

(* Block b is one of the blocks of its order that zone z divides into.     *)
Inside(z, b) ==
  /\ b.order <= z.order /\ z.base <= b.addr
  /\ (b.addr - z.base) % block_size(b.order) = 0
  /\ b.addr + block_size(b.order) <= z.base + block_size(z.order)

(* The address up to which init has divided the heap into zones.           *)
ZonesEnd == heap.start + heap.size - remaining

BuddyTypes ==
  /\ heap \in Heaps /\ remaining \in 0..heap.size
  /\ zones \in Seq([base : Nat, order : Orders]) /\ max_order \in Orders
  /\ free_lists \in [Orders -> Seq(Nat)] /\ initialized \in BOOLEAN
  /\ live \subseteq [addr : Nat, layout : Layouts]
  /\ \A a \in live : FittingOrders(a.layout) # {}
  /\ live # {} => initialized

ZonesInv ==
  /\ \A i \in 1..Len(zones) :
       /\ heap.start <= zones[i].base
       /\ zones[i].base + block_size(zones[i].order) <= ZonesEnd
       /\ zones[i].base % block_size(zones[i].order) = 0
       /\ zones[i].order <= max_order
  /\ \A i, j \in 1..Len(zones) :
       i < j => zones[i].base + block_size(zones[i].order) <= zones[j].base
  /\ \A p \in heap.start..(ZonesEnd - 1) :
       \E i \in 1..Len(zones) : p \in ZoneBytes(zones[i])
  /\ ZonesEnd % block_size(MIN_ORDER) = 0
  /\ initialized => remaining < block_size(MIN_ORDER)

(* The blocks of S share no byte.                                          *)
Apart(S) == \A x, y \in S, p \in Nat : p \in BlockBytes(x) /\ p \in BlockBytes(y) => x = y

(* No two blocks of F are buddies in one of the zones of Z.                *)
NoBuddies(Z, F) ==
  \A z \in Z, x, y \in F :
    /\ Inside(z, x) /\ x.order = y.order /\ x.order < z.order
    => y.addr # buddy_addr(z, x.addr, x.order)

BlocksInv ==
  /\ \A o \in Orders : \A i, j \in 1..Len(free_lists[o]) :
       free_lists[o][i] = free_lists[o][j] => i = j
  /\ \A a, b \in live : a.addr = b.addr => a = b
  /\ Apart(FreeBlocks \cup LiveBlocks)
  /\ FreeBlocks \cap LiveBlocks = {}
  /\ \A z \in ZoneSet : \A p \in ZoneBytes(z) :
       \E b \in FreeBlocks \cup LiveBlocks : p \in BlockBytes(b)
  /\ \A b \in FreeBlocks \cup LiveBlocks : \E z \in ZoneSet : Inside(z, b)
  /\ NoBuddies(ZoneSet, FreeBlocks)

BuddyInv == BuddyTypes /\ ZonesInv /\ BlocksInv

----------------------------------------------------------------------------
(* Arithmetic of blocks.                                                   *)

LEMMA MulLe ==
  ASSUME NEW a \in Int, NEW b \in Int, NEW d \in Nat, d > 0
  PROVE  /\ a * d \in Int /\ b * d \in Int
         /\ a * d <= b * d <=> a <= b
         /\ a * d < b * d <=> a < b
         /\ a * d = b * d <=> a = b
<1>1. a * d \in Int /\ b * d \in Int
  OBVIOUS
<1>2. ASSUME a < b PROVE a * d < b * d
  <2>1. (b - a - 1) * d >= 0
    BY <1>2
  <2>2. (b - a - 1) * d = b * d - a * d - d
    OBVIOUS
  <2> QED BY <1>1, <2>1, <2>2
<1>3. ASSUME b < a PROVE b * d < a * d
  <2>1. (a - b - 1) * d >= 0
    BY <1>3
  <2>2. (a - b - 1) * d = a * d - b * d - d
    OBVIOUS
  <2> QED BY <1>1, <2>1, <2>2
<1>4. a = b => a * d = b * d
  OBVIOUS
<1>5. \A x, y \in Int : /\ (a < b => x < y) /\ (b < a => y < x) /\ (a = b => x = y)
                        => /\ x <= y <=> a <= b
                           /\ x < y <=> a < b
                           /\ x = y <=> a = b
  OBVIOUS
<1> QED BY ONLY <1>1, <1>2, <1>3, <1>4, <1>5

LEMMA DivUnique ==
  ASSUME NEW q \in Nat, NEW r \in Nat, NEW d \in Nat, d > 0, r < d
  PROVE  /\ (q * d + r) \div d = q /\ (q * d + r) % d = r
<1> DEFINE x == q * d + r
           y == x \div d
           s == x % d
<1>1. x \in Nat
  OBVIOUS
<1> HIDE DEF x
<1>2. x = d * y + s /\ y \in Nat /\ s \in 0..(d - 1)
  BY <1>1
<1> HIDE DEF y, s
<1>3. d * y = y * d /\ y * d \in Nat /\ q * d \in Nat
  BY <1>2
<1>4. q * d + r = y * d + s
  BY <1>2, <1>3 DEF x
<1>5. \A a, b \in Nat : a + r = b + s => a < b + d /\ b < a + d
  BY <1>2
<1>6. q * d < y * d + d /\ y * d < q * d + d
  BY ONLY <1>3, <1>4, <1>5, r \in Nat
<1>7. (y + 1) * d = y * d + d /\ (q + 1) * d = q * d + d
  BY <1>2
<1>8. q < y + 1
  BY ONLY <1>2, <1>6, <1>7, MulLe, q \in Nat, d \in Nat, d > 0, \A n \in Nat : n + 1 \in Int /\ n \in Int
<1>9. y < q + 1
  BY ONLY <1>2, <1>6, <1>7, MulLe, q \in Nat, d \in Nat, d > 0, \A n \in Nat : n + 1 \in Int /\ n \in Int
<1>10. q = y
  BY <1>2, <1>8, <1>9
<1>11. \A a \in Nat : a + r = a + s => r = s
  BY <1>2
<1>12. r = s
  BY <1>3, <1>4, <1>10, <1>11
<1> QED BY <1>10, <1>12 DEF y, s, x

LEMMA Divided ==
  ASSUME NEW x \in Nat, NEW d \in Nat, d > 0
  PROVE  /\ x \div d \in Nat /\ x % d \in Nat /\ x % d < d
         /\ x = (x \div d) * d + (x % d)
<1>1. x = d * (x \div d) + (x % d) /\ x \div d \in Nat /\ x % d \in 0..(d - 1)
  OBVIOUS
<1>2. \A y \in Nat : d * y = y * d
  OBVIOUS
<1> QED BY <1>1, <1>2

(* The half of a pair of blocks that block number m is not.                *)
Flip(m) == IF m % 2 = 0 THEN m + 1 ELSE m - 1

LEMMA FlipFacts ==
  ASSUME NEW m \in Nat
  PROVE  /\ Flip(m) \in Nat /\ Flip(Flip(m)) = m /\ Flip(m) # m
         /\ Flip(m) \div 2 = m \div 2 /\ m \div 2 \in Nat
         /\ \/ m = 2 * (m \div 2) /\ Flip(m) = 2 * (m \div 2) + 1
            \/ m = 2 * (m \div 2) + 1 /\ Flip(m) = 2 * (m \div 2)
  BY DEF Flip

LEMMA FlipBitSlot ==
  ASSUME NEW m \in Nat, NEW d \in Nat, d > 0
  PROVE  FlipBit(m * d, d) = Flip(m) * d
<1>1. (m * d) \div d = m
  <2>1. m * d + 0 = m * d /\ 0 \in Nat /\ 0 < d
    OBVIOUS
  <2> QED BY <2>1, DivUnique
<1>2. (m + 1) * d = m * d + d /\ (m - 1) * d = m * d - d
  OBVIOUS
<1> QED BY <1>1, <1>2 DEF FlipBit, Flip

LEMMA OrderNat ==
  ASSUME NEW o \in Orders
  PROVE  /\ o \in Nat /\ MIN_ORDER <= o /\ o <= MAX_ORDER
         /\ block_size(o) \in Nat /\ block_size(o) > 0
<1>1. o \in Nat /\ MIN_ORDER <= o /\ o <= MAX_ORDER
  BY BuddyAssumption DEF Orders
<1> QED BY <1>1, SizeNat

LEMMA InBlock ==
  ASSUME NEW b, b.addr \in Nat, block_size(b.order) \in Nat
  PROVE  \A p : p \in BlockBytes(b) <=> p \in Nat /\ b.addr <= p /\ p < b.addr + block_size(b.order)
  BY DEF BlockBytes

Zones == [base : Nat, order : Orders]

(* b is block number m of its order in zone z.                             *)
Numbered(z, b, m) ==
  /\ b.order <= z.order
  /\ b.addr = z.base + m * block_size(b.order)
  /\ (m + 1) * block_size(b.order) <= block_size(z.order)

LEMMA InsideNumbered ==
  ASSUME NEW z \in Zones, NEW b, b.addr \in Nat, b.order \in Nat, Inside(z, b)
  PROVE  \E m \in Nat : Numbered(z, b, m)
<1> DEFINE d == block_size(b.order)
           m == (b.addr - z.base) \div d
<1>1. /\ z.base \in Nat /\ z.order \in Nat /\ d \in Nat /\ d > 0
      /\ block_size(z.order) \in Nat
  BY OrderNat, SizeNat DEF Zones
<1>2. /\ b.order <= z.order /\ b.addr - z.base \in Nat
      /\ (b.addr - z.base) % d = 0 /\ b.addr + d <= z.base + block_size(z.order)
  BY <1>1 DEF Inside
<1>3. m \in Nat /\ b.addr - z.base = m * d + 0
  BY <1>1, <1>2, Divided
<1> HIDE DEF m, d
<1>4. (m + 1) * d = m * d + d /\ m * d \in Nat
  BY <1>1, <1>3
<1>5. \A x \in Nat : /\ b.addr - z.base = x + 0
                     => b.addr = z.base + x /\ x + d <= block_size(z.order)
  BY <1>1, <1>2
<1>6. b.addr = z.base + m * d /\ m * d + d <= block_size(z.order)
  BY <1>3, <1>4, <1>5
<1> QED BY <1>2, <1>3, <1>4, <1>6 DEF Numbered, d

LEMMA NumberedInside ==
  ASSUME NEW z \in Zones, NEW b, b.order \in Nat, NEW m \in Nat, Numbered(z, b, m)
  PROVE  Inside(z, b) /\ b.addr \in Nat
<1> DEFINE d == block_size(b.order)
<1>1. /\ z.base \in Nat /\ z.order \in Nat /\ d \in Nat /\ d > 0
      /\ block_size(z.order) \in Nat
  BY OrderNat, SizeNat DEF Zones
<1>2. b.order <= z.order /\ b.addr = z.base + m * d /\ (m + 1) * d <= block_size(z.order)
  BY DEF Numbered
<1> HIDE DEF d
<1>3. (m + 1) * d = m * d + d /\ m * d \in Nat
  BY <1>1
<1>4. (m * d) % d = 0
  <2>1. m * d + 0 = m * d /\ 0 \in Nat /\ 0 < d
    BY <1>1
  <2> QED BY <1>1, <2>1, DivUnique
<1>5. PICK u \in Nat : u = m * d
  BY <1>3
<1>6. b.addr = z.base + u /\ u + d <= block_size(z.order)
  BY ONLY <1>2, <1>3, <1>5
<1>7. /\ b.addr - z.base = u /\ z.base <= b.addr /\ b.addr \in Nat
      /\ b.addr + d <= z.base + block_size(z.order)
  BY ONLY <1>1, <1>5, <1>6, u \in Nat
<1> QED BY <1>2, <1>4, <1>5, <1>7 DEF Inside, d

(* The numbers of the blocks of an order that fit in the zone.             *)
LEMMA NumberFits ==
  ASSUME NEW z \in Zones, NEW o \in Nat, o <= z.order, NEW k \in Nat,
         block_size(z.order) = k * block_size(o), NEW m \in Nat
  PROVE  (m + 1) * block_size(o) <= block_size(z.order) <=> m + 1 <= k
<1>1. block_size(o) \in Nat /\ block_size(o) > 0 /\ m + 1 \in Int /\ k \in Int
  BY SizeNat
<1> QED BY <1>1, MulLe

LEMMA BuddyNumber ==
  ASSUME NEW z \in Zones, NEW b, b.order \in Nat, NEW m \in Nat, Numbered(z, b, m),
         b.order < z.order
  PROVE  /\ buddy_addr(z, b.addr, b.order) = z.base + Flip(m) * block_size(b.order)
         /\ (Flip(m) + 1) * block_size(b.order) <= block_size(z.order)
         /\ Flip(m) \in Nat
<1> DEFINE d == block_size(b.order)
<1>1. /\ z.base \in Nat /\ z.order \in Nat /\ d \in Nat /\ d > 0
      /\ block_size(z.order) \in Nat
  BY OrderNat, SizeNat DEF Zones
<1>2. PICK k \in Nat : k > 0 /\ block_size(z.order) = (2 * k) * d
  BY <1>1, SizeEven
<1>3. m + 1 <= 2 * k
  <2>1. 2 * k \in Nat
    OBVIOUS
  <2> QED BY <1>1, <1>2, <2>1, NumberFits DEF Numbered
<1>4. Flip(m) \in Nat /\ Flip(m) + 1 <= 2 * k
  <2>1. PICK s \in Nat : \/ m = 2 * s /\ Flip(m) = 2 * s + 1
                         \/ m = 2 * s + 1 /\ Flip(m) = 2 * s
    BY FlipFacts
  <2> QED BY <1>3, <2>1
<1>5. (Flip(m) + 1) * d <= block_size(z.order)
  <2>1. 2 * k \in Nat
    OBVIOUS
  <2> QED BY <1>1, <1>2, <1>4, <2>1, NumberFits
<1>6. /\ Inside(z, b) /\ b.addr \in Nat /\ b.addr = z.base + m * d /\ m * d \in Nat
  BY <1>1, NumberedInside DEF Numbered
<1>7. b.addr - z.base = m * d
  <2>1. PICK u \in Nat : u = m * d
    BY <1>6
  <2>2. b.addr = z.base + u
    BY <1>6, <2>1
  <2>3. b.addr - z.base = u
    BY ONLY <1>1, <2>2, u \in Nat
  <2> QED BY <2>1, <2>3
<1>8. FlipBit(m * d, d) = Flip(m) * d
  BY <1>1, FlipBitSlot
<1>9. m * d < block_size(z.order) /\ Flip(m) * d < block_size(z.order) /\ (m * d) % d = 0
  <2>1. /\ (m + 1) * d = m * d + d /\ (Flip(m) + 1) * d = Flip(m) * d + d
        /\ Flip(m) * d \in Nat /\ m * d \in Nat
    BY <1>1, <1>4
  <2>2. (m + 1) * d <= block_size(z.order)
    BY DEF Numbered
  <2>3. \A x \in Nat : x + d <= block_size(z.order) => x < block_size(z.order)
    BY <1>1
  <2>4. (m * d) % d = 0
    BY <1>6, <1>7 DEF Inside
  <2> QED BY <1>5, <2>1, <2>2, <2>3, <2>4
<1>10. z.base <= b.addr
  BY <1>6 DEF Inside
<1>11. buddy_addr(z, b.addr, b.order) = z.base + Flip(m) * d
  BY <1>7, <1>8, <1>9, <1>10 DEF buddy_addr
<1> QED BY <1>4, <1>5, <1>11

----------------------------------------------------------------------------
(* What alloc does to a block: it becomes a smaller block at the same      *)
(* address and, for each order in between, the upper half it splits off.   *)

Block(x, o) == [addr |-> x, order |-> o]

LEMMA BlockIs ==
  ASSUME NEW x \in Nat, NEW o \in Orders
  PROVE  /\ Block(x, o) \in Blocks /\ Block(x, o).addr = x /\ Block(x, o).order = o
         /\ \A p : p \in BlockBytes(Block(x, o)) <=>
                     p \in Nat /\ x <= p /\ p < x + block_size(o)
<1>1. Block(x, o) \in Blocks /\ Block(x, o).addr = x /\ Block(x, o).order = o
  BY DEF Block, Blocks
<1>2. block_size(o) \in Nat
  BY OrderNat
<1> QED BY <1>1, <1>2, InBlock

LEMMA BlockTyped ==
  ASSUME NEW b \in Blocks
  PROVE  /\ b.addr \in Nat /\ b.order \in Orders /\ b = Block(b.addr, b.order)
         /\ b.order \in Nat /\ block_size(b.order) \in Nat /\ block_size(b.order) > 0
         /\ b.addr \in BlockBytes(b)
         /\ \A p : p \in BlockBytes(b) <=>
                     p \in Nat /\ b.addr <= p /\ p < b.addr + block_size(b.order)
<1>1. b.addr \in Nat /\ b.order \in Orders /\ b = Block(b.addr, b.order)
  BY DEF Blocks, Block
<1>2. b.order \in Nat /\ block_size(b.order) \in Nat /\ block_size(b.order) > 0
  BY <1>1, OrderNat
<1> QED BY <1>1, <1>2, InBlock

Halves(x, order, from) == {Block(x + block_size(o), o) : o \in order..(from - 1)}

LEMMA HalfOrders ==
  ASSUME NEW order \in Orders, NEW from \in Orders, NEW o \in order..(from - 1)
  PROVE  /\ o \in Orders /\ o \in Nat /\ order <= o /\ o < from /\ o + 1 \in Nat /\ o + 1 <= from
         /\ block_size(order) <= block_size(o)
         /\ block_size(o + 1) = 2 * block_size(o) /\ block_size(o + 1) <= block_size(from)
<1>1. order \in Nat /\ from \in Nat /\ MIN_ORDER \in Nat /\ MAX_ORDER \in Nat
      /\ MIN_ORDER <= order /\ from <= MAX_ORDER
  BY OrderNat, BuddyAssumption
<1>2. /\ o \in Nat /\ order <= o /\ o < from /\ o + 1 \in Nat /\ o + 1 <= from
      /\ MIN_ORDER <= o /\ o <= MAX_ORDER
  BY <1>1
<1>3. o \in Orders
  BY <1>1, <1>2 DEF Orders
<1> QED BY <1>1, <1>2, <1>3, SizeGrows, SizeDoubles

LEMMA SplitCovers ==
  ASSUME NEW x \in Nat, NEW order \in Orders, NEW from \in Orders, order <= from, NEW p \in Nat
  PROVE  (x <= p /\ p < x + block_size(from)) <=>
           \/ x <= p /\ p < x + block_size(order)
           \/ \E o \in order..(from - 1) :
                x + block_size(o) <= p /\ p < x + block_size(o) + block_size(o)
<1>1. order \in Nat /\ from \in Nat
  BY OrderNat
<1>2. \A n \in Nat : block_size(n) \in Nat /\ block_size(n) > 0
  BY SizeNat
<1>3. ASSUME x <= p, p < x + block_size(from), ~(p < x + block_size(order))
      PROVE  \E o \in order..(from - 1) :
               x + block_size(o) <= p /\ p < x + block_size(o) + block_size(o)
  <2> DEFINE S == {n \in Nat : order <= n /\ n <= from /\ p < x + block_size(n)}
  <2>1. S \in SUBSET Nat /\ from \in S
    BY <1>1, <1>3
  <2>2. PICK n \in S : \A y \in S : n <= y
    BY <2>1, Least, Zenon
  <2>3. n \in Nat /\ order <= n /\ n <= from /\ p < x + block_size(n) /\ n # order
    BY <1>3, <2>2
  <2>4. n - 1 \in Nat /\ (n - 1) + 1 = n /\ n - 1 \in order..(from - 1) /\ ~(n <= n - 1)
        /\ order <= n - 1 /\ n - 1 <= from
    BY <1>1, <2>3
  <2>5. ~(p < x + block_size(n - 1))
    BY <2>2, <2>4
  <2>6. block_size(n) = 2 * block_size(n - 1)
    BY <2>4, SizeDoubles
  <2>7. x + block_size(n - 1) <= p /\ p < x + block_size(n - 1) + block_size(n - 1)
    BY <1>2, <2>3, <2>4, <2>5, <2>6
  <2> QED BY <2>4, <2>7
<1>4. ASSUME NEW o \in order..(from - 1), x + block_size(o) <= p,
             p < x + block_size(o) + block_size(o)
      PROVE  x <= p /\ p < x + block_size(from)
  <2>1. o \in Nat /\ 2 * block_size(o) <= block_size(from)
    BY HalfOrders
  <2> QED BY <1>1, <1>2, <1>4, <2>1
<1>5. block_size(order) <= block_size(from)
  BY <1>1, SizeGrows
<1>6. x <= p /\ p < x + block_size(order) => p < x + block_size(from)
  BY <1>1, <1>2, <1>5
<1> QED BY <1>3, <1>4, <1>6

LEMMA SplitApart ==
  ASSUME NEW x \in Nat, NEW order \in Orders, NEW from \in Orders, order <= from
  PROVE  LET N == {Block(x, order)} \cup Halves(x, order, from)
         IN  /\ N \subseteq Blocks /\ Apart(N) /\ Block(x, order) \notin Halves(x, order, from)
             /\ \A p : (\E b \in N : p \in BlockBytes(b)) <=>
                         p \in BlockBytes(Block(x, from))
<1> DEFINE H == Halves(x, order, from)
           N == {Block(x, order)} \cup H
<1>1. \A n \in Nat : block_size(n) \in Nat /\ block_size(n) > 0
  BY SizeNat
<1>2. ASSUME NEW o \in order..(from - 1)
      PROVE  /\ x + block_size(o) \in Nat /\ o \in Orders
             /\ Block(x + block_size(o), o) \in Blocks
             /\ \A p : p \in BlockBytes(Block(x + block_size(o), o)) <=>
                  p \in Nat /\ x + block_size(o) <= p /\ p < x + block_size(o) + block_size(o)
  <2>1. o \in Orders /\ o \in Nat
    BY HalfOrders
  <2>2. x + block_size(o) \in Nat
    BY <1>1, <2>1
  <2> QED BY <2>1, <2>2, BlockIs
<1>3. /\ Block(x, order) \in Blocks
      /\ \A p : p \in BlockBytes(Block(x, order)) <=>
                  p \in Nat /\ x <= p /\ p < x + block_size(order)
      /\ \A p : p \in BlockBytes(Block(x, from)) <=>
                  p \in Nat /\ x <= p /\ p < x + block_size(from)
  BY BlockIs
<1>4. N \subseteq Blocks
  BY <1>2, <1>3 DEF Halves
<1>5. ASSUME NEW o \in order..(from - 1), NEW p, p \in BlockBytes(Block(x + block_size(o), o))
      PROVE  p \notin BlockBytes(Block(x, order))
  <2>1. o \in Nat /\ block_size(order) <= block_size(o) /\ order \in Nat
    BY HalfOrders, OrderNat
  <2>2. p \in Nat /\ x + block_size(o) <= p
    BY <1>2, <1>5
  <2>3. ~(p < x + block_size(order))
    BY <1>1, <2>1, <2>2
  <2> QED BY <1>3, <2>3
<1>6. ASSUME NEW o \in order..(from - 1), NEW q \in order..(from - 1), o < q, NEW p,
             p \in BlockBytes(Block(x + block_size(o), o)),
             p \in BlockBytes(Block(x + block_size(q), q))
      PROVE  FALSE
  <2>1. o \in Nat /\ q \in Nat
    BY HalfOrders
  <2>2. 2 * block_size(o) <= block_size(q)
    BY <1>6, <2>1, SizeGrows
  <2>3. p \in Nat /\ p < x + block_size(o) + block_size(o) /\ x + block_size(q) <= p
    BY <1>2, <1>6
  <2> QED BY <1>1, <2>1, <2>2, <2>3
<1>7. ASSUME NEW o \in order..(from - 1), NEW q \in order..(from - 1), NEW p,
             p \in BlockBytes(Block(x + block_size(o), o)),
             p \in BlockBytes(Block(x + block_size(q), q))
      PROVE  o = q
  <2>1. o \in Nat /\ q \in Nat
    BY HalfOrders
  <2> QED BY <1>6, <1>7, <2>1
<1>8. Apart(N)
  BY <1>5, <1>7 DEF Apart, Halves
<1>9. Block(x, order) \notin H
  <2>1. x \in BlockBytes(Block(x, order))
    BY <1>1, <1>3, OrderNat
  <2>2. \A o \in order..(from - 1) : x \notin BlockBytes(Block(x + block_size(o), o))
    BY <1>5, <2>1
  <2> QED BY <2>1, <2>2 DEF Halves
<1>10. ASSUME NEW p PROVE (\E b \in N : p \in BlockBytes(b)) <=> p \in BlockBytes(Block(x, from))
  <2>1. (\E b \in N : p \in BlockBytes(b)) <=>
          \/ p \in BlockBytes(Block(x, order))
          \/ \E o \in order..(from - 1) : p \in BlockBytes(Block(x + block_size(o), o))
    BY DEF Halves
  <2>2. CASE p \in Nat
    BY <1>2, <1>3, <2>1, <2>2, SplitCovers
  <2>3. CASE p \notin Nat
    BY <1>2, <1>3, <2>1, <2>3
  <2> QED BY <2>2, <2>3
<1> QED BY <1>4, <1>8, <1>9, <1>10

(* Two sets of blocks over the same bytes.                                 *)
SameBytes(S, T) ==
  \A p : (\E b \in S : p \in BlockBytes(b)) <=> (\E b \in T : p \in BlockBytes(b))

(* Replacing some blocks by others over the same bytes.                    *)
LEMMA Regroup ==
  ASSUME NEW S, S \subseteq Blocks, NEW R, R \subseteq S, NEW N, N \subseteq Blocks,
         Apart(S), Apart(N), SameBytes(N, R)
  PROVE  /\ Apart((S \ R) \cup N)
         /\ (S \ R) \cap N = {}
         /\ SameBytes((S \ R) \cup N, S)
<1>1. \A b \in Blocks : \A p : p \in BlockBytes(b) => p \in Nat
  BY BlockTyped
<1>2. ASSUME NEW x \in S \ R, NEW y \in N, NEW p, p \in BlockBytes(x), p \in BlockBytes(y)
      PROVE  FALSE
  <2>1. PICK r \in R : p \in BlockBytes(r)
    BY <1>2 DEF SameBytes
  <2>2. p \in Nat /\ r \in S /\ x \in S
    BY <1>1, <1>2, <2>1
  <2>3. r = x
    BY <1>2, <2>1, <2>2 DEF Apart
  <2> QED BY <2>1, <2>3
<1>3. Apart((S \ R) \cup N)
  <2> SUFFICES ASSUME NEW x \in (S \ R) \cup N, NEW y \in (S \ R) \cup N, NEW p \in Nat,
                      p \in BlockBytes(x), p \in BlockBytes(y)
               PROVE  x = y
    BY DEF Apart
  <2>1. CASE x \in S \ R /\ y \in S \ R
    BY <2>1 DEF Apart
  <2>2. CASE x \in N /\ y \in N
    BY <2>2 DEF Apart
  <2> QED BY <1>2, <2>1, <2>2
<1>4. \A b \in N : b.addr \in BlockBytes(b)
  BY BlockTyped
<1>5. (S \ R) \cap N = {}
  BY <1>2, <1>4
<1>6. SameBytes((S \ R) \cup N, S)
  BY DEF SameBytes
<1> QED BY <1>3, <1>5, <1>6

----------------------------------------------------------------------------
(* What dealloc does: the freed block and the buddies it meets on its way  *)
(* up become the block of order top around them.                           *)

EncNum(z, x, o) == (x - z.base) \div block_size(o)

LEMMA EnclosingNumbered ==
  ASSUME NEW z \in Zones, NEW x \in Nat, z.base <= x, x < z.base + block_size(z.order),
         NEW o \in Orders, o <= z.order
  PROVE  /\ EncNum(z, x, o) \in Nat
         /\ Enclosing(z, x, o) = z.base + EncNum(z, x, o) * block_size(o)
         /\ Enclosing(z, x, o) \in Nat
         /\ Numbered(z, Block(Enclosing(z, x, o), o), EncNum(z, x, o))
<1> DEFINE d == block_size(o)
           y == x - z.base
           q == EncNum(z, x, o)
<1>1. /\ z.base \in Nat /\ z.order \in Nat /\ o \in Nat /\ d \in Nat /\ d > 0
      /\ block_size(z.order) \in Nat
  BY OrderNat, SizeNat DEF Zones
<1>2. y \in Nat /\ y < block_size(z.order)
  BY <1>1
<1>3. q \in Nat /\ y % d \in Nat /\ y = q * d + (y % d)
  BY <1>1, <1>2, Divided, Zenon DEF EncNum
<1>4. Enclosing(z, x, o) = z.base + q * d
  BY DEF Enclosing, EncNum
<1>5. PICK k \in Nat : block_size(z.order) = k * d
  BY <1>1, SizeMultiple, Zenon
<1> HIDE DEF y, q, d
<1>6. PICK u \in Nat : u = q * d
  BY <1>1, <1>3
<1>7. u < block_size(z.order)
  BY <1>1, <1>2, <1>3, <1>6
<1>8. q < k
  <2>1. q * d < k * d
    BY <1>5, <1>6, <1>7
  <2> QED BY <1>1, <1>3, <2>1, MulLe
<1>9. (q + 1) * d <= block_size(z.order)
  <2>1. q + 1 \in Int /\ k \in Int /\ q + 1 <= k
    BY <1>3, <1>8
  <2>2. (q + 1) * d <= k * d
    BY <1>1, <2>1, MulLe
  <2> QED BY <1>5, <2>2
<1>10. Enclosing(z, x, o) \in Nat
  BY <1>1, <1>4, <1>6
<1>11. Block(Enclosing(z, x, o), o).order = o /\ Block(Enclosing(z, x, o), o).addr = Enclosing(z, x, o)
  BY DEF Block
<1> QED BY <1>3, <1>4, <1>9, <1>10, <1>11 DEF Numbered, q, d

LEMMA EncNumHalves ==
  ASSUME NEW z \in Zones, NEW x \in Nat, z.base <= x, NEW o \in Orders
  PROVE  EncNum(z, x, o + 1) = EncNum(z, x, o) \div 2 /\ EncNum(z, x, o) \in Nat
<1> DEFINE d == block_size(o)
           y == x - z.base
           q == EncNum(z, x, o)
           r == y % d
<1>1. z.base \in Nat /\ o \in Nat /\ d \in Nat /\ d > 0 /\ y \in Nat /\ block_size(o + 1) = 2 * d
  BY OrderNat, SizeDoubles DEF Zones
<1>2. q \in Nat /\ r \in Nat /\ r < d /\ y = q * d + r
  BY <1>1, Divided, Zenon DEF EncNum
<1>3. EncNum(z, x, o + 1) = y \div (2 * d)
  BY <1>1 DEF EncNum
<1> HIDE DEF d, y, q, r
<1>4. PICK s \in Nat : s = q \div 2 /\ (q = 2 * s \/ q = 2 * s + 1)
  BY <1>2
<1>5. PICK w \in Nat : w < 2 * d /\ y = s * (2 * d) + w
  <2>1. CASE q = 2 * s
    <3>1. q * d = s * (2 * d)
      BY <1>1, <2>1
    <3>2. y = s * (2 * d) + r /\ r < 2 * d
      BY <1>1, <1>2, <3>1
    <3> QED BY <1>2, <3>2
  <2>2. CASE q = 2 * s + 1
    <3>1. q * d = s * (2 * d) + d /\ s * (2 * d) \in Nat
      BY <1>1, <2>2
    <3>2. d + r \in Nat /\ d + r < 2 * d
      BY <1>1, <1>2
    <3>3. y = s * (2 * d) + (d + r)
      <4>1. PICK u \in Nat : u = s * (2 * d)
        BY <3>1
      <4>2. y = u + d + r
        BY <1>2, <3>1, <4>1
      <4>3. y = u + (d + r)
        BY ONLY <1>1, <1>2, <4>2, u \in Nat
      <4> QED BY <4>1, <4>3
    <3> QED BY <3>2, <3>3
  <2> QED BY <1>4, <2>1, <2>2
<1>6. 2 * d \in Nat /\ 2 * d > 0
  BY <1>1
<1>7. y \div (2 * d) = s
  BY <1>5, <1>6, DivUnique
<1> QED BY <1>2, <1>3, <1>4, <1>7 DEF q

(* The block around x of the next order is the pair of buddies.            *)
LEMMA PairOfBuddies ==
  ASSUME NEW z \in Zones, NEW x \in Nat, z.base <= x, x < z.base + block_size(z.order),
         NEW o \in Orders, o < z.order
  PROVE  /\ o + 1 \in Orders /\ o + 1 <= z.order
         /\ Buddy(z, x, o) = z.base + Flip(EncNum(z, x, o)) * block_size(o)
         /\ Buddy(z, x, o) \in Nat /\ Flip(EncNum(z, x, o)) \in Nat
         /\ Numbered(z, Block(Buddy(z, x, o), o), Flip(EncNum(z, x, o)))
         /\ Buddy(z, x, o) # Enclosing(z, x, o)
         /\ \A p : p \in BlockBytes(Block(Enclosing(z, x, o + 1), o + 1)) <=>
                     \/ p \in BlockBytes(Block(Enclosing(z, x, o), o))
                     \/ p \in BlockBytes(Block(Buddy(z, x, o), o))
<1> DEFINE d == block_size(o)
           m == EncNum(z, x, o)
           e == Enclosing(z, x, o)
           f == Enclosing(z, x, o + 1)
           g == Buddy(z, x, o)
<1>1. /\ z.base \in Nat /\ z.order \in Orders /\ z.order \in Nat /\ o \in Nat
      /\ d \in Nat /\ d > 0 /\ block_size(o + 1) = 2 * d
  BY OrderNat, SizeDoubles DEF Zones
<1>2. o + 1 \in Orders /\ o + 1 <= z.order /\ o <= z.order
  BY <1>1, OrderNat, BuddyAssumption DEF Orders
<1>3. m \in Nat /\ e = z.base + m * d /\ e \in Nat /\ Numbered(z, Block(e, o), m)
  BY <1>1, <1>2, EnclosingNumbered
<1>4. f = z.base + EncNum(z, x, o + 1) * (2 * d) /\ f \in Nat
  BY <1>1, <1>2, EnclosingNumbered
<1>5. EncNum(z, x, o + 1) = m \div 2
  BY <1>1, EncNumHalves
<1>6. Block(e, o).addr = e /\ Block(e, o).order = o
  BY DEF Block
<1>7. /\ g = z.base + Flip(m) * d /\ (Flip(m) + 1) * d <= block_size(z.order)
      /\ Flip(m) \in Nat
  <2>1. g = buddy_addr(z, e, o)
    BY DEF Buddy
  <2>2. /\ Block(e, o).order \in Nat /\ Block(e, o).order < z.order
    BY <1>1, <1>6
  <2>3. /\ buddy_addr(z, Block(e, o).addr, Block(e, o).order)
             = z.base + Flip(m) * block_size(Block(e, o).order)
        /\ (Flip(m) + 1) * block_size(Block(e, o).order) <= block_size(z.order)
        /\ Flip(m) \in Nat
    BY <1>3, <2>2, BuddyNumber
  <2> QED BY <1>6, <2>1, <2>3
<1> HIDE DEF e, f, g, m, d
<1>8. PICK s \in Nat : /\ s = m \div 2
                       /\ (m = 2 * s /\ Flip(m) = 2 * s + 1) \/ (m = 2 * s + 1 /\ Flip(m) = 2 * s)
  BY <1>3, FlipFacts
<1>9. PICK u \in Nat : /\ u = s * (2 * d) /\ u = (2 * s) * d
                       /\ u + d = (2 * s + 1) * d
  BY <1>1, <1>8
<1>10. /\ f = z.base + u
       /\ \/ e = z.base + u /\ g = z.base + (u + d)
          \/ e = z.base + (u + d) /\ g = z.base + u
  BY <1>3, <1>4, <1>5, <1>7, <1>8, <1>9
<1>11. g \in Nat /\ g # e
  BY <1>1, <1>10
<1>12. \A p : p \in BlockBytes(Block(f, o + 1)) <=>
                p \in BlockBytes(Block(e, o)) \/ p \in BlockBytes(Block(g, o))
  <2>1. /\ \A p : p \in BlockBytes(Block(f, o + 1)) <=> p \in Nat /\ f <= p /\ p < f + 2 * d
        /\ \A p : p \in BlockBytes(Block(e, o)) <=> p \in Nat /\ e <= p /\ p < e + d
        /\ \A p : p \in BlockBytes(Block(g, o)) <=> p \in Nat /\ g <= p /\ p < g + d
    BY <1>1, <1>2, <1>3, <1>4, <1>11, BlockIs DEF d
  <2>2. \A p \in Nat : (f <= p /\ p < f + 2 * d) <=>
                         (e <= p /\ p < e + d) \/ (g <= p /\ p < g + d)
    BY <1>1, <1>10
  <2> QED BY <2>1, <2>2
<1>13. Block(g, o).addr = g /\ Block(g, o).order = o
  BY DEF Block
<1>14. Numbered(z, Block(g, o), Flip(m))
  BY <1>2, <1>7, <1>13 DEF Numbered, d
<1> QED BY <1>2, <1>7, <1>11, <1>12, <1>14 DEF e, f, g, m, d

Buddies(z, x, order, top) == {Block(Buddy(z, x, o), o) : o \in order..(top - 1)}

LEMMA EnclosingSelf ==
  ASSUME NEW z \in Zones, NEW x \in Nat, NEW order \in Orders, NEW m \in Nat,
         Numbered(z, Block(x, order), m)
  PROVE  /\ Enclosing(z, x, order) = x /\ EncNum(z, x, order) = m
         /\ z.base <= x /\ x < z.base + block_size(z.order) /\ order <= z.order
<1> DEFINE d == block_size(order)
<1>1. z.base \in Nat /\ d \in Nat /\ d > 0 /\ block_size(z.order) \in Nat
  BY OrderNat DEF Zones
<1>2. x = z.base + m * d /\ order <= z.order /\ (m + 1) * d <= block_size(z.order)
  BY DEF Numbered, Block
<1> HIDE DEF d
<1>3. PICK u \in Nat : u = m * d /\ u + d = (m + 1) * d
  BY <1>1
<1>4. /\ x - z.base = u /\ z.base <= x /\ x < z.base + block_size(z.order)
  <2>1. x = z.base + u /\ u + d <= block_size(z.order)
    BY <1>2, <1>3
  <2> QED BY ONLY <1>1, <2>1, u \in Nat
<1>5. u \div d = m
  <2>1. m * d + 0 = u /\ 0 \in Nat /\ 0 < d
    BY <1>1, <1>3
  <2> QED BY <1>1, <2>1, DivUnique
<1>6. EncNum(z, x, order) = m
  BY <1>4, <1>5 DEF EncNum, d
<1>7. Enclosing(z, x, order) = x
  BY <1>2, <1>4, <1>5 DEF Enclosing, d
<1> QED BY <1>2, <1>4, <1>6, <1>7

LEMMA MergeCovers ==
  ASSUME NEW z \in Zones, NEW x \in Nat, NEW order \in Orders, NEW m \in Nat,
         Numbered(z, Block(x, order), m), NEW top \in Orders, order <= top, top <= z.order
  PROVE  \A p : p \in BlockBytes(Block(Enclosing(z, x, top), top)) <=>
                  \E b \in {Block(x, order)} \cup Buddies(z, x, order, top) : p \in BlockBytes(b)
<1> DEFINE Covered(o) ==
             \A p : p \in BlockBytes(Block(Enclosing(z, x, o), o)) <=>
                      \/ p \in BlockBytes(Block(x, order))
                      \/ \E j \in order..(o - 1) : p \in BlockBytes(Block(Buddy(z, x, j), j))
           S == {n \in Nat : order + n <= top => Covered(order + n)}
<1>1. /\ order \in Nat /\ top \in Nat /\ z.order \in Nat /\ z.order \in Orders
      /\ Enclosing(z, x, order) = x
      /\ z.base <= x /\ x < z.base + block_size(z.order)
      /\ MIN_ORDER <= order /\ top <= MAX_ORDER /\ MIN_ORDER \in Nat /\ MAX_ORDER \in Nat
  BY OrderNat, EnclosingSelf, BuddyAssumption DEF Zones
<1>2. 0 \in S
  <2>1. order + 0 = order /\ ~(\E j \in order..(order - 1) : TRUE)
    BY <1>1
  <2>2. Covered(order)
    BY <1>1, <2>1
  <2> HIDE DEF Covered
  <2> QED BY <2>1, <2>2
<1>3. ASSUME NEW n \in S PROVE n + 1 \in S
  <2>1. n \in Nat /\ n + 1 \in Nat /\ (order + n <= top => Covered(order + n))
    OBVIOUS
  <2>2. ASSUME order + (n + 1) <= top PROVE Covered(order + (n + 1))
    <3> DEFINE o == order + n
    <3>1. o \in Nat /\ order + (n + 1) = o + 1 /\ o < top /\ o < z.order /\ o <= top
      BY <1>1, <2>1, <2>2
    <3>2. o \in Orders
      BY <1>1, <2>1, <3>1 DEF Orders
    <3>3. Covered(o)
      BY <2>1, <3>1
    <3>4. \A p : p \in BlockBytes(Block(Enclosing(z, x, o + 1), o + 1)) <=>
                   \/ p \in BlockBytes(Block(Enclosing(z, x, o), o))
                   \/ p \in BlockBytes(Block(Buddy(z, x, o), o))
      BY <1>1, <3>1, <3>2, PairOfBuddies
    <3>5. \A j : j \in order..((o + 1) - 1) <=> j \in order..(o - 1) \/ j = o
      BY <1>1, <2>1
    <3> HIDE DEF o
    <3>6. Covered(o + 1)
      BY <3>3, <3>4, <3>5
    <3> QED BY <3>1, <3>6
  <2> HIDE DEF Covered
  <2> QED BY <2>1, <2>2
<1>4. S \in SUBSET Nat
  OBVIOUS
<1> HIDE DEF S
<1>5. S = Nat
  BY ONLY <1>2, <1>3, <1>4, SetInduction
<1> HIDE DEF Covered
<1>6. Covered(top)
  <2>1. top - order \in Nat /\ order + (top - order) = top
    BY <1>1
  <2>2. top - order \in S
    BY <1>5, <2>1
  <2>3. order + (top - order) <= top => Covered(order + (top - order))
    BY <2>2 DEF S
  <2>4. Covered(order + (top - order))
    BY <1>1, <2>1, <2>3
  <2> QED BY <2>1, <2>4, Zenon
<1> QED BY <1>6 DEF Covered, Buddies

----------------------------------------------------------------------------
(* Free lists.                                                             *)

Elems(list) == {list[i] : i \in 1..Len(list)}

NoDup(list) == \A i, j \in 1..Len(list) : list[i] = list[j] => i = j

LEMMA PushFacts ==
  ASSUME NEW list \in Seq(Nat), NEW x \in Nat
  PROVE  /\ push_free_block(list, x) \in Seq(Nat)
         /\ Elems(push_free_block(list, x)) = Elems(list) \cup {x}
         /\ NoDup(list) /\ x \notin Elems(list) => NoDup(push_free_block(list, x))
<1> DEFINE t == push_free_block(list, x)
<1>1. <<x>> \in Seq(Nat) /\ Len(<<x>>) = 1 /\ <<x>>[1] = x
  OBVIOUS
<1>2. t \in Seq(Nat) /\ Len(t) = Len(list) + 1 /\ Len(list) \in Nat
  BY <1>1 DEF push_free_block
<1>3. \A i \in 1..(Len(list) + 1) :
        IF i = 1 THEN t[i] = x ELSE i - 1 \in 1..Len(list) /\ t[i] = list[i - 1]
  BY <1>1 DEF push_free_block
<1> HIDE DEF t
<1>4. \A i \in 1..Len(list) : i + 1 \in 1..Len(t) /\ t[i + 1] = list[i]
  <2> SUFFICES ASSUME NEW i \in 1..Len(list)
               PROVE  i + 1 \in 1..Len(t) /\ t[i + 1] = list[i]
    OBVIOUS
  <2>1. i + 1 \in 1..(Len(list) + 1) /\ i + 1 # 1 /\ (i + 1) - 1 = i
    BY <1>2
  <2> QED BY ONLY <1>2, <1>3, <2>1
<1>5. 1 \in 1..Len(t) /\ t[1] = x
  BY <1>2, <1>3
<1>6. Elems(t) = Elems(list) \cup {x}
  <2>1. \A y : y \in Elems(t) => y \in Elems(list) \cup {x}
    <3>1. \A i \in 1..Len(t) : t[i] = x \/ \E k \in 1..Len(list) : t[i] = list[k]
      BY <1>2, <1>3
    <3> QED BY ONLY <3>1 DEF Elems
  <2>2. \A y : y \in Elems(list) \cup {x} => y \in Elems(t)
    BY <1>4, <1>5, Zenon DEF Elems
  <2> QED BY <2>1, <2>2
<1>7. ASSUME NoDup(list), x \notin Elems(list) PROVE NoDup(t)
  <2> SUFFICES ASSUME NEW i \in 1..Len(t), NEW j \in 1..Len(t), t[i] = t[j] PROVE i = j
    BY DEF NoDup
  <2>1. \A k \in 1..Len(list) : list[k] # x
    BY <1>7 DEF Elems
  <2>2. CASE i = 1
    BY <1>2, <1>3, <2>1, <2>2
  <2>3. CASE i # 1
    <3>1. i - 1 \in 1..Len(list) /\ t[i] = list[i - 1] /\ i \in Nat
      BY <1>2, <1>3, <2>3
    <3>2. j # 1
      BY <1>2, <1>3, <2>1, <3>1, Zenon
    <3>3. j - 1 \in 1..Len(list) /\ t[j] = list[j - 1] /\ j \in Nat
      <4>1. j \in 1..(Len(list) + 1) /\ j \in Nat
        BY <1>2
      <4> QED BY ONLY <1>3, <3>2, <4>1
    <3>4. i - 1 = j - 1
      BY <1>7, <3>1, <3>3, Zenon DEF NoDup
    <3> QED BY <3>1, <3>3, <3>4
  <2> QED BY <2>2, <2>3
<1> QED BY <1>2, <1>6, <1>7 DEF t

LEMMA PopFacts ==
  ASSUME NEW list \in Seq(Nat), list # <<>>, NoDup(list)
  PROVE  /\ Tail(list) \in Seq(Nat) /\ Head(list) \in Nat /\ Head(list) \in Elems(list)
         /\ Elems(Tail(list)) = Elems(list) \ {Head(list)} /\ NoDup(Tail(list))
<1> DEFINE t == Tail(list)
<1>1. /\ t \in Seq(Nat) /\ Len(t) = Len(list) - 1 /\ Len(list) \in Nat /\ Len(list) > 0
      /\ Head(list) = list[1]
  OBVIOUS
<1>2. \A i \in 1..(Len(list) - 1) : i + 1 \in 1..Len(list) /\ t[i] = list[i + 1]
  BY <1>1
<1> HIDE DEF t
<1>3. 1 \in 1..Len(list) /\ list[1] \in Nat /\ list[1] \in Elems(list)
  BY <1>1 DEF Elems
<1>4. \A i \in 1..Len(list) : i # 1 => i - 1 \in 1..Len(t) /\ t[i - 1] = list[i]
  <2> SUFFICES ASSUME NEW i \in 1..Len(list), i # 1
               PROVE  i - 1 \in 1..Len(t) /\ t[i - 1] = list[i]
    OBVIOUS
  <2>1. i - 1 \in 1..(Len(list) - 1) /\ (i - 1) + 1 = i
    BY <1>1
  <2> QED BY ONLY <1>1, <1>2, <2>1
<1>5. \A i \in 1..Len(t) : t[i] # list[1]
  <2> SUFFICES ASSUME NEW i \in 1..Len(t) PROVE t[i] # list[1]
    OBVIOUS
  <2>1. i \in 1..(Len(list) - 1) /\ i \in Nat /\ i + 1 # 1
    BY <1>1
  <2>2. i + 1 \in 1..Len(list) /\ t[i] = list[i + 1]
    BY ONLY <1>2, <2>1
  <2> QED BY <1>3, <2>1, <2>2 DEF NoDup
<1>6. Elems(t) = Elems(list) \ {list[1]}
  <2>1. \A y : y \in Elems(t) => y \in Elems(list) /\ y # list[1]
    BY <1>1, <1>2, <1>5 DEF Elems
  <2>2. \A y : y \in Elems(list) /\ y # list[1] => y \in Elems(t)
    BY <1>4 DEF Elems
  <2> QED BY <2>1, <2>2
<1>7. NoDup(t)
  <2> SUFFICES ASSUME NEW i \in 1..Len(t), NEW j \in 1..Len(t), t[i] = t[j] PROVE i = j
    BY DEF NoDup
  <2>1. i \in 1..(Len(list) - 1) /\ j \in 1..(Len(list) - 1) /\ i \in Nat /\ j \in Nat
    BY <1>1
  <2>2. /\ i + 1 \in 1..Len(list) /\ t[i] = list[i + 1]
        /\ j + 1 \in 1..Len(list) /\ t[j] = list[j + 1]
    BY ONLY <1>2, <2>1
  <2>3. i + 1 = j + 1
    BY <2>2, Zenon DEF NoDup
  <2> QED BY <2>1, <2>3
<1> QED BY <1>1, <1>3, <1>6, <1>7 DEF t

LEMMA RemoveFacts ==
  ASSUME NEW list \in Seq(Nat), NoDup(list), NEW x \in Elems(list)
  PROVE  /\ remove_free_block(list, x) \in Seq(Nat)
         /\ Elems(remove_free_block(list, x)) = Elems(list) \ {x}
         /\ NoDup(remove_free_block(list, x))
<1> DEFINE D == {i \in 1..Len(list) : list[i] = x}
           at == SmallestOf(D)
           t == remove_free_block(list, x)
<1>1. D \in SUBSET Nat /\ D # {} /\ Len(list) \in Nat
  BY DEF Elems
<1>2. at \in D
  BY <1>1, Smallest, Zenon
<1>3. at \in 1..Len(list) /\ list[at] = x
  BY <1>2
<1>4. t = [i \in 1..(Len(list) - 1) |-> list[IF i < at THEN i ELSE i + 1]]
  BY <1>3 DEF remove_free_block, Holds
<1> HIDE DEF at, t
<1>5. \A i \in 1..(Len(list) - 1) :
        LET k == IF i < at THEN i ELSE i + 1
        IN  k \in 1..Len(list) /\ k # at /\ t[i] = list[k]
  BY <1>1, <1>3, <1>4
<1>6. t \in [1..(Len(list) - 1) -> Nat]
  BY <1>4, <1>5
<1>7. Len(list) - 1 \in Nat
  BY <1>1, <1>3
<1>8. t \in Seq(Nat) /\ Len(t) = Len(list) - 1
  <2>1. \A n \in Nat : t \in [1..n -> Nat] => t \in Seq(Nat) /\ Len(t) = n
    OBVIOUS
  <2> QED BY <1>6, <1>7, <2>1
<1>9. \A i \in 1..Len(list) : i # at => list[i] # x
  BY <1>3 DEF NoDup
<1>10. ASSUME NEW i \in 1..Len(list), i # at
       PROVE  \E j \in 1..(Len(list) - 1) : t[j] = list[i]
  <2>1. CASE i < at
    <3>1. i \in 1..(Len(list) - 1)
      BY <1>1, <1>3, <2>1
    <3> QED BY <1>5, <2>1, <3>1
  <2>2. CASE ~(i < at)
    <3>1. i - 1 \in 1..(Len(list) - 1) /\ ~(i - 1 < at) /\ (i - 1) + 1 = i
      BY <1>1, <1>3, <1>10, <2>2
    <3>2. t[i - 1] = list[i]
      BY <1>4, <3>1
    <3> QED BY <3>1, <3>2
  <2> QED BY <2>1, <2>2
<1>11. Elems(t) = Elems(list) \ {x}
  <2>1. \A y : y \in Elems(t) => y \in Elems(list) /\ y # x
    BY <1>5, <1>8, <1>9, Zenon DEF Elems
  <2>2. \A y : y \in Elems(list) /\ y # x => y \in Elems(t)
    BY <1>3, <1>8, <1>10, Zenon DEF Elems
  <2> QED BY <2>1, <2>2
<1>12. NoDup(t)
  <2> SUFFICES ASSUME NEW i \in 1..Len(t), NEW j \in 1..Len(t), t[i] = t[j] PROVE i = j
    BY DEF NoDup
  <2>1. i \in 1..(Len(list) - 1) /\ j \in 1..(Len(list) - 1) /\ i \in Nat /\ j \in Nat
    BY <1>1, <1>8
  <2> DEFINE k == IF i < at THEN i ELSE i + 1
             l == IF j < at THEN j ELSE j + 1
  <2>2. k \in 1..Len(list) /\ t[i] = list[k] /\ l \in 1..Len(list) /\ t[j] = list[l]
    BY ONLY <1>5, <2>1
  <2>3. k = l
    <3> HIDE DEF k, l
    <3> QED BY <2>2, Zenon DEF NoDup
  <2>4. at \in Nat
    BY <1>3
  <2> QED BY ONLY <2>1, <2>3, <2>4
<1> QED BY <1>8, <1>11, <1>12 DEF t

(* The blocks on the lists.                                                *)
FreeOf(fl) ==
  UNION {{[addr |-> fl[o][i], order |-> o] : i \in 1..Len(fl[o])} : o \in Orders}

LEMMA FreeOfFacts ==
  ASSUME NEW fl \in [Orders -> Seq(Nat)]
  PROVE  /\ FreeOf(fl) \subseteq Blocks
         /\ \A o \in Orders : \A x : Block(x, o) \in FreeOf(fl) <=> x \in Elems(fl[o])
         /\ \A b \in FreeOf(fl) : b.order \in Orders /\ b.addr \in Elems(fl[b.order])
<1>1. \A o \in Orders : \A i \in 1..Len(fl[o]) : fl[o][i] \in Nat
  OBVIOUS
<1>2. ASSUME NEW b \in FreeOf(fl)
      PROVE  b \in Blocks /\ b.order \in Orders /\ b.addr \in Elems(fl[b.order])
  <2>1. PICK o \in Orders : \E i \in 1..Len(fl[o]) : b = [addr |-> fl[o][i], order |-> o]
    BY DEF FreeOf
  <2>2. PICK i \in 1..Len(fl[o]) : b = [addr |-> fl[o][i], order |-> o]
    BY <2>1
  <2>3. fl[o][i] \in Nat /\ fl[o][i] \in Elems(fl[o])
    BY <1>1 DEF Elems
  <2>4. b.addr = fl[o][i] /\ b.order = o
    BY <2>2
  <2>5. b \in Blocks
    BY <2>2, <2>3 DEF Blocks
  <2> QED BY <2>3, <2>4, <2>5
<1>3. ASSUME NEW o \in Orders, NEW x, Block(x, o) \in FreeOf(fl) PROVE x \in Elems(fl[o])
  <2>1. Block(x, o).order = o /\ Block(x, o).addr = x
    BY DEF Block
  <2> QED BY <1>2, <1>3, <2>1
<1>4. ASSUME NEW o \in Orders, NEW x \in Elems(fl[o]) PROVE Block(x, o) \in FreeOf(fl)
  <2>1. PICK i \in 1..Len(fl[o]) : x = fl[o][i]
    BY DEF Elems
  <2> QED BY <2>1 DEF Block, FreeOf
<1> QED BY <1>2, <1>3, <1>4

----------------------------------------------------------------------------
(* Zones, and the blocks in them.                                          *)

LEMMA ZoneTyped ==
  ASSUME BuddyTypes, NEW z \in ZoneSet
  PROVE  /\ z \in Zones /\ z.base \in Nat /\ z.order \in Orders /\ z.order \in Nat
         /\ block_size(z.order) \in Nat /\ block_size(z.order) > 0
         /\ \A p : p \in ZoneBytes(z) <=>
                     p \in Nat /\ z.base <= p /\ p < z.base + block_size(z.order)
<1>1. z \in Zones
  <2>1. PICK i \in 1..Len(zones) : z = zones[i]
    BY DEF ZoneSet
  <2>2. zones \in Seq(Zones)
    BY DEF BuddyTypes, Zones
  <2> QED BY <2>1, <2>2
<1>2. z.base \in Nat /\ z.order \in Orders
  BY <1>1 DEF Zones
<1>3. z.order \in Nat /\ block_size(z.order) \in Nat /\ block_size(z.order) > 0
  BY <1>2, OrderNat
<1>4. \A p : p \in ZoneBytes(z) <=> p \in Nat /\ z.base <= p /\ p < z.base + block_size(z.order)
  BY <1>2, <1>3 DEF ZoneBytes
<1> QED BY <1>1, <1>2, <1>3, <1>4

LEMMA ZonesApart ==
  ASSUME BuddyTypes, ZonesInv, NEW y \in ZoneSet, NEW z \in ZoneSet, NEW p,
         p \in ZoneBytes(y), p \in ZoneBytes(z)
  PROVE  y = z
<1>1. PICK i \in 1..Len(zones) : y = zones[i]
  BY DEF ZoneSet
<1>2. PICK j \in 1..Len(zones) : z = zones[j]
  BY DEF ZoneSet
<1>3. /\ p \in Nat /\ y.base <= p /\ p < y.base + block_size(y.order)
      /\ z.base <= p /\ p < z.base + block_size(z.order)
      /\ {y.base, z.base, block_size(y.order), block_size(z.order)} \subseteq Nat
  BY ZoneTyped
<1>4. ~(i < j)
  <2>1. i < j => y.base + block_size(y.order) <= z.base
    BY <1>1, <1>2 DEF ZonesInv
  <2> QED BY ONLY <1>3, <2>1
<1>5. ~(j < i)
  <2>1. j < i => z.base + block_size(z.order) <= y.base
    BY <1>1, <1>2 DEF ZonesInv
  <2> QED BY ONLY <1>3, <2>1
<1>6. i = j
  BY <1>4, <1>5
<1> QED BY <1>1, <1>2, <1>6

LEMMA ZoneFor ==
  ASSUME BuddyTypes, ZonesInv, NEW z \in ZoneSet, NEW p, p \in ZoneBytes(z)
  PROVE  zone_for(p) = z
<1>1. z.base <= p /\ p < z.base + block_size(z.order) /\ p \in Nat
  BY ZoneTyped
<1>2. ASSUME NEW y \in ZoneSet, y.base <= p, p < y.base + block_size(y.order) PROVE y = z
  <2>1. p \in ZoneBytes(y)
    BY <1>1, <1>2, ZoneTyped
  <2> QED BY <2>1, ZonesApart
<1> QED BY <1>1, <1>2 DEF zone_for, ZoneSet

LEMMA InsideBytes ==
  ASSUME BuddyTypes, NEW z \in ZoneSet, NEW b \in Blocks, Inside(z, b)
  PROVE  \A p : p \in BlockBytes(b) => p \in ZoneBytes(z)
<1>1. /\ z.base \in Nat /\ block_size(z.order) \in Nat
      /\ \A p : p \in ZoneBytes(z) <=> p \in Nat /\ z.base <= p /\ p < z.base + block_size(z.order)
  BY ZoneTyped
<1>2. /\ b.addr \in Nat /\ block_size(b.order) \in Nat
      /\ \A p : p \in BlockBytes(b) <=> p \in Nat /\ b.addr <= p /\ p < b.addr + block_size(b.order)
  BY BlockTyped
<1>3. z.base <= b.addr /\ b.addr + block_size(b.order) <= z.base + block_size(z.order)
  BY DEF Inside
<1> QED BY <1>1, <1>2, <1>3

(* A block lies in one zone only.                                          *)
LEMMA OneZone ==
  ASSUME BuddyTypes, ZonesInv, NEW y \in ZoneSet, NEW z \in ZoneSet,
         NEW b \in Blocks, Inside(y, b), Inside(z, b)
  PROVE  y = z
<1>1. b.addr \in ZoneBytes(y) /\ b.addr \in ZoneBytes(z)
  BY InsideBytes, BlockTyped
<1> QED BY <1>1, ZonesApart

(* A block is its buddy's buddy.                                           *)
LEMMA BuddySymmetric ==
  ASSUME NEW z \in Zones, NEW x \in Blocks, Inside(z, x), x.order < z.order,
         NEW y \in Blocks, y.order = x.order, y.addr = buddy_addr(z, x.addr, x.order)
  PROVE  Inside(z, y) /\ x.addr = buddy_addr(z, y.addr, y.order)
<1>1. x.addr \in Nat /\ x.order \in Nat /\ y.order \in Nat
  BY BlockTyped
<1>2. PICK m \in Nat : Numbered(z, x, m)
  BY <1>1, InsideNumbered
<1>3. /\ y.addr = z.base + Flip(m) * block_size(y.order)
      /\ (Flip(m) + 1) * block_size(y.order) <= block_size(z.order) /\ Flip(m) \in Nat
  BY <1>1, <1>2, BuddyNumber
<1>4. Numbered(z, y, Flip(m))
  BY <1>2, <1>3 DEF Numbered
<1>5. Inside(z, y)
  BY <1>1, <1>3, <1>4, NumberedInside
<1>6. buddy_addr(z, y.addr, y.order) = z.base + Flip(Flip(m)) * block_size(y.order)
  BY <1>1, <1>3, <1>4, BuddyNumber
<1>7. x.addr = z.base + m * block_size(x.order)
  BY <1>2 DEF Numbered
<1> QED BY <1>5, <1>6, <1>7, FlipFacts

LEMMA FittingOrder ==
  ASSUME NEW layout \in Layouts, FittingOrders(layout) # {}
  PROVE  /\ order_for_size(layout) \in Orders
         /\ layout.size \in Nat /\ layout.align \in Nat /\ layout.size > 0 /\ layout.align > 0
         /\ layout.size <= block_size(order_for_size(layout))
         /\ layout.align <= block_size(order_for_size(layout))
<1>1. FittingOrders(layout) \in SUBSET Nat
  BY OrderNat DEF FittingOrders
<1>2. order_for_size(layout) \in FittingOrders(layout)
  BY <1>1, Smallest DEF order_for_size
<1>3. /\ layout.size \in Nat /\ layout.align \in Nat /\ layout.size > 0 /\ layout.align > 0
  BY BuddyAssumption
<1> QED BY <1>2, <1>3 DEF FittingOrders

LiveBlock(a) == Block(a.addr, order_for_size(a.layout))

LEMMA LiveTyped ==
  ASSUME BuddyTypes
  PROVE  /\ LiveBlocks \subseteq Blocks
         /\ LiveBlocks = {LiveBlock(a) : a \in live}
         /\ \A a \in live : /\ LiveBlock(a) \in LiveBlocks /\ LiveBlock(a).addr = a.addr
                            /\ a.addr \in Nat /\ order_for_size(a.layout) \in Orders
                            /\ a.addr \in BlockBytes(LiveBlock(a))
                            /\ a = [addr |-> a.addr, layout |-> a.layout]
                            /\ a.layout \in Layouts
<1>1. \A a \in live : /\ a.addr \in Nat /\ a.layout \in Layouts
                      /\ a = [addr |-> a.addr, layout |-> a.layout]
                      /\ FittingOrders(a.layout) # {}
  BY DEF BuddyTypes
<1>2. \A a \in live : order_for_size(a.layout) \in Orders
  BY <1>1, FittingOrder
<1>3. LiveBlocks = {LiveBlock(a) : a \in live}
  BY DEF LiveBlocks, LiveBlock, Block
<1>4. \A a \in live : /\ LiveBlock(a) \in Blocks /\ LiveBlock(a).addr = a.addr
                      /\ a.addr \in BlockBytes(LiveBlock(a))
  <2>1. \A a \in live : LiveBlock(a) \in Blocks /\ LiveBlock(a).addr = a.addr
    BY <1>1, <1>2, BlockIs DEF LiveBlock
  <2> QED BY <2>1, BlockTyped
<1> QED BY <1>1, <1>2, <1>3, <1>4

LEMMA FreeTyped ==
  ASSUME BuddyTypes
  PROVE  /\ FreeBlocks = FreeOf(free_lists) /\ FreeBlocks \subseteq Blocks
         /\ \A o \in Orders : \A x : Block(x, o) \in FreeBlocks <=> x \in Elems(free_lists[o])
<1>1. FreeBlocks = FreeOf(free_lists) /\ free_lists \in [Orders -> Seq(Nat)]
  BY DEF FreeBlocks, FreeOf, BuddyTypes
<1> QED BY <1>1, FreeOfFacts

(* A change of the lists, as a change of the set of free blocks.           *)
Changed(fl, gl, R, N) ==
  \A o \in Orders : \A x \in Nat :
    x \in Elems(gl[o]) <=>
      (x \in Elems(fl[o]) /\ Block(x, o) \notin R) \/ Block(x, o) \in N

LEMMA ListsChange ==
  ASSUME NEW fl \in [Orders -> Seq(Nat)], NEW gl \in [Orders -> Seq(Nat)], NEW R, NEW N,
         N \subseteq Blocks, Changed(fl, gl, R, N)
  PROVE  \A b : b \in FreeOf(gl) <=> (b \in FreeOf(fl) /\ b \notin R) \/ b \in N
<1>1. /\ FreeOf(fl) \subseteq Blocks
      /\ \A o \in Orders : \A x : Block(x, o) \in FreeOf(fl) <=> x \in Elems(fl[o])
  BY FreeOfFacts
<1>2. /\ FreeOf(gl) \subseteq Blocks
      /\ \A o \in Orders : \A x : Block(x, o) \in FreeOf(gl) <=> x \in Elems(gl[o])
  BY FreeOfFacts
<1>3. ASSUME NEW b \in Blocks
      PROVE  b \in FreeOf(gl) <=> (b \in FreeOf(fl) /\ b \notin R) \/ b \in N
  <2>1. b.addr \in Nat /\ b.order \in Orders /\ b = Block(b.addr, b.order)
    BY BlockTyped
  <2> QED BY <2>1, <1>1, <1>2 DEF Changed
<1> QED BY <1>1, <1>2, <1>3

(* The pieces of a split block lie in its zone, the upper halves at odd    *)
(* numbers.                                                                *)
LEMMA FirstPiece ==
  ASSUME NEW z \in Zones, NEW x \in Nat, NEW from \in Orders, NEW order \in Orders,
         order <= from, NEW m \in Nat, Numbered(z, Block(x, from), m)
  PROVE  \E n \in Nat : Numbered(z, Block(x, order), n)
<1>1. /\ from \in Nat /\ order \in Nat /\ block_size(order) \in Nat /\ z.order \in Nat
      /\ z.base \in Nat
  BY OrderNat DEF Zones
<1>2. PICK k \in Nat : k > 0 /\ block_size(from) = k * block_size(order)
  BY <1>1, SizeMultiple
<1>3. /\ from <= z.order /\ x = z.base + m * (k * block_size(order))
      /\ (m + 1) * (k * block_size(order)) <= block_size(z.order)
  BY <1>2 DEF Numbered, Block
<1>4. m * (k * block_size(order)) = (m * k) * block_size(order)
      /\ (m + 1) * (k * block_size(order)) = ((m + 1) * k) * block_size(order)
      /\ m * k \in Nat /\ (m + 1) * k \in Nat
  BY <1>1
<1>5. (m + 1) * k = m * k + k
  OBVIOUS
<1>6. m * k + 1 <= (m + 1) * k
  BY <1>2, <1>4, <1>5
<1>7. (m * k + 1) * block_size(order) <= ((m + 1) * k) * block_size(order)
  <2>1. m * k + 1 \in Int /\ (m + 1) * k \in Int /\ block_size(order) > 0
    BY <1>4, OrderNat
  <2> QED BY ONLY <2>1, <1>1, <1>6, MulLe
<1>8. (m * k + 1) * block_size(order) <= block_size(z.order)
  <2>1. (m * k + 1) * block_size(order) \in Int /\ ((m + 1) * k) * block_size(order) \in Int
        /\ block_size(z.order) \in Int
    BY <1>1, <1>4, SizeNat
  <2>2. ((m + 1) * k) * block_size(order) <= block_size(z.order)
    BY <1>3, <1>4
  <2> DEFINE a == (m * k + 1) * block_size(order)
             b == ((m + 1) * k) * block_size(order)
  <2> HIDE DEF a, b
  <2>3. a <= b /\ b <= block_size(z.order) /\ a \in Int /\ b \in Int /\ block_size(z.order) \in Int
    BY <1>7, <2>1, <2>2 DEF a, b
  <2>4. a <= block_size(z.order)
    BY ONLY <2>3
  <2> QED BY <2>4 DEF a
<1>9. order <= z.order
  BY <1>1, <1>3
<1>10. Numbered(z, Block(x, order), m * k)
  <2>1. Block(x, order).order = order /\ Block(x, order).addr = x
    BY BlockIs
  <2>2. x = z.base + (m * k) * block_size(order)
    BY <1>3, <1>4
  <2> QED BY <2>1, <2>2, <1>8, <1>9 DEF Numbered
<1> QED BY <1>4, <1>10

LEMMA UpperHalf ==
  ASSUME NEW z \in Zones, NEW x \in Nat, NEW o \in Orders, o + 1 \in Orders,
         NEW m \in Nat, Numbered(z, Block(x, o + 1), m)
  PROVE  LET b == Block(x + block_size(o), o)
         IN  Inside(z, b) /\ buddy_addr(z, b.addr, o) = x
<1> DEFINE d == block_size(o)
           b == Block(x + d, o)
<1>1. o \in Nat /\ d \in Nat /\ d > 0 /\ z.order \in Nat /\ z.base \in Nat
  BY OrderNat DEF Zones
<1>2. block_size(o + 1) = 2 * d
  BY <1>1, SizeDoubles
<1>3. o + 1 <= z.order /\ x = z.base + m * (2 * d) /\ (m + 1) * (2 * d) <= block_size(z.order)
  BY <1>2 DEF Numbered, Block
<1>4. b \in Blocks /\ b.addr = x + d /\ b.order = o
  BY <1>1, BlockIs
<1> HIDE DEF b, d
<1>5. m * (2 * d) = (2 * m) * d /\ (m + 1) * (2 * d) = (2 * m + 1 + 1) * d
      /\ (2 * m + 1) * d = (2 * m) * d + d /\ (2 * m) * d \in Nat
  BY <1>1
<1>6. Numbered(z, b, 2 * m + 1)
  <2>1. x + d = z.base + (2 * m + 1) * d
    BY ONLY <1>1, <1>3, <1>5
  <2>2. (2 * m + 1 + 1) * d <= block_size(z.order)
    BY <1>3, <1>5
  <2>3. o <= z.order
    BY <1>1, <1>3
  <2> QED BY <2>1, <2>2, <2>3, <1>4 DEF Numbered, d
<1>7. 2 * m + 1 \in Nat /\ Flip(2 * m + 1) = 2 * m
  BY DEF Flip
<1>8. Inside(z, b)
  BY <1>1, <1>4, <1>6, <1>7, NumberedInside
<1>9. o < z.order
  BY <1>1, <1>3
<1>10. buddy_addr(z, b.addr, b.order) = z.base + Flip(2 * m + 1) * block_size(b.order)
  BY <1>1, <1>4, <1>6, <1>7, <1>9, BuddyNumber
<1>11. buddy_addr(z, b.addr, o) = x
  BY <1>3, <1>4, <1>5, <1>7, <1>10 DEF d
<1> QED BY <1>8, <1>11 DEF b, d

(* Of two blocks of a zone with a common byte, the smaller is part of the  *)
(* larger.                                                                 *)
LEMMA Nested ==
  ASSUME NEW z \in Zones, NEW x \in Blocks, NEW y \in Blocks, Inside(z, x), Inside(z, y),
         x.order <= y.order, NEW p, p \in BlockBytes(x), p \in BlockBytes(y)
  PROVE  \A q : q \in BlockBytes(x) => q \in BlockBytes(y)
<1> DEFINE d == block_size(x.order)
           e == block_size(y.order)
<1>1. /\ x.addr \in Nat /\ y.addr \in Nat /\ x.order \in Nat /\ y.order \in Nat
      /\ d \in Nat /\ d > 0 /\ e \in Nat /\ z.base \in Nat
      /\ p \in Nat /\ x.addr <= p /\ p < x.addr + d /\ y.addr <= p /\ p < y.addr + e
  BY BlockTyped DEF Zones
<1>2. PICK i \in Nat : x.addr = z.base + i * d
  BY <1>1, InsideNumbered DEF Numbered
<1>3. PICK j \in Nat : y.addr = z.base + j * e
  BY <1>1, InsideNumbered DEF Numbered
<1>4. PICK k \in Nat : e = k * d
  BY <1>1, SizeMultiple, Zenon
<1> HIDE DEF d, e
<1>5. /\ j * e = (j * k) * d /\ (j * k + k) * d = (j * k) * d + e /\ (i + 1) * d = i * d + d
      /\ j * k \in Nat /\ i * d \in Nat /\ (j * k) * d \in Nat
  BY <1>1, <1>4
<1>6. PICK u \in Nat : u = i * d
  BY <1>5
<1>7. PICK v \in Nat : v = j * e
  BY <1>5
<1>8. v < u + d /\ u < v + e
  BY ONLY <1>1, <1>2, <1>3, <1>6, <1>7
<1>9. (j * k) * d < (i + 1) * d /\ i * d < (j * k + k) * d
  BY <1>5, <1>6, <1>7, <1>8
<1>10. PICK w \in Nat : w = j * k
  BY <1>5
<1>11. w * d < (i + 1) * d /\ i * d < (w + k) * d
  BY <1>9, <1>10
<1>12. w < i + 1 /\ i < w + k
  <2>1. w \in Int /\ i + 1 \in Int /\ i \in Int /\ w + k \in Int
    OBVIOUS
  <2> QED BY ONLY <2>1, <1>1, <1>11, MulLe
<1>13. w <= i /\ i + 1 <= w + k
  BY <1>12
<1>14. w * d <= i * d /\ (i + 1) * d <= (w + k) * d
  <2>1. w \in Int /\ i + 1 \in Int /\ i \in Int /\ w + k \in Int
    OBVIOUS
  <2> QED BY ONLY <2>1, <1>1, <1>13, MulLe
<1>15. v <= u /\ u + d <= v + e
  BY <1>5, <1>6, <1>7, <1>10, <1>14
<1>16. y.addr <= x.addr /\ x.addr + d <= y.addr + e
  BY ONLY <1>1, <1>2, <1>3, <1>6, <1>7, <1>15
<1>17. /\ \A q : q \in BlockBytes(x) <=> q \in Nat /\ x.addr <= q /\ q < x.addr + d
       /\ \A q : q \in BlockBytes(y) <=> q \in Nat /\ y.addr <= q /\ q < y.addr + e
  BY BlockTyped DEF d, e
<1> QED BY <1>1, <1>16, <1>17

----------------------------------------------------------------------------
(* What alloc and dealloc do to the set of free blocks.                    *)

Allocated(layout, order, from, addr) ==
  /\ order = order_for_size(layout) /\ FittingOrders(layout) # {} /\ order <= from
  /\ Block(addr, from) \in FreeBlocks
  /\ free_lists' \in [Orders -> Seq(Nat)] /\ \A o \in Orders : NoDup(free_lists'[o])
  /\ \A b : b \in FreeBlocks' <=> \/ b \in FreeBlocks /\ b # Block(addr, from)
                                  \/ b \in Halves(addr, order, from)
  /\ live' = live \cup {[addr |-> addr, layout |-> layout]}
  /\ initialized /\ UNCHANGED <<heap, remaining, zones, max_order, initialized>>

(* The popped block is replaced by the upper halves of its splits.         *)
LEMMA AllocFacts ==
  ASSUME BuddyInv, NEW layout \in Layouts, alloc(layout)
  PROVE  \E order \in Orders, from \in Orders, addr \in Nat :
           Allocated(layout, order, from, addr)
<1> DEFINE order == order_for_size(layout)
           from == SmallestOf(Splittable(order))
           addr == Head(free_lists[from])
<1>1. /\ initialized /\ FittingOrders(layout) # {} /\ Splittable(order) # {}
      /\ free_lists' =
              [o \in Orders |->
                 IF o = from THEN Tail(free_lists[o])
                 ELSE IF order <= o /\ o < from
                   THEN push_free_block(free_lists[o], addr + block_size(o))
                 ELSE free_lists[o]]
      /\ live' = live \cup {[addr |-> addr, layout |-> layout]}
      /\ UNCHANGED <<heap, remaining, zones, max_order, initialized>>
  BY Zenon DEF alloc
<1>2. order \in Orders /\ order \in Nat
  BY <1>1, FittingOrder, OrderNat
<1>3. /\ BuddyTypes /\ free_lists \in [Orders -> Seq(Nat)] /\ max_order \in Orders
      /\ \A o \in Orders : NoDup(free_lists[o])
  BY DEF BuddyInv, BuddyTypes, BlocksInv, NoDup
<1> HIDE DEF order
<1>4. Splittable(order) \subseteq Orders /\ Splittable(order) \in SUBSET Nat
  <2>1. max_order \in Nat /\ MIN_ORDER \in Nat /\ MAX_ORDER \in Nat
    BY <1>3, OrderNat, BuddyAssumption
  <2> QED BY <2>1, <1>2, <1>3 DEF Splittable, Orders
<1>5. from \in Splittable(order) /\ \A o \in Splittable(order) : from <= o
  BY <1>1, <1>4, Smallest
<1> HIDE DEF from
<1>6. from \in Orders /\ order <= from /\ free_lists[from] # <<>> /\ from <= max_order /\ from \in Nat
  BY <1>4, <1>5, OrderNat DEF Splittable
<1>7. \A o \in order..(from - 1) : free_lists[o] = <<>>
  <2> SUFFICES ASSUME NEW o \in order..(from - 1), free_lists[o] # <<>> PROVE FALSE
    OBVIOUS
  <2>1. max_order \in Nat /\ o \in Nat /\ o < from
    BY <1>2, <1>3, <1>6, OrderNat
  <2>2. o \in Splittable(order)
    BY <2>1, <1>2, <1>6 DEF Splittable
  <2> QED BY <2>1, <2>2, <1>5, <1>6
<1>8. /\ addr \in Nat /\ addr \in Elems(free_lists[from])
      /\ Tail(free_lists[from]) \in Seq(Nat) /\ NoDup(Tail(free_lists[from]))
      /\ Elems(Tail(free_lists[from])) = Elems(free_lists[from]) \ {addr}
  <2>1. free_lists[from] \in Seq(Nat) /\ NoDup(free_lists[from])
    BY <1>3, <1>6
  <2> QED BY <2>1, <1>6, PopFacts
<1> HIDE DEF addr
<1>9. Block(addr, from) \in FreeBlocks
  BY <1>3, <1>6, <1>8, FreeTyped
<1>10. ASSUME NEW o \in Orders, order <= o, o < from
       PROVE  /\ free_lists'[o] \in Seq(Nat) /\ NoDup(free_lists'[o])
              /\ \A x : x \in Elems(free_lists'[o]) <=> x = addr + block_size(o)
              /\ free_lists[o] = <<>>
  <2>1. o \in Nat /\ addr + block_size(o) \in Nat /\ o # from
    BY <1>6, <1>8, <1>10, OrderNat
  <2>2. free_lists[o] = <<>>
    BY <2>1, <1>2, <1>6, <1>7, <1>10
  <2>3. free_lists'[o] = push_free_block(free_lists[o], addr + block_size(o))
    BY <2>1, <1>1, <1>10
  <2>4. free_lists[o] \in Seq(Nat) /\ NoDup(free_lists[o])
    BY <1>3
  <2>5. Elems(free_lists[o]) = {}
    BY <2>2 DEF Elems
  <2>6. LET t == push_free_block(free_lists[o], addr + block_size(o))
        IN  /\ t \in Seq(Nat) /\ Elems(t) = Elems(free_lists[o]) \cup {addr + block_size(o)}
            /\ NoDup(free_lists[o]) /\ addr + block_size(o) \notin Elems(free_lists[o]) => NoDup(t)
    BY ONLY <2>1, <2>4, PushFacts, Zenon
  <2> QED BY <2>2, <2>3, <2>4, <2>5, <2>6
<1>11. ASSUME NEW o \in Orders, ~(order <= o /\ o < from), o # from
       PROVE  free_lists'[o] = free_lists[o]
  BY <1>1, <1>11
<1>12. free_lists'[from] = Tail(free_lists[from])
  BY <1>1, <1>6
<1>13. \A o \in Orders : free_lists'[o] \in Seq(Nat) /\ NoDup(free_lists'[o])
  BY <1>3, <1>8, <1>10, <1>11, <1>12, Zenon
<1>14. free_lists' \in [Orders -> Seq(Nat)]
  <2>1. free_lists' = [o \in Orders |-> free_lists'[o]]
    BY <1>1
  <2> QED BY <2>1, <1>13
<1> DEFINE R == {Block(addr, from)}
           N == Halves(addr, order, from)
<1>15. N \subseteq Blocks
  BY <1>2, <1>6, <1>8, SplitApart, Zenon
<1>16. ASSUME NEW o \in Orders, NEW x \in Nat
       PROVE  /\ Block(x, o) \in N <=> order <= o /\ o < from /\ x = addr + block_size(o)
              /\ Block(x, o) \in R <=> x = addr /\ o = from
  <2>1. o \in Nat /\ (o \in order..(from - 1) <=> order <= o /\ o < from)
    BY <1>2, <1>6, OrderNat
  <2>2. Block(x, o) \in N => order <= o /\ o < from /\ x = addr + block_size(o)
    <3> SUFFICES ASSUME NEW j \in order..(from - 1), Block(x, o) = Block(addr + block_size(j), j)
                 PROVE  order <= o /\ o < from /\ x = addr + block_size(o)
      BY DEF Halves
    <3>1. x = addr + block_size(j) /\ o = j
      BY DEF Block
    <3> QED BY <3>1, <2>1
  <2>3. order <= o /\ o < from /\ x = addr + block_size(o) => Block(x, o) \in N
    BY <2>1 DEF Halves
  <2>4. Block(x, o) \in R <=> x = addr /\ o = from
    BY DEF Block
  <2> QED BY <2>2, <2>3, <2>4
<1> HIDE DEF R, N
<1>17. Changed(free_lists, free_lists', R, N)
  <2> SUFFICES ASSUME NEW o \in Orders, NEW x \in Nat
               PROVE  x \in Elems(free_lists'[o]) <=>
                        (x \in Elems(free_lists[o]) /\ Block(x, o) \notin R) \/ Block(x, o) \in N
    BY DEF Changed
  <2>1. o \in Nat
    BY OrderNat
  <2>2. CASE o = from
    <3>1. Block(x, o) \notin N
      BY <2>2, <1>6, <1>16
    <3> QED BY <3>1, <2>2, <1>8, <1>12, <1>16
  <2>3. CASE order <= o /\ o < from
    <3>1. Elems(free_lists[o]) = {}
      BY <2>3, <1>10 DEF Elems
    <3> QED BY <3>1, <2>3, <1>10, <1>16
  <2>4. CASE o # from /\ ~(order <= o /\ o < from)
    BY <2>4, <1>11, <1>16
  <2> QED BY <2>2, <2>3, <2>4
<1>18. \A b : b \in FreeOf(free_lists') <=>
                (b \in FreeOf(free_lists) /\ b \notin R) \/ b \in N
  BY ONLY <1>3, <1>14, <1>15, <1>17, ListsChange, Zenon
<1>19. FreeBlocks' = FreeOf(free_lists') /\ FreeBlocks = FreeOf(free_lists)
  BY DEF FreeBlocks, FreeOf
<1>20. \A b : b \in FreeBlocks' <=> \/ b \in FreeBlocks /\ b # Block(addr, from)
                                    \/ b \in Halves(addr, order, from)
  BY <1>18, <1>19 DEF R, N
<1>21. Allocated(layout, order, from, addr)
  BY <1>1, <1>6, <1>9, <1>13, <1>14, <1>20 DEF Allocated, order
<1> QED BY <1>2, <1>6, <1>8, <1>21

LEMMA MergeTopFacts ==
  ASSUME BuddyTypes, NEW z \in Zones, NEW x, NEW order \in Orders, order <= z.order,
         NEW top, top = MergeTop(z, x, order)
  PROVE  /\ top \in Orders /\ top \in Nat /\ order <= top /\ top <= z.order
         /\ top = z.order \/ Buddy(z, x, top) \notin Elems(free_lists[top])
         /\ \A o \in Orders : order <= o /\ o < top => Buddy(z, x, o) \in Elems(free_lists[o])
<1> DEFINE S == {o \in order..z.order :
                   o = z.order \/ ~Holds(free_lists[o], Buddy(z, x, o))}
<1>1. order \in Nat /\ z.order \in Nat /\ z.order \in Orders
      /\ MIN_ORDER \in Nat /\ MAX_ORDER \in Nat
  BY OrderNat, BuddyAssumption DEF Zones
<1>2. S \in SUBSET Nat /\ z.order \in S
  BY <1>1
<1>3. top = SmallestOf(S)
  BY DEF MergeTop
<1>4. top \in S /\ \A o \in S : top <= o
  BY <1>2, <1>3, Smallest
<1>5. top \in Orders /\ top \in Nat /\ order <= top /\ top <= z.order
  BY <1>1, <1>4 DEF Orders
<1>6. \A list, y : Holds(list, y) <=> y \in Elems(list)
  BY DEF Holds, Elems
<1>7. top = z.order \/ Buddy(z, x, top) \notin Elems(free_lists[top])
  BY <1>4, <1>6
<1>8. ASSUME NEW o \in Orders, order <= o, o < top
      PROVE  Buddy(z, x, o) \in Elems(free_lists[o])
  <2>1. o \in order..z.order
    BY <1>1, <1>5, <1>8, OrderNat
  <2>2. o \notin S
    BY <1>4, <1>5, <1>8, OrderNat
  <2> QED BY <2>1, <2>2, <1>6
<1> QED BY <1>5, <1>7, <1>8

Freed(a, z, order, top) ==
  /\ z \in ZoneSet /\ order \in Orders /\ top \in Orders /\ order <= top /\ top <= z.order
  /\ Block(a.addr, order) = LiveBlock(a) /\ Inside(z, Block(a.addr, order))
  /\ top = z.order \/ Block(Buddy(z, a.addr, top), top) \notin FreeBlocks
  /\ Buddies(z, a.addr, order, top) \subseteq FreeBlocks
  /\ Block(Enclosing(z, a.addr, top), top) \in Blocks
  /\ Inside(z, Block(Enclosing(z, a.addr, top), top))
  /\ a.addr \in BlockBytes(Block(Enclosing(z, a.addr, top), top))
  /\ free_lists' \in [Orders -> Seq(Nat)] /\ \A o \in Orders : NoDup(free_lists'[o])
  /\ \A b : b \in FreeBlocks' <=>
              \/ b \in FreeBlocks /\ b \notin Buddies(z, a.addr, order, top)
              \/ b = Block(Enclosing(z, a.addr, top), top)
  /\ live' = live \ {a} /\ UNCHANGED <<heap, remaining, zones, max_order, initialized>>

(* The buddies met on the way up are replaced by the merged block.         *)
LEMMA DeallocFacts ==
  ASSUME BuddyInv, NEW a \in live, dealloc(a)
  PROVE  \E z, order, top : Freed(a, z, order, top)
<1> DEFINE order == order_for_size(a.layout)
           z == zone_for(a.addr)
           top == MergeTop(z, a.addr, order)
           old == Block(a.addr, order)
           E == Enclosing(z, a.addr, top)
           new == Block(E, top)
           B == Buddies(z, a.addr, order, top)
<1>1. BuddyTypes /\ ZonesInv /\ BlocksInv
  BY DEF BuddyInv
<1>2. /\ free_lists' =
           [o \in Orders |->
              IF o = top
                THEN push_free_block(free_lists[o], Enclosing(z, a.addr, o))
              ELSE IF order <= o /\ o < top
                THEN remove_free_block(free_lists[o], Buddy(z, a.addr, o))
              ELSE free_lists[o]]
      /\ live' = live \ {a} /\ UNCHANGED <<heap, remaining, zones, max_order, initialized>>
  BY DEF dealloc
<1>3. /\ a.addr \in Nat /\ order \in Orders /\ order \in Nat /\ old = LiveBlock(a)
      /\ old \in LiveBlocks /\ old \in Blocks /\ old.addr = a.addr /\ old.order = order
      /\ a.addr \in BlockBytes(old)
  <2>1. /\ a.addr \in Nat /\ order \in Orders /\ LiveBlock(a) \in LiveBlocks
        /\ a.addr \in BlockBytes(LiveBlock(a)) /\ old = LiveBlock(a)
    BY <1>1, LiveTyped DEF LiveBlock
  <2> QED BY <2>1, BlockIs, OrderNat
<1>4. z \in ZoneSet /\ Inside(z, old)
  <2>1. PICK y \in ZoneSet : Inside(y, old)
    BY <1>1, <1>3 DEF BlocksInv
  <2>2. a.addr \in ZoneBytes(y)
    BY <2>1, <1>1, <1>3, InsideBytes
  <2>3. z = y
    BY <2>2, <1>1, ZoneFor
  <2> QED BY <2>1, <2>3
<1> HIDE DEF order, z
<1>5. /\ z \in Zones /\ order <= z.order /\ z.base <= a.addr
      /\ a.addr < z.base + block_size(z.order)
  <2>1. z \in Zones /\ a.addr \in ZoneBytes(z)
    BY <1>1, <1>3, <1>4, ZoneTyped, InsideBytes
  <2> QED BY <2>1, <1>1, <1>3, <1>4, ZoneTyped DEF Inside
<1>6. /\ top \in Orders /\ top \in Nat /\ order <= top /\ top <= z.order
      /\ top = z.order \/ Buddy(z, a.addr, top) \notin Elems(free_lists[top])
      /\ \A o \in Orders : order <= o /\ o < top => Buddy(z, a.addr, o) \in Elems(free_lists[o])
  BY <1>1, <1>3, <1>5, MergeTopFacts
<1> HIDE DEF top
<1>7. PICK m \in Nat : Numbered(z, old, m)
  BY <1>3, <1>4, <1>5, InsideNumbered
<1>8. /\ E \in Nat /\ EncNum(z, a.addr, top) \in Nat /\ Numbered(z, new, EncNum(z, a.addr, top))
  BY <1>3, <1>5, <1>6, EnclosingNumbered
<1>9. new \in Blocks /\ new.addr = E /\ new.order = top
  BY <1>6, <1>8, BlockIs
<1>10. Inside(z, new)
  BY <1>5, <1>6, <1>8, <1>9, NumberedInside
<1>11. \A p : p \in BlockBytes(new) <=> \E b \in {old} \cup B : p \in BlockBytes(b)
  BY <1>3, <1>5, <1>6, <1>7, MergeCovers
<1>12. a.addr \in BlockBytes(new)
  BY <1>3, <1>11
<1>13. /\ FreeBlocks \subseteq Blocks /\ free_lists \in [Orders -> Seq(Nat)]
       /\ \A o \in Orders : \A x : Block(x, o) \in FreeBlocks <=> x \in Elems(free_lists[o])
       /\ \A o \in Orders : NoDup(free_lists[o])
  <2>1. /\ FreeBlocks \subseteq Blocks
        /\ \A o \in Orders : \A x : Block(x, o) \in FreeBlocks <=> x \in Elems(free_lists[o])
    BY <1>1, FreeTyped
  <2> QED BY <2>1, <1>1 DEF BuddyTypes, BlocksInv, NoDup
<1>14. new \notin FreeBlocks
  <2> SUFFICES ASSUME new \in FreeBlocks PROVE FALSE
    OBVIOUS
  <2>1. Apart(FreeBlocks \cup LiveBlocks) /\ FreeBlocks \cap LiveBlocks = {}
    BY <1>1 DEF BlocksInv
  <2>2. new = old
    BY <2>1, <1>3, <1>12 DEF Apart
  <2> QED BY <2>1, <2>2, <1>3
<1>15. \A o \in Orders : (o \in order..(top - 1) <=> order <= o /\ o < top)
  BY <1>3, <1>6, OrderNat
<1>16. B \subseteq FreeBlocks
  <2> SUFFICES ASSUME NEW o \in order..(top - 1)
               PROVE  Block(Buddy(z, a.addr, o), o) \in FreeBlocks
    BY DEF Buddies
  <2>1. o \in Orders /\ order <= o /\ o < top
    BY <1>3, <1>6, HalfOrders
  <2> QED BY <2>1, <1>6, <1>13
<1>17. top = z.order \/ Block(Buddy(z, a.addr, top), top) \notin FreeBlocks
  BY <1>6, <1>13
<1>18. ASSUME NEW o \in Orders, order <= o, o < top
       PROVE  /\ free_lists'[o] \in Seq(Nat) /\ NoDup(free_lists'[o])
              /\ Elems(free_lists'[o]) = Elems(free_lists[o]) \ {Buddy(z, a.addr, o)}
  <2>1. o # top
    BY <1>6, <1>18
  <2>2. free_lists'[o] = remove_free_block(free_lists[o], Buddy(z, a.addr, o))
    BY <2>1, <1>2, <1>18
  <2>3. Buddy(z, a.addr, o) \in Elems(free_lists[o])
    BY <1>6, <1>18
  <2>4. free_lists[o] \in Seq(Nat) /\ NoDup(free_lists[o])
    BY <1>13
  <2> QED BY ONLY <2>2, <2>3, <2>4, RemoveFacts, Zenon
<1>19. /\ free_lists'[top] \in Seq(Nat) /\ NoDup(free_lists'[top])
       /\ Elems(free_lists'[top]) = Elems(free_lists[top]) \cup {E}
  <2>1. free_lists'[top] = push_free_block(free_lists[top], E)
    BY <1>2, <1>6
  <2>2. free_lists[top] \in Seq(Nat) /\ NoDup(free_lists[top]) /\ E \in Nat
    BY <1>6, <1>8, <1>13
  <2>3. E \notin Elems(free_lists[top])
    BY <1>6, <1>13, <1>14
  <2> HIDE DEF E
  <2> QED BY ONLY <2>1, <2>2, <2>3, PushFacts, Zenon
<1>20. ASSUME NEW o \in Orders, ~(order <= o /\ o < top), o # top
       PROVE  free_lists'[o] = free_lists[o]
  BY <1>2, <1>20
<1>21. \A o \in Orders : free_lists'[o] \in Seq(Nat) /\ NoDup(free_lists'[o])
  BY <1>13, <1>18, <1>19, <1>20
<1>22. free_lists' \in [Orders -> Seq(Nat)]
  <2>1. free_lists' = [o \in Orders |-> free_lists'[o]]
    BY <1>2
  <2> QED BY <2>1, <1>21
<1> DEFINE N == {new}
<1>23. N \subseteq Blocks
  BY <1>9
<1>24. ASSUME NEW o \in Orders, NEW x \in Nat
       PROVE  /\ Block(x, o) \in N <=> x = E /\ o = top
              /\ Block(x, o) \in B <=> order <= o /\ o < top /\ x = Buddy(z, a.addr, o)
  <2>1. Block(x, o) \in N <=> x = E /\ o = top
    BY DEF Block
  <2>2. Block(x, o) \in B => order <= o /\ o < top /\ x = Buddy(z, a.addr, o)
    <3> SUFFICES ASSUME NEW j \in order..(top - 1), Block(x, o) = Block(Buddy(z, a.addr, j), j)
                 PROVE  order <= o /\ o < top /\ x = Buddy(z, a.addr, o)
      BY DEF Buddies
    <3>1. x = Buddy(z, a.addr, j) /\ o = j
      BY DEF Block
    <3> QED BY <3>1, <1>15
  <2>3. order <= o /\ o < top /\ x = Buddy(z, a.addr, o) => Block(x, o) \in B
    BY <1>15 DEF Buddies
  <2> QED BY <2>1, <2>2, <2>3
<1> HIDE DEF N, B, E
<1>25. Changed(free_lists, free_lists', B, N)
  <2> SUFFICES ASSUME NEW o \in Orders, NEW x \in Nat
               PROVE  x \in Elems(free_lists'[o]) <=>
                        (x \in Elems(free_lists[o]) /\ Block(x, o) \notin B) \/ Block(x, o) \in N
    BY DEF Changed
  <2>1. CASE o = top
    <3>1. ~(o < top)
      BY <2>1, <1>6
    <3>2. Block(x, o) \notin B
      BY <3>1, <1>24
    <3> QED BY <3>2, <2>1, <1>19, <1>24
  <2>2. CASE order <= o /\ o < top
    <3>1. o # top
      BY <2>2, <1>6
    <3> QED BY <3>1, <2>2, <1>18, <1>24
  <2>3. CASE o # top /\ ~(order <= o /\ o < top)
    BY <2>3, <1>20, <1>24
  <2> QED BY <2>1, <2>2, <2>3
<1>26. \A b : b \in FreeOf(free_lists') <=>
                (b \in FreeOf(free_lists) /\ b \notin B) \/ b \in N
  BY ONLY <1>13, <1>22, <1>23, <1>25, ListsChange, Zenon
<1>27. FreeBlocks' = FreeOf(free_lists') /\ FreeBlocks = FreeOf(free_lists)
  BY DEF FreeBlocks, FreeOf
<1>28. \A b : b \in FreeBlocks' <=> (b \in FreeBlocks /\ b \notin B) \/ b = new
  BY <1>26, <1>27 DEF N
<1>29. Freed(a, z, order, top)
  BY <1>2, <1>3, <1>4, <1>6, <1>9, <1>10, <1>12, <1>16, <1>17, <1>21, <1>22, <1>28
     DEF Freed, B, E
<1> QED BY <1>29

(* The block alloc finds is aligned as the layout asks.                    *)
LEMMA AlignedBlock ==
  ASSUME BuddyTypes, ZonesInv, NEW z \in ZoneSet, NEW x \in Nat, NEW order \in Orders,
         NEW m \in Nat, Numbered(z, Block(x, order), m), NEW layout \in Layouts,
         layout.align <= block_size(order)
  PROVE  x % layout.align = 0
<1> DEFINE d == layout.align
<1>1. PICK k \in Nat : d = block_size(k)
  <2>1. d \in Nat /\ \E k \in 0..d : d = block_size(k)
    BY BuddyAssumption
  <2> QED BY <2>1
<1>2. /\ z.base \in Nat /\ z.order \in Nat /\ order \in Nat /\ d \in Nat /\ d > 0
      /\ block_size(z.order) \in Nat /\ block_size(z.order) > 0 /\ block_size(order) \in Nat
  BY <1>1, ZoneTyped, OrderNat, SizeNat
<1>3. k <= order
  <2> SUFFICES ASSUME ~(k <= order) PROVE FALSE
    OBVIOUS
  <2>1. order < k
    BY <1>2
  <2>2. 2 * block_size(order) <= block_size(k)
    BY <2>1, <1>2, SizeGrows
  <2>3. block_size(k) <= block_size(order) /\ block_size(order) > 0
    BY <1>1, OrderNat
  <2> QED BY ONLY <2>2, <2>3, <1>1, <1>2
<1>4. x = z.base + m * block_size(order) /\ order <= z.order
  BY DEF Numbered, Block
<1>5. PICK w \in Nat : block_size(order) = w * d
  BY <1>1, <1>2, <1>3, SizeMultiple
<1>6. PICK v \in Nat : block_size(z.order) = v * d
  <2>1. k <= z.order
    BY <1>2, <1>3, <1>4
  <2>2. PICK v \in Nat : block_size(z.order) = v * block_size(k)
    BY ONLY <2>1, <1>2, k \in Nat, SizeMultiple, Zenon
  <2> QED BY <2>2, <1>1
<1>7. PICK u \in Nat : z.base = u * block_size(z.order)
  <2>1. z.base % block_size(z.order) = 0
    <3>1. \A i \in 1..Len(zones) : zones[i].base % block_size(zones[i].order) = 0
      BY DEF ZonesInv
    <3> QED BY <3>1 DEF ZoneSet
  <2>2. z.base \div block_size(z.order) \in Nat
        /\ z.base = (z.base \div block_size(z.order)) * block_size(z.order)
                      + (z.base % block_size(z.order))
    BY ONLY <1>2, Divided, Zenon
  <2> DEFINE f == z.base \div block_size(z.order)
  <2> HIDE DEF f
  <2>3. f \in Nat /\ z.base = f * block_size(z.order) + 0
    BY <2>1, <2>2 DEF f
  <2>4. PICK c \in Nat : c = f * block_size(z.order)
    BY <1>2, <2>3
  <2>5. z.base = c
    BY ONLY <2>3, <2>4
  <2> QED BY <2>3, <2>4, <2>5
<1> HIDE DEF d
<1>8. x = u * (v * d) + m * (w * d)
  BY <1>4, <1>5, <1>6, <1>7
<1>9. u * (v * d) + m * (w * d) = (u * v + m * w) * d /\ u * v + m * w \in Nat
  BY <1>2
<1>10. ((u * v + m * w) * d + 0) % d = 0
  BY <1>2, <1>9, DivUnique
<1>11. (u * v + m * w) * d + 0 = x
  BY <1>2, <1>8, <1>9
<1> QED BY <1>10, <1>11 DEF d
============================================================================
