------------------------- MODULE AddressSpaceProofs -------------------------
(***************************************************************************)
(* The mapping code of user.rs and init_heap keeps its books and respects  *)
(* the frame allocator's contract, for every memory map, address-space     *)
(* layout, page-table shape, program and sequence of system calls.         *)
(*                                                                         *)
(* The inductive invariant joins the bookkeeping invariants with FrameInv  *)
(* and LoopInv.  LoopInv says what the interrupted loops rely on: a frame  *)
(* is in hand only for an unmapped page, and after boot the whole kernel   *)
(* heap is mapped, which is why no later mapping can land on it.           *)
(***************************************************************************)
EXTENDS AddressSpace, FrameAllocatorProofs

(* The prover's default of five seconds is short for the larger steps.     *)
USE SMTT(20), ZenonT(20), SMTT(30)

TodoPages == {todo[i].page : i \in 1..Len(todo)}

LoopInv ==
  /\ held # NoFrame => \/ pc \in {"undo", "panic"}
                       \/ Mapping /\ ~Mapped(page)
  /\ pc = "undo" => held # NoFrame
  /\ pc = "boot" => /\ TodoPages \subseteq HeapPages
                    /\ \A p \in HeapPages : Mapped(p) \/ p \in TodoPages
  /\ pc \notin {"boot", "panic"} => \A p \in HeapPages : Mapped(p)

SpaceInv ==
  /\ FrameInv
  /\ SpaceTypeOK
  /\ FramesAccounted
  /\ ProcessPagesExact
  /\ LoopInv
-----------------------------------------------------------------------------
(* Arithmetic of page numbers.                                             *)
LEMMA DivFacts ==
  ASSUME NEW n \in Nat \ {0}, NEW a \in Nat
  PROVE  /\ a \div n \in Nat
         /\ (a \div n) * n <= a
         /\ a < (a \div n) * n + n
<1>1. a \div n \in Nat
  OBVIOUS
<1>2. a = n * (a \div n) + (a % n) /\ a % n \in 0..(n - 1)
  OBVIOUS
<1> QED BY <1>1, <1>2

LEMMA DivMonotone ==
  ASSUME NEW n \in Nat \ {0}, NEW a \in Nat, NEW b \in Nat, a <= b
  PROVE  a \div n <= b \div n
<1> DEFINE p == a \div n
           q == b \div n
<1>1. p \in Nat /\ q \in Nat /\ p * n <= a /\ b < q * n + n
  BY DivFacts
<1> HIDE DEF p, q
<1>2. SUFFICES ASSUME q < p PROVE FALSE
  BY <1>1 DEF p, q
<1>3. PICK d \in Nat : p = q + 1 + d
  BY <1>1, <1>2, p = q + 1 + (p - q - 1)
<1>4. p * n = q * n + n + d * n
  BY <1>1, <1>3
<1>5. d * n >= 0 /\ q * n \in Nat /\ d * n \in Nat
  BY <1>1
<1> QED BY <1>1, <1>4, <1>5

LEMMA AlignUpFacts ==
  ASSUME NEW n \in Nat \ {0}, NEW a \in Nat
  PROVE  align_up(a, n) \in Nat /\ a <= align_up(a, n)
<1> DEFINE b == a + n - 1
           q == b \div n
<1>1. b \in Nat
  OBVIOUS
<1>2. q \in Nat /\ b < q * n + n
  BY <1>1, DivFacts
<1>3. align_up(a, n) = q * n
  BY DEF align_up, align_down
<1> HIDE DEF q
<1>4. q * n \in Nat
  BY <1>2
<1> QED BY <1>2, <1>3, <1>4

(* A range that ends at or below USER_MAX consists of pages.               *)
LEMMA PageRangeType ==
  ASSUME NEW start \in Nat, NEW len \in Nat, NEW fl \in FlagSets,
         align_up(start + len, PAGE_SIZE) <= USER_MAX
  PROVE  PageRange(start, len, fl) \in Seq(PageSpecs)
<1> DEFINE first == start \div PAGE_SIZE
           end == align_up(start + len, PAGE_SIZE)
           last == end \div PAGE_SIZE
           count == last - first
<1>1. PAGE_SIZE \in Nat \ {0} /\ USER_MAX \in Nat /\ start + len \in Nat
  BY SpaceAssumption
<1>2. end \in Nat /\ start <= end
  BY <1>1, AlignUpFacts
<1>3. first \in Nat /\ last \in Nat /\ first <= last
  BY <1>1, <1>2, DivFacts, DivMonotone
<1>4. USER_MAX \div PAGE_SIZE \in Nat /\ last <= USER_MAX \div PAGE_SIZE
  BY <1>1, <1>2, DivFacts, DivMonotone
<1>5. PageRange(start, len, fl) =
        [i \in 1..count |-> [page |-> first + i - 1, flags |-> fl]]
  BY DEF PageRange
<1> HIDE DEF first, last, end
<1>6. count \in Nat
  BY <1>3
<1>7. ASSUME NEW i \in 1..count
      PROVE  [page |-> first + i - 1, flags |-> fl] \in PageSpecs
  <2>1. first + i - 1 \in Pages
    BY <1>3, <1>4, <1>6 DEF Pages
  <2> QED BY <2>1 DEF PageSpecs
<1> QED BY <1>5, <1>6, <1>7
-----------------------------------------------------------------------------
Distinct(s) == \A i, j \in 1..Len(s) : s[i] = s[j] => i = j

Elements(s) == {s[i] : i \in 1..Len(s)}

(* Vec::swap_remove takes the element at pos out of a list without         *)
(* repetitions, and nothing else.                                          *)
LEMMA SwapRemoveFacts ==
  ASSUME NEW S, NEW s \in Seq(S), NEW pos \in 1..Len(s),
         Distinct(s)
  PROVE  /\ swap_remove(s, pos) \in Seq(S)
         /\ Distinct(swap_remove(s, pos))
         /\ Elements(swap_remove(s, pos)) = Elements(s) \ {s[pos]}
<1>0. PICK r : r = swap_remove(s, pos)
  OBVIOUS
<1> DEFINE n == Len(s)
           t == [s EXCEPT ![pos] = s[n]]
<1>1. n \in Nat /\ n >= 1 /\ pos >= 1 /\ pos <= n
  OBVIOUS
<1>2. \A i \in 1..(n - 1) : t[i] = (IF i = pos THEN s[n] ELSE s[i]) /\ t[i] \in S
  BY <1>1, ElementOfSeq
<1>3. /\ r \in Seq(S) /\ Len(r) = n - 1
      /\ \A i \in 1..(n - 1) : r[i] = t[i]
  <2>1. r = SubSeq(t, 1, n - 1)
    BY <1>0 DEF swap_remove
  <2> HIDE DEF t, n
  <2>2. 1 \in Int /\ n - 1 \in Int
    BY <1>1
  <2>3. /\ SubSeq(t, 1, n - 1) \in Seq(S)
        /\ Len(SubSeq(t, 1, n - 1)) = IF 1 <= n - 1 THEN (n - 1) - 1 + 1 ELSE 0
        /\ \A i \in 1..((n - 1) - 1 + 1) : SubSeq(t, 1, n - 1)[i] = t[1 + i - 1]
    BY <1>2, <2>2, SubSeqProperties
  <2>4. Len(r) = n - 1
    BY <1>1, <2>1, <2>3
  <2>5. ASSUME NEW i \in 1..(n - 1) PROVE r[i] = t[i]
    <3>1. i \in 1..((n - 1) - 1 + 1) /\ 1 + i - 1 = i
      BY <1>1
    <3>2. r[i] = t[1 + i - 1]
      BY <2>1, <2>3, <3>1
    <3> QED BY <3>1, <3>2
  <2> QED BY <2>1, <2>3, <2>4, <2>5
<1>4. \A i \in 1..(n - 1) : r[i] = IF i = pos THEN s[n] ELSE s[i]
  BY <1>2, <1>3
<1> HIDE DEF t
<1>5. ASSUME NEW i \in 1..(n - 1), NEW j \in 1..(n - 1), r[i] = r[j]
      PROVE  i = j
  <2>1. i \in 1..n /\ j \in 1..n /\ n \in 1..n /\ i # n /\ j # n
    BY <1>1
  <2> QED BY <1>4, <1>5, <2>1 DEF Distinct
<1>6. ASSUME NEW i \in 1..(n - 1)
      PROVE  r[i] \in {s[k] : k \in 1..n} /\ r[i] # s[pos]
  <2>1. i \in 1..n /\ n \in 1..n /\ i # n
    BY <1>1
  <2> QED BY <1>4, <2>1 DEF Distinct
<1>7. ASSUME NEW k \in 1..n, s[k] # s[pos]
      PROVE  \E i \in 1..(n - 1) : r[i] = s[k]
  <2>1. CASE k = n
    <3>1. pos \in 1..(n - 1)
      BY <2>1, <1>1, <1>7
    <3> QED BY <2>1, <3>1, <1>4
  <2>2. CASE k # n
    <3>1. k \in 1..(n - 1) /\ k # pos
      BY <2>2, <1>1, <1>7
    <3> QED BY <3>1, <1>4
  <2> QED BY <2>1, <2>2
<1>8. {r[i] : i \in 1..(n - 1)} = {s[i] : i \in 1..n} \ {s[pos]}
  <2>1. ASSUME NEW x \in {r[i] : i \in 1..(n - 1)}
        PROVE  x \in {s[i] : i \in 1..n} /\ x # s[pos]
    BY <1>6
  <2>2. ASSUME NEW x \in {s[i] : i \in 1..n}, x # s[pos]
        PROVE  x \in {r[i] : i \in 1..(n - 1)}
    <3>1. PICK k \in 1..n : x = s[k]
      BY <2>2
    <3> QED BY <3>1, <2>2, <1>7
  <2> QED BY <2>1, <2>2, Zenon
<1>9. Distinct(r)
  BY <1>3, <1>5 DEF Distinct
<1>10. Elements(r) = Elements(s) \ {s[pos]}
  BY <1>3, <1>8, Zenon DEF Elements
<1> QED BY <1>0, <1>3, <1>9, <1>10
-----------------------------------------------------------------------------
(* What the three outcomes of the allocator's interface mean for `owned'.  *)
LEMMA AllocateFacts ==
  ASSUME FrameInv, NEW f \in Frames, allocate_frame(f)
  PROVE  /\ FrameInv' /\ FrameNext
         /\ f \notin owned /\ owned' = owned \cup {f} /\ f # NoFrame
<1>1. FrameNext
  BY DEF FrameNext
<1>2. FrameInv' /\ f \notin owned
  BY PopPreserves, TakePreserves DEF allocate_frame
<1>3. owned' = owned \cup {f}
  BY DEF allocate_frame, pop_free_frame, take_next_frame, HandOut
<1> QED BY <1>1, <1>2, <1>3, ValueAssumption

LEMMA NoneFacts ==
  ASSUME FrameInv, allocate_none
  PROVE  FrameInv' /\ FrameNext /\ owned' = owned
BY NonePreserves DEF FrameNext, allocate_none

LEMMA DeallocateFacts ==
  ASSUME FrameInv, NEW f \in owned, deallocate_frame(f)
  PROVE  FrameInv' /\ FrameNext /\ owned' = owned \ {f}
BY DeallocatePreserves DEF FrameNext, deallocate_frame

(* PROCESS_PAGES stays exact while neither it nor the page table changes.   *)
LEMMA PagesExactKept ==
  ASSUME ProcessPagesExact, UNCHANGED <<pt, PROCESS_PAGES>>
  PROVE  ProcessPagesExact'
BY DEF ProcessPagesExact, ProcessPages, Mapped

(* A step that touches neither frames nor mappings keeps the books.        *)
LEMMA BooksUnchanged ==
  ASSUME SpaceInv,
         UNCHANGED <<frame_vars, held, pt, tables, PROCESS_PAGES, leaked>>
  PROVE  FrameInv' /\ FramesAccounted' /\ ProcessPagesExact'
<1>1. FrameInv'
  BY StutterPreserves DEF SpaceInv
<1>2. owned' = owned
  BY DEF frame_vars
<1>3. FramesAccounted'
  BY <1>2 DEF SpaceInv, FramesAccounted, Backing, TableFrames, InHand, Mapped
<1>4. ProcessPagesExact'
  BY PagesExactKept DEF SpaceInv
<1> QED BY <1>1, <1>3, <1>4

(* The kernel heap lies on pages.                                           *)
LEMMA HeapPagesTyped == HeapPages \subseteq Pages
<1>1. \A i \in 1..Len(KernelHeap) : KernelHeap[i] \in Pages
  BY SpaceAssumption, ElementOfSeq
<1> QED BY <1>1 DEF HeapPages

LEMMA SpaceInitEstablishes == SpaceInit => SpaceInv
<1> SUFFICES ASSUME SpaceInit PROVE SpaceInv
  OBVIOUS
<1>1. FrameInv
  BY InitEstablishes DEF SpaceInit
<1>2. Len(KernelHeap) \in Nat
  BY SpaceAssumption
<1>3. \A i \in 1..Len(KernelHeap) : KernelHeap[i] \in Pages
  BY SpaceAssumption, ElementOfSeq
<1>4. todo \in Seq(PageSpecs) /\ Len(todo) = Len(KernelHeap)
  <2>1. \A i \in 1..Len(KernelHeap) :
          [page |-> KernelHeap[i], flags |-> {"W"}] \in PageSpecs
    BY <1>3 DEF PageSpecs, FlagSets
  <2> QED BY <1>2, <2>1 DEF SpaceInit
<1>5. SpaceTypeOK
  BY <1>4, SpaceAssumption DEF SpaceInit, SpaceTypeOK, FlagSets
<1>6. Backing = {} /\ TableFrames = {} /\ InHand = {} /\ owned = {}
  BY DEF SpaceInit, FrameInit, Backing, TableFrames, InHand, Mapped
<1>7. FramesAccounted
  BY <1>6 DEF SpaceInit, FramesAccounted, Mapped
<1>8. ProcessPagesExact
  BY DEF SpaceInit, ProcessPagesExact, ProcessPages, Mapped
<1>9. TodoPages = HeapPages
  BY <1>4 DEF SpaceInit, TodoPages, HeapPages
<1>10. LoopInv
  BY <1>9 DEF SpaceInit, LoopInv
<1> QED BY <1>1, <1>5, <1>7, <1>8, <1>10 DEF SpaceInv

(* The loop's current page, and what is left behind it.                    *)
LEMMA NoneLeft == << >> \in Seq(PageSpecs)
  OBVIOUS

LEMMA TodoFacts ==
  ASSUME SpaceTypeOK, todo # <<>>
  PROVE  /\ Head(todo) \in PageSpecs /\ page \in Pages
         /\ Head(todo).flags \in FlagSets
         /\ Tail(todo) \in Seq(PageSpecs)
         /\ page \in TodoPages
         /\ todo' = Tail(todo) =>
              /\ TodoPages' \subseteq TodoPages
              /\ TodoPages \subseteq TodoPages' \cup {page}
<1>1. todo \in Seq(PageSpecs) /\ Len(todo) \in Nat /\ Len(todo) >= 1
  BY EmptySeq DEF SpaceTypeOK
<1>2. /\ Head(todo) \in PageSpecs /\ Tail(todo) \in Seq(PageSpecs)
      /\ Len(Tail(todo)) = Len(todo) - 1
      /\ \A i \in 1..Len(Tail(todo)) : Tail(todo)[i] = todo[i + 1]
  BY <1>1, HeadTailProperties
<1>3. Head(todo) = todo[1]
  BY <1>1
<1>4. page \in Pages /\ Head(todo).flags \in FlagSets
  BY <1>2 DEF page, PageSpecs
<1>5. page \in TodoPages
  BY <1>1, <1>3 DEF page, TodoPages
<1>6. ASSUME todo' = Tail(todo)
      PROVE  TodoPages' \subseteq TodoPages /\ TodoPages \subseteq TodoPages' \cup {page}
  <2>1. ASSUME NEW p \in TodoPages' PROVE p \in TodoPages
    <3>1. PICK i \in 1..Len(Tail(todo)) : p = Tail(todo)[i].page
      BY <1>6, <2>1 DEF TodoPages
    <3>2. i + 1 \in 1..Len(todo) /\ p = todo[i + 1].page
      BY <3>1, <1>1, <1>2
    <3> QED BY <3>2 DEF TodoPages
  <2>2. ASSUME NEW p \in TodoPages, p # page PROVE p \in TodoPages'
    <3>1. PICK i \in 1..Len(todo) : p = todo[i].page
      BY <2>2 DEF TodoPages
    <3>2. i # 1
      BY <3>1, <2>2, <1>3 DEF page
    <3>3. i - 1 \in 1..Len(Tail(todo)) /\ Tail(todo)[i - 1] = todo[i]
      BY <3>1, <3>2, <1>1, <1>2
    <3> QED BY <3>1, <3>3, <1>6, Zenon DEF TodoPages
  <2> QED BY <2>1, <2>2
<1> QED BY <1>2, <1>4, <1>5, <1>6
-----------------------------------------------------------------------------
(* One lemma for each step that allocates, maps, unmaps or frees.          *)
LEMMA TakeFramePreserves ==
  ASSUME SpaceInv, NEW f \in Frames, TakeFrame(f)
  PROVE  SpaceInv' /\ FrameNext
<1> USE DEF SpaceInv
<1>1. /\ FrameInv' /\ FrameNext
      /\ f \notin owned /\ owned' = owned \cup {f} /\ f # NoFrame
  BY AllocateFacts DEF TakeFrame
<1>2. /\ held = NoFrame /\ held' = f /\ Mapping /\ ~Mapped(page)
      /\ UNCHANGED <<pc, todo, entry, new_brk, pt, flags, tables,
                     PROCESS_PAGES, BRK, MMAP_NEXT, leaked>>
  BY DEF TakeFrame
<1>3. SpaceTypeOK'
  BY <1>2 DEF SpaceTypeOK
<1>4. /\ Backing' = Backing /\ TableFrames' = TableFrames
      /\ InHand = {} /\ InHand' = {f}
  BY <1>1, <1>2 DEF Backing, TableFrames, InHand, Mapped
<1>5. FramesAccounted'
  BY <1>1, <1>2, <1>4 DEF FramesAccounted, Mapped
<1>6. ProcessPagesExact'
  BY <1>2, PagesExactKept
<1>7. LoopInv'
  BY <1>2 DEF LoopInv, Mapping, Mapped, page, TodoPages
<1> QED BY <1>1, <1>3, <1>5, <1>6, <1>7

LEMMA AddTablePreserves ==
  ASSUME SpaceInv, NEW f \in Frames, AddTable(f)
  PROVE  SpaceInv' /\ FrameNext
<1> USE DEF SpaceInv
<1>1. /\ FrameInv' /\ FrameNext
      /\ f \notin owned /\ owned' = owned \cup {f} /\ f # NoFrame
  BY AllocateFacts DEF AddTable
<1>2. /\ Mapping /\ held # NoFrame
      /\ UNCHANGED <<pc, todo, held, entry, new_brk, pt, flags,
                     PROCESS_PAGES, BRK, MMAP_NEXT, leaked>>
  BY DEF AddTable
<1>3. PICK t \in Tables :
        tables[t] = NoFrame /\ tables' = [tables EXCEPT ![t] = f]
  <2>1. page \in Pages
    BY <1>2, TodoFacts DEF Mapping
  <2>2. TablesOf[page] \in Seq(Tables)
    BY <2>1, SpaceAssumption
  <2>3. PICK i \in 1..Len(TablesOf[page]) :
          /\ MissingTable(page, i)
          /\ tables' = [tables EXCEPT ![TablesOf[page][i]] = f]
    BY Zenon DEF AddTable
  <2>4. TablesOf[page][i] \in Tables
    BY <2>2, ElementOfSeq
  <2> QED BY <2>3, <2>4, Zenon DEF MissingTable
<1>4. tables \in [Tables -> Frames \cup {NoFrame}]
  BY DEF SpaceTypeOK
<1>5. tables'[t] = f /\ \A u \in Tables : u # t => tables'[u] = tables[u]
  BY <1>3, <1>4
<1>6. SpaceTypeOK'
  BY <1>2, <1>3 DEF SpaceTypeOK
<1>7. TableFrames' = TableFrames \cup {f}
  BY <1>1, <1>3, <1>5 DEF TableFrames
<1>8. Backing' = Backing /\ InHand' = InHand
  BY <1>2 DEF Backing, InHand, Mapped
<1>9. f \notin Backing \cup TableFrames \cup InHand \cup leaked
  BY <1>1 DEF FramesAccounted
<1>10. \A u \in Tables : tables[u] # f
  BY <1>1, <1>9 DEF TableFrames
<1>11. \A u, v \in Tables :
         tables'[u] # NoFrame /\ tables'[u] = tables'[v] => u = v
  BY <1>5, <1>10 DEF FramesAccounted
<1>12. FramesAccounted'
  <2>1. owned' = Backing' \cup TableFrames' \cup InHand' \cup leaked'
    BY <1>1, <1>2, <1>7, <1>8 DEF FramesAccounted
  <2>2. \A p, q \in Pages : Mapped(p)' /\ pt'[p] = pt'[q] => p = q
    BY <1>2 DEF FramesAccounted, Mapped
  <2>3. /\ Backing' \cap TableFrames' = {}
        /\ InHand' \cap (Backing' \cup TableFrames') = {}
        /\ leaked' \cap (Backing' \cup TableFrames' \cup InHand') = {}
    BY <1>2, <1>7, <1>8, <1>9 DEF FramesAccounted
  <2> QED BY <2>1, <2>2, <2>3, <1>11 DEF FramesAccounted
<1>13. ProcessPagesExact'
  BY <1>2, PagesExactKept
<1>14. LoopInv'
  BY <1>2 DEF LoopInv, Mapping, Mapped, page, TodoPages
<1> QED BY <1>1, <1>6, <1>12, <1>13, <1>14

LEMMA MapPagePreserves ==
  ASSUME SpaceInv, MapPage
  PROVE  SpaceInv'
<1> USE DEF SpaceInv
<1> DEFINE p == page
<1>1. /\ Mapping /\ held # NoFrame /\ held' = NoFrame /\ todo' = Tail(todo)
      /\ pt' = [pt EXCEPT ![p] = held]
      /\ flags' = [flags EXCEPT ![p] = Head(todo).flags]
      /\ PROCESS_PAGES' = IF pc = "boot" THEN PROCESS_PAGES
                                         ELSE Append(PROCESS_PAGES, p)
      /\ UNCHANGED <<frame_vars, pc, entry, new_brk, tables, BRK, MMAP_NEXT,
                     leaked>>
  BY DEF MapPage
<1>2. /\ p \in Pages /\ Head(todo).flags \in FlagSets
      /\ Tail(todo) \in Seq(PageSpecs) /\ p \in TodoPages
      /\ TodoPages' \subseteq TodoPages /\ TodoPages \subseteq TodoPages' \cup {p}
  BY <1>1, TodoFacts DEF Mapping
<1>3. ~Mapped(p)
  BY <1>1 DEF LoopInv, Mapping
<1> HIDE DEF p
<1>4. owned' = owned
  BY <1>1 DEF frame_vars
<1>5. held \in Frames /\ held \in owned
  BY <1>1 DEF SpaceTypeOK, FramesAccounted, InHand
<1>6. /\ pt \in [Pages -> Frames \cup {NoFrame}] /\ pt'[p] = held
      /\ \A q \in Pages : q # p => pt'[q] = pt[q]
  BY <1>1, <1>2 DEF SpaceTypeOK
<1>7. PROCESS_PAGES \in Seq(Pages) /\ PROCESS_PAGES' \in Seq(Pages)
  BY <1>1, <1>2, AppendProperties DEF SpaceTypeOK
<1>8. SpaceTypeOK'
  <2>1. flags' \in [Pages -> FlagSets]
    BY <1>1, <1>2 DEF SpaceTypeOK
  <2>2. pt' \in [Pages -> Frames \cup {NoFrame}]
    BY <1>1, <1>5, Zenon DEF SpaceTypeOK
  <2> QED BY <1>1, <1>2, <1>7, <2>1, <2>2 DEF SpaceTypeOK
<1>9. Backing' = Backing \cup {held}
  BY <1>1, <1>2, <1>3, <1>6 DEF Backing, Mapped
<1>10. TableFrames' = TableFrames /\ InHand = {held} /\ InHand' = {}
  BY <1>1 DEF TableFrames, InHand
<1>11. held \notin Backing \cup TableFrames \cup leaked
  BY <1>10 DEF FramesAccounted
<1>12. \A q \in Pages : pt[q] # held
  BY <1>1, <1>11 DEF Backing, Mapped
<1>13. \A q, r \in Pages : pt'[q] # NoFrame /\ pt'[q] = pt'[r] => q = r
  BY <1>6, <1>12 DEF FramesAccounted, Mapped
<1>14. FramesAccounted'
  BY <1>1, <1>4, <1>9, <1>10, <1>11, <1>13 DEF FramesAccounted, Mapped
<1>15. {q \in Pages : Mapped(q)'} = {q \in Pages : Mapped(q)} \cup {p}
  BY <1>1, <1>2, <1>6 DEF Mapped
<1>16. ProcessPagesExact'
  <2>1. CASE pc = "boot"
    <3>1. p \in HeapPages
      BY <1>2, <2>1 DEF LoopInv
    <3>2. PROCESS_PAGES' = PROCESS_PAGES /\ ProcessPages' = ProcessPages
      BY <1>1, <2>1 DEF ProcessPages
    <3> QED BY <3>1, <3>2, <1>15 DEF ProcessPagesExact
  <2>2. CASE pc # "boot"
    <3>1. p \notin HeapPages
      BY <1>1, <1>3, <2>2 DEF LoopInv, Mapping
    <3>2. p \notin ProcessPages
      BY <1>2, <1>3 DEF ProcessPagesExact
    <3>3. /\ Len(PROCESS_PAGES) \in Nat
          /\ Len(PROCESS_PAGES') = Len(PROCESS_PAGES) + 1
          /\ \A i \in 1..Len(PROCESS_PAGES) : PROCESS_PAGES'[i] = PROCESS_PAGES[i]
          /\ PROCESS_PAGES'[Len(PROCESS_PAGES) + 1] = p
      <4>1. PROCESS_PAGES' = Append(PROCESS_PAGES, p)
        BY <1>1, <2>2
      <4>2. PROCESS_PAGES \in Seq(Pages) /\ p \in Pages
        BY <1>2, <1>7
      <4> HIDE <1>2, <1>7
      <4> QED BY <4>1, <4>2, AppendProperties
    <3>4. \A i \in 1..Len(PROCESS_PAGES') :
            \/ i \in 1..Len(PROCESS_PAGES) /\ PROCESS_PAGES'[i] = PROCESS_PAGES[i]
            \/ i = Len(PROCESS_PAGES) + 1 /\ PROCESS_PAGES'[i] = p
      BY <3>3
    <3>5. ProcessPages' = ProcessPages \cup {p}
      <4>1. ASSUME NEW q \in ProcessPages' PROVE q \in ProcessPages \cup {p}
        BY <4>1, <3>4 DEF ProcessPages
      <4>2. ASSUME NEW q \in ProcessPages PROVE q \in ProcessPages'
        <5>1. PICK i \in 1..Len(PROCESS_PAGES) : q = PROCESS_PAGES[i]
          BY <4>2 DEF ProcessPages
        <5>2. i \in 1..Len(PROCESS_PAGES') /\ PROCESS_PAGES'[i] = q
          BY <5>1, <3>3
        <5> QED BY <5>2 DEF ProcessPages
      <4>3. p \in ProcessPages'
        <5>1. Len(PROCESS_PAGES) + 1 \in 1..Len(PROCESS_PAGES')
          BY <3>3
        <5> QED BY <5>1, <3>3 DEF ProcessPages
      <4> QED BY <4>1, <4>2, <4>3
    <3>6. ASSUME NEW i \in 1..Len(PROCESS_PAGES'), NEW j \in 1..Len(PROCESS_PAGES'),
                 PROCESS_PAGES'[i] = PROCESS_PAGES'[j]
          PROVE  i = j
      <4>1. \A k \in 1..Len(PROCESS_PAGES) : PROCESS_PAGES[k] # p
        BY <3>2 DEF ProcessPages
      <4> QED BY <3>4, <3>6, <4>1 DEF ProcessPagesExact
    <3> QED BY <3>1, <3>5, <3>6, <1>15 DEF ProcessPagesExact
  <2> QED BY <2>1, <2>2
<1>17. LoopInv'
  <2>1. held' = NoFrame /\ pc' = pc /\ pc # "undo"
    BY <1>1 DEF Mapping
  <2>2. \A q \in Pages : Mapped(q) \/ q = p => pt'[q] # NoFrame
    BY <1>1, <1>6 DEF Mapped
  <2>3. HeapPages \subseteq Pages
    BY SpaceAssumption DEF HeapPages
  <2>5. pc = "boot" => /\ TodoPages' \subseteq HeapPages
                       /\ \A q \in HeapPages : pt'[q] # NoFrame \/ q \in TodoPages'
    <3>1. ASSUME pc = "boot"
          PROVE  /\ TodoPages' \subseteq HeapPages
                 /\ \A q \in HeapPages : Mapped(q) \/ q = p \/ q \in TodoPages'
      BY <1>2, <3>1 DEF LoopInv
    <3> QED BY <3>1, <2>2, <2>3
  <2>6. pc \notin {"boot", "panic"} => \A q \in HeapPages : pt'[q] # NoFrame
    BY <2>2, <2>3 DEF LoopInv
  <2> QED BY <2>1, <2>5, <2>6 DEF LoopInv, Mapped
<1> QED BY <1>1, <1>8, <1>14, <1>16, <1>17, StutterPreserves

LEMMA TakeFrameFailsPreserves ==
  ASSUME SpaceInv, TakeFrameFails
  PROVE  SpaceInv' /\ FrameNext
<1> USE DEF SpaceInv
<1>1. FrameInv' /\ FrameNext /\ owned' = owned
  BY NoneFacts DEF TakeFrameFails
<1>2. /\ Mapping /\ held = NoFrame /\ todo' = <<>> /\ new_brk' = NoBrk
      /\ pc' = [boot |-> "panic", exec |-> "cleanup", anon |-> "user"][pc]
      /\ UNCHANGED <<held, entry, pt, flags, tables, PROCESS_PAGES, BRK,
                     MMAP_NEXT, leaked>>
  BY DEF TakeFrameFails, Return
<1>3. \/ pc = "boot" /\ pc' = "panic"
      \/ pc = "exec" /\ pc' = "cleanup"
      \/ pc = "anon" /\ pc' = "user"
  <2>1. pc' = [boot |-> "panic", exec |-> "cleanup", anon |-> "user"][pc]
    BY <1>2
  <2>2. CASE pc = "boot"
    BY <2>1, <2>2
  <2>3. CASE pc = "exec"
    BY <2>1, <2>3
  <2>4. CASE pc = "anon"
    BY <2>1, <2>4
  <2> QED BY <1>2, <2>2, <2>3, <2>4 DEF Mapping
<1>4. SpaceTypeOK'
  <2>1. pc' \in {"panic", "undo", "cleanup", "user"}
    BY <1>3
  <2>2. todo' \in Seq(PageSpecs)
    <3>1. todo' = << >>
      BY <1>2
    <3> QED BY <3>1, NoneLeft
  <2>3. held' \in Frames \cup {NoFrame} /\ leaked' \subseteq Frames
    BY <1>2 DEF SpaceTypeOK
  <2> QED BY <1>2, <2>1, <2>2, <2>3 DEF SpaceTypeOK
<1>5. FramesAccounted'
  <2>1. Backing' = Backing /\ TableFrames' = TableFrames /\ InHand' = InHand
    BY <1>2 DEF Backing, TableFrames, InHand, Mapped
  <2> QED BY <2>1, <1>1, <1>2 DEF FramesAccounted, Mapped
<1>6. ProcessPagesExact'
  BY <1>2, PagesExactKept
<1>7. LoopInv'
  BY <1>2, <1>3 DEF LoopInv, Mapped
<1> QED BY <1>1, <1>4, <1>5, <1>6, <1>7

LEMMA AddTableFailsPreserves ==
  ASSUME SpaceInv, AddTableFails
  PROVE  SpaceInv' /\ FrameNext
<1> USE DEF SpaceInv
<1>1. FrameInv' /\ FrameNext /\ owned' = owned
  BY NoneFacts DEF AddTableFails
<1>2. /\ Mapping /\ held # NoFrame /\ todo' = <<>> /\ new_brk' = NoBrk
      /\ pc' = [boot |-> "panic", exec |-> "undo", anon |-> "user"][pc]
      /\ IF pc = "anon" THEN held' = NoFrame /\ leaked' = leaked \cup {held}
                        ELSE UNCHANGED <<held, leaked>>
      /\ UNCHANGED <<entry, pt, flags, tables, PROCESS_PAGES, BRK, MMAP_NEXT>>
  BY DEF AddTableFails, Return
<1>3. \/ pc = "boot" /\ pc' = "panic"
      \/ pc = "exec" /\ pc' = "undo"
      \/ pc = "anon" /\ pc' = "user"
  <2>1. pc' = [boot |-> "panic", exec |-> "undo", anon |-> "user"][pc]
    BY <1>2
  <2>2. CASE pc = "boot"
    BY <2>1, <2>2
  <2>3. CASE pc = "exec"
    BY <2>1, <2>3
  <2>4. CASE pc = "anon"
    BY <2>1, <2>4
  <2> QED BY <1>2, <2>2, <2>3, <2>4 DEF Mapping
<1>4. SpaceTypeOK'
  <2>1. pc' \in {"panic", "undo", "cleanup", "user"}
    BY <1>3
  <2>2. todo' \in Seq(PageSpecs)
    <3>1. todo' = << >>
      BY <1>2
    <3> QED BY <3>1, NoneLeft
  <2>3. held' \in Frames \cup {NoFrame} /\ leaked' \subseteq Frames
    BY <1>2 DEF SpaceTypeOK
  <2> QED BY <1>2, <2>1, <2>2, <2>3 DEF SpaceTypeOK
<1>5. FramesAccounted'
  <2>1. Backing' = Backing /\ TableFrames' = TableFrames
    BY <1>2 DEF Backing, TableFrames, Mapped
  <2>2. /\ InHand' \cup leaked' = InHand \cup leaked
        /\ InHand' \cap leaked' = {}
        /\ InHand' \subseteq InHand
    BY <1>2, Zenon DEF InHand, FramesAccounted
  <2>3. leaked' \cap (Backing \cup TableFrames) = {}
    BY <2>2 DEF FramesAccounted
  <2> QED BY <2>1, <2>2, <2>3, <1>1, <1>2 DEF FramesAccounted, Mapped
<1>6. ProcessPagesExact'
  BY <1>2, PagesExactKept
<1>7. LoopInv'
  BY <1>2, <1>3 DEF LoopInv, Mapped
<1> QED BY <1>1, <1>4, <1>5, <1>6, <1>7

LEMMA ExecUndoPreserves ==
  ASSUME SpaceInv, ExecUndo
  PROVE  SpaceInv' /\ FrameNext
<1> USE DEF SpaceInv
<1>1. /\ pc = "undo" /\ pc' = "cleanup" /\ held' = NoFrame
      /\ UNCHANGED <<todo, entry, new_brk, pt, flags, tables, PROCESS_PAGES,
                     BRK, MMAP_NEXT, leaked>>
  BY DEF ExecUndo
<1>2. InHand = {held} /\ held \in owned
  <2>1. held # NoFrame
    BY <1>1 DEF LoopInv
  <2>2. InHand = {held}
    BY <2>1 DEF InHand
  <2> QED BY <2>2 DEF FramesAccounted
<1>3. FrameInv' /\ FrameNext /\ owned' = owned \ {held}
  BY <1>2, DeallocateFacts DEF ExecUndo
<1>4. SpaceTypeOK'
  BY <1>1 DEF SpaceTypeOK
<1>5. Backing' = Backing /\ TableFrames' = TableFrames /\ InHand' = {}
  BY <1>1 DEF Backing, TableFrames, InHand, Mapped
<1>6. FramesAccounted'
  BY <1>1, <1>2, <1>3, <1>5 DEF FramesAccounted, Mapped
<1>7. ProcessPagesExact'
  BY <1>1, PagesExactKept
<1>8. LoopInv'
  BY <1>1 DEF LoopInv, Mapped
<1> QED BY <1>3, <1>4, <1>6, <1>7, <1>8

(* Unmapping the process page p: its frame goes back to the allocator, and *)
(* everything else stays accounted for.                                    *)
LEMMA UnmapFacts ==
  ASSUME SpaceInv, NEW p \in Pages, Mapped(p), deallocate_frame(pt[p]),
         pt' = [pt EXCEPT ![p] = NoFrame],
         UNCHANGED <<held, tables, leaked>>
  PROVE  /\ FrameInv' /\ FrameNext /\ FramesAccounted'
         /\ {q \in Pages : Mapped(q)'} = {q \in Pages : Mapped(q)} \ {p}
         /\ pt' \in [Pages -> Frames \cup {NoFrame}]
         /\ \A q \in Pages : q # p => pt'[q] = pt[q]
<1> USE DEF SpaceInv
<1>1. pt[p] \in Backing /\ pt[p] \in owned
  BY DEF Backing, FramesAccounted
<1>2. FrameInv' /\ FrameNext /\ owned' = owned \ {pt[p]}
  BY <1>1, DeallocateFacts
<1>3. /\ pt' \in [Pages -> Frames \cup {NoFrame}]
      /\ pt'[p] = NoFrame /\ \A q \in Pages : q # p => pt'[q] = pt[q]
  BY DEF SpaceTypeOK
<1>4. {q \in Pages : Mapped(q)'} = {q \in Pages : Mapped(q)} \ {p}
  BY <1>3 DEF Mapped
<1>5. \A q \in Pages : q # p => pt[q] # pt[p]
  BY DEF FramesAccounted
<1>6. Backing' = Backing \ {pt[p]}
  BY <1>3, <1>5 DEF Backing, Mapped
<1>7. TableFrames' = TableFrames /\ InHand' = InHand
  BY DEF TableFrames, InHand
<1>8. \A q, r \in Pages : pt'[q] # NoFrame /\ pt'[q] = pt'[r] => q = r
  BY <1>3 DEF FramesAccounted, Mapped
<1>9. pt[p] \notin TableFrames /\ pt[p] \notin InHand /\ pt[p] \notin leaked
  BY <1>1 DEF FramesAccounted
<1>10. owned' = Backing' \cup TableFrames' \cup InHand' \cup leaked'
  BY <1>2, <1>6, <1>7, <1>9 DEF FramesAccounted
<1>11. FramesAccounted'
  BY <1>6, <1>7, <1>8, <1>10 DEF FramesAccounted, Mapped
<1> QED BY <1>2, <1>3, <1>4, <1>11

(* Dropping the last element of a list without repetitions.                *)
LEMMA DropLastFacts ==
  ASSUME NEW S, NEW s \in Seq(S), s # <<>>, Distinct(s)
  PROVE  /\ SubSeq(s, 1, Len(s) - 1) \in Seq(S)
         /\ Distinct(SubSeq(s, 1, Len(s) - 1))
         /\ Elements(SubSeq(s, 1, Len(s) - 1)) = Elements(s) \ {s[Len(s)]}
         /\ s[Len(s)] \in S
<1>1. Len(s) \in 1..Len(s)
  BY EmptySeq
<1>2. swap_remove(s, Len(s)) = SubSeq(s, 1, Len(s) - 1)
  <2>1. [s EXCEPT ![Len(s)] = s[Len(s)]] = s
    BY <1>1
  <2> QED BY <2>1 DEF swap_remove
<1>3. s[Len(s)] \in S
  BY <1>1, ElementOfSeq
<1>4. /\ swap_remove(s, Len(s)) \in Seq(S)
      /\ Distinct(swap_remove(s, Len(s)))
      /\ Elements(swap_remove(s, Len(s))) = Elements(s) \ {s[Len(s)]}
  BY <1>1, SwapRemoveFacts
<1> QED BY <1>2, <1>3, <1>4

LEMMA CleanupPagePreserves ==
  ASSUME SpaceInv, CleanupPage
  PROVE  SpaceInv' /\ FrameNext
<1> USE DEF SpaceInv
<1> DEFINE last == PROCESS_PAGES[Len(PROCESS_PAGES)]
<1>1. /\ pc = "cleanup" /\ PROCESS_PAGES # <<>>
      /\ PROCESS_PAGES' = SubSeq(PROCESS_PAGES, 1, Len(PROCESS_PAGES) - 1)
      /\ UNCHANGED <<pc, todo, held, entry, new_brk, tables, BRK, MMAP_NEXT,
                     leaked>>
  BY DEF CleanupPage
<1>2. /\ PROCESS_PAGES' \in Seq(Pages) /\ last \in Pages
      /\ Distinct(PROCESS_PAGES')
      /\ ProcessPages' = ProcessPages \ {last}
  <2>1. PROCESS_PAGES \in Seq(Pages) /\ Distinct(PROCESS_PAGES)
    BY DEF SpaceTypeOK, ProcessPagesExact, Distinct
  <2>2. /\ PROCESS_PAGES' \in Seq(Pages) /\ last \in Pages
        /\ Distinct(PROCESS_PAGES')
        /\ Elements(PROCESS_PAGES') = Elements(PROCESS_PAGES) \ {last}
    BY <1>1, <2>1, DropLastFacts
  <2> QED BY <2>2, Zenon DEF Elements, ProcessPages
<1>3. last \in ProcessPages
  <2>1. Len(PROCESS_PAGES) \in 1..Len(PROCESS_PAGES)
    BY <1>1, EmptySeq DEF SpaceTypeOK
  <2> QED BY <2>1 DEF ProcessPages
<1>4. Mapped(last) /\ last \notin HeapPages
  BY <1>3 DEF ProcessPagesExact
<1>5. /\ deallocate_frame(pt[last])
      /\ pt' = [pt EXCEPT ![last] = NoFrame]
      /\ flags' = [flags EXCEPT ![last] = {}]
  BY <1>4 DEF CleanupPage
<1> HIDE DEF last
<1>6. /\ FrameInv' /\ FrameNext /\ FramesAccounted'
      /\ {q \in Pages : Mapped(q)'} = {q \in Pages : Mapped(q)} \ {last}
      /\ pt' \in [Pages -> Frames \cup {NoFrame}]
      /\ \A q \in Pages : q # last => pt'[q] = pt[q]
  BY <1>1, <1>2, <1>4, <1>5, UnmapFacts, Zenon
<1>7. SpaceTypeOK'
  <2>1. flags' \in [Pages -> FlagSets]
    BY <1>5, Zenon DEF SpaceTypeOK, FlagSets
  <2> QED BY <2>1, <1>1, <1>2, <1>6 DEF SpaceTypeOK
<1>8. ProcessPagesExact'
  <2>1. ProcessPages' \cap HeapPages = {}
    BY <1>2 DEF ProcessPagesExact
  <2>2. {q \in Pages : Mapped(q)'} \ HeapPages = ProcessPages'
    BY <1>2, <1>4, <1>6 DEF ProcessPagesExact
  <2> QED BY <2>1, <2>2, <1>2 DEF ProcessPagesExact, Distinct
<1>9. LoopInv'
  <2>1. \A p \in HeapPages : p \in Pages
    BY HeapPagesTyped
  <2> QED BY <2>1, <1>1, <1>4, <1>6 DEF LoopInv, Mapping, Mapped
<1> QED BY <1>6, <1>7, <1>8, <1>9

LEMMA MunmapPagePreserves ==
  ASSUME SpaceInv, MunmapPage
  PROVE  SpaceInv' /\ [FrameNext]_frame_vars
<1> USE DEF SpaceInv
<1> DEFINE p == page
<1>1. /\ pc \in {"munmap", "munmap_past"} /\ todo # <<>> /\ todo' = Tail(todo)
      /\ UNCHANGED <<pc, held, entry, new_brk, tables, BRK, MMAP_NEXT, leaked>>
  BY DEF MunmapPage
<1>2. p \in Pages /\ todo' \in Seq(PageSpecs)
  BY <1>1, TodoFacts
<1>3. CASE p \in ProcessPages /\ Mapped(p)
  <2> DEFINE pos == CHOOSE i \in 1..Len(PROCESS_PAGES) : PROCESS_PAGES[i] = p
  <2>1. /\ deallocate_frame(pt[p])
        /\ pt' = [pt EXCEPT ![p] = NoFrame]
        /\ flags' = [flags EXCEPT ![p] = {}]
        /\ PROCESS_PAGES' = swap_remove(PROCESS_PAGES, pos)
    BY <1>3 DEF MunmapPage
  <2>2. pos \in 1..Len(PROCESS_PAGES) /\ PROCESS_PAGES[pos] = p
    BY <1>3 DEF ProcessPages
  <2> HIDE DEF pos, p
  <2>3. /\ PROCESS_PAGES' \in Seq(Pages)
        /\ Distinct(PROCESS_PAGES')
        /\ ProcessPages' = ProcessPages \ {p}
    <3>1. PROCESS_PAGES \in Seq(Pages) /\ Distinct(PROCESS_PAGES)
      BY DEF SpaceTypeOK, ProcessPagesExact, Distinct
    <3>2. /\ PROCESS_PAGES' \in Seq(Pages)
          /\ Distinct(PROCESS_PAGES')
          /\ Elements(PROCESS_PAGES') = Elements(PROCESS_PAGES) \ {p}
      BY <2>1, <2>2, <3>1, SwapRemoveFacts
    <3> QED BY <3>2, Zenon DEF Elements, ProcessPages
  <2>4. p \notin HeapPages
    BY <1>3 DEF ProcessPagesExact
  <2>5. /\ FrameInv' /\ FrameNext /\ FramesAccounted'
        /\ {q \in Pages : Mapped(q)'} = {q \in Pages : Mapped(q)} \ {p}
        /\ pt' \in [Pages -> Frames \cup {NoFrame}]
        /\ \A q \in Pages : q # p => pt'[q] = pt[q]
    BY <1>1, <1>2, <1>3, <2>1, UnmapFacts, Zenon
  <2>6. SpaceTypeOK'
    <3>1. flags' \in [Pages -> FlagSets]
      BY <2>1, Zenon DEF SpaceTypeOK, FlagSets
    <3> QED BY <3>1, <1>1, <1>2, <2>3, <2>5 DEF SpaceTypeOK
  <2>7. ProcessPagesExact'
    <3>1. ProcessPages' \cap HeapPages = {}
      BY <2>3 DEF ProcessPagesExact
    <3>2. {q \in Pages : Mapped(q)'} \ HeapPages = ProcessPages'
      BY <2>3, <2>4, <2>5 DEF ProcessPagesExact
    <3> QED BY <3>1, <3>2, <2>3 DEF ProcessPagesExact, Distinct
  <2>8. LoopInv'
    <3>1. \A q \in HeapPages : q \in Pages
      BY HeapPagesTyped
    <3> QED BY <3>1, <1>1, <2>4, <2>5 DEF LoopInv, Mapping, Mapped
  <2> QED BY <2>5, <2>6, <2>7, <2>8
<1>4. CASE ~(p \in ProcessPages /\ Mapped(p))
  <2>1. UNCHANGED <<frame_vars, pt, flags, PROCESS_PAGES>>
    BY <1>4 DEF MunmapPage
  <2>2. SpaceTypeOK'
    BY <2>1, <1>1, <1>2 DEF SpaceTypeOK
  <2>3. LoopInv'
    BY <2>1, <1>1 DEF LoopInv, Mapping, Mapped
  <2> QED BY <2>1, <2>2, <2>3, <1>1, BooksUnchanged
<1> QED BY <1>3, <1>4

(* The steps that only move control, or change the break, the mmap cursor  *)
(* or page flags.                                                          *)
LEMMA ControlPreserves ==
  ASSUME SpaceInv,
         UNCHANGED <<frame_vars, held, pt, tables, PROCESS_PAGES, leaked>>,
         SpaceTypeOK', LoopInv'
  PROVE  SpaceInv'
BY BooksUnchanged DEF SpaceInv

(* A mapping loop that has visited all its pages holds no frame, and       *)
(* neither does anything outside the mapping loops.                        *)
LEMMA NothingInHand ==
  ASSUME SpaceInv, pc \notin {"undo", "panic"},
         todo = <<>> \/ pc \notin {"boot", "exec", "anon"}
  PROVE  held = NoFrame
BY DEF SpaceInv, LoopInv, Mapping

LEMMA EmptyTodoPages ==
  ASSUME todo = <<>>
  PROVE  TodoPages = {}
BY DEF TodoPages

LEMMA KernelControlPreserves ==
  ASSUME SpaceInv,
         \/ BootDone \/ ExecAlreadyMapped \/ ExecEnter \/ CleanupDone
         \/ AnonSkip \/ AnonDone \/ MprotectPage \/ SyscallDone
  PROVE  SpaceInv' /\ UNCHANGED frame_vars
<1> USE DEF SpaceInv
<1>1. <<>> \in Seq(PageSpecs)
  BY EmptySeq
<1>2. CASE BootDone
  <2>1. held = NoFrame /\ TodoPages = {}
    BY <1>2, NothingInHand, EmptyTodoPages DEF BootDone
  <2>2. LoopInv'
    BY <1>2, <2>1 DEF BootDone, Return, LoopInv, Mapped
  <2>3. SpaceTypeOK'
    BY <1>1, <1>2 DEF BootDone, Return, SpaceTypeOK
  <2> QED BY <1>2, <2>2, <2>3, ControlPreserves DEF BootDone
<1>3. CASE ExecAlreadyMapped
  <2>1. LoopInv'
    BY <1>3 DEF ExecAlreadyMapped, Return, LoopInv, Mapped
  <2>2. SpaceTypeOK'
    BY <1>1, <1>3 DEF ExecAlreadyMapped, Return, SpaceTypeOK
  <2> QED BY <1>3, <2>1, <2>2, ControlPreserves DEF ExecAlreadyMapped
<1>4. CASE ExecEnter
  <2>1. held = NoFrame /\ pc' \in {"shell", "cleanup", "user"}
    BY <1>4, NothingInHand DEF ExecEnter
  <2>2. LoopInv'
    BY <1>4, <2>1 DEF ExecEnter, LoopInv, Mapped
  <2>3. SpaceTypeOK'
    BY <1>4, <2>1 DEF ExecEnter, SpaceTypeOK
  <2> QED BY <1>4, <2>2, <2>3, ControlPreserves DEF ExecEnter
<1>5. CASE CleanupDone
  <2>1. held = NoFrame
    BY <1>5, NothingInHand DEF CleanupDone
  <2>2. LoopInv'
    BY <1>5, <2>1 DEF CleanupDone, LoopInv, Mapped
  <2>3. SpaceTypeOK'
    BY <1>5, SpaceAssumption DEF CleanupDone, SpaceTypeOK
  <2> QED BY <1>5, <2>2, <2>3, ControlPreserves DEF CleanupDone
<1>6. CASE AnonSkip
  <2>1. LoopInv'
    BY <1>6 DEF AnonSkip, LoopInv, Mapped
  <2>2. SpaceTypeOK'
    BY <1>6, TodoFacts DEF AnonSkip, SpaceTypeOK
  <2> QED BY <1>6, <2>1, <2>2, ControlPreserves DEF AnonSkip
<1>7. CASE AnonDone
  <2>1. held = NoFrame
    BY <1>7, NothingInHand DEF AnonDone
  <2>2. LoopInv'
    BY <1>7, <2>1 DEF AnonDone, Return, LoopInv, Mapped
  <2>3. SpaceTypeOK'
    BY <1>1, <1>7 DEF AnonDone, Return, SpaceTypeOK
  <2> QED BY <1>7, <2>2, <2>3, ControlPreserves DEF AnonDone
<1>8. CASE MprotectPage
  <2>1. held = NoFrame
    BY <1>8, NothingInHand DEF MprotectPage
  <2>2. pc' \in {"mprotect", "mprotect_past", "user"}
    BY <1>8, Zenon DEF MprotectPage, Return
  <2>3. LoopInv'
    BY <1>8, <2>1, <2>2 DEF MprotectPage, LoopInv, Mapped
  <2>4. /\ todo' \in Seq(PageSpecs) /\ flags' \in [Pages -> FlagSets]
        /\ new_brk' \in Nat \cup {NoBrk}
    BY <1>1, <1>8, TodoFacts, Zenon DEF MprotectPage, Return, SpaceTypeOK
  <2>5. SpaceTypeOK'
    BY <1>8, <2>2, <2>4, Zenon DEF MprotectPage, SpaceTypeOK
  <2> QED BY <1>8, <2>3, <2>5, ControlPreserves, Zenon DEF MprotectPage
<1>9. CASE SyscallDone
  <2>1. held = NoFrame
    BY <1>9, NothingInHand DEF SyscallDone
  <2>2. LoopInv'
    BY <1>9, <2>1 DEF SyscallDone, Return, LoopInv, Mapped
  <2>3. SpaceTypeOK'
    BY <1>1, <1>9 DEF SyscallDone, Return, SpaceTypeOK
  <2> QED BY <1>9, <2>2, <2>3, ControlPreserves DEF SyscallDone
<1> QED BY <1>2, <1>3, <1>4, <1>5, <1>6, <1>7, <1>8, <1>9

(* Starting map_anonymous keeps todo a list of pages.                      *)
LEMMA AnonymousType ==
  ASSUME SpaceTypeOK, NEW start \in Nat, NEW len \in Nat, NEW fl \in FlagSets,
         NEW brk \in Nat \cup {NoBrk}, map_anonymous(start, len, fl, brk)
  PROVE  /\ todo' \in Seq(PageSpecs)
         /\ new_brk' \in Nat \cup {NoBrk}
         /\ pc' = pc \/ pc' = "anon"
<1>1. CASE InRange(start, len)
  BY <1>1, PageRangeType DEF map_anonymous, InRange
<1>2. CASE ~InRange(start, len)
  BY <1>2 DEF map_anonymous, SpaceTypeOK
<1> QED BY <1>1, <1>2

LEMMA UserPreserves ==
  ASSUME SpaceInv, UserStep
  PROVE  SpaceInv' /\ UNCHANGED frame_vars
<1> USE DEF SpaceInv
<1>1. ASSUME NEW program \in Programs, Exec(program)
      PROVE  SpaceInv' /\ UNCHANGED frame_vars
  <2>1. held = NoFrame
    BY <1>1, NothingInHand DEF Exec
  <2>2. LoopInv'
    BY <1>1, <2>1 DEF Exec, LoopInv, Mapped
  <2>3. program \in [specs : Seq(PageSpecs),
                     entry : {"inside", "outside", "overflow"}]
    BY SpaceAssumption
  <2>4. SpaceTypeOK'
    BY <1>1, <2>3 DEF Exec, SpaceTypeOK
  <2> QED BY <1>1, <2>2, <2>4, ControlPreserves DEF Exec
<1>2. CASE Exit
  <2>1. held = NoFrame
    BY <1>2, NothingInHand DEF Exit
  <2>2. LoopInv'
    BY <1>2, <2>1 DEF Exit, LoopInv, Mapped
  <2>3. SpaceTypeOK'
    BY <1>2 DEF Exit, SpaceTypeOK
  <2> QED BY <1>2, <2>2, <2>3, ControlPreserves DEF Exit
<1>3. ASSUME NEW new \in BrkArgs, BrkShrink(new)
      PROVE  SpaceInv' /\ UNCHANGED frame_vars
  <2>1. held = NoFrame
    BY <1>3, NothingInHand DEF BrkShrink
  <2>2. LoopInv'
    BY <1>3, <2>1 DEF BrkShrink, LoopInv, Mapped
  <2>3. SpaceTypeOK'
    BY <1>3, SpaceAssumption DEF BrkShrink, SpaceTypeOK
  <2> QED BY <1>3, <2>2, <2>3, ControlPreserves DEF BrkShrink
<1>4. ASSUME NEW new \in BrkArgs, BrkGrow(new)
      PROVE  SpaceInv' /\ UNCHANGED frame_vars
  <2>1. held = NoFrame /\ pc = "user"
    BY <1>4, NothingInHand DEF BrkGrow
  <2>2. new \in Nat /\ BRK \in Nat /\ new - BRK \in Nat /\ {"W", "NX"} \in FlagSets
    <3>1. new \in Nat /\ BRK \in Nat
      BY SpaceAssumption DEF SpaceTypeOK
    <3>2. new > BRK
      BY <1>4 DEF BrkGrow
    <3>3. {"W", "NX"} \in FlagSets
      BY DEF FlagSets
    <3> QED BY <3>1, <3>2, <3>3
  <2>3. /\ todo' \in Seq(PageSpecs) /\ new_brk' \in Nat \cup {NoBrk}
        /\ pc' = pc \/ pc' = "anon"
    BY <1>4, <2>2, AnonymousType DEF BrkGrow
  <2>4. LoopInv'
    BY <1>4, <2>1, <2>3 DEF BrkGrow, LoopInv, Mapped
  <2>5. SpaceTypeOK'
    BY <1>4, <2>1, <2>3 DEF BrkGrow, SpaceTypeOK
  <2> QED BY <1>4, <2>4, <2>5, ControlPreserves DEF BrkGrow
<1>5. ASSUME NEW addr \in MapAddrs, NEW len \in Lengths, NEW fl \in Protections,
             MmapAt(addr, len, fl)
      PROVE  SpaceInv' /\ UNCHANGED frame_vars
  <2>1. held = NoFrame /\ pc = "user"
    BY <1>5, NothingInHand DEF MmapAt
  <2>2. addr \in Nat /\ len \in Nat /\ fl \in FlagSets
    BY SpaceAssumption
  <2>3. /\ todo' \in Seq(PageSpecs) /\ new_brk' \in Nat \cup {NoBrk}
        /\ pc' = pc \/ pc' = "anon"
    BY <1>5, <2>2, AnonymousType, Zenon DEF MmapAt
  <2>4. LoopInv'
    BY <1>5, <2>1, <2>3 DEF MmapAt, LoopInv, Mapped
  <2>5. SpaceTypeOK'
    BY <1>5, <2>1, <2>3 DEF MmapAt, SpaceTypeOK
  <2> QED BY <1>5, <2>4, <2>5, ControlPreserves DEF MmapAt
<1>6. ASSUME NEW len \in Lengths, NEW fl \in Protections, mmap_anon(len, fl)
      PROVE  SpaceInv' /\ UNCHANGED frame_vars
  <2> DEFINE addr == align_up(MMAP_NEXT, PAGE_SIZE)
             next == align_up(addr + len, PAGE_SIZE)
  <2>1. held = NoFrame /\ pc = "user"
    BY <1>6, NothingInHand DEF mmap_anon
  <2>2. len \in Nat /\ fl \in FlagSets /\ PAGE_SIZE \in Nat \ {0}
    BY SpaceAssumption
  <2>3. addr \in Nat
    BY <2>2, AlignUpFacts, Zenon DEF SpaceTypeOK
  <2>4. next \in Nat
    BY <2>2, <2>3, AlignUpFacts
  <2>5. /\ MMAP_NEXT' = next /\ map_anonymous(addr, len, fl, NoBrk)
        /\ UNCHANGED <<frame_vars, held, entry, pt, flags, tables,
                       PROCESS_PAGES, BRK, leaked>>
    BY <1>6 DEF mmap_anon
  <2> HIDE DEF addr, next
  <2>6. /\ todo' \in Seq(PageSpecs) /\ new_brk' \in Nat \cup {NoBrk}
        /\ pc' = pc \/ pc' = "anon"
    BY <2>2, <2>3, <2>5, AnonymousType, Zenon
  <2>7. LoopInv'
    BY <2>1, <2>5, <2>6 DEF LoopInv, Mapped
  <2>8. SpaceTypeOK'
    BY <2>1, <2>4, <2>5, <2>6 DEF SpaceTypeOK
  <2> QED BY <2>5, <2>7, <2>8, ControlPreserves
<1>7. ASSUME NEW op \in {"mprotect", "munmap"}, NEW addr \in MapAddrs,
             NEW len \in Lengths, NEW fl \in FlagSets,
             Syscall(op, addr, len, fl)
      PROVE  SpaceInv' /\ UNCHANGED frame_vars
  <2>1. held = NoFrame
    BY <1>7, NothingInHand DEF Syscall
  <2>2. addr \in Nat /\ len \in Nat
    BY SpaceAssumption
  <2>3. todo' \in Seq(PageSpecs)
    <3>1. CASE InRange(addr, len)
      BY <1>7, <2>2, <3>1, PageRangeType DEF Syscall, InRange
    <3>2. CASE ~InRange(addr, len)
      <4>1. USER_MAX - addr \in Nat /\ addr + (USER_MAX - addr) = USER_MAX
        BY SpaceAssumption
      <4>2. align_up(addr + (USER_MAX - addr), PAGE_SIZE) <= USER_MAX
        BY <4>1, SpaceAssumption
      <4> QED BY <1>7, <2>2, <3>2, <4>1, <4>2, PageRangeType DEF Syscall
    <3> QED BY <3>1, <3>2
  <2>4. pc' \in {"mprotect", "munmap", "mprotect_past", "munmap_past"}
    <3>1. pc' = op \/ pc' = PastEnd[op]
      BY <1>7 DEF Syscall
    <3>2. PastEnd[op] \in {"mprotect_past", "munmap_past"}
      <4>1. CASE op = "mprotect"
        BY <4>1 DEF PastEnd
      <4>2. CASE op = "munmap"
        BY <4>2 DEF PastEnd
      <4> QED BY <4>1, <4>2
    <3> QED BY <1>7, <3>1, <3>2
  <2>5. LoopInv'
    BY <1>7, <2>1, <2>4 DEF Syscall, LoopInv, Mapped
  <2>6. SpaceTypeOK'
    BY <1>7, <2>3, <2>4 DEF Syscall, SpaceTypeOK
  <2> QED BY <1>7, <2>5, <2>6, ControlPreserves DEF Syscall
<1>8. {} \in FlagSets /\ Protections \subseteq FlagSets
  BY SpaceAssumption DEF FlagSets
<1> QED BY <1>1, <1>2, <1>3, <1>4, <1>5, <1>6, <1>7, <1>8 DEF UserStep

(* Every step keeps the invariant and is a step the frame allocator's      *)
(* specification allows.                                                   *)
LEMMA SpaceNextPreserves ==
  SpaceInv /\ [SpaceNext]_space_vars =>
    SpaceInv' /\ [FrameNext]_frame_vars
<1> SUFFICES ASSUME SpaceInv, [SpaceNext]_space_vars
             PROVE  SpaceInv' /\ [FrameNext]_frame_vars
  OBVIOUS
<1>1. ASSUME NEW f \in Frames, TakeFrame(f) \/ AddTable(f)
      PROVE  SpaceInv' /\ [FrameNext]_frame_vars
  BY <1>1, TakeFramePreserves, AddTablePreserves
<1>2. CASE MapPage
  BY <1>2, MapPagePreserves, Zenon DEF MapPage
<1>3. CASE TakeFrameFails \/ AddTableFails \/ ExecUndo \/ CleanupPage
  BY <1>3, TakeFrameFailsPreserves, AddTableFailsPreserves,
     ExecUndoPreserves, CleanupPagePreserves
<1>4. CASE MunmapPage
  BY <1>4, MunmapPagePreserves
<1>5. CASE \/ BootDone \/ ExecAlreadyMapped \/ ExecEnter \/ CleanupDone
           \/ AnonSkip \/ AnonDone \/ MprotectPage \/ SyscallDone
  BY <1>5, KernelControlPreserves
<1>6. CASE UserStep
  BY <1>6, UserPreserves
<1>7. CASE UNCHANGED space_vars
  <2>1. UNCHANGED <<frame_vars, space_only>>
    BY <1>7 DEF space_vars
  <2>2. SpaceTypeOK' /\ LoopInv'
    BY <2>1, Zenon DEF space_only, SpaceInv, SpaceTypeOK, LoopInv, Mapping, Mapped,
       page, TodoPages
  <2> QED BY <2>1, <2>2, ControlPreserves DEF space_only
<1> QED BY <1>1, <1>2, <1>3, <1>4, <1>5, <1>6, <1>7 DEF SpaceNext, KernelStep

LEMMA HeapKept ==
  ASSUME SpaceInv, SpaceNext, pc # "boot", NEW p \in HeapPages
  PROVE  pt'[p] = pt[p]
<1> USE DEF SpaceInv
<1>1. pt \in [Pages -> Frames \cup {NoFrame}] /\ p \in Pages
  <2>1. p \in Pages
    BY HeapPagesTyped
  <2>2. pt \in [Pages -> Frames \cup {NoFrame}]
    BY DEF SpaceTypeOK
  <2> QED BY <2>1, <2>2
<1>2. p \notin ProcessPages
  BY DEF ProcessPagesExact
<1>3. CASE MapPage
  <2>1. Mapping /\ held # NoFrame /\ pt' = [pt EXCEPT ![page] = held]
    BY <1>3 DEF MapPage
  <2>2. Mapped(p) /\ ~Mapped(page)
    BY <2>1 DEF LoopInv, Mapping
  <2>3. p # page
    BY <2>2
  <2> QED BY <1>1, <2>1, <2>3
<1>4. CASE CleanupPage
  <2> DEFINE last == PROCESS_PAGES[Len(PROCESS_PAGES)]
  <2>1. last \in ProcessPages
    <3>1. PROCESS_PAGES # << >>
      BY <1>4 DEF CleanupPage
    <3>2. PROCESS_PAGES \in Seq(Pages)
      BY DEF SpaceTypeOK
    <3>3. Len(PROCESS_PAGES) \in 1..Len(PROCESS_PAGES)
      BY <3>1, <3>2, EmptySeq
    <3> QED BY <3>3 DEF ProcessPages
  <2>2. pt' = pt \/ pt' = [pt EXCEPT ![last] = NoFrame]
    BY <1>4 DEF CleanupPage
  <2> QED BY <1>1, <1>2, <2>1, <2>2
<1>5. CASE MunmapPage
  <2>1. pt' = pt \/ (page \in ProcessPages /\ pt' = [pt EXCEPT ![page] = NoFrame])
    BY <1>5 DEF MunmapPage
  <2> QED BY <1>1, <1>2, <2>1
<1>6. CASE UserStep
  BY <1>6, Zenon DEF UserStep, Exec, Exit, BrkShrink, BrkGrow, MmapAt, mmap_anon,
     Syscall
<1>7. CASE \E f \in Frames : TakeFrame(f) \/ AddTable(f)
  BY <1>7, Zenon DEF TakeFrame, AddTable
<1>8. CASE \/ TakeFrameFails \/ AddTableFails \/ ExecUndo \/ BootDone
           \/ ExecAlreadyMapped \/ ExecEnter \/ CleanupDone
           \/ AnonSkip \/ AnonDone \/ MprotectPage \/ SyscallDone
  BY <1>8, Zenon DEF TakeFrameFails, AddTableFails, ExecUndo, BootDone,
     ExecAlreadyMapped, ExecEnter, CleanupDone, AnonSkip, AnonDone,
     MprotectPage, SyscallDone
<1> QED BY <1>3, <1>4, <1>5, <1>6, <1>7, <1>8, Zenon DEF SpaceNext, KernelStep
-----------------------------------------------------------------------------
(* The inductive invariant holds in every reachable state.                 *)
THEOREM SpaceInvariance == SpaceSpec => []SpaceInv
<1> QED BY SpaceInitEstablishes, SpaceNextPreserves, PTL DEF SpaceSpec

(* Every variable of the address space keeps its type: the loops of exec,  *)
(* brk, mmap, mprotect and munmap visit only pages below USER_MAX.         *)
THEOREM SpaceTypeCorrect == SpaceSpec => []SpaceTypeOK
<1>1. SpaceInv => SpaceTypeOK
  BY DEF SpaceInv
<1> QED BY <1>1, SpaceInvariance, PTL

(* No frame ever backs two pages, or a page and a page table, and every    *)
(* frame taken from the allocator is accounted for.                        *)
THEOREM EveryFrameHasOneUse == SpaceSpec => []FramesAccounted
<1>1. SpaceInv => FramesAccounted
  BY DEF SpaceInv
<1> QED BY <1>1, SpaceInvariance, PTL

(* PROCESS_PAGES always lists exactly the mapped pages of the process.     *)
THEOREM ProcessPagesCorrect == SpaceSpec => []ProcessPagesExact
<1>1. SpaceInv => ProcessPagesExact
  BY DEF SpaceInv
<1> QED BY <1>1, SpaceInvariance, PTL

(* exec, the system calls and cleanup use the frame allocator as its       *)
(* contract asks: they free only frames they hold, each once.              *)
THEOREM SpaceImplementsFrames == SpaceSpec => FrameSpec
<1>1. SpaceInit => FrameInit
  BY DEF SpaceInit
<1> QED BY <1>1, SpaceInvariance, SpaceNextPreserves, PTL
        DEF SpaceSpec, FrameSpec

(* Nothing that runs after boot changes the frames of the kernel heap.     *)
THEOREM KernelHeapKept == SpaceSpec => KernelHeapStable
<1>1. SpaceInv /\ [SpaceNext]_space_vars =>
        [pc # "boot" => \A p \in HeapPages : pt'[p] = pt[p]]_space_vars
  BY HeapKept
<1> QED BY <1>1, SpaceInvariance, PTL DEF SpaceSpec, KernelHeapStable
-----------------------------------------------------------------------------
(* The break grows only over mapped pages.                                 *)

(* While brk maps pages, each page of the part to be added is mapped or    *)
(* still to come.                                                          *)
BrkInv ==
  pc = "anon" /\ new_brk # NoBrk =>
    \A p \in Pages : BRK < (p + 1) * PAGE_SIZE /\ p * PAGE_SIZE < new_brk =>
      Mapped(p) \/ p \in TodoPages

LEMMA PageRangeCovers ==
  ASSUME NEW start \in Nat, NEW len \in Nat, NEW fl, NEW p \in Nat,
         start < (p + 1) * PAGE_SIZE, p * PAGE_SIZE < start + len
  PROVE  \E i \in 1..Len(PageRange(start, len, fl)) :
           PageRange(start, len, fl)[i].page = p
<1> DEFINE first == start \div PAGE_SIZE
           end == align_up(start + len, PAGE_SIZE)
           q == (start + len + PAGE_SIZE - 1) \div PAGE_SIZE
           last == end \div PAGE_SIZE
           count == last - first
           i == p - first + 1
<1>1. PAGE_SIZE \in Nat \ {0} /\ start + len + PAGE_SIZE - 1 \in Nat
  BY SpaceAssumption
<1>2. /\ first \in Nat /\ first * PAGE_SIZE <= start
      /\ q \in Nat /\ start + len + PAGE_SIZE - 1 < q * PAGE_SIZE + PAGE_SIZE
  BY <1>1, DivFacts
<1>3. end = q * PAGE_SIZE
  BY DEF align_up, align_down
<1>4. last = q
  BY <1>1, <1>2, <1>3
<1>5. PageRange(start, len, fl) =
        [k \in 1..count |-> [page |-> first + k - 1, flags |-> fl]]
  BY DEF PageRange
<1> HIDE DEF first, last, end, q
<1>6. first <= p
  <2> SUFFICES ASSUME p + 1 <= first PROVE FALSE
    BY <1>2
  <2>1. PICK d \in Nat : first = p + 1 + d
    BY <1>2, first = p + 1 + (first - p - 1)
  <2>2. first * PAGE_SIZE = (p + 1) * PAGE_SIZE + d * PAGE_SIZE
    BY <1>1, <2>1
  <2>3. d * PAGE_SIZE >= 0 /\ d * PAGE_SIZE \in Nat /\ (p + 1) * PAGE_SIZE \in Nat
    BY <1>1
  <2> QED BY <1>2, <2>2, <2>3
<1>7. p < q
  <2> SUFFICES ASSUME q <= p PROVE FALSE
    BY <1>2
  <2>1. PICK d \in Nat : p = q + d
    BY <1>2, p = q + (p - q)
  <2>2. p * PAGE_SIZE = q * PAGE_SIZE + d * PAGE_SIZE
    BY <1>1, <1>2, <2>1
  <2>3. d * PAGE_SIZE >= 0 /\ d * PAGE_SIZE \in Nat /\ q * PAGE_SIZE \in Nat
    BY <1>1, <1>2
  <2> QED BY <1>1, <1>2, <2>2, <2>3
<1>8. i \in 1..count /\ count \in Nat /\ first + i - 1 = p
  BY <1>2, <1>4, <1>6, <1>7
<1>9. Len(PageRange(start, len, fl)) = count
  BY <1>5, <1>8
<1> QED BY <1>5, <1>8, <1>9

LEMMA BrkKept ==
  ASSUME SpaceInv, BrkInv, [SpaceNext]_space_vars
  PROVE  BrkInv'
<1> SUFFICES ASSUME pc' = "anon", new_brk' # NoBrk, NEW p \in Pages,
                    BRK' < (p + 1) * PAGE_SIZE, p * PAGE_SIZE < new_brk'
             PROVE  pt'[p] # NoFrame \/ p \in TodoPages'
  BY DEF BrkInv, Mapped
<1>1. SpaceTypeOK /\ pt \in [Pages -> Frames \cup {NoFrame}] /\ BRK \in Nat
  BY DEF SpaceInv, SpaceTypeOK
<1>2. CASE \E new \in BrkArgs : BrkGrow(new)
  <2>1. PICK new \in BrkArgs : BrkGrow(new)
    BY <1>2
  <2>2. /\ pc = "user" /\ new > BRK /\ new \in Nat /\ BRK' = BRK
        /\ todo' = PageRange(BRK, new - BRK, {"W", "NX"}) /\ new_brk' = new
    BY <2>1, SpaceAssumption DEF BrkGrow, map_anonymous
  <2>3. /\ BRK \in Nat /\ p \in Nat /\ new - BRK \in Nat
        /\ BRK < (p + 1) * PAGE_SIZE /\ p * PAGE_SIZE < new
        /\ BRK + (new - BRK) = new
    BY <1>1, <2>2, SpaceAssumption DEF Pages
  <2>4. PICK i \in 1..Len(todo') : todo'[i].page = p
    BY <2>2, <2>3, PageRangeCovers
  <2> QED BY <2>4 DEF TodoPages
<1>3. ASSUME pc = "anon", BRK' = BRK, new_brk' = new_brk
      PROVE  Mapped(p) \/ p \in TodoPages
  BY <1>3 DEF BrkInv
<1>4. CASE MapPage
  <2>1. /\ pc = "anon" /\ BRK' = BRK /\ new_brk' = new_brk /\ todo # << >>
        /\ held # NoFrame /\ pt' = [pt EXCEPT ![page] = held] /\ todo' = Tail(todo)
    BY <1>4 DEF MapPage, Mapping
  <2>2. TodoPages \subseteq TodoPages' \cup {page}
    BY <1>1, <2>1, TodoFacts, Zenon
  <2>3. pt'[p] # NoFrame \/ p # page
    BY <1>1, <2>1
  <2> QED BY <1>1, <1>3, <2>1, <2>2, <2>3 DEF Mapped
<1>5. CASE AnonSkip
  <2>1. /\ pc = "anon" /\ BRK' = BRK /\ new_brk' = new_brk /\ todo # << >>
        /\ Mapped(page) /\ pt' = pt /\ todo' = Tail(todo)
    BY <1>5 DEF AnonSkip
  <2>2. TodoPages \subseteq TodoPages' \cup {page}
    BY <1>1, <2>1, TodoFacts
  <2> QED BY <1>3, <2>1, <2>2 DEF Mapped
<1>6. CASE \E f \in Frames : TakeFrame(f) \/ AddTable(f)
  <2>1. pc = "anon" /\ BRK' = BRK /\ new_brk' = new_brk /\ pt' = pt /\ todo' = todo
    BY <1>6 DEF TakeFrame, AddTable
  <2> QED BY <1>3, <2>1 DEF Mapped, TodoPages
<1>7. CASE \/ TakeFrameFails \/ AddTableFails \/ ExecUndo \/ BootDone
           \/ ExecAlreadyMapped \/ ExecEnter \/ CleanupDone \/ CleanupPage
           \/ AnonDone \/ MprotectPage \/ MunmapPage \/ SyscallDone
  BY <1>7, Zenon DEF TakeFrameFails, AddTableFails, ExecUndo, BootDone, Mapping,
     ExecAlreadyMapped, ExecEnter, CleanupDone, CleanupPage, AnonDone,
     MprotectPage, MunmapPage, SyscallDone, Return
<1>8. CASE UserStep /\ ~\E new \in BrkArgs : BrkGrow(new)
  BY <1>8, Zenon DEF UserStep, Exec, Exit, BrkShrink, MmapAt, mmap_anon, map_anonymous,
     Syscall, PastEnd
<1>9. CASE UNCHANGED space_vars
  <2>1. pc = "anon" /\ BRK' = BRK /\ new_brk' = new_brk /\ pt' = pt /\ todo' = todo
    BY <1>9 DEF space_vars, space_only
  <2> QED BY <1>3, <2>1 DEF Mapped, TodoPages
<1> QED BY <1>2, <1>4, <1>5, <1>6, <1>7, <1>8, <1>9 DEF SpaceNext, KernelStep

(* brk reports a larger break only when the pages of the grown part are    *)
(* mapped, whichever of them were mapped before.                           *)
THEOREM BreakIsBacked == SpaceSpec => GrownBreakIsBacked
<1> DEFINE A == BRK' > BRK /\ pc = "anon" =>
                  \A p \in Pages :
                    BRK < (p + 1) * PAGE_SIZE /\ p * PAGE_SIZE < BRK' => Mapped(p)
<1>1. SpaceInit => BrkInv
  BY DEF SpaceInit, BrkInv
<1>2. SpaceInv /\ BrkInv /\ [SpaceNext]_space_vars => BrkInv'
  BY BrkKept
<1>3. SpaceInv /\ BrkInv /\ [SpaceNext]_space_vars => [A]_space_vars
  <2> SUFFICES ASSUME SpaceInv, BrkInv, SpaceNext, BRK' > BRK, pc = "anon"
               PROVE  A
    OBVIOUS
  <2>1. BRK \in Nat
    BY DEF SpaceInv, SpaceTypeOK
  <2>2. AnonDone
    <3>1. BRK' # BRK
      BY <2>1
    <3>2. ~\E f \in Frames : TakeFrame(f) \/ AddTable(f)
      BY <3>1 DEF TakeFrame, AddTable
    <3>3. ~MapPage /\ ~TakeFrameFails /\ ~AddTableFails /\ ~AnonSkip
      BY <3>1, Zenon DEF MapPage, TakeFrameFails, AddTableFails, AnonSkip
    <3>4. ~BootDone /\ ~ExecAlreadyMapped /\ ~ExecUndo /\ ~ExecEnter
      BY DEF BootDone, ExecAlreadyMapped, ExecUndo, ExecEnter
    <3>5. ~CleanupPage /\ ~CleanupDone /\ ~MprotectPage /\ ~MunmapPage /\ ~SyscallDone
      BY Zenon DEF CleanupPage, CleanupDone, MprotectPage, MunmapPage, SyscallDone
    <3>6. ~UserStep
      BY Zenon DEF UserStep, Exec, Exit, BrkShrink, BrkGrow, MmapAt, mmap_anon, Syscall
    <3> QED BY <3>2, <3>3, <3>4, <3>5, <3>6 DEF SpaceNext, KernelStep
  <2>3. todo = << >> /\ new_brk # NoBrk /\ BRK' = new_brk
    BY <2>1, <2>2 DEF AnonDone
  <2>4. TodoPages = {}
    BY <2>3 DEF TodoPages
  <2> QED BY <2>3, <2>4 DEF BrkInv
<1> QED BY <1>1, <1>2, <1>3, SpaceInvariance, PTL DEF SpaceSpec, GrownBreakIsBacked
=============================================================================
