------------------------ MODULE FrameAllocatorProofs ------------------------
(***************************************************************************)
(* Safety of the frame allocator for every memory map, every frame size    *)
(* and every set of reserved ranges.                                       *)
(*                                                                         *)
(* FreeListDistinct is not inductive: that a frame the cursor finds is     *)
(* neither held nor free follows from CursorExact, which says that the     *)
(* frames held or free are exactly the unreserved ones behind the cursor.  *)
(***************************************************************************)
EXTENDS FrameAllocator, SequenceTheorems, TLAPS

(* The prover's default of five seconds is short for the larger steps.     *)
USE SMTT(20), ZenonT(20), SMTT(30)

(* The cursor has moved over the frame f.                                  *)
Passed(f) ==
  \E k \in EntryIndices :
    /\ f \in RegionFrames(k)
    /\ k < current_region \/ (k = current_region /\ f < next_frame)

CursorExact ==
  owned \cup FreedFrames = {f \in Frames : Passed(f) /\ ~is_reserved(f)}

CursorInRegion ==
  next_frame # 0 => /\ current_region \in EntryIndices
                    /\ region_start(current_region) <= next_frame

FrameInv ==
  /\ FrameTypeOK
  /\ FreeListDistinct
  /\ FreeListIntact
  /\ CursorExact
  /\ CursorInRegion
-----------------------------------------------------------------------------
(* Aligning down lands on a multiple.                                      *)
LEMMA FrameIsMultiple ==
  ASSUME NEW f \in Frames
  PROVE  f \in Nat /\ f <= MaxAddr /\ \E q \in Nat : f = q * FRAME_SIZE
<1>1. f \in 0..MaxAddr /\ align_down(f, FRAME_SIZE) = f
  BY DEF Frames
<1>2. f \in Nat /\ f <= MaxAddr
  BY <1>1, MaxAddrAssumption
<1>3. f \div FRAME_SIZE \in Nat
  BY <1>2, FrameSizeAssumption
<1>4. f = (f \div FRAME_SIZE) * FRAME_SIZE
  BY <1>1 DEF align_down
<1> QED BY <1>2, <1>3, <1>4

(* Two different frames do not overlap.                                    *)
LEMMA FramesApart ==
  ASSUME NEW f \in Frames, NEW g \in Frames, f < g
  PROVE  f + FRAME_SIZE <= g
<1>1. PICK p \in Nat : f = p * FRAME_SIZE
  BY FrameIsMultiple
<1>2. PICK q \in Nat : g = q * FRAME_SIZE
  BY FrameIsMultiple
<1>3. p < q
  <2>1. SUFFICES ASSUME q <= p PROVE FALSE
    OBVIOUS
  <2>2. PICK d \in Nat : p = q + d
    BY <2>1, p = q + (p - q)
  <2>3. f = q * FRAME_SIZE + d * FRAME_SIZE
    BY <1>1, <2>2, FrameSizeAssumption
  <2>4. d * FRAME_SIZE >= 0
    BY FrameSizeAssumption
  <2> QED BY <1>2, <2>3, <2>4, FrameSizeAssumption, FrameIsMultiple
<1>4. PICK d \in Nat : q = p + 1 + d
  BY <1>3, q = p + 1 + (q - p - 1)
<1>5. g = p * FRAME_SIZE + FRAME_SIZE + d * FRAME_SIZE
  BY <1>2, <1>4, FrameSizeAssumption
<1>6. d * FRAME_SIZE >= 0
  BY FrameSizeAssumption
<1> QED BY <1>1, <1>5, <1>6, FrameSizeAssumption

(* Entry indices and alignments are natural numbers.                       *)
LEMMA MapFacts ==
  /\ Len(MemoryMap) \in Nat
  /\ \A k \in EntryIndices : region_start(k) \in Nat /\ region_end(k) \in Nat
<1>1. Len(MemoryMap) \in Nat
  BY MemoryMapAssumption
<1>2. ASSUME NEW k \in EntryIndices
      PROVE  region_start(k) \in Nat /\ region_end(k) \in Nat
  <2>1. MemoryMap[k].base \in Nat /\ MemoryMap[k].length \in Nat
    <3>1. MemoryMap[k] \in [base : 0..MaxAddr, length : 0..MaxAddr,
                           usable : BOOLEAN]
      BY MemoryMapAssumption, ElementOfSeq, Zenon DEF EntryIndices
    <3> QED BY <3>1, MaxAddrAssumption
  <2>2. ASSUME NEW a \in Nat PROVE align_down(a, FRAME_SIZE) \in Nat
    <3>1. a \div FRAME_SIZE \in Nat
      BY FrameSizeAssumption
    <3> QED BY <3>1, FrameSizeAssumption DEF align_down
  <2>3. MemoryMap[k].base + FRAME_SIZE - 1 \in Nat
    BY <2>1, FrameSizeAssumption
  <2> QED BY <2>1, <2>2, <2>3 DEF region_start, region_end, align_up
<1> QED BY <1>1, <1>2

(* The frames of an entry the scan goes through without stopping are       *)
(* behind the cursor already or reserved.                                  *)
LEMMA SkippedIsReserved ==
  ASSUME FrameTypeOK, NEW j \in EntryIndices, NEW g \in RegionFrames(j),
         current_region <= j, ~Stops(j), ~Passed(g)
  PROVE  is_reserved(g)
<1>1. g \in Frames /\ region_start(j) <= g /\ MemoryMap[j].usable
  BY DEF RegionFrames
<1>2. ~HasFrame(j)
  BY <1>1 DEF Stops
<1>3. ScanStart(j) <= g
  <2>1. CASE j = current_region /\ next_frame # 0
    <3>1. ~(g < next_frame)
      BY <2>1 DEF Passed
    <3> QED BY <2>1, <3>1, <1>1, FrameIsMultiple DEF ScanStart, FrameTypeOK
  <2>2. CASE ~(j = current_region /\ next_frame # 0)
    BY <2>2, <1>1 DEF ScanStart
  <2> QED BY <2>1, <2>2
<1> QED BY <1>2, <1>3 DEF HasFrame

(* A frame the scan finds in an entry belongs to it and is ahead of the    *)
(* cursor.                                                                 *)
LEMMA FoundIsAhead ==
  ASSUME FrameTypeOK, CursorInRegion, NEW f \in Frames,
         NEW k \in EntryIndices, current_region <= k,
         MemoryMap[k].usable, ~Overflows(k), ScanFinds(k, f)
  PROVE  f \in RegionFrames(k) /\ ~Passed(f) /\ ~is_reserved(f)
<1>1. ScanStart(k) <= f /\ f < region_end(k) /\ ~is_reserved(f)
  BY DEF ScanFinds, SkipsTo
<1>2. f \in Nat /\ next_frame \in Nat /\ current_region \in Nat
  BY FrameIsMultiple, MapFacts DEF FrameTypeOK
<1>3. region_start(k) <= f
  BY <1>1, <1>2, MapFacts DEF ScanStart, CursorInRegion
<1>4. f \in RegionFrames(k)
  BY <1>1, <1>3 DEF RegionFrames
<1>5. ASSUME Passed(f) PROVE FALSE
  <2>1. PICK j \in EntryIndices :
          /\ f \in RegionFrames(j)
          /\ j < current_region \/ (j = current_region /\ f < next_frame)
    BY <1>5 DEF Passed
  <2>2. j = k
    BY <2>1, <1>4, DisjointRegions
  <2>3. j = current_region /\ f < next_frame
    BY <2>1, <2>2, <1>2, MapFacts DEF EntryIndices
  <2> QED BY <2>2, <2>3, <1>1, <1>2 DEF ScanStart
<1> QED BY <1>1, <1>4, <1>5
-----------------------------------------------------------------------------
LEMMA InitEstablishes == FrameInit => FrameInv
<1> SUFFICES ASSUME FrameInit PROVE FrameInv
  OBVIOUS
<1>1. FrameTypeOK
  BY MapFacts DEF FrameInit, FrameTypeOK
<1>2. FreeListDistinct /\ FreeListIntact
  BY DEF FrameInit, FreeListDistinct, FreeListIntact, FreedFrames
<1>3. \A f \in Frames : ~Passed(f)
  BY FrameIsMultiple, MapFacts DEF Passed, FrameInit, EntryIndices
<1>4. FreedFrames = {}
  BY DEF FrameInit, FreedFrames
<1>5. CursorExact
  BY <1>3, <1>4 DEF FrameInit, CursorExact
<1>6. CursorInRegion
  BY DEF FrameInit, CursorInRegion
<1> QED BY <1>1, <1>2, <1>5, <1>6 DEF FrameInv

LEMMA ReservePreserves ==
  ASSUME FrameInv, NEW r \in Reservable, reserve(r)
  PROVE  FrameInv'
<1> USE DEF FrameInv
<1>1. FrameTypeOK'
  <2>1. reserved' \in Seq(Reservable)
    BY AppendProperties DEF FrameTypeOK, reserve
  <2> QED BY <2>1 DEF FrameTypeOK, reserve
<1>2. FreeListDistinct' /\ FreeListIntact' /\ CursorInRegion'
  BY DEF FreeListDistinct, FreeListIntact, CursorInRegion, FreedFrames,
         reserve
<1>3. \A f \in Frames : ~Passed(f)'
  BY FrameIsMultiple, MapFacts DEF Passed, reserve, EntryIndices
<1>4. owned' = {} /\ FreedFrames' = {}
  BY DEF reserve, FreedFrames
<1>5. CursorExact'
  BY <1>3, <1>4 DEF CursorExact
<1> QED BY <1>1, <1>2, <1>5

(* The cursor stands still, so who is behind it and what is reserved do    *)
(* not change.                                                             *)
LEMMA SameCursor ==
  ASSUME UNCHANGED <<current_region, next_frame, reserved>>,
         CursorExact, CursorInRegion,
         owned' \cup FreedFrames' = owned \cup FreedFrames
  PROVE  CursorExact' /\ CursorInRegion'
<1>1. \A f \in Frames : Passed(f)' = Passed(f) /\ is_reserved(f)' = is_reserved(f)
  BY DEF Passed, is_reserved, Ranges
<1> QED BY <1>1 DEF CursorExact, CursorInRegion

LEMMA PopPreserves ==
  ASSUME FrameInv, NEW f \in Frames, pop_free_frame(f)
  PROVE  FrameInv' /\ f \notin owned
<1> USE DEF FrameInv
<1>1. freed \in Seq(Frames) /\ freed # <<>> /\ freed[1] = f
  BY ValueAssumption DEF FrameTypeOK, FreeListIntact, pop_free_frame
<1>2. /\ Len(freed) \in Nat /\ Len(freed) >= 1
      /\ freed' \in Seq(Frames)
      /\ Len(freed') = Len(freed) - 1
      /\ \A i \in 1..Len(freed') : freed'[i] = freed[i + 1]
  BY <1>1, HeadTailProperties, EmptySeq DEF pop_free_frame
<1>3. f \in FreedFrames
  BY <1>1, <1>2 DEF FreedFrames
<1>4. FreedFrames' = FreedFrames \ {f}
  <2>1. ASSUME NEW g \in FreedFrames' PROVE g \in FreedFrames /\ g # f
    <3>1. PICK i \in 1..Len(freed') : g = freed[i + 1]
      BY <1>2, <2>1 DEF FreedFrames
    <3> QED BY <3>1, <1>1, <1>2 DEF FreedFrames, FreeListDistinct
  <2>2. ASSUME NEW g \in FreedFrames, g # f PROVE g \in FreedFrames'
    <3>1. PICK i \in 1..Len(freed) : g = freed[i]
      BY <2>2 DEF FreedFrames
    <3>2. i # 1
      BY <3>1, <2>2, <1>1
    <3>3. i - 1 \in 1..Len(freed') /\ freed'[i - 1] = g
      BY <3>1, <3>2, <1>2
    <3> QED BY <3>3 DEF FreedFrames
  <2> QED BY <2>1, <2>2
<1>5. FreeListIntact'
  <2>1. free_list_head' = IF freed' = <<>> THEN NoFrame ELSE freed'[1]
    <3>1. CASE Len(freed) = 1
      <4>1. freed' = <<>>
        BY <3>1, <1>2, EmptySeq
      <4>2. word[f] = FREE_LIST_END
        BY <3>1, <1>1 DEF FreeListIntact
      <4> QED BY <4>1, <4>2 DEF pop_free_frame
    <3>2. CASE Len(freed) > 1
      <4>1. freed' # <<>> /\ freed'[1] = freed[2] /\ freed[2] \in Frames
        BY <3>2, <1>1, <1>2, EmptySeq, ElementOfSeq
      <4>2. word[f] = freed[2]
        BY <3>2, <1>1, <1>2 DEF FreeListIntact
      <4> QED BY <4>1, <4>2, MaxAddrAssumption
              DEF pop_free_frame, FREE_LIST_END
    <3> QED BY <3>1, <3>2, <1>2
  <2>2. ASSUME NEW i \in 1..Len(freed')
        PROVE  word'[freed'[i]] = IF i = Len(freed') THEN FREE_LIST_END
                                                    ELSE freed'[i + 1]
    <3>1. freed'[i] \in Frames /\ freed'[i] # f
      <4>1. freed'[i] \in FreedFrames'
        BY DEF FreedFrames
      <4>2. freed'[i] \in Frames
        BY <1>2, ElementOfSeq
      <4> QED BY <4>1, <4>2, <1>4
    <3>2. word'[freed'[i]] = word[freed[i + 1]]
      BY <3>1, <1>2 DEF pop_free_frame, HandOut, FrameTypeOK
    <3>3. i + 1 \in 1..Len(freed)
      BY <1>2
    <3>4. word[freed[i + 1]] = IF i + 1 = Len(freed) THEN FREE_LIST_END
                                                     ELSE freed[i + 2]
      BY <3>3, <1>2 DEF FreeListIntact
    <3>5. i # Len(freed') => i + 1 \in 1..Len(freed')
      BY <1>2
    <3> QED BY <3>2, <3>4, <3>5, <1>2
  <2> QED BY <2>1, <2>2 DEF FreeListIntact
<1>6. FrameTypeOK'
  <2>1. free_list_head' \in Frames \cup {NoFrame}
    BY <1>5, <1>2, ElementOfSeq, EmptySeq DEF FreeListIntact
  <2> QED BY <2>1, <1>2 DEF FrameTypeOK, pop_free_frame, HandOut
<1>7. FreeListDistinct'
  <2>1. owned' \cap FreedFrames' = {}
    BY <1>4 DEF FreeListDistinct, pop_free_frame, HandOut
  <2>2. \A i, j \in 1..Len(freed') : freed'[i] = freed'[j] => i = j
    <3>1. ASSUME NEW i \in 1..Len(freed'), NEW j \in 1..Len(freed'),
                 freed'[i] = freed'[j]
          PROVE  i = j
      <4>1. i + 1 \in 1..Len(freed) /\ j + 1 \in 1..Len(freed)
        BY <1>2
      <4>2. i + 1 = j + 1
        BY <4>1, <3>1, <1>2 DEF FreeListDistinct
      <4> QED BY <4>2
    <3> QED BY <3>1
  <2> QED BY <2>1, <2>2 DEF FreeListDistinct
<1>8. owned' \cup FreedFrames' = owned \cup FreedFrames
  BY <1>3, <1>4 DEF pop_free_frame, HandOut
<1>9. CursorExact' /\ CursorInRegion'
  BY <1>8, SameCursor DEF pop_free_frame
<1>10. f \notin owned
  BY <1>3 DEF FreeListDistinct
<1> QED BY <1>5, <1>6, <1>7, <1>9, <1>10

(* The scan found f: the cursor has moved over f, and besides it only over *)
(* reserved frames.                                                        *)
LEMMA TakePreserves ==
  ASSUME FrameInv, NEW f \in Frames, take_next_frame(f)
  PROVE  FrameInv' /\ f \notin owned
<1> USE DEF FrameInv
<1>1. PICK k \in EntryIndices :
        /\ ScanReaches(k) /\ ~Overflows(k) /\ ScanFinds(k, f)
        /\ current_region' = k /\ next_frame' = f + FRAME_SIZE
  BY DEF take_next_frame
<1>2. current_region <= k /\ MemoryMap[k].usable
  BY <1>1 DEF ScanReaches, Stops
<1>3. f \in RegionFrames(k) /\ ~Passed(f) /\ ~is_reserved(f)
  BY <1>1, <1>2, FoundIsAhead
<1>4. f \notin owned /\ f \notin FreedFrames
  BY <1>3 DEF CursorExact
<1>5. freed' = freed /\ reserved' = reserved /\ owned' = owned \cup {f}
      /\ free_list_head' = free_list_head /\ word' = [word EXCEPT ![f] = Scribble]
  BY DEF take_next_frame, HandOut
<1>6. FreedFrames' = FreedFrames
  BY <1>5 DEF FreedFrames
<1>7. /\ f \in Nat /\ next_frame \in Nat /\ current_region \in Nat /\ k \in Nat
      /\ Len(MemoryMap) \in Nat /\ k <= Len(MemoryMap) /\ k >= 1
  BY FrameIsMultiple, MapFacts DEF FrameTypeOK, EntryIndices
<1>8. FrameTypeOK'
  BY <1>1, <1>5, <1>7, FrameSizeAssumption DEF FrameTypeOK
<1>9. FreeListDistinct'
  BY <1>4, <1>5, <1>6 DEF FreeListDistinct
<1>10. FreeListIntact'
  <2>1. ASSUME NEW i \in 1..Len(freed) PROVE word'[freed[i]] = word[freed[i]]
    <3>1. freed[i] \in Frames /\ freed[i] # f
      BY <1>4, ElementOfSeq DEF FreedFrames, FrameTypeOK
    <3> QED BY <3>1, <1>5 DEF FrameTypeOK
  <2> QED BY <2>1, <1>5 DEF FreeListIntact
<1>11. CursorInRegion'
  <2>1. region_start(k) <= f
    BY <1>3 DEF RegionFrames
  <2> QED BY <2>1, <1>1, <1>7, MapFacts, FrameSizeAssumption DEF CursorInRegion
<1>12. \A g \in Frames : is_reserved(g)' = is_reserved(g)
  BY <1>5 DEF is_reserved, Ranges
<1>13. ASSUME NEW g \in Frames, Passed(g) PROVE Passed(g)'
  <2>1. PICK j \in EntryIndices :
          /\ g \in RegionFrames(j)
          /\ j < current_region \/ (j = current_region /\ g < next_frame)
    BY <1>13 DEF Passed
  <2>2. CASE j < k
    BY <2>1, <2>2, <1>1 DEF Passed
  <2>3. CASE ~(j < k)
    <3>1. j = k /\ k = current_region /\ g < next_frame
      BY <2>1, <2>3, <1>2, <1>7 DEF EntryIndices
    <3>2. next_frame <= f
      BY <3>1, <1>1, <1>7, FrameIsMultiple DEF ScanFinds, SkipsTo, ScanStart
    <3>3. g < next_frame'
      BY <3>1, <3>2, <1>1, <1>7, FrameIsMultiple, FrameSizeAssumption
    <3> QED BY <2>1, <3>1, <3>3, <1>1 DEF Passed
  <2> QED BY <2>2, <2>3
<1>14. ASSUME NEW g \in Frames, Passed(g)', ~is_reserved(g), g # f
       PROVE  Passed(g)
  <2>1. PICK j \in EntryIndices :
          g \in RegionFrames(j) /\ (j < k \/ (j = k /\ g < f + FRAME_SIZE))
    BY <1>14, <1>1 DEF Passed
  <2>2. CASE j < current_region
    BY <2>1, <2>2 DEF Passed
  <2>3. CASE current_region <= j /\ j < k
    BY <2>1, <2>3, <1>1, <1>14, SkippedIsReserved DEF ScanReaches
  <2>4. CASE j = k
    <3>1. g < f
      <4>1. ~(f < g)
        BY <2>1, <2>4, <1>7, FramesApart, FrameIsMultiple, FrameSizeAssumption
      <4> QED BY <4>1, <1>14, <1>7, FrameIsMultiple
    <3>2. ~(ScanStart(k) <= g)
      BY <3>1, <1>1, <1>14 DEF ScanFinds, SkipsTo
    <3>3. region_start(k) <= g
      BY <2>1, <2>4 DEF RegionFrames
    <3>4. k = current_region /\ g < next_frame
      BY <3>2, <3>3, <1>7, FrameIsMultiple DEF ScanStart
    <3> QED BY <2>1, <2>4, <3>4 DEF Passed
  <2> QED BY <2>1, <2>2, <2>3, <2>4, <1>7 DEF EntryIndices
<1>15. Passed(f)'
  <2>1. f < next_frame'
    BY <1>1, <1>7, FrameSizeAssumption
  <2> QED BY <2>1, <1>1, <1>3 DEF Passed
<1>16. CursorExact'
  BY <1>3, <1>5, <1>6, <1>12, <1>13, <1>14, <1>15 DEF CursorExact
<1> QED BY <1>4, <1>8, <1>9, <1>10, <1>11, <1>16

(* The cursor moves over the frames of entries that did not stop the scan, *)
(* and so only over reserved ones.                                         *)
LEMMA NonePreserves ==
  ASSUME FrameInv, allocate_none
  PROVE  FrameInv'
<1> USE DEF FrameInv
<1>1. /\ UNCHANGED <<reserved, free_list_head, word, freed, owned>>
      /\ FreedFrames' = FreedFrames
  BY DEF allocate_none, FreedFrames
<1>2. PICK k \in 1..(Len(MemoryMap) + 1) :
        /\ current_region <= k
        /\ \A j \in EntryIndices : current_region <= j /\ j < k => ~Stops(j)
        /\ current_region' = k
        /\ next_frame' = 0 \/ (k = current_region /\ next_frame' = next_frame)
        /\ k \in EntryIndices => RegionFrames(k) = {}
  <2>1. CASE /\ \A k \in EntryIndices : current_region <= k => ~Stops(k)
             /\ current_region' = Len(MemoryMap) + 1
             /\ next_frame' = 0
    BY <2>1, MapFacts DEF FrameTypeOK, EntryIndices
  <2>2. CASE \E k \in EntryIndices :
               /\ ScanReaches(k) /\ Overflows(k)
               /\ current_region' = k
               /\ next_frame' = IF k = current_region THEN next_frame ELSE 0
    <3>1. PICK k \in EntryIndices :
               /\ ScanReaches(k) /\ Overflows(k)
               /\ current_region' = k
               /\ next_frame' = IF k = current_region THEN next_frame ELSE 0
      BY <2>2
    <3>2. RegionFrames(k) = {}
      BY <3>1 DEF RegionFrames
    <3>3. k \in 1..(Len(MemoryMap) + 1)
      BY MapFacts DEF EntryIndices
    <3> QED BY <3>1, <3>2, <3>3 DEF ScanReaches
  <2> QED BY <2>1, <2>2 DEF allocate_none
<1>3. FrameTypeOK' /\ FreeListDistinct' /\ FreeListIntact'
  BY <1>1, <1>2 DEF FrameTypeOK, FreeListDistinct, FreeListIntact
<1>4. CursorInRegion'
  BY <1>2 DEF CursorInRegion
<1>5. /\ Len(MemoryMap) \in Nat /\ current_region \in Nat /\ k \in Nat
      /\ next_frame \in Nat
  BY MapFacts DEF FrameTypeOK
<1>6. \A g \in Frames : is_reserved(g)' = is_reserved(g)
  BY <1>1 DEF is_reserved, Ranges
<1>7. ASSUME NEW g \in Frames, Passed(g) PROVE Passed(g)'
  <2>1. PICK j \in EntryIndices :
          /\ g \in RegionFrames(j)
          /\ j < current_region \/ (j = current_region /\ g < next_frame)
    BY <1>7 DEF Passed
  <2>2. j # k
    BY <2>1, <1>2
  <2>3. j < k
    BY <2>1, <2>2, <1>2, <1>5 DEF EntryIndices
  <2> QED BY <2>1, <2>3, <1>2 DEF Passed
<1>8. ASSUME NEW g \in Frames, Passed(g)', ~is_reserved(g) PROVE Passed(g)
  <2>1. PICK j \in EntryIndices : g \in RegionFrames(j) /\ (j < k \/ j = k)
    BY <1>8, <1>2 DEF Passed
  <2>2. j < k
    BY <2>1, <1>2
  <2>3. CASE j < current_region
    BY <2>1, <2>3 DEF Passed
  <2>4. CASE current_region <= j
    BY <2>1, <2>2, <2>4, <1>2, <1>8, SkippedIsReserved
  <2> QED BY <2>3, <2>4, <1>5 DEF EntryIndices
<1>9. CursorExact'
  BY <1>1, <1>6, <1>7, <1>8 DEF CursorExact
<1> QED BY <1>3, <1>4, <1>9

(* Giving back a frame that is held puts it at the head of the list.       *)
LEMMA DeallocatePreserves ==
  ASSUME FrameInv, NEW f \in owned, deallocate_frame(f)
  PROVE  FrameInv'
<1> USE DEF FrameInv
<1>1. f \in Frames /\ f \notin FreedFrames
  BY DEF FrameTypeOK, FreeListDistinct
<1>2. /\ freed' = <<f>> \o freed /\ owned' = owned \ {f} /\ free_list_head' = f
      /\ UNCHANGED <<current_region, next_frame, reserved>>
      /\ word' = [word EXCEPT ![f] = IF free_list_head = NoFrame
                                       THEN FREE_LIST_END ELSE free_list_head]
  BY DEF deallocate_frame, push_free_frame
<1>3. /\ freed \in Seq(Frames) /\ Len(freed) \in Nat
      /\ freed' \in Seq(Frames) /\ Len(freed') = Len(freed) + 1
      /\ freed'[1] = f
      /\ \A i \in 2..(Len(freed) + 1) : freed'[i] = freed[i - 1]
  <2>1. freed \in Seq(Frames) /\ Len(freed) \in Nat
    BY DEF FrameTypeOK
  <2>2. <<f>> \in Seq(Frames) /\ Len(<<f>>) = 1 /\ <<f>>[1] = f
    BY <1>1
  <2> QED BY <2>1, <2>2, <1>2, ConcatProperties
<1>4. FreedFrames' = FreedFrames \cup {f}
  <2>1. ASSUME NEW g \in FreedFrames' PROVE g \in FreedFrames \cup {f}
    <3>1. PICK i \in 1..Len(freed') : g = freed'[i]
      BY <2>1 DEF FreedFrames
    <3>2. CASE i = 1
      BY <3>1, <3>2, <1>3
    <3>3. CASE i # 1
      <4>1. i - 1 \in 1..Len(freed) /\ g = freed[i - 1]
        BY <3>1, <3>3, <1>3
      <4> QED BY <4>1 DEF FreedFrames
    <3> QED BY <3>2, <3>3
  <2>2. ASSUME NEW g \in FreedFrames PROVE g \in FreedFrames'
    <3>1. PICK i \in 1..Len(freed) : g = freed[i]
      BY <2>2 DEF FreedFrames
    <3>2. i + 1 \in 1..Len(freed') /\ freed'[i + 1] = g
      BY <3>1, <1>3
    <3> QED BY <3>2 DEF FreedFrames
  <2>3. f \in FreedFrames'
    BY <1>3 DEF FreedFrames
  <2> QED BY <2>1, <2>2, <2>3
<1>5. FrameTypeOK'
  BY <1>1, <1>2, <1>3, MaxAddrAssumption DEF FrameTypeOK
<1>6. FreeListDistinct'
  <2>1. owned' \cap FreedFrames' = {}
    BY <1>2, <1>4 DEF FreeListDistinct
  <2>2. ASSUME NEW i \in 1..Len(freed'), NEW j \in 1..Len(freed'),
               freed'[i] = freed'[j]
        PROVE  i = j
    <3>1. \A m \in 1..Len(freed') :
            m # 1 => m - 1 \in 1..Len(freed) /\ freed'[m] = freed[m - 1]
      BY <1>3
    <3>2. \A m \in 1..Len(freed') : m # 1 => freed'[m] # f
      BY <3>1, <1>1, Zenon DEF FreedFrames
    <3>3. CASE i = 1 \/ j = 1
      BY <3>2, <3>3, <2>2, <1>3
    <3>4. CASE i # 1 /\ j # 1
      <4>1. i - 1 = j - 1
        BY <3>1, <3>4, <2>2 DEF FreeListDistinct
      <4> QED BY <4>1
    <3> QED BY <3>3, <3>4
  <2> QED BY <2>1, <2>2 DEF FreeListDistinct
<1>7. FreeListIntact'
  <2>1. free_list_head' = IF freed' = <<>> THEN NoFrame ELSE freed'[1]
    BY <1>2, <1>3, EmptySeq
  <2>2. ASSUME NEW i \in 1..Len(freed')
        PROVE  word'[freed'[i]] = IF i = Len(freed') THEN FREE_LIST_END
                                                    ELSE freed'[i + 1]
    <3>1. CASE i = 1
      <4>1. word'[f] = IF free_list_head = NoFrame THEN FREE_LIST_END
                                                   ELSE free_list_head
        BY <1>1, <1>2 DEF FrameTypeOK
      <4>2. CASE freed = <<>>
        BY <3>1, <4>1, <4>2, <1>3 DEF FreeListIntact
      <4>3. CASE freed # <<>>
        <5>1. Len(freed) >= 1 /\ freed[1] \in Frames
          BY <4>3, <1>3, EmptySeq, ElementOfSeq
        <5>2. free_list_head = freed[1] /\ free_list_head # NoFrame
          BY <4>3, <5>1, ValueAssumption DEF FreeListIntact
        <5>3. freed'[2] = freed[1]
          BY <5>1, <1>3
        <5> QED BY <3>1, <4>1, <5>1, <5>2, <5>3, <1>3
      <4> QED BY <4>2, <4>3
    <3>2. CASE i # 1
      <4>1. i - 1 \in 1..Len(freed) /\ freed'[i] = freed[i - 1]
        BY <3>2, <1>3
      <4>2. freed[i - 1] \in Frames /\ freed[i - 1] # f
        BY <4>1, <1>1, <1>3, ElementOfSeq DEF FreedFrames
      <4>3. word'[freed[i - 1]] = word[freed[i - 1]]
        BY <4>2, <1>2 DEF FrameTypeOK
      <4>4. word[freed[i - 1]] = IF i - 1 = Len(freed) THEN FREE_LIST_END
                                                       ELSE freed[i]
        BY <4>1 DEF FreeListIntact
      <4>5. ASSUME i # Len(freed') PROVE freed'[i + 1] = freed[i]
        <5>1. i + 1 \in 2..(Len(freed) + 1) /\ (i + 1) - 1 = i
          BY <4>5, <1>3
        <5>2. freed'[i + 1] = freed[(i + 1) - 1]
          BY <5>1, <1>3
        <5> QED BY <5>1, <5>2
      <4> QED BY <4>1, <4>3, <4>4, <4>5, <1>3
    <3> QED BY <3>1, <3>2
  <2> QED BY <2>1, <2>2 DEF FreeListIntact
<1>8. owned' \cup FreedFrames' = owned \cup FreedFrames
  BY <1>2, <1>4
<1>9. CursorExact' /\ CursorInRegion'
  BY <1>2, <1>8, SameCursor
<1> QED BY <1>5, <1>6, <1>7, <1>9

LEMMA StutterPreserves ==
  ASSUME FrameInv, UNCHANGED frame_vars
  PROVE  FrameInv'
<1>1. \A f \in Frames : Passed(f)' = Passed(f) /\ is_reserved(f)' = is_reserved(f)
  BY DEF frame_vars, Passed, is_reserved, Ranges
<1> QED
  BY <1>1 DEF frame_vars, FrameInv, FrameTypeOK, FreeListDistinct,
     FreeListIntact, FreedFrames, CursorExact, CursorInRegion

LEMMA NextPreserves == FrameInv /\ [FrameNext]_frame_vars => FrameInv'
<1> SUFFICES ASSUME FrameInv, [FrameNext]_frame_vars PROVE FrameInv'
  OBVIOUS
<1>1. ASSUME NEW r \in Reservable, reserve(r) PROVE FrameInv'
  BY <1>1, ReservePreserves
<1>2. ASSUME NEW f \in Frames, allocate_frame(f) PROVE FrameInv'
  BY <1>2, PopPreserves, TakePreserves DEF allocate_frame
<1>3. CASE allocate_none
  BY <1>3, NonePreserves
<1>4. ASSUME NEW f \in owned, deallocate_frame(f) PROVE FrameInv'
  BY <1>4, DeallocatePreserves
<1>5. CASE UNCHANGED frame_vars
  BY <1>5, StutterPreserves
<1> QED BY <1>1, <1>2, <1>3, <1>4, <1>5 DEF FrameNext

(* The inductive invariant holds in every state the allocator and callers  *)
(* that free only what they hold can reach.                                *)
THEOREM FrameInvariance == FrameSpec => []FrameInv
<1> QED BY InitEstablishes, NextPreserves, PTL DEF FrameSpec

(* Every variable of the allocator keeps its type; in particular the       *)
(* cursor never leaves the memory map by more than one entry.              *)
THEOREM FrameTypeCorrect == FrameSpec => []FrameTypeOK
<1>1. FrameInv => FrameTypeOK
  BY DEF FrameInv
<1> QED BY <1>1, FrameInvariance, PTL

(* No frame is given to two callers: what allocate_frame returns is held   *)
(* by nobody, for every memory map and every set of reservations.          *)
THEOREM FrameExclusive == FrameSpec => []NoDoubleAllocation
<1>1. FrameInv => NoDoubleAllocation
  <2> SUFFICES ASSUME FrameInv, NEW f \in owned, NextToReturn(f) PROVE FALSE
    BY DEF NoDoubleAllocation
  <2>1. f \in Frames
    BY DEF FrameInv, FrameTypeOK
  <2>2. CASE free_list_head = f
    <3>1. freed # <<>> /\ freed[1] = f
      BY <2>1, <2>2, ValueAssumption DEF FrameInv, FreeListIntact
    <3>2. 1 \in 1..Len(freed)
      BY <3>1, EmptySeq DEF FrameInv, FrameTypeOK
    <3>3. f \in FreedFrames
      BY <3>1, <3>2 DEF FreedFrames
    <3> QED BY <3>3 DEF FrameInv, FreeListDistinct
  <2>3. CASE \E k \in EntryIndices :
               ScanReaches(k) /\ ~Overflows(k) /\ ScanFinds(k, f)
    <3>1. PICK k \in EntryIndices :
            ScanReaches(k) /\ ~Overflows(k) /\ ScanFinds(k, f)
      BY <2>3
    <3>2. ~Passed(f)
      BY <2>1, <3>1, FoundIsAhead DEF FrameInv, ScanReaches, Stops
    <3> QED BY <3>2 DEF FrameInv, CursorExact
  <2> QED BY <2>2, <2>3 DEF NextToReturn
<1> QED BY <1>1, FrameInvariance, PTL

(* The words of the free frames always spell out the free list.            *)
THEOREM FreeListCorrect == FrameSpec => []FreeListIntact
<1>1. FrameInv => FreeListIntact
  BY DEF FrameInv
<1> QED BY <1>1, FrameInvariance, PTL

(* Only usable, unreserved frames are ever handed out.                     *)
THEOREM FramesComeFromMap == FrameSpec => []OnlyUsableFrames
<1>1. FrameInv => OnlyUsableFrames
  <2> SUFFICES ASSUME FrameInv, NEW f \in owned \cup FreedFrames
               PROVE  f \in Usable /\ ~is_reserved(f)
    BY DEF OnlyUsableFrames
  <2>1. Passed(f) /\ ~is_reserved(f)
    BY DEF FrameInv, CursorExact
  <2> QED BY <2>1 DEF Passed, Usable
<1> QED BY <1>1, FrameInvariance, PTL

(* When allocate_frame gives up, its callers hold every usable frame that  *)
(* is not reserved.                                                        *)
THEOREM NoFrameIsLost == FrameSpec => []NoneMeansExhausted
<1>1. FrameInv => NoneMeansExhausted
  <2> SUFFICES ASSUME FrameInv, OutOfFrames, NEW f \in Usable, ~is_reserved(f)
               PROVE  f \in owned
    BY DEF NoneMeansExhausted
  <2>1. FreedFrames = {}
    <3>1. freed = <<>>
      <4>1. SUFFICES ASSUME freed # <<>> PROVE FALSE
        OBVIOUS
      <4>2. freed[1] \in Frames
        BY <4>1, EmptySeq, ElementOfSeq DEF FrameInv, FrameTypeOK
      <4> QED BY <4>1, <4>2, ValueAssumption
              DEF FrameInv, FreeListIntact, OutOfFrames
    <3> QED BY <3>1 DEF FreedFrames
  <2>2. PICK k \in EntryIndices : f \in RegionFrames(k)
    BY DEF Usable
  <2>3. f \in Frames /\ MemoryMap[k].usable /\ ~Overflows(k)
    BY <2>2 DEF RegionFrames
  <2>4. Passed(f)
    <3>1. SUFFICES ASSUME ~Passed(f) PROVE FALSE
      OBVIOUS
    <3>2. current_region <= k
      <4>1. ~(k < current_region)
        BY <2>2, <3>1 DEF Passed
      <4> QED BY <4>1, MapFacts DEF FrameInv, FrameTypeOK, EntryIndices
    <3>3. ~HasFrame(k)
      BY <2>2, <3>2, OverflowIsLast DEF OutOfFrames
    <3>4. is_reserved(f)
      BY <2>2, <2>3, <3>1, <3>2, <3>3, SkippedIsReserved DEF Stops, FrameInv
    <3> QED BY <3>4
  <2> QED BY <2>1, <2>3, <2>4 DEF FrameInv, CursorExact
<1> QED BY <1>1, FrameInvariance, PTL
=============================================================================
