----------------------------- MODULE FrameScan ------------------------------
(***************************************************************************)
(* The loops of kmem/frame.rs as they are written, next to the definitions *)
(* FrameAllocator.tla gives of what they compute.                          *)
(***************************************************************************)
EXTENDS FrameAllocator

(* One pass of skip_reserved's `for': every range in turn moves the frame  *)
(* past its end when the frame lies in it.                                 *)
RECURSIVE SkipPass(_, _)
SkipPass(frame, i) ==
  IF i > Len(reserved) THEN frame
  ELSE LET r == reserved[i]
           past_end == align_up(r.end, FRAME_SIZE)
           inside == r.start <= frame /\ frame < r.end /\ past_end > frame
       IN  SkipPass(IF inside THEN past_end ELSE frame, i + 1)

(* Faulty variant: a single pass, whatever the order of the ranges.        *)
SkipOnce(frame) == SkipPass(frame, 1)

(* skip_reserved's `loop': passes until one moves nothing.                 *)
RECURSIVE skip_reserved(_)
skip_reserved(frame) ==
  LET next == SkipPass(frame, 1)
  IN  IF next = frame THEN frame ELSE skip_reserved(next)

(* allocate_frame's loop with next_usable_region's inside it, from the     *)
(* given cursor: the frame returned and the cursor it leaves.              *)
RECURSIVE ScanLoop(_, _)
ScanLoop(region, next) ==
  IF region > Len(MemoryMap)
    THEN [frame |-> NoFrame, region |-> region, next |-> next]
  ELSE IF ~MemoryMap[region].usable THEN ScanLoop(region + 1, 0)
  ELSE IF Overflows(region)
    THEN [frame |-> NoFrame, region |-> region, next |-> next]
  ELSE LET start == IF next = 0 THEN region_start(region) ELSE next
           at == skip_reserved(start)
       IN  IF at < region_end(region)
             THEN [frame |-> at, region |-> region, next |-> at + FRAME_SIZE]
             ELSE ScanLoop(region + 1, 0)

(* free_frame_count follows the words from the head to FREE_LIST_END.      *)
RECURSIVE CountFrom(_)
CountFrom(f) ==
  IF f = NoFrame THEN 0
  ELSE 1 + CountFrom(IF word[f] = FREE_LIST_END THEN NoFrame ELSE word[f])

free_frame_count == CountFrom(free_list_head)
-----------------------------------------------------------------------------
(* With an empty free list the loop of allocate_frame takes exactly the    *)
(* step the model takes: same result, same cursor.  And free_frame_count,  *)
(* following the links, reports every frame that was given back and not    *)
(* yet handed out again.                                                   *)
ScanMatchesLoop ==
  [][ /\ free_list_head = NoFrame /\ reserved' = reserved
           /\ free_list_head' = NoFrame
         => LET out == ScanLoop(current_region, next_frame)
            IN  /\ owned' = IF out.frame = NoFrame THEN owned
                                                   ELSE owned \cup {out.frame}
                /\ current_region' = out.region
                /\ next_frame' = out.next
      /\ free_frame_count = Len(freed) ]_frame_vars
=============================================================================
