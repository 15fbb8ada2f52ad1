----------------------------- MODULE Ext2Blocks -----------------------------
(***************************************************************************)
(* The blocks of ext2 files, fs/ext2/mod.rs: the block bitmap with its     *)
(* counters, the direct, indirect, double and triple indirect pointers of  *)
(* an inode, and the operations that allocate and free through them.       *)
(*                                                                         *)
(* A block is an array of PPB cells.  A cell is a byte of a data block or  *)
(* a pointer of an indirect block, so a block the code reuses without      *)
(* clearing it shows up as wrong bytes or as wrong pointers.  Block 0 is   *)
(* the hole.  Operations run one at a time under the FS mutex, so each is  *)
(* one step; the loops inside are folds over the indices they visit.       *)
(***************************************************************************)
EXTENDS Ext2Format, SequencesExt

CONSTANTS
  Files,          \* regular files' inodes
  Goal,           \* inode -> its block group, (ino - 1) / ipg
  PPB,            \* cells in a block
  NDIRECT,        \* direct pointers in an inode, 12
  MAX_FILE_SIZE,
  Data, Offsets, Sizes,  \* what callers pass to write and truncate
  MaxOps          \* bound: operations in a behaviour

VARIABLES
  ops,  \* operations so far
  fs  \* .blocks_count, .ngroups, .bitmap blocks in use, .gd_free and
      \* .free_blocks the counters, .block the disk's blocks, .inode the
      \* inodes, .dirs the directories' blocks, .meta all other blocks that
      \* are not for files, .corrupt: an operation returned FsError::Corrupt

Cells == 0..(PPB - 1)

Slots == 0..(NDIRECT + 2)

Zero == [x \in Cells |-> 0]

(* What a free block holds is not tracked: it is something other than      *)
(* zeros, which read as pointers would lead to a block of the disk.        *)
Stale == [x \in Cells |-> 1]

(* File blocks that i_block[] reaches; 2 GiB - 1 is far less than this for *)
(* every block size, so bmap's TooBig is not reached.                      *)
Reach == NDIRECT + PPB + PPB^2 + PPB^3

ASSUME BlocksAssumption ==
  /\ PPB > 1 /\ NDIRECT > 0
  /\ MAX_FILE_SIZE <= Reach * PPB
  /\ \A f \in Files : Goal[f] \in Nat
  /\ \A d \in Data : Len(d) > 0

NewInode == [block |-> [s \in Slots |-> 0], size |-> 0, blocks |-> 0]

----------------------------------------------------------------------------
(* Allocation.  A result's blk is 0 for FsError::NoSpace.                  *)

ZeroBits(s, g) == GroupBlocks(g) \ s.bitmap

bit_find_zero(s, g) == Min(ZeroBits(s, g))

(* Only the bits that format sets for them keep the blocks past the end of *)
(* the disk from being found.                                              *)
Take(s, g, b) ==
  IF b >= s.blocks_count THEN [fs |-> [s EXCEPT !.corrupt = TRUE], blk |-> 0]
  ELSE [fs  |-> [s EXCEPT !.bitmap = @ \cup {b}, !.gd_free[g] = @ - 1,
                          !.free_blocks = @ - 1],
        blk |-> b]

TakeFrom(s, g) == Take(s, g, bit_find_zero(s, g))

(* Groups are tried from the goal on; a group whose counter is 0 is        *)
(* skipped without reading its bitmap.                                     *)
alloc_block(s, goal) ==
  LET Group(k) == (goal + k) % s.ngroups
      usable   == {k \in 0..(s.ngroups - 1) :
                     s.gd_free[Group(k)] > 0 /\ ZeroBits(s, Group(k)) # {}}
  IN  IF usable = {} THEN [fs |-> s, blk |-> 0]
      ELSE TakeFrom(s, Group(Min(usable)))

Zeroed(a) == IF a.blk = 0 THEN a ELSE [a EXCEPT !.fs.block[a.blk] = Zero]

alloc_zeroed_block(s, goal) == Zeroed(alloc_block(s, goal))

(* A clear bit is a double free: FsError::Corrupt.                         *)
free_block(s, b) ==
  IF b \notin s.bitmap \/ b >= s.blocks_count THEN [s EXCEPT !.corrupt = TRUE]
  ELSE [s EXCEPT !.bitmap = @ \ {b}, !.block[b] = Stale,
                 !.gd_free[(b - 1) \div BPG] = @ + 1,
                 !.free_blocks = @ + 1]

----------------------------------------------------------------------------
(* Mapping a file block to a disk block.                                   *)

(* The depth of the tree that holds file block l, 0 for a direct pointer,  *)
(* and l's number within that tree.                                        *)
Depth(l) ==
  CASE l < NDIRECT                 -> 0
    [] l - NDIRECT < PPB           -> 1
    [] l - NDIRECT - PPB < PPB^2   -> 2
    [] OTHER                       -> 3

TreeBase(d) == CASE d = 1 -> NDIRECT
                 [] d = 2 -> NDIRECT + PPB
                 [] d = 3 -> NDIRECT + PPB + PPB^2

SlotOf(l) == IF Depth(l) = 0 THEN l ELSE NDIRECT + Depth(l) - 1

(* The index used in each indirect block on the way down to l.             *)
PathTo(l) ==
  LET d == Depth(l)
  IN  [j \in 1..d |-> ((l - TreeBase(d)) \div PPB^(d - j)) % PPB]

(* Faulty variant: i_blocks counts the blocks at the end of the path only. *)
CountLeaf(ino, last) == IF last THEN [ino EXCEPT !.blocks = @ + 1] ELSE ino

add_blocks(ino, last) == [ino EXCEPT !.blocks = @ + 1]

(* New block a in the inode's slot, and in cell x of block c.blk.          *)
InSlot(ino, slot, a, last) ==
  [fs |-> a.fs, blk |-> a.blk,
   ino |-> IF a.blk = 0 THEN ino
           ELSE add_blocks([ino EXCEPT !.block[slot] = a.blk], last)]

InCell(c, x, a, last) ==
  IF a.blk = 0 THEN [c EXCEPT !.fs = a.fs, !.blk = 0]
  ELSE [fs  |-> [a.fs EXCEPT !.block[c.blk][x] = a.blk],
        blk |-> a.blk, ino |-> add_blocks(c.ino, last)]

(* The result's blk is 0 for a hole, and for NoSpace when create is set;   *)
(* its ino is the caller's inode, which the caller writes to disk.         *)
bmap(s, ino, goal, l, create) ==
  LET slot == SlotOf(l)
      path == PathTo(l)
      top  == IF ino.block[slot] # 0 \/ ~create
                THEN [fs |-> s, ino |-> ino, blk |-> ino.block[slot]]
              ELSE InSlot(ino, slot, alloc_zeroed_block(s, goal), path = << >>)
      Down(c, j) ==
        IF c.blk = 0 THEN c
        ELSE IF c.fs.block[c.blk][path[j]] # 0 \/ ~create
               THEN [c EXCEPT !.blk = c.fs.block[c.blk][path[j]]]
        ELSE InCell(c, path[j], alloc_zeroed_block(c.fs, goal), j = Len(path))
  IN  FoldLeftDomain(Down, top, path)

----------------------------------------------------------------------------
(* Freeing.  The counter of a walk is [fs, freed].                         *)

Saturating(n) == IF n < 0 THEN 0 ELSE n

FreeData(c, b) ==
  [fs |-> free_block(c.fs, b), freed |-> c.freed + 1, gone |-> TRUE]

(* What the walk of an indirect block does with cell x, once the child has *)
(* been freed or cut down, and with the block itself at the end.           *)
AfterChild(a, x, r) ==
  IF r.gone THEN [a EXCEPT !.fs = r.fs, !.freed = r.freed, !.buf[x] = 0]
  ELSE [a EXCEPT !.fs = r.fs, !.freed = r.freed, !.all_zero = FALSE]

AfterBlock(blk, a) ==
  LET saved == [a.fs EXCEPT !.block[blk] = a.buf]
  IN  IF a.all_zero
        THEN [fs |-> free_block(saved, blk), freed |-> a.freed + 1, gone |-> TRUE]
        ELSE [fs |-> saved, freed |-> a.freed, gone |-> FALSE]

(* Frees what lies under blk, depth levels above the data, from index      *)
(* keep on; gone says that blk itself became empty and was freed.          *)
RECURSIVE free_subtree(_, _, _, _)
free_subtree(c, blk, depth, keep) ==
  LET span == PPB^(depth - 1)
      Child(w, e, k) ==
        IF depth = 1 THEN FreeData(w, e) ELSE free_subtree(w, e, depth - 1, k)
      Visit(a, x) ==
        IF a.buf[x] = 0 THEN a
        ELSE IF x * span + span <= keep THEN [a EXCEPT !.all_zero = FALSE]
        ELSE AfterChild(a, x, Child([fs |-> a.fs, freed |-> a.freed], a.buf[x],
                                    Saturating(keep - x * span)))
      start == [fs |-> c.fs, freed |-> c.freed, buf |-> c.fs.block[blk],
                all_zero |-> TRUE]
  IN  AfterBlock(blk, FoldLeft(Visit, start, [x \in 1..PPB |-> x - 1]))

AfterSlot(c, slot, r) ==
  [fs |-> r.fs, freed |-> r.freed,
   ino |-> IF r.gone THEN [c.ino EXCEPT !.block[slot] = 0] ELSE c.ino]

Released(end) ==
  [fs |-> end.fs, ino |-> [end.ino EXCEPT !.blocks = Saturating(@ - end.freed)]]

(* Release the file blocks from keep on: direct ones, then the trees that  *)
(* reach past it.                                                          *)
truncate_blocks(s, ino, keep) ==
  LET Slot(c, slot) ==
        LET p == c.ino.block[slot]
            d == slot - NDIRECT + 1
            w == [fs |-> c.fs, freed |-> c.freed]
        IN  IF \/ p = 0
               \/ d <= 0 /\ slot < keep
               \/ d > 0 /\ keep >= TreeBase(d) + PPB^d
              THEN c
            ELSE AfterSlot(c, slot,
                   IF d <= 0 THEN FreeData(w, p)
                   ELSE free_subtree(w, p, d, Saturating(keep - TreeBase(d))))
  IN  Released(FoldLeft(Slot, [fs |-> s, ino |-> ino, freed |-> 0],
                        [k \in 1..(NDIRECT + 3) |-> k - 1]))

----------------------------------------------------------------------------
(* The operations on a file.                                               *)

(* read at offset 0 of the whole file; holes read as zeros.                *)
read(s, f) ==
  LET ino == s.inode[f]
      at  == [l \in 0..((ino.size - 1) \div PPB) |->
                bmap(s, ino, 0, l, FALSE).blk]
  IN  [i \in 1..ino.size |->
         LET b == at[(i - 1) \div PPB]
         IN  IF b = 0 THEN 0 ELSE s.block[b][(i - 1) % PPB]]

(* Faulty variant: a write that fails returns without saving the inode.    *)
SaveComplete(c, f, ino) ==
  IF c.failed THEN c.fs ELSE [c.fs EXCEPT !.inode[f] = ino]

Save(c, f, ino) == [c.fs EXCEPT !.inode[f] = ino]

(* n bytes of data, from done on, into file block m at bo.                 *)
Fill(c, m, data, bo, n) ==
  IF m.blk = 0 THEN [c EXCEPT !.fs = m.fs, !.ino = m.ino, !.failed = TRUE]
  ELSE [c EXCEPT !.fs = [m.fs EXCEPT !.block[m.blk] =
                           [x \in Cells |-> IF x \in bo..(bo + n - 1)
                                              THEN data[c.done + x - bo + 1]
                                              ELSE @[x]]],
                 !.ino = m.ino, !.done = @ + n]

Saved(c, f, off) ==
  Save(c, f, [c.ino EXCEPT !.size = IF c.done = 0 THEN @ ELSE Max({@, off + c.done})])

(* The file blocks are written one by one until one cannot be allocated;   *)
(* the inode is saved either way.                                          *)
Write(f, off, data) ==
  /\ off < MAX_FILE_SIZE
  /\ LET len   == Min({Len(data), MAX_FILE_SIZE - off})
         first == off \div PPB
         Chunk(c, lb) ==
           LET bo == (off + c.done) % PPB
           IN  IF c.failed THEN c
               ELSE Fill(c, bmap(c.fs, c.ino, Goal[f], lb, TRUE), data, bo,
                         Min({PPB - bo, len - c.done}))
     IN  fs' = Saved(FoldLeft(Chunk,
                       [fs |-> fs, ino |-> fs.inode[f], done |-> 0, failed |-> FALSE],
                       [k \in 1..((off + len - 1) \div PPB - first + 1) |-> first + k - 1]),
                     f, off)

(* Faulty variant: what lay past the new end stays in the last block.      *)
KeepTail(s, ino, size) == s

(* Zero the rest of the last kept block.                                   *)
ZeroTail(s, ino, size) ==
  LET b == bmap(s, ino, 0, size \div PPB, FALSE).blk
  IN  IF size % PPB = 0 \/ b = 0 THEN s
      ELSE [s EXCEPT !.block[b] =
              [x \in Cells |-> IF x < size % PPB THEN @[x] ELSE 0]]

(* Faulty variant: one block too many stays when the size is a multiple.   *)
KeptWhole(size) == size \div PPB + 1

KeptBlocks(size) == (size + PPB - 1) \div PPB

CutTo(f, size, cut) ==
  LET s == ZeroTail(cut.fs, cut.ino, size)
  IN  IF s.corrupt THEN [s EXCEPT !.inode = fs.inode]
      ELSE [s EXCEPT !.inode[f] = [cut.ino EXCEPT !.size = size]]

(* Growing allocates nothing: the new part is a hole.                      *)
Truncate(f, size) ==
  /\ size <= MAX_FILE_SIZE
  /\ fs' = IF size < fs.inode[f].size
             THEN CutTo(f, size, truncate_blocks(fs, fs.inode[f], KeptBlocks(size)))
             ELSE [fs EXCEPT !.inode[f].size = size]

Freed(f, r) ==
  IF r.fs.corrupt THEN r.fs
  ELSE [r.fs EXCEPT !.inode[f] = [r.ino EXCEPT !.size = 0, !.blocks = 0]]

(* destroy_inode, when the last name of the file goes; the inode is then   *)
(* free for a new file.                                                    *)
Destroy(f) == fs' = Freed(f, truncate_blocks(fs, fs.inode[f], 0))

----------------------------------------------------------------------------
(* The checks of mount, on what format wrote, and the counters it loads.   *)
mount(d, total) ==
  LET ngroups == CeilDiv(d.blocks_count - 1, BPG)
  IN  [blocks_count |-> d.blocks_count,
       ngroups      |-> ngroups,
       bitmap       |-> d.bitmap,
       gd_free      |-> d.gd_free,
       free_blocks  |-> d.free_blocks,
       block        |-> [b \in 1..(d.blocks_count - 1) |-> Stale],
       inode        |-> [f \in Files |-> NewInode],
       dirs         |-> {},
       meta         |-> d.bitmap,
       corrupt      |-> \/ d.inodes_count # ngroups * d.ipg
                        \/ d.blocks_count > total]

(* The end of format: the block of a new directory.                        *)
WithDir(a) == [a.fs EXCEPT !.dirs = @ \cup {a.blk}]

AddDir(s) == WithDir(alloc_zeroed_block(s, 0))

(* A disk with a root directory and lost+found.                            *)
BlocksInit ==
  /\ ops = 0
  /\ \E total \in {t \in DiskSizes : CanFormat(t)} :
       fs = AddDir(AddDir(mount(format(total), total)))

BlocksNext ==
  /\ ~fs.corrupt
  /\ ops < MaxOps /\ ops' = ops + 1
  /\ \E f \in Files :
       \/ \E off \in Offsets, data \in Data : Write(f, off, data)
       \/ \E size \in Sizes : Truncate(f, size)
       \/ Destroy(f)

BlocksSpec == BlocksInit /\ [][BlocksNext]_<<ops, fs>>

----------------------------------------------------------------------------
(* A reference is <<place, block>>; a place is the file, the slot and the  *)
(* indices below it.                                                       *)
TopRefs(f, d) ==
  LET slots == IF d = 0 THEN 0..(NDIRECT - 1) ELSE {NDIRECT + d - 1}
  IN  {<< <<f, slot>>, fs.inode[f].block[slot] >> :
         slot \in {t \in slots : fs.inode[f].block[t] # 0}}

Below(R) ==
  UNION {{<<Append(r[1], x), fs.block[r[2]][x]>> :
            x \in {y \in Cells : fs.block[r[2]][y] # 0}} : r \in R}

Refs(f) ==
  TopRefs(f, 0)
    \cup TopRefs(f, 1) \cup Below(TopRefs(f, 1))
    \cup TopRefs(f, 2) \cup Below(TopRefs(f, 2)) \cup Below(Below(TopRefs(f, 2)))
    \cup TopRefs(f, 3) \cup Below(TopRefs(f, 3)) \cup Below(Below(TopRefs(f, 3)))
    \cup Below(Below(Below(TopRefs(f, 3))))

AllRefs == UNION {Refs(f) : f \in Files}

(* A block is used exactly when one place of one file refers to it, or a   *)
(* directory, or it is metadata: no block is shared, none is lost when a   *)
(* write runs out of space half way down the indirect blocks, free_block   *)
(* never meets a clear bit, and mount accepts what format writes.          *)
BlocksOwnedOnce ==
  /\ ~fs.corrupt
  /\ LET refs == AllRefs
     IN  /\ {r[2] : r \in refs} \cup fs.dirs \cup fs.meta = fs.bitmap
         /\ Cardinality(refs) + Cardinality(fs.dirs) + Cardinality(fs.meta)
              = Cardinality(fs.bitmap)

(* The counters that format computes and every operation moves agree with  *)
(* the bitmap (alloc_block skips a group on its counter alone), and        *)
(* i_blocks with the blocks a file has, indirect ones included.            *)
CountersAgree ==
  /\ fs.free_blocks = Cardinality((1..(fs.blocks_count - 1)) \ fs.bitmap)
  /\ \A g \in 0..(fs.ngroups - 1) :
       fs.gd_free[g] = Cardinality(GroupBlocks(g) \ fs.bitmap)
  /\ \A f \in Files : fs.inode[f].blocks = Cardinality(Refs(f))

(* No data block is mapped at or past the end of its file, so no later     *)
(* growth of the file can bring old data back.                             *)
NothingPastEnd ==
  \A f \in Files : \A l \in 0..(Reach - 1) :
    bmap(fs, fs.inode[f], 0, l, FALSE).blk # 0 => l * PPB < fs.inode[f].size

Store == INSTANCE FileStore WITH content <- [f \in Files |-> read(fs, f)]

(* Reading a file gives what was written to it and zeros elsewhere, for    *)
(* every sequence of writes, truncations and removals, full disk included. *)
ImplementsStore == Store!StoreSpec
=============================================================================
