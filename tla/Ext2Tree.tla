------------------------------ MODULE Ext2Tree ------------------------------
(***************************************************************************)
(* Directories, names and inodes of the ext2 driver, fs/ext2/mod.rs, one   *)
(* disk write at a time.  Bitmaps, inodes and directory blocks are written *)
(* the moment they change; the counters live in memory and reach the disk, *)
(* superblock first and group descriptors second, in the sync that ends an *)
(* operation.  An operation fixes the list of its writes (it runs alone    *)
(* under the FS mutex), each with what the operation takes back when that  *)
(* write fails.  DiskWrite performs the next of them and DiskFails is a    *)
(* request that the disk answers with an error.  Power loss is left out:   *)
(* nothing is flushed before the end of sync, the drive may keep any of    *)
(* the writes before that, and mod.rs leaves crash consistency to e2fsck.  *)
(*                                                                         *)
(* Blocks are counted, not named (Ext2Blocks has them), there is one block *)
(* group, and time stamps are left out.  Names have at most four bytes, so *)
(* every entry needs twelve and a gap fits any name.                       *)
(***************************************************************************)
EXTENDS Integers, FiniteSets, Sequences, Functions

CONSTANTS
  Names,
  Targets,     \* texts of symbolic links, as component sequences
  NINODES,     \* inodes; ROOT_INO is the first
  NBLOCKS,     \* blocks, the root directory's first one included
  PER_BLOCK,   \* entries that fit in a directory block
  NDIRECT,     \* blocks an inode holds without an indirect block
  MAX_LINKS

VARIABLES
  disk,   \* .ibit, .inode, .name, .dotdot, .used (block bits set), .sb, .gdt
  count,  \* the mounted copy: .blocks and .inodes free, .dirs
  lost,   \* blocks allocated that no inode refers to
  todo,   \* what the running operation has yet to do: .write, .undo
  failed, \* a request has failed; the file system is not used any more
  doubted \* new names whose write failed, yet reached the disk

vars == <<disk, count, lost, todo, failed, doubted>>

Ino == 1..NINODES

ROOT_INO == 1

ASSUME TreeAssumption ==
  /\ IsFiniteSet(Names)
  /\ {NINODES, NBLOCKS, PER_BLOCK, NDIRECT, MAX_LINKS} \subseteq Nat
  /\ NINODES > 1 /\ NBLOCKS > 0 /\ PER_BLOCK > 2 /\ NDIRECT > 0 /\ MAX_LINKS > 2

Blank == [kind |-> "none", links |-> 0, blocks |-> 0, text |-> << >>]

NoNames == [n \in Names |-> 0]

(* What mkfs leaves, without lost+found: an empty root directory in one    *)
(* block.                                                                  *)
Formatted ==
  [ibit   |-> {ROOT_INO},
   inode  |-> [i \in Ino |-> IF i = ROOT_INO
                 THEN [Blank EXCEPT !.kind = "dir", !.links = 2, !.blocks = 1]
                 ELSE Blank],
   name   |-> [i \in Ino |-> NoNames],
   dotdot |-> [i \in Ino |-> ROOT_INO],
   used   |-> 1,
   sb     |-> [blocks |-> NBLOCKS - 1, inodes |-> NINODES - 1],
   gdt    |-> [blocks |-> NBLOCKS - 1, inodes |-> NINODES - 1, dirs |-> 1]]

----------------------------------------------------------------------------
(* The writes.  Those that change a bitmap change the mounted counters     *)
(* with it.                                                                *)

SetInodeBit(i, dir) == [op |-> "ialloc", ino |-> i, dir |-> dir]
ClearInodeBit(i, dir) == [op |-> "ifree", ino |-> i, dir |-> dir]
SetBlockBits(n) == [op |-> "balloc", n |-> n]
ClearBlockBits(n) == [op |-> "bfree", n |-> n]
WriteInode(i, val) == [op |-> "inode", ino |-> i, val |-> val]
WriteEntry(d, n, i) == [op |-> "entry", dir |-> d, name |-> n, ino |-> i]
GrowDir(d, n, i) == [op |-> "grow", dir |-> d, name |-> n, ino |-> i]
WriteDotDot(d, p) == [op |-> "dotdot", dir |-> d, parent |-> p]
adj_links(i, by) == [op |-> "links", ino |-> i, by |-> by]
sync == << [op |-> "sb"], [op |-> "gdt"] >>

(* A free inode and the entries of a freed directory are not tracked.      *)
Written(w) ==
  CASE w.op = "ialloc" -> [disk EXCEPT !.ibit = @ \cup {w.ino}]
    [] w.op = "ifree"  -> [disk EXCEPT !.ibit = @ \ {w.ino},
                                       !.inode[w.ino] = Blank,
                                       !.name[w.ino] = NoNames,
                                       !.dotdot[w.ino] = ROOT_INO]
    [] w.op = "balloc" -> [disk EXCEPT !.used = @ + w.n]
    [] w.op = "bfree"  -> [disk EXCEPT !.used = @ - w.n]
    [] w.op = "inode"  -> [disk EXCEPT !.inode[w.ino] = w.val]
    [] w.op = "entry"  -> [disk EXCEPT !.name[w.dir][w.name] = w.ino]
    [] w.op = "grow"   -> [disk EXCEPT !.name[w.dir][w.name] = w.ino,
                                       !.inode[w.dir].blocks =
                                         @ + (IF @ = NDIRECT THEN 2 ELSE 1)]
    [] w.op = "dotdot" -> [disk EXCEPT !.dotdot[w.dir] = w.parent]
    [] w.op = "links"  -> [disk EXCEPT !.inode[w.ino].links =
                                         IF @ + w.by < 0 THEN 0 ELSE @ + w.by]
    [] w.op = "sb"     -> [disk EXCEPT !.sb = [blocks |-> count.blocks,
                                               inodes |-> count.inodes]]
    [] w.op = "gdt"    -> [disk EXCEPT !.gdt = count]

Counted(w) ==
  CASE w.op = "ialloc" -> [count EXCEPT !.inodes = @ - 1,
                                        !.dirs = @ + (IF w.dir THEN 1 ELSE 0)]
    [] w.op = "ifree"  -> [count EXCEPT !.inodes = @ + 1,
                                        !.dirs = @ - (IF w.dir THEN 1 ELSE 0)]
    [] w.op = "balloc" -> [count EXCEPT !.blocks = @ - w.n]
    [] w.op = "bfree"  -> [count EXCEPT !.blocks = @ + w.n]
    [] OTHER           -> count

DiskWrite ==
  /\ todo # << >>
  /\ disk' = Written(Head(todo).write)
  /\ count' = Counted(Head(todo).write)
  /\ todo' = Tail(todo)
  /\ UNCHANGED <<lost, failed, doubted>>

(* Writes that end the operation when one of them fails, once undo is done.*)
OrElse(undo, writes) ==
  [k \in DOMAIN writes |-> [write |-> writes[k], undo |-> undo]]

(* Writes whose failure is ignored (`let _ = ...'): the others are tried.  *)
TryAll(writes) ==
  [k \in DOMAIN writes |->
     [write |-> writes[k], undo |-> SubSeq(writes, k + 1, Len(writes))]]

(* The request of the next write, or of a read before it, fails, maybe     *)
(* after the block has been written; the counters change after the write.  *)
DiskFails ==
  /\ todo # << >>
  /\ LET w == Head(todo).write
         undone == w.op \in {"entry", "grow"} /\ Head(todo).undo # << >>
     IN  \/ UNCHANGED <<disk, doubted>>
         \/ /\ disk' = Written(w)
            /\ doubted' = IF undone THEN {<<w.dir, w.name>>} ELSE doubted
  /\ todo' = TryAll(Head(todo).undo)
  /\ failed' = TRUE
  /\ UNCHANGED <<count, lost>>

----------------------------------------------------------------------------
(* The mounted file system between operations.                             *)

Idle == todo = << >> /\ ~failed

IsDir(i) == disk.inode[i].kind = "dir"

Find(d, n) == disk.name[d][n]

dir_is_empty(d) == disk.name[d] = NoNames

alloc_inode ==
  CHOOSE i \in Ino \ disk.ibit : \A j \in Ino \ disk.ibit : i <= j

(* The first twelve blocks of a directory hang off its inode; the next one *)
(* needs an indirect block as well.                                        *)
NeededToGrow(d) == IF disk.inode[d].blocks = NDIRECT THEN 2 ELSE 1

(* With free blocks left on the disk: the entry goes into a gap, or into a *)
(* new block whose contents count once the inode with the new size is      *)
(* written.  When only the indirect block could be had, bmap's error       *)
(* leaves it allocated.                                                    *)
dir_add(d, n, i, free) ==
  LET names  == Cardinality({m \in Names : Find(d, m) # 0})
      data   == disk.inode[d].blocks - (IF disk.inode[d].blocks > NDIRECT
                                          THEN 1 ELSE 0)
      need   == NeededToGrow(d)
  IN  IF names + 2 < data * PER_BLOCK
        THEN [ok |-> TRUE, lost |-> 0, writes |-> <<WriteEntry(d, n, i)>>]
      ELSE IF free >= need
        THEN [ok |-> TRUE, lost |-> 0,
              writes |-> <<SetBlockBits(need), GrowDir(d, n, i)>>]
      ELSE [ok |-> FALSE, lost |-> free,
            writes |-> IF free = 0 THEN << >> ELSE <<SetBlockBits(free)>>]

(* Faulty variant: every inode is freed as if it were a file's.            *)
DestroyAsFile(i) ==
  <<ClearBlockBits(disk.inode[i].blocks), WriteInode(i, Blank),
    ClearInodeBit(i, FALSE)>>

(* The blocks, then the inode with no links, then its bit.                 *)
destroy_inode(i) ==
  <<ClearBlockBits(disk.inode[i].blocks), WriteInode(i, Blank),
    ClearInodeBit(i, IsDir(i))>>

(* Drop one name of something that is not a directory.                     *)
DropLink(i) ==
  IF disk.inode[i].links <= 1 THEN destroy_inode(i) ELSE <<adj_links(i, -1)>>

Begin(steps, wasted) ==
  /\ todo' = steps
  /\ lost' = lost + wasted
  /\ UNCHANGED <<disk, count, failed, doubted>>

Perform(writes, wasted) == Begin(OrElse(<< >>, writes), wasted)

(* The common part of new_node, mkdir and symlink: inode i is written with *)
(* its data in blocks blocks, then named; when that fails the blocks and   *)
(* the bit are given back and nothing is synced.                           *)
AddNode(d, n, i, val, writes, after) ==
  LET dir  == val.kind = "dir"
      add  == dir_add(d, n, i, count.blocks - val.blocks)
      data == IF val.blocks = 0 THEN << >> ELSE <<SetBlockBits(val.blocks)>>
      free == <<ClearInodeBit(i, dir)>>
      undo == (IF val.blocks = 0 THEN << >> ELSE <<ClearBlockBits(val.blocks)>>) \o free
      new  == OrElse(<< >>, <<SetInodeBit(i, dir)>>) \o OrElse(free, data)
                \o OrElse(undo, writes \o <<WriteInode(i, val)>> \o add.writes)
  IN  IF count.blocks < val.blocks
        THEN Begin(OrElse(<< >>, <<SetInodeBit(i, dir)>>) \o TryAll(free), 0)
      ELSE IF add.ok THEN Begin(new \o OrElse(<< >>, after \o sync), 0)
      ELSE Begin(new \o TryAll(undo), add.lost)

CanAdd(d, n) ==
  /\ Idle
  /\ d \in disk.ibit /\ IsDir(d) /\ disk.inode[d].links > 0
  /\ Find(d, n) = 0
  /\ count.inodes > 0

Create(d, n) ==
  /\ CanAdd(d, n)
  /\ AddNode(d, n, alloc_inode, [Blank EXCEPT !.kind = "file", !.links = 1],
             << >>, << >>)

MkDir(d, n) ==
  /\ CanAdd(d, n)
  /\ disk.inode[d].links < MAX_LINKS
  /\ AddNode(d, n, alloc_inode,
             [Blank EXCEPT !.kind = "dir", !.links = 2, !.blocks = 1],
             <<WriteDotDot(alloc_inode, d)>>, <<adj_links(d, 1)>>)

(* A long text has a block of its own, a short one is in the inode.        *)
Symlink(d, n, text, long) ==
  /\ CanAdd(d, n)
  /\ AddNode(d, n, alloc_inode,
             [kind |-> "link", links |-> 1, blocks |-> IF long THEN 1 ELSE 0,
              text |-> text],
             << >>, << >>)

Link(d, n, i) ==
  /\ Idle
  /\ i \in disk.ibit /\ ~IsDir(i) /\ disk.inode[i].links < MAX_LINKS
  /\ d \in disk.ibit /\ IsDir(d) /\ Find(d, n) = 0
  /\ LET add == dir_add(d, n, i, count.blocks)
     IN  Perform(IF add.ok THEN add.writes \o <<adj_links(i, 1)>> \o sync
                 ELSE add.writes, add.lost)

(* Faulty variant: the inode goes first and its name afterwards.           *)
UnlinkInodeFirst(d, n) ==
  /\ Idle
  /\ d \in disk.ibit /\ IsDir(d) /\ Find(d, n) # 0 /\ ~IsDir(Find(d, n))
  /\ Perform(DropLink(Find(d, n)) \o <<WriteEntry(d, n, 0)>> \o sync, 0)

Unlink(d, n) ==
  /\ Idle
  /\ d \in disk.ibit /\ IsDir(d) /\ Find(d, n) # 0 /\ ~IsDir(Find(d, n))
  /\ Perform(<<WriteEntry(d, n, 0)>> \o DropLink(Find(d, n)) \o sync, 0)

RmDir(d, n) ==
  /\ Idle
  /\ d \in disk.ibit /\ IsDir(d) /\ Find(d, n) # 0 /\ IsDir(Find(d, n))
  /\ Find(d, n) # ROOT_INO /\ dir_is_empty(Find(d, n))
  /\ Perform(<<WriteEntry(d, n, 0)>> \o destroy_inode(Find(d, n))
               \o <<adj_links(d, -1)>> \o sync, 0)

(* The directories from d up to the root, by their ".." entries.           *)
UpFrom(d) ==
  LET up[k \in 1..(NINODES + 1)] == IF k = 1 THEN d ELSE disk.dotdot[up[k - 1]]
  IN  up

(* Faulty variant: the loop stops after the directory it starts from.      *)
InOwnSubtreeOnce(s, d) == s = d

InOwnSubtree(s, d) == s \in Range(UpFrom(d))

(* Faulty variant: the two parents keep their link counts.                 *)
ReparentEntry(s, od, nd) == <<WriteDotDot(s, nd)>>

Reparent(s, od, nd) ==
  <<WriteDotDot(s, nd), adj_links(od, -1), adj_links(nd, 1)>>

(* Faulty variant: the old name goes before the new one is there.          *)
MoveOldFirst(od, on, add) == <<WriteEntry(od, on, 0)>> \o add

MoveName(od, on, add) == add \o <<WriteEntry(od, on, 0)>>

(* The target, if there is one, is removed first; the gap it leaves holds  *)
(* the new entry.  Two names of one file: the old one is dropped.          *)
Rename(od, on, nd, nn) ==
  LET s   == Find(od, on)
      e   == Find(nd, nn)
      replaced == IF e = 0 THEN << >>
                  ELSE <<WriteEntry(nd, nn, 0)>>
                         \o IF IsDir(e) THEN destroy_inode(e) \o <<adj_links(nd, -1)>>
                            ELSE DropLink(e)
      add == IF e = 0 THEN dir_add(nd, nn, s, count.blocks)
             ELSE [ok |-> TRUE, lost |-> 0, writes |-> <<WriteEntry(nd, nn, s)>>]
  IN  /\ Idle
      /\ <<od, on>> # <<nd, nn>>
      /\ od \in disk.ibit /\ IsDir(od) /\ nd \in disk.ibit /\ IsDir(nd)
      /\ s # 0
      /\ IsDir(s) => ~InOwnSubtree(s, nd)
      /\ e \notin {0, s} => /\ IsDir(e) = IsDir(s)
                            /\ IsDir(e) => dir_is_empty(e)
      /\ IF e = s THEN Perform(<<WriteEntry(od, on, 0), adj_links(s, -1)>> \o sync, 0)
         ELSE IF add.ok
           THEN Perform(replaced \o MoveName(od, on, add.writes)
                          \o (IF IsDir(s) /\ od # nd THEN Reparent(s, od, nd)
                              ELSE << >>)
                          \o sync, 0)
         ELSE Perform(add.writes, add.lost)

----------------------------------------------------------------------------
TreeInit ==
  /\ disk = Formatted
  /\ count = [blocks |-> NBLOCKS - 1, inodes |-> NINODES - 1, dirs |-> 1]
  /\ lost = 0
  /\ todo = << >> /\ failed = FALSE /\ doubted = {}

Operation ==
  \E d \in Ino, n \in Names :
    \/ Create(d, n)
    \/ MkDir(d, n)
    \/ \E text \in Targets, long \in BOOLEAN : Symlink(d, n, text, long)
    \/ \E i \in Ino : Link(d, n, i)
    \/ Unlink(d, n)
    \/ RmDir(d, n)
    \/ \E nd \in Ino, nn \in Names : Rename(d, n, nd, nn)

TreeNext == Operation \/ DiskWrite \/ DiskFails

TreeSpec == TreeInit /\ [][TreeNext]_vars

----------------------------------------------------------------------------
Dirs == {d \in disk.ibit : IsDir(d)}

NamesOf(i) == {p \in Dirs \X Names : Find(p[1], p[2]) = i}

(* After every single write, every name in a directory and every ".."      *)
(* leads to an inode that is allocated and written: whichever request of   *)
(* an operation fails, and while it takes back what it has done, nothing   *)
(* points at an inode that the next file will get.  Excepted is the name   *)
(* of a new node whose own write failed after it had reached the disk:     *)
(* create, mkdir and symlink then free the inode it names.                 *)
EntriesLive ==
  \A d \in Dirs :
    /\ disk.dotdot[d] \in Dirs
    /\ \A n \in Names : Find(d, n) # 0 /\ <<d, n>> \notin doubted =>
                          /\ Find(d, n) \in disk.ibit
                          /\ disk.inode[Find(d, n)].links > 0

(* A write that takes the last name of an inode away belongs to an         *)
(* operation that goes on to free that inode: rename never leaves what it  *)
(* moves without a name, and no operation forgets an inode.                *)
LastNameFrees ==
  [][\A i \in Ino : NamesOf(i) # {} /\ NamesOf(i)' = {} /\ ~failed' =>
       \E k \in DOMAIN todo' : /\ todo'[k].write.op = "ifree"
                               /\ todo'[k].write.ino = i]_vars

(* Between operations a file has as many links as names, and a directory   *)
(* one for its name, one for "." and one for each subdirectory's "..".     *)
LinksExact ==
  Idle => \A i \in disk.ibit :
            disk.inode[i].links =
              IF IsDir(i) THEN 2 + Cardinality({d \in Dirs \ {ROOT_INO} :
                                                  disk.dotdot[d] = i})
              ELSE Cardinality(NamesOf(i))

(* Between operations the directories form a tree: each but the root has   *)
(* exactly one name, in the directory its ".." points to, and going up     *)
(* ends at the root; everything allocated has a name.                      *)
TreeIntact ==
  Idle => \A i \in disk.ibit \ {ROOT_INO} :
            /\ NamesOf(i) # {}
            /\ IsDir(i) => /\ {p[1] : p \in NamesOf(i)} = {disk.dotdot[i]}
                           /\ Cardinality(NamesOf(i)) = 1
                           /\ ROOT_INO \in Range(UpFrom(i))

(* The sum of what f has for the inodes.                                   *)
Total(f) ==
  LET sum[k \in 0..NINODES] == IF k = 0 THEN 0 ELSE sum[k - 1] + f[k]
  IN  sum[NINODES]

(* Between operations the counters tell the truth about the bitmaps, so    *)
(* the allocators that trust them find what is free, and every block in    *)
(* use is in a file or is one that a failed dir_add left behind.           *)
CountersTrue ==
  Idle => /\ count.inodes = NINODES - Cardinality(disk.ibit)
          /\ count.blocks = NBLOCKS - disk.used
          /\ count.dirs = Cardinality(Dirs)
          /\ disk.used = lost + Total([i \in Ino |-> IF i \in disk.ibit
                                         THEN disk.inode[i].blocks ELSE 0])
=============================================================================
