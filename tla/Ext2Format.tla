----------------------------- MODULE Ext2Format -----------------------------
(***************************************************************************)
(* What mkfs.rs writes on a disk of a given size: the division into block  *)
(* groups, the metadata at the start of each, the block bitmaps and the    *)
(* free counters.  Blocks of 1024 bytes, so that block 0 is outside the    *)
(* groups; inode bitmaps, labels, time stamps and the backup copies of the *)
(* superblock, which the driver never reads, are left out.                 *)
(***************************************************************************)
EXTENDS Integers, FiniteSetsExt

CONSTANTS
  DiskSizes,      \* disks to format, in blocks
  BPG,            \* blocks in a group, 8 * block size
  IPB,            \* inodes in a block
  DPB,            \* group descriptors in a block
  INODE_RATIO,    \* blocks of disk for one inode
  MIN_INODES, MIN_IPG, MIN_TOTAL, MIN_TRAILING, MIN_FIRST  \* 32, 16, 64, 8, 16

ASSUME FormatAssumption ==
  BPG > 0 /\ IPB > 0 /\ DPB > 0 /\ INODE_RATIO > 0 /\ DiskSizes \subseteq Nat

CeilDiv(a, b) == (a + b - 1) \div b

FirstOf(g) == 1 + g * BPG

GroupBlocks(g) == FirstOf(g)..(FirstOf(g) + BPG - 1)

has_super(g) == g <= 1 \/ \E base \in {3, 5, 7} : \E k \in 1..g : base^k = g

Overhead(geo, g) == 2 + geo.itb + IF has_super(g) THEN 1 + geo.gdt_blocks ELSE 0

(* Inodes per group: enough for the disk, in whole blocks.                 *)
ipg(usable, ngroups) ==
  LET want  == Max({usable \div INODE_RATIO, MIN_INODES})
      whole == CeilDiv(CeilDiv(want, ngroups), IPB) * IPB
  IN  Min({Max({whole, CeilDiv(MIN_IPG, IPB) * IPB}), BPG})

(* A trailing group with too little room besides its metadata is dropped,  *)
(* and the rest is divided again.                                          *)
Geometry[usable \in 1..Max(DiskSizes)] ==
  LET ng  == CeilDiv(usable, BPG)
      geo == [usable |-> usable, ngroups |-> ng, ipg |-> ipg(usable, ng),
              itb |-> ipg(usable, ng) \div IPB, gdt_blocks |-> CeilDiv(ng, DPB)]
  IN  IF ng = 1 \/ usable - (ng - 1) * BPG >= Overhead(geo, ng - 1) + MIN_TRAILING
        THEN geo ELSE Geometry[(ng - 1) * BPG]

(* The disks format does not refuse.                                       *)
CanFormat(total) ==
  /\ total >= 1 + MIN_TOTAL
  /\ LET geo == Geometry[total - 1]
     IN  Min({geo.usable, BPG}) >= Overhead(geo, 0) + MIN_FIRST

Metadata(geo) ==
  UNION {FirstOf(g)..(FirstOf(g) + Overhead(geo, g) - 1) : g \in 0..(geo.ngroups - 1)}

(* Bits of the last group's bitmap for blocks that are not there.          *)
Padding(geo) == (geo.usable + 1)..(geo.ngroups * BPG)

FreeBlocks(geo, g) ==
  (IF g = geo.ngroups - 1 THEN geo.usable - g * BPG ELSE BPG) - Overhead(geo, g)

(* The disk, before the root directory is made.                            *)
format(total) ==
  LET geo    == Geometry[total - 1]
      groups == 0..(geo.ngroups - 1)
  IN  [blocks_count |-> 1 + geo.usable,
       ipg          |-> geo.ipg,
       inodes_count |-> geo.ngroups * geo.ipg,
       bitmap       |-> Metadata(geo) \cup Padding(geo),
       gd_free      |-> [g \in groups |-> FreeBlocks(geo, g)],
       free_blocks  |-> MapThenSumSet(LAMBDA g : FreeBlocks(geo, g), groups)]
=============================================================================
