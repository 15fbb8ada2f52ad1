# A TLA+ model of Oxenna

Oxenna is a small x86-64 kernel in Rust: one core, one address space, one user
process at a time, a shell driven by the keyboard, an ext2 file system on an ATA
disk. This directory holds TLA+ specifications of its parts, TLC configurations
that check them on small instances, and TLAPS proofs of what matters most. Every
definition is translated from `src/`; `PROJECT.json` maps it to the lines it
stands for and lists the hazards each property is about.

## The system

| Part | State | Operations | What makes it correct |
|---|---|---|---|
| Frame allocator, `kmem/frame.rs` | cursor over the bootloader's memory map, reserved ranges, free list threaded through the freed frames | `reserve`, `allocate_frame`, `deallocate_frame` | no frame has two owners; the list is never broken; no frame is skipped |
| Kernel heap, `heap/buddy.rs` | zones, one free list per block order | `init`, `alloc`, `dealloc` | blocks partition the zones, merges stay inside a zone |
| Process memory, `user.rs` | page table of the lower half, `PROCESS_PAGES`, `BRK`, `MMAP_NEXT` | `exec`, `cleanup_process`, `set_brk`, `map_anonymous`, `mprotect`, `munmap` | every frame has one use, everything is given back, the kernel heap is not touched |
| ELF loading, `elf.rs`, `user.rs` | page specs, page contents | `parse`, `load_headers`, the loops of `exec` | the right pages, permissions and bytes for every image |
| System calls on files, `syscall.rs` | `FD_TABLE`: a path and an offset per descriptor | `openat`, `close`, `dup`, `dup2`, `read`, `write`, `lseek`, `getdents64` | descriptors mean what they meant when opened |
| ext2, `fs/ext2` | bitmaps, counters, inodes, block maps, directories | `format`, `mount`, `bmap`, `write`, `truncate`, `create`, `mkdir`, `link`, `unlink`, `rename` | a block has one owner, link counts match names, the tree is a tree |
| ATA driver, `drivers/ata.rs` | the drive's registers, a request half done | `read_sectors`, `write_sectors`, `flush` | a request that returns `Ok` did all of it, whatever came before |
| Console and frame buffer, `console.rs`, `fb.rs` | ring of lines, cursor, viewport, input line; back buffer, dirty rectangle | printing, scrolling, typing; `mark_dirty`, `present` | the screen shows what was written |
| Interrupts, `int.rs`, and the start of the kernel, `main.rs` | interrupt flag, spin locks, what is set up | `kinit`, keyboard handler, exceptions | no handler waits for a lock of the thread it interrupted |
| Shell, `shell.rs` | current directory | commands | a path means what was typed |

How they meet: the heap is backed by frames mapped at boot; `exec` and the memory
system calls share the frame allocator and the page table with it; key strokes
run the console, the shell and so whole programs inside the keyboard interrupt;
the file system calls go by path to ext2, and ext2 by blocks to the driver. Memory,
file system, keyboard and serial port sit behind spin locks; the console and the
frame buffer with its dirty rectangle are statics without one.

## Modules

| Module | Models | Checked by | Proved in |
|---|---|---|---|
| `FrameAllocator` | `kmem/frame.rs` | `MCFrameAllocator` | `FrameAllocatorProofs` |
| `FrameScan` | the loops of `frame.rs` as written | `MCFrameAllocator` | |
| `AddressSpace` (extends `FrameAllocator`) | `init_heap`, mapping part of `user.rs`, memory system calls | `MCAddressSpace` | `AddressSpaceProofs` |
| `ElfLoader` | `elf.rs`, page specs and copying in `exec` | `MCElfLoader` | `ElfLoaderProofs` |
| `KernelHeap` | what a heap promises (abstract) | as a property of `BuddyAllocator` | |
| `BuddyAllocator` | `heap/buddy.rs` | `MCBuddyAllocator` | `BuddyAllocatorProofs`, with its lemmas in `BuddyBlocks` |
| `FileStore` | files as sequences of bytes (abstract) | as a property of `Ext2Blocks` | |
| `Ext2Format` | `mkfs.rs` | `MCExt2Blocks` | |
| `Ext2Blocks` (extends `Ext2Format`) | blocks of files in `ext2/mod.rs` | `MCExt2Blocks` | |
| `Ext2Tree` | names, directories, link counts in `ext2/mod.rs` | `MCExt2Tree` | |
| `ShellPaths` (extends `Ext2Tree`) | `absolute_path` of the shell against `walk` of ext2 | `MCExt2Tree` | |
| `Descriptors` (uses `FileStore`) | file system calls and the shell's file commands | `MCDescriptors` | `DescriptorsProofs` |
| `Console` | `console.rs` and the drawing part of `fb.rs` | `MCConsole` | |
| `Interrupts` | `int.rs`, `kinit`, `mark_dirty` and `present` by single accesses | `MCInterrupts` | `InterruptsProofs` |
| `BlockStore` | what a block device promises (abstract) | as a property of `AtaDrive` | |
| `AtaDrive` | `drivers/ata.rs` and a drive | `MCAtaDrive` | `AtaDriveProofs` |

**FrameAllocator.** Variables are the fields of `BootInfoFrameAllocator`, the
first word of each frame (where the free list lives), and two ghosts: the free
list as a sequence and the set of frames callers hold. `HandOut` lets the caller
overwrite the frame it gets. The model states where the scan of the memory map
ends; `FrameScan` has the loops themselves and shows on every step that they end
there.

**AddressSpace.** Each loop of `init_heap`, `exec`, `map_anonymous`, `mprotect`,
`munmap` and `cleanup_process` can stop half way, so an action is one iteration
(or one allocator call in it). `pc` names the function, `todo` its remaining
pages, `held` the frame between `allocate_frame` and `map_to`. Page tables are
allocated on demand and never freed, as in the `x86_64` crate. The ghost
`leaked` collects the frame that `map_anonymous` drops when `map_to` fails.
The actions call those of `FrameAllocator`, so composition is conjunction.

**ElfLoader.** `Parse` or `RejectImage`, then one action per program header,
segment page and copied chunk. An image is its header fields and its program
headers; the byte at offset i is i, so a wrong byte is visible.

**BuddyAllocator.** Zones appear one by one; `alloc` and `dealloc` are atomic
(they hold `LockedHeap`'s mutex). The recursion of `allocate_order` and the merge
loop are given by where they stop. Free lists are sequences.

**Ext2Format, Ext2Blocks.** A block is an array of cells, which are bytes or
pointers depending on who reads it, so a block reused without clearing gives
wrong bytes or wrong pointers. The state starts from what `format` writes and
`mount` reads back: groups, metadata, counters, and bits for the blocks that the
last group does not have. (In the repository only the self test formats; disks
usually come from `mke2fs`, with the same layout.) Each operation holds the `FS`
mutex and is one step; out of space can strike at every allocation in it.

**Ext2Tree.** An operation computes its writes in the order of the code, each with
what the code does if that write fails; `DiskWrite` performs one at a time, and
`DiskFails` lets one fail, after which the rest is the code's rollback, or nothing
where it has none. A block is written whole or not at all, and a request that
failed may still have written it. `doubted` has the names whose entry was written
by a request that reported failure while the rollback freed the inode. After a
failure the model starts no further operation. Blocks are only counted here.
`lost` counts the indirect blocks that a `dir_add` without space leaves behind.
Power loss is not part of this module: writes reach the drive's cache in this
order but may leave it in any, and `mod.rs` names crash consistency as something
it does not have.

**ShellPaths.** Paths are sequences of components. The shell resolves `..` by
text, `walk` by directory entries and links; no state of its own.

**Descriptors.** One directory with its entries in slots (a removed file leaves a
gap that the next one fills, as in an ext2 block) and `FD_TABLE`. A descriptor
also carries, as ghosts, the identity of the file it was opened on and the
entries it owes its reader. `stuck` is `dup` waiting for its own lock.

**Console.** Rows of pixels are modelled as far as a glyph has a top and a
bottom: scrolling moves pixels, and a wrong distance shows. `lines` is the
history as a terminal would have it. `climbed` records what a printed backspace at
the start of a line has upset; see below.

**Interrupts.** The main thread goes access by access to the dirty rectangle and
lock by lock through the set-up of memory; the handler is one step, since nothing
interrupts it but what it starts. Thread and handler share the cursor (`row`); what
the thread prints is drawn in the areas that `write_cell`, `new_line` and `clear`
mark one after the other (`areas`). The scancodes are those that differ in what the
handler does: none that completes a key, a character, and Enter after a command
that toggles the serial mirror, prints, raises a breakpoint, asks the frame
allocator, allocates, runs a program, panics or reboots. A program runs with
interrupts on, while the controller holds further keys back; it may print, exit,
hang in `dup`, panic the kernel by a range past the lower half, or raise an
exception, which halts the kernel. `torn` records that a handler drew while the
thread was between the setting of `DIRTY` and that of the bounds.

**AtaDrive.** Each poll either sees the status it waits for, an error, or gives
up at `SPIN_LIMIT`. The drive (external) answers after any delay or not at all,
may fail at any sector, caches writes and may lose power. `late` remembers the
sectors of failed writes that may land afterwards.

Definitions commented *Faulty variant* are deliberate mistakes (a dropped check,
a missing reset). Put in place of the definition they precede, each makes a
property fail, which shows that the property depends on that code.

## Runs

| Run | Shows | Distinct states |
|---|---|---|
| `frames` | no frame given out while held; the chain of words is the free list; only usable, unreserved frames; `None` only when all are held; the loops agree with the model | 24,823 |
| `space` | every frame has one use; `PROCESS_PAGES` is exact; the kernel heap keeps its frames; a grown break is backed; the composition refines `FrameSpec`; cleanup reclaims everything; execs and system calls end | 136,337 |
| `heap` | zones tile the heap; blocks partition the zones; full coalescing; the abstract heap is implemented | 3,392 |
| `elf` | exact pages and permissions, exact contents; loading ends | 179,711 |
| `ext2_blocks` | every used block has one owner; counters agree; nothing is kept past the end of a file; files behave as `FileStore` | 9,756 |
| `ext2_tree` | after every write, and while an operation with a failed request takes back what it did, entries name live inodes; without failures nothing moved loses its name; between operations links, tree and counters are right, and the shell's paths mean what ext2's do | 214,288 |
| `files` | a descriptor's path keeps naming its file; a listing misses nothing; an append overwrites nothing | 342,903 |
| `screen` | the hardware shows the viewport and the ring holds the last lines exactly, up to a printed backspace that climbs; the input line is what is shown | 258,717 |
| `interrupts` | the handler is stuck behind the main thread only while memory is set up; what thread and handler draw is shown unless a key falls into `mark_dirty`; keys get through unless the system has gone down | 133,351 |
| `disk` | driver and drive implement `BlockStore`; requests end | 58,854 |
| `frames_reserve` | expected to fail: a comment the code does not keep | |
| `interrupts_dirty` | expected to fail: a comment the code does not keep | |

`frames_reserve`: `reserve` says that any frame overlapping the range is avoided;
only a frame *starting* in it is. `interrupts_dirty`: `fb.rs` says that there is
nothing to present when `DIRTY` is false; a key handled while the main thread
clears the screen (`console::clear` at the end of the start), between its
`DIRTY = true` and its writes to the bounds, presents other bounds and clears the
flag, and rows of the cleared screen stay off the hardware until something else
redraws them. The comment on `present` (`fb.rs`, lines 527 to 541) says that it
should not normally be called from the keyboard interrupt; the handler does call
it, for every key it echoes.

Three more comments do not describe the code, and the properties here state what
the code does.

* `user.rs` (lines 121 to 123) says that a page shared by segments gets the union
  of permissions; OR-ing the flags also ORs `NO_EXECUTE`, so that a page shared by
  an executable and another segment is not executable. `SpecsExact` asks for
  writable pages exactly where a segment or the stack is writable, for
  `NO_EXECUTE` on the stack and where no segment on the page is executable, and
  for its absence where all are; where they disagree it claims nothing.
* `buddy.rs` says that zones come largest first; a zone is never larger than the
  alignment of its address, and `HEAP_START` is aligned to 256 KiB only, so the
  100 MiB heap starts with a 256 KiB zone and has no block above 32 MiB
  (`ZonesTileHeap`).
* `console.rs` (line 343) says, where scrolling relies on it, that the frame buffer
  already contains the current viewport. A backspace printed at the start of a line
  takes the cursor to the line above: on a scrolled screen `view_top` moves with it
  and only one cell is redrawn; the oldest valid line can be lowered onto a slot of
  the ring that has been reused; and on a screen that has not scrolled the text left
  below is met again by the next newline. `climbed` has a mark for each of the
  three; `ScreenShowsViewport` and the cells of `HistoryExact` are stated for
  histories without it. Clearing the console ends the effect.

**Bounds.** `frames`: a map of six entries with six frames, one entry of every
kind (unaligned, unusable, too small, overflowing), two of six ranges reserved in
either order, overlapping or empty. `space`: eight pages, four tables and eight
frames, fewer than a process can ask for, so that each allocation after boot can
fail; five programs cover success, collision with the heap and both bad entry
points; `MmapLimit` bounds `MMAP_NEXT`. `heap`: three orders, three heaps with
equal, rising and falling zones. `elf`: two headers out of 84 with pages of four
bytes, so that segments start, end and overlap at every offset; headers that
`parse` refuses for each of its reasons. `ext2_blocks`: two pointers in a block,
one direct pointer, so that 15 file blocks reach the triple indirect one; disks of
one, two and three groups with 3 to 9 free blocks for two files, so that space
runs out at every depth; a disk whose last group is dropped; four operations
(`MaxOps`). `ext2_tree`: two names, five inodes, five blocks, four links at most,
directories that grow past their direct blocks; one failing request at any write;
sequences are not bounded. `files`: two files, two descriptors besides 0, up to six calls (`MaxSteps`) and
four creations (`MaxFiles`), starting from a directory that is empty, full, or
has a gap before a file. `screen`: two rows of four columns in a ring of four
lines with a strip of pixels left over, six steps (`MaxSteps`), enough for the
ring to wrap and for a printed backspace to climb on a scrolled and on an
unscrolled screen. `interrupts`: two scancodes (`MaxKeys`) out of all ten, a screen
of three rows, so that the thread's rows, the handler's and others differ. `disk`:
three sectors, commands of two, requests at and past the end. Runs in which the
program really may stop (loading ends, the kernel panics, a bound is used up) do
not check deadlock.

**Fairness.** `FairSpaceSpec`: weak fairness of the kernel's own steps; system
calls run with interrupts off and to completion. Nothing is assumed of the user
program or the shell. `LoaderSpec`: the same of the loader's loops. `FairSpec` of
`Interrupts`: the processor keeps executing the main thread, takes an interrupt
that stays pending and enabled, and programs that do not bring the system down
exit. `FairSpec` of `AtaDrive`: the driver runs; nothing is assumed of the drive, whose
silence the poll loops' limit ends.

## Proofs

TLAPS proves, for all values of the constants that meet the named assumptions
(among them a frame size above one, disjoint usable entries, nothing usable
behind an entry that overflows, page-aligned `USER_MAX`, commands of 1 to 255
sectors, a screen with at least one row, alignments that are powers
of two, a heap that starts at a multiple of its smallest block and holds one, a
stack that is page-aligned and lies below `USER_MAX`, a file name in one slot of a
directory only):

* `FrameAllocatorProofs`: types, `NoDoubleAllocation`, `FreeListIntact`,
  `OnlyUsableFrames`, `NoneMeansExhausted`. None of them is inductive. The
  strengthening is `CursorExact`: the frames held or free are exactly the
  unreserved ones behind the cursor. With it a frame found by the cursor is new,
  and when the cursor is at the end every frame is held.
* `AddressSpaceProofs`: types, `FramesAccounted`, `ProcessPagesExact`,
  `KernelHeapStable`, `GrownBreakIsBacked`, and `SpaceSpec => FrameSpec`. The
  invariant adds to these `FrameInv` and `LoopInv`: a frame is in hand only while
  its page is unmapped, and after boot the whole kernel heap is mapped, which is why
  no later mapping can land on it; `BrkInv` adds that while `brk` maps, each page of
  the part to be added is mapped or still to come. The refinement needs the
  invariant: `deallocate_frame` is called only for frames that are held.
* `InterruptsProofs`: `StuckOnlyWhileStarting` and `LostOnlyWhileMarking`, for any
  number of keys and a screen of any height. `StuckInv` adds `Guarded` to the
  first: a program runs only while its interrupt is unacknowledged, so the handler
  is never entered twice; and the main thread holds the serial port only with
  interrupts off, so neither a handler nor an exception report finds it taken. For
  the second, `ScreenInv` says where the thread can be with `DIRTY` set (`Places`)
  and, as long as no handler drew inside `mark_dirty`, where each row that is not
  yet shown is provided for (`Covered`): in the dirty rectangle, in the area being
  marked, or in what `present` has still to copy. A handler that presents between
  `present`'s read of the rectangle and its copy empties the first and leaves the
  third; one that comes before `mark_dirty`'s test leaves the second.
* `AtaDriveProofs`: `Spec => ImplementsBlocks`, a refinement with the variables of
  the same names as the mapping. The invariant `IInv` ties the driver's position
  to the drive's while a command is under way, and says where the data of the
  sectors moved so far is. One lemma shows that the address registers carry the
  address, for 28 and 48 bits.
* `BuddyAllocatorProofs`: `ZonesTileHeap`, `ZonesPartitioned`, `FullyCoalesced`, and
  `BuddySpec => ImplementsHeap`, for heaps of any place and size and any number of
  orders. The invariant `BuddyInv` has three parts. `ZonesInv`: the zones, each
  aligned to its size, tile what `init` has taken so far. `BlocksInv`: the blocks
  of the free lists and of the live allocations are blocks their zone divides
  into, share no byte, and cover the zones; and `NoBuddies`, of two buddies at most
  one is free. What `alloc` splits off and what `dealloc` merges covers the same
  bytes as before (`SplitCovers`, `MergeCovers`, shown for any number of halvings by
  taking the least order that fails), so the partition is kept. `NoBuddies` is what
  `dealloc` needs at the order where its loop stops; from it follows that with
  nothing live a smallest free block below its zone's order has a free buddy or
  a smaller block in its place, which cannot be. `FullyCoalesced` is that
  conclusion. The refinement maps the live allocations to themselves and the
  zones' bytes to the heap; alignment holds because a zone is aligned to its size
  and a power of two divides every larger one. `BuddyBlocks` has the arithmetic:
  the exclusive or with the size flips the last bit of a block's number in its
  zone, and buddies and the block above them have the numbers one expects.
* `ElfLoaderProofs`: `SpecsExact` and `ImageInMemory`, for any number of headers.
  `SpecsExact` follows from `SpecsMerged`, which has the flags as the code merges
  them.
  The invariant says what the loops have done half way: the specs are those of
  the pages dealt with so far, with the flags of the segments dealt with so far
  (`SpecsSoFar`); a byte of memory is that of the last segment copied over it
  (`CopyInv`); and `HeadersInside`, the header table that `parse` accepted lies in
  the image, so that no later header is refused as out of bounds. A page start
  below the next page boundary is the only one in its page (`align_down`,
  `align_up`), for page sizes of any value.
* `DescriptorsProofs`: `PathsStayTrue`, `ListingComplete` and `AppendsKeep`. The
  invariant says of every slot of the table that its path still names the file
  it was opened on, and that an entry its listing owes is delivered already or
  has a rank in the directory that is not below the index `getdents64` goes on
  from. Creating a file keeps that: it fills a gap or comes last, and ranks only
  rise. Removing one would not; only the shell does, between programs, when the
  table is empty but for the standard streams.

Only model-checked: liveness (`CleanupReclaims`, `KernelReturns`, `LoadEnds`,
`KeysGetThrough`, `RequestsEnd`), which needs fairness; that the recursive loops of
`FrameScan` compute what `FrameAllocator` says, and what `Ext2Blocks`, `ShellPaths`
and `Console` compute with recursive operators and folds (inductions over data);
and `Ext2Tree`, whose operations are sequences of writes that depend on the tree
when they start.
Conversely, `disk` has disks too small to fill an address register: that an
address is split over them rightly is shown by `DriveImplementsBlocks` alone.

Where the properties stop, although the model goes on:

* `NoneMeansExhausted` rests on `OverflowIsLast`: behind an entry that overflows
  the code gives up, whatever follows it.
* `KernelHeapStable` is about frames. `mprotect` does not look whose page it is and
  can change the flags of a page of the kernel heap.
* `ImageInMemory` asks for the byte of the last segment that has one in the file for
  that address. The zeros past a segment's file part come from fresh pages: they do
  not replace what an earlier segment copied there.
* `PathsStayTrue` and `ListingComplete` leave out descriptors 0 to 2 that a program
  inherits as an earlier one left them, and `ListingComplete` a directory opened
  with `O_APPEND`.
* `TextualPathsRight` leaves out paths that go through symbolic links.
* `LastNameFrees` and what is said of the tree between operations hold as long as no
  request has failed. `EntriesLive` holds after one as well, but for the name of a
  new node whose own write failed and still reached the disk (`doubted`).

## Not modelled

* Process memory: the contents of the argument stack and of pages other than the
  ELF image; page flags of the upper half; `align_up` overflow near 2^64; the
  assembly that saves registers at user entry and exit.
* System calls that only answer (`stat`, `access`, `readlink`, `uname`,
  `getcwd`, clocks), `chdir`, and descriptors in subdirectories. `getdents64` with
  room for no entry, which answers 0 as at the end of the directory and moves
  nothing (`syscall.rs`, lines 897 to 900).
* ext2: modes, owners, time stamps; going on after a disk request failed in the
  middle of an operation (`link` and `rename` then leave a count too low); power
  loss, and the order in which the drive's cache is written back; the limit of
  links, which `rename` does not test, at its real size.
* ATA: the probe at boot. The model assumes that a new command replaces one whose
  data was never fetched, which the driver relies on and the standard leaves
  open.
* Console: colours as such. Frame buffer: glyph shapes, pixel
  formats, shapes and images.
* Interrupts: the timer, and exceptions of the kernel itself. The panic screen.
* A working directory that is moved or removed while the shell is in it.
* Physical memory setup and its report, ACPI, descriptor tables: straight-line
  code without later state. The tests.
