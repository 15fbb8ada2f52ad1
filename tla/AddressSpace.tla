---------------------------- MODULE AddressSpace ----------------------------
(***************************************************************************)
(* The lower half of the one address space: the kernel heap mapped at boot *)
(* (kmem/heap.rs init_heap) and the single user process of user.rs, which  *)
(* exec maps, the brk, mmap, mprotect and munmap system calls change, and  *)
(* cleanup_process takes down.  All of them draw on FrameAllocator.        *)
(*                                                                         *)
(* The code runs to completion on one core, but each of its loops can fail *)
(* half way, so an action is one iteration: pc names the function running, *)
(* todo the pages its loop has still to visit, and held the frame between  *)
(* allocate_frame and map_to.  An action calls the frame allocator at most *)
(* once.  What the pages contain, and the file descriptors cleanup_process *)
(* resets too, are not part of this module.                                *)
(*                                                                         *)
(* Addresses are bytes; a page is a page number.                           *)
(***************************************************************************)
EXTENDS FrameAllocator

CONSTANTS
  PAGE_SIZE, USER_MAX, HEAP_BASE, MMAP_BASE,
  KernelHeap,   \* the pages of the kernel heap, lowest first
  Tables,       \* page tables below the root
  TablesOf,     \* page -> the tables on the way to its entry, top first
  Programs,     \* [specs, entry]: the page specs exec built, the stack's
                \* included, and where entry + load_bias falls
  BrkArgs,      \* addresses given to brk
  MapAddrs,     \* addresses given to mmap (0: kernel's choice), mprotect
                \* and munmap, in the lower half
  Lengths,      \* lengths given to them
  Protections,  \* page flags asked of mmap and mprotect
  MmapLimit,    \* bound on MMAP_NEXT
  NoBrk

VARIABLES
  pc, todo, held,
  entry,           \* where the program being started or run begins
  new_brk,         \* what set_brk stores after map_anonymous, or NoBrk
  pt,              \* page -> the frame it is mapped to, or NoFrame
  flags,           \* page -> its WRITABLE ("W") and NO_EXECUTE ("NX") bits
  tables,          \* table -> its frame, or NoFrame while it is missing
  PROCESS_PAGES,   \* the pages recorded for cleanup
  BRK, MMAP_NEXT,
  leaked           \* ghost: frames a failed map_to left without an owner

space_only == <<pc, todo, held, entry, new_brk, pt, flags, tables,
                PROCESS_PAGES, BRK, MMAP_NEXT, leaked>>

space_vars == <<frame_vars, space_only>>

Pages == 0..(USER_MAX \div PAGE_SIZE - 1)

FlagSets == SUBSET {"W", "NX"}

PageSpecs == [page : Pages, flags : FlagSets]

HeapPages == {KernelHeap[i] : i \in 1..Len(KernelHeap)}

(* Faulty variant: a last, partly used page is forgotten.                  *)
PageRangeShort(start, len, fl) ==
  LET first == start \div PAGE_SIZE
      count == (start + len) \div PAGE_SIZE - first
  IN  [i \in 1..count |-> [page |-> first + i - 1, flags |-> fl]]

(* The pages of [start, start + len) with the same flags: the loops from   *)
(* align_down(start) up to align_up(start + len).                          *)
PageRange(start, len, fl) ==
  LET first == start \div PAGE_SIZE
      count == align_up(start + len, PAGE_SIZE) \div PAGE_SIZE - first
  IN  [i \in 1..count |-> [page |-> first + i - 1, flags |-> fl]]

ASSUME SpaceAssumption ==
  /\ PAGE_SIZE \in Nat \ {0} /\ USER_MAX \in Nat
  /\ HEAP_BASE \in Nat /\ MMAP_BASE \in Nat
  /\ KernelHeap \in Seq(Pages)
  /\ TablesOf \in [Pages -> Seq(Tables)]
  /\ Programs \subseteq [specs : Seq(PageSpecs),
                         entry : {"inside", "outside", "overflow"}]
  /\ align_up(USER_MAX, PAGE_SIZE) = USER_MAX
  /\ BrkArgs \subseteq Nat /\ MapAddrs \subseteq 0..USER_MAX
  /\ Lengths \subseteq Nat \ {0}
  /\ Protections \subseteq FlagSets
  /\ MmapLimit \in Nat
  /\ NoBrk \notin Nat
-----------------------------------------------------------------------------
page == Head(todo).page

Mapped(p) == pt[p] # NoFrame

ProcessPages == {PROCESS_PAGES[i] : i \in 1..Len(PROCESS_PAGES)}

(* map_to finds the i-th table on the way to page p missing.               *)
MissingTable(p, i) ==
  /\ i \in 1..Len(TablesOf[p])
  /\ tables[TablesOf[p][i]] = NoFrame
  /\ \A j \in 1..(i - 1) : tables[TablesOf[p][j]] # NoFrame

TablesPresent(p) ==
  \A i \in 1..Len(TablesOf[p]) : tables[TablesOf[p][i]] # NoFrame

(* mprotect or munmap of a range that reaches past the lower half.         *)
PastEnd == [mprotect |-> "mprotect_past", munmap |-> "munmap_past"]

swap_remove(s, pos) == SubSeq([s EXCEPT ![pos] = s[Len(s)]], 1, Len(s) - 1)

Return(to) ==
  /\ pc' = to
  /\ todo' = <<>>
  /\ new_brk' = NoBrk
-----------------------------------------------------------------------------
(* Boot: kinit calls init_heap, which maps the kernel heap.                *)
SpaceInit ==
  /\ FrameInit
  /\ pc = "boot"
  /\ todo = [i \in 1..Len(KernelHeap) |->
               [page |-> KernelHeap[i], flags |-> {"W"}]]
  /\ held = NoFrame
  /\ entry = "inside"
  /\ new_brk = NoBrk
  /\ pt = [p \in Pages |-> NoFrame]
  /\ flags = [p \in Pages |-> {}]
  /\ tables = [t \in Tables |-> NoFrame]
  /\ PROCESS_PAGES = <<>>
  /\ BRK = HEAP_BASE
  /\ MMAP_NEXT = MMAP_BASE
  /\ leaked = {}

BootDone ==
  /\ pc = "boot" /\ todo = <<>>
  /\ Return("shell")
  /\ UNCHANGED <<frame_vars, held, entry, pt, flags, tables, PROCESS_PAGES,
                 BRK, MMAP_NEXT, leaked>>
-----------------------------------------------------------------------------
(* The part that the mapping loops of init_heap, exec and map_anonymous    *)
(* share: a frame, the missing tables, the entry.                          *)
Mapping == pc \in {"boot", "exec", "anon"} /\ todo # <<>>

TakeFrame(f) ==
  /\ Mapping /\ held = NoFrame /\ ~Mapped(page)
  /\ allocate_frame(f)
  /\ held' = f
  /\ UNCHANGED <<pc, todo, entry, new_brk, pt, flags, tables, PROCESS_PAGES,
                 BRK, MMAP_NEXT, leaked>>

(* map_to allocates a frame for a missing table.                           *)
AddTable(f) ==
  /\ Mapping /\ held # NoFrame
  /\ \E i \in 1..Len(TablesOf[page]) :
       /\ MissingTable(page, i)
       /\ tables' = [tables EXCEPT ![TablesOf[page][i]] = f]
  /\ allocate_frame(f)
  /\ UNCHANGED <<pc, todo, held, entry, new_brk, pt, flags, PROCESS_PAGES,
                 BRK, MMAP_NEXT, leaked>>

(* map_to writes the entry; exec and map_anonymous record the page.        *)
MapPage ==
  /\ Mapping /\ held # NoFrame /\ TablesPresent(page)
  /\ pt' = [pt EXCEPT ![page] = held]
  /\ flags' = [flags EXCEPT ![page] = Head(todo).flags]
  /\ PROCESS_PAGES' = IF pc = "boot" THEN PROCESS_PAGES
                                     ELSE Append(PROCESS_PAGES, page)
  /\ held' = NoFrame
  /\ todo' = Tail(todo)
  /\ UNCHANGED <<frame_vars, pc, entry, new_brk, tables, BRK, MMAP_NEXT,
                 leaked>>

(* No frame for the page.  init_heap's caller panics, exec cleans up and   *)
(* map_anonymous returns, keeping the pages it has mapped.                 *)
TakeFrameFails ==
  /\ Mapping /\ held = NoFrame /\ ~Mapped(page)
  /\ allocate_none
  /\ Return([boot |-> "panic", exec |-> "cleanup", anon |-> "user"][pc])
  /\ UNCHANGED <<held, entry, pt, flags, tables, PROCESS_PAGES, BRK,
                 MMAP_NEXT, leaked>>

(* No frame for a table: map_to fails.  exec gives the page's frame back,  *)
(* map_anonymous returns without it.                                       *)
AddTableFails ==
  /\ Mapping /\ held # NoFrame /\ ~TablesPresent(page)
  /\ allocate_none
  /\ Return([boot |-> "panic", exec |-> "undo", anon |-> "user"][pc])
  /\ IF pc = "anon" THEN held' = NoFrame /\ leaked' = leaked \cup {held}
                    ELSE UNCHANGED <<held, leaked>>
  /\ UNCHANGED <<entry, pt, flags, tables, PROCESS_PAGES, BRK, MMAP_NEXT>>
-----------------------------------------------------------------------------
(* exec of a program whose headers were accepted.                          *)
Exec(program) ==
  /\ pc = "shell"
  /\ pc' = "exec"
  /\ todo' = program.specs
  /\ entry' = program.entry
  /\ UNCHANGED <<frame_vars, held, new_brk, pt, flags, tables, PROCESS_PAGES,
                 BRK, MMAP_NEXT, leaked>>

ExecAlreadyMapped ==
  /\ pc = "exec" /\ todo # <<>> /\ held = NoFrame /\ Mapped(page)
  /\ Return("cleanup")
  /\ UNCHANGED <<frame_vars, held, entry, pt, flags, tables, PROCESS_PAGES,
                 BRK, MMAP_NEXT, leaked>>

(* deallocate_frame after a failed map_to.                                 *)
ExecUndo ==
  /\ pc = "undo"
  /\ deallocate_frame(held)
  /\ held' = NoFrame
  /\ pc' = "cleanup"
  /\ UNCHANGED <<todo, entry, new_brk, pt, flags, tables, PROCESS_PAGES, BRK,
                 MMAP_NEXT, leaked>>

(* Everything is mapped and the stack is built.  checked_add's `?' returns *)
(* to the shell at once; an entry in none of the pages cleans up first.    *)
ExecEnter ==
  /\ pc = "exec" /\ todo = <<>>
  /\ \/ entry = "overflow" /\ pc' = "shell"
     \/ entry = "outside" /\ pc' = "cleanup"
     \/ entry = "inside" /\ pc' = "user"
  /\ UNCHANGED <<frame_vars, todo, held, entry, new_brk, pt, flags, tables,
                 PROCESS_PAGES, BRK, MMAP_NEXT, leaked>>

(* syscall_exit: control comes back behind enter_user_and_wait.            *)
Exit ==
  /\ pc = "user"
  /\ pc' = "cleanup"
  /\ UNCHANGED <<frame_vars, todo, held, entry, new_brk, pt, flags, tables,
                 PROCESS_PAGES, BRK, MMAP_NEXT, leaked>>

(* Faulty variant: the page is unmapped and its frame not returned.        *)
CleanupKeepsFrame ==
  /\ pc = "cleanup" /\ PROCESS_PAGES # <<>>
  /\ LET last == PROCESS_PAGES[Len(PROCESS_PAGES)]
     IN  /\ pt' = [pt EXCEPT ![last] = NoFrame]
         /\ flags' = [flags EXCEPT ![last] = {}]
  /\ PROCESS_PAGES' = SubSeq(PROCESS_PAGES, 1, Len(PROCESS_PAGES) - 1)
  /\ UNCHANGED <<frame_vars, pc, todo, held, entry, new_brk, tables, BRK,
                 MMAP_NEXT, leaked>>

(* cleanup_process: one page popped, unmapped and its frame returned.      *)
CleanupPage ==
  /\ pc = "cleanup" /\ PROCESS_PAGES # <<>>
  /\ LET last == PROCESS_PAGES[Len(PROCESS_PAGES)]
     IN  IF Mapped(last)
           THEN /\ deallocate_frame(pt[last])
                /\ pt' = [pt EXCEPT ![last] = NoFrame]
                /\ flags' = [flags EXCEPT ![last] = {}]
           ELSE UNCHANGED <<frame_vars, pt, flags>>
  /\ PROCESS_PAGES' = SubSeq(PROCESS_PAGES, 1, Len(PROCESS_PAGES) - 1)
  /\ UNCHANGED <<pc, todo, held, entry, new_brk, tables, BRK, MMAP_NEXT,
                 leaked>>

(* Faulty variant: the break of the last process stays.                    *)
CleanupKeepsBreak ==
  /\ pc = "cleanup" /\ PROCESS_PAGES = <<>>
  /\ MMAP_NEXT' = MMAP_BASE
  /\ pc' = "shell"
  /\ UNCHANGED <<frame_vars, todo, held, entry, new_brk, pt, flags, tables,
                 PROCESS_PAGES, BRK, leaked>>

CleanupDone ==
  /\ pc = "cleanup" /\ PROCESS_PAGES = <<>>
  /\ BRK' = HEAP_BASE
  /\ MMAP_NEXT' = MMAP_BASE
  /\ pc' = "shell"
  /\ UNCHANGED <<frame_vars, todo, held, entry, new_brk, pt, flags, tables,
                 PROCESS_PAGES, leaked>>
-----------------------------------------------------------------------------
(* The range test of map_anonymous, and its loop begun when it passes.     *)
InRange(start, len) ==
  start < USER_MAX /\ align_up(start + len, PAGE_SIZE) <= USER_MAX

map_anonymous(start, len, fl, brk) ==
  IF InRange(start, len)
    THEN /\ pc' = "anon"
         /\ todo' = PageRange(start, len, fl)
         /\ new_brk' = brk
    ELSE UNCHANGED <<pc, todo, new_brk>>

(* brk(new): a break at or below the current one is stored as it is and    *)
(* unmaps nothing; brk(0) only reads.                                      *)
BrkShrink(new) ==
  /\ pc = "user" /\ new # 0 /\ new <= BRK
  /\ BRK' = new
  /\ UNCHANGED <<frame_vars, pc, todo, held, entry, new_brk, pt, flags,
                 tables, PROCESS_PAGES, MMAP_NEXT, leaked>>

BrkGrow(new) ==
  /\ pc = "user" /\ new > BRK
  /\ map_anonymous(BRK, new - BRK, {"W", "NX"}, new)
  /\ UNCHANGED <<frame_vars, held, entry, pt, flags, tables, PROCESS_PAGES,
                 BRK, MMAP_NEXT, leaked>>

(* mmap with an address of the caller's.                                   *)
MmapAt(addr, len, fl) ==
  /\ pc = "user" /\ addr # 0
  /\ map_anonymous(addr, len, fl, NoBrk)
  /\ UNCHANGED <<frame_vars, held, entry, pt, flags, tables, PROCESS_PAGES,
                 BRK, MMAP_NEXT, leaked>>

(* mmap without one: MMAP_NEXT moves even when the mapping then fails.     *)
mmap_anon(len, fl) ==
  LET addr == align_up(MMAP_NEXT, PAGE_SIZE)
      next == align_up(addr + len, PAGE_SIZE)
  IN  /\ pc = "user" /\ next <= MmapLimit
      /\ MMAP_NEXT' = next
      /\ map_anonymous(addr, len, fl, NoBrk)
      /\ UNCHANGED <<frame_vars, held, entry, pt, flags, tables,
                     PROCESS_PAGES, BRK, leaked>>

(* Faulty variant: a mapped page is met with `continue' before addr moves. *)
AnonStays ==
  /\ pc = "anon" /\ todo # <<>> /\ held = NoFrame /\ Mapped(page)
  /\ UNCHANGED space_vars

AnonSkip ==
  /\ pc = "anon" /\ todo # <<>> /\ held = NoFrame /\ Mapped(page)
  /\ todo' = Tail(todo)
  /\ UNCHANGED <<frame_vars, pc, held, entry, new_brk, pt, flags, tables,
                 PROCESS_PAGES, BRK, MMAP_NEXT, leaked>>

(* map_anonymous returns Ok, and set_brk stores the new break.             *)
AnonDone ==
  /\ pc = "anon" /\ todo = <<>>
  /\ BRK' = IF new_brk = NoBrk THEN BRK ELSE new_brk
  /\ Return("user")
  /\ UNCHANGED <<frame_vars, held, entry, pt, flags, tables, PROCESS_PAGES,
                 MMAP_NEXT, leaked>>
-----------------------------------------------------------------------------
(* mprotect and munmap begin their loops.  They test no upper bound: past  *)
(* the pages of the lower half the loop meets an address that is not       *)
(* canonical, and VirtAddr::new panics.                                    *)
Syscall(op, addr, len, fl) ==
  /\ pc = "user"
  /\ IF InRange(addr, len)
       THEN /\ pc' = op
            /\ todo' = PageRange(addr, len, fl)
       ELSE /\ pc' = PastEnd[op]
            /\ todo' = PageRange(addr, USER_MAX - addr, fl)
  /\ UNCHANGED <<frame_vars, held, entry, new_brk, pt, flags, tables,
                 PROCESS_PAGES, BRK, MMAP_NEXT, leaked>>

(* mprotect stops at the first page that is not mapped.                    *)
MprotectPage ==
  /\ pc \in {"mprotect", "mprotect_past"} /\ todo # <<>>
  /\ IF Mapped(page)
       THEN /\ flags' = [flags EXCEPT ![page] = Head(todo).flags]
            /\ todo' = Tail(todo)
            /\ UNCHANGED <<pc, new_brk>>
       ELSE /\ Return("user")
            /\ UNCHANGED flags
  /\ UNCHANGED <<frame_vars, held, entry, pt, tables, PROCESS_PAGES, BRK,
                 MMAP_NEXT, leaked>>

(* Faulty variants of munmap: it takes pages the process does not own, or  *)
(* leaves the page in PROCESS_PAGES, or in the page table as well.         *)
MunmapVariant(takes, unmaps, forgets) ==
  /\ pc \in {"munmap", "munmap_past"} /\ todo # <<>>
  /\ IF takes /\ Mapped(page)
       THEN /\ deallocate_frame(pt[page])
            /\ pt' = [pt EXCEPT ![page] = IF unmaps THEN NoFrame ELSE @]
            /\ flags' = [flags EXCEPT ![page] = {}]
            /\ PROCESS_PAGES' = IF forgets
                 THEN SelectSeq(PROCESS_PAGES, LAMBDA p : p # page)
                 ELSE PROCESS_PAGES
       ELSE UNCHANGED <<frame_vars, pt, flags, PROCESS_PAGES>>
  /\ todo' = Tail(todo)
  /\ UNCHANGED <<pc, held, entry, new_brk, tables, BRK, MMAP_NEXT, leaked>>

MunmapAnyPage == MunmapVariant(TRUE, TRUE, TRUE)

MunmapKeepsRecord == MunmapVariant(page \in ProcessPages, TRUE, FALSE)

MunmapKeepsEntry == MunmapVariant(page \in ProcessPages, FALSE, FALSE)

(* munmap passes over pages the process does not own.                      *)
MunmapPage ==
  /\ pc \in {"munmap", "munmap_past"} /\ todo # <<>>
  /\ IF page \in ProcessPages /\ Mapped(page)
       THEN LET pos == CHOOSE i \in 1..Len(PROCESS_PAGES) :
                         PROCESS_PAGES[i] = page
            IN  /\ deallocate_frame(pt[page])
                /\ pt' = [pt EXCEPT ![page] = NoFrame]
                /\ flags' = [flags EXCEPT ![page] = {}]
                /\ PROCESS_PAGES' = swap_remove(PROCESS_PAGES, pos)
       ELSE UNCHANGED <<frame_vars, pt, flags, PROCESS_PAGES>>
  /\ todo' = Tail(todo)
  /\ UNCHANGED <<pc, held, entry, new_brk, tables, BRK, MMAP_NEXT, leaked>>

(* The loop is over, or has met the end of the lower half.                 *)
SyscallDone ==
  /\ pc \in {"mprotect", "munmap", "mprotect_past", "munmap_past"}
  /\ todo = <<>>
  /\ Return(IF pc \in {"mprotect", "munmap"} THEN "user" ELSE "panic")
  /\ UNCHANGED <<frame_vars, held, entry, pt, flags, tables, PROCESS_PAGES,
                 BRK, MMAP_NEXT, leaked>>
-----------------------------------------------------------------------------
(* The steps the kernel takes by itself once it is running.                *)
KernelStep ==
  \/ BootDone
  \/ \E f \in Frames : TakeFrame(f) \/ AddTable(f)
  \/ MapPage \/ TakeFrameFails \/ AddTableFails
  \/ ExecAlreadyMapped \/ ExecUndo \/ ExecEnter
  \/ CleanupPage \/ CleanupDone
  \/ AnonSkip \/ AnonDone
  \/ MprotectPage \/ MunmapPage \/ SyscallDone

(* What the shell and the user program choose to do.                       *)
UserStep ==
  \/ \E program \in Programs : Exec(program)
  \/ Exit
  \/ \E new \in BrkArgs : BrkShrink(new) \/ BrkGrow(new)
  \/ \E len \in Lengths, fl \in Protections :
       \/ mmap_anon(len, fl)
       \/ \E addr \in MapAddrs : \/ MmapAt(addr, len, fl)
                                 \/ Syscall("mprotect", addr, len, fl)
  \/ \E addr \in MapAddrs, len \in Lengths : Syscall("munmap", addr, len, {})

SpaceNext == KernelStep \/ UserStep

SpaceSpec == SpaceInit /\ [][SpaceNext]_space_vars

(* On one core with interrupts off in system calls, kernel code that can   *)
(* take a step takes it; nothing is assumed of the user.                   *)
FairSpaceSpec == SpaceSpec /\ WF_space_vars(KernelStep)
-----------------------------------------------------------------------------
Backing == {pt[p] : p \in {q \in Pages : Mapped(q)}}

TableFrames == {tables[t] : t \in {u \in Tables : tables[u] # NoFrame}}

InHand == {held} \ {NoFrame}

(* Types of the page table, of user.rs's statics and of the loop state of   *)
(* the functions that map and unmap.                                        *)
SpaceTypeOK ==
  /\ pc \in {"boot", "panic", "shell", "exec", "undo", "cleanup", "user",
             "anon", "mprotect", "munmap", "mprotect_past", "munmap_past"}
  /\ todo \in Seq(PageSpecs)
  /\ held \in Frames \cup {NoFrame}
  /\ entry \in {"inside", "outside", "overflow"}
  /\ new_brk \in Nat \cup {NoBrk}
  /\ pt \in [Pages -> Frames \cup {NoFrame}]
  /\ flags \in [Pages -> FlagSets]
  /\ tables \in [Tables -> Frames \cup {NoFrame}]
  /\ PROCESS_PAGES \in Seq(Pages)
  /\ BRK \in Nat /\ MMAP_NEXT \in Nat
  /\ leaked \subseteq Frames

(* Every frame that was allocated has exactly one use: it backs one page,  *)
(* holds one page table, is in hand, or was lost by a failed mapping.  No  *)
(* page shares a frame with another page or with a table.                  *)
FramesAccounted ==
  /\ owned = Backing \cup TableFrames \cup InHand \cup leaked
  /\ \A p, q \in Pages : Mapped(p) /\ pt[p] = pt[q] => p = q
  /\ \A t, u \in Tables : tables[t] # NoFrame /\ tables[t] = tables[u] => t = u
  /\ Backing \cap TableFrames = {}
  /\ InHand \cap (Backing \cup TableFrames) = {}
  /\ leaked \cap (Backing \cup TableFrames \cup InHand) = {}

(* PROCESS_PAGES lists each mapped page of the lower half once, the kernel *)
(* heap's excepted: what cleanup_process takes down is the whole process   *)
(* and nothing else.                                                       *)
ProcessPagesExact ==
  /\ \A i, j \in 1..Len(PROCESS_PAGES) :
       PROCESS_PAGES[i] = PROCESS_PAGES[j] => i = j
  /\ ProcessPages \cap HeapPages = {}
  /\ {p \in Pages : Mapped(p)} \ HeapPages = ProcessPages

(* Once boot has mapped the kernel heap, neither exec nor a system call    *)
(* nor cleanup changes the frame behind any page of it.                    *)
KernelHeapStable ==
  [][pc # "boot" => \A p \in HeapPages : pt'[p] = pt[p]]_space_vars

(* brk reports a larger break only when every page of the grown part is    *)
(* mapped, also when some of them were there before.                       *)
GrownBreakIsBacked ==
  [][BRK' > BRK /\ pc = "anon" =>
       \A p \in Pages :
         BRK < (p + 1) * PAGE_SIZE /\ p * PAGE_SIZE < BRK' => Mapped(p)
    ]_space_vars

(* "the process's user mappings are reclaimed afterwards" (README): a      *)
(* cleanup ends in the shell with nothing but the kernel heap mapped, the  *)
(* break and the mmap cursor reset, and all frames but those of the heap,  *)
(* the page tables and the lost ones free again.                           *)
CleanupReclaims ==
  pc = "cleanup" ~>
    /\ pc = "shell"
    /\ \A p \in Pages : Mapped(p) => p \in HeapPages
    /\ BRK = HEAP_BASE /\ MMAP_NEXT = MMAP_BASE
    /\ owned = {pt[p] : p \in HeapPages} \cup TableFrames \cup leaked

(* Every system call on a range of the lower half returns to the program,  *)
(* and every exec ends, in the program or back in the shell: no mapping    *)
(* loop runs for ever.                                                     *)
KernelReturns ==
  pc \in {"exec", "undo", "cleanup", "anon", "mprotect", "munmap"} ~>
    pc \in {"user", "shell"}
=============================================================================
