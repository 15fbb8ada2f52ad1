----------------------------- MODULE ElfLoader -----------------------------
(***************************************************************************)
(* How exec turns an ELF image into pages: Elf64::parse and load_headers   *)
(* (elf.rs) and the loops of exec (user.rs) that collect one PageSpec per  *)
(* page and copy the segments into the mapped pages.  One action per round *)
(* of each loop.  Taking frames and mapping the pages is module            *)
(* AddressSpace; here the pages appear, zeroed, in one step.               *)
(*                                                                         *)
(* An image is its ELF header and its program headers; as data, the byte   *)
(* at file offset i is i.                                                  *)
(***************************************************************************)
EXTENDS Naturals, Sequences

CONSTANTS
  PAGE_SIZE, USER_MAX, PIE_BASE, USER_STACK_TOP, USER_STACK_PAGES,
  U64_MAX,          \* checked_add fails beyond it
  EHDR_SIZE, PHDR_SIZE,  \* 64 and 56
  ElfKinds,         \* the e_type values the build's features allow
  Images,           \* [len, ident, kind, phoff, phentsize]; ident is what
                    \* parse finds wrong with the bytes before e_type, or
                    \* with e_machine
  ProgramHeaders,   \* [typ, w, x, offset, vaddr, filesz, memsz]
  MaxHeaders,       \* bound: headers in one image
  Zero              \* a byte that write_bytes cleared

VARIABLES
  phs,      \* the image's program headers
  image,    \* the rest of it
  pc,       \* the loop exec is in, or the error it returned
  i,        \* the header the loop is at
  headers,  \* load_headers' result so far
  addr,     \* exec's addr, relative to the page of the segment's start
  specs,    \* sequence of [page, w, nx]
  memory,   \* mapped byte address -> its content
  copied

loader_vars == <<phs, image, pc, i, headers, addr, specs, memory, copied>>

ASSUME LoaderAssumption ==
  /\ PAGE_SIZE \in Nat \ {0}
  /\ {USER_MAX, PIE_BASE, USER_STACK_TOP, USER_STACK_PAGES, U64_MAX, EHDR_SIZE,
      PHDR_SIZE, MaxHeaders} \subseteq Nat
  /\ USER_MAX % PAGE_SIZE = 0 /\ USER_MAX <= U64_MAX
  /\ USER_STACK_TOP % PAGE_SIZE = 0 /\ USER_STACK_TOP <= USER_MAX
  /\ USER_STACK_PAGES * PAGE_SIZE <= USER_STACK_TOP
  /\ \A im \in Images :
       /\ {im.len, im.phoff, im.phentsize} \subseteq Nat
       /\ im.ident \in {"ok", "BadMagic", "Not64Bit", "NotLittleEndian",
                        "BadHeader", "WrongMachine"}
  /\ \A ph \in ProgramHeaders :
       /\ {ph.offset, ph.vaddr, ph.filesz, ph.memsz} \subseteq Nat
       /\ {ph.w, ph.x} \subseteq BOOLEAN

align_down(a) == a - (a % PAGE_SIZE)

align_up(a) == align_down(a + PAGE_SIZE - 1)

Errors == {"TooSmall", "BadMagic", "Not64Bit", "NotLittleEndian", "BadHeader",
           "UnsupportedType", "WrongMachine", "BadProgramHeader", "Interpreter", "InvalidSegment",
           "AddressOverflow", "InvalidAddress", "Mapping"}

LoaderInit ==
  /\ phs \in UNION {[1..n -> ProgramHeaders] : n \in 0..MaxHeaders}
  /\ image \in Images
  /\ pc = "parse" /\ i = 1
  /\ headers = <<>> /\ addr = 0 /\ specs = <<>>
  /\ memory = <<>> /\ copied = 0

Fail(error) ==
  /\ pc' = error
  /\ UNCHANGED <<phs, image, i, headers, addr, specs, memory, copied>>

ParseError ==
  CASE image.len < EHDR_SIZE -> "TooSmall"
    [] image.ident \notin {"ok", "WrongMachine"} -> image.ident
    [] image.kind \notin ElfKinds -> "UnsupportedType"
    [] image.ident = "WrongMachine" -> "WrongMachine"
    [] image.phentsize < PHDR_SIZE -> "BadHeader"
    [] image.phoff + image.phentsize * Len(phs) > image.len -> "BadHeader"
    [] OTHER -> "none"

RejectImage ==
  /\ pc = "parse" /\ ParseError # "none"
  /\ Fail(ParseError)

Parse ==
  /\ pc = "parse" /\ ParseError = "none"
  /\ pc' = "headers"
  /\ UNCHANGED <<phs, image, i, headers, addr, specs, memory, copied>>

(* program_header: where header number k, counted from 0, is read.         *)
HeaderAt(k) == image.phoff + k * image.phentsize

(* program_header's check, then load_headers' checks of the header.        *)
HeaderError(ph) ==
  CASE HeaderAt(i - 1) + PHDR_SIZE > image.len -> "BadProgramHeader"
    [] ph.typ = "INTERP" -> "Interpreter"
    [] ph.typ = "LOAD" /\ ph.filesz > ph.memsz -> "InvalidSegment"
    [] ph.typ = "LOAD" /\ ph.offset + ph.filesz > image.len -> "InvalidSegment"
    [] ph.typ = "LOAD" /\ ph.vaddr + ph.memsz > U64_MAX -> "AddressOverflow"
    [] OTHER -> "none"

RejectHeader ==
  /\ pc = "headers" /\ i <= Len(phs)
  /\ HeaderError(phs[i]) # "none"
  /\ Fail(HeaderError(phs[i]))

LoadHeader ==
  /\ pc = "headers" /\ i <= Len(phs)
  /\ HeaderError(phs[i]) = "none"
  /\ headers' = IF phs[i].typ = "LOAD" /\ phs[i].memsz # 0
                  THEN Append(headers, phs[i]) ELSE headers
  /\ i' = i + 1
  /\ UNCHANGED <<phs, image, pc, addr, specs, memory, copied>>

HeadersDone ==
  /\ pc = "headers" /\ i > Len(phs)
  /\ pc' = IF headers = <<>> THEN "InvalidSegment" ELSE "specs"
  /\ i' = 1
  /\ UNCHANGED <<phs, image, headers, addr, specs, memory, copied>>
-----------------------------------------------------------------------------
load_bias == IF image.kind = "DYN" THEN PIE_BASE ELSE 0

SegStart(ph) == ph.vaddr + load_bias

SegEnd(ph) == SegStart(ph) + ph.memsz

(* exec's checks of a segment's range, the failed checked_adds included.   *)
BadRange(ph) ==
  \/ SegEnd(ph) > U64_MAX
  \/ SegStart(ph) >= USER_MAX
  \/ SegEnd(ph) > USER_MAX
  \/ SegEnd(ph) <= SegStart(ph)

RejectSegment ==
  /\ pc = "specs" /\ i <= Len(headers)
  /\ BadRange(headers[i])
  /\ Fail("InvalidAddress")

(* Faulty variant: the later segment's permissions replace the earlier's.  *)
Overwrite(spec, ph) == [spec EXCEPT !.w = ph.w, !.nx = ~ph.x]

(* `existing.flags |= flags': NO_EXECUTE is one of the flags.              *)
Merge(spec, ph) == [spec EXCEPT !.w = @ \/ ph.w, !.nx = @ \/ ~ph.x]

AddSpec(page, ph) ==
  IF \E k \in 1..Len(specs) : specs[k].page = page
    THEN [k \in 1..Len(specs) |->
            IF specs[k].page = page THEN Merge(specs[k], ph) ELSE specs[k]]
    ELSE Append(specs, [page |-> page, w |-> ph.w, nx |-> ~ph.x])

(* Faulty variant: addr does not move.                                     *)
SegmentPageStays ==
  /\ pc = "specs" /\ i <= Len(headers)
  /\ ~BadRange(headers[i])
  /\ specs' = AddSpec(align_down(SegStart(headers[i])) + addr, headers[i])
  /\ UNCHANGED <<phs, image, pc, i, headers, addr, memory, copied>>

SegmentPage ==
  /\ pc = "specs" /\ i <= Len(headers)
  /\ ~BadRange(headers[i])
  /\ LET ph == headers[i]
         page == align_down(SegStart(ph)) + addr
     IN  /\ specs' = AddSpec(page, ph)
         /\ IF page + PAGE_SIZE < align_up(SegEnd(ph))
              THEN addr' = addr + PAGE_SIZE /\ i' = i
              ELSE addr' = 0 /\ i' = i + 1
  /\ UNCHANGED <<phs, image, pc, headers, memory, copied>>

StackPage(k) == USER_STACK_TOP - (USER_STACK_PAGES - (k - 1)) * PAGE_SIZE

StackSpecs ==
  [k \in 1..USER_STACK_PAGES |->
     [page |-> StackPage(k), w |-> TRUE, nx |-> TRUE]]

PagesOf(ss) == {ss[k].page : k \in 1..Len(ss)}

BytesOf(pages) == UNION {p..(p + PAGE_SIZE - 1) : p \in pages}

(* The stack's specs, then the mapping of all of them to zeroed frames.    *)
StackAndMap ==
  /\ pc = "specs" /\ i > Len(headers)
  /\ PagesOf(specs) \cap PagesOf(StackSpecs) = {}
  /\ specs' = specs \o StackSpecs
  /\ memory' = [a \in BytesOf(PagesOf(specs')) |-> Zero]
  /\ pc' = "copy" /\ i' = 1
  /\ UNCHANGED <<phs, image, headers, addr, copied>>

StackTaken ==
  /\ pc = "specs" /\ i > Len(headers)
  /\ PagesOf(specs) \cap PagesOf(StackSpecs) # {}
  /\ Fail("InvalidAddress")
-----------------------------------------------------------------------------
(* Faulty variant: the chunk is copied to the start of its page.           *)
CopyToPageStart ==
  /\ pc = "copy" /\ i <= Len(headers) /\ copied < headers[i].filesz
  /\ LET ph == headers[i]
         va == align_down(SegStart(ph) + copied)
         left == ph.filesz - copied
         n == IF PAGE_SIZE < left THEN PAGE_SIZE ELSE left
     IN  /\ memory' = [a \in DOMAIN memory |->
                          IF a \in va..(va + n - 1)
                            THEN ph.offset + copied + (a - va) ELSE memory[a]]
         /\ copied' = copied + n
  /\ UNCHANGED <<phs, image, pc, i, headers, addr, specs>>

(* A round of the copy loop: up to the end of the page or of the segment.  *)
CopyChunk ==
  /\ pc = "copy" /\ i <= Len(headers) /\ copied < headers[i].filesz
  /\ LET ph == headers[i]
         va == SegStart(ph) + copied
         room == PAGE_SIZE - (va % PAGE_SIZE)
         left == ph.filesz - copied
         n == IF room < left THEN room ELSE left
     IN  IF va \in DOMAIN memory
           THEN /\ memory' = [a \in DOMAIN memory |->
                                IF a \in va..(va + n - 1)
                                  THEN ph.offset + copied + (a - va)
                                  ELSE memory[a]]
                /\ copied' = copied + n
                /\ pc' = pc
           ELSE pc' = "Mapping" /\ UNCHANGED <<memory, copied>>
  /\ UNCHANGED <<phs, image, i, headers, addr, specs>>

NextSegment ==
  /\ pc = "copy" /\ i <= Len(headers) /\ copied = headers[i].filesz
  /\ i' = i + 1 /\ copied' = 0
  /\ UNCHANGED <<phs, image, pc, headers, addr, specs, memory>>

Loaded ==
  /\ pc = "copy" /\ i > Len(headers)
  /\ pc' = "done"
  /\ UNCHANGED <<phs, image, i, headers, addr, specs, memory, copied>>

LoaderNext ==
  \/ RejectImage \/ Parse \/ RejectHeader \/ LoadHeader \/ HeadersDone
  \/ RejectSegment \/ SegmentPage \/ StackAndMap \/ StackTaken
  \/ CopyChunk \/ NextSegment \/ Loaded

LoaderSpec ==
  LoaderInit /\ [][LoaderNext]_loader_vars /\ WF_loader_vars(LoaderNext)
-----------------------------------------------------------------------------
Segments == {headers[k] : k \in 1..Len(headers)}

SegBytes(ph) == SegStart(ph)..(SegEnd(ph) - 1)

Touches(ph, page) == \E a \in SegBytes(ph) : align_down(a) = page

(* exec maps each page once, and exactly the pages that some segment or    *)
(* the stack touches, all in the user half: a page two segments share gets *)
(* one spec (mapping it twice would fail as AlreadyMapped), the last page  *)
(* of a segment that ends inside it is not forgotten.  A page is writable  *)
(* exactly if the stack or a segment on it is: merging the flags of        *)
(* segments that share a page loses no write permission, and a read-only   *)
(* page stays read-only.  Every page is as executable as its segments      *)
(* where they agree; on a page that an executable and another segment      *)
(* share the comment in exec asks for execution and the code, which ORs    *)
(* NO_EXECUTE in with the rest, forbids it: nothing is claimed there.      *)
SpecsExact ==
  /\ \A k \in 1..Len(specs) : specs[k].page + PAGE_SIZE <= USER_MAX
  /\ pc \in {"copy", "done"} =>
       /\ \A k, l \in 1..Len(specs) : specs[k].page = specs[l].page => k = l
       /\ PagesOf(specs) =
            {align_down(a) : a \in UNION {SegBytes(ph) : ph \in Segments}}
              \cup PagesOf(StackSpecs)
       /\ \A k \in 1..Len(specs) :
            LET on == {ph \in Segments : Touches(ph, specs[k].page)}
                stack == specs[k].page \in PagesOf(StackSpecs)
            IN  /\ specs[k].w <=> stack \/ \E ph \in on : ph.w
                /\ (stack \/ \A ph \in on : ~ph.x) => specs[k].nx
                /\ specs[k].nx => stack \/ \E ph \in on : ~ph.x

(* The byte the image has for address a; the last segment over it wins.    *)
FileByte(a) ==
  LET covering == {k \in 1..Len(headers) :
                     a \in SegStart(headers[k])..
                           (SegStart(headers[k]) + headers[k].filesz - 1)}
      last == CHOOSE k \in covering : \A l \in covering : l <= k
  IN  IF covering = {} THEN Zero
      ELSE headers[last].offset + (a - SegStart(headers[last]))

(* Once loaded, each byte of a segment holds its byte of the file, that of *)
(* the last segment that has one for it, and zero where none has; the copy *)
(* never meets an unmapped page, and no program header of an image that    *)
(* parse accepted lies outside it.  (Nothing is zeroed but fresh pages: a  *)
(* part past filesz shows what an earlier segment copied there.)           *)
ImageInMemory ==
  /\ pc \notin {"Mapping", "BadProgramHeader"}
  /\ pc = "done" => \A a \in DOMAIN memory : memory[a] = FileByte(a)

(* exec's loops end for every image: the load succeeds or is refused.      *)
LoadEnds == <>(pc = "done" \/ pc \in Errors)
=============================================================================
