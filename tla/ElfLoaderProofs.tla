--------------------------- MODULE ElfLoaderProofs --------------------------
(***************************************************************************)
(* Proofs about exec's loader: the pages it maps are exactly the pages of  *)
(* the segments and the stack, with their permissions, and memory ends up  *)
(* holding the image, for images with any number of headers, and any       *)
(* addresses and sizes.                                                    *)
(***************************************************************************)
EXTENDS ElfLoader, Integers, WellFoundedInduction, TLAPS

(* The prover's default of five seconds is short for the larger steps.     *)
USE SMTT(20), ZenonT(20), SMTT(30)

IsPage(p) == \E k \in Nat : p = k * PAGE_SIZE

Specs == [page : Nat, w : BOOLEAN, nx : BOOLEAN]

(* The loop that collects the specs has dealt with page p of segment k     *)
(* when it is at segment n, at distance l from its first page.             *)
Dealt(k, p, n, l) ==
  /\ Touches(headers[k], p)
  /\ k < n \/ (k = n /\ p < align_down(SegStart(headers[n])) + l)

(* One spec for each page dealt with, with the flags of all its segments.  *)
SpecsSoFar(ss, n, l) ==
  /\ \A j, m \in 1..Len(ss) : ss[j].page = ss[m].page => j = m
  /\ \A p \in 0..USER_MAX :
       p \in PagesOf(ss) <=> \E k \in 1..Len(headers) : Dealt(k, p, n, l)
  /\ \A j \in 1..Len(ss) :
       /\ ss[j].w <=> \E k \in 1..Len(headers) :
                        headers[k].w /\ Dealt(k, ss[j].page, n, l)
       /\ ss[j].nx <=> \E k \in 1..Len(headers) :
                         ~headers[k].x /\ Dealt(k, ss[j].page, n, l)

(* The segments from which byte a has been copied when c bytes of segment  *)
(* n have been.                                                            *)
CopiedFrom(a, n, c) ==
  {k \in 1..Len(headers) :
     \/ k < n /\ a \in SegStart(headers[k])..(SegStart(headers[k]) + headers[k].filesz - 1)
     \/ k = n /\ a \in SegStart(headers[k])..(SegStart(headers[k]) + c - 1)}

CopyInv(n, c) ==
  \A a \in DOMAIN memory :
    /\ CopiedFrom(a, n, c) = {} => memory[a] = Zero
    /\ \A k \in CopiedFrom(a, n, c) :
         (\A m \in CopiedFrom(a, n, c) : m <= k) =>
           memory[a] = headers[k].offset + (a - SegStart(headers[k]))

TypeInv ==
  /\ phs \in Seq(ProgramHeaders) /\ image \in Images
  /\ pc \in {"parse", "headers", "specs", "copy", "done"}
              \cup (Errors \ {"Mapping", "BadProgramHeader"})
  /\ i \in Nat \ {0} /\ addr \in Nat /\ copied \in Nat
  /\ headers \in Seq(ProgramHeaders)
  /\ \A k \in 1..Len(headers) : headers[k].filesz <= headers[k].memsz
  /\ specs \in Seq(Specs)
  /\ \A k \in 1..Len(specs) : IsPage(specs[k].page) /\ specs[k].page + PAGE_SIZE <= USER_MAX

(* The image's header table lies inside it.                                *)
HeadersInside ==
  /\ PHDR_SIZE <= image.phentsize
  /\ image.phoff + image.phentsize * Len(phs) <= image.len

SpecsLoop ==
  /\ IsPage(addr)
  /\ addr # 0 =>
       /\ i <= Len(headers) /\ ~BadRange(headers[i])
       /\ align_down(SegStart(headers[i])) + addr < align_up(SegEnd(headers[i]))
  /\ \A k \in 1..Len(headers) : k < i => ~BadRange(headers[k])
  /\ SpecsSoFar(specs, i, addr)

(* SpecsExact, and what the code makes of a page that segments with        *)
(* different flags share: it is executable only if all of them are.        *)
SpecsMerged ==
  /\ \A k \in 1..Len(specs) : specs[k].page + PAGE_SIZE <= USER_MAX
  /\ pc \in {"copy", "done"} =>
       /\ \A k, l \in 1..Len(specs) : specs[k].page = specs[l].page => k = l
       /\ PagesOf(specs) =
            {align_down(a) : a \in UNION {SegBytes(ph) : ph \in Segments}}
              \cup PagesOf(StackSpecs)
       /\ \A k \in 1..Len(specs) :
            specs[k].w <=>
              \/ specs[k].page \in PagesOf(StackSpecs)
              \/ \E ph \in Segments :
                   ph.w /\ \E a \in SegBytes(ph) : align_down(a) = specs[k].page
       /\ \A k \in 1..Len(specs) :
            specs[k].nx <=>
              \/ specs[k].page \in PagesOf(StackSpecs)
              \/ \E ph \in Segments :
                   ~ph.x /\ \E a \in SegBytes(ph) : align_down(a) = specs[k].page

CopyLoop ==
  /\ SpecsMerged
  /\ \A k \in 1..Len(headers) : ~BadRange(headers[k])
  /\ DOMAIN memory = BytesOf(PagesOf(specs))
  /\ CopyInv(i, copied)
  /\ i <= Len(headers) => copied <= headers[i].filesz
  /\ pc = "done" => i > Len(headers)

LoaderInv ==
  /\ TypeInv
  /\ pc \in {"parse", "headers"} => specs = << >> /\ addr = 0
  /\ pc \in {"parse", "headers", "specs"} => copied = 0
  /\ pc = "headers" => HeadersInside
  /\ pc = "specs" => SpecsLoop
  /\ pc \in {"copy", "done"} => CopyLoop

----------------------------------------------------------------------------
(* Arithmetic of pages.                                                    *)

LEMMA PageSize == PAGE_SIZE \in Nat /\ PAGE_SIZE > 0
  BY LoaderAssumption

LEMMA UserMax == USER_MAX \in Nat
  BY LoaderAssumption

LEMMA Aligned ==
  ASSUME NEW a \in Nat, a % PAGE_SIZE = 0
  PROVE  IsPage(a)
<1>1. a = PAGE_SIZE * (a \div PAGE_SIZE) + (a % PAGE_SIZE) /\ a \div PAGE_SIZE \in Nat
  BY PageSize
<1> QED BY <1>1, PageSize DEF IsPage

LEMMA AlignDown ==
  ASSUME NEW a \in Nat
  PROVE  /\ align_down(a) \in Nat /\ IsPage(align_down(a))
         /\ align_down(a) <= a /\ a < align_down(a) + PAGE_SIZE
<1>1. /\ a = PAGE_SIZE * (a \div PAGE_SIZE) + (a % PAGE_SIZE)
      /\ a \div PAGE_SIZE \in Nat /\ a % PAGE_SIZE \in 0..(PAGE_SIZE - 1)
  BY PageSize
<1>2. align_down(a) = (a \div PAGE_SIZE) * PAGE_SIZE
  BY <1>1, PageSize DEF align_down
<1>3. align_down(a) \in Nat /\ align_down(a) <= a /\ a < align_down(a) + PAGE_SIZE
  BY <1>1, PageSize DEF align_down
<1> QED BY <1>1, <1>2, <1>3 DEF IsPage

(* Of two pages, one starts where the other ends or later.                 *)
LEMMA PageStep ==
  ASSUME NEW p, NEW q, IsPage(p), IsPage(q), p < q
  PROVE  p + PAGE_SIZE <= q
<1>1. PICK k \in Nat : p = k * PAGE_SIZE
  BY DEF IsPage
<1>2. PICK m \in Nat : q = m * PAGE_SIZE
  BY DEF IsPage
<1>3. k < m
  <2>1. ASSUME m <= k PROVE FALSE
    <3>1. k - m \in Nat /\ (k - m) * PAGE_SIZE >= 0
      BY <2>1, PageSize
    <3>2. (k - m) * PAGE_SIZE = k * PAGE_SIZE - m * PAGE_SIZE
      BY PageSize
    <3> QED BY <1>1, <1>2, <3>1, <3>2, PageSize
  <2> QED BY <2>1
<1>4. m - k - 1 \in Nat /\ (m - k - 1) * PAGE_SIZE >= 0
  BY <1>3, PageSize
<1>5. (m - k - 1) * PAGE_SIZE = m * PAGE_SIZE - k * PAGE_SIZE - PAGE_SIZE
  BY PageSize
<1> QED BY <1>1, <1>2, <1>4, <1>5, PageSize

LEMMA PageNat == ASSUME NEW p, IsPage(p) PROVE p \in Nat
  BY PageSize DEF IsPage

LEMMA PageSum ==
  ASSUME NEW p, NEW q, IsPage(p), IsPage(q)
  PROVE  IsPage(p + q)
<1>1. PICK k \in Nat : p = k * PAGE_SIZE
  BY DEF IsPage
<1>2. PICK m \in Nat : q = m * PAGE_SIZE
  BY DEF IsPage
<1>3. (k + m) * PAGE_SIZE = k * PAGE_SIZE + m * PAGE_SIZE /\ k + m \in Nat
  BY PageSize
<1> QED BY <1>1, <1>2, <1>3 DEF IsPage

LEMMA PageUnits == IsPage(0) /\ IsPage(PAGE_SIZE)
<1>1. 0 * PAGE_SIZE = 0 /\ 1 * PAGE_SIZE = PAGE_SIZE
  BY PageSize
<1> QED BY <1>1, Zenon DEF IsPage

LEMMA AlignUnique ==
  ASSUME NEW p, IsPage(p), NEW a \in Nat, p <= a, a < p + PAGE_SIZE
  PROVE  align_down(a) = p
<1>1. p \in Nat /\ align_down(a) \in Nat
  BY PageNat, AlignDown
<1>2. ~(p < align_down(a))
  BY <1>1, AlignDown, PageStep, PageSize
<1>3. ~(align_down(a) < p)
  BY <1>1, AlignDown, PageStep, PageSize
<1> QED BY <1>1, <1>2, <1>3

LEMMA AlignUp ==
  ASSUME NEW a \in Nat
  PROVE  /\ align_up(a) \in Nat /\ IsPage(align_up(a))
         /\ a <= align_up(a) /\ align_up(a) < a + PAGE_SIZE
<1>1. a + PAGE_SIZE - 1 \in Nat
  BY PageSize
<1> QED BY <1>1, AlignDown, PageSize DEF align_up

LEMMA UserHalf ==
  ASSUME NEW p, IsPage(p), p < USER_MAX
  PROVE  p + PAGE_SIZE <= USER_MAX
<1>1. IsPage(USER_MAX)
  BY Aligned, LoaderAssumption
<1> QED BY <1>1, PageStep

----------------------------------------------------------------------------
(* The pages of a segment.                                                 *)

LEMMA HeaderNat ==
  ASSUME NEW ph \in ProgramHeaders, image \in Images
  PROVE  /\ SegStart(ph) \in Nat /\ SegEnd(ph) \in Nat
         /\ SegEnd(ph) = SegStart(ph) + ph.memsz
         /\ ph.filesz \in Nat /\ ph.memsz \in Nat /\ ph.offset \in Nat
         /\ ph.w \in BOOLEAN /\ ph.x \in BOOLEAN
<1>1. ph.vaddr \in Nat /\ ph.memsz \in Nat /\ PIE_BASE \in Nat
  BY LoaderAssumption
<1>2. load_bias \in Nat
  BY <1>1 DEF load_bias
<1>3. SegStart(ph) \in Nat /\ SegEnd(ph) \in Nat /\ SegEnd(ph) = SegStart(ph) + ph.memsz
  BY <1>1, <1>2 DEF SegStart, SegEnd
<1> QED BY <1>3, LoaderAssumption

LEMMA HeadersTyped ==
  ASSUME TypeInv
  PROVE  /\ image \in Images /\ Len(headers) \in Nat
         /\ \A k \in 1..Len(headers) : /\ headers[k] \in ProgramHeaders
                                       /\ headers[k].filesz <= headers[k].memsz
  BY DEF TypeInv

LEMMA TouchedPage ==
  ASSUME NEW ph \in ProgramHeaders, image \in Images, NEW p, Touches(ph, p)
  PROVE  IsPage(p) /\ align_down(SegStart(ph)) <= p /\ p < SegEnd(ph)
<1>1. SegStart(ph) \in Nat /\ SegEnd(ph) \in Nat
  BY HeaderNat
<1>2. PICK a \in SegStart(ph)..(SegEnd(ph) - 1) : align_down(a) = p
  BY DEF Touches, SegBytes
<1>3. a \in Nat /\ SegStart(ph) <= a /\ a < SegEnd(ph)
  BY <1>1, <1>2
<1>4. p \in Nat /\ IsPage(p) /\ p <= a /\ a < p + PAGE_SIZE
  BY <1>2, <1>3, AlignDown
<1>5. /\ align_down(SegStart(ph)) \in Nat /\ IsPage(align_down(SegStart(ph)))
      /\ align_down(SegStart(ph)) <= SegStart(ph)
  BY <1>1, AlignDown
<1>6. ~(p < align_down(SegStart(ph)))
  <2>1. p < align_down(SegStart(ph)) => p + PAGE_SIZE <= align_down(SegStart(ph))
    BY <1>4, <1>5, PageStep
  <2> QED BY <1>1, <1>3, <1>4, <1>5, <2>1, PageSize
<1>7. p < SegEnd(ph)
  BY <1>1, <1>3, <1>4
<1> QED BY <1>4, <1>5, <1>6, <1>7

LEMMA PageTouched ==
  ASSUME NEW ph \in ProgramHeaders, image \in Images, SegStart(ph) < SegEnd(ph),
         NEW p, IsPage(p), align_down(SegStart(ph)) <= p, p < SegEnd(ph)
  PROVE  Touches(ph, p)
<1>1. SegStart(ph) \in Nat /\ SegEnd(ph) \in Nat /\ p \in Nat
  BY HeaderNat, PageNat
<1>2. CASE p <= SegStart(ph)
  <2>1. align_down(SegStart(ph)) \in Nat /\ SegStart(ph) < align_down(SegStart(ph)) + PAGE_SIZE
    BY <1>1, AlignDown
  <2>2. align_down(SegStart(ph)) = p
    BY <1>1, <1>2, <2>1, AlignUnique, PageSize
  <2>3. SegStart(ph) \in SegStart(ph)..(SegEnd(ph) - 1)
    BY <1>1
  <2> QED BY <2>2, <2>3 DEF Touches, SegBytes
<1>3. CASE SegStart(ph) < p
  <2>1. align_down(p) = p
    BY <1>1, AlignUnique, PageSize
  <2>2. p \in SegStart(ph)..(SegEnd(ph) - 1)
    BY <1>1, <1>3
  <2> QED BY <2>1, <2>2 DEF Touches, SegBytes
<1> QED BY <1>1, <1>2, <1>3

LEMMA GoodRange ==
  ASSUME NEW ph \in ProgramHeaders, image \in Images, ~BadRange(ph)
  PROVE  SegStart(ph) < SegEnd(ph) /\ SegEnd(ph) <= USER_MAX
<1>1. SegStart(ph) \in Nat /\ SegEnd(ph) \in Nat /\ USER_MAX \in Nat
  BY HeaderNat, LoaderAssumption
<1> QED BY <1>1 DEF BadRange

(* A round of the loop deals with one more page of the segment it is at.   *)
LEMMA OnePage ==
  ASSUME TypeInv, i \in 1..Len(headers), ~BadRange(headers[i]), IsPage(addr),
         addr # 0 => align_down(SegStart(headers[i])) + addr < align_up(SegEnd(headers[i])),
         NEW page, page = align_down(SegStart(headers[i])) + addr
  PROVE  /\ IsPage(page) /\ Touches(headers[i], page) /\ page + PAGE_SIZE <= USER_MAX
         /\ \A p : Touches(headers[i], p) =>
              (p < page + PAGE_SIZE <=> p < page \/ p = page)
         /\ page + PAGE_SIZE < align_up(SegEnd(headers[i])) \/
              \A p : Touches(headers[i], p) => p < page + PAGE_SIZE
<1> DEFINE ph == headers[i]
           first == align_down(SegStart(ph))
           end == SegEnd(ph)
<1>1. ph \in ProgramHeaders /\ image \in Images
  BY DEF TypeInv
<1>2. SegStart(ph) < end /\ end <= USER_MAX /\ SegStart(ph) \in Nat /\ end \in Nat
  BY <1>1, GoodRange, HeaderNat
<1>3. first \in Nat /\ IsPage(first) /\ first <= SegStart(ph)
  BY <1>2, AlignDown
<1>4. align_up(end) \in Nat /\ IsPage(align_up(end)) /\ end <= align_up(end)
      /\ align_up(end) < end + PAGE_SIZE
  BY <1>2, AlignUp
<1>5. \A p : Touches(ph, p) => IsPage(p) /\ p \in Nat /\ first <= p /\ p < end
  BY <1>1, TouchedPage, PageNat
<1>6. \A p : IsPage(p) /\ first <= p /\ p < end => Touches(ph, p)
  BY <1>1, <1>2, PageTouched
<1> HIDE DEF ph, first, end
<1>7. page = first + addr /\ addr \in Nat /\ (addr # 0 => page < align_up(end))
  BY DEF TypeInv, ph, first, end
<1>8. IsPage(page) /\ page \in Nat
  BY <1>3, <1>7, PageSum, PageNat, Zenon
<1>9. page < align_up(end)
  BY <1>2, <1>3, <1>4, <1>7
<1>10. page + PAGE_SIZE <= align_up(end)
  BY <1>4, <1>8, <1>9, PageStep
<1>11. page < end /\ first <= page
  BY <1>2, <1>3, <1>4, <1>7, <1>8, <1>10, PageSize
<1>12. Touches(ph, page)
  BY <1>6, <1>8, <1>11
<1>13. page + PAGE_SIZE <= USER_MAX
  <2>1. page < USER_MAX
    BY <1>2, <1>8, <1>11, UserMax
  <2> QED BY <1>8, <2>1, UserHalf
<1>14. ASSUME NEW p, Touches(ph, p)
       PROVE  p < page + PAGE_SIZE <=> p < page \/ p = page
  <2>1. p \in Nat /\ IsPage(p)
    BY <1>5, <1>14
  <2>2. page < p => page + PAGE_SIZE <= p
    BY <1>8, <2>1, PageStep
  <2> QED BY <1>8, <2>1, <2>2, PageSize
<1>15. ASSUME ~(page + PAGE_SIZE < align_up(end)), NEW p, Touches(ph, p)
       PROVE  p < page + PAGE_SIZE
  <2>1. p \in Nat /\ p < end
    BY <1>5, <1>15
  <2> QED BY <1>2, <1>4, <1>8, <1>10, <1>15, <2>1, PageSize
<1> QED BY <1>8, <1>12, <1>13, <1>14, <1>15 DEF ph, end

(* What has been dealt with after the round.                               *)
LEMMA DealtStep ==
  ASSUME TypeInv, i \in 1..Len(headers), ~BadRange(headers[i]), IsPage(addr),
         addr # 0 => align_down(SegStart(headers[i])) + addr < align_up(SegEnd(headers[i])),
         NEW page, page = align_down(SegStart(headers[i])) + addr,
         NEW n, NEW l,
         IF page + PAGE_SIZE < align_up(SegEnd(headers[i]))
           THEN n = i /\ l = addr + PAGE_SIZE ELSE n = i + 1 /\ l = 0,
         NEW k \in 1..Len(headers), NEW p
  PROVE  Dealt(k, p, n, l) <=> Dealt(k, p, i, addr) \/ (k = i /\ p = page)
<1> DEFINE ph == headers[i]
           first == align_down(SegStart(ph))
<1>1. ph \in ProgramHeaders /\ image \in Images /\ headers[k] \in ProgramHeaders
      /\ i \in Nat /\ addr \in Nat /\ Len(headers) \in Nat /\ k \in Nat
  BY DEF TypeInv
<1>2. /\ Touches(ph, page)
      /\ \A q : Touches(ph, q) => (q < page + PAGE_SIZE <=> q < page \/ q = page)
      /\ page + PAGE_SIZE < align_up(SegEnd(ph)) \/
           \A q : Touches(ph, q) => q < page + PAGE_SIZE
  BY OnePage
<1>3. first \in Nat /\ page = first + addr
  BY <1>1, HeaderNat, AlignDown
<1>4. Dealt(k, p, i, addr) <=> Touches(headers[k], p) /\ (k < i \/ (k = i /\ p < page))
  BY <1>3 DEF Dealt
<1> HIDE DEF ph, first
<1>5. CASE page + PAGE_SIZE < align_up(SegEnd(ph))
  <2>1. n = i /\ l = addr + PAGE_SIZE
    BY <1>5 DEF ph
  <2>2. first + l = page + PAGE_SIZE
    BY <1>1, <1>3, <2>1, PageSize
  <2>3. Dealt(k, p, n, l) <=>
          Touches(headers[k], p) /\ (k < i \/ (k = i /\ p < page + PAGE_SIZE))
    BY <2>1, <2>2 DEF Dealt, first, ph
  <2>4. CASE k = i
    BY <1>1, <1>2, <1>4, <2>3, <2>4 DEF ph
  <2>5. CASE k # i
    BY <1>4, <2>3, <2>5
  <2> QED BY <2>4, <2>5
<1>6. CASE ~(page + PAGE_SIZE < align_up(SegEnd(ph)))
  <2>1. n = i + 1 /\ l = 0
    BY <1>6 DEF ph
  <2>2. CASE k = i
    <3>1. k < n
      BY <1>1, <2>1, <2>2
    <3>2. Dealt(k, p, n, l) <=> Touches(ph, p)
      BY <2>2, <3>1 DEF Dealt, ph
    <3>3. Touches(ph, p) => p < page \/ p = page
      BY <1>2, <1>6
    <3> QED BY <1>1, <1>2, <1>4, <2>2, <3>2, <3>3 DEF ph
  <2>3. CASE k # i
    <3>1. k = n => ~(Touches(headers[k], p) /\ p < align_down(SegStart(headers[n])) + l)
      <4>1. SegStart(headers[k]) \in Nat /\ align_down(SegStart(headers[k])) \in Nat
        BY <1>1, HeaderNat, AlignDown, Zenon
      <4>2. Touches(headers[k], p) => align_down(SegStart(headers[k])) <= p /\ p \in Nat
        BY <1>1, TouchedPage, PageNat
      <4> QED BY <2>1, <4>1, <4>2
    <3>2. k < n <=> k < i
      BY <1>1, <2>1, <2>3
    <3> QED BY <1>4, <2>3, <3>1, <3>2 DEF Dealt
  <2> QED BY <2>2, <2>3
<1> QED BY <1>5, <1>6

(* AddSpec adds the page, or merges the segment's flags into its spec.     *)
LEMMA AddSpecFacts ==
  ASSUME specs \in Seq(Specs), NEW page \in Nat, NEW ph, ph.w \in BOOLEAN, ph.x \in BOOLEAN,
         \A j, m \in 1..Len(specs) : specs[j].page = specs[m].page => j = m
  PROVE  LET new == AddSpec(page, ph)
         IN  /\ new \in Seq(Specs) /\ PagesOf(new) = PagesOf(specs) \cup {page}
             /\ \A j, m \in 1..Len(new) : new[j].page = new[m].page => j = m
             /\ \A j \in 1..Len(new) :
                  \/ /\ new[j].page = page
                     /\ page \notin PagesOf(specs)
                     /\ new[j].w = ph.w /\ new[j].nx = ~ph.x
                  \/ /\ j \in 1..Len(specs) /\ new[j].page = specs[j].page
                     /\ new[j].page = page => /\ new[j].w = (specs[j].w \/ ph.w)
                                              /\ new[j].nx = (specs[j].nx \/ ~ph.x)
                     /\ new[j].page # page => new[j] = specs[j]
<1> DEFINE new == AddSpec(page, ph)
<1>1. CASE \E k \in 1..Len(specs) : specs[k].page = page
  <2>1. new = [k \in 1..Len(specs) |->
                 IF specs[k].page = page THEN Merge(specs[k], ph) ELSE specs[k]]
    BY <1>1 DEF AddSpec
  <2>2. ASSUME NEW sp \in Specs
        PROVE  /\ Merge(sp, ph) \in Specs /\ Merge(sp, ph).page = sp.page
               /\ Merge(sp, ph).w = (sp.w \/ ph.w) /\ Merge(sp, ph).nx = (sp.nx \/ ~ph.x)
    BY Zenon DEF Merge, Specs
  <2>3. \A k \in 1..Len(specs) : specs[k] \in Specs
    OBVIOUS
  <2> HIDE DEF new
  <2>4. \A k \in 1..Len(specs) :
          new[k] \in Specs /\ new[k].page = specs[k].page
          /\ (specs[k].page = page => /\ new[k].w = (specs[k].w \/ ph.w)
                                      /\ new[k].nx = (specs[k].nx \/ ~ph.x))
          /\ (specs[k].page # page => new[k] = specs[k])
    BY <2>1, <2>2, <2>3
  <2>5. new \in [1..Len(specs) -> Specs]
    BY <2>1, <2>4
  <2>6. new \in Seq(Specs) /\ Len(new) = Len(specs)
    BY <2>5
  <2>7. PagesOf(new) = PagesOf(specs) /\ page \in PagesOf(specs)
    BY <1>1, <2>4, <2>6 DEF PagesOf
  <2> QED BY <2>4, <2>6, <2>7 DEF new
<1>2. CASE ~\E k \in 1..Len(specs) : specs[k].page = page
  <2> DEFINE sp == [page |-> page, w |-> ph.w, nx |-> ~ph.x]
  <2>1. new = Append(specs, sp)
    BY <1>2 DEF AddSpec
  <2>2. sp \in Specs /\ sp.page = page /\ sp.w = ph.w /\ sp.nx = ~ph.x
    BY DEF Specs
  <2> HIDE DEF sp, new
  <2>3. new \in Seq(Specs) /\ Len(new) = Len(specs) + 1 /\ Len(specs) \in Nat
    BY <2>1, <2>2
  <2>4. \A j \in 1..(Len(specs) + 1) :
          IF j = Len(specs) + 1 THEN new[j] = sp ELSE j \in 1..Len(specs) /\ new[j] = specs[j]
    BY <2>1, <2>2
  <2>5. page \notin PagesOf(specs)
    BY <1>2 DEF PagesOf
  <2>6. PagesOf(new) = PagesOf(specs) \cup {page}
    BY <2>2, <2>3, <2>4 DEF PagesOf
  <2>7. \A j, m \in 1..Len(new) : new[j].page = new[m].page => j = m
    BY <1>2, <2>2, <2>3, <2>4
  <2>8. \A j \in 1..Len(new) :
          \/ /\ new[j].page = page /\ page \notin PagesOf(specs)
             /\ new[j].w = ph.w /\ new[j].nx = ~ph.x
          \/ j \in 1..Len(specs) /\ new[j] = specs[j] /\ new[j].page # page
    BY <1>2, <2>2, <2>3, <2>4, <2>5
  <2> QED BY <2>3, <2>6, <2>7, <2>8 DEF new
<1> QED BY <1>1, <1>2

LEMMA SpecsSoFarStep ==
  ASSUME TypeInv, SpecsSoFar(specs, i, addr), i \in 1..Len(headers),
         ~BadRange(headers[i]), IsPage(addr),
         addr # 0 => align_down(SegStart(headers[i])) + addr < align_up(SegEnd(headers[i])),
         NEW page, page = align_down(SegStart(headers[i])) + addr,
         NEW n, NEW l,
         IF page + PAGE_SIZE < align_up(SegEnd(headers[i]))
           THEN n = i /\ l = addr + PAGE_SIZE ELSE n = i + 1 /\ l = 0,
         NEW new, new = AddSpec(page, headers[i])
  PROVE  /\ SpecsSoFar(new, n, l) /\ new \in Seq(Specs)
         /\ \A k \in 1..Len(new) : IsPage(new[k].page) /\ new[k].page + PAGE_SIZE <= USER_MAX
<1>1. \A k \in 1..Len(headers) : \A p :
        Dealt(k, p, n, l) <=> Dealt(k, p, i, addr) \/ (k = i /\ p = page)
  BY DealtStep
<1>2. IsPage(page) /\ page + PAGE_SIZE <= USER_MAX
  BY OnePage
<1>3. page \in Nat /\ page \in 0..USER_MAX
  BY <1>2, PageNat, PageSize, UserMax
<1>4. headers[i].w \in BOOLEAN /\ headers[i].x \in BOOLEAN
  BY HeaderNat DEF TypeInv
<1>5. /\ specs \in Seq(Specs) /\ i \in 1..Len(headers)
      /\ \A k \in 1..Len(specs) : /\ IsPage(specs[k].page)
                                  /\ specs[k].page + PAGE_SIZE <= USER_MAX
                                  /\ specs[k].w \in BOOLEAN /\ specs[k].nx \in BOOLEAN
  <2>1. /\ specs \in Seq(Specs)
        /\ \A k \in 1..Len(specs) : /\ IsPage(specs[k].page)
                                    /\ specs[k].page + PAGE_SIZE <= USER_MAX
    BY DEF TypeInv
  <2>2. \A sp \in Specs : sp.w \in BOOLEAN /\ sp.nx \in BOOLEAN
    BY DEF Specs
  <2>3. \A k \in 1..Len(specs) : specs[k] \in Specs
    BY <2>1
  <2> QED BY <2>1, <2>2, <2>3
<1>6. /\ new \in Seq(Specs) /\ PagesOf(new) = PagesOf(specs) \cup {page}
      /\ \A j, m \in 1..Len(new) : new[j].page = new[m].page => j = m
      /\ \A j \in 1..Len(new) :
           \/ /\ new[j].page = page /\ page \notin PagesOf(specs)
              /\ new[j].w = headers[i].w /\ new[j].nx = ~headers[i].x
           \/ /\ j \in 1..Len(specs) /\ new[j].page = specs[j].page
              /\ new[j].page = page => /\ new[j].w = (specs[j].w \/ headers[i].w)
                                       /\ new[j].nx = (specs[j].nx \/ ~headers[i].x)
              /\ new[j].page # page => new[j] = specs[j]
  <2>1. \A j, m \in 1..Len(specs) : specs[j].page = specs[m].page => j = m
    BY DEF SpecsSoFar
  <2>2. specs \in Seq(Specs)
    BY <1>5
  <2> QED BY ONLY <1>3, <1>4, <2>1, <2>2, new = AddSpec(page, headers[i]), AddSpecFacts
<1>7. \A p \in 0..USER_MAX :
        p \in PagesOf(new) <=> \E k \in 1..Len(headers) : Dealt(k, p, n, l)
  BY <1>1, <1>5, <1>6 DEF SpecsSoFar
<1>8. ASSUME NEW j \in 1..Len(new)
      PROVE  /\ IsPage(new[j].page) /\ new[j].page + PAGE_SIZE <= USER_MAX
             /\ new[j].w <=> \E k \in 1..Len(headers) :
                               headers[k].w /\ Dealt(k, new[j].page, n, l)
             /\ new[j].nx <=> \E k \in 1..Len(headers) :
                                ~headers[k].x /\ Dealt(k, new[j].page, n, l)
  <2>1. CASE /\ new[j].page = page /\ page \notin PagesOf(specs)
             /\ new[j].w = headers[i].w /\ new[j].nx = ~headers[i].x
    <3>1. \A k \in 1..Len(headers) : ~Dealt(k, page, i, addr)
      BY <1>3, <2>1 DEF SpecsSoFar
    <3>2. \A k \in 1..Len(headers) : Dealt(k, page, n, l) <=> k = i
      BY <1>1, <3>1
    <3> QED BY <1>2, <1>5, <2>1, <3>2, Zenon
  <2>2. CASE /\ j \in 1..Len(specs) /\ new[j].page = specs[j].page
             /\ new[j].page = page => /\ new[j].w = (specs[j].w \/ headers[i].w)
                                      /\ new[j].nx = (specs[j].nx \/ ~headers[i].x)
             /\ new[j].page # page => new[j] = specs[j]
    <3>1. /\ specs[j].w <=> \E k \in 1..Len(headers) :
                              headers[k].w /\ Dealt(k, specs[j].page, i, addr)
          /\ specs[j].nx <=> \E k \in 1..Len(headers) :
                               ~headers[k].x /\ Dealt(k, specs[j].page, i, addr)
      BY <2>2 DEF SpecsSoFar
    <3>2. CASE new[j].page = page
      BY <1>1, <1>5, <2>2, <3>1, <3>2, Zenon
    <3>3. CASE new[j].page # page
      BY <1>1, <1>5, <2>2, <3>1, <3>3
    <3> QED BY <3>2, <3>3
  <2> QED BY <1>6, <2>1, <2>2, Zenon
<1> QED BY <1>6, <1>7, <1>8 DEF SpecsSoFar

LEMMA SegmentPageInv == ASSUME LoaderInv, SegmentPage PROVE LoaderInv'
<1> DEFINE ph == headers[i]
           page == align_down(SegStart(ph)) + addr
<1>1. /\ pc = "specs" /\ i <= Len(headers) /\ ~BadRange(ph)
      /\ specs' = AddSpec(page, ph)
      /\ IF page + PAGE_SIZE < align_up(SegEnd(ph))
           THEN addr' = addr + PAGE_SIZE /\ i' = i ELSE addr' = 0 /\ i' = i + 1
      /\ UNCHANGED <<phs, image, pc, headers, memory, copied>>
  BY DEF SegmentPage
<1>2. TypeInv /\ SpecsLoop /\ copied = 0 /\ i \in 1..Len(headers) /\ i \in Nat /\ addr \in Nat
  BY <1>1 DEF LoaderInv, TypeInv
<1>3. /\ IsPage(addr) /\ SpecsSoFar(specs, i, addr)
      /\ addr # 0 => align_down(SegStart(ph)) + addr < align_up(SegEnd(ph))
  BY <1>2 DEF SpecsLoop
<1> HIDE DEF page
<1>4. page = align_down(SegStart(headers[i])) + addr
  BY DEF page
<1>5. /\ SpecsSoFar(specs', i', addr') /\ specs' \in Seq(Specs)
      /\ \A k \in 1..Len(specs') : /\ IsPage(specs'[k].page)
                                   /\ specs'[k].page + PAGE_SIZE <= USER_MAX
  BY <1>1, <1>2, <1>3, <1>4, SpecsSoFarStep
<1>6. SpecsSoFar(specs, i, addr)'
  BY <1>1, <1>5 DEF SpecsSoFar, Dealt, Touches, SegBytes, SegStart, SegEnd, load_bias
<1>7. TypeInv'
  <2>1. i' \in Nat \ {0} /\ addr' \in Nat
    BY <1>1, <1>2, PageSize
  <2> QED BY <1>1, <1>2, <1>5, <2>1 DEF TypeInv
<1>8. SpecsLoop'
  <2>1. IsPage(addr')
    BY <1>1, <1>3, PageSum, PageUnits
  <2>2. addr' # 0 =>
          /\ i' <= Len(headers) /\ ~BadRange(headers[i'])
          /\ align_down(SegStart(headers[i'])) + addr' < align_up(SegEnd(headers[i']))
    <3>1. ASSUME page + PAGE_SIZE < align_up(SegEnd(ph)), i' = i, addr' = addr + PAGE_SIZE
          PROVE  align_down(SegStart(ph)) + addr' < align_up(SegEnd(ph))
      <4>1. align_down(SegStart(ph)) \in Nat
        BY ONLY <1>2, HeadersTyped, HeaderNat, AlignDown
      <4>2. align_down(SegStart(ph)) + (addr + PAGE_SIZE) = page + PAGE_SIZE
        BY <1>2, <1>4, <4>1, PageSize
      <4> QED BY <3>1, <4>2
    <3>2. CASE page + PAGE_SIZE < align_up(SegEnd(ph))
      <4>1. i' = i /\ addr' = addr + PAGE_SIZE
        BY <1>1, <3>2
      <4>2. align_down(SegStart(ph)) + addr' < align_up(SegEnd(ph))
        BY <3>1, <3>2, <4>1
      <4> QED BY <1>1, <4>1, <4>2
    <3>3. CASE ~(page + PAGE_SIZE < align_up(SegEnd(ph)))
      BY <1>1, <3>3
    <3> QED BY <3>2, <3>3
  <2>3. \A k \in 1..Len(headers) : k < i' => ~BadRange(headers[k])
    <3>1. \A k \in 1..Len(headers) : k < i' => k < i \/ k = i
      BY <1>1, <1>2
    <3> QED BY <1>1, <1>2, <3>1 DEF SpecsLoop
  <2> QED BY <1>1, <1>6, <2>1, <2>2, <2>3 DEF SpecsLoop, BadRange, SegStart, SegEnd, load_bias
<1> QED BY <1>1, <1>2, <1>7, <1>8 DEF LoaderInv

----------------------------------------------------------------------------
(* Up to the loops: parse and load_headers.                                *)

LEMMA SeqHeaders ==
  ASSUME NEW n \in Nat, NEW t \in [1..n -> ProgramHeaders]
  PROVE  t \in Seq(ProgramHeaders)
  OBVIOUS

LEMMA InitInv == ASSUME LoaderInit PROVE LoaderInv
<1>1. PICK n \in 0..MaxHeaders : phs \in [1..n -> ProgramHeaders]
  BY DEF LoaderInit
<1>2. n \in Nat
  BY <1>1, LoaderAssumption
<1>3. phs \in Seq(ProgramHeaders)
  BY <1>1, <1>2, SeqHeaders
<1>4. /\ image \in Images /\ pc = "parse" /\ i = 1 /\ headers = <<>> /\ addr = 0
      /\ specs = <<>> /\ copied = 0
  BY DEF LoaderInit
<1>5. TypeInv
  BY <1>3, <1>4 DEF TypeInv
<1> QED BY <1>4, <1>5 DEF LoaderInv

(* An error leaves everything but pc as it is.                             *)
LEMMA FailInv ==
  ASSUME LoaderInv, NEW e, e \in Errors \ {"Mapping", "BadProgramHeader"}, Fail(e)
  PROVE  LoaderInv'
<1>1. pc' = e /\ UNCHANGED <<phs, image, i, headers, addr, specs, memory, copied>>
  BY DEF Fail
<1>2. pc' \notin {"parse", "headers", "specs", "copy", "done"}
  BY <1>1 DEF Errors
<1>3. TypeInv'
  BY <1>1 DEF LoaderInv, TypeInv
<1> QED BY <1>2, <1>3 DEF LoaderInv

LEMMA RejectImageInv == ASSUME LoaderInv, RejectImage PROVE LoaderInv'
<1>1. ParseError # "none" /\ Fail(ParseError) /\ image \in Images
  BY DEF RejectImage, LoaderInv, TypeInv
<1>2. image.ident \in {"ok", "BadMagic", "Not64Bit", "NotLittleEndian",
                       "BadHeader", "WrongMachine"}
  BY <1>1, LoaderAssumption
<1>3. ParseError \in Errors \ {"Mapping", "BadProgramHeader"}
  BY <1>1, <1>2 DEF ParseError, Errors
<1> QED BY <1>1, <1>3, FailInv

LEMMA ParseInv == ASSUME LoaderInv, Parse PROVE LoaderInv'
<1>1. /\ pc = "parse" /\ ParseError = "none" /\ pc' = "headers" /\ TypeInv
      /\ UNCHANGED <<phs, image, i, headers, addr, specs, memory, copied>>
      /\ specs = << >> /\ addr = 0 /\ copied = 0
  BY DEF Parse, LoaderInv
<1>2. /\ image.phentsize \in Nat /\ image.phoff \in Nat /\ image.len \in Nat
      /\ PHDR_SIZE \in Nat /\ Len(phs) \in Nat
      /\ image.ident \in {"ok", "BadMagic", "Not64Bit", "NotLittleEndian",
                          "BadHeader", "WrongMachine"}
  BY <1>1, LoaderAssumption DEF TypeInv
<1>3. /\ ~(image.phentsize < PHDR_SIZE)
      /\ ~(image.phoff + image.phentsize * Len(phs) > image.len)
  BY <1>1, <1>2 DEF ParseError
<1>4. image.phentsize * Len(phs) \in Nat
  BY <1>2
<1>5. HeadersInside
  BY <1>2, <1>3, <1>4 DEF HeadersInside
<1>6. TypeInv' /\ HeadersInside'
  BY <1>1, <1>5 DEF TypeInv, HeadersInside
<1> QED BY <1>1, <1>6 DEF LoaderInv

(* The entries of a table that lies inside the image do too.               *)
LEMMA LastEntry ==
  ASSUME NEW n \in Nat, NEW j \in 1..n, NEW size \in Nat, NEW h \in Nat, h <= size
  PROVE  (j - 1) * size + h <= size * n /\ (j - 1) * size \in Nat /\ size * n \in Nat
<1>1. (n - j) * size >= 0 /\ (j - 1) * size \in Nat /\ size * n \in Nat
  OBVIOUS
<1>2. (n - j) * size = size * n - (j - 1) * size - size
  OBVIOUS
<1> QED BY <1>1, <1>2

LEMMA RejectHeaderInv == ASSUME LoaderInv, RejectHeader PROVE LoaderInv'
<1>1. /\ pc = "headers" /\ i <= Len(phs) /\ HeaderError(phs[i]) # "none"
      /\ Fail(HeaderError(phs[i])) /\ TypeInv /\ HeadersInside
  BY DEF RejectHeader, LoaderInv
<1>2. /\ image.phentsize \in Nat /\ image.phoff \in Nat /\ image.len \in Nat
      /\ PHDR_SIZE \in Nat /\ Len(phs) \in Nat /\ i \in Nat \ {0}
  BY <1>1, LoaderAssumption DEF TypeInv
<1>3. /\ (i - 1) * image.phentsize + PHDR_SIZE <= image.phentsize * Len(phs)
      /\ (i - 1) * image.phentsize \in Nat /\ image.phentsize * Len(phs) \in Nat
  <2>1. PHDR_SIZE <= image.phentsize /\ i \in 1..Len(phs)
    BY <1>1, <1>2 DEF HeadersInside
  <2> QED BY ONLY <1>2, <2>1, LastEntry, Zenon
<1>4. ~(HeaderAt(i - 1) + PHDR_SIZE > image.len)
  <2>1. image.phoff + image.phentsize * Len(phs) <= image.len
    BY <1>1 DEF HeadersInside
  <2>2. \A x, y \in Nat : x + PHDR_SIZE <= y /\ image.phoff + y <= image.len =>
                            ~(image.phoff + x + PHDR_SIZE > image.len)
    BY ONLY <1>2
  <2>3. ~(image.phoff + (i - 1) * image.phentsize + PHDR_SIZE > image.len)
    BY ONLY <1>3, <2>1, <2>2, Zenon
  <2> QED BY <2>3 DEF HeaderAt
<1>5. HeaderError(phs[i]) \in Errors \ {"Mapping", "BadProgramHeader"}
  BY <1>1, <1>4 DEF HeaderError, Errors
<1> QED BY <1>1, <1>5, FailInv

LEMMA LoadHeaderInv == ASSUME LoaderInv, LoadHeader PROVE LoaderInv'
<1>1. /\ pc = "headers" /\ i <= Len(phs) /\ HeaderError(phs[i]) = "none"
      /\ headers' = IF phs[i].typ = "LOAD" /\ phs[i].memsz # 0
                      THEN Append(headers, phs[i]) ELSE headers
      /\ i' = i + 1 /\ UNCHANGED <<phs, image, pc, addr, specs, memory, copied>>
      /\ TypeInv /\ HeadersInside /\ specs = << >> /\ addr = 0 /\ copied = 0
  BY DEF LoadHeader, LoaderInv
<1>2. /\ headers \in Seq(ProgramHeaders) /\ i \in Nat \ {0} /\ phs[i] \in ProgramHeaders
      /\ \A k \in 1..Len(headers) : headers[k].filesz <= headers[k].memsz
  BY <1>1 DEF TypeInv
<1>3. /\ headers' \in Seq(ProgramHeaders)
      /\ \A k \in 1..Len(headers') : headers'[k].filesz <= headers'[k].memsz
  <2>1. CASE phs[i].typ = "LOAD" /\ phs[i].memsz # 0
    <3>1. phs[i].filesz \in Nat /\ phs[i].memsz \in Nat
      BY <1>2, LoaderAssumption
    <3>2. ~(phs[i].filesz > phs[i].memsz)
      BY <1>1, <2>1 DEF HeaderError
    <3>3. phs[i].filesz <= phs[i].memsz
      BY <3>1, <3>2
    <3>4. headers' = Append(headers, phs[i])
      BY <1>1, <2>1
    <3>5. /\ headers' \in Seq(ProgramHeaders) /\ Len(headers') = Len(headers) + 1
          /\ \A k \in 1..(Len(headers) + 1) :
               (k \in 1..Len(headers) /\ headers'[k] = headers[k]) \/ headers'[k] = phs[i]
      BY <1>2, <3>4
    <3> QED BY <1>2, <3>3, <3>5
  <2>2. CASE ~(phs[i].typ = "LOAD" /\ phs[i].memsz # 0)
    BY <1>1, <1>2, <2>2
  <2> QED BY <2>1, <2>2
<1>4. TypeInv'
  BY <1>1, <1>2, <1>3 DEF TypeInv
<1>5. HeadersInside'
  BY <1>1 DEF HeadersInside
<1> QED BY <1>1, <1>4, <1>5 DEF LoaderInv

LEMMA NothingDealt ==
  ASSUME TypeInv, NEW k \in 1..Len(headers), NEW p
  PROVE  ~Dealt(k, p, 1, 0)
<1>1. /\ headers[k] \in ProgramHeaders /\ image \in Images /\ k \in Nat /\ ~(k < 1)
  BY HeadersTyped
<1>2. SegStart(headers[k]) \in Nat /\ align_down(SegStart(headers[k])) \in Nat
  BY <1>1, HeaderNat, AlignDown, Zenon
<1>3. Touches(headers[k], p) => align_down(SegStart(headers[k])) <= p /\ p \in Nat
  BY <1>1, TouchedPage, PageNat
<1>4. k = 1 => ~(Touches(headers[k], p) /\ p < align_down(SegStart(headers[1])) + 0)
  BY <1>2, <1>3
<1> QED BY <1>1, <1>4 DEF Dealt

LEMMA HeadersDoneInv == ASSUME LoaderInv, HeadersDone PROVE LoaderInv'
<1>1. /\ pc = "headers" /\ pc' = (IF headers = <<>> THEN "InvalidSegment" ELSE "specs")
      /\ i' = 1 /\ UNCHANGED <<phs, image, headers, addr, specs, memory, copied>>
      /\ TypeInv /\ specs = << >> /\ addr = 0 /\ copied = 0
  BY DEF HeadersDone, LoaderInv
<1>2. TypeInv'
  BY <1>1 DEF TypeInv, Errors
<1>3. CASE pc' = "InvalidSegment"
  BY <1>1, <1>2, <1>3 DEF LoaderInv
<1>4. CASE pc' = "specs"
  <2>1. SpecsSoFar(specs, 1, 0)
    <3>1. PagesOf(specs) = {} /\ Len(specs) = 0
      BY <1>1 DEF PagesOf
    <3> QED BY <1>1, <3>1, NothingDealt DEF SpecsSoFar
  <2>2. SpecsSoFar(specs, i, addr)'
    BY <1>1, <2>1 DEF SpecsSoFar, Dealt, Touches, SegBytes, SegStart, SegEnd, load_bias
  <2>3. \A k \in 1..Len(headers') : ~(k < i')
    BY <1>1
  <2>4. SpecsLoop'
    BY <1>1, <2>2, <2>3, PageUnits DEF SpecsLoop
  <2> QED BY <1>1, <1>2, <1>4, <2>4 DEF LoaderInv
<1> QED BY <1>1, <1>3, <1>4

LEMMA RejectSegmentInv == ASSUME LoaderInv, RejectSegment PROVE LoaderInv'
<1>1. Fail("InvalidAddress") /\ "InvalidAddress" \in Errors \ {"Mapping", "BadProgramHeader"}
  BY DEF RejectSegment, Errors
<1> QED BY <1>1, FailInv

LEMMA StackTakenInv == ASSUME LoaderInv, StackTaken PROVE LoaderInv'
<1>1. Fail("InvalidAddress") /\ "InvalidAddress" \in Errors \ {"Mapping", "BadProgramHeader"}
  BY DEF StackTaken, Errors
<1> QED BY <1>1, FailInv

----------------------------------------------------------------------------
(* The stack, and the mapping of the collected pages.                      *)

LEMMA PageMultiples ==
  ASSUME NEW m \in Nat, NEW k \in Nat
  PROVE  /\ m * PAGE_SIZE \in Nat /\ k * PAGE_SIZE \in Nat
         /\ m <= k => m * PAGE_SIZE <= k * PAGE_SIZE
         /\ m * PAGE_SIZE <= k * PAGE_SIZE => m <= k
<1>1. m * PAGE_SIZE \in Nat /\ k * PAGE_SIZE \in Nat
  BY PageSize
<1>2. ASSUME m <= k PROVE m * PAGE_SIZE <= k * PAGE_SIZE
  <2>1. (k - m) * PAGE_SIZE >= 0
    BY <1>2, PageSize
  <2>2. (k - m) * PAGE_SIZE = k * PAGE_SIZE - m * PAGE_SIZE
    BY PageSize
  <2> QED BY <1>1, <2>1, <2>2
<1>3. ASSUME ~(m <= k) PROVE ~(m * PAGE_SIZE <= k * PAGE_SIZE)
  <2>1. (m - k - 1) * PAGE_SIZE >= 0
    BY <1>3, PageSize
  <2>2. (m - k - 1) * PAGE_SIZE = m * PAGE_SIZE - k * PAGE_SIZE - PAGE_SIZE
    BY PageSize
  <2> QED BY <1>1, <2>1, <2>2, PageSize
<1> QED BY <1>1, <1>2, <1>3

LEMMA StackPageAt ==
  ASSUME NEW k \in 1..USER_STACK_PAGES
  PROVE  /\ IsPage(StackPage(k)) /\ StackPage(k) \in Nat
         /\ StackPage(k) + PAGE_SIZE <= USER_MAX
<1> DEFINE m == USER_STACK_PAGES - (k - 1)
<1>1. /\ USER_STACK_PAGES \in Nat /\ USER_STACK_TOP \in Nat /\ USER_MAX \in Nat
      /\ USER_STACK_TOP <= USER_MAX
      /\ USER_STACK_PAGES * PAGE_SIZE <= USER_STACK_TOP
  BY LoaderAssumption
<1>2. PICK t \in Nat : USER_STACK_TOP = t * PAGE_SIZE
  BY <1>1, LoaderAssumption, Aligned DEF IsPage
<1>3. m \in Nat /\ 1 <= m /\ m <= USER_STACK_PAGES
  BY <1>1
<1>4. USER_STACK_PAGES <= t
  BY <1>1, <1>2, PageMultiples
<1>5. t - m \in Nat
  BY <1>1, <1>3, <1>4
<1>6. StackPage(k) = USER_STACK_TOP - m * PAGE_SIZE
  BY DEF StackPage
<1> HIDE DEF m
<1>7. (t - m) * PAGE_SIZE = t * PAGE_SIZE - m * PAGE_SIZE
  BY <1>3, PageSize
<1>8. IsPage(StackPage(k)) /\ StackPage(k) \in Nat
  <2>1. StackPage(k) = (t - m) * PAGE_SIZE
    BY <1>2, <1>6, <1>7
  <2>2. IsPage(StackPage(k))
    BY <1>5, <2>1 DEF IsPage
  <2> QED BY <2>2, PageNat
<1>9. 1 * PAGE_SIZE <= m * PAGE_SIZE /\ m * PAGE_SIZE \in Nat
  BY <1>3, PageMultiples
<1>10. PAGE_SIZE <= m * PAGE_SIZE
  BY <1>9, PageSize
<1>11. \A x \in Nat : PAGE_SIZE <= x => USER_STACK_TOP - x + PAGE_SIZE <= USER_MAX
  BY <1>1, PageSize
<1> QED BY <1>6, <1>8, <1>9, <1>10, <1>11

LEMMA StackPagesDiffer ==
  ASSUME NEW k \in 1..USER_STACK_PAGES, NEW l \in 1..USER_STACK_PAGES,
         StackPage(k) = StackPage(l)
  PROVE  k = l
<1> DEFINE m == USER_STACK_PAGES - (k - 1)
           n == USER_STACK_PAGES - (l - 1)
<1>1. USER_STACK_PAGES \in Nat /\ USER_STACK_TOP \in Nat
  BY LoaderAssumption
<1>2. m \in Nat /\ n \in Nat /\ (m = n => k = l)
  BY <1>1
<1>3. USER_STACK_TOP - m * PAGE_SIZE = USER_STACK_TOP - n * PAGE_SIZE
  BY DEF StackPage
<1> HIDE DEF m, n
<1>4. \A x, y \in Nat : USER_STACK_TOP - x = USER_STACK_TOP - y => x <= y /\ y <= x
  BY <1>1
<1>5. m * PAGE_SIZE \in Nat /\ n * PAGE_SIZE \in Nat
  BY <1>2, PageMultiples
<1>6. m * PAGE_SIZE <= n * PAGE_SIZE /\ n * PAGE_SIZE <= m * PAGE_SIZE
  BY <1>3, <1>4, <1>5
<1>7. m <= n /\ n <= m
  BY <1>2, <1>6, PageMultiples
<1> QED BY <1>2, <1>7

LEMMA StackSpecsFacts ==
  /\ StackSpecs \in Seq(Specs) /\ Len(StackSpecs) = USER_STACK_PAGES
  /\ \A k \in 1..USER_STACK_PAGES :
       /\ StackSpecs[k].page = StackPage(k)
       /\ StackSpecs[k].w = TRUE /\ StackSpecs[k].nx = TRUE
<1>1. USER_STACK_PAGES \in Nat
  BY LoaderAssumption
<1>2. \A k \in 1..USER_STACK_PAGES :
        StackSpecs[k] = [page |-> StackPage(k), w |-> TRUE, nx |-> TRUE]
  BY DEF StackSpecs
<1>3. \A p \in Nat : [page |-> p, w |-> TRUE, nx |-> TRUE] \in Specs
  BY DEF Specs
<1>4. \A k \in 1..USER_STACK_PAGES : StackSpecs[k] \in Specs
  BY <1>2, <1>3, StackPageAt, Zenon
<1>5. StackSpecs \in [1..USER_STACK_PAGES -> Specs]
  BY <1>4 DEF StackSpecs
<1>6. \A n \in Nat : \A t : t \in [1..n -> Specs] => t \in Seq(Specs) /\ Len(t) = n
  OBVIOUS
<1> QED BY <1>1, <1>2, <1>5, <1>6

(* Once the loop is past the last segment, it has dealt with all pages.    *)
LEMMA AllDealt ==
  ASSUME TypeInv, i > Len(headers), NEW k \in 1..Len(headers), NEW p
  PROVE  Dealt(k, p, i, addr) <=> Touches(headers[k], p)
<1>1. i \in Nat /\ Len(headers) \in Nat
  BY DEF TypeInv
<1>2. k < i
  BY <1>1
<1> QED BY <1>2 DEF Dealt

(* The specs of the segments, once the loop is past the last.              *)
LEMMA SegmentSpecs ==
  ASSUME TypeInv, SpecsLoop, i > Len(headers)
  PROVE  /\ \A j, m \in 1..Len(specs) : specs[j].page = specs[m].page => j = m
         /\ \A k \in 1..Len(headers) : ~BadRange(headers[k])
         /\ \A p : p \in PagesOf(specs) <=>
                     \E k \in 1..Len(headers) : Touches(headers[k], p)
         /\ \A j \in 1..Len(specs) :
              /\ specs[j].w <=> \E k \in 1..Len(headers) :
                                  headers[k].w /\ Touches(headers[k], specs[j].page)
              /\ specs[j].nx <=> \E k \in 1..Len(headers) :
                                   ~headers[k].x /\ Touches(headers[k], specs[j].page)
<1>1. /\ i \in Nat /\ Len(headers) \in Nat /\ image \in Images
      /\ \A k \in 1..Len(headers) : headers[k] \in ProgramHeaders
      /\ \A k \in 1..Len(specs) : IsPage(specs[k].page) /\ specs[k].page + PAGE_SIZE <= USER_MAX
  BY DEF TypeInv
<1>2. \A k \in 1..Len(headers) : ~BadRange(headers[k])
  <2>1. \A k \in 1..Len(headers) : k < i
    BY <1>1
  <2> QED BY <2>1 DEF SpecsLoop
<1>3. ASSUME NEW k \in 1..Len(headers), NEW p, Touches(headers[k], p)
      PROVE  p \in 0..USER_MAX
  <2>1. SegEnd(headers[k]) <= USER_MAX /\ SegEnd(headers[k]) \in Nat
    BY <1>1, <1>2, GoodRange, HeaderNat
  <2>2. p \in Nat /\ p < SegEnd(headers[k])
    BY <1>1, <1>3, TouchedPage, PageNat
  <2> QED BY <2>1, <2>2, UserMax
<1>4. ASSUME NEW p \in PagesOf(specs) PROVE p \in 0..USER_MAX
  <2>1. IsPage(p) /\ p + PAGE_SIZE <= USER_MAX
    BY <1>1 DEF PagesOf
  <2> QED BY <2>1, PageNat, PageSize, UserMax
<1>5. SpecsSoFar(specs, i, addr)
  BY DEF SpecsLoop
<1>6. \A p \in 0..USER_MAX : p \in PagesOf(specs) <=>
                               \E k \in 1..Len(headers) : Touches(headers[k], p)
  BY <1>5, AllDealt DEF SpecsSoFar
<1>7. \A p : p \in PagesOf(specs) <=> \E k \in 1..Len(headers) : Touches(headers[k], p)
  BY <1>3, <1>4, <1>6
<1>8. \A j \in 1..Len(specs) :
        /\ specs[j].w <=> \E k \in 1..Len(headers) :
                            headers[k].w /\ Touches(headers[k], specs[j].page)
        /\ specs[j].nx <=> \E k \in 1..Len(headers) :
                             ~headers[k].x /\ Touches(headers[k], specs[j].page)
  BY <1>5, AllDealt DEF SpecsSoFar
<1> QED BY <1>2, <1>5, <1>7, <1>8 DEF SpecsSoFar

LEMMA ConcatFacts ==
  ASSUME NEW s \in Seq(Specs), NEW t \in Seq(Specs)
  PROVE  /\ s \o t \in Seq(Specs) /\ Len(s \o t) = Len(s) + Len(t)
         /\ Len(s) \in Nat /\ Len(t) \in Nat
         /\ \A j \in 1..(Len(s) + Len(t)) :
              \/ j \in 1..Len(s) /\ (s \o t)[j] = s[j]
              \/ j - Len(s) \in 1..Len(t) /\ (s \o t)[j] = t[j - Len(s)]
         /\ \A j \in 1..Len(s) : (s \o t)[j] = s[j]
         /\ \A j \in 1..Len(t) : (s \o t)[j + Len(s)] = t[j]
         /\ PagesOf(s \o t) = PagesOf(s) \cup PagesOf(t)
<1>1. Len(s) \in Nat /\ Len(t) \in Nat
  OBVIOUS
<1>2. s \o t \in Seq(Specs) /\ Len(s \o t) = Len(s) + Len(t)
  OBVIOUS
<1>3. \A j \in 1..Len(s) : (s \o t)[j] = s[j] /\ j \in 1..(Len(s) + Len(t))
  BY <1>1
<1>4. \A j \in 1..Len(t) : (s \o t)[j + Len(s)] = t[j] /\ j + Len(s) \in 1..(Len(s) + Len(t))
  BY <1>1
<1>5. \A j \in 1..(Len(s) + Len(t)) :
        \/ j \in 1..Len(s) /\ (s \o t)[j] = s[j]
        \/ j - Len(s) \in 1..Len(t) /\ (s \o t)[j] = t[j - Len(s)]
  BY <1>1
<1>6. PagesOf(s \o t) = PagesOf(s) \cup PagesOf(t)
  <2> DEFINE u == s \o t
  <2>1. Len(u) = Len(s) + Len(t)
    BY <1>2
  <2>2. \A j \in 1..Len(s) : u[j] = s[j] /\ j \in 1..Len(u)
    BY <1>3, <2>1
  <2>3. \A j \in 1..Len(t) : u[j + Len(s)] = t[j] /\ j + Len(s) \in 1..Len(u)
    BY <1>4, <2>1
  <2>4. \A j \in 1..Len(u) :
          (\E m \in 1..Len(s) : u[j] = s[m]) \/ (\E m \in 1..Len(t) : u[j] = t[m])
    BY <1>5, <2>1
  <2> HIDE DEF u
  <2>5. PagesOf(u) = PagesOf(s) \cup PagesOf(t)
    <3>1. \A p : p \in PagesOf(u) => p \in PagesOf(s) \/ p \in PagesOf(t)
      BY ONLY <2>4 DEF PagesOf
    <3>2. \A p : p \in PagesOf(s) => p \in PagesOf(u)
      BY ONLY <2>2 DEF PagesOf
    <3>3. \A p : p \in PagesOf(t) => p \in PagesOf(u)
      <4>1. SUFFICES ASSUME NEW m \in 1..Len(t) PROVE t[m].page \in PagesOf(u)
        BY DEF PagesOf
      <4>2. m + Len(s) \in 1..Len(u) /\ u[m + Len(s)] = t[m]
        BY <2>3
      <4>3. \A j \in 1..Len(u) : u[j].page \in PagesOf(u)
        BY DEF PagesOf
      <4> QED BY ONLY <4>2, <4>3
    <3> QED BY <3>1, <3>2, <3>3
  <2> QED BY <2>5 DEF u
<1> QED BY <1>1, <1>2, <1>3, <1>4, <1>5, <1>6

LEMMA StackAndMapInv == ASSUME LoaderInv, StackAndMap PROVE LoaderInv'
<1>1. /\ pc = "specs" /\ i > Len(headers) /\ PagesOf(specs) \cap PagesOf(StackSpecs) = {}
      /\ specs' = specs \o StackSpecs
      /\ memory' = [a \in BytesOf(PagesOf(specs')) |-> Zero]
      /\ pc' = "copy" /\ i' = 1 /\ UNCHANGED <<phs, image, headers, addr, copied>>
      /\ TypeInv /\ SpecsLoop /\ copied = 0
  BY DEF StackAndMap, LoaderInv
<1>2. /\ \A j, m \in 1..Len(specs) : specs[j].page = specs[m].page => j = m
      /\ \A k \in 1..Len(headers) : ~BadRange(headers[k])
      /\ \A p : p \in PagesOf(specs) <=>
                  \E k \in 1..Len(headers) : Touches(headers[k], p)
      /\ \A j \in 1..Len(specs) :
           /\ specs[j].w <=> \E k \in 1..Len(headers) :
                               headers[k].w /\ Touches(headers[k], specs[j].page)
           /\ specs[j].nx <=> \E k \in 1..Len(headers) :
                                ~headers[k].x /\ Touches(headers[k], specs[j].page)
  BY <1>1, SegmentSpecs
<1>3. /\ specs \in Seq(Specs)
      /\ \A k \in 1..Len(specs) : IsPage(specs[k].page) /\ specs[k].page + PAGE_SIZE <= USER_MAX
  BY <1>1 DEF TypeInv
<1> DEFINE new == specs \o StackSpecs
           N == USER_STACK_PAGES
<1>4. /\ new \in Seq(Specs) /\ Len(new) = Len(specs) + N /\ Len(specs) \in Nat
      /\ \A j \in 1..(Len(specs) + N) :
           \/ j \in 1..Len(specs) /\ new[j] = specs[j]
           \/ j - Len(specs) \in 1..N /\ new[j] = StackSpecs[j - Len(specs)]
      /\ PagesOf(new) = PagesOf(specs) \cup PagesOf(StackSpecs)
  <2>1. specs \in Seq(Specs) /\ StackSpecs \in Seq(Specs) /\ Len(StackSpecs) = N
    BY <1>3, StackSpecsFacts
  <2> QED BY ONLY <2>1, ConcatFacts, Zenon
<1> HIDE DEF new
<1>5. specs' = new
  BY <1>1 DEF new
<1>6. \A j \in 1..Len(specs) : specs[j].page \in PagesOf(specs)
  BY DEF PagesOf
<1>7. \A j \in 1..N : /\ StackSpecs[j].page \in PagesOf(StackSpecs)
                      /\ StackSpecs[j].page \notin PagesOf(specs)
                      /\ IsPage(StackSpecs[j].page)
                      /\ StackSpecs[j].page + PAGE_SIZE <= USER_MAX
                      /\ StackSpecs[j].w = TRUE /\ StackSpecs[j].nx = TRUE
  BY <1>1, StackSpecsFacts, StackPageAt, Zenon DEF PagesOf
<1>8. \A j \in 1..Len(new) :
        \/ /\ j \in 1..Len(specs) /\ new[j] = specs[j]
           /\ new[j].page \in PagesOf(specs) /\ new[j].page \notin PagesOf(StackSpecs)
        \/ /\ j - Len(specs) \in 1..N /\ new[j] = StackSpecs[j - Len(specs)]
           /\ new[j].page \in PagesOf(StackSpecs) /\ new[j].page \notin PagesOf(specs)
           /\ new[j].w = TRUE /\ new[j].nx = TRUE
  BY <1>1, <1>4, <1>6, <1>7
<1>9. \A j \in 1..Len(new) : IsPage(new[j].page) /\ new[j].page + PAGE_SIZE <= USER_MAX
  BY <1>3, <1>7, <1>8
<1>10. \A j, m \in 1..Len(new) : new[j].page = new[m].page => j = m
  <2>1. \A j, m \in 1..N : StackSpecs[j].page = StackSpecs[m].page => j = m
    BY StackSpecsFacts, StackPagesDiffer
  <2>2. \A j, m \in 1..Len(new) : j - Len(specs) = m - Len(specs) => j = m
    BY <1>4
  <2>3. SUFFICES ASSUME NEW j \in 1..Len(new), NEW m \in 1..Len(new),
                        new[j].page = new[m].page
                 PROVE  j = m
    OBVIOUS
  <2>4. CASE j \in 1..Len(specs) /\ new[j] = specs[j] /\ new[j].page \in PagesOf(specs)
    <3>1. m \in 1..Len(specs) /\ new[m] = specs[m]
      BY ONLY <1>8, <2>3, <2>4
    <3> QED BY <1>2, <2>3, <2>4, <3>1
  <2>5. CASE /\ j - Len(specs) \in 1..N /\ new[j] = StackSpecs[j - Len(specs)]
             /\ new[j].page \notin PagesOf(specs)
    <3>1. m - Len(specs) \in 1..N /\ new[m] = StackSpecs[m - Len(specs)]
      BY ONLY <1>8, <2>3, <2>5
    <3>2. j - Len(specs) = m - Len(specs)
      BY ONLY <2>1, <2>3, <2>5, <3>1
    <3> QED BY <2>2, <3>2
  <2> QED BY <1>8, <2>4, <2>5
<1>11. \A p : (\E k \in 1..Len(headers) : Touches(headers[k], p)) <=>
                p \in {align_down(a) : a \in UNION {SegBytes(ph) : ph \in Segments}}
  BY DEF Touches, Segments
<1>12. PagesOf(new) = {align_down(a) : a \in UNION {SegBytes(ph) : ph \in Segments}}
                        \cup PagesOf(StackSpecs)
  <2> DEFINE S == {align_down(a) : a \in UNION {SegBytes(ph) : ph \in Segments}}
  <2>1. \A p : p \in PagesOf(specs) <=> p \in S
    BY <1>2, <1>11
  <2> HIDE DEF S
  <2>2. PagesOf(specs) = S
    BY <2>1
  <2> QED BY <1>4, <2>2 DEF S
<1>13. \A j \in 1..Len(new) :
         /\ new[j].w <=>
              \/ new[j].page \in PagesOf(StackSpecs)
              \/ \E ph \in Segments :
                   ph.w /\ \E a \in SegBytes(ph) : align_down(a) = new[j].page
         /\ new[j].nx <=>
              \/ new[j].page \in PagesOf(StackSpecs)
              \/ \E ph \in Segments :
                   ~ph.x /\ \E a \in SegBytes(ph) : align_down(a) = new[j].page
  <2>1. \A p : /\ (\E k \in 1..Len(headers) : headers[k].w /\ Touches(headers[k], p)) <=>
                    \E ph \in Segments : ph.w /\ \E a \in SegBytes(ph) : align_down(a) = p
               /\ (\E k \in 1..Len(headers) : ~headers[k].x /\ Touches(headers[k], p)) <=>
                    \E ph \in Segments : ~ph.x /\ \E a \in SegBytes(ph) : align_down(a) = p
    BY Zenon DEF Touches, Segments
  <2>2. SUFFICES ASSUME NEW j \in 1..Len(new)
                 PROVE  /\ new[j].w <=>
                             \/ new[j].page \in PagesOf(StackSpecs)
                             \/ \E k \in 1..Len(headers) :
                                  headers[k].w /\ Touches(headers[k], new[j].page)
                        /\ new[j].nx <=>
                             \/ new[j].page \in PagesOf(StackSpecs)
                             \/ \E k \in 1..Len(headers) :
                                  ~headers[k].x /\ Touches(headers[k], new[j].page)
    BY <2>1, Zenon
  <2>3. CASE /\ j \in 1..Len(specs) /\ new[j] = specs[j]
             /\ new[j].page \notin PagesOf(StackSpecs)
    BY <1>2, <2>3
  <2>4. CASE /\ new[j].page \in PagesOf(StackSpecs)
             /\ new[j].w = TRUE /\ new[j].nx = TRUE
    BY <2>4
  <2> QED BY <1>8, <2>3, <2>4, Zenon
<1>14. TypeInv'
  BY <1>1, <1>4, <1>5, <1>9 DEF TypeInv
<1>15. SpecsMerged'
  <2>1. /\ Segments' = Segments /\ PagesOf(specs)' = PagesOf(new)
        /\ StackSpecs' = StackSpecs /\ PagesOf(StackSpecs)' = PagesOf(StackSpecs)
    BY <1>1, <1>5, Zenon DEF Segments, PagesOf, StackSpecs, StackPage
  <2>2. \A ph : SegBytes(ph)' = SegBytes(ph)
    BY <1>1 DEF SegBytes, SegStart, SegEnd, load_bias
  <2>3. \A k \in 1..Len(specs') : specs'[k].page + PAGE_SIZE <= USER_MAX
    BY <1>5, <1>9
  <2> QED BY ONLY <1>5, <1>10, <1>12, <1>13, <2>1, <2>2, <2>3 DEF SpecsMerged
<1>16. CopyInv(i, copied)'
  <2>1. \A a \in DOMAIN memory' : memory'[a] = Zero
    BY <1>1
  <2>2. \A a : CopiedFrom(a, i, copied)' = {}
    <3>1. SUFFICES ASSUME NEW a, NEW k \in 1..Len(headers)
                   PROVE  ~(k < 1) /\ a \notin SegStart(headers[k])..(SegStart(headers[k]) + 0 - 1)
      BY <1>1 DEF CopiedFrom, SegStart, load_bias
    <3>2. SegStart(headers[k]) \in Nat
      BY <1>1, HeadersTyped, HeaderNat
    <3> QED BY <3>2
  <2> QED BY <2>1, <2>2 DEF CopyInv
<1>17. CopyLoop'
  <2>1. DOMAIN memory' = BytesOf(PagesOf(specs))'
    BY <1>1, Zenon DEF BytesOf, PagesOf
  <2>2. \A k \in 1..Len(headers) : headers[k].filesz \in Nat
    BY <1>1, HeadersTyped, HeaderNat
  <2>3. (i <= Len(headers) => copied <= headers[i].filesz)'
    BY <1>1, <2>2, HeadersTyped
  <2>4. (\A k \in 1..Len(headers) : ~BadRange(headers[k]))'
    BY <1>1, <1>2, Zenon DEF BadRange, SegStart, SegEnd, load_bias
  <2> QED BY <1>1, <1>15, <1>16, <2>1, <2>3, <2>4 DEF CopyLoop
<1> QED BY <1>1, <1>14, <1>17 DEF LoaderInv

----------------------------------------------------------------------------
(* The copy loop.                                                          *)

LEMMA ByteMapped ==
  ASSUME TypeInv, CopyLoop, pc = "copy", NEW k \in 1..Len(headers), NEW a \in Nat,
         SegStart(headers[k]) <= a, a < SegEnd(headers[k])
  PROVE  a \in DOMAIN memory
<1>1. headers[k] \in ProgramHeaders /\ image \in Images /\ headers[k] \in Segments
  BY HeadersTyped DEF Segments
<1>2. SegStart(headers[k]) \in Nat /\ SegEnd(headers[k]) \in Nat
  BY <1>1, HeaderNat
<1>3. a \in SegBytes(headers[k])
  BY <1>2 DEF SegBytes
<1>4. align_down(a) \in PagesOf(specs)
  BY <1>1, <1>3 DEF CopyLoop, SpecsMerged
<1>5. a \in align_down(a)..(align_down(a) + PAGE_SIZE - 1)
  BY AlignDown, PageSize
<1>6. a \in BytesOf(PagesOf(specs))
  BY <1>4, <1>5 DEF BytesOf
<1> QED BY <1>6 DEF CopyLoop

(* A chunk adds its segment to what its bytes were copied from.            *)
LEMMA ChunkCopied ==
  ASSUME TypeInv, i \in 1..Len(headers), NEW c \in Nat, NEW n \in Nat, NEW a,
         NEW va, va = SegStart(headers[i]) + c
  PROVE  /\ a \in va..(va + n - 1) => CopiedFrom(a, i, c + n) = CopiedFrom(a, i, c) \cup {i}
         /\ a \notin va..(va + n - 1) => CopiedFrom(a, i, c + n) = CopiedFrom(a, i, c)
         /\ \A k \in CopiedFrom(a, i, c) : k <= i
<1> DEFINE start == SegStart(headers[i])
<1>1. start \in Nat /\ i \in Nat
  BY HeadersTyped, HeaderNat
<1>2. /\ start..(start + c - 1) \subseteq start..(start + (c + n) - 1)
      /\ \A b \in start..(start + (c + n) - 1) :
           b \in start..(start + c - 1) \/ b \in va..(va + n - 1)
      /\ va..(va + n - 1) \subseteq start..(start + (c + n) - 1)
  BY <1>1
<1>3. /\ a \in va..(va + n - 1) => a \in start..(start + (c + n) - 1)
      /\ a \notin va..(va + n - 1) =>
           (a \in start..(start + (c + n) - 1) <=> a \in start..(start + c - 1))
  BY <1>2
<1>4. \A k \in CopiedFrom(a, i, c) : k <= i
  BY <1>1 DEF CopiedFrom
<1>5. /\ i \in CopiedFrom(a, i, c + n) <=> a \in start..(start + (c + n) - 1)
      /\ i \in CopiedFrom(a, i, c) <=> a \in start..(start + c - 1)
  BY <1>1 DEF CopiedFrom
<1>6. \A k : k # i => (k \in CopiedFrom(a, i, c + n) <=> k \in CopiedFrom(a, i, c))
  BY DEF CopiedFrom
<1> HIDE DEF start
<1>7. ASSUME a \in va..(va + n - 1)
      PROVE  CopiedFrom(a, i, c + n) = CopiedFrom(a, i, c) \cup {i}
  BY <1>3, <1>5, <1>6, <1>7
<1>8. ASSUME a \notin va..(va + n - 1)
      PROVE  CopiedFrom(a, i, c + n) = CopiedFrom(a, i, c)
  BY <1>3, <1>5, <1>6, <1>8
<1> QED BY <1>4, <1>7, <1>8

(* Copying leaves the specs and the segments alone.                        *)
LEMMA SpecsStay ==
  ASSUME CopyLoop, pc = "copy", UNCHANGED <<image, headers, specs>>
  PROVE  SpecsMerged' /\ (\A k \in 1..Len(headers) : ~BadRange(headers[k]))'
<1>1. /\ Segments' = Segments /\ PagesOf(specs)' = PagesOf(specs)
      /\ StackSpecs' = StackSpecs /\ PagesOf(StackSpecs)' = PagesOf(StackSpecs)
  BY DEF Segments, PagesOf, StackSpecs, StackPage
<1>2. \A ph : SegBytes(ph)' = SegBytes(ph)
  BY DEF SegBytes, SegStart, SegEnd, load_bias
<1>3. SpecsMerged /\ specs' = specs
  BY DEF CopyLoop
<1>4. SpecsMerged'
  BY ONLY <1>1, <1>2, <1>3, pc = "copy" DEF SpecsMerged
<1>5. (\A k \in 1..Len(headers) : ~BadRange(headers[k]))'
  BY DEF CopyLoop, BadRange, SegStart, SegEnd, load_bias
<1> QED BY <1>4, <1>5

LEMMA CopyChunkInv == ASSUME LoaderInv, CopyChunk PROVE LoaderInv'
<1> DEFINE ph == headers[i]
           va == SegStart(ph) + copied
           room == PAGE_SIZE - (va % PAGE_SIZE)
           left == ph.filesz - copied
           n == IF room < left THEN room ELSE left
<1>1. /\ pc = "copy" /\ i <= Len(headers) /\ copied < ph.filesz
      /\ TypeInv /\ CopyLoop
      /\ UNCHANGED <<phs, image, i, headers, addr, specs>>
  BY DEF CopyChunk, LoaderInv
<1>2. /\ i \in 1..Len(headers) /\ copied \in Nat
      /\ ph \in ProgramHeaders /\ ph.filesz <= ph.memsz /\ image \in Images
  BY <1>1 DEF TypeInv
<1>3. /\ SegStart(ph) \in Nat /\ SegEnd(ph) \in Nat /\ SegEnd(ph) = SegStart(ph) + ph.memsz
      /\ ph.filesz \in Nat /\ ph.memsz \in Nat /\ ph.offset \in Nat
  BY <1>2, HeaderNat
<1>4. va \in Nat /\ SegStart(ph) <= va /\ va < SegEnd(ph)
  BY <1>1, <1>2, <1>3
<1>5. va \in DOMAIN memory
  BY <1>1, <1>2, <1>4, ByteMapped
<1>6. /\ memory' = [a \in DOMAIN memory |->
                      IF a \in va..(va + n - 1)
                        THEN ph.offset + copied + (a - va) ELSE memory[a]]
      /\ copied' = copied + n /\ pc' = pc
  BY <1>5 DEF CopyChunk
<1>7. room \in Nat /\ room > 0
  <2>1. va % PAGE_SIZE \in 0..(PAGE_SIZE - 1)
    BY <1>4, PageSize
  <2> QED BY <2>1, PageSize
<1>8. n \in Nat /\ copied + n <= ph.filesz
  BY <1>1, <1>2, <1>3, <1>7
<1> HIDE DEF n, room, left
<1>9. ASSUME NEW a \in DOMAIN memory
      PROVE  /\ CopiedFrom(a, i, copied + n) = {} => memory'[a] = Zero
             /\ \A k \in CopiedFrom(a, i, copied + n) :
                  (\A m \in CopiedFrom(a, i, copied + n) : m <= k) =>
                    memory'[a] = headers[k].offset + (a - SegStart(headers[k]))
  <2>1. CASE a \in va..(va + n - 1)
    <3>1. /\ CopiedFrom(a, i, copied + n) = CopiedFrom(a, i, copied) \cup {i}
          /\ \A k \in CopiedFrom(a, i, copied) : k <= i
      BY <1>1, <1>2, <1>8, <2>1, ChunkCopied
    <3>2. memory'[a] = ph.offset + copied + (a - va)
      BY <1>6, <2>1
    <3>3. a \in Int /\ ph.offset + copied + (a - va) = ph.offset + (a - SegStart(ph))
      <4>1. a \in Int
        BY <1>4, <1>8, <2>1
      <4>2. SegStart(ph) \in Int /\ copied \in Int /\ ph.offset \in Int
        BY <1>2, <1>3
      <4>3. \A x, c, o \in Int : o + c + (a - (x + c)) = o + (a - x)
        BY ONLY <4>1
      <4> QED BY <4>1, <4>2, <4>3
    <3>4. \A k \in CopiedFrom(a, i, copied) : k \in Nat
      BY DEF CopiedFrom
    <3>5. \A k \in CopiedFrom(a, i, copied) \cup {i} : i <= k => k = i
      <4>1. \A k \in Nat : k <= i /\ i <= k => k = i
        BY <1>2
      <4> QED BY ONLY <3>1, <3>4, <4>1, <1>2
    <3> QED BY <3>1, <3>2, <3>3, <3>5
  <2>2. CASE a \notin va..(va + n - 1)
    <3>1. CopiedFrom(a, i, copied + n) = CopiedFrom(a, i, copied)
      BY <1>1, <1>2, <1>8, <2>2, ChunkCopied
    <3>2. memory'[a] = memory[a]
      BY <1>6, <2>2
    <3> QED BY <1>1, <3>1, <3>2 DEF CopyLoop, CopyInv
  <2> QED BY <2>1, <2>2
<1>10. CopyInv(i, copied)'
  <2>1. DOMAIN memory' = DOMAIN memory
    BY <1>6
  <2>2. \A a : CopiedFrom(a, i, copied)' = CopiedFrom(a, i, copied + n)
    BY <1>1, <1>6 DEF CopiedFrom, SegStart, load_bias
  <2>3. \A k : headers'[k] = headers[k] /\ SegStart(headers[k])' = SegStart(headers[k])
    BY <1>1 DEF SegStart, load_bias
  <2> QED BY ONLY <1>9, <2>1, <2>2, <2>3 DEF CopyInv
<1>11. TypeInv'
  <2>1. copied' \in Nat
    BY ONLY <1>2, <1>6, <1>8
  <2>2. UNCHANGED <<phs, image, i, headers, addr, specs, pc>>
    BY <1>1, <1>6
  <2> QED BY ONLY <1>1, <2>1, <2>2 DEF TypeInv
<1>12. CopyLoop'
  <2>2. SpecsMerged' /\ (\A k \in 1..Len(headers) : ~BadRange(headers[k]))'
    BY <1>1, SpecsStay
  <2>3. DOMAIN memory' = BytesOf(PagesOf(specs))'
    BY <1>1, <1>6, Zenon DEF CopyLoop, BytesOf, PagesOf
  <2>4. copied' <= headers'[i'].filesz
    BY <1>1, <1>6, <1>8
  <2> QED BY <1>1, <1>6, <1>10, <2>2, <2>3, <2>4 DEF CopyLoop
<1> QED BY <1>1, <1>6, <1>11, <1>12 DEF LoaderInv

LEMMA NextSegmentInv == ASSUME LoaderInv, NextSegment PROVE LoaderInv'
<1>1. /\ pc = "copy" /\ i <= Len(headers) /\ copied = headers[i].filesz
      /\ i' = i + 1 /\ copied' = 0 /\ TypeInv /\ CopyLoop
      /\ UNCHANGED <<phs, image, pc, headers, addr, specs, memory>>
  BY DEF NextSegment, LoaderInv
<1>2. i \in Nat /\ i \in 1..Len(headers) /\ Len(headers) \in Nat
  BY <1>1 DEF TypeInv
<1>3. \A a : CopiedFrom(a, i + 1, 0) = CopiedFrom(a, i, copied)
  <2>1. ASSUME NEW a, NEW k \in 1..Len(headers)
        PROVE  k \in CopiedFrom(a, i + 1, 0) <=> k \in CopiedFrom(a, i, copied)
    <3>1. SegStart(headers[k]) \in Nat
      BY <1>1, HeadersTyped, HeaderNat
    <3>2. a \notin SegStart(headers[k])..(SegStart(headers[k]) + 0 - 1)
      BY <3>1
    <3>3. k < i + 1 <=> k < i \/ k = i
      BY <1>2
    <3>4. k = i => ~(k < i)
      BY <1>2
    <3> QED BY <1>1, <3>2, <3>3, <3>4 DEF CopiedFrom
  <2>2. \A a, n, c, k : k \in CopiedFrom(a, n, c) => k \in 1..Len(headers)
    BY DEF CopiedFrom
  <2>3. \A a, k : k \in CopiedFrom(a, i + 1, 0) <=> k \in CopiedFrom(a, i, copied)
    BY ONLY <2>1, <2>2
  <2> QED BY ONLY <2>3
<1>4. CopyInv(i, copied)'
  <2>1. \A a : CopiedFrom(a, i, copied)' = CopiedFrom(a, i + 1, 0)
    BY <1>1 DEF CopiedFrom, SegStart, load_bias
  <2>2. \A k : headers'[k] = headers[k] /\ SegStart(headers[k])' = SegStart(headers[k])
    BY <1>1 DEF SegStart, load_bias
  <2>3. CopyInv(i, copied) /\ memory' = memory
    BY <1>1 DEF CopyLoop
  <2> QED BY ONLY <1>3, <2>1, <2>2, <2>3 DEF CopyInv
<1>5. TypeInv'
  BY <1>1, <1>2 DEF TypeInv
<1>6. CopyLoop'
  <2>1. SpecsMerged' /\ (\A k \in 1..Len(headers) : ~BadRange(headers[k]))'
    BY <1>1, SpecsStay
  <2>2. DOMAIN memory' = BytesOf(PagesOf(specs))'
    BY <1>1 DEF CopyLoop, BytesOf, PagesOf
  <2>3. \A k \in 1..Len(headers) : 0 <= headers[k].filesz
    BY <1>1, HeadersTyped, HeaderNat
  <2>4. (i <= Len(headers) => copied <= headers[i].filesz)'
    BY <1>1, <1>2, <2>3
  <2> QED BY <1>1, <1>4, <2>1, <2>2, <2>4 DEF CopyLoop
<1> QED BY <1>1, <1>5, <1>6 DEF LoaderInv

(* What the copying loop has filled in stays as it is in a step that leaves *)
(* the variables it is about alone.                                         *)
LEMMA CopyStays ==
  ASSUME UNCHANGED <<image, i, headers, memory, copied>>
  PROVE  CopyInv(i, copied)' <=> CopyInv(i, copied)
<1>1. \A ph : SegStart(ph)' = SegStart(ph)
  BY DEF SegStart, load_bias
<1>2. \A a : CopiedFrom(a, i, copied)' = CopiedFrom(a, i, copied)
  BY <1>1 DEF CopiedFrom
<1>3. \A k : headers'[k] = headers[k] /\ SegStart(headers[k])' = SegStart(headers[k])
  BY <1>1
<1>4. memory' = memory
  OBVIOUS
<1> QED BY ONLY <1>2, <1>3, <1>4 DEF CopyInv

(* And the specs are exact after a step that leaves theirs alone.           *)
LEMMA SpecsKeep ==
  ASSUME UNCHANGED <<pc, image, headers, specs>>
  PROVE  SpecsMerged' <=> SpecsMerged
<1>1. /\ Segments' = Segments /\ PagesOf(specs)' = PagesOf(specs)
      /\ StackSpecs' = StackSpecs /\ PagesOf(StackSpecs)' = PagesOf(StackSpecs)
  BY Zenon DEF Segments, PagesOf, StackSpecs, StackPage
<1>2. \A ph : SegBytes(ph)' = SegBytes(ph)
  BY DEF SegBytes, SegStart, SegEnd, load_bias
<1>3. specs' = specs /\ pc' = pc
  OBVIOUS
<1> QED BY ONLY <1>1, <1>2, <1>3 DEF SpecsMerged

LEMMA LoadedInv == ASSUME LoaderInv, Loaded PROVE LoaderInv'
<1>1. /\ pc = "copy" /\ i > Len(headers) /\ pc' = "done" /\ TypeInv /\ CopyLoop
      /\ UNCHANGED <<phs, image, i, headers, addr, specs, memory, copied>>
  BY DEF Loaded, LoaderInv
<1>2. TypeInv'
  BY <1>1 DEF TypeInv
<1>3. CopyLoop'
  <2>1. SpecsMerged' /\ (\A k \in 1..Len(headers) : ~BadRange(headers[k]))'
    BY <1>1, SpecsStay
  <2>2. CopyInv(i, copied)'
    BY <1>1, CopyStays DEF CopyLoop
  <2>3. DOMAIN memory' = BytesOf(PagesOf(specs))'
    BY <1>1 DEF CopyLoop, BytesOf, PagesOf
  <2> QED BY <1>1, <2>1, <2>2, <2>3 DEF CopyLoop
<1> QED BY <1>1, <1>2, <1>3 DEF LoaderInv

LEMMA IdleInv == ASSUME LoaderInv, UNCHANGED loader_vars PROVE LoaderInv'
<1> USE DEF loader_vars
<1>1. TypeInv'
  BY DEF LoaderInv, TypeInv
<1>2. (pc = "headers" => HeadersInside)'
  BY DEF LoaderInv, HeadersInside
<1>3. (pc = "specs" => SpecsLoop)'
  <2>1. SpecsSoFar(specs, i, addr)' = SpecsSoFar(specs, i, addr)
    <3>1. \A k, p : Dealt(k, p, i, addr)' <=> Dealt(k, p, i, addr)
      BY DEF Dealt, Touches, SegBytes, SegStart, SegEnd, load_bias
    <3> QED BY <3>1 DEF SpecsSoFar, PagesOf
  <2> QED BY <2>1, Zenon DEF LoaderInv, SpecsLoop, BadRange, SegStart, SegEnd, load_bias
<1>4. (pc \in {"copy", "done"} => CopyLoop)'
  <2>1. SpecsMerged' <=> SpecsMerged
    BY SpecsKeep
  <2>2. CopyInv(i, copied)' <=> CopyInv(i, copied)
    BY CopyStays
  <2> QED BY <2>1, <2>2 DEF LoaderInv, CopyLoop, BadRange, SegStart, SegEnd, load_bias,
                            BytesOf, PagesOf
<1> QED BY <1>1, <1>2, <1>3, <1>4 DEF LoaderInv

(* LoaderInv is an invariant of exec's loader: at every round of its loops *)
(* the specs are those of the pages dealt with, and memory holds what has  *)
(* been copied.                                                            *)
THEOREM LoaderInvariant == LoaderSpec => []LoaderInv
<1>1. LoaderInit => LoaderInv
  BY InitInv
<1>2. LoaderInv /\ [LoaderNext]_loader_vars => LoaderInv'
  <2>1. SUFFICES ASSUME LoaderInv, [LoaderNext]_loader_vars PROVE LoaderInv'
    OBVIOUS
  <2>2. CASE RejectImage   BY <2>1, <2>2, RejectImageInv
  <2>3. CASE Parse         BY <2>1, <2>3, ParseInv
  <2>4. CASE RejectHeader  BY <2>1, <2>4, RejectHeaderInv
  <2>5. CASE LoadHeader    BY <2>1, <2>5, LoadHeaderInv
  <2>6. CASE HeadersDone   BY <2>1, <2>6, HeadersDoneInv
  <2>7. CASE RejectSegment BY <2>1, <2>7, RejectSegmentInv
  <2>8. CASE SegmentPage   BY <2>1, <2>8, SegmentPageInv
  <2>9. CASE StackAndMap   BY <2>1, <2>9, StackAndMapInv
  <2>10. CASE StackTaken   BY <2>1, <2>10, StackTakenInv
  <2>11. CASE CopyChunk    BY <2>1, <2>11, CopyChunkInv
  <2>12. CASE NextSegment  BY <2>1, <2>12, NextSegmentInv
  <2>13. CASE Loaded       BY <2>1, <2>13, LoadedInv
  <2>14. CASE UNCHANGED loader_vars BY <2>1, <2>14, IdleInv
  <2> QED BY <2>1, <2>2, <2>3, <2>4, <2>5, <2>6, <2>7, <2>8, <2>9, <2>10, <2>11, <2>12,
             <2>13, <2>14 DEF LoaderNext
<1> QED BY <1>1, <1>2, PTL DEF LoaderSpec

(* Whatever the image, exec maps each page once and exactly the pages that *)
(* its segments and the stack touch, all in the user half, writable if one *)
(* of the segments on it is, and executable or not as they say where they  *)
(* agree.                                                                  *)
THEOREM PagesMappedExactly == LoaderSpec => []SpecsExact
<1>1. ASSUME LoaderInv PROVE SpecsExact
  <2>1. CASE pc \in {"copy", "done"}
    <3>1. SpecsMerged /\ TypeInv
      BY <1>1, <2>1 DEF LoaderInv, CopyLoop
    <3>2. \A k \in 1..Len(specs) :
             specs[k].page \in PagesOf(StackSpecs)
               \/ \E ph \in Segments : Touches(ph, specs[k].page)
      <4>1. \A k \in 1..Len(specs) : specs[k].page \in PagesOf(specs)
        BY DEF PagesOf
      <4> QED BY ONLY <2>1, <3>1, <4>1 DEF SpecsMerged, Touches
    <3>3. \A k \in 1..Len(specs) :
            LET on == {ph \in Segments : Touches(ph, specs[k].page)}
                stack == specs[k].page \in PagesOf(StackSpecs)
            IN  /\ specs[k].w <=> stack \/ \E ph \in on : ph.w
                /\ (stack \/ \A ph \in on : ~ph.x) => specs[k].nx
                /\ specs[k].nx => stack \/ \E ph \in on : ~ph.x
      BY ONLY <2>1, <3>1, <3>2 DEF SpecsMerged, Touches
    <3> QED BY ONLY <2>1, <3>1, <3>3, Zenon DEF SpecsMerged, SpecsExact
  <2>2. CASE pc \notin {"copy", "done"}
    BY <1>1, <2>2, Zenon DEF LoaderInv, TypeInv, SpecsExact
  <2> QED BY <2>1, <2>2
<1> QED BY <1>1, LoaderInvariant, PTL

(* A nonempty set of header numbers has a greatest member.                 *)
LEMMA LastOf ==
  ASSUME NEW n \in Nat, NEW T \in SUBSET (1..n), T # {}
  PROVE  \E k \in T : \A l \in T : l <= k
<1> DEFINE D == {x \in Nat : n - x \in T}
<1>1. PICK t \in T : TRUE
  BY Zenon
<1>2. n - t \in Nat /\ n - (n - t) = t
  OBVIOUS
<1>3. n - t \in D
  BY <1>2
<1>4. D \subseteq Nat /\ D # {}
  BY <1>3
<1>5. \A l \in T : n - l \in D /\ n - (n - l) = l
  OBVIOUS
<1> HIDE DEF D
<1>6. \E x \in D : \A y \in D : ~(<<y, x>> \in OpToRel(<, Nat))
  BY <1>4, NatLessThanWellFounded, WFMin, Zenon
<1>7. PICK x \in D : \A y \in D : ~(<<y, x>> \in OpToRel(<, Nat))
  BY <1>6, Zenon
<1>8. x \in Nat /\ n - x \in T
  BY <1>7, Zenon DEF D
<1>9. \A y \in D : ~(y < x) /\ y \in Nat
  BY <1>4, <1>7, Zenon DEF OpToRel
<1>10. \A l \in T : l <= n - x
  BY <1>5, <1>8, <1>9
<1> QED BY <1>8, <1>10

(* Whatever the image, memory ends up holding it: each byte of a segment   *)
(* is the byte of the file, zero past filesz, and the later segment wins   *)
(* where two overlap.  No round of the copy loop meets an unmapped page.   *)
THEOREM ImageLoaded == LoaderSpec => []ImageInMemory
<1>1. ASSUME LoaderInv PROVE ImageInMemory
  <2>1. pc \notin {"Mapping", "BadProgramHeader"} /\ TypeInv
    BY <1>1 DEF LoaderInv, TypeInv
  <2>2. ASSUME pc = "done", NEW a \in DOMAIN memory
        PROVE  memory[a] = FileByte(a)
    <3> DEFINE covering == {k \in 1..Len(headers) :
                             a \in SegStart(headers[k])..
                                   (SegStart(headers[k]) + headers[k].filesz - 1)}
    <3> CopyLoop
      BY <1>1, <2>2, Zenon DEF LoaderInv
    <3>1. CopyInv(i, copied) /\ i > Len(headers) /\ i \in Nat /\ Len(headers) \in Nat
      BY ONLY CopyLoop, <2>1, <2>2 DEF CopyLoop, TypeInv
    <3>2. \A k \in 1..Len(headers) : k < i
      BY <3>1
    <3>3. \A k \in 1..Len(headers) : k # i
      BY <3>1
    <3>4. CopiedFrom(a, i, copied) = covering
      BY <3>2, <3>3 DEF CopiedFrom
    <3> DEFINE last == CHOOSE k \in covering : \A l \in covering : l <= k
    <3>5. FileByte(a) = IF covering = {} THEN Zero
                        ELSE headers[last].offset + (a - SegStart(headers[last]))
      BY DEF FileByte
    <3>6. covering \in SUBSET (1..Len(headers))
      OBVIOUS
    <3> HIDE DEF covering
    <3>7. CASE covering = {}
      BY <2>2, <3>1, <3>4, <3>5, <3>7 DEF CopyInv
    <3>8. CASE covering # {}
      <4>1. \E k \in covering : \A l \in covering : l <= k
        BY <3>1, <3>6, <3>8, LastOf, Zenon
      <4>2. last \in covering /\ \A l \in covering : l <= last
        BY <4>1
      <4> HIDE DEF last
      <4> QED BY <2>2, <3>1, <3>4, <3>5, <3>8, <4>2 DEF CopyInv
    <3> QED BY <3>7, <3>8
  <2> QED BY <2>1, <2>2 DEF ImageInMemory
<1> QED BY <1>1, LoaderInvariant, PTL
=============================================================================
