------------------------- MODULE DescriptorsProofs --------------------------
(***************************************************************************)
(* Proofs about the file calls: a descriptor's path stays true while its   *)
(* program runs, listings miss no entry, and appends overwrite nothing,    *)
(* for any number of files, descriptors, programs and commands.            *)
(***************************************************************************)
EXTENDS Descriptors, FiniteSetTheorems, SequenceTheorems, TLAPS

(* The prover's default of five seconds is short for the larger steps.     *)
USE SMTT(20), ZenonT(20), SMTT(30)

(* The names in a directory.                                               *)
NamesIn(s) == {s[i] : i \in DOMAIN s} \ {Gap}

OpenFiles ==
  [path : Paths \cup {RootDir, "closed"}, offset : Nat, write : BOOLEAN,
   append : BOOLEAN, id : Nat, due : SUBSET Paths, seen : SUBSET Paths,
   old : BOOLEAN]

(* What a program may rely on in a slot f of its table, when the directory *)
(* is s, the files are fl, and run says whether a program runs: the path   *)
(* is the file's, and an entry the listing still owes lies at or after its *)
(* index.  Between programs no slot owes anything.                         *)
SlotOK(f, s, fl, run) ==
  /\ f \in OpenFiles
  /\ ~f.old /\ f.path \in Paths =>
       run /\ f.path \in DOMAIN fl /\ fl[f.path].id = f.id
  /\ ~f.old /\ ~f.append /\ f.path = RootDir =>
       /\ f.due \subseteq NamesIn(s)
       /\ \A i \in Occupied(s) :
            s[i] \in f.due => s[i] \in f.seen \/ Rank(s, i) >= f.offset
       /\ ~run => f.due = {}

DiskInv ==
  /\ IsDirectory(slots)
  /\ file \in [NamesIn(slots) -> [id : Nat, data : Seq(Nat)]]
  /\ created \in Nat
  /\ running \in BOOLEAN

TableInv ==
  /\ table \in Seq(OpenFiles) /\ Len(table) >= 3
  /\ \A k \in 1..Len(table) : SlotOK(table[k], slots, file, running)

FilesInv == DiskInv /\ TableInv

----------------------------------------------------------------------------
LEMMA MinOf ==
  ASSUME NEW S \in SUBSET Nat, S # {}
  PROVE  Min(S) \in S /\ \A x \in S : Min(S) <= x
<1>1. IsWellFoundedOn(OpToRel(<, Nat), Nat)
  BY NatLessThanWellFounded, Zenon
<1>2. PICK x \in S : \A y \in S : ~ (<<y, x>> \in OpToRel(<, Nat))
  BY <1>1, WFMin, Zenon
<1>3. \A y \in S : ~ (y < x)
  BY <1>2, Zenon DEF OpToRel
<1>4. \A y \in S : x <= y
  BY <1>3
<1> QED BY <1>4, Zenon DEF Min

LEMMA MinOfTwo ==
  ASSUME NEW a \in Int, NEW b \in Int
  PROVE  Min({a, b}) = IF a <= b THEN a ELSE b
  BY DEF Min

LEMMA EmptiedFacts ==
  ASSUME NEW s, IsDirectory(s), NEW p \in Paths
  PROVE  IsDirectory(Emptied(s, p)) /\ NamesIn(Emptied(s, p)) = NamesIn(s) \ {p}
<1>1. Emptied(s, p) \in Seq(Paths \cup {Gap}) /\ DOMAIN Emptied(s, p) = DOMAIN s
  BY DEF Emptied, IsDirectory
<1>2. \A i \in DOMAIN s : Emptied(s, p)[i] = IF s[i] = p THEN Gap ELSE s[i]
  BY DEF Emptied
<1> QED BY <1>1, <1>2, DescriptorsAssumption DEF IsDirectory, NamesIn

LEMMA WithEntryFacts ==
  ASSUME NEW s, IsDirectory(s), NEW p \in Paths, p \notin NamesIn(s)
  PROVE  /\ IsDirectory(WithEntry(s, p))
         /\ NamesIn(WithEntry(s, p)) = NamesIn(s) \cup {p}
         /\ DOMAIN s \subseteq DOMAIN WithEntry(s, p)
         /\ \A i \in DOMAIN s : s[i] # Gap => WithEntry(s, p)[i] = s[i]
<1> DEFINE gaps == {i \in DOMAIN s : s[i] = Gap}
           t == WithEntry(s, p)
<1>1. CASE gaps = {}
  <2>1. t = Append(s, p)
    BY <1>1 DEF WithEntry
  <2>2. /\ t \in Seq(Paths \cup {Gap}) /\ Len(t) = Len(s) + 1
        /\ DOMAIN s = 1..Len(s) /\ DOMAIN t = 1..(Len(s) + 1) /\ Len(s) \in Nat
        /\ \A i \in DOMAIN s : t[i] = s[i]
        /\ t[Len(s) + 1] = p
    BY <2>1 DEF IsDirectory
  <2> HIDE DEF t
  <2>3. \A i, j \in DOMAIN t : t[i] = t[j] /\ t[i] # Gap => i = j
    BY <2>2 DEF IsDirectory, NamesIn
  <2>4. NamesIn(t) = NamesIn(s) \cup {p}
    BY <2>2, DescriptorsAssumption DEF NamesIn
  <2> QED BY <2>2, <2>3, <2>4 DEF IsDirectory, t
<1>2. CASE gaps # {}
  <2>1. PICK g \in gaps : t = [s EXCEPT ![g] = p]
    <3>1. gaps \subseteq Nat
      BY DEF IsDirectory
    <3> QED BY <3>1, <1>2, MinOf, Zenon DEF WithEntry
  <2>2. /\ t \in Seq(Paths \cup {Gap}) /\ DOMAIN t = DOMAIN s
        /\ \A i \in DOMAIN s : t[i] = IF i = g THEN p ELSE s[i]
    BY <2>1 DEF IsDirectory
  <2> HIDE DEF t
  <2> QED BY <2>1, <2>2, DescriptorsAssumption DEF IsDirectory, NamesIn, t
<1> QED BY <1>1, <1>2

(* The file a directory lists under a name has one place in it.            *)
LEMMA PlaceOf ==
  ASSUME NEW s, IsDirectory(s), NEW p \in NamesIn(s)
  PROVE  /\ p \in Paths
         /\ \E i \in Occupied(s) : s[i] = p
  BY DEF NamesIn, Occupied, IsDirectory

(* Ranks are numbers below the number of entries.                          *)
LEMMA RankFacts ==
  ASSUME NEW s, IsDirectory(s)
  PROVE  /\ Cardinality(Occupied(s)) \in Nat
         /\ \A i \in Occupied(s) : /\ Rank(s, i) \in Nat
                                   /\ Rank(s, i) < Cardinality(Occupied(s))
<1>1. Occupied(s) \subseteq 1..Len(s) /\ Len(s) \in Nat
  BY DEF Occupied, IsDirectory
<1>2. IsFiniteSet(1..Len(s))
  BY <1>1, FS_Interval
<1>3. IsFiniteSet(Occupied(s)) /\ Cardinality(Occupied(s)) \in Nat
  BY <1>1, <1>2, FS_Subset, FS_CardinalityType
<1>4. ASSUME NEW i \in Occupied(s)
      PROVE  Rank(s, i) \in Nat /\ Rank(s, i) < Cardinality(Occupied(s))
  <2> DEFINE before == {j \in Occupied(s) : j < i}
  <2>1. before \subseteq Occupied(s) /\ i \notin before
    BY <1>1
  <2> HIDE DEF before
  <2>2. /\ IsFiniteSet(before) /\ Cardinality(before) \in Nat
        /\ Cardinality(before) <= Cardinality(Occupied(s))
        /\ Cardinality(before) = Cardinality(Occupied(s)) => before = Occupied(s)
    BY <1>3, <2>1, FS_Subset, FS_CardinalityType
  <2>3. Cardinality(before) < Cardinality(Occupied(s))
    BY <1>3, <2>1, <2>2
  <2> QED BY <2>2, <2>3 DEF Rank, before
<1> QED BY <1>3, <1>4

(* A new entry never lowers the rank of an old one.                        *)
LEMMA RankGrows ==
  ASSUME NEW s, IsDirectory(s), NEW p \in Paths, p \notin NamesIn(s),
         NEW i \in Occupied(s)
  PROVE  Rank(WithEntry(s, p), i) >= Rank(s, i)
<1> DEFINE t == WithEntry(s, p)
           old == {j \in Occupied(s) : j < i}
           new == {j \in Occupied(t) : j < i}
<1>1. IsDirectory(t) /\ Occupied(s) \subseteq Occupied(t)
  BY WithEntryFacts DEF Occupied
<1> HIDE DEF t
<1>2. new \subseteq 1..Len(t) /\ Len(t) \in Nat
  BY <1>1 DEF Occupied, IsDirectory
<1>3. old \subseteq new
  BY <1>1
<1> HIDE DEF old, new
<1>4. IsFiniteSet(new)
  <2>1. IsFiniteSet(1..Len(t))
    BY <1>2, FS_Interval
  <2> QED BY <1>2, <2>1, FS_Subset, Zenon
<1>5. Cardinality(new) >= Cardinality(old)
  BY <1>3, <1>4, FS_Subset, FS_CardinalityType
<1> QED BY <1>5 DEF Rank, old, new, t

----------------------------------------------------------------------------
(* How a slot fares when the directory changes.                            *)

(* A slot is still right after a file is added or its bytes change.        *)
LEMMA SlotKept ==
  ASSUME DiskInv, running,
         NEW t, NEW fl,
         \/ t = slots
         \/ \E p \in Paths \ NamesIn(slots) : t = WithEntry(slots, p),
         NamesIn(slots) \subseteq DOMAIN fl,
         \A q \in NamesIn(slots) : fl[q].id = file[q].id,
         NEW f, SlotOK(f, slots, file, running)
  PROVE  SlotOK(f, t, fl, running)
<1>1. CASE t = slots
  BY <1>1 DEF SlotOK, DiskInv
<1>2. ASSUME NEW p \in Paths \ NamesIn(slots), t = WithEntry(slots, p)
      PROVE  SlotOK(f, t, fl, running)
  <2>1. IsDirectory(slots) /\ DOMAIN file = NamesIn(slots)
    BY DEF DiskInv
  <2>2. /\ IsDirectory(t) /\ NamesIn(t) = NamesIn(slots) \cup {p}
        /\ \A i \in Occupied(slots) : i \in Occupied(t) /\ t[i] = slots[i]
    BY <1>2, <2>1, WithEntryFacts DEF Occupied
  <2>3. ASSUME NEW i \in Occupied(t), t[i] \in NamesIn(slots)
        PROVE  i \in Occupied(slots) /\ t[i] = slots[i]
    <3>1. PICK j \in Occupied(slots) : slots[j] = t[i]
      BY <2>1, <2>3, PlaceOf
    <3>2. t[j] = t[i] /\ j \in Occupied(t)
      BY <2>2, <3>1
    <3>3. i = j
      BY <2>2, <3>2 DEF Occupied, IsDirectory
    <3> QED BY <3>1, <3>3
  <2>4. \A i \in Occupied(slots) : Rank(t, i) >= Rank(slots, i) /\ Rank(slots, i) \in Nat
    BY <1>2, <2>1, RankGrows, RankFacts
  <2>5. \A i \in Occupied(slots) : Rank(t, i) \in Nat
    BY <2>2, RankFacts
  <2>6. f.offset \in Nat
    BY DEF SlotOK, OpenFiles
  <2>7. ~f.old /\ f.path \in Paths => f.path \in DOMAIN fl /\ fl[f.path].id = f.id
    BY <2>1 DEF SlotOK
  <2>8. ASSUME ~f.old, ~f.append, f.path = RootDir
        PROVE  /\ f.due \subseteq NamesIn(t)
               /\ \A i \in Occupied(t) :
                    t[i] \in f.due => t[i] \in f.seen \/ Rank(t, i) >= f.offset
    <3>1. f.due \subseteq NamesIn(slots)
      BY <2>8 DEF SlotOK
    <3>2. ASSUME NEW i \in Occupied(t), t[i] \in f.due, t[i] \notin f.seen
          PROVE  Rank(t, i) >= f.offset
      <4>1. i \in Occupied(slots) /\ t[i] = slots[i]
        BY <2>3, <3>1, <3>2
      <4>2. Rank(slots, i) >= f.offset
        BY <2>8, <3>2, <4>1 DEF SlotOK
      <4> QED BY <2>4, <2>5, <2>6, <4>1, <4>2
    <3> QED BY <2>2, <3>1, <3>2
  <2> QED BY <2>7, <2>8 DEF SlotOK
<1> QED BY <1>1, <1>2, Zenon

(* The table with one slot changed, and with slots added.                  *)
LEMMA SlotReplaced ==
  ASSUME TableInv, NEW t, NEW fl, NEW run,
         \A f : SlotOK(f, slots, file, running) => SlotOK(f, t, fl, run),
         NEW n \in 1..Len(table), NEW g, SlotOK(g, t, fl, run),
         NEW tab, tab = [table EXCEPT ![n] = g]
  PROVE  /\ tab \in Seq(OpenFiles) /\ Len(tab) >= 3
         /\ \A k \in 1..Len(tab) : SlotOK(tab[k], t, fl, run)
<1>1. g \in OpenFiles
  BY DEF SlotOK
<1>2. tab \in Seq(OpenFiles) /\ Len(tab) = Len(table)
  BY <1>1 DEF TableInv
<1>3. \A k \in 1..Len(table) : tab[k] = IF k = n THEN g ELSE table[k]
  BY DEF TableInv
<1> QED BY <1>2, <1>3 DEF TableInv

LEMMA SlotAppended ==
  ASSUME TableInv, NEW t, NEW fl, NEW run,
         \A f : SlotOK(f, slots, file, running) => SlotOK(f, t, fl, run),
         NEW g, SlotOK(g, t, fl, run),
         NEW tab, tab = Append(table, g)
  PROVE  /\ tab \in Seq(OpenFiles) /\ Len(tab) >= 3
         /\ \A k \in 1..Len(tab) : SlotOK(tab[k], t, fl, run)
<1>1. g \in OpenFiles
  BY DEF SlotOK
<1>2. tab \in Seq(OpenFiles) /\ Len(tab) = Len(table) + 1 /\ Len(table) \in Nat
  BY <1>1 DEF TableInv
<1>3. \A k \in 1..(Len(table) + 1) :
        IF k = Len(table) + 1 THEN tab[k] = g
        ELSE k \in 1..Len(table) /\ tab[k] = table[k]
  BY <1>1 DEF TableInv
<1> QED BY <1>2, <1>3 DEF TableInv

LEMMA Allocated ==
  ASSUME TableInv, NEW t, NEW fl, NEW run,
         \A f : SlotOK(f, slots, file, running) => SlotOK(f, t, fl, run),
         NEW g, SlotOK(g, t, fl, run),
         NEW tab, tab = alloc_fd(table, g)
  PROVE  /\ tab \in Seq(OpenFiles) /\ Len(tab) >= 3
         /\ \A k \in 1..Len(tab) : SlotOK(tab[k], t, fl, run)
<1> DEFINE free == {i \in 4..Len(table) : table[i].path = Closed.path}
<1>1. CASE free = {}
  BY <1>1, SlotAppended, Zenon DEF alloc_fd
<1>2. CASE free # {}
  <2>1. free \subseteq 1..Len(table) /\ free \subseteq Nat
    BY DEF TableInv
  <2>2. Min(free) \in 1..Len(table)
    BY <1>2, <2>1, MinOf, Zenon
  <2>3. tab = [table EXCEPT ![Min(free)] = g]
    BY <1>2 DEF alloc_fd
  <2> HIDE DEF free
  <2> QED BY <2>2, <2>3, SlotReplaced, Zenon
<1> QED BY <1>1, <1>2

(* A closed slot, or one of an earlier program, promises nothing.          *)
LEMMA NoPromise ==
  ASSUME NEW f \in OpenFiles, f.old \/ f.path = "closed", NEW t, NEW fl, NEW run
  PROVE  SlotOK(f, t, fl, run)
  BY DescriptorsAssumption DEF SlotOK, RootDir

LEMMA ClosedSlot == Closed \in OpenFiles /\ Closed.path = "closed"
  BY DEF Closed, OpenFile, OpenFiles, NoFlags

----------------------------------------------------------------------------
LEMMA InitInv == Init => FilesInv
<1> SUFFICES ASSUME Init PROVE FilesInv
  OBVIOUS
<1>1. IsDirectory(slots) /\ running = FALSE
  BY DescriptorsAssumption DEF Init
<1>2. created \in Nat
  BY <1>1 DEF Init, IsDirectory
<1>3. file \in [NamesIn(slots) -> [id : Nat, data : Seq(Nat)]]
  <2>1. file = [p \in NamesIn(slots) |->
                  [id |-> Min({i \in DOMAIN slots : slots[i] = p}), data |-> << >>]]
    BY DEF Init, Range, NamesIn
  <2>2. ASSUME NEW p \in NamesIn(slots)
        PROVE  Min({i \in DOMAIN slots : slots[i] = p}) \in Nat
    <3> DEFINE places == {i \in DOMAIN slots : slots[i] = p}
    <3>1. places # {} /\ places \subseteq Nat
      BY <1>1 DEF NamesIn, IsDirectory
    <3> HIDE DEF places
    <3>2. Min(places) \in Nat
      BY <3>1, MinOf, Zenon
    <3> QED BY <3>2 DEF places
  <2>3. << >> \in Seq(Nat)
    OBVIOUS
  <2>4. \A p \in NamesIn(slots) : file[p] \in [id : Nat, data : Seq(Nat)]
    BY <2>1, <2>2, <2>3
  <2> QED BY <2>1, <2>4
<1>4. Standard \in OpenFiles /\ Standard.path = RootDir /\ Standard.due = {}
  BY DEF Standard, OpenFile, OpenFiles, NoFlags
<1>5. SlotOK(Standard, slots, file, running)
  BY <1>1, <1>4, DescriptorsAssumption DEF SlotOK
<1>6. table = <<Standard, Standard, Standard>>
  BY DEF Init
<1> HIDE DEF Standard
<1>7. table \in Seq(OpenFiles) /\ Len(table) = 3 /\ \A k \in 1..3 : table[k] = Standard
  BY <1>4, <1>6
<1>8. TableInv
  BY <1>5, <1>7 DEF TableInv
<1> QED BY <1>1, <1>2, <1>3, <1>8, Zenon DEF FilesInv, DiskInv

(* A file made under a name the directory does not have.                   *)
LEMMA FileAdded ==
  ASSUME DiskInv, NEW p \in Paths, ~Exists(p)
  PROVE  /\ p \in Paths \ NamesIn(slots)
         /\ IsDirectory(WithEntry(slots, p))
         /\ NewFile(p) \in [NamesIn(WithEntry(slots, p)) -> [id : Nat, data : Seq(Nat)]]
         /\ NamesIn(slots) \subseteq NamesIn(WithEntry(slots, p))
         /\ \A q \in NamesIn(slots) : NewFile(p)[q].id = file[q].id
         /\ p \in NamesIn(WithEntry(slots, p))
<1>1. p \notin NamesIn(slots) /\ DOMAIN file = NamesIn(slots) /\ created + 1 \in Nat
  BY DEF DiskInv, Exists
<1>2. IsDirectory(WithEntry(slots, p)) /\ NamesIn(WithEntry(slots, p)) = NamesIn(slots) \cup {p}
  BY <1>1, WithEntryFacts DEF DiskInv
<1>3. << >> \in Seq(Nat)
  OBVIOUS
<1>4. \A q \in NamesIn(slots) : file[q] \in [id : Nat, data : Seq(Nat)]
  BY DEF DiskInv
<1>5. \A q \in NamesIn(slots) \cup {p} :
        /\ NewFile(p)[q] \in [id : Nat, data : Seq(Nat)]
        /\ q # p => NewFile(p)[q] = file[q]
  BY <1>1, <1>3, <1>4 DEF NewFile
<1>6. NewFile(p) \in [NamesIn(slots) \cup {p} -> [id : Nat, data : Seq(Nat)]]
  <2>1. NewFile(p) = [q \in NamesIn(slots) \cup {p} |-> NewFile(p)[q]]
    BY <1>1 DEF NewFile
  <2> QED BY <1>5, <2>1, Zenon
<1> QED BY <1>1, <1>2, <1>5, <1>6, Zenon

(* The bytes of a file changed.                                            *)
LEMMA BytesChanged ==
  ASSUME NEW N, NEW fl \in [N -> [id : Nat, data : Seq(Nat)]], NEW p \in N,
         NEW d \in Seq(Nat), NEW g, g = [fl EXCEPT ![p].data = d]
  PROVE  /\ g \in [N -> [id : Nat, data : Seq(Nat)]]
         /\ \A q \in N : g[q].id = fl[q].id
         /\ g[p].data = d
<1>1. \A q \in N : g[q] = IF q = p THEN [fl[p] EXCEPT !.data = d] ELSE fl[q]
  OBVIOUS
<1>2. /\ [fl[p] EXCEPT !.data = d] \in [id : Nat, data : Seq(Nat)]
      /\ [fl[p] EXCEPT !.data = d].id = fl[p].id
      /\ [fl[p] EXCEPT !.data = d].data = d
  BY Zenon
<1>3. g = [q \in N |-> g[q]]
  BY Zenon
<1>4. \A q \in N : g[q] \in [id : Nat, data : Seq(Nat)] /\ g[q].id = fl[q].id
  BY <1>1, <1>2
<1> QED BY <1>1, <1>2, <1>3, <1>4

LEMMA OpenatInv ==
  ASSUME FilesInv, running, NEW p \in Paths \cup {RootDir}, NEW flags \in OpenFlags,
         syscall_openat(p, flags)
  PROVE  FilesInv'
<1> DEFINE isNew == p # RootDir /\ ~Exists(p)
           after == IF isNew THEN NewFile(p) ELSE file
           fails == \/ flags.creat /\ flags.excl
                    \/ flags.directory /\ p # RootDir
           opened == IF p = RootDir THEN OpenFile(p, flags, 0, DOMAIN file)
                     ELSE OpenFile(p, flags, after[p].id, {})
           recs == [id : Nat, data : Seq(Nat)]
<1>1. /\ slots' = IF isNew THEN WithEntry(slots, p) ELSE slots
      /\ created' = IF isNew THEN created + 1 ELSE created
      /\ file' = IF flags.trunc /\ p # RootDir /\ ~fails
                   THEN [after EXCEPT ![p].data = << >>] ELSE after
      /\ table' = IF fails THEN table ELSE alloc_fd(table, opened)
      /\ running' = running
  BY DEF syscall_openat
<1>2. DiskInv /\ TableInv /\ DOMAIN file = NamesIn(slots) /\ running = TRUE
  BY DEF FilesInv, DiskInv
<1>3. /\ slots' = slots \/ \E q \in Paths \ NamesIn(slots) : slots' = WithEntry(slots, q)
      /\ IsDirectory(slots') /\ after \in [NamesIn(slots') -> recs]
      /\ NamesIn(slots) \subseteq NamesIn(slots')
      /\ \A q \in NamesIn(slots) : after[q].id = file[q].id
      /\ p # RootDir => p \in NamesIn(slots')
      /\ created' \in Nat
  <2>1. CASE isNew
    <3>1. p \in Paths /\ ~Exists(p) /\ created \in Nat
      BY <1>2, <2>1 DEF DiskInv
    <3>2. slots' = WithEntry(slots, p) /\ after = NewFile(p) /\ created' = created + 1
      BY <1>1, <2>1
    <3> HIDE DEF after, isNew
    <3> QED BY <1>2, <3>1, <3>2, FileAdded
  <2>2. CASE ~isNew
    BY <1>1, <1>2, <2>2 DEF DiskInv, Exists
  <2> QED BY <2>1, <2>2
<1> HIDE DEF isNew, after
<1>4. /\ file' \in [NamesIn(slots') -> recs]
      /\ \A q \in NamesIn(slots') : file'[q].id = after[q].id
  <2>1. << >> \in Seq(Nat)
    OBVIOUS
  <2> HIDE DEF fails
  <2>2. CASE flags.trunc /\ p # RootDir /\ ~fails
    <3>1. PICK d \in Seq(Nat) : d = << >>
      BY <2>1, Zenon
    <3>2. file' = [after EXCEPT ![p].data = d]
      BY <1>1, <2>2, <3>1
    <3>3. after \in [NamesIn(slots') -> recs] /\ p \in NamesIn(slots')
      BY <1>3, <2>2
    <3> QED BY <3>2, <3>3, BytesChanged
  <2>3. CASE ~(flags.trunc /\ p # RootDir /\ ~fails)
    BY <1>1, <1>3, <2>3
  <2> QED BY <2>2, <2>3
<1>5. \A f : SlotOK(f, slots, file, running) => SlotOK(f, slots', file', running')
  <2>1. NamesIn(slots) \subseteq DOMAIN file' /\ \A q \in NamesIn(slots) : file'[q].id = file[q].id
    BY <1>3, <1>4
  <2> QED BY <1>1, <1>2, <1>3, <2>1, SlotKept, Zenon
<1>6. SlotOK(opened, slots', file', running')
  <2>1. flags.write \in BOOLEAN /\ flags.append \in BOOLEAN
    BY DescriptorsAssumption
  <2>2. CASE p = RootDir
    <3>1. slots' = slots /\ RootDir \notin Paths /\ RootDir # "closed"
      BY <1>1, <2>2, DescriptorsAssumption DEF isNew, RootDir
    <3>2. NamesIn(slots) \subseteq Paths
      BY <1>2, PlaceOf DEF DiskInv
    <3>3. /\ opened \in OpenFiles /\ opened.path = RootDir /\ opened.offset = 0
          /\ opened.due = NamesIn(slots)
      BY <1>2, <2>1, <2>2, <3>2 DEF OpenFile, OpenFiles
    <3>4. \A i \in Occupied(slots) : Rank(slots, i) >= 0
      BY <1>2, RankFacts DEF DiskInv
    <3> HIDE DEF opened
    <3> QED BY <1>1, <1>2, <3>1, <3>3, <3>4 DEF SlotOK
  <2>3. CASE p # RootDir
    <3>1. after[p].id \in Nat /\ after[p].id = file'[p].id /\ p \in DOMAIN file'
      BY <1>3, <1>4, <2>3
    <3>2. /\ opened \in OpenFiles /\ opened.path = p /\ opened.id = after[p].id
      BY <2>1, <2>3, <3>1 DEF OpenFile, OpenFiles
    <3> HIDE DEF opened
    <3> QED BY <1>1, <1>2, <2>3, <3>1, <3>2 DEF SlotOK
  <2> QED BY <2>2, <2>3
<1>7. TableInv'
  <2> HIDE DEF fails, opened
  <2>1. CASE fails
    BY <1>1, <1>2, <1>5, <2>1, Zenon DEF TableInv
  <2>2. CASE ~fails
    <3>1. table' = alloc_fd(table, opened)
      BY <1>1, <2>2
    <3> QED BY <1>2, <1>5, <1>6, <3>1, Allocated, Zenon DEF TableInv
  <2> QED BY <2>1, <2>2
<1> QED BY <1>1, <1>2, <1>3, <1>4, <1>7 DEF FilesInv, DiskInv

LEMMA OpenSlot ==
  ASSUME FilesInv, NEW fd \in Nat, IsOpen(fd)
  PROVE  /\ fd + 1 \in 1..Len(table) /\ table[fd + 1] = File(fd)
         /\ File(fd) \in OpenFiles /\ SlotOK(File(fd), slots, file, running)
<1>1. table \in Seq(OpenFiles) /\ fd < Len(table)
  BY DEF FilesInv, TableInv, IsOpen
<1>2. fd + 1 \in 1..Len(table)
  BY <1>1
<1> QED BY <1>1, <1>2 DEF FilesInv, TableInv, File

(* A call that moves the position of a descriptor, and perhaps changes the *)
(* bytes of files.                                                         *)
LEMMA OffsetMoved ==
  ASSUME FilesInv, running, NEW fd \in Nat, IsOpen(fd), NEW o \in Nat,
         File(fd).path = RootDir /\ ~File(fd).append => o = 0,
         table' = [table EXCEPT ![fd + 1].offset = o],
         file' \in [NamesIn(slots) -> [id : Nat, data : Seq(Nat)]],
         \A q \in NamesIn(slots) : file'[q].id = file[q].id,
         UNCHANGED <<slots, created, running>>
  PROVE  FilesInv'
<1> DEFINE f == File(fd)
           g == [f EXCEPT !.offset = o]
<1>1. DiskInv /\ TableInv /\ fd + 1 \in 1..Len(table)
  BY OpenSlot, Zenon DEF FilesInv
<1>2. \A h : SlotOK(h, slots, file, running) => SlotOK(h, slots', file', running')
  <2>1. NamesIn(slots) \subseteq DOMAIN file'
    OBVIOUS
  <2> QED BY <1>1, <2>1, SlotKept, Zenon
<1>3. SlotOK(f, slots, file', running)
  BY <1>1, <1>2, OpenSlot, Zenon
<1>4. f \in OpenFiles
  BY <1>3 DEF SlotOK
<1>5. /\ g \in OpenFiles /\ g.path = f.path /\ g.id = f.id /\ g.old = f.old
      /\ g.append = f.append /\ g.due = f.due /\ g.seen = f.seen /\ g.offset = o
  BY <1>4, Zenon DEF OpenFiles
<1>6. table' = [table EXCEPT ![fd + 1] = g]
  BY <1>1 DEF TableInv, File
<1>7. f.path = RootDir /\ ~f.append => o = 0
  OBVIOUS
<1> HIDE DEF f, g
<1>8. \A i \in Occupied(slots) : Rank(slots, i) >= 0
  BY <1>1, RankFacts DEF DiskInv
<1>9. SlotOK(g, slots', file', running')
  BY <1>3, <1>5, <1>7, <1>8 DEF SlotOK
<1>10. TableInv'
  <2>1. /\ table' \in Seq(OpenFiles) /\ Len(table') >= 3
        /\ \A k \in 1..Len(table') : SlotOK(table'[k], slots', file', running')
    BY ONLY <1>1, <1>2, <1>6, <1>9, SlotReplaced, Zenon
  <2> QED BY <2>1, Zenon DEF TableInv
<1> QED BY <1>1, <1>10 DEF FilesInv, DiskInv

LEMMA CloseInv ==
  ASSUME FilesInv, running, NEW fd \in Nat, syscall_close(fd)
  PROVE  FilesInv'
<1>1. /\ TableInv /\ fd + 1 \in 1..Len(table)
      /\ table' = [table EXCEPT ![fd + 1] = Closed]
      /\ UNCHANGED <<slots, file, created, running>>
  BY OpenSlot, Zenon DEF FilesInv, syscall_close
<1>2. SlotOK(Closed, slots', file', running')
  BY ClosedSlot, NoPromise
<1> HIDE DEF Closed
<1>3. TableInv'
  BY <1>1, <1>2, SlotReplaced, Zenon DEF TableInv
<1> QED BY <1>1, <1>3 DEF FilesInv, DiskInv

(* A path of an existing file is not the root directory's.                 *)
LEMMA FilePath ==
  ASSUME FilesInv, NEW p, Exists(p)
  PROVE  p \in NamesIn(slots) /\ p # RootDir /\ file[p] \in [id : Nat, data : Seq(Nat)]
<1>1. p \in NamesIn(slots) /\ file[p] \in [id : Nat, data : Seq(Nat)]
  BY DEF FilesInv, DiskInv, Exists
<1>2. p \in Paths
  BY <1>1, PlaceOf DEF FilesInv, DiskInv
<1> QED BY <1>1, <1>2, DescriptorsAssumption

(* What a write leaves in a file: its old bytes up to the position.        *)
LEMMA PatchedFacts ==
  ASSUME NEW s \in Seq(Nat), NEW off \in Nat, NEW d \in Seq(Nat)
  PROVE  /\ Store!Patched(s, off, d) \in Seq(Nat)
         /\ Len(Store!Patched(s, off, d)) >= Len(s)
         /\ \A i \in 1..Len(s) : i <= off => Store!Patched(s, off, d)[i] = s[i]
<1> DEFINE end == IF off + Len(d) > Len(s) THEN off + Len(d) ELSE Len(s)
           t == Store!Patched(s, off, d)
<1>1. end \in Nat /\ end >= Len(s)
  OBVIOUS
<1>2. t = [i \in 1..end |-> IF i \in (off + 1)..(off + Len(d))
                              THEN d[i - off] ELSE Store!Byte(s, i)]
  BY DEF Store!Patched
<1> HIDE DEF end, t
<1>3. ASSUME NEW i \in 1..end PROVE t[i] \in Nat
  <2>1. CASE i \in (off + 1)..(off + Len(d))
    <3>1. i - off \in 1..Len(d)
      BY <2>1
    <3> QED BY <1>2, <2>1, <3>1
  <2>2. CASE i \notin (off + 1)..(off + Len(d))
    <3>1. Store!Byte(s, i) \in Nat
      BY DEF Store!Byte
    <3> QED BY <1>2, <2>2, <3>1
  <2> QED BY <2>1, <2>2
<1>4. t \in [1..end -> Nat]
  BY <1>2, <1>3
<1>5. t \in Seq(Nat) /\ Len(t) = end
  BY <1>1, <1>4
<1>6. ASSUME NEW i \in 1..Len(s), i <= off PROVE t[i] = s[i]
  <2>1. i \in 1..end /\ i \notin (off + 1)..(off + Len(d))
    BY <1>1, <1>6
  <2>2. t[i] = Store!Byte(s, i)
    BY <1>2, <2>1
  <2> QED BY <2>2 DEF Store!Byte
<1> QED BY <1>1, <1>5, <1>6 DEF t

LEMMA WritePositionType ==
  ASSUME NEW f \in OpenFiles, FilesInv, Exists(f.path)
  PROVE  WritePosition(f) \in Nat
<1>1. file[f.path].data \in Seq(Nat)
  BY FilePath
<1>2. Len(file[f.path].data) \in Nat /\ f.offset \in Nat
  BY <1>1 DEF OpenFiles
<1> QED BY <1>2 DEF WritePosition

(* What a write changes.                                                   *)
LEMMA WriteFacts ==
  ASSUME FilesInv, NEW fd \in Nat, NEW data \in Data, NEW n \in 0..Len(data),
         syscall_write(fd, data, n)
  PROVE  LET f == File(fd)  at == WritePosition(f)
         IN  /\ f \in OpenFiles /\ Exists(f.path) /\ f.path # RootDir
             /\ at \in Nat /\ n \in Nat
             /\ file' \in [NamesIn(slots) -> [id : Nat, data : Seq(Nat)]]
             /\ \A q \in NamesIn(slots) : file'[q].id = file[q].id
             /\ file'[f.path].data =
                  Store!Patched(file[f.path].data, at, SubSeq(data, 1, n))
             /\ SubSeq(data, 1, n) \in Seq(Nat)
<1> DEFINE f == File(fd)
           at == WritePosition(f)
           d == SubSeq(data, 1, n)
           new == Store!Patched(file[f.path].data, at, d)
<1>1. IsOpen(fd) /\ Exists(f.path) /\ file' = [file EXCEPT ![f.path].data = new]
  BY DEF syscall_write
<1>2. f \in OpenFiles
  BY <1>1, OpenSlot
<1>3. f.path \in NamesIn(slots) /\ f.path # RootDir /\ file[f.path].data \in Seq(Nat)
  BY <1>1, FilePath
<1> HIDE DEF f
<1>4. at \in Nat /\ n \in Nat
  BY <1>1, <1>2, WritePositionType, DescriptorsAssumption
<1> HIDE DEF at
<1>5. d \in Seq(Nat)
  BY DescriptorsAssumption
<1> HIDE DEF d
<1>6. new \in Seq(Nat)
  BY <1>3, <1>4, <1>5, PatchedFacts
<1> HIDE DEF new
<1>7. file \in [NamesIn(slots) -> [id : Nat, data : Seq(Nat)]]
  BY DEF FilesInv, DiskInv
<1>8. /\ file' \in [NamesIn(slots) -> [id : Nat, data : Seq(Nat)]]
      /\ \A q \in NamesIn(slots) : file'[q].id = file[q].id
      /\ file'[f.path].data = new
  <2>1. file' = [q \in NamesIn(slots) |-> file'[q]]
    BY <1>1, <1>7, Zenon
  <2>2. \A q \in NamesIn(slots) : q # f.path => file'[q] = file[q]
    BY <1>1, <1>7
  <2>3. file'[f.path] = [file[f.path] EXCEPT !.data = new]
    BY <1>1, <1>3, <1>7
  <2>4. file[f.path] \in [id : Nat, data : Seq(Nat)]
    BY <1>3, <1>7
  <2>5. /\ file'[f.path] \in [id : Nat, data : Seq(Nat)]
        /\ file'[f.path].id = file[f.path].id /\ file'[f.path].data = new
    BY ONLY <1>6, <2>3, <2>4, Zenon
  <2>6. \A q \in NamesIn(slots) : /\ file'[q] \in [id : Nat, data : Seq(Nat)]
                                  /\ file'[q].id = file[q].id
    BY <1>7, <2>2, <2>5, Zenon
  <2> QED BY <2>1, <2>5, <2>6
<1> QED BY <1>1, <1>2, <1>3, <1>4, <1>5, <1>8 DEF f, at, d, new

LEMMA WriteInv ==
  ASSUME FilesInv, running, NEW fd \in Nat, NEW data \in Data, NEW n \in 0..Len(data),
         syscall_write(fd, data, n)
  PROVE  FilesInv'
<1> DEFINE o == WritePosition(File(fd)) + n
<1>1. /\ File(fd).path # RootDir /\ o \in Nat
      /\ file' \in [NamesIn(slots) -> [id : Nat, data : Seq(Nat)]]
      /\ \A q \in NamesIn(slots) : file'[q].id = file[q].id
  BY WriteFacts
<1>2. /\ IsOpen(fd) /\ table' = [table EXCEPT ![fd + 1].offset = o]
      /\ UNCHANGED <<slots, created, running>>
  BY DEF syscall_write
<1> HIDE DEF o
<1> QED BY <1>1, <1>2, OffsetMoved, Zenon

(* A call that changes no file but moves a position.                       *)
LEMMA SameFiles ==
  ASSUME FilesInv, file' = file
  PROVE  /\ file' \in [NamesIn(slots) -> [id : Nat, data : Seq(Nat)]]
         /\ \A q \in NamesIn(slots) : file'[q].id = file[q].id
  BY DEF FilesInv, DiskInv

LEMMA WriteDirectoryInv ==
  ASSUME FilesInv, running, NEW fd \in Nat, WriteDirectory(fd)
  PROVE  FilesInv'
<1>1. DirectorySize \in Nat
  BY DescriptorsAssumption, FS_CardinalityType DEF DirectorySize
<1>2. /\ IsOpen(fd) /\ table' = [table EXCEPT ![fd + 1].offset = DirectorySize]
      /\ File(fd).append /\ UNCHANGED <<slots, file, created, running>>
  BY DEF WriteDirectory
<1> QED BY <1>1, <1>2, SameFiles, OffsetMoved, Zenon

LEMMA ReadInv ==
  ASSUME FilesInv, running, NEW fd \in Nat, NEW len \in Nat, syscall_read(fd, len)
  PROVE  FilesInv'
<1> DEFINE f == File(fd)
           rest == Len(file[f.path].data) - f.offset
           n == Min({len, Max({rest, 0})})
           o == f.offset + n
<1>1. /\ IsOpen(fd) /\ Exists(f.path) /\ UNCHANGED <<slots, file, created, running>>
      /\ table' = [table EXCEPT ![fd + 1].offset = @ + n]
  BY DEF syscall_read
<1>2. f \in OpenFiles /\ table[fd + 1] = f /\ fd + 1 \in 1..Len(table)
  BY <1>1, OpenSlot, Zenon
<1>3. f.path # RootDir /\ file[f.path].data \in Seq(Nat)
  BY <1>1, FilePath
<1>4. f.offset \in Nat /\ rest \in Int
  <2>1. f.offset \in Nat
    BY <1>2 DEF OpenFiles
  <2>2. Len(file[f.path].data) \in Nat
    BY <1>3
  <2> QED BY <2>1, <2>2
<1> HIDE DEF f, rest
<1>5. n \in Nat
  <2>1. Max({rest, 0}) \in Nat
    BY <1>4 DEF Max
  <2> QED BY <2>1, MinOfTwo
<1> HIDE DEF n
<1>6. table' = [table EXCEPT ![fd + 1].offset = o] /\ o \in Nat
  BY <1>1, <1>2, <1>4, <1>5
<1> HIDE DEF o
<1> QED BY <1>1, <1>3, <1>6, SameFiles, OffsetMoved, Zenon DEF f

LEMMA LseekInv ==
  ASSUME FilesInv, running, NEW fd \in Nat, NEW off \in Int, NEW whence \in 0..2,
         syscall_lseek(fd, off, whence)
  PROVE  FilesInv'
<1> DEFINE f == File(fd)
           base == CASE whence = 0 -> 0
                     [] whence = 1 -> f.offset
                     [] whence = 2 -> Len(file[f.path].data)
           o == base + off
<1>1. /\ IsOpen(fd) /\ UNCHANGED <<slots, file, created, running>>
      /\ table' = [table EXCEPT ![fd + 1].offset = o]
      /\ o \in 0..MaxSize
      /\ Exists(f.path) \/ (whence = 0 /\ off = 0)
  BY Zenon DEF syscall_lseek
<1>2. o \in Nat
  BY <1>1, DescriptorsAssumption
<1>3. f.path = RootDir => o = 0
  <2>1. f.path = RootDir => whence = 0 /\ off = 0
    BY <1>1, FilePath
  <2> QED BY <2>1
<1> HIDE DEF o, base
<1> QED BY <1>1, <1>2, <1>3, SameFiles, OffsetMoved, Zenon

LEMMA Dup2Inv ==
  ASSUME FilesInv, running, NEW fd \in Nat, NEW newfd \in Nat, syscall_dup2(fd, newfd)
  PROVE  FilesInv'
<1> DEFINE m == newfd + 1 - Len(table)
           extra == [k \in 1..m |-> Closed]
           grown == table \o extra
           f == File(fd)
<1>1. /\ IsOpen(fd) /\ table' = [grown EXCEPT ![newfd + 1] = f]
      /\ UNCHANGED <<slots, file, created, running>>
  BY DEF syscall_dup2
<1>2. SlotOK(f, slots, file, running) /\ f \in OpenFiles
  BY <1>1, OpenSlot, Zenon
<1>3. /\ table \in Seq(OpenFiles) /\ Len(table) \in Nat /\ Len(table) >= 3
      /\ \A k \in 1..Len(table) : SlotOK(table[k], slots, file, running)
  <2>1. TableInv
    BY DEF FilesInv
  <2>2. table \in Seq(OpenFiles)
    BY <2>1 DEF TableInv
  <2>3. Len(table) \in Nat
    BY <2>2
  <2> QED BY ONLY <2>1, <2>3 DEF TableInv
<1>4. Closed \in OpenFiles /\ SlotOK(Closed, slots, file, running)
  BY ClosedSlot, NoPromise, Zenon
<1> HIDE DEF Closed, f
<1>5. /\ extra \in Seq(OpenFiles) /\ Len(extra) = IF m > 0 THEN m ELSE 0
      /\ \A k \in 1..Len(extra) : extra[k] = Closed
  <2> DEFINE j == IF m > 0 THEN m ELSE 0
  <2>1. j \in Nat /\ 1..m = 1..j
    BY <1>3
  <2> HIDE DEF m
  <2>2. extra \in [1..j -> OpenFiles] /\ \A k \in 1..j : extra[k] = Closed
    BY <1>4, <2>1
  <2> HIDE DEF extra, j
  <2>3. extra \in Seq(OpenFiles) /\ Len(extra) = j
    BY <2>1, <2>2
  <2>4. \A k \in 1..Len(extra) : extra[k] = Closed
    BY <2>2, <2>3
  <2>5. Len(extra) = IF m > 0 THEN m ELSE 0
    BY <2>3 DEF j
  <2> QED BY <2>3, <2>4, <2>5
<1> HIDE DEF extra
<1>6. /\ grown \in Seq(OpenFiles) /\ Len(grown) = Len(table) + Len(extra)
      /\ \A k \in 1..Len(grown) : SlotOK(grown[k], slots, file, running)
  <2>1. /\ grown \in Seq(OpenFiles) /\ Len(grown) = Len(table) + Len(extra)
        /\ \A k \in 1..(Len(table) + Len(extra)) :
             grown[k] = IF k <= Len(table) THEN table[k] ELSE extra[k - Len(table)]
    BY <1>3, <1>5, ConcatProperties, Zenon
  <2> HIDE DEF grown
  <2>2. ASSUME NEW k \in 1..Len(grown) PROVE SlotOK(grown[k], slots, file, running)
    <3>1. CASE k <= Len(table)
      <4>1. k \in 1..Len(table) /\ grown[k] = table[k]
        BY <1>3, <1>5, <2>1, <3>1
      <4> QED BY <1>3, <4>1, Zenon
    <3>2. CASE ~(k <= Len(table))
      <4>1. k - Len(table) \in 1..Len(extra)
        BY <1>3, <1>5, <2>1, <3>2
      <4>2. grown[k] = Closed
        BY <1>5, <2>1, <3>2, <4>1, Zenon
      <4> QED BY <1>4, <4>2, Zenon
    <3> QED BY <3>1, <3>2, Zenon
  <2> QED BY <2>1, <2>2, Zenon
<1>7. Len(grown) >= 3 /\ newfd + 1 \in 1..Len(grown)
  BY <1>3, <1>5, <1>6
<1> HIDE DEF grown, m
<1>8. /\ table' \in Seq(OpenFiles) /\ Len(table') = Len(grown)
      /\ \A k \in 1..Len(grown) : table'[k] = IF k = newfd + 1 THEN f ELSE grown[k]
  BY ONLY <1>1, <1>2, <1>6, <1>7, ExceptSeq
<1>9. TableInv'
  BY <1>1, <1>2, <1>6, <1>7, <1>8, Zenon DEF TableInv
<1> QED BY <1>1, <1>9 DEF FilesInv, DiskInv

LEMMA GetdentsInv ==
  ASSUME FilesInv, running, NEW fd \in Nat, NEW room \in Nat \ {0},
         syscall_getdents64(fd, room)
  PROVE  FilesInv'
<1> DEFINE f == File(fd)
           n == Min({room, EntryCount - f.offset})
           o == f.offset + n
           listed == Listed(f.offset, n)
           g == [f EXCEPT !.offset = o, !.seen = @ \cup listed]
<1>1. /\ IsOpen(fd) /\ f.path = RootDir /\ f.offset < EntryCount
      /\ table' = [table EXCEPT ![fd + 1].offset = o,
                                ![fd + 1].seen = @ \cup listed]
      /\ UNCHANGED <<slots, file, created, running>>
  BY DEF syscall_getdents64, NextStart
<1>2. /\ fd + 1 \in 1..Len(table) /\ table[fd + 1] = f /\ f \in OpenFiles
      /\ SlotOK(f, slots, file, running) /\ TableInv /\ IsDirectory(slots)
  BY <1>1, OpenSlot, Zenon DEF FilesInv, DiskInv
<1>3. f.offset \in Nat /\ f.seen \subseteq Paths
  BY <1>2 DEF OpenFiles
<1>4. /\ EntryCount \in Nat
      /\ \A i \in Occupied(slots) : Rank(slots, i) \in Nat
  BY <1>2, RankFacts DEF EntryCount
<1>5. n \in Nat /\ o \in Nat
  <2> DEFINE rest == EntryCount - f.offset
  <2>1. rest \in Nat
    BY <1>1, <1>3, <1>4
  <2> HIDE DEF rest
  <2>2. Min({room, rest}) \in Nat
    BY <2>1, MinOfTwo
  <2> QED BY <1>3, <2>2 DEF rest
<1>6. table' = [table EXCEPT ![fd + 1] = g]
  BY <1>1, <1>2, Zenon DEF TableInv
<1> HIDE DEF n, f
<1>7. listed \subseteq Paths
  <2>1. listed \subseteq NamesIn(slots)
    BY DEF Listed, Occupied, NamesIn
  <2> HIDE DEF listed
  <2> QED BY <1>2, <2>1, PlaceOf
<1>8. \A i \in Occupied(slots) :
        Rank(slots, i) >= f.offset => slots[i] \in listed \/ Rank(slots, i) >= o
  BY <1>3, <1>4, <1>5 DEF Listed
<1> HIDE DEF o, listed
<1>9. /\ g \in OpenFiles /\ g.path = f.path /\ g.id = f.id /\ g.old = f.old
      /\ g.append = f.append /\ g.due = f.due /\ g.offset = o
      /\ g.seen = f.seen \cup listed
  BY <1>2, <1>3, <1>5, <1>7, Zenon DEF OpenFiles
<1> HIDE DEF g
<1>10. SlotOK(g, slots, file, running)
  <2>1. ~g.old /\ g.path \in Paths =>
          running /\ g.path \in DOMAIN file /\ file[g.path].id = g.id
    BY <1>2, <1>9 DEF SlotOK
  <2>2. ASSUME ~g.old, ~g.append
        PROVE  /\ g.due \subseteq NamesIn(slots)
               /\ \A i \in Occupied(slots) :
                    slots[i] \in g.due => slots[i] \in g.seen \/ Rank(slots, i) >= g.offset
    <3>1. /\ f.due \subseteq NamesIn(slots)
          /\ \A i \in Occupied(slots) :
               slots[i] \in f.due => slots[i] \in f.seen \/ Rank(slots, i) >= f.offset
      BY <1>1, <1>2, <1>9, <2>2 DEF SlotOK
    <3> QED BY <1>8, <1>9, <3>1
  <2> QED BY <1>9, <2>1, <2>2 DEF SlotOK
<1>11. TableInv'
  <2>1. /\ table' \in Seq(OpenFiles) /\ Len(table') >= 3
        /\ \A k \in 1..Len(table') : SlotOK(table'[k], slots, file, running)
    BY ONLY <1>2, <1>6, <1>10, SlotReplaced, Zenon
  <2> QED BY <1>1, <2>1, Zenon DEF TableInv
<1> QED BY <1>1, <1>11 DEF FilesInv, DiskInv

LEMMA ExitInv ==
  ASSUME FilesInv, syscall_exit
  PROVE  FilesInv'
<1>1. /\ table' = [i \in 1..3 |-> [table[i] EXCEPT !.old = TRUE]]
      /\ running' = FALSE /\ UNCHANGED <<slots, file, created>>
  BY DEF syscall_exit, reset_process_fds
<1>2. \A i \in 1..3 : table[i] \in OpenFiles
  <2>1. table \in Seq(OpenFiles) /\ Len(table) >= 3
    BY DEF FilesInv, TableInv
  <2> QED BY <2>1
<1>3. \A i \in 1..3 : table'[i] \in OpenFiles /\ table'[i].old
  <2> SUFFICES ASSUME NEW i \in 1..3 PROVE table'[i] \in OpenFiles /\ table'[i].old
    OBVIOUS
  <2>1. table'[i] = [table[i] EXCEPT !.old = TRUE] /\ table[i] \in OpenFiles
    BY <1>1, <1>2
  <2> QED BY ONLY <2>1, Zenon DEF OpenFiles
<1>4. table' \in [1..3 -> OpenFiles]
  <2>1. table' = [i \in 1..3 |-> table'[i]]
    BY <1>1
  <2> QED BY <1>3, <2>1
<1>5. table' \in Seq(OpenFiles) /\ Len(table') = 3
  <2>1. \A n \in Nat : table' \in [1..n -> OpenFiles] =>
                          table' \in Seq(OpenFiles) /\ Len(table') = n
    OBVIOUS
  <2> QED BY <1>4, <2>1
<1>6. \A i \in 1..3 : SlotOK(table'[i], slots', file', running')
  BY <1>3, NoPromise
<1>7. TableInv'
  BY <1>5, <1>6 DEF TableInv
<1> QED BY <1>1, <1>7, Zenon DEF FilesInv, DiskInv

LEMMA RunInv ==
  ASSUME FilesInv, Run
  PROVE  FilesInv'
<1>1. /\ running = FALSE /\ running' = TRUE /\ UNCHANGED <<slots, file, created, table>>
      /\ DiskInv /\ TableInv
  BY DEF Run, FilesInv, DiskInv
<1>2. \A f : SlotOK(f, slots, file, FALSE) => SlotOK(f, slots, file, TRUE)
  BY DEF SlotOK
<1>3. TableInv'
  BY <1>1, <1>2, Zenon DEF TableInv
<1> QED BY <1>1, <1>3 DEF FilesInv, DiskInv

(* What the shell does to files between programs breaks no promise: none   *)
(* is open.                                                                *)
LEMMA ShellInv ==
  ASSUME FilesInv, ~running, UNCHANGED <<table, running>>,
         IsDirectory(slots'), created' \in Nat,
         file' \in [NamesIn(slots') -> [id : Nat, data : Seq(Nat)]]
  PROVE  FilesInv'
<1>1. running = FALSE /\ running' = FALSE /\ table' = table /\ TableInv
  BY DEF FilesInv, DiskInv
<1>2. \A f, s, fl, t, g : SlotOK(f, s, fl, FALSE) => SlotOK(f, t, g, FALSE)
  BY DEF SlotOK
<1>3. TableInv'
  BY ONLY <1>1, <1>2, Zenon DEF TableInv
<1> QED BY <1>1, <1>3 DEF FilesInv, DiskInv

LEMMA RmInv ==
  ASSUME FilesInv, NEW p \in Paths, Rm(p)
  PROVE  FilesInv'
<1>1. /\ ~running /\ slots' = Emptied(slots, p)
      /\ file' = [q \in DOMAIN file \ {p} |-> file[q]]
      /\ UNCHANGED <<created, table, running>>
  BY DEF Rm
<1>2. IsDirectory(slots') /\ NamesIn(slots') = NamesIn(slots) \ {p}
  BY <1>1, EmptiedFacts DEF FilesInv, DiskInv
<1>3. file \in [NamesIn(slots) -> [id : Nat, data : Seq(Nat)]] /\ created' \in Nat
  BY <1>1 DEF FilesInv, DiskInv
<1>4. file' \in [NamesIn(slots') -> [id : Nat, data : Seq(Nat)]]
  BY <1>1, <1>2, <1>3
<1> QED BY <1>1, <1>2, <1>3, <1>4, ShellInv

LEMMA TouchInv ==
  ASSUME FilesInv, NEW p \in Paths, Touch(p)
  PROVE  FilesInv'
<1>1. /\ ~running /\ ~Exists(p) /\ slots' = WithEntry(slots, p)
      /\ file' = NewFile(p) /\ created' = created + 1 /\ UNCHANGED <<table, running>>
  BY DEF Touch
<1>2. DiskInv /\ created' \in Nat
  BY <1>1 DEF FilesInv, DiskInv
<1>3. IsDirectory(slots') /\ file' \in [NamesIn(slots') -> [id : Nat, data : Seq(Nat)]]
  BY <1>1, <1>2, FileAdded
<1> QED BY <1>1, <1>2, <1>3, ShellInv

LEMMA WriteFileInv ==
  ASSUME FilesInv, NEW p \in Paths, NEW data \in Data, NEW n \in 0..Len(data),
         write_file(p, data, n)
  PROVE  FilesInv'
<1> DEFINE isNew == ~Exists(p)
           after == IF isNew THEN NewFile(p) ELSE file
           d == SubSeq(data, 1, n)
<1>1. /\ ~running /\ UNCHANGED <<table, running>>
      /\ slots' = IF isNew THEN WithEntry(slots, p) ELSE slots
      /\ created' = IF isNew THEN created + 1 ELSE created
      /\ file' = [after EXCEPT ![p].data = d]
  BY DEF write_file
<1>2. DiskInv /\ created' \in Nat
  BY <1>1 DEF FilesInv, DiskInv
<1>3. /\ IsDirectory(slots') /\ p \in NamesIn(slots')
      /\ after \in [NamesIn(slots') -> [id : Nat, data : Seq(Nat)]]
  <2>1. CASE isNew
    BY <1>1, <1>2, <2>1, FileAdded
  <2>2. CASE ~isNew
    BY <1>1, <1>2, <2>2 DEF DiskInv, Exists
  <2> QED BY <2>1, <2>2
<1>4. d \in Seq(Nat)
  BY DescriptorsAssumption
<1> HIDE DEF d, after
<1>5. file' \in [NamesIn(slots') -> [id : Nat, data : Seq(Nat)]]
  <2>1. file' = [q \in NamesIn(slots') |-> file'[q]]
    BY <1>1, <1>3, Zenon
  <2>2. \A q \in NamesIn(slots') : q # p => file'[q] = after[q]
    BY <1>1, <1>3
  <2>3. file'[p] = [after[p] EXCEPT !.data = d]
    BY <1>1, <1>3
  <2>4. after[p] \in [id : Nat, data : Seq(Nat)]
    BY <1>3
  <2>5. file'[p] \in [id : Nat, data : Seq(Nat)]
    BY ONLY <1>4, <2>3, <2>4
  <2>6. \A q \in NamesIn(slots') : file'[q] \in [id : Nat, data : Seq(Nat)]
    BY <1>3, <2>2, <2>5, Zenon
  <2> QED BY <2>1, <2>6
<1> QED BY <1>1, <1>2, <1>3, <1>5, ShellInv

LEMMA MvInv ==
  ASSUME FilesInv, NEW p \in Paths, NEW q \in Paths, Mv(p, q)
  PROVE  FilesInv'
<1> DEFINE s1 == Emptied(slots, q)
           s2 == WithEntry(s1, q)
<1>1. /\ ~running /\ p \in DOMAIN file /\ p # q /\ slots' = Emptied(s2, p)
      /\ file' = [r \in (DOMAIN file \ {p}) \cup {q} |->
                    IF r = q THEN file[p] ELSE file[r]]
      /\ UNCHANGED <<created, table, running>>
  BY DEF Mv, Exists
<1>2. IsDirectory(s1) /\ NamesIn(s1) = NamesIn(slots) \ {q}
  BY EmptiedFacts DEF FilesInv, DiskInv
<1> HIDE DEF s1
<1>3. IsDirectory(s2) /\ NamesIn(s2) = NamesIn(slots) \cup {q}
  BY <1>2, WithEntryFacts
<1> HIDE DEF s2
<1>4. IsDirectory(slots') /\ NamesIn(slots') = (NamesIn(slots) \ {p}) \cup {q}
  BY <1>1, <1>3, EmptiedFacts
<1>5. file \in [NamesIn(slots) -> [id : Nat, data : Seq(Nat)]] /\ created' \in Nat
  BY <1>1 DEF FilesInv, DiskInv
<1>6. file' \in [NamesIn(slots') -> [id : Nat, data : Seq(Nat)]]
  BY <1>1, <1>4, <1>5
<1> QED BY <1>1, <1>4, <1>5, <1>6, ShellInv

LEMMA StepInv == FilesInv /\ [Next]_vars => FilesInv'
<1> SUFFICES ASSUME FilesInv, [Next]_vars PROVE FilesInv'
  OBVIOUS
<1>1. \A fd \in Fds : fd \in Nat
  BY DescriptorsAssumption
<1>2. CASE UNCHANGED vars
  BY <1>2 DEF vars, FilesInv, DiskInv, TableInv
<1>3. CASE Next
  <2>1. CASE Call
    <3>1. running
      BY <2>1 DEF Call
    <3>2. ASSUME NEW p \in Paths \cup {RootDir}, NEW flags \in OpenFlags,
                 syscall_openat(p, flags)
          PROVE  FilesInv'
      BY <3>1, <3>2, OpenatInv
    <3>3. ASSUME NEW fd \in Fds, syscall_close(fd) PROVE FilesInv'
      BY <1>1, <3>1, <3>3, CloseInv
    <3>4. ASSUME NEW fd \in Fds, NEW d \in Data, NEW n \in 0..Len(d),
                 syscall_write(fd, d, n)
          PROVE  FilesInv'
      BY <1>1, <3>1, <3>4, WriteInv
    <3>5. ASSUME NEW fd \in Fds, WriteDirectory(fd) PROVE FilesInv'
      BY <1>1, <3>1, <3>5, WriteDirectoryInv
    <3>6. ASSUME NEW fd \in Fds, NEW len \in 1..2, syscall_read(fd, len) PROVE FilesInv'
      BY <1>1, <3>1, <3>6, ReadInv
    <3>7. ASSUME NEW fd \in Fds, NEW off \in -1..1, NEW whence \in 0..2,
                 syscall_lseek(fd, off, whence)
          PROVE  FilesInv'
      BY <1>1, <3>1, <3>7, LseekInv
    <3>8. ASSUME NEW fd \in Fds, syscall_dup(fd) PROVE FilesInv'
      BY <3>8 DEF syscall_dup, FilesInv, DiskInv, TableInv
    <3>9. ASSUME NEW fd \in Fds, NEW newfd \in Fds, syscall_dup2(fd, newfd)
          PROVE  FilesInv'
      BY <1>1, <3>1, <3>9, Dup2Inv
    <3>10. ASSUME NEW fd \in Fds, NEW room \in 1..2, syscall_getdents64(fd, room)
           PROVE  FilesInv'
      BY <1>1, <3>1, <3>10, GetdentsInv
    <3>11. CASE syscall_exit
      BY <3>11, ExitInv
    <3> QED BY <2>1, <3>2, <3>3, <3>4, <3>5, <3>6, <3>7, <3>8, <3>9, <3>10, <3>11
            DEF Call
  <2>2. CASE Run
    BY <2>2, RunInv
  <2>3. ASSUME NEW p \in Paths, Rm(p) \/ Touch(p) PROVE FilesInv'
    BY <2>3, RmInv, TouchInv
  <2>4. ASSUME NEW p \in Paths, NEW d \in Data, NEW n \in 0..Len(d), write_file(p, d, n)
        PROVE  FilesInv'
    BY <2>4, WriteFileInv
  <2>5. ASSUME NEW p \in Paths, NEW q \in Paths, Mv(p, q) PROVE FilesInv'
    BY <2>5, MvInv
  <2> QED BY <1>3, <2>1, <2>2, <2>3, <2>4, <2>5 DEF Next
<1> QED BY <1>2, <1>3

(* FilesInv holds in every reachable state.                                *)
THEOREM FilesInvariant == Spec => []FilesInv
  BY InitInv, StepInv, PTL DEF Spec

----------------------------------------------------------------------------
(* A descriptor names the very file that was opened, for every number of   *)
(* files, programs and calls.                                              *)
THEOREM PathsTrue == Spec => []PathsStayTrue
<1>1. FilesInv => PathsStayTrue
  <2> SUFFICES ASSUME FilesInv, NEW fd \in 0..(Len(table) - 1),
                      IsOpen(fd), ~File(fd).old, File(fd).path # RootDir
               PROVE  Exists(File(fd).path) /\ file[File(fd).path].id = File(fd).id
    BY DEF PathsStayTrue
  <2>1. table \in Seq(OpenFiles)
    BY DEF FilesInv, TableInv
  <2>2. fd \in Nat
    BY <2>1
  <2>3. File(fd) \in OpenFiles /\ SlotOK(File(fd), slots, file, running)
    BY <2>2, OpenSlot
  <2>4. File(fd).path # "closed"
    BY ClosedSlot DEF IsOpen, File
  <2>5. File(fd).path \in Paths
    BY <2>3, <2>4 DEF OpenFiles
  <2> QED BY <2>3, <2>5 DEF SlotOK, Exists
<1> QED BY <1>1, FilesInvariant, PTL

(* A listing that has reached its end has delivered every entry that was   *)
(* there when the directory was opened.                                    *)
THEOREM ListingsComplete == Spec => []ListingComplete
<1>1. FilesInv => ListingComplete
  <2> SUFFICES ASSUME FilesInv, NEW fd \in 0..(Len(table) - 1),
                      IsOpen(fd), ~File(fd).old, ~File(fd).append,
                      File(fd).path = RootDir, File(fd).offset >= EntryCount
               PROVE  File(fd).due \subseteq File(fd).seen
    BY DEF ListingComplete
  <2>1. table \in Seq(OpenFiles)
    BY DEF FilesInv, TableInv
  <2>2. fd \in Nat
    BY <2>1
  <2>3. File(fd) \in OpenFiles /\ SlotOK(File(fd), slots, file, running)
    BY <2>2, OpenSlot
  <2>4. File(fd).offset \in Nat
    BY <2>3 DEF OpenFiles
  <2>5. IsDirectory(slots)
    BY DEF FilesInv, DiskInv
  <2>6. ASSUME NEW p \in File(fd).due PROVE p \in File(fd).seen
    <3>1. PICK i \in Occupied(slots) : slots[i] = p
      BY <2>3, <2>5, PlaceOf DEF SlotOK
    <3>2. Rank(slots, i) \in Nat /\ EntryCount \in Nat /\ Rank(slots, i) < EntryCount
      BY <2>5, RankFacts DEF EntryCount
    <3>3. ~(Rank(slots, i) >= File(fd).offset)
      BY <2>4, <3>2
    <3> QED BY <2>3, <3>1, <3>3 DEF SlotOK
  <2> QED BY <2>6
<1> QED BY <1>1, FilesInvariant, PTL

(* alloc_fd leaves every open slot alone.                                  *)
LEMMA OpenSlotsKept ==
  ASSUME FilesInv, NEW fd \in Nat, IsOpen(fd), NEW g
  PROVE  alloc_fd(table, g)[fd + 1] = table[fd + 1]
<1> DEFINE free == {i \in 4..Len(table) : table[i].path = Closed.path}
<1>1. table \in Seq(OpenFiles) /\ fd + 1 \in 1..Len(table) /\ table[fd + 1].path # Closed.path
  BY OpenSlot DEF FilesInv, TableInv, IsOpen
<1>2. fd + 1 \notin free
  BY <1>1
<1>3. CASE free = {}
  BY <1>1, <1>3 DEF alloc_fd
<1>4. CASE free # {}
  <2>1. free \subseteq Nat
    BY <1>1
  <2>2. alloc_fd(table, g) = [table EXCEPT ![Min(free)] = g]
    BY <1>4 DEF alloc_fd
  <2> HIDE DEF free
  <2>3. Min(free) # fd + 1
    BY <1>2, <1>4, <2>1, MinOf
  <2> QED BY <1>1, <2>2, <2>3
<1> QED BY <1>3, <1>4

(* A write through an appending descriptor keeps the old bytes.            *)
LEMMA AppendKeepsBytes ==
  ASSUME FilesInv, NEW fd \in Nat, NEW data \in Data, NEW n \in 0..Len(data),
         syscall_write(fd, data, n), File(fd).append
  PROVE  IsPrefix(file[File(fd).path].data, file'[File(fd).path].data)
<1> DEFINE p == File(fd).path
           old == file[p].data
           new == file'[p].data
           d == SubSeq(data, 1, n)
<1>1. /\ Exists(p) /\ WritePosition(File(fd)) \in Nat /\ d \in Seq(Nat)
      /\ new = Store!Patched(old, WritePosition(File(fd)), d)
  BY WriteFacts
<1>2. old \in Seq(Nat)
  BY <1>1, FilePath
<1>3. WritePosition(File(fd)) = Len(old)
  BY DEF WritePosition
<1> HIDE DEF old, new, d
<1>4. /\ new \in Seq(Nat) /\ Len(new) >= Len(old)
      /\ \A i \in 1..Len(old) : i <= Len(old) => new[i] = old[i]
  BY <1>1, <1>2, <1>3, PatchedFacts
<1>5. \A i \in 1..Len(old) : new[i] = old[i]
  BY <1>2, <1>4
<1>6. SubSeq(old, 1, Len(old)) = SubSeq(new, 1, Len(old))
  BY <1>2, <1>4, <1>5
<1>7. IsPrefix(old, new)
  BY <1>2, <1>4, <1>6 DEF IsPrefix
<1> QED BY <1>7 DEF old, new, p

(* Appending never overwrites, whatever other descriptors did to the file. *)
THEOREM AppendsSafe == Spec => AppendsKeep
<1> DEFINE Kept == \A fd \in Fds :
                     /\ running /\ running'
                     /\ IsOpen(fd) /\ File(fd).append /\ fd < Len(table')
                     /\ file' # file /\ table'[fd + 1] # table[fd + 1]
                     /\ DOMAIN file' = DOMAIN file
                     => IsPrefix(file[File(fd).path].data, file'[File(fd).path].data)
<1>1. FilesInv /\ [Next]_vars => [Kept]_vars
  <2> SUFFICES ASSUME FilesInv, Next, NEW fd \in Fds, running, running', IsOpen(fd),
                      File(fd).append, file' # file, table'[fd + 1] # table[fd + 1]
               PROVE  IsPrefix(file[File(fd).path].data, file'[File(fd).path].data)
    OBVIOUS
  <2>1. \A x \in Fds : x \in Nat
    BY DescriptorsAssumption
  <2>2. Call
    BY DEF Next, Run, Rm, Touch, write_file, Mv
  <2>3. ASSUME NEW p \in Paths \cup {RootDir}, NEW flags \in OpenFlags,
               syscall_openat(p, flags)
        PROVE  FALSE
    <3>1. PICK g : table' = table \/ table' = alloc_fd(table, g)
      BY <2>3 DEF syscall_openat
    <3> QED BY <2>1, <3>1, OpenSlotsKept
  <2>4. PICK x \in Fds, d \in Data : \E n \in 0..Len(d) : syscall_write(x, d, n)
    BY <2>2, <2>3, Zenon DEF Call, syscall_close, WriteDirectory, syscall_read,
       syscall_lseek, syscall_dup, syscall_dup2, syscall_getdents64, syscall_exit
  <2>5. x = fd
    <3>1. PICK o : table' = [table EXCEPT ![x + 1].offset = o]
      BY <2>4, Zenon DEF syscall_write
    <3>2. fd + 1 \in 1..Len(table) /\ table \in Seq(OpenFiles)
      BY <2>1, OpenSlot, Zenon DEF FilesInv, TableInv
    <3>3. fd + 1 = x + 1
      BY <3>1, <3>2
    <3> QED BY <2>1, <3>3
  <2> QED BY <2>1, <2>4, <2>5, AppendKeepsBytes
<1> QED BY <1>1, FilesInvariant, PTL DEF Spec, AppendsKeep
=============================================================================
