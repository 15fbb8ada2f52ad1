---------------------------- MODULE Descriptors -----------------------------
(***************************************************************************)
(* The file calls of a user program, syscall.rs, on the path-based file    *)
(* system of fs.rs.  A descriptor holds a path, not an inode, and every    *)
(* call resolves it again.  One program runs at a time, with the shell     *)
(* waiting for it; between programs the shell removes and moves files.     *)
(*                                                                         *)
(* The file system is one root directory of regular files; its contents    *)
(* behave as FileStore says (Ext2Blocks shows that they do).  A file has   *)
(* an identity the code does not see, to tell it from another file that    *)
(* later has its name.                                                     *)
(***************************************************************************)
EXTENDS Integers, FiniteSets, SequencesExt

CONSTANTS
  Paths,      \* names of regular files in the root directory
  Data,       \* what programs write
  Disks,      \* root directories to start from
  OpenFlags,  \* records of the flag bits programs pass to open
  Fds,        \* descriptors programs pass
  MaxFds,     \* bound: slots of the descriptor table
  MaxSize,    \* bound: bytes in a file
  MaxFiles,   \* bound: files created in a behaviour
  MaxSteps    \* bound: calls and commands in a behaviour

VARIABLES
  slots,    \* the root directory: a path or Gap in every place
  file,     \* path -> [id, data], for the paths in slots
  created,  \* files created so far
  table,    \* FD_TABLE: Closed or an OpenFile; descriptor n is table[n + 1]
  running,  \* a program runs
  steps,    \* calls and commands so far
  stuck     \* a system call spins on a lock its caller holds

vars == <<slots, file, created, table, running, steps, stuck>>

Gap == "gap"
RootDir == "/"

(* Paths in the slots of a directory, none of them twice.                  *)
IsDirectory(s) ==
  /\ s \in Seq(Paths \cup {Gap})
  /\ \A i, j \in DOMAIN s : s[i] = s[j] /\ s[i] # Gap => i = j

ASSUME DescriptorsAssumption ==
  /\ MaxFds \in Nat /\ Fds \subseteq 0..(MaxFds - 1)
  /\ MaxFds > 3 /\ MaxSize \in Nat \ {0} /\ MaxFiles > 0
  /\ IsFiniteSet(Paths) /\ Paths \cap {Gap, RootDir, "closed"} = {}
  /\ \A d \in Disks : IsDirectory(d)
  /\ Data \subseteq Seq(Nat)
  /\ OpenFlags \subseteq [write : BOOLEAN, append : BOOLEAN, creat : BOOLEAN,
                         excl : BOOLEAN, trunc : BOOLEAN, directory : BOOLEAN]

Store == INSTANCE FileStore WITH
           Files <- Paths, Offsets <- {}, Sizes <- {},
           content <- [p \in DOMAIN file |-> file[p].data]

NoFlags == [write |-> FALSE, append |-> FALSE, creat |-> FALSE, excl |-> FALSE,
            trunc |-> FALSE, directory |-> FALSE]

(* id, due, seen and old are not in the code: the file opened, the entries *)
(* the directory had at that time, those getdents64 has delivered, and     *)
(* that the slot comes from an earlier program.  Of the flags, later calls *)
(* look at the access mode and O_APPEND.                                   *)
OpenFile(path, flags, id, due) ==
  [path |-> path, offset |-> 0, write |-> flags.write, append |-> flags.append,
   id |-> id, due |-> due, seen |-> {}, old |-> FALSE]

(* The empty path of a standard stream resolves to the root directory.     *)
Standard == OpenFile(RootDir, NoFlags, 0, {})

Closed == OpenFile("closed", NoFlags, 0, {})

(* A directory's entries, and how many of them precede slot i.             *)
Occupied(s) == {i \in DOMAIN s : s[i] # Gap}

Rank(s, i) == Cardinality({j \in Occupied(s) : j < i})

EntryCount == Cardinality(Occupied(slots))

(* n entries, the first start of them skipped.                             *)
Listed(start, n) ==
  {slots[i] : i \in {j \in Occupied(slots) :
                       Rank(slots, j) \in start..(start + n - 1)}}

(* In bytes: more than it has entries.                                     *)
DirectorySize == Cardinality(Paths) + 1

Exists(p) == p \in DOMAIN file

IsOpen(fd) == fd < Len(table) /\ table[fd + 1].path # Closed.path

File(fd) == table[fd + 1]

----------------------------------------------------------------------------
(* A directory's slots with a new entry, which goes into the first gap,    *)
(* and with an entry removed.                                              *)
WithEntry(s, p) ==
  LET gaps == {i \in DOMAIN s : s[i] = Gap}
  IN  IF gaps = {} THEN Append(s, p) ELSE [s EXCEPT ![Min(gaps)] = p]

Emptied(s, p) == [i \in DOMAIN s |-> IF s[i] = p THEN Gap ELSE s[i]]

NewFile(p) ==
  [q \in DOMAIN file \cup {p} |->
     IF q = p THEN [id |-> created + 1, data |-> << >>] ELSE file[q]]

(* The lowest closed descriptor from 3 on.                                 *)
alloc_fd(tab, f) ==
  LET free == {i \in 4..Len(tab) : tab[i].path = Closed.path}
  IN  IF free = {} THEN Append(tab, f) ELSE [tab EXCEPT ![Min(free)] = f]

(* With O_CREAT and O_EXCL the answer is EEXIST whether the file was there *)
(* or has just been created; ENOTDIR may come after creating it too.       *)
syscall_openat(p, flags) ==
  LET isNew  == p # RootDir /\ ~Exists(p)
      after  == IF isNew THEN NewFile(p) ELSE file
      fails  == \/ flags.creat /\ flags.excl
                \/ flags.directory /\ p # RootDir
      opened == IF p = RootDir THEN OpenFile(p, flags, 0, DOMAIN file)
                ELSE OpenFile(p, flags, after[p].id, {})
  IN  /\ isNew => flags.creat /\ created < MaxFiles
      /\ slots' = IF isNew THEN WithEntry(slots, p) ELSE slots
      /\ created' = IF isNew THEN created + 1 ELSE created
      /\ file' = IF flags.trunc /\ p # RootDir /\ ~fails
                   THEN [after EXCEPT ![p].data = << >>] ELSE after
      /\ table' = IF fails THEN table ELSE alloc_fd(table, opened)
      /\ Len(table') <= MaxFds
      /\ UNCHANGED <<running, stuck>>

syscall_close(fd) ==
  /\ IsOpen(fd)
  /\ table' = [table EXCEPT ![fd + 1] = Closed]
  /\ UNCHANGED <<slots, file, created, running, stuck>>

(* Faulty variant: the position of the last call is used.                  *)
AppendAtOffset(f) == f.offset

WritePosition(f) == IF f.append THEN Len(file[f.path].data) ELSE f.offset

(* Descriptors 1 and 2 always go to the console.  n bytes are written,     *)
(* fewer than asked when the disk is full.                                 *)
syscall_write(fd, data, n) ==
  LET f  == File(fd)
      at == WritePosition(f)
      d  == SubSeq(data, 1, n)
  IN  /\ fd \notin {1, 2} /\ IsOpen(fd) /\ f.write /\ Exists(f.path)
      /\ at + n <= MaxSize
      /\ file' = [file EXCEPT ![f.path].data = Store!Patched(@, at, d)]
      /\ table' = [table EXCEPT ![fd + 1].offset = at + n]
      /\ UNCHANGED <<slots, created, running, stuck>>

(* A directory can be opened for writing.  The write is refused, but       *)
(* O_APPEND has moved the position to the directory's size by then.        *)
WriteDirectory(fd) ==
  /\ fd \notin {1, 2} /\ IsOpen(fd) /\ File(fd).write /\ File(fd).append
  /\ File(fd).path = RootDir
  /\ table' = [table EXCEPT ![fd + 1].offset = DirectorySize]
  /\ UNCHANGED <<slots, file, created, running, stuck>>

(* The position moves once the bytes are in the program's memory: a bad    *)
(* buffer leaves it alone.  Descriptor 0 reads nothing.                    *)
syscall_read(fd, len) ==
  LET f == File(fd)
      n == Min({len, Max({Len(file[f.path].data) - f.offset, 0})})
  IN  /\ fd # 0 /\ IsOpen(fd) /\ Exists(f.path)
      /\ table' = [table EXCEPT ![fd + 1].offset = @ + n]
      /\ UNCHANGED <<slots, file, created, running, stuck>>

(* A directory is rewound to its start; a position elsewhere in it is the  *)
(* program's own choice and is left out.                                   *)
syscall_lseek(fd, off, whence) ==
  LET f    == File(fd)
      base == CASE whence = 0 -> 0
                [] whence = 1 -> f.offset
                [] whence = 2 -> Len(file[f.path].data)
  IN  /\ IsOpen(fd)
      /\ \/ Exists(f.path)
         \/ f.path = RootDir /\ whence = 0 /\ off = 0
      /\ base + off \in 0..MaxSize
      /\ table' = [table EXCEPT ![fd + 1].offset = base + off]
      /\ UNCHANGED <<slots, file, created, running, stuck>>

(* dup holds FD_TABLE when alloc_fd locks it again; system calls run with  *)
(* interrupts off, so nothing ever ends the wait.                          *)
syscall_dup(fd) ==
  /\ IsOpen(fd)
  /\ stuck' = TRUE
  /\ UNCHANGED <<slots, file, created, table, running>>

(* The copy has a position of its own.                                     *)
syscall_dup2(fd, newfd) ==
  LET grown == table \o [k \in 1..(newfd + 1 - Len(table)) |-> Closed]
  IN  /\ fd # newfd /\ IsOpen(fd)
      /\ table' = [grown EXCEPT ![newfd + 1] = File(fd)]
      /\ UNCHANGED <<slots, file, created, running, stuck>>

(* Faulty variant: the entry that did not fit is skipped.                  *)
PastUnfit(start, n, total) == IF start + n < total THEN start + n + 1 ELSE start + n

NextStart(start, n, total) == start + n

(* As many entries, from the index in offset on, as the buffer holds.      *)
syscall_getdents64(fd, room) ==
  LET f     == File(fd)
      start == f.offset
      n     == Min({room, EntryCount - start})
  IN  /\ IsOpen(fd) /\ f.path = RootDir
      /\ start < EntryCount
      /\ table' = [table EXCEPT
                     ![fd + 1].offset = NextStart(start, n, EntryCount),
                     ![fd + 1].seen = @ \cup Listed(start, n)]
      /\ UNCHANGED <<slots, file, created, running, stuck>>

----------------------------------------------------------------------------
(* The program's end, and what the shell does between programs.            *)

(* Faulty variant: the table of the last program stays.                    *)
KeepFds(tab) == tab

(* Only descriptors from 3 on go: a standard stream that was closed or     *)
(* replaced stays so for the programs to come.                             *)
reset_process_fds(tab) == [i \in 1..3 |-> [tab[i] EXCEPT !.old = TRUE]]

syscall_exit ==
  /\ running' = FALSE
  /\ table' = reset_process_fds(table)
  /\ UNCHANGED <<slots, file, created, stuck>>

Run ==
  /\ ~running
  /\ running' = TRUE
  /\ UNCHANGED <<slots, file, created, table, stuck>>

Rm(p) ==
  /\ ~running /\ Exists(p)
  /\ slots' = Emptied(slots, p)
  /\ file' = [q \in DOMAIN file \ {p} |-> file[q]]
  /\ UNCHANGED <<created, table, running, stuck>>

Touch(p) ==
  /\ ~running /\ ~Exists(p) /\ created < MaxFiles
  /\ slots' = WithEntry(slots, p) /\ file' = NewFile(p) /\ created' = created + 1
  /\ UNCHANGED <<table, running, stuck>>

(* A file that exists keeps its inode and loses its bytes; the first n of  *)
(* the new ones fit on the disk.                                           *)
write_file(p, data, n) ==
  /\ ~running
  /\ LET isNew == ~Exists(p)
         after == IF isNew THEN NewFile(p) ELSE file
     IN  /\ isNew => created < MaxFiles
         /\ slots' = IF isNew THEN WithEntry(slots, p) ELSE slots
         /\ created' = IF isNew THEN created + 1 ELSE created
         /\ file' = [after EXCEPT ![p].data = SubSeq(data, 1, n)]
  /\ UNCHANGED <<table, running, stuck>>

(* A new name takes the first gap before the old one's place is given up.  *)
Mv(p, q) ==
  /\ ~running /\ Exists(p) /\ p # q
  /\ slots' = Emptied(WithEntry(Emptied(slots, q), q), p)
  /\ file' = [r \in (DOMAIN file \ {p}) \cup {q} |->
                IF r = q THEN file[p] ELSE file[r]]
  /\ UNCHANGED <<created, table, running, stuck>>

----------------------------------------------------------------------------
Init ==
  /\ slots \in Disks
  /\ file = [p \in Range(slots) \ {Gap} |->
               [id |-> Min({i \in DOMAIN slots : slots[i] = p}), data |-> << >>]]
  /\ created = Len(slots)
  /\ table = <<Standard, Standard, Standard>>
  /\ running = FALSE
  /\ steps = 0
  /\ stuck = FALSE

Call ==
  /\ running
  /\ \/ \E p \in Paths \cup {RootDir}, flags \in OpenFlags : syscall_openat(p, flags)
     \/ \E fd \in Fds :
          \/ syscall_close(fd)
          \/ \E d \in Data : \E n \in 0..Len(d) : syscall_write(fd, d, n)
          \/ WriteDirectory(fd)
          \/ \E len \in 1..2 : syscall_read(fd, len)
          \/ \E off \in -1..1, whence \in 0..2 : syscall_lseek(fd, off, whence)
          \/ syscall_dup(fd)
          \/ \E newfd \in Fds : syscall_dup2(fd, newfd)
          \/ \E room \in 1..2 : syscall_getdents64(fd, room)
     \/ syscall_exit

Next ==
  /\ ~stuck
  /\ steps < MaxSteps /\ steps' = steps + 1
  /\ \/ Call
     \/ Run
     \/ \E p \in Paths : Rm(p) \/ Touch(p)
     \/ \E p \in Paths, d \in Data : \E n \in 0..Len(d) : write_file(p, d, n)
     \/ \E p, q \in Paths : Mv(p, q)

Spec == Init /\ [][Next]_vars

----------------------------------------------------------------------------
(* A descriptor is good for its file: although it holds only a path, and   *)
(* files are removed, moved and made anew between programs, the path names *)
(* the very file that open found or made, for as long as the program that  *)
(* opened it runs.                                                         *)
PathsStayTrue ==
  \A fd \in 0..(Len(table) - 1) :
    IsOpen(fd) /\ ~File(fd).old /\ File(fd).path # RootDir =>
      Exists(File(fd).path) /\ file[File(fd).path].id = File(fd).id

(* Appending keeps everything that was there: a write through a descriptor *)
(* opened with O_APPEND (the one whose offset moves) leaves the old bytes  *)
(* in place, whatever other descriptors did to the file in between.        *)
AppendsKeep ==
  [][\A fd \in Fds :
       /\ running /\ running'
       /\ IsOpen(fd) /\ File(fd).append /\ fd < Len(table')
       /\ file' # file /\ table'[fd + 1] # table[fd + 1]
       /\ DOMAIN file' = DOMAIN file
       => IsPrefix(file[File(fd).path].data, file'[File(fd).path].data)]_vars

(* A listing misses nothing: when getdents64 has no more to deliver, it    *)
(* has delivered every entry the directory had when it was opened, though  *)
(* it goes by index and files created meanwhile move the others along.     *)
(* (Not so for a directory opened with O_APPEND: a refused write to it     *)
(* moves the index past the end.)                                          *)
ListingComplete ==
  \A fd \in 0..(Len(table) - 1) :
    /\ IsOpen(fd) /\ ~File(fd).old /\ ~File(fd).append
    /\ File(fd).path = RootDir /\ File(fd).offset >= EntryCount
    => File(fd).due \subseteq File(fd).seen
=============================================================================
