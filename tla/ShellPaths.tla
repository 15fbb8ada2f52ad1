----------------------------- MODULE ShellPaths -----------------------------
(***************************************************************************)
(* Paths.  The shell (shell.rs) removes "." and ".." from what is typed,   *)
(* by text alone, against its working directory; the file system (walk in  *)
(* fs/ext2/mod.rs) goes from directory to directory and follows ".."       *)
(* entries and symbolic links.  A path is the sequence of its components,  *)
(* without the empty ones and "."; "/" as a first component starts at the  *)
(* root, and the empty path is the root as well (CURRENT_DIR starts as "").*)
(***************************************************************************)
EXTENDS Ext2Tree, FiniteSetsExt, SequencesExt

CONSTANTS
  Typed,        \* paths a user types
  MAX_SYMLOOP

ASSUME PathsAssumption == MAX_SYMLOOP \in Nat

pop_path_component(path) == IF path = << >> THEN path ELSE Front(path)

(* Faulty variant: a path that starts at the root is taken as relative.    *)
PathFromCwd(cwd, path) ==
  LET Add(result, c) == CASE c = "/"  -> result
                          [] c = ".." -> pop_path_component(result)
                          [] OTHER    -> Append(result, c)
  IN  FoldLeft(Add, cwd, path)

absolute_path(cwd, path) ==
  LET Add(result, c) == CASE c = "/"  -> << >>
                          [] c = ".." -> pop_path_component(result)
                          [] OTHER    -> Append(result, c)
  IN  FoldLeft(Add, cwd, path)

(* 0 for NotFound and NotDir.                                              *)
lookup(d, c) ==
  IF ~IsDir(d) THEN 0 ELSE IF c = ".." THEN disk.dotdot[d] ELSE Find(d, c)

(* The text of a link, in the inode or in a block of its own.              *)
readlink(i) == disk.inode[i].text

(* One turn of walk's loop.  The components of a link's text go in front   *)
(* of the rest, in place of the recursive call; follow marks the ones      *)
(* whose link is followed, all but perhaps the last one of the caller.     *)
WalkStep(w, k) ==
  LET c    == Head(w.rest)
      rest == Tail(w.rest)
      next == IF c.comp = "/" THEN ROOT_INO ELSE lookup(w.cur, c.comp)
      text == readlink(next)
  IN  IF w.rest = << >> \/ w.cur = 0 THEN w
      ELSE IF next = 0 THEN [w EXCEPT !.cur = 0]
      ELSE IF disk.inode[next].kind = "link" /\ c.follow
        THEN [cur   |-> IF w.depth = MAX_SYMLOOP THEN 0 ELSE w.cur,
              rest  |-> [j \in DOMAIN text |-> [comp |-> text[j], follow |-> TRUE]]
                          \o rest,
              depth |-> w.depth + 1]
      ELSE [w EXCEPT !.cur = next, !.rest = rest]

(* Where path leads from start, and how many links were followed.          *)
resolve(start, path, follow_last) ==
  LET comps == [j \in DOMAIN path |->
                  [comp |-> path[j], follow |-> follow_last \/ j < Len(path)]]
      turns == Len(path) + MAX_SYMLOOP * (Max({Len(t) : t \in Targets}) + 1)
  IN  FoldLeft(WalkStep, [cur |-> start, rest |-> comps, depth |-> 0],
               [k \in 1..turns |-> k])

(* The directory in which a create, link or unlink of path acts.           *)
resolve_parent(start, path) ==
  IF path \in {<< >>, <<"/">>} THEN [cur |-> 0, rest |-> << >>, depth |-> 0]
  ELSE resolve(start, Front(path), TRUE)

----------------------------------------------------------------------------
(* The absolute path of a directory.                                       *)
PathOf(d) ==
  LET up == UpFrom(d)
      depth == Min({k \in DOMAIN up : up[k] = ROOT_INO}) - 1
  IN  [k \in 1..depth |->
         LET i == depth - k + 1
         IN  CHOOSE n \in Names : Find(up[i + 1], n) = up[i]]

(* Taking ".." out by text is right: in any tree the operations make,      *)
(* where the file system gets to from a directory by a typed path without  *)
(* links is what the shell's absolute path for it names, and an operation  *)
(* on the path's last name acts in the same directory for both.            *)
TextualPathsRight ==
  Idle => \A d \in Dirs, path \in Typed :
    LET abs   == absolute_path(PathOf(d), path)
        there == resolve(d, path, TRUE)
        dir   == resolve_parent(d, path)
    IN  /\ there.cur # 0 /\ there.depth = 0 =>
             resolve(ROOT_INO, abs, TRUE).cur = there.cur
        /\ dir.cur # 0 /\ dir.depth = 0 /\ Last(path) # ".." =>
             resolve_parent(ROOT_INO, abs).cur = dir.cur
=============================================================================
