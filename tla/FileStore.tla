----------------------------- MODULE FileStore ------------------------------
(***************************************************************************)
(* What the file system promises about the bytes of a file, whatever       *)
(* blocks they are in: a write replaces a prefix of what it was given,     *)
(* starting at its offset (less than all of it when the disk is full), and *)
(* every byte nobody wrote, in a gap or past an old end, reads as zero.    *)
(***************************************************************************)
EXTENDS Naturals, Sequences

CONSTANTS Files, Data, Offsets, Sizes

MaxLen == CHOOSE n \in {Len(d) : d \in Data} : \A d \in Data : Len(d) <= n

VARIABLE content  \* file -> its bytes

Byte(s, i) == IF i <= Len(s) THEN s[i] ELSE 0

Patched(s, off, d) ==
  LET end == IF off + Len(d) > Len(s) THEN off + Len(d) ELSE Len(s)
  IN  [i \in 1..end |-> IF i \in (off + 1)..(off + Len(d))
                          THEN d[i - off] ELSE Byte(s, i)]

Resized(s, n) == [i \in 1..n |-> Byte(s, i)]

StoreInit == content = [f \in Files |-> << >>]

(* What a file holding s may hold after one operation.                     *)
Written(s) ==
  {Patched(s, w[1], SubSeq(w[2], 1, w[3])) :
     w \in {v \in Offsets \X Data \X (1..MaxLen) : v[3] <= Len(v[2])}}

Cut(s) == {Resized(s, n) : n \in Sizes \cup {0}}

Step(old, new) ==
  \E f \in Files : /\ new[f] \in Written(old[f]) \cup Cut(old[f])
                   /\ \A g \in Files \ {f} : new[g] = old[g]

StoreNext == Step(content, content')

StoreSpec == StoreInit /\ [][StoreNext]_content
=============================================================================
