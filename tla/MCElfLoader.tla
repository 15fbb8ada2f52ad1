---------------------------- MODULE MCElfLoader ----------------------------
(***************************************************************************)
(* Pages of 4 bytes, a user half of 6 pages whose 4th is the stack.        *)
(***************************************************************************)
EXTENDS ElfLoader

Load(w, x, offset, vaddr, filesz, memsz) ==
  [typ |-> "LOAD", w |-> w, x |-> x, offset |-> offset, vaddr |-> vaddr,
   filesz |-> filesz, memsz |-> memsz]

Image(kind, phentsize) ==
  [len |-> 8, ident |-> "ok", kind |-> kind, phoff |-> 2, phentsize |-> phentsize]

MCImages ==
  {Image("EXEC", 3), Image("DYN", 2), Image("REL", 2), Image("DYN", 1),
   [Image("DYN", 2) EXCEPT !.len = 1], [Image("DYN", 2) EXCEPT !.phoff = 5],
   [Image("DYN", 2) EXCEPT !.ident = "BadMagic"],
   [Image("DYN", 2) EXCEPT !.ident = "WrongMachine"]}

MCProgramHeaders ==
  {Load(w, x, 1, vaddr, filesz, memsz) :
     w \in BOOLEAN, x \in BOOLEAN, vaddr \in {0, 3, 6, 9},
     filesz \in {0, 3}, memsz \in {1, 6}}
  \cup {Load(TRUE, FALSE, 3, vaddr, filesz, memsz) :
          vaddr \in {2, 19, 28}, filesz \in {3, 6}, memsz \in {0, 5, 6}}
  \cup {[Load(FALSE, FALSE, 0, 0, 0, 0) EXCEPT !.typ = t] :
          t \in {"INTERP", "NOTE"}}
=============================================================================
