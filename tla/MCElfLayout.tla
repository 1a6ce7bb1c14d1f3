------------------------------ MODULE MCElfLayout ------------------------------
(***************************************************************************)
(* ElfLayout in an address space of sixteen bytes, twelve of them for the  *)
(* user, and pages of two: binaries of one segment with any header, of two *)
(* segments with many, and a few with an interpreter.                      *)
(***************************************************************************)
EXTENDS ElfLayout

Header(v, o, f, m, w) == [vaddr |-> v, offset |-> o, filesz |-> f, memsz |-> m, rw |-> w]

One ==
  { <<Header(v, o, f, m, w)>> :
      v \in Unsigned, o \in {0, 1, 2}, f \in {0, 1, 2, 3, 15}, m \in Unsigned, w \in BOOLEAN }
Two ==
  { <<Header(v, v % 2, f, m, w), Header(x, (x % 2) + 2, g, n, TRUE)>> :
      v \in 0 .. 3, f \in 0 .. 2, m \in 0 .. 4, w \in BOOLEAN,
      x \in {1, 4, 5, 6, 7, 11, 14}, g \in 0 .. 3, n \in {0, 1, 2, 3, 4, 12, 14} }
Three ==
  { <<Header(0, 0, 1, m, TRUE), Header(x, x % 2, g, n, TRUE), Header(6, 4, 1, 3, TRUE)>> :
      m \in 1 .. 3, x \in {2, 3, 4}, g \in 0 .. 2, n \in 0 .. 3 }
Plain == { <<Header(0, 0, 1, m, TRUE)>> : m \in 1 .. 3 }
Interps ==
  { <<Header(v, v % 2, f, f, FALSE), Header(v + 3, (v % 2) + 3, g, n, TRUE)>> :
      v \in 0 .. 1, f \in 0 .. 2, g \in 0 .. 2, n \in {0, 1, 2, 3, 15} }
    \cup { <<Header(0, 0, 1, 1, FALSE), Header(12, 2, 2, 6, TRUE)>> }

MCImages ==
  [dyn : BOOLEAN, phdr : One \cup Two \cup Three, interp : {<<>>}, interpDyn : {TRUE}]
    \cup [dyn : BOOLEAN, phdr : Plain, interp : Interps, interpDyn : BOOLEAN]

===============================================================================
