----------------------------- MODULE MCArgvString -----------------------------
(***************************************************************************)
(* ArgvString for TLC: every string of up to six characters that has a     *)
(* delimiter, the other characters all different; two calls before the     *)
(* unload.  Tables of 1, 2 and 4 slots of 8 bytes fill a block of          *)
(* kmalloc(), tables of 3, 5 and 6 do not.                                 *)
(***************************************************************************)
EXTENDS ArgvString

CONSTANT bar

MCStrings ==
  {[k \in 1 .. n |-> IF k \in D THEN bar ELSE k] :
     <<n, D>> \in {<<n, D>> \in (1 .. 6) \X (SUBSET (1 .. 6)) : D # {} /\ D \subseteq 1 .. n}}

MCFullSlots == {1, 2, 4, 8}

===============================================================================
