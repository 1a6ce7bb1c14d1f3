--------------------------- MODULE MCProcessCreation ---------------------------
(***************************************************************************)
(* ProcessCreation with three tasks and the clones of fork(), vfork() and  *)
(* pthread_create(), and one that shares in part.                          *)
(***************************************************************************)
EXTENDS ProcessCreation

CONSTANTS t1, t2, t3

MCTask == {t1, t2, t3}
MCCloneFlags ==
  { {}, {"VM", "VFORK"}, {"FILES", "FS"},
    {"FILES", "FS", "SIGHAND", "THREAD", "VM"} }

===============================================================================
