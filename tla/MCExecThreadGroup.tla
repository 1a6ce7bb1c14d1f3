-------------------------- MODULE MCExecThreadGroup ---------------------------
(***************************************************************************)
(* ExecThreadGroup for TLC.                                                *)
(***************************************************************************)
EXTENDS ExecThreadGroup

CONSTANTS t1, t2, t3, t4

MCTask == {t1, t2, t3}
MCThreads == {t1, t2, t3, t4}

\* Threads and processes, sharing the fs_struct or not.
AllClones == BOOLEAN \X BOOLEAN

\* Threads only.
ThreadClones == {<<TRUE, TRUE>>}

===============================================================================
