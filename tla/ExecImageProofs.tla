--------------------------- MODULE ExecImageProofs ---------------------------
(***************************************************************************)
(* What ExecImage promises of an exec, for any files and formats and any   *)
(* finite set of mms: whatever fails, all that was taken is given back     *)
(* once, the users of an mm are counted, an exec that fails leaves what it *)
(* found, and a handler reads the header of its own file; and of the       *)
(* registry, that a format stays on the list while somebody refers to it.  *)
(***************************************************************************)
EXTENDS ExecImage, FiniteSetTheorems, SequenceTheorems, WellFoundedInduction, TLAPS

-------------------------------------------------------------------------------
(* The inductive invariant.                                                *)

\* Where an exec is.  bprm has an mm of its own until it is flushed.
Outside == {"user", "dead", "outFiles"}
Early == {"creds", "open", "name", "mm"}
Finding == {"strings", "search", "load", "end", "interp", "reopen"}
ElfEarly == {"ptInterp", "openInterp", "readInterp", "flush"}
ElfLate == {"map", "mapInterp", "binfmt", "install", "tables"}
Unflushed == Finding \cup ElfEarly
InElf == ElfEarly \cup ElfLate

Phdrs == {"elf_phdata", "interp_elf_phdata"}
ElfBlocks == Phdrs \cup {"elf_interpreter"}

Types ==
  /\ users \in [Mm -> Int]
  /\ mm \in Mm \cup {NoMm} /\ sharer \in Mm \cup {NoMm}
  /\ files \in {"own", "shared"}
  /\ bprm \in [file : File \cup {NoFile}, interp : {"filename", "own", "NULL"},
               mm : Mm \cup {NoMm}, cred : BOOLEAN]
  /\ displaced \in BOOLEAN /\ sigsegv \in BOOLEAN
  /\ elf \in [interpreter : File \cup {NoFile}, set : SUBSET ElfBlocks]
  /\ opened \in [File -> Int]
  /\ before \in [mm : Mm \cup {NoMm}, files : {"own", "shared"}]

\* The binprm at each stage of the exec.
Bprm ==
  /\ pc \in Outside \cup {"creds"} => bprm = NoBprm
  /\ pc \in {"open", "interp", "reopen"} => bprm.file = NoFile
  /\ pc \in Early \cup ElfLate \cup {"outFree", "done"} => bprm.mm = NoMm
  /\ pc \in Unflushed => bprm.mm # NoMm
  /\ pc \in (Early \cup InElf \cup Finding) \ {"creds", "tables"} => bprm.cred
  /\ pc = "return" /\ bprm.mm # NoMm => bprm.cred
  /\ pc = "tables" => ~bprm.cred
  /\ bprm.mm # NoMm => bprm.mm # mm

\* The locals of load_elf_binary() at each of its stages.
Locals ==
  /\ pc \notin InElf => elf = NoElf
  /\ pc = "ptInterp" => elf = [interpreter |-> NoFile, set |-> {"elf_phdata"}]
  /\ pc \in {"openInterp", "readInterp"} => elf.set = {"elf_phdata", "elf_interpreter"}
  /\ pc = "openInterp" => elf.interpreter = NoFile
  /\ pc = "readInterp" => elf.interpreter \in File
  /\ pc = "mapInterp" => "elf_interpreter" \in elf.set
  /\ pc \in {"flush", "map"} /\ elf.interpreter = NoFile => "elf_interpreter" \notin elf.set
  /\ pc \in {"flush", "map"} /\ elf.interpreter # NoFile => "elf_interpreter" \in elf.set

\* What is allocated or locked is what the exec has to free when it fails now.
Held ==
  {"bprm"} \cup (live \cap {"pathbuf"})
    \cup (IF bprm.cred THEN {"cred", "cred_guard_mutex"} ELSE {})
    \cup (IF bprm.interp = "own" THEN {"interp"} ELSE {})
    \cup (IF pc \in InElf THEN {"loc"} ELSE {})
    \cup (IF pc \in ElfEarly \cup {"map", "mapInterp"} THEN elf.set ELSE {})
    \cup (IF pc = "binfmt" THEN elf.set \cap Phdrs ELSE {})
Allocated ==
  /\ faulty = FALSE
  /\ live = IF pc \in Outside THEN {} ELSE Held
  /\ pc \in {"creds", "open", "name"} => "pathbuf" \notin live

\* A file is open for bprm->file, or as the interpreter until that is mapped.
Opens(f) ==
  (IF f = bprm.file THEN 1 ELSE 0)
    + (IF f = elf.interpreter /\ pc \notin {"binfmt", "install", "tables"} THEN 1 ELSE 0)
OpenedFor == \A f \in File : opened[f] = Opens(f)

UsersOf(m) ==
  (IF m = mm THEN 1 ELSE 0) + (IF m = sharer THEN 1 ELSE 0)
    + (IF m = bprm.mm THEN 1 ELSE 0)
Counted == \A m \in Mm : users[m] = UsersOf(m)

\* What an exec has changed, and what forces the task to die if it fails now.
Changed ==
  /\ pc \in Early \cup Unflushed => mm = before.mm /\ ~sigsegv /\ ret # "ok"
  /\ pc \in ElfLate => mm # before.mm /\ ~sigsegv
  /\ pc = "return" =>
       /\ bprm.mm # NoMm => mm = before.mm /\ ~sigsegv /\ ret # "ok"
       /\ bprm.mm = NoMm => mm # before.mm
       /\ ret = "ok" => ~sigsegv /\ ~bprm.cred
  /\ pc = "out" => sigsegv \/ (mm = before.mm /\ bprm.mm # NoMm)
  /\ pc \in {"outFree", "outFiles"} => sigsegv \/ mm = before.mm
  /\ pc = "done" => ret = "ok"
Displaced ==
  /\ pc \in {"user", "dead"} => ~displaced
  /\ pc \notin {"user", "dead"} => files = "own"
  /\ pc \notin {"user", "dead"} => (displaced <=> before.files = "shared")

\* The header in bprm->buf is that of bprm->file as long as a format may be asked.
Header ==
  /\ pc \in {"search", "load", "end", "ptInterp", "openInterp"} => buf = bprm.file
  /\ pc = "return" /\ ret = "ENOEXEC" /\ bprm.file # NoFile => buf = bprm.file

IInv ==
  /\ Types /\ Bprm /\ Locals /\ Allocated /\ OpenedFor /\ Counted /\ Changed /\ Displaced
  /\ Header /\ FailedExecUndone

\* Every lemma is about where an exec is and about the parts of the invariant.
USE FormatAssumption
    DEF Outside, Early, Finding, ElfEarly, ElfLate, Unflushed, InElf, NoBprm, NoElf, Phdrs,
        ElfBlocks, IInv, Goto

-------------------------------------------------------------------------------
(* The heap.                                                               *)

\* What frees blocks that are there frees them once,
LEMMA KfreeStep ==
  ASSUME faulty = FALSE, NEW freed, Kfree(freed), freed \subseteq live
  PROVE  faulty' = FALSE /\ live' = live \ freed
<1>1. {} \cap (live \ freed) = {}
  OBVIOUS
<1>2. faulty' = FALSE
  BY <1>1 DEF Kfree, Heap
<1> QED
  BY <1>2 DEF Kfree, Heap

\* and what allocates blocks that are not there loses none.
LEMMA KmallocStep ==
  ASSUME faulty = FALSE, NEW new, Kmalloc(new), new \cap live = {}
  PROVE  faulty' = FALSE /\ live' = live \cup new
<1>1. {} \subseteq live /\ live \ {} = live
  OBVIOUS
<1>2. faulty' = FALSE
  BY <1>1 DEF Kmalloc, Heap
<1> QED
  BY <1>1, <1>2 DEF Kmalloc, Heap

-------------------------------------------------------------------------------
(* The start of the exec.                                                  *)

\* An exec starts from a task that has nothing of one: its files become its own.
LEMMA ExecveIInv == ASSUME IInv, Execve PROVE IInv'
<1> USE DEF Execve, Kmalloc, moduleVars, mmVars, Heap
<1>1. Types' /\ Bprm' /\ Locals'
  BY DEF Types, Bprm, Locals
<1>2. Allocated'
  BY DEF Allocated, Held, Types, Bprm
<1>3. OpenedFor' /\ Counted'
  BY DEF OpenedFor, Opens, Counted, UsersOf
<1>4. Changed' /\ Displaced' /\ Header' /\ FailedExecUndone'
  BY DEF Changed, Displaced, Header, FailedExecUndone
<1> QED
  BY <1>1, <1>2, <1>3, <1>4

\* The creds and their mutex come together.
LEMMA PrepareCredsIInv == ASSUME IInv, PrepareCreds PROVE IInv'
<1> USE DEF PrepareCreds, Kmalloc, moduleVars, mmVars, searchVars, Heap
<1>1. Types'
  <2>1. bprm' \in [file : File \cup {NoFile}, interp : {"filename", "own", "NULL"},
                  mm : Mm \cup {NoMm}, cred : BOOLEAN]
    <3>1. bprm' = bprm \/ bprm' = [bprm EXCEPT !.cred = TRUE]
      OBVIOUS
    <3>2. bprm \in [file : File \cup {NoFile}, interp : {"filename", "own", "NULL"},
                     mm : Mm \cup {NoMm}, cred : BOOLEAN]
      BY DEF Types
    <3> HIDE DEF PrepareCreds
    <3> QED
      BY <3>1, <3>2
  <2>2. sigsegv' \in BOOLEAN /\ displaced' \in BOOLEAN
    BY DEF Types
  <2> QED
    BY <2>1, <2>2 DEF Types
<1>2. Bprm' /\ Locals'
  BY DEF Bprm, Locals
<1>3. Allocated'
  BY DEF Allocated, Held, Types, Bprm
<1>4. OpenedFor' /\ Counted'
  BY DEF OpenedFor, Opens, Counted, UsersOf, Bprm
<1>5. Changed' /\ Displaced' /\ Header' /\ FailedExecUndone'
  BY DEF Changed, Displaced, Header, FailedExecUndone
<1> QED
  BY <1>1, <1>2, <1>3, <1>4, <1>5

\* The file is counted for bprm.
LEMMA OpenFileIInv == ASSUME IInv, OpenFile PROVE IInv'
<1> USE DEF OpenFile, Open, moduleVars, mmVars, searchVars
<1>1. Types' /\ Bprm' /\ Locals'
  BY DEF Types, Bprm, Locals
<1>2. Allocated'
  BY DEF Allocated, Held, Types, Bprm
<1>3. OpenedFor' /\ Counted'
  BY DEF OpenedFor, Opens, Counted, UsersOf, Types, Bprm
<1>4. Changed' /\ Displaced' /\ Header' /\ FailedExecUndone'
  BY DEF Changed, Displaced, Header, FailedExecUndone
<1> QED
  BY <1>1, <1>2, <1>3, <1>4

\* The path, if one is made, is freed with bprm.
LEMMA NameIInv == ASSUME IInv, Name PROVE IInv'
<1> USE DEF Name, Kmalloc, moduleVars, mmVars, bprmVars, searchVars, Heap
<1>1. Types'
  BY DEF Types
<1>2. Bprm' /\ Locals'
  BY DEF Bprm, Locals
<1>3. Allocated'
  <2>1. \/ Kmalloc({"pathbuf"}) /\ {"pathbuf"} \cap live = {}
        \/ UNCHANGED <<live, faulty>>
    BY DEF Allocated, Held
  <2>2. faulty' = FALSE
    BY <2>1, KfreeStep, KmallocStep DEF Allocated
  <2>3. live' = (IF pc \in Outside THEN {} ELSE Held)'
    BY DEF Allocated, Held
  <2>4. (pc \in {"creds", "open", "name"} => "pathbuf" \notin live)'
    BY DEF Allocated
  <2> QED
    BY <2>2, <2>3, <2>4 DEF Allocated
<1>4. OpenedFor' /\ Counted'
  BY DEF OpenedFor, Opens, Counted, UsersOf
<1>5. Changed' /\ Displaced' /\ Header' /\ FailedExecUndone'
  BY DEF Changed, Displaced, Header, FailedExecUndone
<1> QED
  BY <1>1, <1>2, <1>3, <1>4, <1>5

\* The new mm had no user, so it is not the task's; bprm is its one user.
LEMMA BprmMmInitIInv == ASSUME IInv, BprmMmInit PROVE IInv'
<1> USE DEF BprmMmInit, moduleVars, heapVars, searchVars
<1>1. Types' /\ Bprm' /\ Locals'
  BY DEF Types, Bprm, Locals, Counted, UsersOf
<1>2. Allocated'
  BY DEF Allocated, Held, Types, Bprm
<1>3. OpenedFor' /\ Counted'
  BY DEF OpenedFor, Opens, Counted, UsersOf, Types, Bprm
<1>4. Changed' /\ Displaced' /\ Header' /\ FailedExecUndone'
  BY DEF Changed, Displaced, Header, FailedExecUndone
<1> QED
  BY <1>1, <1>2, <1>3, <1>4

\* The header of the file is read before a format is searched.
LEMMA CopyStringsIInv == ASSUME IInv, CopyStrings PROVE IInv'
<1> USE DEF CopyStrings, moduleVars, mmVars, heapVars, searchVars
<1>1. Types' /\ Bprm' /\ Locals'
  BY DEF Types, Bprm, Locals
<1>2. Allocated'
  BY DEF Allocated, Held
<1>3. OpenedFor' /\ Counted'
  BY DEF OpenedFor, Opens, Counted, UsersOf
<1>4. Changed' /\ Displaced' /\ Header' /\ FailedExecUndone'
  BY DEF Changed, Displaced, Header, FailedExecUndone, Bprm
<1> QED
  BY <1>1, <1>2, <1>3, <1>4

-------------------------------------------------------------------------------
(* The search for a format, and formats that rewrite.                      *)

\* A search begins or is refused; bprm is as it was.
LEMMA SearchIInv == ASSUME IInv, Search PROVE IInv'
<1> USE DEF Search, Walk, Return, mmVars, bprmVars, heapVars
<1>1. Types' /\ Bprm' /\ Locals'
  BY DEF Types, Bprm, Locals
<1>2. Allocated'
  BY DEF Allocated, Held
<1>3. OpenedFor' /\ Counted'
  BY DEF OpenedFor, Opens, Counted, UsersOf
<1>4. Changed' /\ Displaced' /\ Header' /\ FailedExecUndone'
  BY DEF Changed, Displaced, Header, FailedExecUndone, Bprm
<1> QED
  BY <1>1, <1>2, <1>3, <1>4

\* A format is asked again only with the file and the header of before.
LEMMA HandlerReturnsIInv == ASSUME IInv, HandlerReturns PROVE IInv'
<1> USE DEF HandlerReturns, Return, Walk, mmVars, bprmVars, heapVars
<1>1. Types'
  <2>1. bprm' \in [file : File \cup {NoFile}, interp : {"filename", "own", "NULL"},
                  mm : Mm \cup {NoMm}, cred : BOOLEAN]
    BY DEF Types
  <2>2. sigsegv' \in BOOLEAN /\ displaced' \in BOOLEAN
    BY DEF Types
  <2> QED
    BY <2>1, <2>2 DEF Types
<1>2. Bprm' /\ Locals'
  BY DEF Bprm, Locals, Types, Changed
<1>3. Allocated'
  BY DEF Allocated, Held
<1>4. OpenedFor' /\ Counted'
  BY DEF OpenedFor, Opens, Counted, UsersOf
<1>5. Changed' /\ Displaced' /\ Header' /\ FailedExecUndone'
  BY DEF Changed, Displaced, Header, FailedExecUndone
<1> QED
  BY <1>1, <1>2, <1>3, <1>4, <1>5

\* The list is tried again with the same header.
LEMMA EndOfFormatsIInv == ASSUME IInv, EndOfFormats PROVE IInv'
<1> USE DEF EndOfFormats, Return, Walk, mmVars, bprmVars, heapVars
<1>1. Types' /\ Bprm' /\ Locals'
  BY DEF Types, Bprm, Locals, Changed
<1>2. Allocated'
  BY DEF Allocated, Held
<1>3. OpenedFor' /\ Counted'
  BY DEF OpenedFor, Opens, Counted, UsersOf
<1>4. Changed' /\ Displaced' /\ Header' /\ FailedExecUndone'
  BY DEF Changed, Displaced, Header, FailedExecUndone, Bprm
<1> QED
  BY <1>1, <1>2, <1>3, <1>4

\* A format that does not know the file leaves everything as it was.
LEMMA RefuseIInv == ASSUME IInv, NEW fmt, Refuse(fmt) PROVE IInv'
<1> USE DEF Refuse, Loading, Returns, moduleVars, mmVars, bprmVars, heapVars
<1>1. Types' /\ Bprm' /\ Locals'
  BY DEF Types, Bprm, Locals
<1>2. Allocated'
  BY DEF Allocated, Held
<1>3. OpenedFor' /\ Counted'
  BY DEF OpenedFor, Opens, Counted, UsersOf
<1>4. Changed' /\ Displaced' /\ Header' /\ FailedExecUndone'
  BY DEF Changed, Displaced, Header, FailedExecUndone, Bprm
<1> QED
  BY <1>1, <1>2, <1>3, <1>4

\* The file is given back, and bprm has none.
LEMMA RewriteIInv == ASSUME IInv, NEW fmt, Rewrite(fmt) PROVE IInv'
<1> USE DEF Rewrite, Loading, Close, Returns, moduleVars, mmVars
<1>1. Types' /\ Bprm' /\ Locals'
  BY DEF Types, Bprm, Locals
<1>2. Allocated'
  BY DEF Allocated, Held
<1>3. OpenedFor' /\ Counted'
  BY DEF OpenedFor, Opens, Counted, UsersOf
<1>4. Changed' /\ Displaced' /\ Header' /\ FailedExecUndone'
  BY DEF Changed, Displaced, Header, FailedExecUndone, Bprm
<1> QED
  BY <1>1, <1>2, <1>3, <1>4

\* The name of the interpreter replaces that of before.
LEMMA ChangeInterpIInv == ASSUME IInv, ChangeInterp PROVE IInv'
<1> USE DEF ChangeInterp, Heap, Kfree, Returns, moduleVars, mmVars
<1>1. Types'
  BY DEF Types
<1>2. Bprm' /\ Locals'
  BY DEF Bprm, Locals, Types
<1>3. Allocated'
  <2> DEFINE old == IF bprm.interp = "own" THEN {"interp"} ELSE {}
  <2>1. old \subseteq live /\ {"interp"} \cap (live \ old) = {} /\ {} \cap (live \ old) = {}
    BY DEF Allocated, Held
  <2>2. faulty' = FALSE
    BY <2>1 DEF Allocated
  <2>3. live' = (IF pc \in Outside THEN {} ELSE Held)'
    BY DEF Allocated, Held, Types, Bprm
  <2>4. (pc \in {"creds", "open", "name"} => "pathbuf" \notin live)'
    BY DEF Allocated
  <2> QED
    BY <2>2, <2>3, <2>4 DEF Allocated
<1>4. OpenedFor' /\ Counted'
  BY DEF OpenedFor, Opens, Counted, UsersOf, Types, Bprm
<1>5. Changed' /\ Displaced' /\ Header' /\ FailedExecUndone'
  BY DEF Changed, Displaced, Header, FailedExecUndone, Types, Bprm
<1> QED
  BY <1>1, <1>2, <1>3, <1>4, <1>5

\* The interpreter's file is counted for bprm, and its header read over.
LEMMA ReopenIInv == ASSUME IInv, Reopen PROVE IInv'
<1> USE DEF Reopen, Open, Returns, moduleVars, mmVars
<1>1. Types'
  BY DEF Types
<1>2. Bprm' /\ Locals'
  BY DEF Bprm, Locals, Types
<1>3. Allocated'
  BY DEF Allocated, Held, Types, Bprm
<1>4. OpenedFor' /\ Counted'
  BY DEF OpenedFor, Opens, Counted, UsersOf, Types, Bprm
<1>5. Changed' /\ Displaced' /\ Header' /\ FailedExecUndone'
  BY DEF Changed, Displaced, Header, FailedExecUndone, Types, Bprm
<1> QED
  BY <1>1, <1>2, <1>3, <1>4, <1>5

-------------------------------------------------------------------------------
(* load_elf_binary().                                                      *)

\* The handler has its locals, or has failed without any.
LEMMA ElfHeaderIInv == ASSUME IInv, ElfHeader PROVE IInv'
<1> USE DEF ElfHeader, Loading, Kmalloc, Returns, ElfFrame, Heap, moduleVars, mmVars
<1>1. Types'
  BY DEF Types
<1>2. Bprm' /\ Locals'
  BY DEF Bprm, Locals
<1>3. Allocated'
  <2>1. \/ Kmalloc({"loc", "elf_phdata"}) /\ {"loc", "elf_phdata"} \cap live = {}
        \/ UNCHANGED <<live, faulty>>
    BY DEF Allocated, Held
  <2>2. faulty' = FALSE
    BY <2>1, KfreeStep, KmallocStep DEF Allocated
  <2>3. live' = (IF pc \in Outside THEN {} ELSE Held)'
    BY DEF Allocated, Held, Types, Bprm
  <2>4. (pc \in {"creds", "open", "name"} => "pathbuf" \notin live)'
    BY DEF Allocated
  <2> QED
    BY <2>2, <2>3, <2>4 DEF Allocated
<1>4. OpenedFor' /\ Counted'
  BY DEF OpenedFor, Opens, Counted, UsersOf, Types, Bprm
<1>5. Changed' /\ Displaced' /\ Header' /\ FailedExecUndone'
  BY DEF Changed, Displaced, Header, FailedExecUndone, Bprm
<1> QED
  BY <1>1, <1>2, <1>3, <1>4, <1>5

\* An interpreter's path is a local of the handler.
LEMMA ElfPtInterpIInv == ASSUME IInv, ElfPtInterp PROVE IInv'
<1> USE DEF ElfPtInterp, Kmalloc, Fail, OutFreePh, ElfFrame, Heap, Kfree, Returns,
    moduleVars, mmVars
<1>1. Types'
  BY DEF Types
<1>2. Bprm' /\ Locals'
  BY DEF Bprm, Locals
<1>3. Allocated'
  <2>1. \/ UNCHANGED <<live, faulty>>
        \/ Kmalloc({"elf_interpreter"}) /\ {"elf_interpreter"} \cap live = {}
        \/ Kfree(OutFreePh) /\ OutFreePh \subseteq live
    BY DEF Allocated, Held, Types, Bprm, Locals
  <2>2. faulty' = FALSE
    BY <2>1, KfreeStep, KmallocStep DEF Allocated
  <2>3. live' = (IF pc \in Outside THEN {} ELSE Held)'
    BY DEF Allocated, Held, Types, Bprm, Locals
  <2>4. (pc \in {"creds", "open", "name"} => "pathbuf" \notin live)'
    BY DEF Allocated
  <2> QED
    BY <2>2, <2>3, <2>4 DEF Allocated
<1>4. OpenedFor' /\ Counted'
  BY DEF OpenedFor, Opens, Counted, UsersOf, Types, Bprm, Locals
<1>5. Changed' /\ Displaced' /\ Header' /\ FailedExecUndone'
  BY DEF Changed, Displaced, Header, FailedExecUndone, Bprm
<1> QED
  BY <1>1, <1>2, <1>3, <1>4, <1>5

\* The interpreter's file is counted for the handler.
LEMMA ElfOpenInterpIInv == ASSUME IInv, ElfOpenInterp PROVE IInv'
<1> USE DEF ElfOpenInterp, Open, Fail, OutFreeInterp, ElfFrame, Kfree, Returns,
    OutFreePh, moduleVars, mmVars, Heap
<1>1. Types'
  BY DEF Types
<1>2. Bprm' /\ Locals'
  BY DEF Bprm, Locals, Types
<1>3. Allocated'
  <2>1. \/ UNCHANGED <<live, faulty>>
        \/ Kfree(OutFreeInterp) /\ OutFreeInterp \subseteq live
    BY DEF Allocated, Held
  <2>2. faulty' = FALSE
    BY <2>1, KfreeStep, KmallocStep DEF Allocated
  <2>3. live' = (IF pc \in Outside THEN {} ELSE Held)'
    BY DEF Allocated, Held, Types, Bprm, Locals
  <2>4. (pc \in {"creds", "open", "name"} => "pathbuf" \notin live)'
    BY DEF Allocated
  <2> QED
    BY <2>2, <2>3, <2>4 DEF Allocated
<1>4. OpenedFor' /\ Counted'
  BY DEF OpenedFor, Opens, Counted, UsersOf, Types, Bprm, Locals
<1>5. Changed' /\ Displaced' /\ Header' /\ FailedExecUndone'
  BY DEF Changed, Displaced, Header, FailedExecUndone, Bprm
<1> QED
  BY <1>1, <1>2, <1>3, <1>4, <1>5

\* The header is now the interpreter's, and no other format is asked.
LEMMA ElfReadInterpIInv == ASSUME IInv, ElfReadInterp PROVE IInv'
<1> USE DEF ElfReadInterp, Kmalloc, FailDentry, ElfFrame, Heap, Fail, OutFreeDentry,
    Close, moduleVars, mmVars, Kfree, Returns, OutFreeInterp, OutFreePh
<1>1. Types'
  BY DEF Types
<1>2. Bprm' /\ Locals'
  BY DEF Bprm, Locals, Types
<1>3. Allocated'
  <2>1. \/ Kmalloc({"interp_elf_phdata"}) /\ {"interp_elf_phdata"} \cap live = {}
        \/ Kfree(OutFreeDentry) /\ OutFreeDentry \subseteq live
    BY DEF Allocated, Held, Types, Bprm, Locals
  <2>2. faulty' = FALSE
    BY <2>1, KfreeStep, KmallocStep DEF Allocated
  <2>3. live' = (IF pc \in Outside THEN {} ELSE Held)'
    BY DEF Allocated, Held, Types, Bprm
  <2>4. (pc \in {"creds", "open", "name"} => "pathbuf" \notin live)'
    BY DEF Allocated
  <2> QED
    BY <2>2, <2>3, <2>4 DEF Allocated
<1>4. OpenedFor' /\ Counted'
  BY DEF OpenedFor, Opens, Counted, UsersOf, Types, Bprm
<1>5. Changed' /\ Displaced' /\ Header' /\ FailedExecUndone'
  BY DEF Changed, Displaced, Header, FailedExecUndone, Bprm
<1> QED
  BY <1>1, <1>2, <1>3, <1>4, <1>5

\* The task takes over the mm of bprm, which has none any more.
LEMMA FlushIInv == ASSUME IInv, Flush PROVE IInv'
<1> USE DEF Flush, MmPut, heapVars, searchVars
<1>1. Types' /\ Bprm' /\ Locals'
  BY DEF Types, Bprm, Locals
<1>2. Allocated'
  BY DEF Allocated, Held
<1>3. OpenedFor' /\ Counted'
  BY DEF OpenedFor, Opens, Counted, UsersOf
<1>4. Changed' /\ Displaced' /\ Header' /\ FailedExecUndone'
  BY DEF Changed, Displaced, Header, FailedExecUndone, Bprm
<1> QED
  BY <1>1, <1>2, <1>3, <1>4

\* A handler that fails here frees its locals, the mm of before in place.
LEMMA FlushFailsIInv == ASSUME IInv, FlushFails PROVE IInv'
<1> USE DEF FlushFails, FailDentry, ElfFrame, Fail, OutFreeDentry, Close,
    moduleVars, mmVars, Kfree, Returns, OutFreeInterp, Heap, OutFreePh
<1>1. Types'
  BY DEF Types
<1>2. Bprm' /\ Locals'
  BY DEF Bprm, Locals
<1>3. Allocated'
  <2>1. Kfree(OutFreeDentry) /\ OutFreeDentry \subseteq live
    BY DEF Allocated, Held
  <2>2. faulty' = FALSE
    BY <2>1, KfreeStep, KmallocStep DEF Allocated
  <2>3. live' = (IF pc \in Outside THEN {} ELSE Held)'
    BY DEF Allocated, Held, Types, Bprm
  <2>4. (pc \in {"creds", "open", "name"} => "pathbuf" \notin live)'
    BY DEF Allocated
  <2> QED
    BY <2>2, <2>3, <2>4 DEF Allocated
<1>4. OpenedFor' /\ Counted'
  BY DEF OpenedFor, Opens, Counted, UsersOf
<1>5. Changed' /\ Displaced' /\ Header' /\ FailedExecUndone'
  BY DEF Changed, Displaced, Header, FailedExecUndone, Bprm
<1> QED
  BY <1>1, <1>2, <1>3, <1>4, <1>5

\* From here on a failure finds the old mm gone.
LEMMA ElfMapIInv == ASSUME IInv, ElfMap PROVE IInv'
<1> USE DEF ElfMap, heapVars, FailDentry, ElfFrame, Fail, OutFreeDentry, Close,
    moduleVars, mmVars, Kfree, Returns, OutFreeInterp, Heap, OutFreePh
<1>1. Types'
  BY DEF Types
<1>2. Bprm' /\ Locals'
  BY DEF Bprm, Locals
<1>3. Allocated'
  <2>1. \/ UNCHANGED <<live, faulty>>
        \/ Kfree(OutFreeDentry) /\ OutFreeDentry \subseteq live
    BY DEF Allocated, Held
  <2>2. faulty' = FALSE
    BY <2>1, KfreeStep, KmallocStep DEF Allocated
  <2>3. live' = (IF pc \in Outside THEN {} ELSE Held)'
    BY DEF Allocated, Held, Types, Bprm, Locals
  <2>4. (pc \in {"creds", "open", "name"} => "pathbuf" \notin live)'
    BY DEF Allocated
  <2> QED
    BY <2>2, <2>3, <2>4 DEF Allocated
<1>4. OpenedFor' /\ Counted'
  BY DEF OpenedFor, Opens, Counted, UsersOf
<1>5. Changed' /\ Displaced' /\ Header' /\ FailedExecUndone'
  BY DEF Changed, Displaced, Header, FailedExecUndone, Bprm
<1> QED
  BY <1>1, <1>2, <1>3, <1>4, <1>5

\* The interpreter's file and path are given back.
LEMMA ElfMapInterpIInv == ASSUME IInv, ElfMapInterp PROVE IInv'
<1> USE DEF ElfMapInterp, Close, Kfree, FailDentry, ElfFrame, Heap, Fail,
    OutFreeDentry, moduleVars, mmVars, Returns, OutFreeInterp, OutFreePh
<1>1. Types'
  BY DEF Types
<1>2. Bprm' /\ Locals'
  BY DEF Bprm, Locals
<1>3. Allocated'
  <2>1. \/ Kfree({"elf_interpreter"}) /\ {"elf_interpreter"} \subseteq live
        \/ Kfree(OutFreeDentry) /\ OutFreeDentry \subseteq live
    BY DEF Allocated, Held, Types, Bprm, Locals
  <2>2. faulty' = FALSE
    BY <2>1, KfreeStep, KmallocStep DEF Allocated
  <2>3. live' = (IF pc \in Outside THEN {} ELSE Held)'
    BY DEF Allocated, Held, Types, Bprm
  <2>4. (pc \in {"creds", "open", "name"} => "pathbuf" \notin live)'
    BY DEF Allocated
  <2> QED
    BY <2>2, <2>3, <2>4 DEF Allocated
<1>4. OpenedFor' /\ Counted'
  BY DEF OpenedFor, Opens, Counted, UsersOf
<1>5. Changed' /\ Displaced' /\ Header' /\ FailedExecUndone'
  BY DEF Changed, Displaced, Header, FailedExecUndone, Bprm
<1> QED
  BY <1>1, <1>2, <1>3, <1>4, <1>5

\* The program headers are freed.
LEMMA SetBinfmtIInv == ASSUME IInv, SetBinfmt PROVE IInv'
<1> USE DEF SetBinfmt, Kfree, bprmVars, searchVars, Heap
<1>1. Types'
  BY DEF Types
<1>2. Bprm' /\ Locals'
  BY DEF Bprm, Locals
<1>3. Allocated'
  <2>1. /\ Kfree(elf.set \cap {"interp_elf_phdata", "elf_phdata"})
        /\ elf.set \cap {"interp_elf_phdata", "elf_phdata"} \subseteq live
    BY DEF Allocated, Held
  <2>2. faulty' = FALSE
    BY <2>1, KfreeStep, KmallocStep DEF Allocated
  <2>3. live' = (IF pc \in Outside THEN {} ELSE Held)'
    BY DEF Allocated, Held
  <2>4. (pc \in {"creds", "open", "name"} => "pathbuf" \notin live)'
    BY DEF Allocated
  <2> QED
    BY <2>2, <2>3, <2>4 DEF Allocated
<1>4. OpenedFor' /\ Counted'
  BY DEF OpenedFor, Opens, Counted, UsersOf
<1>5. Changed' /\ Displaced' /\ Header' /\ FailedExecUndone'
  BY DEF Changed, Displaced, Header, FailedExecUndone
<1> QED
  BY <1>1, <1>2, <1>3, <1>4, <1>5

\* The creds are handed over and their mutex is released.
LEMMA InstallCredsIInv == ASSUME IInv, InstallCreds PROVE IInv'
<1> USE DEF InstallCreds, Kfree, Fail, ElfFrame, Heap, Returns, moduleVars, mmVars
<1>1. Types'
  <2>1. bprm' \in [file : File \cup {NoFile}, interp : {"filename", "own", "NULL"},
                  mm : Mm \cup {NoMm}, cred : BOOLEAN]
    <3>1. bprm' = bprm \/ bprm' = [bprm EXCEPT !.cred = FALSE]
      OBVIOUS
    <3>2. bprm \in [file : File \cup {NoFile}, interp : {"filename", "own", "NULL"},
                     mm : Mm \cup {NoMm}, cred : BOOLEAN]
      BY DEF Types
    <3> HIDE DEF InstallCreds
    <3> QED
      BY <3>1, <3>2
  <2>2. sigsegv' \in BOOLEAN /\ displaced' \in BOOLEAN
    BY DEF Types
  <2> QED
    BY <2>1, <2>2 DEF Types
<1>2. Bprm' /\ Locals'
  BY DEF Bprm, Locals, Types
<1>3. Allocated'
  <2>1. \/ Kfree({"cred", "cred_guard_mutex"}) /\ {"cred", "cred_guard_mutex"} \subseteq live
        \/ Kfree({"loc"}) /\ {"loc"} \subseteq live
    BY DEF Allocated, Held, Bprm
  <2>2. faulty' = FALSE
    BY <2>1, KfreeStep, KmallocStep DEF Allocated
  <2>3. live' = (IF pc \in Outside THEN {} ELSE Held)'
    BY DEF Allocated, Held, Types, Bprm
  <2>4. (pc \in {"creds", "open", "name"} => "pathbuf" \notin live)'
    BY DEF Allocated
  <2> QED
    BY <2>2, <2>3, <2>4 DEF Allocated
<1>4. OpenedFor' /\ Counted'
  BY DEF OpenedFor, Opens, Counted, UsersOf, Types, Bprm
<1>5. Changed' /\ Displaced' /\ Header' /\ FailedExecUndone'
  BY DEF Changed, Displaced, Header, FailedExecUndone, Bprm
<1> QED
  BY <1>1, <1>2, <1>3, <1>4, <1>5

\* The last locals are freed, with the new image or without.
LEMMA ElfTablesIInv == ASSUME IInv, ElfTables PROVE IInv'
<1> USE DEF ElfTables, Fail, ElfFrame, Kfree, Returns, moduleVars, mmVars, Heap
<1>1. Types'
  BY DEF Types
<1>2. Bprm' /\ Locals'
  BY DEF Bprm, Locals
<1>3. Allocated'
  <2>1. Kfree({"loc"}) /\ {"loc"} \subseteq live
    BY DEF Allocated, Held
  <2>2. faulty' = FALSE
    BY <2>1, KfreeStep, KmallocStep DEF Allocated
  <2>3. live' = (IF pc \in Outside THEN {} ELSE Held)'
    BY DEF Allocated, Held
  <2>4. (pc \in {"creds", "open", "name"} => "pathbuf" \notin live)'
    BY DEF Allocated
  <2> QED
    BY <2>2, <2>3, <2>4 DEF Allocated
<1>4. OpenedFor' /\ Counted'
  BY DEF OpenedFor, Opens, Counted, UsersOf
<1>5. Changed' /\ Displaced' /\ Header' /\ FailedExecUndone'
  BY DEF Changed, Displaced, Header, FailedExecUndone, Bprm
<1> QED
  BY <1>1, <1>2, <1>3, <1>4, <1>5

-------------------------------------------------------------------------------
(* The end of the exec, and the rest of the kernel.                        *)

\* bprm's mm, if it is still there, is put.
LEMMA OutIInv == ASSUME IInv, Out PROVE IInv'
<1> USE DEF Out, MmPut, heapVars, searchVars
<1>1. Types' /\ Bprm' /\ Locals'
  BY DEF Types, Bprm, Locals
<1>2. Allocated'
  BY DEF Allocated, Held
<1>3. OpenedFor' /\ Counted'
  BY DEF OpenedFor, Opens, Counted, UsersOf
<1>4. Changed' /\ Displaced' /\ Header' /\ FailedExecUndone'
  BY DEF Changed, Displaced, Header, FailedExecUndone
<1> QED
  BY <1>1, <1>2, <1>3, <1>4

\* All that is left of bprm is freed.
LEMMA OutFreeIInv == ASSUME IInv, OutFree PROVE IInv'
<1> USE DEF OutFree, FreeBprm, Kfree, Close, moduleVars, mmVars, searchVars, Heap
<1>1. Types'
  <2>1. bprm' \in [file : File \cup {NoFile}, interp : {"filename", "own", "NULL"},
                  mm : Mm \cup {NoMm}, cred : BOOLEAN]
    BY DEF Types
  <2>2. sigsegv' \in BOOLEAN /\ displaced' \in BOOLEAN
    BY DEF Types
  <2> QED
    BY <2>1, <2>2 DEF Types
<1>2. Bprm' /\ Locals'
  BY DEF Bprm, Locals
<1>3. Allocated'
  <2>1. faulty' = FALSE
    BY DEF Allocated, Held
  <2>2. live' = (IF pc \in Outside THEN {} ELSE Held)'
    BY DEF Allocated, Held
  <2>3. (pc \in {"creds", "open", "name"} => "pathbuf" \notin live)'
    BY DEF Allocated
  <2> QED
    BY <2>1, <2>2, <2>3 DEF Allocated
<1>4. OpenedFor' /\ Counted'
  BY DEF OpenedFor, Opens, Counted, UsersOf, Bprm
<1>5. Changed' /\ Displaced' /\ Header' /\ FailedExecUndone'
  BY DEF Changed, Displaced, Header, FailedExecUndone
<1> QED
  BY <1>1, <1>2, <1>3, <1>4, <1>5

\* The files of before are restored.
LEMMA OutFilesIInv == ASSUME IInv, OutFiles PROVE IInv'
<1> USE DEF OutFiles, moduleVars, mmVars, heapVars, searchVars
<1>1. Types'
  <2>1. UNCHANGED <<users, mm, sharer, bprm, sigsegv, elf, opened, before>>
    OBVIOUS
  <2>2. files' \in {"own", "shared"} /\ displaced' = FALSE
    BY DEF Types
  <2>3. displaced' \in BOOLEAN
    BY <2>2
  <2> HIDE DEF OutFiles
  <2> QED
    BY <2>1, <2>2, <2>3 DEF Types
<1>2. Bprm'
  BY DEF Bprm
<1>3. Locals'
  BY DEF Locals
<1>4. Allocated'
  BY DEF Allocated, Held
<1>5. OpenedFor' /\ Counted'
  BY DEF OpenedFor, Opens, Counted, UsersOf
<1>6. Changed' /\ Displaced' /\ Header' /\ FailedExecUndone'
  BY DEF Changed, Displaced, Header, FailedExecUndone, Types, Bprm
<1> QED
  BY <1>1, <1>2, <1>3, <1>4, <1>5, <1>6

\* The exec has succeeded, and bprm is freed.
LEMMA DoneIInv == ASSUME IInv, Done PROVE IInv'
<1> USE DEF Done, FreeBprm, Kfree, Close, moduleVars, mmVars, searchVars, Heap
<1>1. Types'
  <2>1. bprm' \in [file : File \cup {NoFile}, interp : {"filename", "own", "NULL"},
                  mm : Mm \cup {NoMm}, cred : BOOLEAN]
    BY DEF Types
  <2>2. sigsegv' \in BOOLEAN /\ displaced' \in BOOLEAN
    BY DEF Types
  <2> QED
    BY <2>1, <2>2 DEF Types
<1>2. Bprm' /\ Locals'
  BY DEF Bprm, Locals
<1>3. Allocated'
  <2>1. faulty' = FALSE
    BY DEF Allocated, Held
  <2>2. live' = (IF pc \in Outside THEN {} ELSE Held)'
    BY DEF Allocated, Held
  <2>3. (pc \in {"creds", "open", "name"} => "pathbuf" \notin live)'
    OBVIOUS
  <2> QED
    BY <2>1, <2>2, <2>3 DEF Allocated
<1>4. OpenedFor' /\ Counted'
  BY DEF OpenedFor, Opens, Counted, UsersOf, Bprm
<1>5. Changed' /\ Displaced' /\ Header' /\ FailedExecUndone'
  BY DEF Changed, Displaced, Header, FailedExecUndone
<1> QED
  BY <1>1, <1>2, <1>3, <1>4, <1>5

\* The task puts its mm.
LEMMA DieIInv == ASSUME IInv, Die PROVE IInv'
<1> USE DEF Die, MmPut, bprmVars, heapVars, searchVars
<1>1. Types' /\ Bprm' /\ Locals'
  BY DEF Types, Bprm, Locals
<1>2. Allocated'
  BY DEF Allocated, Held
<1>3. OpenedFor' /\ Counted'
  BY DEF OpenedFor, Opens, Counted, UsersOf
<1>4. Changed' /\ Displaced' /\ Header' /\ FailedExecUndone'
  BY DEF Changed, Displaced, Header, FailedExecUndone
<1> QED
  BY <1>1, <1>2, <1>3, <1>4

\* Files are shared only between execs.
LEMMA ShareFilesIInv == ASSUME IInv, ShareFiles PROVE IInv'
<1> USE DEF ShareFiles, moduleVars, mmVars, heapVars, searchVars
<1>1. Types' /\ Bprm' /\ Locals'
  BY DEF Types, Bprm, Locals
<1>2. Allocated'
  BY DEF Allocated, Held
<1>3. OpenedFor' /\ Counted'
  BY DEF OpenedFor, Opens, Counted, UsersOf
<1>4. Changed' /\ Displaced' /\ Header' /\ FailedExecUndone'
  BY DEF Changed, Displaced, Header, FailedExecUndone
<1> QED
  BY <1>1, <1>2, <1>3, <1>4

\* The sharer is counted.
LEMMA ShareIInv == ASSUME IInv, Share PROVE IInv'
<1> USE DEF Share, moduleVars, bprmVars, heapVars, searchVars
<1>1. Types' /\ Bprm' /\ Locals'
  BY DEF Types, Bprm, Locals
<1>2. Allocated'
  BY DEF Allocated, Held
<1>3. OpenedFor' /\ Counted'
  BY DEF OpenedFor, Opens, Counted, UsersOf, Types, Bprm
<1>4. Changed' /\ Displaced' /\ Header' /\ FailedExecUndone'
  BY DEF Changed, Displaced, Header, FailedExecUndone
<1> QED
  BY <1>1, <1>2, <1>3, <1>4

\* ... and not any more.
LEMMA UnshareIInv == ASSUME IInv, Unshare PROVE IInv'
<1> USE DEF Unshare, MmPut, bprmVars, heapVars, searchVars
<1>1. Types' /\ Bprm' /\ Locals'
  BY DEF Types, Bprm, Locals
<1>2. Allocated'
  BY DEF Allocated, Held
<1>3. OpenedFor' /\ Counted'
  BY DEF OpenedFor, Opens, Counted, UsersOf
<1>4. Changed' /\ Displaced' /\ Header' /\ FailedExecUndone'
  BY DEF Changed, Displaced, Header, FailedExecUndone
<1> QED
  BY <1>1, <1>2, <1>3, <1>4

-------------------------------------------------------------------------------
(* The invariant.                                                          *)

\* Before the first exec the task uses the one mm there is.
LEMMA InitIInv == Init => IInv
<1> SUFFICES ASSUME Init PROVE IInv
  OBVIOUS
<1> USE DEF Init
<1>1. Types
  <2>1. mm \in Mm /\ users \in [Mm -> Int] /\ before \in [mm : Mm, files : {"own"}]
    OBVIOUS
  <2>2. bprm \in [file : {NoFile}, interp : {"filename"}, mm : {NoMm}, cred : BOOLEAN]
    OBVIOUS
  <2>3. displaced \in BOOLEAN /\ sigsegv \in BOOLEAN
    OBVIOUS
  <2>4. elf \in [interpreter : {NoFile}, set : SUBSET ElfBlocks] /\ opened \in [File -> Int]
    OBVIOUS
  <2> QED
    BY <2>1, <2>2, <2>3, <2>4 DEF Types
<1>2. Bprm /\ Locals /\ Allocated
  BY DEF Bprm, Locals, Allocated
<1>3. OpenedFor /\ Counted
  BY DEF OpenedFor, Opens, Counted, UsersOf
<1>4. Changed /\ Displaced /\ Header /\ FailedExecUndone
  BY DEF Changed, Displaced, Header, FailedExecUndone
<1> QED
  BY <1>1, <1>2, <1>3, <1>4

\* What leaves the exec, the mms and the heap alone: modules that come and go,
\* and stuttering.
LEMMA OthersIInv ==
  ASSUME IInv, UNCHANGED <<mmVars, bprmVars, heapVars, searchVars, elf, pc>>
  PROVE  IInv'
<1> USE DEF mmVars, bprmVars, heapVars, searchVars
<1>1. Types' /\ Bprm' /\ Locals'
  BY DEF Types, Bprm, Locals
<1>2. Allocated'
  BY DEF Allocated, Held
<1>3. OpenedFor' /\ Counted'
  BY DEF OpenedFor, Opens, Counted, UsersOf
<1>4. Changed' /\ Displaced' /\ Header' /\ FailedExecUndone'
  BY DEF Changed, Displaced, Header, FailedExecUndone
<1> QED
  BY <1>1, <1>2, <1>3, <1>4

\* Every step.
LEMMA NextIInv == ASSUME IInv, [Next]_vars PROVE IInv'
<1>1. CASE Execve
  BY <1>1, ExecveIInv
<1>2. CASE ShareFiles
  BY <1>2, ShareFilesIInv
<1>3. CASE Kernel
  <2>1. CASE PrepareCreds \/ OpenFile \/ Name \/ BprmMmInit \/ CopyStrings
    BY <2>1, PrepareCredsIInv, OpenFileIInv, NameIInv, BprmMmInitIInv, CopyStringsIInv
  <2>2. CASE Search \/ HandlerReturns \/ EndOfFormats \/ ChangeInterp \/ Reopen
    BY <2>2, SearchIInv, HandlerReturnsIInv, EndOfFormatsIInv, ChangeInterpIInv,
       ReopenIInv
  <2>3. CASE \E fmt \in Format : Refuse(fmt) \/ Rewrite(fmt)
    BY <2>3, RefuseIInv, RewriteIInv
  <2>4. CASE ElfHeader \/ ElfPtInterp \/ ElfOpenInterp \/ ElfReadInterp
    BY <2>4, ElfHeaderIInv, ElfPtInterpIInv, ElfOpenInterpIInv, ElfReadInterpIInv
  <2>5. CASE Flush \/ FlushFails \/ ElfMap \/ ElfMapInterp
    BY <2>5, FlushIInv, FlushFailsIInv, ElfMapIInv, ElfMapInterpIInv
  <2>6. CASE SetBinfmt \/ InstallCreds \/ ElfTables
    BY <2>6, SetBinfmtIInv, InstallCredsIInv, ElfTablesIInv
  <2>7. CASE Out \/ OutFree \/ OutFiles \/ Done \/ Die
    BY <2>7, OutIInv, OutFreeIInv, OutFilesIInv, DoneIInv, DieIInv
  <2> QED
    BY <1>3, <2>1, <2>2, <2>3, <2>4, <2>5, <2>6, <2>7 DEF Kernel
<1>4. CASE Others
  <2>1. CASE Share \/ Unshare
    BY <2>1, ShareIInv, UnshareIInv
  <2>2. CASE \E fmt \in Format : Insmod(fmt) \/ Rmmod(fmt) \/ Unregister(fmt)
    BY <2>2, OthersIInv DEF Insmod, Rmmod, Unregister
  <2> QED
    BY <1>4, <2>1, <2>2 DEF Others
<1>5. CASE UNCHANGED vars
  BY <1>5, OthersIInv DEF vars
<1> QED
  BY <1>1, <1>2, <1>3, <1>4, <1>5 DEF Next

\* The inductive invariant of an exec: what is allocated, opened and counted is
\* what the code at pc is going to give back, and what it has changed so far.
THEOREM Invariant == Spec => []IInv
<1>1. Init => IInv
  BY InitIInv
<1>2. IInv /\ [Next]_vars => IInv'
  BY NextIInv
<1> QED
  BY <1>1, <1>2, PTL DEF Spec

-------------------------------------------------------------------------------
(* What follows from it.                                                   *)

\* When an execve() is over, all it took is given back, and nothing was given
\* back twice.
THEOREM NothingHeldHolds == Spec => []NothingHeld
<1>1. IInv => NothingHeld
  <2> SUFFICES ASSUME IInv PROVE NothingHeld
    OBVIOUS
  <2>1. ~faulty
    BY DEF Allocated
  <2>2. pc \in {"user", "dead"} => live = {} /\ ~displaced
    BY DEF Allocated, Displaced
  <2>3. pc \in {"user", "dead"} => \A f \in File : opened[f] = 0
    BY DEF OpenedFor, Opens, Bprm, Locals
  <2> QED
    BY <2>1, <2>2, <2>3 DEF NothingHeld
<1> QED
  BY <1>1, Invariant, PTL

\* The references to an mm that are counted are three at most.
LEMMA ThreeUsers ==
  ASSUME NEW P1 \in BOOLEAN, NEW P2 \in BOOLEAN, NEW P3 \in BOOLEAN
  PROVE  Cardinality({r \in {"mm", "sharer", "bprm"} :
           CASE r = "mm" -> P1 [] r = "sharer" -> P2 [] r = "bprm" -> P3})
         = (IF P1 THEN 1 ELSE 0) + (IF P2 THEN 1 ELSE 0) + (IF P3 THEN 1 ELSE 0)
<1> DEFINE S1 == IF P1 THEN {"mm"} ELSE {}
           S2 == IF P2 THEN S1 \cup {"sharer"} ELSE S1
           S3 == IF P3 THEN S2 \cup {"bprm"} ELSE S2
<1>1. IsFiniteSet(S1) /\ Cardinality(S1) = IF P1 THEN 1 ELSE 0
  BY FS_EmptySet, FS_Singleton
<1>2. "sharer" \notin S1
  OBVIOUS
<1>3. IsFiniteSet(S2) /\ Cardinality(S2) = Cardinality(S1) + (IF P2 THEN 1 ELSE 0)
  <2> HIDE DEF S1
  <2>1. /\ IsFiniteSet(S1 \cup {"sharer"})
        /\ Cardinality(S1 \cup {"sharer"}) = Cardinality(S1) + 1
    BY <1>1, <1>2, FS_AddElement
  <2>2. CASE P2
    BY <2>1, <2>2
  <2>3. CASE ~P2
    BY <1>1, <2>3
  <2> QED
    BY <2>2, <2>3
<1>4. "bprm" \notin S2
  OBVIOUS
<1>5. Cardinality(S3) = Cardinality(S2) + (IF P3 THEN 1 ELSE 0)
  <2> HIDE DEF S2
  <2> QED
    BY <1>1, <1>3, <1>4, FS_AddElement, FS_CardinalityType
<1>6. {r \in {"mm", "sharer", "bprm"} :
         CASE r = "mm" -> P1 [] r = "sharer" -> P2 [] r = "bprm" -> P3} = S3
  OBVIOUS
<1> QED
  <2> HIDE DEF S1, S2, S3
  <2> QED
    BY <1>1, <1>3, <1>5, <1>6

\* mm_users counts those that use an mm, neither more nor less.
THEOREM MmOwnedHolds == Spec => []MmOwned
<1>1. IInv => MmOwned
  <2> SUFFICES ASSUME IInv, NEW m \in Mm
               PROVE  users[m] = Cardinality({r \in {"mm", "sharer", "bprm"} :
                        m = CASE r = "mm" -> mm [] r = "sharer" -> sharer
                              [] r = "bprm" -> bprm.mm})
    BY DEF MmOwned
  <2>1. {r \in {"mm", "sharer", "bprm"} :
           m = CASE r = "mm" -> mm [] r = "sharer" -> sharer [] r = "bprm" -> bprm.mm}
        = {r \in {"mm", "sharer", "bprm"} :
             CASE r = "mm" -> m = mm [] r = "sharer" -> m = sharer
               [] r = "bprm" -> m = bprm.mm}
    OBVIOUS
  <2>2. Cardinality({r \in {"mm", "sharer", "bprm"} :
           CASE r = "mm" -> m = mm [] r = "sharer" -> m = sharer
             [] r = "bprm" -> m = bprm.mm}) = UsersOf(m)
    BY ThreeUsers DEF UsersOf
  <2> QED
    BY <2>1, <2>2 DEF Counted
<1> QED
  BY <1>1, Invariant, PTL

\* An execve() that returns an error has undone what it did, and one that
\* succeeds has handed over everything.
THEOREM FailedExecUndoneHolds == Spec => []FailedExecUndone
<1>1. IInv => FailedExecUndone
  OBVIOUS
<1> QED
  BY <1>1, Invariant, PTL

\* A handler that is asked about an image finds the header of its file.
THEOREM HeaderOfFileHolds == Spec => []HeaderOfFile
<1>1. IInv => HeaderOfFile
  BY DEF Header, HeaderOfFile
<1> QED
  BY <1>1, Invariant, PTL

-------------------------------------------------------------------------------
(* A second invariant: the registry of formats, and who refers to it.       *)

Call == [fmt : Format \cup {NoFormat}, retry : BOOLEAN]

\* The calls of a format's handler, and of one that has a format to put.
Frames(calls, fmt) == {k \in DOMAIN calls : calls[k].fmt = fmt}
OfFormat(binfmt, fmt) == {m \in Mm : binfmt[m] = fmt}

Registry ==
  /\ formats \in Seq(Format) /\ IsInjective(formats)
  /\ going \subseteq Registered
References ==
  /\ modref \in [Format -> Int]
  /\ mmFormat \in [Mm -> Format \cup {NoFormat}]
  /\ stack \in Seq(Call)
Values == ret \in {"ok", "ENOEXEC", "error"} /\ buf \in File \cup {NoFile}

\* A handler has its call, that of ELF is called for elf_format, the end of the list
\* is no format, and a task that is not dead has an mm.
Calls ==
  /\ pc \in {"load", "return", "end", "interp", "reopen"} \cup InElf => stack # <<>>
  /\ pc \in InElf => Top.fmt = Elf
  /\ pc = "end" => Top.fmt = NoFormat
  /\ pc # "dead" => mm # NoMm

Pinned == Registry /\ References /\ Values /\ Calls /\ FormatsPinned

-------------------------------------------------------------------------------
(* Counting calls and mms.                                                 *)

LEMMA FramesIs ==
  ASSUME NEW calls \in Seq(Call), NEW fmt
  PROVE  IsFiniteSet(Frames(calls, fmt)) /\ Cardinality(Frames(calls, fmt)) \in Nat
<1>1. DOMAIN calls = 1..Len(calls) /\ Len(calls) \in Nat
  BY LenProperties
<1>2. IsFiniteSet(DOMAIN calls)
  BY <1>1, FS_Interval
<1>3. Frames(calls, fmt) \subseteq DOMAIN calls
  BY DEF Frames
<1> QED
  BY <1>2, <1>3, FS_Subset, FS_CardinalityType

LEMMA OfFormatIs ==
  ASSUME NEW binfmt, NEW fmt
  PROVE  IsFiniteSet(OfFormat(binfmt, fmt)) /\ Cardinality(OfFormat(binfmt, fmt)) \in Nat
<1>1. OfFormat(binfmt, fmt) \subseteq Mm
  BY DEF OfFormat
<1> QED
  BY <1>1, FS_Subset, FS_CardinalityType

\* A call begins,
LEMMA PushIs ==
  ASSUME NEW calls \in Seq(Call), NEW c \in Call, NEW fmt
  PROVE  /\ Append(calls, c) \in Seq(Call) /\ Append(calls, c) # <<>>
         /\ Append(calls, c)[Len(Append(calls, c))] = c
         /\ Cardinality(Frames(Append(calls, c), fmt))
              = Cardinality(Frames(calls, fmt)) + (IF c.fmt = fmt THEN 1 ELSE 0)
<1> DEFINE more == Append(calls, c)
           n == Len(calls)
<1>1. /\ more \in Seq(Call) /\ Len(more) = n + 1
      /\ \A i \in 1..n : more[i] = calls[i]
      /\ more[n + 1] = c
  BY AppendProperties
<1>2. DOMAIN calls = 1..n /\ n \in Nat /\ DOMAIN more = 1..(n + 1)
  BY <1>1, LenProperties
<1>3. more # <<>>
  BY <1>1, <1>2, EmptySeq
<1> HIDE DEF more
<1>4. IsFiniteSet(Frames(calls, fmt)) /\ Cardinality(Frames(calls, fmt)) \in Nat
  BY FramesIs
<1>5. n + 1 \notin Frames(calls, fmt)
  BY <1>2 DEF Frames
<1>6. CASE c.fmt = fmt
  <2>1. Frames(more, fmt) = Frames(calls, fmt) \cup {n + 1}
    BY <1>1, <1>2, <1>6 DEF Frames
  <2>2. Cardinality(Frames(more, fmt)) = Cardinality(Frames(calls, fmt)) + 1
    BY <2>1, <1>4, <1>5, FS_AddElement
  <2> QED
    BY <1>1, <1>3, <1>6, <2>2 DEF more
<1>7. CASE c.fmt # fmt
  <2>1. Frames(more, fmt) = Frames(calls, fmt)
    BY <1>1, <1>2, <1>7 DEF Frames
  <2> QED
    BY <1>1, <1>3, <1>4, <1>7, <2>1 DEF more
<1> QED
  BY <1>6, <1>7

\* and the last one ends.
LEMMA PopIs ==
  ASSUME NEW calls \in Seq(Call), calls # <<>>, NEW fmt
  PROVE  /\ SubSeq(calls, 1, Len(calls) - 1) \in Seq(Call)
         /\ calls[Len(calls)] \in Call
         /\ Cardinality(Frames(SubSeq(calls, 1, Len(calls) - 1), fmt))
              = Cardinality(Frames(calls, fmt))
                  - (IF calls[Len(calls)].fmt = fmt THEN 1 ELSE 0)
<1> DEFINE n == Len(calls)
           less == SubSeq(calls, 1, n - 1)
<1>1. DOMAIN calls = 1..n /\ n \in Nat /\ n # 0 /\ \A i \in 1..n : calls[i] \in Call
  BY LenProperties, EmptySeq
<1>2. /\ less \in Seq(Call) /\ Len(less) = n - 1
      /\ \A i \in 1..(n - 1) : less[i] = calls[i]
  <2>1. n - 1 \in Int /\ 1 \in Int /\ \A i \in 1..(n - 1) : calls[i] \in Call
    BY <1>1
  <2>2. /\ less \in Seq(Call)
        /\ Len(less) = IF 1 <= n - 1 THEN (n - 1) - 1 + 1 ELSE 0
        /\ \A i \in 1..((n - 1) - 1 + 1) : less[i] = calls[1 + i - 1]
    BY <2>1, <1>1, SubSeqProperties
  <2>3. Len(less) = n - 1
    BY <1>1, <2>2
  <2>4. ASSUME NEW i \in 1..(n - 1) PROVE less[i] = calls[i]
    <3>1. i \in 1..((n - 1) - 1 + 1) /\ 1 + i - 1 = i
      BY <1>1
    <3>2. less[i] = calls[1 + i - 1]
      BY <2>2, <3>1
    <3> QED
      BY <3>1, <3>2
  <2> QED
    BY <2>2, <2>3, <2>4
<1>3. DOMAIN less = 1..(n - 1)
  BY <1>2, LenProperties
<1> HIDE DEF less
<1>4. IsFiniteSet(Frames(calls, fmt)) /\ Cardinality(Frames(calls, fmt)) \in Nat
  BY FramesIs
<1>5. CASE calls[n].fmt = fmt
  <2>1. Frames(less, fmt) = Frames(calls, fmt) \ {n} /\ n \in Frames(calls, fmt)
    BY <1>1, <1>2, <1>3, <1>5 DEF Frames
  <2>2. Cardinality(Frames(less, fmt)) = Cardinality(Frames(calls, fmt)) - 1
    BY <2>1, <1>4, FS_RemoveElement
  <2> QED
    BY <1>1, <1>2, <1>5, <2>2 DEF less
<1>6. CASE calls[n].fmt # fmt
  <2>1. Frames(less, fmt) = Frames(calls, fmt)
    BY <1>1, <1>2, <1>3, <1>6 DEF Frames
  <2> QED
    BY <1>1, <1>2, <1>4, <1>6, <2>1 DEF less
<1> QED
  BY <1>5, <1>6

\* An mm gets another format, or none.
OnlyAt(m, binfmt, new) == \A x \in Mm : x # m => new[x] = binfmt[x]

LEMMA FormatOfIs ==
  ASSUME NEW binfmt, NEW new, NEW m \in Mm, NEW fmt, OnlyAt(m, binfmt, new)
  PROVE  Cardinality(OfFormat(new, fmt))
           = Cardinality(OfFormat(binfmt, fmt)) + (IF new[m] = fmt THEN 1 ELSE 0)
               - (IF binfmt[m] = fmt THEN 1 ELSE 0)
<1>1. /\ IsFiniteSet(OfFormat(binfmt, fmt)) /\ Cardinality(OfFormat(binfmt, fmt)) \in Nat
      /\ IsFiniteSet(OfFormat(new, fmt)) /\ Cardinality(OfFormat(new, fmt)) \in Nat
  BY OfFormatIs
<1> USE DEF OnlyAt
<1>2. CASE new[m] = fmt /\ binfmt[m] # fmt
  <2>1. OfFormat(new, fmt) = OfFormat(binfmt, fmt) \cup {m} /\ m \notin OfFormat(binfmt, fmt)
    BY <1>2 DEF OfFormat
  <2> QED
    BY <1>1, <1>2, <2>1, FS_AddElement
<1>3. CASE new[m] # fmt /\ binfmt[m] = fmt
  <2>1. OfFormat(new, fmt) = OfFormat(binfmt, fmt) \ {m} /\ m \in OfFormat(binfmt, fmt)
    BY <1>3 DEF OfFormat
  <2> QED
    BY <1>1, <1>3, <2>1, FS_RemoveElement
<1>4. CASE (new[m] = fmt) <=> (binfmt[m] = fmt)
  <2>1. OfFormat(new, fmt) = OfFormat(binfmt, fmt)
    BY <1>4 DEF OfFormat
  <2> QED
    BY <1>1, <1>4, <2>1
<1> QED
  BY <1>2, <1>3, <1>4

-------------------------------------------------------------------------------
(* The list of formats.                                                    *)

\* A list that nothing is on twice.
List(s) == s \in Seq(Format) /\ IsInjective(s)
On(s) == {s[k] : k \in DOMAIN s}

\* list_add_tail(), and list_add() at the head
LEMMA AddTailIs ==
  ASSUME NEW s, List(s), NEW f \in Format \ On(s)
  PROVE  List(Append(s, f)) /\ On(Append(s, f)) = On(s) \cup {f}
<1> DEFINE more == Append(s, f)
           n == Len(s)
<1>1. /\ more \in Seq(Format) /\ Len(more) = n + 1
      /\ \A i \in 1..n : more[i] = s[i]
      /\ more[n + 1] = f
  BY AppendProperties DEF List
<1>2. DOMAIN s = 1..n /\ n \in Nat /\ DOMAIN more = 1..(n + 1)
  BY <1>1, LenProperties DEF List
<1> HIDE DEF more
<1>3. On(more) = On(s) \cup {f}
  BY <1>1, <1>2 DEF On
<1>4. IsInjective(more)
  <2> SUFFICES ASSUME NEW i \in 1..(n + 1), NEW j \in 1..(n + 1), more[i] = more[j]
               PROVE  i = j
    BY <1>2 DEF IsInjective
  <2>1. \A k \in 1..n : more[k] # f
    BY <1>1, <1>2 DEF On
  <2>2. CASE i = n + 1 \/ j = n + 1
    BY <1>1, <1>2, <2>1, <2>2
  <2>3. CASE i \in 1..n /\ j \in 1..n
    BY <1>1, <1>2, <2>3 DEF List, IsInjective
  <2> QED
    BY <1>2, <2>2, <2>3
<1> QED
  BY <1>1, <1>3, <1>4 DEF List, more

LEMMA AddHeadIs ==
  ASSUME NEW s, List(s), NEW f \in Format \ On(s)
  PROVE  List(<<f>> \o s) /\ On(<<f>> \o s) = On(s) \cup {f}
<1> DEFINE more == <<f>> \o s
           n == Len(s)
<1>1. DOMAIN s = 1..n /\ n \in Nat /\ s \in Seq(Format)
  BY LenProperties DEF List
<1>2. /\ more \in Seq(Format) /\ Len(more) = n + 1
      /\ more[1] = f
      /\ \A i \in 1..n : more[i + 1] = s[i]
  <2> DEFINE one == <<f>>
  <2>1. one \in Seq(Format) /\ Len(one) = 1 /\ one[1] = f
    OBVIOUS
  <2> HIDE DEF one
  <2>2. /\ one \o s \in Seq(Format) /\ Len(one \o s) = 1 + n
        /\ \A i \in 1..(1 + n) : (one \o s)[i] = IF i <= 1 THEN one[i] ELSE s[i - 1]
    <3>1. one \in Seq(Format) /\ s \in Seq(Format)
      BY <1>1, <2>1
    <3>2. /\ one \o s \in Seq(Format) /\ Len(one \o s) = Len(one) + Len(s)
          /\ \A i \in 1..(Len(one) + Len(s)) :
               (one \o s)[i] = IF i <= Len(one) THEN one[i] ELSE s[i - Len(one)]
      BY <3>1, ConcatProperties
    <3> QED
      BY <2>1, <3>2
  <2>3. 1 \in 1..(1 + n) /\ 1 + n = n + 1
    BY <1>1
  <2>4. (one \o s)[1] = f
    BY <2>1, <2>2, <2>3
  <2>5. ASSUME NEW i \in 1..n PROVE (one \o s)[i + 1] = s[i]
    <3>1. i + 1 \in 1..(1 + n) /\ ~(i + 1 <= 1) /\ (i + 1) - 1 = i
      BY <1>1
    <3> QED
      BY <2>2, <3>1
  <2>6. one \o s = more
    BY DEF one
  <2> HIDE DEF more
  <2> QED
    BY <2>2, <2>3, <2>4, <2>5, <2>6
<1>3. DOMAIN more = 1..(n + 1)
  BY <1>2, LenProperties
<1> HIDE DEF more
<1>4. \A i \in 1..(n + 1) : i # 1 => i - 1 \in 1..n /\ more[i] = s[i - 1]
  <2> SUFFICES ASSUME NEW i \in 1..(n + 1), i # 1
               PROVE  i - 1 \in 1..n /\ more[i] = s[i - 1]
    OBVIOUS
  <2>1. i - 1 \in 1..n /\ (i - 1) + 1 = i
    BY <1>1
  <2> QED
    BY <1>2, <2>1
<1>5. On(more) = On(s) \cup {f}
  <2>1. On(more) \subseteq On(s) \cup {f}
    <3> SUFFICES ASSUME NEW i \in 1..(n + 1) PROVE more[i] = f \/ more[i] \in On(s)
      BY <1>3 DEF On
    <3>1. CASE i = 1
      BY <1>2, <3>1
    <3>2. CASE i # 1
      BY <1>1, <1>4, <3>2 DEF On
    <3> QED
      BY <3>1, <3>2
  <2>2. \A i \in 1..n : i + 1 \in 1..(n + 1) /\ 1 \in 1..(n + 1)
    BY <1>1
  <2>3. f \in On(more)
    <3>1. 1 \in 1..(n + 1)
      BY <1>1
    <3> QED
      BY <1>2, <1>3, <3>1 DEF On
  <2>4. On(s) \subseteq On(more)
    BY <1>1, <1>2, <1>3, <2>2 DEF On
  <2> QED
    BY <2>1, <2>3, <2>4
<1>6. IsInjective(more)
  <2> SUFFICES ASSUME NEW i \in 1..(n + 1), NEW j \in 1..(n + 1), more[i] = more[j]
               PROVE  i = j
    BY <1>3 DEF IsInjective
  <2>1. \A k \in 1..(n + 1) : k # 1 => more[k] # f
    BY <1>1, <1>4 DEF On
  <2>2. CASE i = 1 \/ j = 1
    BY <1>2, <2>1, <2>2
  <2>3. CASE i # 1 /\ j # 1
    <3>1. i - 1 \in 1..n /\ j - 1 \in 1..n /\ s[i - 1] = s[j - 1]
      BY <1>4, <2>3
    <3>2. i - 1 = j - 1
      BY <1>1, <3>1 DEF List, IsInjective
    <3> QED
      BY <1>1, <3>2
  <2> QED
    BY <2>2, <2>3
<1> QED
  BY <1>2, <1>5, <1>6 DEF List, more

\* list_del()
LEMMA DelIs ==
  ASSUME NEW s, List(s), NEW k \in DOMAIN s
  PROVE  List(RemoveAt(s, k)) /\ On(RemoveAt(s, k)) = On(s) \ {s[k]}
<1> DEFINE n == Len(s)
           front == SubSeq(s, 1, k - 1)
           back == SubSeq(s, k + 1, n)
           q == front \o back
<1>1. /\ DOMAIN s = 1..n /\ n \in Nat /\ k \in 1..n /\ s \in Seq(Format)
      /\ \A i \in 1..n : s[i] \in Format
  BY LenProperties DEF List
<1>2. /\ front \in Seq(Format) /\ Len(front) = k - 1
      /\ \A i \in 1..(k - 1) : front[i] = s[i]
  BY <1>1, SubSeqProperties
<1>3. /\ back \in Seq(Format) /\ Len(back) = n - k
      /\ \A i \in 1..(n - k) : back[i] = s[k + i]
  <2>1. /\ back \in Seq(Format)
        /\ Len(back) = IF k + 1 <= n THEN n - (k + 1) + 1 ELSE 0
        /\ \A i \in 1..(n - (k + 1) + 1) : back[i] = s[(k + 1) + i - 1]
    <3>1. \A i \in (k + 1)..n : s[i] \in Format
      BY <1>1
    <3> QED
      BY <1>1, <3>1, SubSeqProperties
  <2>2. Len(back) = n - k
    BY <1>1, <2>1
  <2>3. ASSUME NEW i \in 1..(n - k) PROVE back[i] = s[k + i]
    <3>1. i \in 1..(n - (k + 1) + 1) /\ (k + 1) + i - 1 = k + i
      BY <1>1
    <3>2. back[i] = s[(k + 1) + i - 1]
      BY <2>1, <3>1
    <3> QED
      BY <3>1, <3>2
  <2> QED
    BY <2>1, <2>2, <2>3
<1>4. /\ q \in Seq(Format) /\ DOMAIN q = 1..(n - 1)
      /\ \A i \in 1..(n - 1) : q[i] = IF i <= k - 1 THEN front[i] ELSE back[i - (k - 1)]
  <2>1. (k - 1) + (n - k) = n - 1
    BY <1>1
  <2> HIDE DEF front, back
  <2>2. q \in Seq(Format) /\ Len(q) = n - 1
    BY <1>2, <1>3, <2>1, ConcatProperties
  <2>3. \A i \in 1..(Len(front) + Len(back)) :
          q[i] = IF i <= Len(front) THEN front[i] ELSE back[i - Len(front)]
    <3>1. front \in Seq(Format) /\ back \in Seq(Format)
      BY <1>2, <1>3
    <3> QED
      BY <3>1, ConcatProperties
  <2>4. Len(front) + Len(back) = n - 1 /\ Len(front) = k - 1
    BY <1>2, <1>3, <2>1
  <2> HIDE DEF q
  <2> QED
    BY <2>2, <2>3, <2>4, LenProperties
\* Position i of the rest is a position of s other than k, and each such is one.
<1> DEFINE At(i) == IF i < k THEN i ELSE i + 1
<1>5. ASSUME NEW i \in 1..(n - 1) PROVE At(i) \in 1..n /\ At(i) # k /\ q[i] = s[At(i)]
  <2>1. CASE i < k
    <3>1. i <= k - 1 /\ i \in 1..(k - 1)
      BY <1>1, <2>1
    <3>2. q[i] = s[i]
      BY <1>2, <1>4, <3>1
    <3> HIDE DEF q
    <3> QED
      BY <1>1, <2>1, <3>2
  <2>2. CASE ~(i < k)
    <3>1. ~(i <= k - 1) /\ i - (k - 1) \in 1..(n - k) /\ k + (i - (k - 1)) = i + 1
      BY <1>1, <2>2
    <3>2. q[i] = s[i + 1]
      BY <1>3, <1>4, <3>1
    <3> HIDE DEF q
    <3> QED
      BY <1>1, <2>2, <3>2
  <2> QED
    BY <2>1, <2>2
<1> HIDE DEF q
<1>6. \A j \in 1..n : j # k => \E i \in 1..(n - 1) : At(i) = j
  <2> SUFFICES ASSUME NEW j \in 1..n, j # k PROVE \E i \in 1..(n - 1) : At(i) = j
    OBVIOUS
  <2>1. CASE j < k
    <3>1. j \in 1..(n - 1)
      BY <1>1, <2>1
    <3> QED
      BY <2>1, <3>1
  <2>2. CASE ~(j < k)
    <3>1. j - 1 \in 1..(n - 1) /\ ~(j - 1 < k) /\ (j - 1) + 1 = j
      BY <1>1, <2>2
    <3> QED
      BY <3>1
  <2> QED
    BY <2>1, <2>2
<1>7. \A i, j \in 1..(n - 1) : At(i) = At(j) => i = j
  BY <1>1
<1> HIDE DEF At
<1>8. IsInjective(q)
  <2> SUFFICES ASSUME NEW i \in 1..(n - 1), NEW j \in 1..(n - 1), q[i] = q[j]
               PROVE  i = j
    BY <1>4 DEF IsInjective
  <2>1. At(i) = At(j)
    BY <1>1, <1>5 DEF List, IsInjective
  <2> QED
    BY <1>7, <2>1
<1>9. On(q) \subseteq On(s) \ {s[k]}
  <2> SUFFICES ASSUME NEW i \in 1..(n - 1) PROVE q[i] \in On(s) /\ q[i] # s[k]
    BY <1>4 DEF On
  <2> QED
    BY <1>1, <1>5 DEF On, List, IsInjective
<1>10. On(s) \ {s[k]} \subseteq On(q)
  <2> SUFFICES ASSUME NEW j \in 1..n, s[j] # s[k] PROVE s[j] \in On(q)
    BY <1>1 DEF On
  <2>1. PICK i \in 1..(n - 1) : At(i) = j
    BY <1>6
  <2> QED
    BY <1>4, <1>5, <2>1 DEF On
<1>11. RemoveAt(s, k) = q
  BY DEF RemoveAt, q
<1> QED
  BY <1>4, <1>8, <1>9, <1>10, <1>11 DEF List

\* A set of numbers that is not empty has a least one.
LEMMA LeastIs ==
  ASSUME NEW S, S \subseteq Nat, S # {}
  PROVE  Min(S) \in S
<1>1. \E m \in S : \A n \in S : ~(<<n, m>> \in OpToRel(<, Nat))
  BY NatLessThanWellFounded, WFMin
<1>2. \A m \in S, n \in S : n < m => <<n, m>> \in OpToRel(<, Nat)
  BY DEF OpToRel
<1>3. \E m \in S : \A n \in S : ~(n < m)
  BY <1>1, <1>2
<1>4. \E m \in S : \A n \in S : m =< n
  BY <1>3
<1> QED
  BY <1>4 DEF Min

\* The next format of the list is on it, and its module can be had.
LEMMA NextFormatIs ==
  ASSUME Registry, NEW fmt, Candidates(fmt) # {}
  PROVE  formats[Min(Candidates(fmt))] \in Registered \ going
<1> DEFINE S == Candidates(fmt)
<1>1. S \subseteq DOMAIN formats /\ \A k \in S : formats[k] \notin going
  BY DEF Candidates
<1>2. DOMAIN formats \subseteq Nat
  BY LenProperties DEF Registry
<1> HIDE DEF S
<1>3. Min(S) \in S
  BY <1>1, <1>2, LeastIs DEF S
<1> QED
  BY <1>1, <1>3 DEF S, Registered

-------------------------------------------------------------------------------
(* The steps.                                                              *)

LEMMA InitPinned == Init => Pinned
<1> SUFFICES ASSUME Init PROVE Pinned
  OBVIOUS
<1> USE DEF Init
<1>1. Registry
  <2>1. formats \in Seq(Format) /\ DOMAIN formats = {1}
    OBVIOUS
  <2> QED
    BY <2>1 DEF Registry, IsInjective
<1>2. References
  <2>1. modref \in [Format -> Int]
    OBVIOUS
  <2>2. mmFormat \in [Mm -> Format \cup {NoFormat}]
    OBVIOUS
  <2>3. stack \in Seq(Call)
    OBVIOUS
  <2> QED
    BY <2>1, <2>2, <2>3 DEF References
<1>3. Values /\ Calls
  BY DEF Values, Calls
<1>4. FormatsPinned
  <2>1. PICK m \in Mm : mmFormat = [n \in Mm |-> IF n = m THEN Elf ELSE NoFormat]
    OBVIOUS
  <2>2. ASSUME NEW fmt \in Format
        PROVE  /\ modref[fmt] = Cardinality(Frames(stack, fmt))
                                  + Cardinality(OfFormat(mmFormat, fmt))
               /\ modref[fmt] > 0 => fmt \in Registered \ going
    <3>1. Frames(stack, fmt) = {}
      BY DEF Frames
    <3>2. CASE fmt = Elf
      <4>1. OfFormat(mmFormat, fmt) = {m}
        BY <2>1, <3>2 DEF OfFormat
      <4>2. Registered \ going = {Elf} /\ modref[fmt] = 1
        BY <3>2 DEF Registered
      <4>3. /\ Cardinality(Frames(stack, fmt)) = 0
            /\ Cardinality(OfFormat(mmFormat, fmt)) = 1
        BY <3>1, <4>1, FS_EmptySet, FS_Singleton
      <4> HIDE DEF Init
      <4> QED
        BY <3>2, <4>2, <4>3
    <3>3. CASE fmt # Elf
      <4>1. OfFormat(mmFormat, fmt) = {}
        BY <2>1, <3>3 DEF OfFormat
      <4>2. modref[fmt] = 0
        BY <3>3
      <4>3. /\ Cardinality(Frames(stack, fmt)) = 0
            /\ Cardinality(OfFormat(mmFormat, fmt)) = 0
        BY <3>1, <4>1, FS_EmptySet
      <4> HIDE DEF Init
      <4> QED
        BY <4>2, <4>3
    <3> QED
      BY <3>2, <3>3
  <2> QED
    BY <2>2 DEF FormatsPinned, Frames, OfFormat
<1> QED
  BY <1>1, <1>2, <1>3, <1>4 DEF Pinned

\* What the property says of a format, in the terms of the counts.
Pins(fmt) ==
  /\ modref[fmt] = Cardinality(Frames(stack, fmt)) + Cardinality(OfFormat(mmFormat, fmt))
  /\ modref[fmt] > 0 => fmt \in Registered \ going

LEMMA PinsIs == FormatsPinned <=> \A fmt \in Format : Pins(fmt)
BY DEF FormatsPinned, Pins, Frames, OfFormat

\* References that are taken are of formats that may be used, and those that are
\* put are there: what any step has to show of those it takes and puts.
LEMMA StepPins ==
  ASSUME Pinned, References', NEW taken \in Format \cup {NoFormat},
         NEW put \in Format \cup {NoFormat}, ModRef(taken, put),
         UNCHANGED <<formats, going>>,
         taken # NoFormat => taken \in Registered \ going,
         \A fmt \in Format :
           Cardinality(Frames(stack', fmt)) + Cardinality(OfFormat(mmFormat', fmt))
           = Cardinality(Frames(stack, fmt)) + Cardinality(OfFormat(mmFormat, fmt))
               + (IF fmt = taken THEN 1 ELSE 0) - (IF fmt = put THEN 1 ELSE 0)
  PROVE  FormatsPinned'
<1> SUFFICES ASSUME NEW fmt \in Format
             PROVE  /\ modref'[fmt] = Cardinality(Frames(stack', fmt))
                                        + Cardinality(OfFormat(mmFormat', fmt))
                    /\ modref'[fmt] > 0 => fmt \in Registered' \ going'
  BY DEF FormatsPinned, Frames, OfFormat
<1>1. Pins(fmt)
  BY PinsIs DEF Pinned
<1>2. /\ Cardinality(Frames(stack, fmt)) \in Nat
      /\ Cardinality(OfFormat(mmFormat, fmt)) \in Nat
  BY FramesIs, OfFormatIs DEF Pinned, References
<1>3. modref'[fmt] = modref[fmt] + (IF fmt = taken THEN 1 ELSE 0)
                       - (IF fmt = put THEN 1 ELSE 0)
  BY DEF ModRef
<1>4. modref[fmt] \in Int
  BY DEF Pinned, References
<1>5. modref'[fmt] = Cardinality(Frames(stack', fmt))
                       + Cardinality(OfFormat(mmFormat', fmt))
  BY <1>1, <1>2, <1>3, <1>4 DEF Pins
<1>6. Registered' \ going' = Registered \ going
  BY DEF Registered
<1>7. ASSUME modref'[fmt] > 0 PROVE fmt \in Registered \ going
  <2>1. CASE fmt = taken
    BY <2>1
  <2>2. CASE fmt # taken
    <3>1. modref[fmt] > 0
      BY <1>3, <1>4, <1>7, <2>2
    <3> QED
      BY <1>1, <3>1 DEF Pins
  <2> QED
    BY <2>1, <2>2
<1> QED
  BY <1>5, <1>6, <1>7

\* The type of a count after a step.
LEMMA ModRefIs ==
  ASSUME References, NEW taken, NEW put, ModRef(taken, put)
  PROVE  modref' \in [Format -> Int]
<1>1. \A f \in Format :
        modref[f] + (IF f = taken THEN 1 ELSE 0) - (IF f = put THEN 1 ELSE 0) \in Int
  BY DEF References
<1> QED
  BY <1>1 DEF ModRef

\* What neither takes nor puts a reference, and leaves the registry alone.
LEMMA QuietPinned ==
  ASSUME Pinned, UNCHANGED <<moduleVars, mmFormat, stack>>, Values', Calls'
  PROVE  Pinned'
<1> USE DEF moduleVars
<1>1. Registry'
  BY DEF Pinned, Registry, Registered
<1>2. References'
  BY DEF Pinned, References
<1>3. FormatsPinned'
  BY DEF Pinned, FormatsPinned, Registered
<1> QED
  BY <1>1, <1>2, <1>3 DEF Pinned

-------------------------------------------------------------------------------
(* The steps that take no reference and put none.                          *)

\* An exec up to the search, its end, and what goes on between execs.
LEMMA StartPinned ==
  ASSUME IInv, Pinned,
         \/ Execve \/ PrepareCreds \/ OpenFile \/ Name
         \/ BprmMmInit \/ CopyStrings \/ OutFree \/ OutFiles
         \/ Done \/ ShareFiles \/ Share
  PROVE  Pinned'
<1> USE DEF FreeBprm, mmVars, bprmVars, heapVars, searchVars, moduleVars
<1>1. CASE Execve
  <2>1. UNCHANGED <<moduleVars, mmFormat, stack>>
    BY <1>1 DEF Execve
  <2>2. Values'
    BY <1>1 DEF Execve, Pinned, Values, Types
  <2>3. Calls'
    BY <1>1, <2>1 DEF Execve, Pinned, Calls, Top
  <2> QED
    BY <2>1, <2>2, <2>3, QuietPinned
<1>2. CASE PrepareCreds
  <2>1. UNCHANGED <<moduleVars, mmFormat, stack>>
    BY <1>2 DEF PrepareCreds
  <2>2. Values'
    BY <1>2 DEF PrepareCreds, Pinned, Values, Types
  <2>3. Calls'
    BY <1>2, <2>1 DEF PrepareCreds, Pinned, Calls, Top
  <2> QED
    BY <2>1, <2>2, <2>3, QuietPinned
<1>3. CASE OpenFile
  <2>1. UNCHANGED <<moduleVars, mmFormat, stack>>
    BY <1>3 DEF OpenFile
  <2>2. Values'
    BY <1>3 DEF OpenFile, Pinned, Values, Types
  <2>3. Calls'
    BY <1>3, <2>1 DEF OpenFile, Pinned, Calls, Top
  <2> QED
    BY <2>1, <2>2, <2>3, QuietPinned
<1>4. CASE Name
  <2>1. UNCHANGED <<moduleVars, mmFormat, stack>>
    BY <1>4 DEF Name
  <2>2. Values'
    BY <1>4 DEF Name, Pinned, Values, Types
  <2>3. Calls'
    BY <1>4, <2>1 DEF Name, Pinned, Calls, Top
  <2> QED
    BY <2>1, <2>2, <2>3, QuietPinned
<1>5. CASE BprmMmInit
  <2>1. UNCHANGED <<moduleVars, mmFormat, stack>>
    BY <1>5 DEF BprmMmInit
  <2>2. Values'
    BY <1>5 DEF BprmMmInit, Pinned, Values, Types
  <2>3. Calls'
    BY <1>5, <2>1 DEF BprmMmInit, Pinned, Calls, Top
  <2> QED
    BY <2>1, <2>2, <2>3, QuietPinned
<1>6. CASE CopyStrings
  <2>1. UNCHANGED <<moduleVars, mmFormat, stack>>
    BY <1>6 DEF CopyStrings
  <2>2. Values'
    BY <1>6 DEF CopyStrings, Pinned, Values, Types
  <2>3. Calls'
    BY <1>6, <2>1 DEF CopyStrings, Pinned, Calls, Top
  <2> QED
    BY <2>1, <2>2, <2>3, QuietPinned
<1>7. CASE OutFree
  <2>1. UNCHANGED <<moduleVars, mmFormat, stack>>
    BY <1>7 DEF OutFree
  <2>2. Values'
    BY <1>7 DEF OutFree, Pinned, Values, Types
  <2>3. Calls'
    BY <1>7, <2>1 DEF OutFree, Pinned, Calls, Top
  <2> QED
    BY <2>1, <2>2, <2>3, QuietPinned
<1>8. CASE OutFiles
  <2>1. UNCHANGED <<moduleVars, mmFormat, stack>>
    BY <1>8 DEF OutFiles
  <2>2. Values'
    BY <1>8 DEF OutFiles, Pinned, Values, Types
  <2>3. Calls'
    BY <1>8, <2>1 DEF OutFiles, Pinned, Calls, Top
  <2> QED
    BY <2>1, <2>2, <2>3, QuietPinned
<1>9. CASE Done
  <2>1. UNCHANGED <<moduleVars, mmFormat, stack>>
    BY <1>9 DEF Done
  <2>2. Values'
    BY <1>9 DEF Done, Pinned, Values, Types
  <2>3. Calls'
    BY <1>9, <2>1 DEF Done, Pinned, Calls, Top
  <2> QED
    BY <2>1, <2>2, <2>3, QuietPinned
<1>10. CASE ShareFiles
  <2>1. UNCHANGED <<moduleVars, mmFormat, stack>>
    BY <1>10 DEF ShareFiles
  <2>2. Values'
    BY <1>10 DEF ShareFiles, Pinned, Values, Types
  <2>3. Calls'
    BY <1>10, <2>1 DEF ShareFiles, Pinned, Calls, Top
  <2> QED
    BY <2>1, <2>2, <2>3, QuietPinned
<1>11. CASE Share
  <2>1. UNCHANGED <<moduleVars, mmFormat, stack>>
    BY <1>11 DEF Share
  <2>2. Values'
    BY <1>11 DEF Share, Pinned, Values, Types
  <2>3. Calls'
    BY <1>11, <2>1 DEF Share, Pinned, Calls, Top
  <2> QED
    BY <2>1, <2>2, <2>3, QuietPinned
<1> QED
  BY <1>1, <1>2, <1>3, <1>4, <1>5, <1>6, <1>7, <1>8, <1>9, <1>10, <1>11

\* A handler that rewrites the exec.
LEMMA RewritePinned ==
  ASSUME IInv, Pinned, NEW fmt,
         \/ Refuse(fmt) \/ Rewrite(fmt) \/ ChangeInterp \/ Reopen
  PROVE  Pinned'
<1> USE DEF Loading, Returns, mmVars, bprmVars, heapVars, searchVars, moduleVars
<1>1. CASE Refuse(fmt)
  <2>1. UNCHANGED <<moduleVars, mmFormat, stack>>
    BY <1>1 DEF Refuse
  <2>2. Values'
    BY <1>1 DEF Refuse, Pinned, Values, Types
  <2>3. Calls'
    BY <1>1, <2>1 DEF Refuse, Pinned, Calls, Top
  <2> QED
    BY <2>1, <2>2, <2>3, QuietPinned
<1>2. CASE Rewrite(fmt)
  <2>1. UNCHANGED <<moduleVars, mmFormat, stack>>
    BY <1>2 DEF Rewrite
  <2>2. Values'
    BY <1>2 DEF Rewrite, Pinned, Values, Types
  <2>3. Calls'
    BY <1>2, <2>1 DEF Rewrite, Pinned, Calls, Top
  <2> QED
    BY <2>1, <2>2, <2>3, QuietPinned
<1>3. CASE ChangeInterp
  <2>1. UNCHANGED <<moduleVars, mmFormat, stack>>
    BY <1>3 DEF ChangeInterp
  <2>2. Values'
    BY <1>3 DEF ChangeInterp, Pinned, Values, Types
  <2>3. Calls'
    BY <1>3, <2>1 DEF ChangeInterp, Pinned, Calls, Top
  <2> QED
    BY <2>1, <2>2, <2>3, QuietPinned
<1>4. CASE Reopen
  <2>1. UNCHANGED <<moduleVars, mmFormat, stack>>
    BY <1>4 DEF Reopen
  <2>2. Values'
    BY <1>4 DEF Reopen, Pinned, Values, Types
  <2>3. Calls'
    BY <1>4, <2>1 DEF Reopen, Pinned, Calls, Top
  <2> QED
    BY <2>1, <2>2, <2>3, QuietPinned
<1> QED
  BY <1>1, <1>2, <1>3, <1>4

\* load_elf_binary() but for exec_mmap() and set_binfmt(): it was called for elf_format.
LEMMA ElfPinned ==
  ASSUME IInv, Pinned,
         \/ ElfHeader \/ ElfPtInterp \/ ElfOpenInterp \/ ElfReadInterp
         \/ FlushFails \/ ElfMap \/ ElfMapInterp \/ InstallCreds
         \/ ElfTables
  PROVE  Pinned'
<1> USE DEF Loading, Fail, FailDentry, Returns, ElfFrame, mmVars, bprmVars, heapVars,
      searchVars, moduleVars
<1>1. CASE ElfHeader
  <2>1. UNCHANGED <<moduleVars, mmFormat, stack>>
    BY <1>1 DEF ElfHeader
  <2>2. Values'
    BY <1>1 DEF ElfHeader, Pinned, Values, Types
  <2>3. Calls'
    BY <1>1, <2>1 DEF ElfHeader, Pinned, Calls, Top
  <2> QED
    BY <2>1, <2>2, <2>3, QuietPinned
<1>2. CASE ElfPtInterp
  <2>1. UNCHANGED <<moduleVars, mmFormat, stack>>
    BY <1>2 DEF ElfPtInterp
  <2>2. Values'
    BY <1>2 DEF ElfPtInterp, Pinned, Values, Types
  <2>3. Calls'
    BY <1>2, <2>1 DEF ElfPtInterp, Pinned, Calls, Top
  <2> QED
    BY <2>1, <2>2, <2>3, QuietPinned
<1>3. CASE ElfOpenInterp
  <2>1. UNCHANGED <<moduleVars, mmFormat, stack>>
    BY <1>3 DEF ElfOpenInterp
  <2>2. Values'
    BY <1>3 DEF ElfOpenInterp, Pinned, Values, Types
  <2>3. Calls'
    BY <1>3, <2>1 DEF ElfOpenInterp, Pinned, Calls, Top
  <2> QED
    BY <2>1, <2>2, <2>3, QuietPinned
<1>4. CASE ElfReadInterp
  <2>1. UNCHANGED <<moduleVars, mmFormat, stack>>
    BY <1>4 DEF ElfReadInterp
  <2>2. Values'
    BY <1>4 DEF ElfReadInterp, Pinned, Values, Types
  <2>3. Calls'
    BY <1>4, <2>1 DEF ElfReadInterp, Pinned, Calls, Top
  <2> QED
    BY <2>1, <2>2, <2>3, QuietPinned
<1>5. CASE FlushFails
  <2>1. UNCHANGED <<moduleVars, mmFormat, stack>>
    BY <1>5 DEF FlushFails
  <2>2. Values'
    BY <1>5 DEF FlushFails, Pinned, Values, Types
  <2>3. Calls'
    BY <1>5, <2>1 DEF FlushFails, Pinned, Calls, Top
  <2> QED
    BY <2>1, <2>2, <2>3, QuietPinned
<1>6. CASE ElfMap
  <2>1. UNCHANGED <<moduleVars, mmFormat, stack>>
    BY <1>6 DEF ElfMap
  <2>2. Values'
    BY <1>6 DEF ElfMap, Pinned, Values, Types
  <2>3. Calls'
    BY <1>6, <2>1 DEF ElfMap, Pinned, Calls, Top
  <2> QED
    BY <2>1, <2>2, <2>3, QuietPinned
<1>7. CASE ElfMapInterp
  <2>1. UNCHANGED <<moduleVars, mmFormat, stack>>
    BY <1>7 DEF ElfMapInterp
  <2>2. Values'
    BY <1>7 DEF ElfMapInterp, Pinned, Values, Types
  <2>3. Calls'
    BY <1>7, <2>1 DEF ElfMapInterp, Pinned, Calls, Top
  <2> QED
    BY <2>1, <2>2, <2>3, QuietPinned
<1>8. CASE InstallCreds
  <2>1. UNCHANGED <<moduleVars, mmFormat, stack>>
    BY <1>8 DEF InstallCreds
  <2>2. Values'
    BY <1>8 DEF InstallCreds, Pinned, Values, Types
  <2>3. Calls'
    BY <1>8, <2>1 DEF InstallCreds, Pinned, Calls, Top
  <2> QED
    BY <2>1, <2>2, <2>3, QuietPinned
<1>9. CASE ElfTables
  <2>1. UNCHANGED <<moduleVars, mmFormat, stack>>
    BY <1>9 DEF ElfTables
  <2>2. Values'
    BY <1>9 DEF ElfTables, Pinned, Values, Types
  <2>3. Calls'
    BY <1>9, <2>1 DEF ElfTables, Pinned, Calls, Top
  <2> QED
    BY <2>1, <2>2, <2>3, QuietPinned
<1> QED
  BY <1>1, <1>2, <1>3, <1>4, <1>5, <1>6, <1>7, <1>8, <1>9

-------------------------------------------------------------------------------
(* The search: calls that begin and end.                                   *)

\* A walk puts the format whose handler came back and takes the next one.
LEMMA WalkPinned ==
  ASSUME Pinned, NEW calls \in Seq(Call), NEW fmt \in Format \cup {NoFormat},
         NEW retry \in BOOLEAN, Walk(calls, fmt, retry),
         \A f \in Format :
           Cardinality(Frames(calls, f))
           = Cardinality(Frames(stack, f)) - (IF f = fmt THEN 1 ELSE 0),
         UNCHANGED <<formats, going, mmFormat, mm>>, pc # "dead", Values'
  PROVE  Pinned'
<1> DEFINE next == IF Candidates(fmt) = {} THEN NoFormat ELSE formats[Min(Candidates(fmt))]
           c == [fmt |-> next, retry |-> retry]
<1>1. next # NoFormat => next \in Registered \ going
  BY NextFormatIs DEF Pinned
<1>2. Registered \subseteq Format
  <2>1. \A k \in DOMAIN formats : formats[k] \in Format
    BY LenProperties DEF Pinned, Registry
  <2> QED
    BY <2>1 DEF Registered
<1>3. next \in Format \cup {NoFormat}
  BY <1>1, <1>2
<1>4. /\ stack' = Append(calls, c) /\ ModRef(next, fmt)
      /\ pc' = IF next = NoFormat THEN "end" ELSE "load"
  BY DEF Walk
<1> HIDE DEF next
<1>5. c \in Call /\ c.fmt = next
  BY <1>3 DEF Call
<1> HIDE DEF c
<1>6. stack' \in Seq(Call) /\ stack' # <<>> /\ stack'[Len(stack')] = c
  BY <1>4, <1>5, PushIs
<1>7. ASSUME NEW f \in Format
      PROVE  Cardinality(Frames(stack', f))
             = Cardinality(Frames(calls, f)) + (IF f = next THEN 1 ELSE 0)
  BY <1>4, <1>5, PushIs
<1>8. References'
  <2>1. modref' \in [Format -> Int]
    BY <1>4, ModRefIs DEF Pinned
  <2> QED
    BY <1>6, <2>1 DEF Pinned, References
<1>9. ASSUME NEW f \in Format
      PROVE  Cardinality(Frames(stack', f)) + Cardinality(OfFormat(mmFormat', f))
             = Cardinality(Frames(stack, f)) + Cardinality(OfFormat(mmFormat, f))
                 + (IF f = next THEN 1 ELSE 0) - (IF f = fmt THEN 1 ELSE 0)
  <2>1. /\ Cardinality(Frames(stack, f)) \in Nat
        /\ Cardinality(OfFormat(mmFormat, f)) \in Nat
    BY FramesIs, OfFormatIs DEF Pinned, References
  <2>2. /\ Cardinality(Frames(stack', f))
             = Cardinality(Frames(stack, f)) - (IF f = fmt THEN 1 ELSE 0)
                 + (IF f = next THEN 1 ELSE 0)
        /\ mmFormat' = mmFormat
    BY <1>7
  <2> QED
    BY <2>1, <2>2
<1>10. FormatsPinned'
  BY <1>1, <1>3, <1>4, <1>8, <1>9, StepPins
<1>11. Registry'
  BY DEF Pinned, Registry, Registered
<1>12. Calls'
  BY <1>4, <1>5, <1>6 DEF Pinned, Calls, Top
<1> QED
  BY <1>8, <1>10, <1>11, <1>12 DEF Pinned

\* The call on top ends.
LEMMA BelowIs ==
  ASSUME Pinned, stack # <<>>
  PROVE  /\ Below \in Seq(Call) /\ Top \in Call
         /\ \A f \in Format : Cardinality(Frames(Below, f))
              = Cardinality(Frames(stack, f)) - (IF f = Top.fmt THEN 1 ELSE 0)
<1>1. stack \in Seq(Call)
  BY DEF Pinned, References
<1>2. \A f \in Format : Cardinality(Frames(SubSeq(stack, 1, Len(stack) - 1), f))
        = Cardinality(Frames(stack, f)) - (IF stack[Len(stack)].fmt = f THEN 1 ELSE 0)
  BY <1>1, PopIs
<1>3. SubSeq(stack, 1, Len(stack) - 1) \in Seq(Call) /\ stack[Len(stack)] \in Call
  BY <1>1, PopIs
<1> QED
  BY <1>2, <1>3 DEF Below, Top

\* A call returns, with its format's reference put.
LEMMA ReturnPinned ==
  ASSUME Pinned, stack # <<>>, Return(Below), ModRef(NoFormat, Top.fmt),
         UNCHANGED <<formats, going, mmFormat, mm>>, pc # "dead", Values'
  PROVE  Pinned'
<1>1. /\ Below \in Seq(Call) /\ Top \in Call
      /\ \A f \in Format : Cardinality(Frames(Below, f))
           = Cardinality(Frames(stack, f)) - (IF f = Top.fmt THEN 1 ELSE 0)
  BY BelowIs
<1>2. stack' = Below /\ Top.fmt \in Format \cup {NoFormat}
  BY <1>1 DEF Return, Call
<1>3. References'
  <2>1. modref' \in [Format -> Int]
    BY ModRefIs DEF Pinned
  <2> QED
    BY <1>1, <1>2, <2>1 DEF Pinned, References
<1>4. ASSUME NEW f \in Format
      PROVE  Cardinality(Frames(stack', f)) + Cardinality(OfFormat(mmFormat', f))
             = Cardinality(Frames(stack, f)) + Cardinality(OfFormat(mmFormat, f))
                 + (IF f = NoFormat THEN 1 ELSE 0) - (IF f = Top.fmt THEN 1 ELSE 0)
  <2>1. /\ Cardinality(Frames(stack, f)) \in Nat
        /\ Cardinality(OfFormat(mmFormat, f)) \in Nat /\ f # NoFormat
    BY FramesIs, OfFormatIs DEF Pinned, References
  <2>2. /\ Cardinality(Frames(stack', f))
             = Cardinality(Frames(stack, f)) - (IF f = Top.fmt THEN 1 ELSE 0)
        /\ mmFormat' = mmFormat
    BY <1>1, <1>2
  <2> QED
    BY <2>1, <2>2
<1>5. FormatsPinned'
  BY <1>2, <1>3, <1>4, StepPins
<1>6. Registry'
  BY DEF Pinned, Registry, Registered
<1>7. Calls'
  BY <1>2 DEF Pinned, Calls, Return
<1> QED
  BY <1>3, <1>5, <1>6, <1>7 DEF Pinned

\* The search is refused, or walks from the head of the list.
LEMMA SearchPinned == ASSUME IInv, Pinned, Search PROVE Pinned'
<1> USE DEF Search, mmVars, bprmVars
<1>1. Values' /\ stack \in Seq(Call) /\ pc # "dead"
  BY DEF Pinned, Values, References
<1>2. CASE Walk(stack, NoFormat, TRUE)
  <2>1. \A f \in Format : /\ f # NoFormat
                          /\ Cardinality(Frames(stack, f)) \in Nat
    BY <1>1, FramesIs
  <2>2. \A f \in Format : Cardinality(Frames(stack, f))
          = Cardinality(Frames(stack, f)) - (IF f = NoFormat THEN 1 ELSE 0)
    BY <2>1
  <2>3. NoFormat \in Format \cup {NoFormat} /\ TRUE \in BOOLEAN
    OBVIOUS
  <2>4. UNCHANGED <<formats, going, mmFormat, mm>>
    OBVIOUS
  <2> QED
    BY <1>1, <1>2, <2>2, <2>3, <2>4, WalkPinned
<1>3. CASE Return(stack) /\ UNCHANGED modref
  <2>1. UNCHANGED <<moduleVars, mmFormat, stack>>
    BY <1>3 DEF Return, moduleVars
  <2>2. Calls'
    BY <1>3 DEF Return, Pinned, Calls
  <2> QED
    BY <1>1, <2>1, <2>2, QuietPinned
<1> QED
  BY <1>2, <1>3

\* The handler's format is put, in the step that takes the next one if there is one.
LEMMA HandlerReturnsPinned == ASSUME IInv, Pinned, HandlerReturns PROVE Pinned'
<1> USE DEF HandlerReturns, mmVars, bprmVars
<1>1. /\ Values' /\ pc # "dead" /\ stack # <<>>
      /\ UNCHANGED <<formats, going, mmFormat, mm>>
  BY DEF Pinned, Values, Calls
<1>2. CASE Return(Below) /\ ModRef(NoFormat, Top.fmt)
  BY <1>1, <1>2, ReturnPinned
<1>3. CASE Walk(Below, Top.fmt, Top.retry)
  <2>1. /\ Below \in Seq(Call) /\ Top \in Call
        /\ \A f \in Format : Cardinality(Frames(Below, f))
             = Cardinality(Frames(stack, f)) - (IF f = Top.fmt THEN 1 ELSE 0)
    BY <1>1, BelowIs
  <2>2. Top.fmt \in Format \cup {NoFormat} /\ Top.retry \in BOOLEAN
    BY <2>1 DEF Call
  <2> QED
    BY <1>1, <1>3, <2>1, <2>2, WalkPinned
<1> QED
  BY <1>2, <1>3

\* At the end of the list no reference is held for the call.
LEMMA EndOfFormatsPinned == ASSUME IInv, Pinned, EndOfFormats PROVE Pinned'
<1> USE DEF EndOfFormats, mmVars, bprmVars
<1>1. /\ Values' /\ pc # "dead" /\ stack # <<>> /\ Top.fmt = NoFormat
      /\ UNCHANGED <<formats, going, mmFormat, mm>>
  BY DEF Pinned, Values, Calls
<1>2. /\ Below \in Seq(Call)
      /\ \A f \in Format : Cardinality(Frames(Below, f))
           = Cardinality(Frames(stack, f)) - (IF f = Top.fmt THEN 1 ELSE 0)
  BY <1>1, BelowIs
<1>3. CASE Return(Below) /\ UNCHANGED modref
  <2>1. ModRef(NoFormat, Top.fmt)
    <3>1. modref' \in [Format -> Int] /\ modref' = modref
      BY <1>3 DEF Pinned, References
    <3>2. \A f \in Format :
            modref'[f] = modref[f] + (IF f = NoFormat THEN 1 ELSE 0)
                           - (IF f = NoFormat THEN 1 ELSE 0)
      BY <3>1
    <3> QED
      BY <1>1, <3>1, <3>2 DEF ModRef
  <2> QED
    BY <1>1, <1>3, <2>1, ReturnPinned
<1>4. CASE Walk(Below, NoFormat, FALSE)
  <2>1. NoFormat \in Format \cup {NoFormat} /\ FALSE \in BOOLEAN
    OBVIOUS
  <2> QED
    BY <1>1, <1>2, <1>4, <2>1, WalkPinned
<1> QED
  BY <1>3, <1>4

-------------------------------------------------------------------------------
(* Address spaces with a format.                                           *)

\* The last user of an mm puts the format with it.
LEMMA MmPutPinned ==
  ASSUME Pinned, NEW m \in Mm \cup {NoMm}, MmPut(m),
         UNCHANGED <<formats, going, stack>>, Values', Calls'
  PROVE  Pinned'
<1> DEFINE last == m # NoMm /\ users[m] = 1
           fmt == IF last THEN mmFormat[m] ELSE NoFormat
<1>1. /\ ModRef(NoFormat, fmt)
      /\ mmFormat' = [n \in Mm |-> IF last /\ n = m THEN NoFormat ELSE mmFormat[n]]
  BY DEF MmPut
<1>2. mmFormat \in [Mm -> Format \cup {NoFormat}]
  BY DEF Pinned, References
<1>3. fmt \in Format \cup {NoFormat} /\ (last => m \in Mm)
  BY <1>2
<1>4. References'
  <2>1. modref' \in [Format -> Int]
    BY <1>1, ModRefIs DEF Pinned
  <2>2. mmFormat' \in [Mm -> Format \cup {NoFormat}]
    BY <1>1, <1>2
  <2> QED
    BY <2>1, <2>2 DEF Pinned, References
<1>5. ASSUME NEW f \in Format
      PROVE  Cardinality(Frames(stack', f)) + Cardinality(OfFormat(mmFormat', f))
             = Cardinality(Frames(stack, f)) + Cardinality(OfFormat(mmFormat, f))
                 + (IF f = NoFormat THEN 1 ELSE 0) - (IF f = fmt THEN 1 ELSE 0)
  <2>1. /\ Cardinality(Frames(stack, f)) \in Nat
        /\ Cardinality(OfFormat(mmFormat, f)) \in Nat
        /\ f # NoFormat /\ stack' = stack
    BY FramesIs, OfFormatIs DEF Pinned, References
  <2>2. CASE last
    <3>1. /\ m \in Mm /\ mmFormat'[m] = NoFormat
          /\ OnlyAt(m, mmFormat, mmFormat')
      BY <1>1, <1>3, <2>2 DEF OnlyAt
    <3>2. Cardinality(OfFormat(mmFormat', f))
            = Cardinality(OfFormat(mmFormat, f)) + (IF mmFormat'[m] = f THEN 1 ELSE 0)
                - (IF mmFormat[m] = f THEN 1 ELSE 0)
      BY <3>1, FormatOfIs
    <3>3. Cardinality(OfFormat(mmFormat', f))
            = Cardinality(OfFormat(mmFormat, f)) - (IF f = fmt THEN 1 ELSE 0)
      BY <2>1, <2>2, <3>1, <3>2
    <3> HIDE DEF last, fmt
    <3> QED
      BY <2>1, <3>3
  <2>3. CASE ~last
    <3>1. \A x \in Mm : mmFormat'[x] = mmFormat[x]
      BY <1>1, <2>3
    <3>2. OfFormat(mmFormat', f) = OfFormat(mmFormat, f)
      BY <3>1 DEF OfFormat
    <3>3. fmt = NoFormat
      BY <2>3
    <3> HIDE DEF last, fmt
    <3> QED
      BY <2>1, <3>2, <3>3
  <2> QED
    BY <2>2, <2>3
<1> HIDE DEF last, fmt
<1>6. FormatsPinned'
  BY <1>1, <1>3, <1>4, <1>5, StepPins
<1>7. Registry'
  BY DEF Pinned, Registry, Registered
<1> QED
  BY <1>4, <1>6, <1>7 DEF Pinned

\* exec_mmap(), the two ends of an mm of an exec, and another task's mmput()
LEMMA MmPutsPinned ==
  ASSUME IInv, Pinned, Flush \/ Out \/ Die \/ Unshare
  PROVE  Pinned'
<1> USE DEF bprmVars, heapVars, searchVars
<1>1. mm \in Mm \cup {NoMm} /\ sharer \in Mm \cup {NoMm} /\ bprm.mm \in Mm \cup {NoMm}
  BY DEF Types
<1>2. UNCHANGED <<formats, going, stack>> /\ Values'
  BY DEF Flush, Out, Die, Unshare, Pinned, Values
<1>3. Calls'
  BY DEF Flush, Out, Die, Unshare, Pinned, Calls, Top, Bprm
<1>4. MmPut(mm) \/ MmPut(bprm.mm) \/ MmPut(sharer)
  BY DEF Flush, Out, Die, Unshare
<1> QED
  BY <1>1, <1>2, <1>3, <1>4, MmPutPinned

\* set_binfmt() takes a reference that is already held for the call of the handler.
LEMMA SetBinfmtPinned == ASSUME IInv, Pinned, SetBinfmt PROVE Pinned'
<1> USE DEF SetBinfmt, bprmVars, searchVars
<1>1. /\ mm \in Mm /\ stack # <<>> /\ Top.fmt = Elf
      /\ mmFormat \in [Mm -> Format \cup {NoFormat}] /\ stack \in Seq(Call)
      /\ modref \in [Format -> Int]
  BY DEF Pinned, Calls, Types, References
<1>2. Elf \in Registered \ going
  <2>1. Len(stack) \in Frames(stack, Elf)
    BY <1>1, LenProperties, EmptySeq DEF Frames, Top
  <2>2. IsFiniteSet(Frames(stack, Elf)) /\ Cardinality(Frames(stack, Elf)) \in Nat
    BY <1>1, FramesIs
  <2>3. Cardinality(Frames(stack, Elf)) # 0
    BY <2>1, <2>2, FS_EmptySet
  <2>4. Cardinality(OfFormat(mmFormat, Elf)) \in Nat
    BY OfFormatIs
  <2>5. Pins(Elf)
    BY PinsIs DEF Pinned
  <2>6. modref[Elf] > 0
    BY <2>2, <2>3, <2>4, <2>5 DEF Pins
  <2> QED
    BY <2>5, <2>6 DEF Pins
<1>3. /\ ModRef(Elf, mmFormat[mm]) /\ mmFormat' = [mmFormat EXCEPT ![mm] = Elf]
      /\ UNCHANGED <<formats, going, stack>>
  OBVIOUS
<1>4. mmFormat[mm] \in Format \cup {NoFormat}
  BY <1>1
<1>5. References'
  <2>1. modref' \in [Format -> Int]
    BY <1>3, ModRefIs DEF Pinned
  <2>2. mmFormat' \in [Mm -> Format \cup {NoFormat}]
    BY <1>1, <1>3
  <2> QED
    BY <1>1, <1>3, <2>1, <2>2 DEF References
<1>6. ASSUME NEW f \in Format
      PROVE  Cardinality(Frames(stack', f)) + Cardinality(OfFormat(mmFormat', f))
             = Cardinality(Frames(stack, f)) + Cardinality(OfFormat(mmFormat, f))
                 + (IF f = Elf THEN 1 ELSE 0) - (IF f = mmFormat[mm] THEN 1 ELSE 0)
  <2>1. /\ Cardinality(Frames(stack, f)) \in Nat
        /\ Cardinality(OfFormat(mmFormat, f)) \in Nat /\ stack' = stack
    BY <1>1, <1>3, FramesIs, OfFormatIs
  <2>2. /\ mmFormat'[mm] = Elf
        /\ OnlyAt(mm, mmFormat, mmFormat')
    BY <1>1, <1>3 DEF OnlyAt
  <2>3. Cardinality(OfFormat(mmFormat', f))
          = Cardinality(OfFormat(mmFormat, f)) + (IF mmFormat'[mm] = f THEN 1 ELSE 0)
              - (IF mmFormat[mm] = f THEN 1 ELSE 0)
    <3>1. mm \in Mm /\ OnlyAt(mm, mmFormat, mmFormat')
      BY <1>1, <2>2
    <3> HIDE DEF SetBinfmt
    <3> QED
      BY <3>1, FormatOfIs
  <2> QED
    BY <2>1, <2>2, <2>3
<1>7. FormatsPinned'
  BY <1>2, <1>3, <1>4, <1>5, <1>6, StepPins
<1>8. Registry'
  BY DEF Pinned, Registry, Registered
<1>9. Values' /\ Calls'
  BY <1>1 DEF Pinned, Values, Calls, Top
<1> QED
  BY <1>5, <1>7, <1>8, <1>9 DEF Pinned

-------------------------------------------------------------------------------
(* Modules that come and go.                                               *)

\* A format is added, or one that nobody refers to is marked or taken off the list.
LEMMA ModulesPinned ==
  ASSUME Pinned, NEW fmt \in Format, Insmod(fmt) \/ Rmmod(fmt) \/ Unregister(fmt)
  PROVE  Pinned'
<1>1. /\ UNCHANGED <<modref, mmFormat, stack, ret, buf, pc, mm>>
      /\ List(formats) /\ Registered = On(formats) /\ Registered' = On(formats')
      /\ going \subseteq Registered
  BY DEF Insmod, Rmmod, Unregister, mmVars, bprmVars, searchVars, Registered, On, List,
         Pinned, Registry
<1>2. References' /\ Values' /\ Calls'
  BY <1>1 DEF Pinned, References, Values, Calls, Top
<1>3. \A f \in Format : Pins(f)
  BY PinsIs DEF Pinned
<1>4. /\ List(formats') /\ going' \subseteq Registered'
      /\ \A f \in Format : modref[f] > 0 => f \in Registered' \ going'
  <2>1. CASE Insmod(fmt)
    <3>1. fmt \in Format \ On(formats) /\ going' = going
      BY <1>1, <2>1 DEF Insmod
    <3>2. /\ List(Append(formats, fmt)) /\ On(Append(formats, fmt)) = On(formats) \cup {fmt}
          /\ List(<<fmt>> \o formats) /\ On(<<fmt>> \o formats) = On(formats) \cup {fmt}
      BY <1>1, <3>1, AddTailIs, AddHeadIs
    <3>3. formats' = <<fmt>> \o formats \/ formats' = Append(formats, fmt)
      BY <2>1 DEF Insmod
    <3>4. List(formats') /\ On(formats') = On(formats) \cup {fmt}
      BY <3>2, <3>3
    <3> QED
      BY <1>1, <1>3, <3>1, <3>4 DEF Pins
  <2>2. CASE Rmmod(fmt)
    <3>1. /\ formats' = formats /\ going' = going \cup {fmt}
          /\ fmt \in Registered /\ modref[fmt] = 0
      BY <2>2 DEF Rmmod
    <3> QED
      BY <1>1, <1>3, <3>1 DEF Pins
  <2>3. CASE Unregister(fmt)
    <3>1. PICK k \in DOMAIN formats : formats[k] = fmt /\ formats' = RemoveAt(formats, k)
      BY <2>3 DEF Unregister
    <3>2. List(formats') /\ On(formats') = On(formats) \ {fmt}
      BY <1>1, <3>1, DelIs
    <3>3. fmt \in going /\ going' = going \ {fmt}
      BY <2>3 DEF Unregister
    <3> QED
      BY <1>1, <1>3, <3>2, <3>3 DEF Pins
  <2> QED
    BY <2>1, <2>2, <2>3
<1>5. Registry'
  BY <1>1, <1>4 DEF Registry, List
<1>6. FormatsPinned'
  <2>1. \A f \in Format : modref[f] = Cardinality(Frames(stack, f))
                                        + Cardinality(OfFormat(mmFormat, f))
    BY <1>3 DEF Pins
  <2> QED
    BY <1>1, <1>4, <2>1 DEF FormatsPinned, Frames, OfFormat
<1> QED
  BY <1>2, <1>5, <1>6 DEF Pinned

-------------------------------------------------------------------------------
(* The second invariant, and what follows from it.                         *)

\* Every step.
LEMMA NextPinned == ASSUME IInv, Pinned, [Next]_vars PROVE Pinned'
<1>1. CASE Execve \/ ShareFiles
  BY <1>1, StartPinned
<1>2. CASE Kernel
  <2>1. CASE PrepareCreds \/ OpenFile \/ Name \/ BprmMmInit \/ CopyStrings
    BY <2>1, StartPinned
  <2>2. CASE Search \/ HandlerReturns \/ EndOfFormats
    BY <2>2, SearchPinned, HandlerReturnsPinned, EndOfFormatsPinned
  <2>3. CASE ChangeInterp \/ Reopen \/ \E fmt \in Format : Refuse(fmt) \/ Rewrite(fmt)
    BY <2>3, RewritePinned
  <2>4. CASE \/ ElfHeader \/ ElfPtInterp \/ ElfOpenInterp \/ ElfReadInterp \/ FlushFails
             \/ ElfMap \/ ElfMapInterp \/ InstallCreds \/ ElfTables
    BY <2>4, ElfPinned
  <2>5. CASE SetBinfmt
    BY <2>5, SetBinfmtPinned
  <2>6. CASE Flush \/ Out \/ Die
    BY <2>6, MmPutsPinned
  <2>7. CASE OutFree \/ OutFiles \/ Done
    BY <2>7, StartPinned
  <2> QED
    BY <1>2, <2>1, <2>2, <2>3, <2>4, <2>5, <2>6, <2>7 DEF Kernel
<1>3. CASE Others
  <2>1. CASE Share
    BY <2>1, StartPinned
  <2>2. CASE Unshare
    BY <2>2, MmPutsPinned
  <2>3. CASE \E fmt \in Format : Insmod(fmt) \/ Rmmod(fmt) \/ Unregister(fmt)
    BY <2>3, ModulesPinned
  <2> QED
    BY <1>3, <2>1, <2>2, <2>3 DEF Others
<1>4. CASE UNCHANGED vars
  <2>1. UNCHANGED <<moduleVars, mmFormat, stack>> /\ Values' /\ Calls'
    BY <1>4 DEF vars, moduleVars, mmVars, bprmVars, searchVars, Pinned, Values, Calls, Top
  <2> QED
    BY <2>1, QuietPinned
<1> QED
  BY <1>1, <1>2, <1>3, <1>4 DEF Next

\* The invariant of the registry: the list has no format twice, each reference to a
\* format's module is one of a call or of an mm, and what is referred to stays.
THEOREM RegistryInvariant == Spec => []Pinned
<1>1. Init => Pinned
  BY InitPinned
<1>2. IInv /\ Pinned /\ [Next]_vars => Pinned'
  BY NextPinned
<1> QED
  BY <1>1, <1>2, Invariant, PTL DEF Spec

\* References to a format's module are those of the handlers under way and of the mms,
\* and a format with one is on the list and not on its way out.
THEOREM FormatsPinnedHolds == Spec => []FormatsPinned
<1>1. Pinned => FormatsPinned
  BY DEF Pinned
<1> QED
  BY <1>1, RegistryInvariant, PTL

\* As many formats are registered as the list is long.
LEMMA ListLength ==
  ASSUME NEW s, List(s)
  PROVE  Cardinality(On(s)) = Len(s)
<1>1. DOMAIN s = 1..Len(s) /\ Len(s) \in Nat
  BY LenProperties DEF List
<1>2. IsFiniteSet(DOMAIN s) /\ Cardinality(DOMAIN s) = Len(s)
  <2>1. IsFiniteSet(1..Len(s)) /\ Cardinality(1..Len(s)) = Len(s)
    BY <1>1, FS_Interval
  <2> QED
    BY <1>1, <2>1
<1>3. s \in Bijection(DOMAIN s, On(s))
  <2>1. s \in [DOMAIN s -> On(s)]
    BY DEF List, On
  <2>2. \A a, b \in DOMAIN s : s[a] = s[b] => a = b
    BY DEF List, IsInjective
  <2>3. \A t \in On(s) : \E k \in DOMAIN s : s[k] = t
    BY DEF On
  <2> QED
    BY <2>1, <2>2, <2>3 DEF Bijection, Injection, Surjection, IsInjective
<1> QED
  BY <1>2, <1>3, FS_Bijection DEF ExistsBijection

\* Values are of their types: what is counted is never below zero, and no format is on
\* the list twice.
THEOREM TypeOKHolds == Spec => []TypeOK
<1>1. IInv /\ Pinned => TypeOK
  <2> SUFFICES ASSUME IInv, Pinned PROVE TypeOK
    OBVIOUS
  <2>1. formats \in Seq(Format) /\ Cardinality(Registered) = Len(formats)
    BY ListLength DEF Pinned, Registry, Registered, List, On
  <2>2. going \subseteq Format
    <3>1. \A k \in DOMAIN formats : formats[k] \in Format
      BY <2>1, LenProperties
    <3> QED
      BY <3>1 DEF Pinned, Registry, Registered
  <2>3. modref \in [Format -> Nat]
    <3>1. ASSUME NEW f \in Format PROVE modref[f] \in Nat
      <4>1. Pins(f)
        BY PinsIs DEF Pinned
      <4>2. /\ Cardinality(Frames(stack, f)) \in Nat
            /\ Cardinality(OfFormat(mmFormat, f)) \in Nat
        BY FramesIs, OfFormatIs DEF Pinned, References
      <4> QED
        BY <4>1, <4>2 DEF Pins
    <3> QED
      BY <3>1 DEF Pinned, References
  <2>4. users \in [Mm -> Nat]
    <3>1. \A m \in Mm : UsersOf(m) \in Nat
      BY DEF UsersOf
    <3> QED
      BY <3>1 DEF Types, Counted
  <2>5. opened \in [File -> Nat]
    <3>1. \A f \in File : Opens(f) \in Nat
      BY DEF Opens
    <3> QED
      BY <3>1 DEF Types, OpenedFor
  <2>6. elf.interpreter \in File \cup {NoFile} /\ elf.set \subseteq Blocks
    BY DEF Types, Blocks
  <2>7. live \subseteq Blocks /\ faulty \in BOOLEAN
    <3>1. Held \subseteq Blocks
      BY <2>6 DEF Held, Blocks
    <3> QED
      BY <3>1 DEF Allocated
  <2>8. stack \in Seq([fmt : Format \cup {NoFormat}, retry : BOOLEAN])
    BY DEF Pinned, References, Call
  <2>9. displaced \in BOOLEAN /\ sigsegv \in BOOLEAN
    BY DEF Types
  <2>10. /\ mm \in Mm \cup {NoMm} /\ sharer \in Mm \cup {NoMm}
         /\ files \in {"own", "shared"}
         /\ bprm \in [file : File \cup {NoFile}, interp : {"filename", "own", "NULL"},
                      mm : Mm \cup {NoMm}, cred : BOOLEAN]
    BY DEF Types
  <2>11. /\ ret \in {"ok", "ENOEXEC", "error"} /\ buf \in File \cup {NoFile}
         /\ mmFormat \in [Mm -> Format \cup {NoFormat}]
    BY DEF Pinned, Values, References
  <2> QED
    BY <2>1, <2>2, <2>3, <2>4, <2>5, <2>6, <2>7, <2>8, <2>9, <2>10, <2>11 DEF TypeOK
<1> QED
  BY <1>1, Invariant, RegistryInvariant, PTL

===============================================================================
