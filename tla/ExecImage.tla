------------------------------- MODULE ExecImage -------------------------------
(***************************************************************************)
(* What an execve() takes, hands over and gives back: do_execveat_common() *)
(* and search_binary_handler() of src/kernel/exec.c with load_elf_binary() *)
(* of src/kernel/binfmt_elf.c, one task exec'ing again and again, every    *)
(* step of it that may fail failing.                                       *)
(*                                                                         *)
(* Beside it binary formats are loaded and unloaded as modules, and        *)
(* another task shares an address space for a while.  The wait for         *)
(* cred_guard_mutex and for the other threads is ExecThreadGroup's.        *)
(*                                                                         *)
(* A file is opened for execution, with writes denied, or not; what is in  *)
(* it is the format that accepts it.  A format that is not ELF stands for  *)
(* those which rewrite the exec to that of an interpreter, like scripts;   *)
(* they are not in the repository, and are modelled from what exec.c       *)
(* exports to them and expects back.                                       *)
(***************************************************************************)
EXTENDS Integers, Sequences, FiniteSets, FiniteSetsExt, SequencesExt

CONSTANTS
  File,        \* the files that are exec'd or named as an interpreter
  NoFile,      \* a NULL struct file
  Format,      \* the formats
  Elf,         \* elf_format
  NoFormat,
  FormatOf,    \* FormatOf[f]: the format whose handler accepts file f
  Printable,   \* the files whose first four bytes are printable
  Mm,          \* the mm_structs
  NoMm

ASSUME FormatAssumption ==
  /\ Elf \in Format /\ NoFormat \notin Format
  /\ FormatOf \in [File -> Format \cup {NoFormat}]
  /\ NoFile \notin File /\ NoMm \notin Mm
  /\ IsFiniteSet(Mm)
  /\ Printable \subseteq File

VARIABLES
  formats,     \* the list of registered formats, in the order they are tried
  going,       \* formats whose module is being removed
  modref,      \* reference count of a format's module
  users,       \* mm_users of an mm; 0 for one that does not exist
  mmFormat,    \* mm->binfmt
  mm,          \* current->mm
  sharer,      \* the mm of the other task, or NoMm
  files,       \* current->files is "own" or "shared"
  pc,
  bprm,        \* struct linux_binprm: file, interp, mm, whether cred is set
  buf,         \* bprm->buf: the file whose header is in it
  displaced,   \* the shared files_struct is to be put or restored
  elf,         \* load_elf_binary(): interpreter, and the locals that are set
  stack,       \* the calls of search_binary_handler(): fmt and need_retry
  ret,         \* the return value: "ok", "ENOEXEC" or "error"
  sigsegv,     \* SIGSEGV is forced on the task
  opened,      \* do_open_execat() of a file less what gave it back
  live,        \* what is allocated or locked
  faulty,      \* something was freed that was not there, or lost
  before       \* the mm and files at the call of execve()

moduleVars == <<formats, going, modref>>
mmVars == <<users, mmFormat, mm, sharer>>
bprmVars == <<bprm, buf, displaced, files, before>>
heapVars == <<opened, live, faulty>>
searchVars == <<stack, ret, sigsegv>>
vars == <<moduleVars, mmVars, bprmVars, heapVars, searchVars, elf, pc>>

-------------------------------------------------------------------------------
Goto(l) == pc' = l

\* kfree() and the unlocks, then kmalloc() and the locks, of one step.
Heap(freed, new) ==
  /\ live' = (live \ freed) \cup new
  /\ faulty' = (faulty \/ ~(freed \subseteq live) \/ new \cap (live \ freed) # {})
Kmalloc(new) == Heap({}, new)
Kfree(freed) == Heap(freed, {})

\* do_open_execat(), and allow_write_access() with fput().
Open(f) == opened' = [opened EXCEPT ![f] = @ + 1]
Close(f) ==
  opened' = [g \in File |-> IF g = f THEN opened[g] - 1 ELSE opened[g]]

\* References to the modules of formats, taken and put in one step.
ModRef(taken, put) ==
  modref' = [f \in Format |->
    modref[f] + (IF f = taken THEN 1 ELSE 0) - (IF f = put THEN 1 ELSE 0)]

\* mmput(): the last user takes the mm down, with its reference to a module.
MmPut(m) ==
  /\ users' = [n \in Mm |-> IF n = m THEN users[n] - 1 ELSE users[n]]
  /\ LET last == m # NoMm /\ users[m] = 1
         fmt == IF last THEN mmFormat[m] ELSE NoFormat
     IN /\ ModRef(NoFormat, fmt)
        /\ mmFormat' = [n \in Mm |-> IF last /\ n = m THEN NoFormat ELSE mmFormat[n]]

NoBprm == [file |-> NoFile, interp |-> "filename", mm |-> NoMm, cred |-> FALSE]
NoElf == [interpreter |-> NoFile, set |-> {}]

Init ==
  /\ formats = <<Elf>>
  /\ going = {}
  /\ \E m \in Mm :
       /\ users = [n \in Mm |-> IF n = m THEN 1 ELSE 0]
       /\ mmFormat = [n \in Mm |-> IF n = m THEN Elf ELSE NoFormat]
       /\ mm = m
       /\ before = [mm |-> m, files |-> "own"]
  /\ modref = [f \in Format |-> IF f = Elf THEN 1 ELSE 0]
  /\ sharer = NoMm
  /\ files = "own"
  /\ pc = "user"
  /\ bprm = NoBprm /\ buf = NoFile /\ displaced = FALSE
  /\ elf = NoElf
  /\ stack = <<>> /\ ret = "ok" /\ sigsegv = FALSE
  /\ opened = [f \in File |-> 0]
  /\ live = {} /\ faulty = FALSE

-------------------------------------------------------------------------------
(* do_execveat_common(), up to exec_binprm().                              *)

\* unshare_files() and the bprm, or no memory for the bprm.  (Without memory for
\* a files_struct nothing has changed.)
Execve ==
  /\ pc = "user" /\ ~sigsegv
  /\ before' = [mm |-> mm, files |-> files]
  /\ displaced' = (files = "shared")
  /\ files' = "own"
  /\ ret' = "error"
  /\ \/ Goto("creds") /\ Kmalloc({"bprm"})
     \/ Goto("outFiles") /\ UNCHANGED <<live, faulty>>
  /\ UNCHANGED <<moduleVars, mmVars, bprm, buf, opened, stack, sigsegv, elf>>

\* prepare_bprm_creds()
PrepareCreds ==
  /\ pc = "creds"
  /\ \/ Goto("open") /\ Kmalloc({"cred_guard_mutex", "cred"})
        /\ bprm' = [bprm EXCEPT !.cred = TRUE]
     \/ Goto("outFree") /\ UNCHANGED <<bprm, live, faulty>>
  /\ UNCHANGED <<moduleVars, mmVars, buf, displaced, files, before, opened,
                 searchVars, elf>>

OpenFile ==
  /\ pc = "open"
  /\ \/ \E f \in File :
          Open(f) /\ bprm' = [bprm EXCEPT !.file = f] /\ Goto("name")
     \/ Goto("outFree") /\ UNCHANGED <<opened, bprm>>
  /\ UNCHANGED <<moduleVars, mmVars, buf, displaced, files, before, live, faulty,
                 searchVars, elf>>

\* bprm->filename is the name given, or pathbuf for one relative to a descriptor.
Name ==
  /\ pc = "name"
  /\ \/ Goto("mm") /\ Kmalloc({"pathbuf"})
     \/ Goto("mm") /\ UNCHANGED <<live, faulty>>
     \/ Goto("outFree") /\ UNCHANGED <<live, faulty>>
  /\ UNCHANGED <<moduleVars, mmVars, bprmVars, opened, searchVars, elf>>

\* bprm_mm_init()
BprmMmInit ==
  /\ pc = "mm"
  /\ \/ \E m \in Mm :
          /\ users[m] = 0
          /\ users' = [users EXCEPT ![m] = 1]
          /\ bprm' = [bprm EXCEPT !.mm = m]
          /\ Goto("strings")
     \/ Goto("outFree") /\ UNCHANGED <<users, bprm>>
  /\ UNCHANGED <<moduleVars, mmFormat, mm, sharer, buf, displaced, files, before,
                 heapVars, searchVars, elf>>

\* count(), prepare_binprm() and copy_strings()
CopyStrings ==
  /\ pc = "strings"
  /\ \/ buf' = bprm.file /\ Goto("search")
     \/ buf' \in {buf, bprm.file} /\ Goto("out")
  /\ UNCHANGED <<moduleVars, mmVars, bprm, displaced, files, before, heapVars,
                 searchVars, elf>>

-------------------------------------------------------------------------------
(* search_binary_handler().  The call that runs is on top of the stack; each *)
(* below it is in the load_binary() of its format.                          *)

Top == stack[Len(stack)]
Below == SubSeq(stack, 1, Len(stack) - 1)

\* The handlers under way: recursion_depth as a call of it finds it.
RecursionDepth == Len(stack)

\* The next format of the list behind fmt whose module can be had.
Position(fmt) == Max({0} \cup {k \in DOMAIN formats : formats[k] = fmt})
Candidates(fmt) ==
  {k \in DOMAIN formats : k > Position(fmt) /\ formats[k] \notin going}

\* What one hold of binfmt_lock does: put_binfmt() of the format whose handler
\* came back, the walk to the next one and try_module_get() of that.
Walk(calls, fmt, retry) ==
  LET next == IF Candidates(fmt) = {} THEN NoFormat
              ELSE formats[Min(Candidates(fmt))]
  IN /\ stack' = Append(calls, [fmt |-> next, retry |-> retry])
     /\ ModRef(next, fmt)
     /\ Goto(IF next = NoFormat THEN "end" ELSE "load")

\* The call ends: its caller is exec_binprm() or a handler, which ends with it.
Return(calls) ==
  /\ stack' = calls
  /\ Goto(IF calls # <<>> THEN "return" ELSE IF ret' = "ok" THEN "done" ELSE "out")

\* Too many rewrites, or security_bprm_check() refuses, or the first format; the
\* value of an empty list is -ENOENT.
Search ==
  /\ pc = "search"
  /\ ret' = "error"
  /\ \/ RecursionDepth =< 5 /\ Walk(stack, NoFormat, TRUE)
     \/ Return(stack) /\ UNCHANGED modref
  /\ UNCHANGED <<formats, going, mmVars, bprmVars, heapVars, sigsegv, elf>>

\* load_binary() has returned.
HandlerReturns ==
  /\ pc = "return"
  /\ UNCHANGED ret
  /\ \/ /\ ret # "ok" /\ bprm.mm = NoMm
        /\ sigsegv' = TRUE
        /\ ModRef(NoFormat, Top.fmt)
        /\ Return(Below)
     \/ /\ ret = "ok" \/ bprm.mm # NoMm
        /\ ret # "ENOEXEC" \/ bprm.file = NoFile
        /\ ModRef(NoFormat, Top.fmt)
        /\ Return(Below)
        /\ UNCHANGED sigsegv
     \/ /\ ret = "ENOEXEC" /\ bprm.mm # NoMm /\ bprm.file # NoFile
        /\ Walk(Below, Top.fmt, Top.retry)
        /\ UNCHANGED sigsegv
  /\ UNCHANGED <<formats, going, mmVars, bprmVars, heapVars, elf>>

\* Mutant: need_retry stays set.
EndOfFormatsAgain ==
  /\ pc = "end"
  /\ UNCHANGED ret
  /\ \/ Return(Below) /\ UNCHANGED modref
     \/ /\ Top.retry /\ buf \notin Printable
        /\ Walk(Below, NoFormat, TRUE)
  /\ UNCHANGED <<formats, going, mmVars, bprmVars, heapVars, sigsegv, elf>>

\* The list is exhausted: once, for a header that is not text, a module is
\* requested for it and the list is tried again.
EndOfFormats ==
  /\ pc = "end"
  /\ UNCHANGED ret
  /\ \/ Return(Below) /\ UNCHANGED modref
     \/ /\ Top.retry /\ buf \notin Printable
        /\ Walk(Below, NoFormat, FALSE)
  /\ UNCHANGED <<formats, going, mmVars, bprmVars, heapVars, sigsegv, elf>>

-------------------------------------------------------------------------------
(* A format that rewrites the exec to that of an interpreter.              *)

Loading(fmt) == pc = "load" /\ Top.fmt = fmt
Returns(r) == ret' = r /\ Goto("return")

Refuse(fmt) ==
  /\ Loading(fmt) /\ fmt # Elf
  /\ FormatOf[buf] # fmt
  /\ Returns("ENOEXEC")
  /\ UNCHANGED <<moduleVars, mmVars, bprmVars, heapVars, stack, sigsegv, elf>>

\* The file is given back first: no other format will be asked.
Rewrite(fmt) ==
  /\ Loading(fmt) /\ fmt # Elf
  /\ FormatOf[buf] = fmt
  /\ Close(bprm.file)
  /\ bprm' = [bprm EXCEPT !.file = NoFile]
  /\ \/ Goto("interp") /\ UNCHANGED ret
     \/ Returns("ENOEXEC") \/ Returns("error")
  /\ UNCHANGED <<moduleVars, mmVars, buf, displaced, files, before, live, faulty,
                 stack, sigsegv, elf>>

\* bprm_change_interp()
ChangeInterp ==
  /\ pc = "interp"
  /\ LET old == IF bprm.interp = "own" THEN {"interp"} ELSE {}
     IN \/ Heap(old, {"interp"}) /\ Goto("reopen") /\ UNCHANGED ret
           /\ bprm' = [bprm EXCEPT !.interp = "own"]
        \/ Kfree(old) /\ Returns("error")
           /\ bprm' = [bprm EXCEPT !.interp = "NULL"]
  /\ UNCHANGED <<moduleVars, mmVars, buf, displaced, files, before, opened,
                 stack, sigsegv, elf>>

\* open_exec(), prepare_binprm() and the nested search_binary_handler()
Reopen ==
  /\ pc = "reopen"
  /\ \/ \E f \in File :
          /\ Open(f)
          /\ bprm' = [bprm EXCEPT !.file = f]
          /\ \/ buf' = f /\ Goto("search") /\ UNCHANGED ret
             \/ buf' \in {buf, f} /\ Returns("error")
     \/ Returns("error") /\ UNCHANGED <<opened, bprm, buf>>
  /\ UNCHANGED <<moduleVars, mmVars, displaced, files, before, live, faulty,
                 stack, sigsegv, elf>>

-------------------------------------------------------------------------------
(* load_elf_binary().                                                      *)

\* The labels of its error cleanup, each with those that it falls through to:
\* what they free.  kfree(NULL) does nothing.
OutFreePh == {"loc"} \cup (elf.set \cap {"elf_phdata"})
OutFreeInterp == OutFreePh \cup (elf.set \cap {"elf_interpreter"})
OutFreeDentry == OutFreeInterp \cup (elf.set \cap {"interp_elf_phdata"})

\* The handler fails at one of the labels; out_free_dentry closes interpreter.
Fail(label, r) == Kfree(label) /\ Returns(r) /\ elf' = NoElf
FailDentry(r) == Fail(OutFreeDentry, r) /\ Close(elf.interpreter)

\* What most steps of the handler leave alone.
ElfFrame == <<moduleVars, mmVars, displaced, files, before, stack, sigsegv>>

\* The header and its program headers.
ElfHeader ==
  /\ Loading(Elf)
  /\ \/ /\ FormatOf[buf] = Elf
        /\ Kmalloc({"loc", "elf_phdata"})
        /\ elf' = [elf EXCEPT !.set = {"elf_phdata"}]
        /\ Goto("ptInterp") /\ UNCHANGED ret
     \/ /\ Returns("ENOEXEC") \/ Returns("error")
        /\ UNCHANGED <<live, faulty, elf>>
  /\ UNCHANGED <<ElfFrame, bprm, buf, opened>>

\* PT_INTERP: none, one of a bad size, or the memory for its path.
ElfPtInterp ==
  /\ pc = "ptInterp"
  /\ \/ Goto("flush") /\ UNCHANGED <<live, faulty, ret, elf>>
     \/ Kmalloc({"elf_interpreter"}) /\ Goto("openInterp") /\ UNCHANGED ret
        /\ elf' = [elf EXCEPT !.set = @ \cup {"elf_interpreter"}]
     \/ Fail(OutFreePh, "ENOEXEC") \/ Fail(OutFreePh, "error")
  /\ UNCHANGED <<ElfFrame, bprm, buf, opened>>

\* The path is read and checked, and open_exec() called.
ElfOpenInterp ==
  /\ pc = "openInterp"
  /\ \/ \E f \in File :
          /\ Open(f)
          /\ elf' = [elf EXCEPT !.interpreter = f]
          /\ Goto("readInterp") /\ UNCHANGED <<live, faulty, ret>>
     \/ /\ Fail(OutFreeInterp, "ENOEXEC") \/ Fail(OutFreeInterp, "error")
        /\ UNCHANGED opened
  /\ UNCHANGED <<ElfFrame, bprm, buf>>

\* Mutant: an interpreter that is not ELF is refused with the -ENOEXEC of before.
ElfReadInterpNoExec ==
  /\ pc = "readInterp"
  /\ buf' = elf.interpreter
  /\ \/ /\ FormatOf[elf.interpreter] = Elf
        /\ Kmalloc({"interp_elf_phdata"})
        /\ elf' = [elf EXCEPT !.set = @ \cup {"interp_elf_phdata"}]
        /\ Goto("flush") /\ UNCHANGED <<opened, ret>>
     \/ FailDentry("ENOEXEC")
  /\ UNCHANGED <<ElfFrame, bprm>>

\* The interpreter's header is read over that of the binary; -ELIBBAD for what
\* is not ELF or has no program headers that can be read.
ElfReadInterp ==
  /\ pc = "readInterp"
  /\ buf' = elf.interpreter
  /\ \/ /\ FormatOf[elf.interpreter] = Elf
        /\ Kmalloc({"interp_elf_phdata"})
        /\ elf' = [elf EXCEPT !.set = @ \cup {"interp_elf_phdata"}]
        /\ Goto("flush") /\ UNCHANGED <<opened, ret>>
     \/ FailDentry("error")
  /\ UNCHANGED <<ElfFrame, bprm>>

\* Mutant: bprm->mm still points to the mm that is in use now.
FlushKeepsMm ==
  /\ pc = "flush"
  /\ MmPut(mm)
  /\ mm' = bprm.mm
  /\ Goto("map")
  /\ UNCHANGED <<formats, going, sharer, bprmVars, heapVars, searchVars, elf>>

\* flush_old_exec() that succeeds: exec_mmap() makes the new mm the task's and
\* drops the old one.
Flush ==
  /\ pc = "flush"
  /\ MmPut(mm)
  /\ mm' = bprm.mm
  /\ bprm' = [bprm EXCEPT !.mm = NoMm]
  /\ Goto("map")
  /\ UNCHANGED <<formats, going, sharer, buf, displaced, files, before, heapVars,
                 searchVars, elf>>

\* ... or de_thread() or exec_mmap() fails, and the old mm stays.
FlushFails ==
  /\ pc = "flush"
  /\ FailDentry("error")
  /\ UNCHANGED <<ElfFrame, bprm, buf>>

\* setup_arg_pages(), the PT_LOAD segments, set_brk() and padzero()
ElfMap ==
  /\ pc = "map"
  /\ \/ Goto(IF elf.interpreter = NoFile THEN "binfmt" ELSE "mapInterp")
        /\ UNCHANGED <<heapVars, ret, elf>>
     \/ FailDentry("error")
  /\ UNCHANGED <<ElfFrame, bprm, buf>>

\* Mutant: the interpreter's file is not given back when it is mapped.
ElfMapInterpKeepsFile ==
  /\ pc = "mapInterp"
  /\ \/ /\ Kfree({"elf_interpreter"})
        /\ Goto("binfmt") /\ UNCHANGED <<opened, ret, elf>>
     \/ FailDentry("error")
  /\ UNCHANGED <<ElfFrame, bprm, buf>>

\* load_elf_interp(), after which its file and its path are not needed.
ElfMapInterp ==
  /\ pc = "mapInterp"
  /\ \/ /\ Close(elf.interpreter)
        /\ Kfree({"elf_interpreter"})
        /\ Goto("binfmt") /\ UNCHANGED <<ret, elf>>
     \/ FailDentry("error")
  /\ UNCHANGED <<ElfFrame, bprm, buf>>

\* Mutant: set_binfmt() does not take a reference.
SetBinfmtNoGet ==
  /\ pc = "binfmt"
  /\ mmFormat' = [mmFormat EXCEPT ![mm] = Elf]
  /\ Kfree(elf.set \cap {"interp_elf_phdata", "elf_phdata"})
  /\ Goto("install")
  /\ UNCHANGED <<moduleVars, users, mm, sharer, bprmVars, opened, searchVars, elf>>

\* set_binfmt(), once the program headers are freed.
SetBinfmt ==
  /\ pc = "binfmt"
  /\ ModRef(Elf, mmFormat[mm])
  /\ mmFormat' = [mmFormat EXCEPT ![mm] = Elf]
  /\ Kfree(elf.set \cap {"interp_elf_phdata", "elf_phdata"})
  /\ Goto("install")
  /\ UNCHANGED <<formats, going, users, mm, sharer, bprmVars, opened, searchVars, elf>>

\* Mutant: the error after the interpreter is closed goes to out_free_dentry.
InstallCredsDentry ==
  /\ pc = "install"
  /\ \/ /\ Kfree({"cred", "cred_guard_mutex"})
        /\ bprm' = [bprm EXCEPT !.cred = FALSE]
        /\ Goto("tables") /\ UNCHANGED <<opened, ret, elf>>
     \/ FailDentry("error") /\ UNCHANGED bprm
  /\ UNCHANGED <<ElfFrame, buf>>

\* install_exec_creds(), unless arch_setup_additional_pages() fails.
InstallCreds ==
  /\ pc = "install"
  /\ \/ /\ Kfree({"cred", "cred_guard_mutex"})
        /\ bprm' = [bprm EXCEPT !.cred = FALSE]
        /\ Goto("tables") /\ UNCHANGED <<ret, elf>>
     \/ Fail({"loc"}, "error") /\ UNCHANGED bprm
  /\ UNCHANGED <<ElfFrame, buf, opened>>

\* create_elf_tables() and start_thread()
ElfTables ==
  /\ pc = "tables"
  /\ Fail({"loc"}, "ok") \/ Fail({"loc"}, "error")
  /\ UNCHANGED <<ElfFrame, bprm, buf, opened>>

-------------------------------------------------------------------------------
(* do_execveat_common(), from exec_binprm() to its end.                    *)

\* out: the mm, if it is still bprm's; then out_unmark.
Out ==
  /\ pc = "out"
  /\ MmPut(bprm.mm)
  /\ bprm' = [bprm EXCEPT !.mm = NoMm]
  /\ Goto("outFree")
  /\ UNCHANGED <<formats, going, mm, sharer, buf, displaced, files, before, heapVars,
                 searchVars, elf>>

\* free_bprm() and kfree(pathbuf)
FreeBprm(l) ==
  /\ Kfree({"bprm"} \cup (live \cap {"pathbuf"})
             \cup (IF bprm.cred THEN {"cred_guard_mutex", "cred"} ELSE {})
             \cup (IF bprm.interp = "own" THEN {"interp"} ELSE {}))
  /\ Close(bprm.file)
  /\ bprm' = NoBprm
  /\ Goto(l)
  /\ UNCHANGED <<moduleVars, mmVars, buf, before, searchVars, elf>>

OutFree == pc = "outFree" /\ FreeBprm("outFiles") /\ UNCHANGED <<displaced, files>>

\* Mutant: the displaced files_struct is put, as on success.
OutFilesPut ==
  /\ pc = "outFiles"
  /\ displaced' = FALSE
  /\ Goto("user")
  /\ UNCHANGED <<moduleVars, mmVars, bprm, buf, files, before, heapVars,
                 searchVars, elf>>

\* out_files: reset_files_struct()
OutFiles ==
  /\ pc = "outFiles"
  /\ files' = IF displaced THEN "shared" ELSE files
  /\ displaced' = FALSE
  /\ Goto("user")
  /\ UNCHANGED <<moduleVars, mmVars, bprm, buf, before, heapVars, searchVars, elf>>

\* execve succeeded: put_files_struct()
Done ==
  /\ pc = "done"
  /\ FreeBprm("user")
  /\ displaced' = FALSE
  /\ UNCHANGED files

-------------------------------------------------------------------------------
(* The rest of the kernel.                                                 *)

\* The task dies of the forced signal when it leaves the kernel.
Die ==
  /\ pc = "user" /\ sigsegv
  /\ MmPut(mm)
  /\ mm' = NoMm
  /\ Goto("dead")
  /\ UNCHANGED <<formats, going, sharer, bprmVars, heapVars, searchVars, elf>>

\* clone(CLONE_FILES), while the task is in user mode.
ShareFiles ==
  /\ pc = "user" /\ files = "own" /\ ~sigsegv
  /\ files' = "shared"
  /\ before' = [before EXCEPT !.files = "shared"]
  /\ UNCHANGED <<moduleVars, mmVars, bprm, buf, displaced, heapVars, searchVars,
                 elf, pc>>

\* Another task takes a reference to the mm (clone(CLONE_VM), get_task_mm()),
Share ==
  /\ sharer = NoMm /\ mm # NoMm
  /\ sharer' = mm
  /\ users' = [users EXCEPT ![mm] = @ + 1]
  /\ UNCHANGED <<moduleVars, mmFormat, mm, bprmVars, heapVars, searchVars, elf, pc>>

\* and drops it.
Unshare ==
  /\ sharer # NoMm
  /\ MmPut(sharer)
  /\ sharer' = NoMm
  /\ UNCHANGED <<formats, going, mm, bprmVars, heapVars, searchVars, elf, pc>>

Registered == {formats[k] : k \in DOMAIN formats}

\* __register_binfmt(), at the head or at the tail
Insmod(fmt) ==
  /\ fmt \notin Registered
  /\ formats' = <<fmt>> \o formats \/ formats' = Append(formats, fmt)
  /\ UNCHANGED <<going, modref, mmVars, bprmVars, heapVars, searchVars, elf, pc>>

\* A module that nobody uses is on its way out: no reference can be had any more.
Rmmod(fmt) ==
  /\ fmt \in Registered \ going
  /\ modref[fmt] = 0
  /\ going' = going \cup {fmt}
  /\ UNCHANGED <<formats, modref, mmVars, bprmVars, heapVars, searchVars, elf, pc>>

\* unregister_binfmt(), in the exit of the module
Unregister(fmt) ==
  /\ fmt \in going
  /\ going' = going \ {fmt}
  /\ \E k \in DOMAIN formats : formats[k] = fmt /\ formats' = RemoveAt(formats, k)
  /\ UNCHANGED <<modref, mmVars, bprmVars, heapVars, searchVars, elf, pc>>

-------------------------------------------------------------------------------
Kernel ==
  \/ PrepareCreds \/ OpenFile \/ Name \/ BprmMmInit \/ CopyStrings
  \/ Search \/ HandlerReturns \/ EndOfFormats
  \/ \E fmt \in Format : Refuse(fmt) \/ Rewrite(fmt)
  \/ ChangeInterp \/ Reopen
  \/ ElfHeader \/ ElfPtInterp \/ ElfOpenInterp \/ ElfReadInterp \/ Flush \/ FlushFails
  \/ ElfMap \/ ElfMapInterp \/ SetBinfmt \/ InstallCreds \/ ElfTables
  \/ Out \/ OutFree \/ OutFiles \/ Done \/ Die

Others ==
  \/ Share \/ Unshare
  \/ \E fmt \in Format : Insmod(fmt) \/ Rmmod(fmt) \/ Unregister(fmt)

Next == Execve \/ ShareFiles \/ Kernel \/ Others

Spec == Init /\ [][Next]_vars

\* A system call runs on.
FairSpec == Spec /\ WF_vars(Kernel)

-------------------------------------------------------------------------------
(* Properties.                                                             *)

Blocks == {"bprm", "cred", "cred_guard_mutex", "pathbuf", "interp", "loc",
           "elf_phdata", "elf_interpreter", "interp_elf_phdata"}

TypeOK ==
  /\ formats \in Seq(Format) /\ Cardinality(Registered) = Len(formats)
  /\ going \subseteq Format
  /\ modref \in [Format -> Nat]
  /\ users \in [Mm -> Nat]
  /\ mmFormat \in [Mm -> Format \cup {NoFormat}]
  /\ mm \in Mm \cup {NoMm} /\ sharer \in Mm \cup {NoMm}
  /\ files \in {"own", "shared"}
  /\ bprm \in [file : File \cup {NoFile}, interp : {"filename", "own", "NULL"},
               mm : Mm \cup {NoMm}, cred : BOOLEAN]
  /\ buf \in File \cup {NoFile}
  /\ displaced \in BOOLEAN
  /\ elf.interpreter \in File \cup {NoFile} /\ elf.set \subseteq Blocks
  /\ stack \in Seq([fmt : Format \cup {NoFormat}, retry : BOOLEAN])
  /\ ret \in {"ok", "ENOEXEC", "error"}
  /\ sigsegv \in BOOLEAN
  /\ opened \in [File -> Nat]
  /\ live \subseteq Blocks
  /\ faulty \in BOOLEAN

\* When an execve() is over, however many rewrites it went through and wherever
\* it failed, all it took is given back, and on the way nothing was given back
\* twice or lost: buffers, creds and their mutex, files, displaced files_struct.
NothingHeld ==
  /\ ~faulty
  /\ pc \in {"user", "dead"} =>
       live = {} /\ ~displaced /\ \A f \in File : opened[f] = 0

\* mm_users counts those that use the mm: the task, the exec that prepares it
\* and the other task; the new one is neither lost nor put twice.
MmOwned ==
  \A m \in Mm :
    users[m] = Cardinality({r \in {"mm", "sharer", "bprm"} :
                 m = CASE r = "mm" -> mm [] r = "sharer" -> sharer
                       [] r = "bprm" -> bprm.mm})

\* A format is on the list as long as search_binary_handler(), which has let go
\* of binfmt_lock, is to walk on from it, or an mm is of it: references to its
\* module are those of the handlers under way and of the mms, no more or less.
FormatsPinned ==
  \A fmt \in Format :
    /\ modref[fmt] = Cardinality({k \in DOMAIN stack : stack[k].fmt = fmt})
                       + Cardinality({m \in Mm : mmFormat[m] = fmt})
    /\ modref[fmt] > 0 => fmt \in Registered \ going

\* An execve() that returns an error to its program left it the image and the
\* files it had; one that succeeds has handed over everything: the new mm, files
\* of its own, its creds.  What fails in between is killed.
FailedExecUndone ==
  /\ pc = "user" /\ ~sigsegv /\ ret # "ok" => mm = before.mm /\ files = before.files
  /\ pc = "done" => mm # before.mm /\ files = "own" /\ ~bprm.cred /\ ~sigsegv

\* A handler that is asked about an image finds the header of the file that it
\* would map, whatever handlers were asked before it.
HeaderOfFile == pc = "load" => buf = bprm.file

\* Every execve() returns, scripts that name themselves included.
ExecReturns == pc = "creds" ~> pc \in {"user", "dead"}

\* The comment in search_binary_handler(): "This allows 4 levels of binfmt
\* rewrites before failing hard."
FourRewrites == pc = "load" => RecursionDepth - 1 =< 4

===============================================================================
