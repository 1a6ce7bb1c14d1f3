---------------------------- MODULE ProcessCreation ----------------------------
(***************************************************************************)
(* do_fork() and copy_process() of src/kernel/fork.c: what a clone takes   *)
(* or shares for the new task, in order, each step of it that may fail     *)
(* failing, the labels that give it back, the linking of the new task      *)
(* against fatal signals, and the wait of a vfork for the address space.   *)
(*                                                                         *)
(* Any number of tasks clone at the same time.  Exit, and exec but for its *)
(* exec_mmap(), are reduced to the references they put.                    *)
(***************************************************************************)
EXTENDS Integers, Sequences, FiniteSets, FiniteSetsExt

CONSTANTS
  Task,          \* task_structs
  NoTask,
  CloneFlags,    \* the sets of flags that callers use
  MaxThreads,    \* max_threads
  Nproc          \* RLIMIT_NPROC of the user

\* CLONE_FILES and so on; the exit signal is left out.
Flag == {"FILES", "FS", "SIGHAND", "THREAD", "VM", "VFORK"}

ASSUME ForkAssumption ==
  /\ IsFiniteSet(Task) /\ Task # {} /\ NoTask \notin Task
  /\ CloneFlags \subseteq SUBSET Flag
  /\ MaxThreads \in Nat /\ Nproc \in Nat

VARIABLES
  st,            \* "none", "embryo", "linked" or "dead"
  pc,            \* where a task is: <<"user">>, <<"copy", step>>, <<"wake">>...
  child,         \* the task that a task is creating or waits for
  flags,         \* the flags of that clone
  ptr,           \* ptr[t][r]: the files_struct, fs_struct, ... of t
  refs,          \* refs[r][o]: the reference count of object o, 0 if it is free
  counts,        \* user->processes, nr_threads, the domain's module, group_rwsem
  pids,          \* tasks with a struct pid
  usage,         \* tasks that a vfork has a reference to
  vforkDone,     \* task->vfork_done: whose frame the completion is in
  completion,    \* the completion in the frame of a task: "none", "waited", "done"
  lender,        \* whose address space a vforked task is using
  pending,       \* a fatal signal is pending
  struck,        \* the process group was sent a fatal signal
  faulty         \* something was put or written that was not there

objectVars == <<ptr, refs, pids>>
vforkVars == <<usage, vforkDone, completion, lender>>
signalVars == <<pending, struck>>
vars == <<st, pc, child, flags, objectVars, counts, vforkVars, signalVars, faulty>>

-------------------------------------------------------------------------------
Resource == {"files", "fs", "sighand", "signal", "mm"}
\* What a task has for itself, in the two runs of steps that take it.
Local == {"policy", "perf", "audit", "semundo"}
Spaces == {"namespaces", "io"}
Object == Task                   \* there are never more of a kind than tasks
NoObject == NoTask

\* The flag that shares a resource.
Shares == [files |-> "FILES", fs |-> "FS", sighand |-> "SIGHAND",
           signal |-> "THREAD", mm |-> "VM"]

\* The steps of copy_process() that take something, and the labels that give it
\* back, each falling through to those after it.
Steps == <<"creds", "module", "policy", "perf", "audit", "semundo", "files", "fs",
           "sighand", "signal", "mm", "namespaces", "io", "pid", "link">>
Labels == <<"pid", "io", "namespaces", "mm", "signal", "sighand", "fs", "files",
            "semundo", "audit", "perf", "policy", "threadgroup", "count", "free">>

\* Mutant: a failure of copy_files() goes to the label of the files.
FailsToOwn == [creds |-> "free", module |-> "count", policy |-> "threadgroup",
               perf |-> "policy", audit |-> "perf", semundo |-> "audit",
               files |-> "files", fs |-> "files", sighand |-> "fs",
               signal |-> "sighand", mm |-> "signal", namespaces |-> "mm",
               io |-> "namespaces", pid |-> "io", link |-> "pid"]
\* The label that each step jumps to if it fails.
FailsTo == [creds |-> "free", module |-> "count", policy |-> "threadgroup",
            perf |-> "policy", audit |-> "perf", semundo |-> "audit",
            files |-> "semundo", fs |-> "files", sighand |-> "fs",
            signal |-> "sighand", mm |-> "signal", namespaces |-> "mm",
            io |-> "namespaces", pid |-> "io", link |-> "pid"]
Index(seq, x) == CHOOSE i \in DOMAIN seq : seq[i] = x
Reached(l) == {Labels[i] : i \in Index(Labels, l) .. Len(Labels)}
Taken(step) == {Steps[i] : i \in 1 .. Index(Steps, step) - 1}

At(t, phase, step) == pc[t] = <<phase, step>>
InUser(t) == pc[t] = <<"user">>
Goto(t, l) == pc' = [pc EXCEPT ![t] = l]
Passes(t, step) == Goto(t, <<"copy", Steps[Index(Steps, step) + 1]>>)

Linked == {t \in Task : st[t] = "linked"}
\* The threads of the process of t.
Group(t) == {u \in Linked : ptr[u].signal = ptr[t].signal}

\* A reference to the resources R of task u is put, or one of kind k is counted.
Put(u, R) ==
  refs' = [r \in Resource |-> [o \in Object |->
             refs[r][o] - (IF r \in R /\ ptr[u][r] = o THEN 1 ELSE 0)]]
Count(k, n) == counts' = [counts EXCEPT ![k] = @ + n]

\* A count that is put below zero, or a block freed that is not there.
Fault(bad) == faulty' = (faulty \/ bad)

\* The task_structs that are free.  An object bears the name of the task it was made
\* for, so that a name is not used again before all of its objects are free.
Unused ==
  {u \in Task : st[u] = "none" /\ \A r \in Resource : refs[r][u] = 0}
FreeObject(count, r, t) ==
  IF count[r][t] = 0 THEN t ELSE CHOOSE o \in Object : count[r][o] = 0

NoPtr == [r \in Resource |-> NoObject]

\* One process that was started from outside.
Init ==
  LET t0 == CHOOSE t \in Task : TRUE
  IN
    /\ st = [t \in Task |-> IF t = t0 THEN "linked" ELSE "none"]
    /\ pc = [t \in Task |-> IF t = t0 THEN <<"user">> ELSE <<"new">>]
    /\ child = [t \in Task |-> NoTask]
    /\ flags = [t \in Task |-> {}]
    /\ ptr = [t \in Task |-> IF t = t0 THEN [r \in Resource |-> t0] ELSE NoPtr]
    /\ refs = [r \in Resource |-> [o \in Object |-> IF o = t0 THEN 1 ELSE 0]]
    /\ counts = [processes |-> 1, threads |-> 1, module |-> 1, changing |-> 0]
    /\ pids = {t0}
    /\ usage = {}
    /\ vforkDone = [t \in Task |-> NoTask]
    /\ completion = [t \in Task |-> "none"]
    /\ lender = [t \in Task |-> NoTask]
    /\ pending = [t \in Task |-> FALSE]
    /\ struck = FALSE
    /\ faulty = FALSE

-------------------------------------------------------------------------------
(* copy_process(): what is taken.                                          *)

\* The tests of the flags, dup_task_struct(), which copies every pointer of the
\* caller, and the test of the number of processes.  Failures change nothing.
Fork(t) ==
  /\ InUser(t) /\ t \in Linked /\ ~pending[t]
  /\ counts.processes < Nproc
  /\ Unused # {}
  /\ \E f \in CloneFlags :
       LET u == CHOOSE free \in Unused : TRUE IN
       /\ "THREAD" \in f => "SIGHAND" \in f
       /\ "SIGHAND" \in f => "VM" \in f
       /\ st' = [st EXCEPT ![u] = "embryo"]
       /\ child' = [child EXCEPT ![t] = u]
       /\ flags' = [flags EXCEPT ![t] = f]
       /\ ptr' = [ptr EXCEPT ![u] = ptr[t]]
       /\ vforkDone' = [vforkDone EXCEPT ![u] = vforkDone[t]]
  /\ Goto(t, <<"copy", "creds">>)
  /\ UNCHANGED <<refs, pids, counts, usage, completion, lender, signalVars,
                 faulty>>

\* copy_creds(), which counts the process.
CopyCreds(t) ==
  /\ At(t, "copy", "creds")
  /\ Count("processes", 1)
  /\ Passes(t, "creds")
  /\ UNCHANGED <<st, child, flags, ptr, refs, pids, vforkVars, signalVars, faulty>>

\* Mutant: vfork_done is left as dup_task_struct() copied it.
CopyModuleKeepsVfork(t) ==
  /\ At(t, "copy", "module")
  /\ counts.threads < MaxThreads
  /\ counts' = [counts EXCEPT !.module = @ + 1,
                  !.changing = @ + (IF "THREAD" \in flags[t] THEN 1 ELSE 0)]
  /\ Passes(t, "module")
  /\ UNCHANGED <<st, child, flags, objectVars, vforkVars, signalVars, faulty>>
\* The test of nr_threads, the module of the execution domain, the fields that are
\* reset, and threadgroup_change_begin().
CopyModule(t) ==
  /\ At(t, "copy", "module")
  /\ counts.threads < MaxThreads
  /\ counts' = [counts EXCEPT !.module = @ + 1,
                  !.changing = @ + (IF "THREAD" \in flags[t] THEN 1 ELSE 0)]
  /\ vforkDone' = [vforkDone EXCEPT ![child[t]] = NoTask]
  /\ Passes(t, "module")
  /\ UNCHANGED <<st, child, flags, objectVars, usage, completion, lender,
                 signalVars, faulty>>

\* Memory policy, scheduler and perf, audit and semaphores; namespaces and I/O
\* context.  Each run of them is a step, as nobody else sees what they take.
CopyPrivate(t) ==
  /\ \/ At(t, "copy", "policy") /\ Passes(t, "semundo")
     \/ At(t, "copy", "namespaces") /\ Passes(t, "io")
  /\ UNCHANGED <<st, child, flags, objectVars, counts, vforkVars, signalVars, faulty>>

\* copy_files(), copy_fs(), copy_sighand(), copy_signal(), copy_mm(): a reference
\* to the caller's object, which a signal_struct gets only at the link, or an object
\* of the task's own.
CopyShared(t) ==
  /\ \E r \in Resource :
       LET u == child[t]
           o == FreeObject(refs, r, u)
       IN /\ At(t, "copy", r)
          /\ IF Shares[r] \in flags[t]
             THEN /\ refs' = IF r = "signal" THEN refs
                             ELSE [refs EXCEPT ![r][ptr[u][r]] = @ + 1]
                  /\ UNCHANGED ptr
             ELSE /\ refs' = [refs EXCEPT ![r][o] = 1]
                  /\ ptr' = [ptr EXCEPT ![u][r] = o]
          /\ Passes(t, r)
  /\ UNCHANGED <<st, child, flags, pids, counts, vforkVars, signalVars, faulty>>

\* copy_thread() and alloc_pid()
AllocPid(t) ==
  /\ At(t, "copy", "pid")
  /\ pids' = pids \cup {child[t]}
  /\ Passes(t, "pid")
  /\ UNCHANGED <<st, child, flags, ptr, refs, counts, vforkVars, signalVars,
                 faulty>>

\* Mutant: no test for signals.
LinkAnyway(t) ==
  LET u == child[t]
      thread == "THREAD" \in flags[t]
  IN /\ At(t, "copy", "link")
     /\ st' = [st EXCEPT ![u] = "linked"]
     /\ Goto(t, <<"wake">>)
     /\ counts' = [counts EXCEPT !.threads = @ + 1,
                     !.changing = @ - (IF thread THEN 1 ELSE 0)]
     /\ refs' = IF thread THEN [refs EXCEPT !["signal"][ptr[u].signal] = @ + 1]
                ELSE refs
     /\ UNCHANGED <<child, flags, ptr, pids, vforkVars, signalVars, faulty>>
\* Under tasklist_lock and siglock: the task is linked, if no signal is pending.
Link(t) ==
  LET u == child[t]
      thread == "THREAD" \in flags[t]
  IN /\ At(t, "copy", "link")
     /\ ~pending[t]
     /\ st' = [st EXCEPT ![u] = "linked"]
     /\ Goto(t, <<"wake">>)
     /\ counts' = [counts EXCEPT !.threads = @ + 1,
                     !.changing = @ - (IF thread THEN 1 ELSE 0)]
     /\ refs' = IF thread THEN [refs EXCEPT !["signal"][ptr[u].signal] = @ + 1]
                ELSE refs
     /\ UNCHANGED <<child, flags, ptr, pids, vforkVars, signalVars, faulty>>

-------------------------------------------------------------------------------
(* copy_process(): what is given back.                                     *)

\* A step that fails: for want of memory, because of a limit, because the shared
\* fs_struct is in an exec, or because a signal is pending.  Taking a reference to
\* a shared object does not fail.
MayFail(t, step) ==
  /\ At(t, "copy", IF step \in Local THEN "policy"
                   ELSE IF step \in Spaces THEN "namespaces" ELSE step)
  /\ step = "link" => pending[t]
  /\ step \in Resource \ {"fs"} => Shares[step] \notin flags[t]

\* Mutant: a signal_struct that is shared is freed too.
PutAtAnySignal(t, labels) == Resource \cap labels
\* mmput(), free_signal_struct() of one's own, __cleanup_sighand(), exit_fs(),
\* exit_files(): the references that the labels put.
PutAt(t, labels) ==
  {r \in Resource \cap labels : r = "signal" => "THREAD" \notin flags[t]}

\* The labels from the one that is jumped to, up to free_task().  Nobody else can see
\* the embryo, so that they are one step.
BadFork(t) ==
  /\ \E step \in DOMAIN FailsTo :
       LET u == child[t]
           labels == Reached(FailsTo[step])
           put == PutAt(t, labels)
           private == labels \cap (Local \cup Spaces)
       IN /\ MayFail(t, step)
          /\ pids' = IF "pid" \in labels THEN pids \ {u} ELSE pids
          /\ Put(u, put)
          /\ counts' = [counts EXCEPT
               !.processes = @ - (IF "count" \in labels THEN 1 ELSE 0),
               !.module = @ - (IF "threadgroup" \in labels THEN 1 ELSE 0),
               !.changing =
                 @ - (IF "threadgroup" \in labels /\ "THREAD" \in flags[t]
                      THEN 1 ELSE 0)]
          /\ Fault(\/ private # Taken(step) \cap (Local \cup Spaces)
                   \/ \E r \in put : refs[r][ptr[u][r]] = 0)
          /\ st' = [st EXCEPT ![u] = "none"]
          /\ ptr' = [ptr EXCEPT ![u] = NoPtr]
          /\ vforkDone' = [vforkDone EXCEPT ![u] = NoTask]
  /\ child' = [child EXCEPT ![t] = NoTask]
  /\ flags' = [flags EXCEPT ![t] = {}]
  /\ Goto(t, <<"user">>)
  /\ UNCHANGED <<usage, completion, lender, signalVars>>

-------------------------------------------------------------------------------
(* do_fork() and vfork.                                                    *)

\* p->vfork_done is set and p referenced before the new task can run.
WakeUpNew(t) ==
  LET u == child[t]
      vfork == "VFORK" \in flags[t]
  IN /\ pc[t] = <<"wake">>
     /\ pc' = [pc EXCEPT ![u] = <<"user">>,
                         ![t] = IF vfork THEN <<"vforkWait">> ELSE <<"user">>]
     /\ IF vfork
        THEN /\ vforkDone' = [vforkDone EXCEPT ![u] = t]
             /\ completion' = [completion EXCEPT ![t] = "waited"]
             /\ usage' = usage \cup {u}
             /\ lender' = IF "VM" \in flags[t] THEN [lender EXCEPT ![u] = t] ELSE lender
             /\ UNCHANGED <<child, flags>>
        ELSE /\ child' = [child EXCEPT ![t] = NoTask]
             /\ flags' = [flags EXCEPT ![t] = {}]
             /\ UNCHANGED vforkVars
  /\ UNCHANGED <<st, objectVars, counts, signalVars, faulty>>

\* The frame of do_fork() is left, with its completion; put_task_struct(child).
LeaveVfork(t) ==
  /\ completion' = [completion EXCEPT ![t] = "none"]
  /\ usage' = usage \ {child[t]}
  /\ st' = [st EXCEPT ![child[t]] = IF @ = "dead" THEN "none" ELSE @]
  /\ child' = [child EXCEPT ![t] = NoTask]
  /\ flags' = [flags EXCEPT ![t] = {}]
  /\ Goto(t, <<"user">>)

\* wait_for_vfork_done(): the child has completed it...
VforkDone(t) ==
  /\ pc[t] = <<"vforkWait">> /\ completion[t] = "done"
  /\ LeaveVfork(t)
  /\ UNCHANGED <<objectVars, counts, vforkDone, lender, signalVars, faulty>>

\* ...or a fatal signal ends the wait...
VforkKilled(t) ==
  /\ pc[t] = <<"vforkWait">> /\ completion[t] = "waited" /\ pending[t]
  /\ Goto(t, <<"vforkKilled">>)
  /\ UNCHANGED <<st, child, flags, objectVars, counts, vforkVars, signalVars, faulty>>

\* Mutant: the child is left with the pointer to the frame.
VforkForgetKeeps(t) ==
  /\ pc[t] = <<"vforkKilled">>
  /\ LeaveVfork(t)
  /\ UNCHANGED <<objectVars, counts, vforkDone, lender, signalVars, faulty>>
\* ...and under task_lock() the child is made to forget the completion.
VforkForget(t) ==
  /\ pc[t] = <<"vforkKilled">>
  /\ vforkDone' = [vforkDone EXCEPT ![child[t]] = NoTask]
  /\ LeaveVfork(t)
  /\ UNCHANGED <<objectVars, counts, lender, signalVars, faulty>>

-------------------------------------------------------------------------------
(* mm_release() and what follows it in exec and exit.                      *)

\* The last test of mm_release(), without a lock; the memory is used no longer.
MmRelease(t, next) ==
  /\ lender' = [lender EXCEPT ![t] = NoTask]
  /\ Goto(t, IF vforkDone[t] = NoTask THEN <<next>> ELSE <<"complete", next>>)

\* exec_mmap() of a task that is alone in its process.
ExecRelease(t) ==
  /\ InUser(t) /\ t \in Linked /\ ~pending[t] /\ Group(t) = {t}
  /\ MmRelease(t, "execMmap")
  /\ UNCHANGED <<st, child, flags, objectVars, counts, usage, vforkDone, completion,
                 signalVars, faulty>>

\* do_exit(), of a task that is killed or by itself.
ExitRelease(t) ==
  /\ InUser(t) /\ t \in Linked
  /\ MmRelease(t, "exit")
  /\ UNCHANGED <<st, child, flags, objectVars, counts, usage, vforkDone, completion,
                 signalVars, faulty>>

\* Mutant: the pointer is cleared and the parent not woken.
CompleteVforkSilent(t) ==
  /\ \E next \in {"execMmap", "exit"} :
       At(t, "complete", next) /\ Goto(t, <<next>>)
  /\ vforkDone' = [vforkDone EXCEPT ![t] = NoTask]
  /\ UNCHANGED <<st, child, flags, objectVars, counts, usage, lender, completion, signalVars,
                 faulty>>
\* complete_vfork_done(), under task_lock()
CompleteVfork(t) ==
  /\ \E next \in {"execMmap", "exit"} :
       At(t, "complete", next) /\ Goto(t, <<next>>)
  /\ LET vfork == vforkDone[t]
     IN IF vfork = NoTask
        THEN UNCHANGED <<vforkDone, completion, faulty>>
        ELSE /\ vforkDone' = [vforkDone EXCEPT ![t] = NoTask]
             /\ completion' = [completion EXCEPT ![vfork] = "done"]
             /\ Fault(completion[vfork] = "none")
  /\ UNCHANGED <<st, child, flags, objectVars, counts, usage, lender, signalVars>>

\* The rest of exec_mmap(): the new address space, and mmput() of the old.
ExecMmap(t) ==
  /\ pc[t] = <<"execMmap">>
  /\ LET put == [refs EXCEPT !["mm"][ptr[t].mm] = @ - 1]
         o == FreeObject(put, "mm", t)
     IN /\ refs' = [put EXCEPT !["mm"][o] = 1]
        /\ ptr' = [ptr EXCEPT ![t].mm = o]
  /\ Goto(t, <<"user">>)
  /\ UNCHANGED <<st, child, flags, pids, counts, vforkVars, signalVars, faulty>>

\* The rest of do_exit() and release_task(): all references are put, and the task is
\* freed unless a vfork has a reference to it.
Exit(t) ==
  /\ pc[t] = <<"exit">>
  /\ st' = [st EXCEPT ![t] = IF t \in usage THEN "dead" ELSE "none"]
  /\ Goto(t, <<"new">>)
  /\ Put(t, Resource)
  /\ ptr' = [ptr EXCEPT ![t] = NoPtr]
  /\ pids' = pids \ {t}
  /\ counts' = [counts EXCEPT !.processes = @ - 1, !.threads = @ - 1, !.module = @ - 1]
  /\ lender' = [u \in Task |-> IF lender[u] = t THEN NoTask ELSE lender[u]]
  /\ pending' = [pending EXCEPT ![t] = FALSE]
  /\ struck' = (struck /\ Linked # {t})
  /\ UNCHANGED <<child, flags, usage, vforkDone, completion, faulty>>

\* A fatal signal to a process, which each thread of it gets, or to the group.
Kill ==
  /\ \E t \in Linked :
       \/ /\ pending' = [u \in Task |-> pending[u] \/ u \in Group(t)]
          /\ UNCHANGED struck
       \/ /\ pending' = [u \in Task |-> u \in Linked]
          /\ struck' = TRUE
  /\ UNCHANGED <<st, pc, child, flags, objectVars, counts, vforkVars, faulty>>

\* Nothing is left to run.
Gone ==
  /\ \A t \in Task : st[t] = "none"
  /\ UNCHANGED vars

CopyProcess(t) ==
  \/ CopyCreds(t) \/ CopyModule(t) \/ CopyPrivate(t) \/ CopyShared(t)
  \/ AllocPid(t) \/ Link(t)

\* What a task does in the kernel, once it is there.
InKernel(t) ==
  \/ CopyProcess(t) \/ BadFork(t)
  \/ WakeUpNew(t) \/ VforkDone(t) \/ VforkKilled(t) \/ VforkForget(t)
  \/ CompleteVfork(t) \/ ExecMmap(t) \/ Exit(t)

Next ==
  \/ \E t \in Task : Fork(t) \/ ExecRelease(t) \/ ExitRelease(t) \/ InKernel(t)
  \/ Kill
  \/ Gone

Spec == Init /\ [][Next]_vars

\* A task that is woken, or that is in complete_vfork_done(), is scheduled.
Fairness ==
  \A t \in Task :
    WF_vars(VforkDone(t)) /\ WF_vars(VforkKilled(t)) /\ WF_vars(CompleteVfork(t))

FairSpec == Spec /\ Fairness

-------------------------------------------------------------------------------
\* The tasks that have what is taken at step r.
Having(r) ==
  Linked \cup
  {u \in Task : \E t \in Task :
     child[t] = u /\ pc[t][1] = "copy" /\ r \in Taken(pc[t][2])}
Embryos(r) == Having(r) \ Linked
Thread(u) == \E t \in Task : child[t] = u /\ "THREAD" \in flags[t]

TypeOK ==
  /\ st \in [Task -> {"none", "embryo", "linked", "dead"}]
  /\ child \in [Task -> Task \cup {NoTask}]
  /\ flags \in [Task -> SUBSET Flag]
  /\ ptr \in [Task -> [Resource -> Object \cup {NoObject}]]
  /\ refs \in [Resource -> [Object -> 0 .. Cardinality(Task)]]
  /\ pids \subseteq Task /\ usage \subseteq Task
  /\ vforkDone \in [Task -> Task \cup {NoTask}]
  /\ completion \in [Task -> {"none", "waited", "done"}]
  /\ lender \in [Task -> Task \cup {NoTask}]
  /\ pending \in [Task -> BOOLEAN]
  /\ struck \in BOOLEAN /\ faulty \in BOOLEAN
  /\ \A t \in Task : st[t] = "linked" => \A r \in Resource : refs[r][ptr[t][r]] > 0

\* Whatever clones fail and wherever they do: each object is referenced by as many
\* as have it, each counter says how many there are, and nothing was put that was
\* not there (the labels of copy_process()).
CountsExact ==
  /\ \A r \in Resource :
       LET owners == {u \in Having(r) :
                        ~(r = "signal" /\ u \notin Linked /\ Thread(u))}
       IN \A o \in Object :
            refs[r][o] = Cardinality({u \in owners : ptr[u][r] = o})
  /\ counts.processes = Cardinality(Having("creds"))
  /\ counts.threads = Cardinality(Linked)
  /\ counts.module = Cardinality(Having("module"))
  /\ counts.changing = Cardinality({u \in Embryos("module") : Thread(u)})
  /\ pids = Having("pid")
  /\ ~faulty

\* "A fatal signal pending means that current will exit, so the new thread can't
\* slip out": nobody in a group that was struck, and no thread of a killed process,
\* is without the signal (the test under siglock before the link).
NoneSlipsOut ==
  /\ struck => \A t \in Linked : pending[t]
  /\ \A t \in Linked : \A u \in Group(t) : pending[t] <=> pending[u]

\* A completion that a task may still write to is in a frame that is not left, and
\* a task that a vfork is to put is not freed (wait_for_vfork_done() against
\* complete_vfork_done()).
CompletionAlive ==
  /\ \A u \in Linked :
       LET t == vforkDone[u]
       IN t # NoTask => completion[t] = "waited" /\ child[t] = u
  /\ \A t \in Task :
       completion[t] # "none" => child[t] \in usage /\ st[child[t]] # "none"

\* While the child of a vfork uses its parent's memory, the parent waits, or has
\* been killed and will not go back to it (mm_release() before the completion).
VmLent ==
  \A u \in Task :
    LET t == lender[u]
    IN t # NoTask => pending[t] \/ (pc[t] = <<"vforkWait">> /\ completion[t] = "waited")

\* The wait of a vfork ends once the child has released the memory or a signal has
\* killed the parent.
VforkReturns ==
  \A t \in Task :
    (pc[t] = <<"vforkWait">> /\
       (pending[t] \/ ("VM" \in flags[t] /\ lender[child[t]] = NoTask)))
    ~> (pc[t] # <<"vforkWait">>)

===============================================================================
