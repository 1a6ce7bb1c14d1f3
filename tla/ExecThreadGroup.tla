---------------------------- MODULE ExecThreadGroup ----------------------------
(***************************************************************************)
(* execve() by a thread of a multi-threaded process, the way               *)
(* src/kernel/exec.c does it: the credentials are judged under             *)
(* cred_guard_mutex (check_unsafe_exec), the other threads of the group    *)
(* are killed and waited for (de_thread), and the credentials are installed *)
(* when the thread is alone (install_exec_creds).  Meanwhile other threads *)
(* clone (copy_process in src/kernel/fork.c), exec themselves, exit, and   *)
(* are killed, and a tracer attaches.                                      *)
(*                                                                         *)
(* A process is named by its first task, whose pid is the process's.  Task *)
(* First is there at the start; a clone adds a thread to the caller's      *)
(* process or a process of its own, and shares First's fs_struct or not.   *)
(* A task is created once: its name is not used again.                     *)
(*                                                                         *)
(* exit.c, signal.c and ptrace.c are not in the repository: what they do   *)
(* to the fields that exec.c waits on is modelled from those waits.        *)
(***************************************************************************)
EXTENDS Integers, FiniteSets

CONSTANTS
  Task,    \* bound: the tasks that ever exist
  First,   \* the task that is there at the start
  NoTask,
  Clones   \* bound: the clones made, as pairs (CLONE_THREAD, CLONE_FS)

ASSUME TaskAssumption ==
  /\ IsFiniteSet(Task)
  /\ First \in Task
  /\ NoTask \notin Task
  /\ Clones \subseteq BOOLEAN \X BOOLEAN

VARIABLES
  state,     \* exit_state, and whether the task is unused, cloned or released
  proc,      \* proc[t]: the process of t, that is its signal_struct
  fs,        \* the tasks that use First's fs_struct: fs->users of them
  pc,        \* where a task is: in user mode or in a system call
  child,     \* the task copy_process() makes for t
  traced,    \* the tasks that are ptraced
  pid,       \* pid[t]
  killed,    \* the tasks with SIGKILL pending that have not begun to exit
  leader,    \* group_leader of a process
  groupExit, \* the processes whose signal->flags have SIGNAL_GROUP_EXIT
  exitTask,  \* signal->group_exit_task of a process
  notify,    \* signal->notify_count of a process
  guard,     \* the task that holds signal->cred_guard_mutex of a process
  cred,      \* the tasks whose bprm->cred is set
  inExec,    \* fs->in_exec of First's fs_struct
  unsafe     \* bprm->unsafe of a task's exec

taskVars == <<state, proc, fs, pc, child, traced, pid>>
sigVars == <<killed, leader, groupExit, exitTask, notify>>
execVars == <<guard, cred, inExec, unsafe>>
vars == <<taskVars, sigVars, execVars>>

-------------------------------------------------------------------------------
\* The thread group list: linked by copy_process(), unlinked by release_task().
Linked(p) == {t \in Task : proc[t] = p /\ state[t] \in {"live", "exiting", "zombie"}}
Others(t) == Linked(proc[t]) \ {t}
Leader(t) == leader[proc[t]]

InKernel(t, l) == state[t] = "live" /\ pc[t] = l
Goto(t, l) == pc' = [pc EXCEPT ![t] = l]
Move(t, l) == Goto(t, l) /\ UNCHANGED <<state, proc, fs, child, traced, pid>>
Set(f, t, x) == [f EXCEPT ![proc[t]] = x]

Init ==
  /\ state = [t \in Task |-> IF t = First THEN "live" ELSE "unused"]
  /\ proc = [t \in Task |-> t]
  /\ fs = {First}
  /\ pc = [t \in Task |-> "user"]
  /\ child = [t \in Task |-> NoTask]
  /\ traced = {}
  /\ pid = [t \in Task |-> t]
  /\ killed = {}
  /\ leader = [p \in Task |-> p]
  /\ groupExit = {}
  /\ exitTask = [p \in Task |-> NoTask]
  /\ notify = [p \in Task |-> 0]
  /\ guard = [p \in Task |-> NoTask]
  /\ cred = {}
  /\ inExec = FALSE
  /\ unsafe = [t \in Task |-> {}]

-------------------------------------------------------------------------------
(* copy_process().                                                         *)

\* Mutant: copy_fs() does not look at fs->in_exec.
CopyFsInExec(t, c, thread, share) ==
  /\ InKernel(t, "user") /\ state[c] = "unused"
  /\ share => t \in fs
  /\ state' = [state EXCEPT ![c] = "cloned"]
  /\ proc' = [proc EXCEPT ![c] = IF thread THEN proc[t] ELSE c]
  /\ fs' = IF share THEN fs \cup {c} ELSE fs
  /\ child' = [child EXCEPT ![t] = c]
  /\ Goto(t, "clone")
  /\ UNCHANGED <<traced, pid, sigVars, execVars>>

\* copy_fs(): CLONE_FS is refused while an exec counts the users of the fs.
CopyFs(t, c, thread, share) ==
  /\ InKernel(t, "user") /\ state[c] = "unused"
  /\ share => t \in fs /\ ~inExec
  /\ state' = [state EXCEPT ![c] = "cloned"]
  /\ proc' = [proc EXCEPT ![c] = IF thread THEN proc[t] ELSE c]
  /\ fs' = IF share THEN fs \cup {c} ELSE fs
  /\ child' = [child EXCEPT ![t] = c]
  /\ Goto(t, "clone")
  /\ UNCHANGED <<traced, pid, sigVars, execVars>>

\* Mutant: the new task is linked although a signal is pending.
LinkAnyway(t) ==
  /\ InKernel(t, "clone")
  /\ state' = [state EXCEPT ![child[t]] = "live"]
  /\ child' = [child EXCEPT ![t] = NoTask]
  /\ Goto(t, "user")
  /\ UNCHANGED <<proc, fs, traced, pid, sigVars, execVars>>

\* The task becomes visible under siglock, unless a signal is pending.
Link(t) ==
  /\ InKernel(t, "clone")
  /\ t \notin killed
  /\ state' = [state EXCEPT ![child[t]] = "live"]
  /\ child' = [child EXCEPT ![t] = NoTask]
  /\ Goto(t, "user")
  /\ UNCHANGED <<proc, fs, traced, pid, sigVars, execVars>>

\* bad_fork_free_pid: or any failure since copy_fs(): exit_fs(), free_task().
Unfork(t) ==
  /\ InKernel(t, "clone")
  /\ state' = [state EXCEPT ![child[t]] = "released"]
  /\ fs' = fs \ {child[t]}
  /\ child' = [child EXCEPT ![t] = NoTask]
  /\ Goto(t, "user")
  /\ UNCHANGED <<proc, traced, pid, sigVars, execVars>>

-------------------------------------------------------------------------------
(* do_execveat_common(), up to the handler.                                *)

\* A task that goes back to user mode with SIGKILL pending runs no more of it.
Execve(t) ==
  /\ InKernel(t, "user")
  /\ t \notin killed
  /\ Move(t, "guard")
  /\ UNCHANGED <<sigVars, execVars>>

\* prepare_bprm_creds(): the mutex, with or without memory for the creds, or
\* -ERESTARTNOINTR if a signal ends the wait for it.
PrepareCreds(t) ==
  /\ InKernel(t, "guard")
  /\ \/ /\ guard[proc[t]] = NoTask
        /\ guard' = Set(guard, t, t)
        /\ cred' = cred \cup {t}
        /\ Move(t, "check")
     \/ /\ guard[proc[t]] = NoTask \/ t \in killed
        /\ Move(t, "user")
        /\ UNCHANGED <<guard, cred>>
  /\ UNCHANGED <<inExec, unsafe, sigVars>>

\* check_unsafe_exec(): a tracer, or users of the fs outside the process (a
\* clone that copy_process() has not linked yet is one).
CheckUnsafe(t) ==
  /\ InKernel(t, "check")
  /\ LET n_fs == Cardinality(fs \cap Linked(proc[t]))
         shared == t \in fs /\ Cardinality(fs) > n_fs
     IN /\ unsafe' = [unsafe EXCEPT ![t] =
                        {u \in {"ptrace", "share"} :
                           \/ u = "ptrace" /\ t \in traced
                           \/ u = "share" /\ shared}]
        /\ inExec' = IF t \in fs /\ ~shared THEN TRUE ELSE inExec
  /\ Move(t, "load")
  /\ UNCHANGED <<guard, cred, sigVars>>

\* Mutant: a failure of do_open_execat() goes to out_free.
LoadFailsMarked(t) ==
  /\ InKernel(t, "load")
  /\ Move(t, "free")
  /\ UNCHANGED <<sigVars, execVars>>

\* A failure from do_open_execat() to the call of flush_old_exec().
LoadFails(t) ==
  /\ InKernel(t, "load")
  /\ Move(t, "unmark")
  /\ UNCHANGED <<sigVars, execVars>>

\* out_unmark: current->fs->in_exec = 0
Unmark(t) ==
  /\ InKernel(t, "unmark")
  /\ inExec' = (inExec /\ t \notin fs)
  /\ Move(t, "free")
  /\ UNCHANGED <<guard, cred, unsafe, sigVars>>

\* free_bprm(): drops the mutex if the creds were not installed.
FreeBprm(t) ==
  /\ InKernel(t, "free")
  /\ guard' = IF t \in cred THEN Set(guard, t, NoTask) ELSE guard
  /\ cred' = cred \ {t}
  /\ unsafe' = [unsafe EXCEPT ![t] = {}]
  /\ Move(t, "user")
  /\ UNCHANGED <<inExec, sigVars>>

-------------------------------------------------------------------------------
(* de_thread(), from flush_old_exec().                                     *)

\* Mutant: notify_count is not lowered for the leader of the process.
DeThreadCountsLeader(t) ==
  /\ InKernel(t, "load")
  /\ \/ /\ Others(t) = {}
        /\ Move(t, "sighand")
        /\ UNCHANGED <<killed, exitTask, notify>>
     \/ /\ Others(t) # {}
        /\ proc[t] \in groupExit \/ exitTask[proc[t]] # NoTask
        /\ Move(t, "unmark")
        /\ UNCHANGED <<killed, exitTask, notify>>
     \/ /\ Others(t) # {}
        /\ proc[t] \notin groupExit /\ exitTask[proc[t]] = NoTask
        /\ exitTask' = Set(exitTask, t, t)
        /\ killed' = killed \cup {u \in Others(t) : state[u] = "live"}
        /\ notify' = Set(notify, t, Cardinality(Others(t)))
        /\ Move(t, "zap")
  /\ UNCHANGED <<leader, groupExit, execVars>>

\* zap_other_threads(): SIGKILL to the others; the number of them, without the
\* leader, whose end is waited for separately.
DeThread(t) ==
  /\ InKernel(t, "load")
  /\ \/ /\ Others(t) = {}
        /\ Move(t, "sighand")
        /\ UNCHANGED <<killed, exitTask, notify>>
     \/ /\ Others(t) # {}
        /\ proc[t] \in groupExit \/ exitTask[proc[t]] # NoTask
        /\ Move(t, "unmark")
        /\ UNCHANGED <<killed, exitTask, notify>>
     \/ /\ Others(t) # {}
        /\ proc[t] \notin groupExit /\ exitTask[proc[t]] = NoTask
        /\ exitTask' = Set(exitTask, t, t)
        /\ killed' = killed \cup {u \in Others(t) : state[u] = "live"}
        /\ notify' = Set(notify, t, Cardinality(Others(t) \ {Leader(t)}))
        /\ Move(t, IF Others(t) = {Leader(t)} THEN "zapped" ELSE "zap")
  /\ UNCHANGED <<leader, groupExit, execVars>>

\* killed: a fatal signal to the waiting thread ends the exec.
ZapKilled(t) ==
  /\ InKernel(t, "zap") \/ InKernel(t, "leader")
  /\ t \in killed
  /\ exitTask' = Set(exitTask, t, NoTask)
  /\ notify' = Set(notify, t, 0)
  /\ Move(t, "unmark")
  /\ UNCHANGED <<killed, leader, groupExit, execVars>>

\* __exit_signal() of the last one has brought notify_count to 0.
ZapDone(t) ==
  /\ InKernel(t, "zap")
  /\ notify[proc[t]] = 0
  /\ Move(t, "zapped")
  /\ UNCHANGED <<sigVars, execVars>>

\* Only the leader may be left: is it the caller?
AfterZap(t) ==
  /\ InKernel(t, "zapped")
  /\ \/ t = Leader(t) /\ Move(t, "ungroup") /\ UNCHANGED notify
     \/ t # Leader(t) /\ Move(t, "leader") /\ notify' = Set(notify, t, -1)
  /\ UNCHANGED <<killed, leader, groupExit, exitTask, execVars>>

\* The leader has an exit_state: t takes over its pid and its place, and the
\* leader is released.
TakeOver(t) ==
  /\ InKernel(t, "leader")
  /\ state[Leader(t)] = "zombie"
  /\ pid' = [pid EXCEPT ![t] = pid[Leader(t)]]
  /\ leader' = Set(leader, t, t)
  /\ state' = [state EXCEPT ![Leader(t)] = "released"]
  /\ traced' = traced \ {Leader(t)}
  /\ Goto(t, "ungroup")
  /\ UNCHANGED <<proc, fs, child, killed, groupExit, exitTask, notify, execVars>>

Ungroup(t) ==
  /\ InKernel(t, "ungroup")
  /\ exitTask' = Set(exitTask, t, NoTask)
  /\ notify' = Set(notify, t, 0)
  /\ Move(t, "sighand")
  /\ UNCHANGED <<killed, leader, groupExit, execVars>>

-------------------------------------------------------------------------------
(* From no_thread_group to the end of do_execveat_common().                *)

\* A signal table of its own and the new mm, or -ENOMEM, or -EINTR of
\* exec_mmap() while the old mm is dumped.
ExecMmap(t) ==
  /\ InKernel(t, "sighand")
  /\ Move(t, "mapped") \/ Move(t, "unmark")
  /\ UNCHANGED <<sigVars, execVars>>

\* Mutant: install_exec_creds() leaves bprm->cred set.
CommitKeepsCred(t) ==
  /\ InKernel(t, "mapped")
  /\ Move(t, "commit")
  /\ UNCHANGED <<sigVars, execVars>>

\* commit_creds(), and bprm->cred is NULL.
CommitCreds(t) ==
  /\ InKernel(t, "mapped")
  /\ cred' = cred \ {t}
  /\ Move(t, "commit")
  /\ UNCHANGED <<guard, inExec, unsafe, sigVars>>

\* The end of install_exec_creds().
UnlockGuard(t) ==
  /\ InKernel(t, "commit")
  /\ guard' = Set(guard, t, NoTask)
  /\ Move(t, "start")
  /\ UNCHANGED <<cred, inExec, unsafe, sigVars>>

\* A failure past exec_mmap(): search_binary_handler() forces a SIGSEGV.
NoReturn(t) ==
  /\ InKernel(t, "mapped") \/ InKernel(t, "start")
  /\ killed' = killed \cup {t}
  /\ Move(t, "unmark")
  /\ UNCHANGED <<leader, groupExit, exitTask, notify, execVars>>

\* execve succeeded
ExecDone(t) ==
  /\ InKernel(t, "start")
  /\ inExec' = (inExec /\ t \notin fs)
  /\ unsafe' = [unsafe EXCEPT ![t] = {}]
  /\ Move(t, "user")
  /\ UNCHANGED <<guard, cred, sigVars>>

-------------------------------------------------------------------------------
(* exit.c, signal.c and ptrace.c.                                          *)

\* do_exit() to exit_fs(): at will, or from a pending SIGKILL.
ExitFs(t) ==
  /\ InKernel(t, "user")
  /\ state' = [state EXCEPT ![t] = "exiting"]
  /\ fs' = fs \ {t}
  /\ killed' = killed \ {t}
  /\ UNCHANGED <<proc, pc, child, traced, pid, leader, groupExit, exitTask, notify, execVars>>

\* Mutant: every release counts down.
ReleaseAlways(t) ==
  /\ state' = [state EXCEPT ![t] = "released"]
  /\ traced' = traced \ {t}
  /\ notify' = Set(notify, t, notify[proc[t]] - 1)
  /\ UNCHANGED <<proc, fs, pc, child, pid, killed, leader, groupExit, exitTask, execVars>>

\* __exit_signal(): counts down for a thread that is not the leader.
Release(t) ==
  /\ state' = [state EXCEPT ![t] = "released"]
  /\ traced' = traced \ {t}
  /\ notify' = IF notify[proc[t]] > 0 THEN Set(notify, t, notify[proc[t]] - 1) ELSE notify
  /\ UNCHANGED <<proc, fs, pc, child, pid, killed, leader, groupExit, exitTask, execVars>>

\* exit_notify(): the leader and a traced thread stay as zombies.
ExitNotify(t) ==
  /\ state[t] = "exiting"
  /\ IF t = Leader(t) \/ t \in traced
     THEN /\ state' = [state EXCEPT ![t] = "zombie"]
          /\ UNCHANGED <<proc, fs, pc, child, traced, pid, sigVars, execVars>>
     ELSE Release(t)

\* The tracer waits for a zombie; a leader is kept while it has threads.
Reap(t) ==
  /\ state[t] = "zombie" /\ t # Leader(t)
  /\ Release(t)

\* A fatal signal to a process.
Kill(p) ==
  /\ p \notin groupExit /\ Linked(p) # {}
  /\ groupExit' = groupExit \cup {p}
  /\ killed' = killed \cup {t \in Linked(p) : state[t] = "live"}
  /\ UNCHANGED <<taskVars, leader, exitTask, notify, execVars>>

\* ptrace_attach() takes cred_guard_mutex of the task's process.
Attach(t) ==
  /\ state[t] = "live" /\ t \notin traced
  /\ guard[proc[t]] = NoTask
  /\ traced' = traced \cup {t}
  /\ UNCHANGED <<state, proc, fs, pc, child, pid, sigVars, execVars>>

-------------------------------------------------------------------------------
Exec(t) ==
  \/ PrepareCreds(t) \/ CheckUnsafe(t) \/ LoadFails(t) \/ Unmark(t) \/ FreeBprm(t)
  \/ DeThread(t) \/ ZapKilled(t) \/ ZapDone(t) \/ AfterZap(t) \/ TakeOver(t)
  \/ Ungroup(t) \/ ExecMmap(t) \/ CommitCreds(t) \/ UnlockGuard(t) \/ NoReturn(t)
  \/ ExecDone(t)

Copy(t) == Link(t) \/ Unfork(t)
Die(t) == (t \in killed /\ ExitFs(t)) \/ ExitNotify(t)

Next ==
  \/ \E t \in Task :
       \/ \E c \in Task, f \in Clones : CopyFs(t, c, f[1], f[2])
       \/ Copy(t)
       \/ Execve(t)
       \/ Exec(t)
       \/ ExitFs(t) \/ ExitNotify(t) \/ Reap(t)
       \/ Attach(t)
       \/ Kill(t)

Spec == Init /\ [][Next]_vars

\* A system call runs on and a killed task dies.  What user mode does, who is
\* killed or traced and when a tracer waits is free.
Fairness == \A t \in Task : WF_vars(Exec(t) \/ Copy(t) \/ Die(t))
FairSpec == Spec /\ Fairness

-------------------------------------------------------------------------------
(* Properties.                                                             *)

Early == {"check", "load"}
Waiting == {"zap", "zapped", "leader", "ungroup"}
Alone == {"sighand", "mapped", "commit"}
Locations == {"user", "clone", "guard", "unmark", "free", "start"}
               \cup Early \cup Waiting \cup Alone

TypeOK ==
  /\ state \in [Task -> {"unused", "cloned", "live", "exiting", "zombie", "released"}]
  /\ proc \in [Task -> Task]
  /\ fs \subseteq Task
  /\ pc \in [Task -> Locations]
  /\ child \in [Task -> Task \cup {NoTask}]
  /\ traced \subseteq Task
  /\ pid \in [Task -> Task]
  /\ killed \subseteq Task
  /\ leader \in [Task -> Task]
  /\ groupExit \subseteq Task
  /\ exitTask \in [Task -> Task \cup {NoTask}]
  /\ notify \in [Task -> -1 .. Cardinality(Task)]
  /\ guard \in [Task -> Task \cup {NoTask}]
  /\ cred \subseteq Task
  /\ inExec \in BOOLEAN
  /\ unsafe \in [Task -> SUBSET {"ptrace", "share"}]

\* de_thread() returns 0 to the last thread of the process alone: no thread is
\* left, none is on its way out of copy_process(), and the survivor is the
\* leader under the pid the process always had.
SoloAfterDeThread ==
  \A t \in Task : state[t] = "live" /\ pc[t] \in Alone \cup {"start"} =>
    /\ \A u \in Task \ {t} : proc[u] = proc[t] => state[u] \in {"unused", "released"}
    /\ Leader(t) = t
    /\ pid[t] = proc[t]

\* The count de_thread() sleeps on is that of the threads still to be released,
\* so that it neither wakes too early nor waits for a thread that is gone.
NotifyCounts ==
  \A t \in Task : InKernel(t, "zap") =>
    notify[proc[t]] = Cardinality(Others(t) \ {Leader(t)})

\* What check_unsafe_exec() judged still holds when the credentials are
\* committed under the mutex: a tracer was there when the verdict was made, and
\* the fs_struct is shared with nobody unless the verdict says so.
VerdictHolds ==
  \A t \in Task : state[t] = "live" /\ pc[t] \in {"mapped", "commit"} =>
    /\ t \in traced => "ptrace" \in unsafe[t]
    /\ t \in fs /\ "share" \notin unsafe[t] => fs = {t}

\* fs->in_exec, which makes clone(CLONE_FS) fail, never outlives the exec that
\* set it, and holds as long as that exec may still commit.
InExecOwned ==
  inExec <=>
    \E t \in fs : /\ state[t] = "live"
                  /\ pc[t] \in {"load", "unmark", "start"} \cup Waiting \cup Alone
                  /\ "share" \notin unsafe[t]

\* One exec of a process at a time between its verdict and its commit, and the
\* mutex is dropped by the exec that took it, once.
GuardHeld ==
  \A t \in Task : state[t] = "live" =>
    /\ pc[t] \in Early \cup Waiting \cup Alone => guard[proc[t]] = t
    /\ t \in cred => guard[proc[t]] = t

\* Every exec that got the mutex comes to an end, unless it waits for a thread
\* whose tracer does not reap it.
ExecEnds ==
  \A t \in Task :
    pc[t] = "check" ~>
      \/ pc[t] = "user"
      \/ \E z \in Task : state[z] = "zombie" /\ z # Leader(z)

===============================================================================
