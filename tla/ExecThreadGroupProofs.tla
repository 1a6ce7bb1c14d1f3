------------------------ MODULE ExecThreadGroupProofs ------------------------
(***************************************************************************)
(* The safety properties of ExecThreadGroup, for any finite set of tasks:  *)
(* an exec is alone in its process when it commits, and what was judged of *)
(* its credentials still holds then.                                       *)
(***************************************************************************)
EXTENDS ExecThreadGroup, FiniteSetTheorems, TLAPS

-------------------------------------------------------------------------------
(* The inductive invariant.                                                *)

Unborn == {"unused", "cloned"}
Started == {"live", "exiting", "zombie"}
\* The mutex is held, and bprm->cred is set.
Holding == Early \cup Waiting \cup Alone
Undecided == Early \cup Waiting \cup {"sighand", "mapped"}
\* check_unsafe_exec() has judged, and the exec may still commit.
Judged == {"load"} \cup Waiting \cup Alone
Marked == Judged \cup {"unmark", "start"}

\* A task that is not alive is nowhere in the kernel; one in copy_process() has a
\* child of its own, of its process or of a new one, and every child has a parent.
Families ==
  /\ \A t \in Task : pc[t] # "user" => state[t] = "live"
  /\ \A t \in Task : pc[t] = "clone" =>
       /\ child[t] \in Task /\ state[child[t]] = "cloned"
       /\ proc[child[t]] \in {proc[t], child[t]}
  /\ \A t, u \in Task : pc[t] = "clone" /\ pc[u] = "clone" /\ child[t] = child[u] => t = u
  /\ \A c \in Task : state[c] = "cloned" =>
       \E t \in Task : pc[t] = "clone" /\ child[t] = c

\* A process begins with the task that it is named by.
Processes ==
  \A c \in Task :
    /\ state[c] = "unused" => proc[c] = c
    /\ state[c] \in Unborn => \A u \in Task \ {c} : proc[u] # c

\* The leader of a process is linked as long as anybody is, under the pid of the
\* process.
Leaders ==
  /\ \A c \in Task : state[c] \in Unborn => leader[c] = c /\ pid[c] = c
  /\ \A t \in Task : state[t] \in Started =>
       /\ proc[Leader(t)] = proc[t]
       /\ state[Leader(t)] \in Started
       /\ pid[Leader(t)] = proc[t]

\* The mutex is held from prepare_bprm_creds() to the end of install_exec_creds(),
\* or to free_bprm() if the credentials were not installed.
CredsAt(t) ==
  /\ pc[t] \in Undecided => t \in cred
  /\ t \in cred => pc[t] \in Undecided \cup {"unmark", "free"}
  /\ pc[t] \in Holding \/ t \in cred => guard[proc[t]] = t

\* de_thread(): the other threads have been struck, then only the leader is left,
\* then nobody.
Single == {"ungroup", "start"} \cup Alone
ZapAt(t) ==
  /\ pc[t] \in Waiting =>
       /\ exitTask[proc[t]] = t
       /\ \A u \in Others(t) : state[u] = "live" => u \in killed
  /\ pc[t] \in {"zapped", "leader"} => Others(t) \subseteq {Leader(t)}
  /\ pc[t] = "leader" => t # Leader(t)
  /\ pc[t] \in Single \/ (pc[t] = "unmark" /\ t \notin cred) => Others(t) = {}

CountAt(t) == pc[t] = "zap" => notify[proc[t]] = Cardinality(Others(t) \ {Leader(t)})

\* The verdict of check_unsafe_exec(), and the mark that keeps it true.
Unshared(t) == t \in fs /\ pc[t] \in Marked /\ "share" \notin unsafe[t]
VerdictAt(t) ==
  /\ pc[t] \in Judged /\ t \in traced => "ptrace" \in unsafe[t]
  /\ Unshared(t) => inExec /\ fs \subseteq Linked(proc[t])

ExecAt(t) == CredsAt(t) /\ ZapAt(t) /\ CountAt(t) /\ VerdictAt(t)
Execs == \A t \in Task : ExecAt(t)

\* The users of the fs_struct are alive, and its mark is somebody's.
Sharing ==
  /\ \A t \in fs : state[t] \in {"live", "cloned"}
  /\ inExec => \E t \in Task : Unshared(t)

IInv == TypeOK /\ Families /\ Processes /\ Leaders /\ Execs /\ Sharing

-------------------------------------------------------------------------------
(* What a step of the exec of t does to the invariant: t moves on, the     *)
(* variables of execs keep their types, those of other tasks and processes *)
(* are left alone, and the mark is set and cleared only by its owner.      *)

Step(t, l) ==
  /\ state[t] = "live" /\ pc[t] # "clone" /\ l \in Locations \ {"clone"}
  /\ Move(t, l)
  /\ UNCHANGED <<leader, groupExit>>

\* What it has to go by.
Kept(t, l) ==
  /\ pc'[t] = l /\ UNCHANGED <<state, proc, fs, traced>> /\ proc[t] \in Task
  /\ ExecAt(t)
  /\ Others(t)' = Others(t) /\ Leader(t)' = Leader(t) /\ Linked(proc[t])' = Linked(proc[t])

Types ==
  /\ killed \subseteq Task
  /\ exitTask \in [Task -> Task \cup {NoTask}]
  /\ notify \in [Task -> -1 .. Cardinality(Task)]
  /\ guard \in [Task -> Task \cup {NoTask}]
  /\ cred \subseteq Task
  /\ inExec \in BOOLEAN
  /\ unsafe \in [Task -> SUBSET {"ptrace", "share"}]

Apart(t) ==
  /\ killed \subseteq killed'
  /\ \A u \in Task \ {t} : (u \in cred' <=> u \in cred) /\ unsafe'[u] = unsafe[u]
  /\ \A p \in Task \ {proc[t]} :
       guard'[p] = guard[p] /\ exitTask'[p] = exitTask[p] /\ notify'[p] = notify[p]
  /\ guard'[proc[t]] = guard[proc[t]] \/ guard[proc[t]] \in {t, NoTask}
  /\ UNCHANGED <<exitTask, notify>> \/ \A u \in Others(t) : pc[u] \notin Waiting

Marks(t) ==
  /\ inExec => inExec' \/ (t \in fs /\ pc[t] \in Marked)
  /\ inExec' => inExec \/ Unshared(t)'
  /\ Unshared(t) /\ inExec' => Unshared(t)'

-------------------------------------------------------------------------------
(* Lemmas about processes.                                                 *)

\* copy_process() links a thread into a process only for a task of that process:
\* where no other task may clone, nobody is added.
LEMMA NoNewMember ==
  ASSUME IInv, NEW t \in Task, NEW u \in Task, state[u] = "live", pc[u] # "clone",
         pc[t] = "clone", proc[child[t]] = proc[u]
  PROVE  t \in Others(u)
<1>1. state[t] = "live" /\ child[t] \in Task /\ state[child[t]] = "cloned"
  BY DEF IInv, Families
<1>2. CASE proc[child[t]] = proc[t]
  BY <1>1, <1>2 DEF Others, Linked
<1>3. CASE proc[child[t]] = child[t]
  <2>1. child[t] # u
    BY <1>1
  <2> QED
    BY <1>1, <1>3, <2>1 DEF IInv, Processes, Unborn
<1> QED
  BY <1>2, <1>3 DEF IInv, Families

\* A task that is alone in its thread list is alone in its process.
LEMMA AloneIsSolo ==
  ASSUME IInv, NEW t \in Task, state[t] = "live", pc[t] # "clone", Others(t) = {},
         NEW u \in Task \ {t}, proc[u] = proc[t]
  PROVE  state[u] \in {"unused", "released"}
<1>1. state[u] \notin Started
  BY DEF Others, Linked, Started
<1>2. state[u] # "cloned"
  <2> SUFFICES ASSUME state[u] = "cloned" PROVE FALSE
    OBVIOUS
  <2>1. PICK v \in Task : pc[v] = "clone" /\ child[v] = u
    BY DEF IInv, Families
  <2>2. v \in Others(t)
    BY <2>1, NoNewMember
  <2> QED
    BY <2>2
<1> QED
  BY <1>1, <1>2 DEF IInv, TypeOK, Started

\* One exec of a process at a time has a mark that is still good.
LEMMA OneMarked ==
  ASSUME IInv, NEW t \in Task, NEW u \in Task, proc[t] = proc[u],
         pc[t] \in Marked, pc[u] \in Marked
  PROVE  t = u
<1> SUFFICES ASSUME t # u PROVE FALSE
  OBVIOUS
<1>1. state[t] = "live" /\ state[u] = "live"
  BY DEF IInv, Families, Marked, Judged, Waiting, Alone
<1>2. t \in Others(u) /\ u \in Others(t)
  BY <1>1 DEF Others, Linked
<1>3. pc[t] \in Holding \/ t \in cred
  BY <1>2 DEF IInv, Execs, ExecAt, ZapAt, Single, Marked, Judged, Holding, Early, Waiting
<1>4. pc[u] \in Holding \/ u \in cred
  BY <1>2 DEF IInv, Execs, ExecAt, ZapAt, Single, Marked, Judged, Holding, Early, Waiting
<1> QED
  BY <1>3, <1>4 DEF IInv, Execs, ExecAt, CredsAt

\* The one task at the start has no process but its own and no exec.
LEMMA InitIInv == Init => IInv
<1> SUFFICES ASSUME Init PROVE IInv
  OBVIOUS
<1> USE TaskAssumption
<1>1. TypeOK
  <2>1. Cardinality(Task) \in Nat
    BY FS_CardinalityType
  <2>2. 0 \in -1 .. Cardinality(Task)
    BY <2>1
  <2> QED
    BY <2>2 DEF Init, TypeOK, Locations, Early, Waiting, Alone
<1>2. Families
  BY DEF Init, Families
<1>3. Processes
  BY DEF Init, Processes, Unborn
<1>4. Leaders
  BY DEF Init, Leaders, Leader, Unborn, Started
<1>5. Execs
  BY DEF Init, Execs, ExecAt, CredsAt, ZapAt, CountAt, VerdictAt, Unshared, Undecided,
         Holding, Marked, Judged, Single, Early, Waiting, Alone
<1>6. Sharing
  BY DEF Init, Sharing
<1> QED
  BY <1>1, <1>2, <1>3, <1>4, <1>5, <1>6 DEF IInv

-------------------------------------------------------------------------------
(* Steps of an exec.                                                       *)

\* What a task counts is no more than there are.
LEMMA Countable ==
  ASSUME NEW S \in SUBSET Task
  PROVE  IsFiniteSet(S) /\ Cardinality(S) \in 0 .. Cardinality(Task)
<1>1. IsFiniteSet(S) /\ Cardinality(S) <= Cardinality(Task)
  BY TaskAssumption, FS_Subset
<1>2. Cardinality(S) \in Nat /\ Cardinality(Task) \in Nat
  BY <1>1, TaskAssumption, FS_CardinalityType
<1> QED
  BY <1>1, <1>2

\* A task that moves on within an exec changes nothing of families and processes.
LEMMA MoveStructure ==
  ASSUME IInv, NEW t \in Task, NEW l \in Locations \ {"clone"},
         state[t] = "live", pc[t] # "clone", Move(t, l), UNCHANGED leader
  PROVE  /\ Families' /\ Processes' /\ Leaders'
         /\ \A u \in Task : Others(u)' = Others(u) /\ Leader(u)' = Leader(u)
         /\ \A p : Linked(p)' = Linked(p)
<1> USE DEF Move, Goto
<1>1. Families'
  BY DEF IInv, TypeOK, Families
<1>2. Processes'
  BY DEF IInv, Processes, Unborn
<1>3. Leaders'
  BY DEF IInv, Leaders, Leader, Unborn, Started
<1>4. \A p : Linked(p)' = Linked(p)
  BY DEF Linked
<1>5. \A u \in Task : Others(u)' = Others(u) /\ Leader(u)' = Leader(u)
  BY <1>4 DEF Others, Leader
<1> QED
  BY <1>1, <1>2, <1>3, <1>4, <1>5

\* The values that de_thread() sets the count to are in its range.
LEMMA Zero == 0 \in -1 .. Cardinality(Task) /\ -1 \in -1 .. Cardinality(Task)
<1>1. Cardinality(Task) \in Nat
  BY TaskAssumption, FS_CardinalityType
<1> QED
  BY <1>1

\* What a step of an exec has to show of its own task, and of what it shares, for the
\* invariant to hold.
LEMMA MoveIInv ==
  ASSUME IInv, NEW t \in Task, NEW l, Step(t, l), Types', Apart(t), Marks(t), ExecAt(t)'
  PROVE  IInv'
<1>1. TypeOK'
  BY DEF IInv, TypeOK, Types, Step, Move, Goto
<1>2. Families' /\ Processes' /\ Leaders'
  BY MoveStructure DEF Step
<1>3. /\ \A u \in Task : Others(u)' = Others(u) /\ Leader(u)' = Leader(u)
      /\ \A p : Linked(p)' = Linked(p)
  BY MoveStructure DEF Step
<1>4. ASSUME NEW u \in Task \ {t} PROVE ExecAt(u)'
  <2>1. /\ CredsAt(u) /\ ZapAt(u) /\ CountAt(u) /\ VerdictAt(u)
        /\ proc[u] \in Task /\ proc[t] \in Task
    BY DEF IInv, Execs, ExecAt, TypeOK
  <2>2. /\ pc'[u] = pc[u] /\ UNCHANGED <<proc, fs, traced, state>>
        /\ (u \in cred' <=> u \in cred) /\ unsafe'[u] = unsafe[u]
    BY DEF IInv, TypeOK, Apart, Step, Move, Goto
  <2>3. CredsAt(u)'
    <3>1. guard'[proc[u]] = guard[proc[u]] \/ guard[proc[u]] # u
      BY <2>1, TaskAssumption DEF Apart
    <3> QED
      BY <2>1, <2>2, <3>1 DEF CredsAt
  <2>4. pc[u] \in Waiting =>
          exitTask'[proc[u]] = exitTask[proc[u]] /\ notify'[proc[u]] = notify[proc[u]]
    <3>1. pc[u] \in Waiting => state[u] = "live"
      BY DEF IInv, Families, Waiting
    <3>2. proc[u] = proc[t] /\ pc[u] \in Waiting => u \in Others(t)
      BY <3>1 DEF Others, Linked
    <3> QED
      BY <2>1, <3>2 DEF Apart
  <2>5. ZapAt(u)'
    <3>1. Others(u)' = Others(u) /\ Leader(u)' = Leader(u)
      BY <1>3
    <3> QED
      BY <2>1, <2>2, <2>4, <3>1 DEF ZapAt, Apart
  <2>6. CountAt(u)'
    <3>1. Others(u)' = Others(u) /\ Leader(u)' = Leader(u)
      BY <1>3
    <3> QED
      BY <2>1, <2>2, <2>4, <3>1 DEF CountAt, Waiting
  <2>7. VerdictAt(u)'
    <3>1. Linked(proc[u])' = Linked(proc[u])
      BY <1>3, <2>2
    <3>2. Unshared(u) => inExec'
      <4> SUFFICES ASSUME Unshared(u), t \in fs, pc[t] \in Marked PROVE FALSE
        BY <2>1 DEF VerdictAt, Marks, Marks
      <4>1. proc[t] = proc[u]
        BY <2>1 DEF VerdictAt, Linked
      <4> QED
        BY <4>1, OneMarked DEF Unshared
    <3> QED
      BY <2>1, <2>2, <3>1, <3>2 DEF VerdictAt, Unshared
  <2> QED
    BY <2>3, <2>5, <2>6, <2>7 DEF ExecAt
<1>5. Execs'
  BY <1>4 DEF Execs
<1>6. Sharing'
  <2>1. UNCHANGED <<fs, state>>
    BY DEF Step, Move
  <2>2. ASSUME inExec' PROVE \E u \in Task : Unshared(u)'
    <3>1. CASE Unshared(t)'
      BY <3>1
    <3>2. CASE ~Unshared(t)'
      <4>1. inExec /\ ~Unshared(t)
        BY <2>2, <3>2 DEF Marks
      <4>2. PICK u \in Task \ {t} : Unshared(u)
        BY <4>1 DEF IInv, Sharing
      <4>3. pc'[u] = pc[u] /\ unsafe'[u] = unsafe[u]
        BY DEF IInv, TypeOK, Apart, Step, Move, Goto
      <4> QED
        BY <2>1, <4>2, <4>3 DEF Unshared
    <3> QED
      BY <3>1, <3>2
  <2> QED
    BY <2>1, <2>2 DEF IInv, Sharing
<1> QED
  BY <1>1, <1>2, <1>5, <1>6 DEF IInv

\* What it has to go by.
LEMMA Own ==
  ASSUME IInv, NEW t \in Task, NEW l, Step(t, l)
  PROVE  Kept(t, l)
<1>1. Others(t)' = Others(t) /\ Leader(t)' = Leader(t) /\ \A p : Linked(p)' = Linked(p)
  BY MoveStructure DEF Step
<1>2. pc'[t] = l /\ UNCHANGED <<state, proc, fs, traced>> /\ proc[t] \in Task
  BY DEF IInv, TypeOK, Step, Move, Goto
<1> QED
  BY <1>1, <1>2 DEF IInv, Execs, Kept

\* The mutex is held by one task of a process.
LEMMA OneHolder ==
  ASSUME IInv, NEW t \in Task, pc[t] \in Holding, NEW u \in Others(t)
  PROVE  pc[u] \notin Holding /\ pc[u] \notin Waiting
BY DEF IInv, Execs, ExecAt, CredsAt, Others, Linked, Holding

\* do_execveat_common() begins.
LEMMA ExecveIInv == ASSUME IInv, NEW t \in Task, Execve(t) PROVE IInv'
<1>1. /\ pc[t] = "user" /\ Step(t, "guard")
      /\ UNCHANGED <<killed, exitTask, notify, guard, cred, inExec, unsafe>>
  BY DEF Execve, Step, InKernel, Set, sigVars, execVars, Locations, Early, Waiting,
         Alone
<1>2. Kept(t, "guard")
  BY <1>1, Own
<1>3. ExecAt(t)'
  BY <1>1, <1>2
  DEF ExecAt, CredsAt, ZapAt, CountAt, VerdictAt, Unshared, Kept, Early, Waiting,
      Alone, Undecided, Holding, Judged, Marked, Single, IInv, TypeOK
<1>4. Types'
  BY <1>1, <1>2 DEF Types, Kept, IInv, TypeOK
<1>5. Apart(t)
  BY <1>1, <1>2
  DEF Apart, Kept, ExecAt, CredsAt, Early, Waiting, Alone, Undecided, Holding, Judged,
      Marked, Single, IInv, TypeOK
<1>6. Marks(t)
  BY <1>1, <1>2 DEF Marks, Kept, Unshared, Marked, Judged, Waiting, Alone
<1> QED
  BY <1>1, <1>3, <1>4, <1>5, <1>6, MoveIInv

\* prepare_bprm_creds(): the mutex was free, so no other exec of the process is judged.
LEMMA PrepareCredsIInv == ASSUME IInv, NEW t \in Task, PrepareCreds(t) PROVE IInv'
<1>1. ASSUME pc[t] = "guard", Step(t, "check"),
             guard[proc[t]] = NoTask,
             guard' = [guard EXCEPT ![proc[t]] = t],
             cred' = cred \cup {t},
             UNCHANGED <<killed, exitTask, notify, inExec, unsafe>>
      PROVE  IInv'
  <2>1. Kept(t, "check")
    BY <1>1, Own
  <2>2. ExecAt(t)'
    BY <1>1, <2>1
    DEF ExecAt, CredsAt, ZapAt, CountAt, VerdictAt, Unshared, Kept, Early, Waiting,
        Alone, Undecided, Holding, Judged, Marked, Single, IInv, TypeOK
  <2>3. Types'
    BY <1>1, <2>1 DEF Types, Kept, IInv, TypeOK
  <2>4. Apart(t)
    BY <1>1, <2>1
    DEF Apart, Kept, ExecAt, CredsAt, Early, Waiting, Alone, Undecided, Holding,
        Judged, Marked, Single, IInv, TypeOK
  <2>5. Marks(t)
    BY <1>1, <2>1 DEF Marks, Kept, Unshared, Marked, Judged, Waiting, Alone
  <2> QED
    BY <1>1, <2>2, <2>3, <2>4, <2>5, MoveIInv
<1>2. ASSUME pc[t] = "guard", Step(t, "user"),
             UNCHANGED <<killed, exitTask, notify, guard, cred, inExec, unsafe>>
      PROVE  IInv'
  <2>1. Kept(t, "user")
    BY <1>2, Own
  <2>2. ExecAt(t)'
    BY <1>2, <2>1
    DEF ExecAt, CredsAt, ZapAt, CountAt, VerdictAt, Unshared, Kept, Early, Waiting,
        Alone, Undecided, Holding, Judged, Marked, Single, IInv, TypeOK
  <2>3. Types'
    BY <1>2, <2>1 DEF Types, Kept, IInv, TypeOK
  <2>4. Apart(t)
    BY <1>2, <2>1
    DEF Apart, Kept, ExecAt, CredsAt, Early, Waiting, Alone, Undecided, Holding,
        Judged, Marked, Single, IInv, TypeOK
  <2>5. Marks(t)
    BY <1>2, <2>1 DEF Marks, Kept, Unshared, Marked, Judged, Waiting, Alone
  <2> QED
    BY <1>2, <2>2, <2>3, <2>4, <2>5, MoveIInv
<1> QED
  BY <1>1, <1>2
  DEF PrepareCreds, Step, InKernel, Set, sigVars, execVars, Locations, Early, Waiting,
      Alone

\* fs->users counted under the lock: nobody outside the process uses the fs_struct.
LEMMA AllLinked ==
  ASSUME IInv, NEW p, ~(Cardinality(fs) > Cardinality(fs \cap Linked(p)))
  PROVE  fs \subseteq Linked(p)
<1>1. fs \in SUBSET Task
  BY DEF IInv, TypeOK
<1>2. IsFiniteSet(fs) /\ Cardinality(fs) \in Nat
  BY <1>1, TaskAssumption, FS_Subset, FS_CardinalityType
<1>3. /\ Cardinality(fs \cap Linked(p)) \in Nat
      /\ Cardinality(fs \cap Linked(p)) <= Cardinality(fs)
      /\ Cardinality(fs) = Cardinality(fs \cap Linked(p)) => fs = fs \cap Linked(p)
  BY <1>2, FS_Subset, FS_CardinalityType
<1> QED
  BY <1>2, <1>3

\* check_unsafe_exec(): an unshared fs_struct is used by linked threads of the process only.
LEMMA CheckUnsafeIInv == ASSUME IInv, NEW t \in Task, CheckUnsafe(t) PROVE IInv'
<1> DEFINE shared == t \in fs /\ Cardinality(fs) > Cardinality(fs \cap Linked(proc[t]))
<1>1. /\ pc[t] = "check" /\ Step(t, "load")
      /\ unsafe' \in [Task -> SUBSET {"ptrace", "share"}]
      /\ \A u \in Task \ {t} : unsafe'[u] = unsafe[u]
      /\ t \in traced => "ptrace" \in unsafe'[t]
      /\ "share" \in unsafe'[t] <=> shared
      /\ inExec' = IF t \in fs /\ ~shared THEN TRUE ELSE inExec
      /\ UNCHANGED <<killed, exitTask, notify, guard, cred>>
  BY DEF CheckUnsafe, IInv, TypeOK, Step, InKernel, Set, sigVars, execVars, Locations, Early,
         Waiting, Alone
<1>2. Kept(t, "load")
  BY <1>1, Own
<1>3. shared \/ t \notin fs \/ (inExec' /\ fs \subseteq Linked(proc[t]))
  <2>1. ~shared /\ t \in fs => inExec'
    BY <1>1, Zenon
  <2>2. ~shared /\ t \in fs => fs \subseteq Linked(proc[t])
    BY AllLinked
  <2> QED
    BY <2>1, <2>2
<1>4. ExecAt(t)'
  <2>1. CredsAt(t)' /\ ZapAt(t)' /\ CountAt(t)'
    BY <1>1, <1>2
    DEF ExecAt, CredsAt, ZapAt, CountAt, Kept, Early, Waiting, Alone, Undecided, Holding,
        Judged, Marked, Single
  <2>2. VerdictAt(t)'
    BY <1>1, <1>2, <1>3 DEF VerdictAt, Unshared, Kept
  <2> QED
    BY <2>1, <2>2 DEF ExecAt
<1>5. Types'
  BY <1>1, <1>2 DEF Types, Kept, IInv, TypeOK
<1>6. Apart(t)
  BY <1>1, <1>2
  DEF Apart, Kept, ExecAt, CredsAt, Early, Waiting, Alone, Undecided, Holding, Judged,
      Marked, Single, IInv, TypeOK
<1>7. Marks(t)
  <2>1. (inExec => inExec') /\ (inExec' => inExec \/ (t \in fs /\ ~shared))
    BY <1>1, Zenon
  <2>2. ~Unshared(t)
    BY <1>1 DEF Unshared, Marked, Judged, Waiting, Alone
  <2>3. t \in fs /\ ~shared => Unshared(t)'
    BY <1>1, <1>2, <1>3 DEF Unshared, Kept, Marked, Judged
  <2> QED
    BY <2>1, <2>2, <2>3 DEF Marks
<1> QED
  BY <1>1, <1>4, <1>5, <1>6, <1>7, MoveIInv

\* The exec fails before de_thread(); the mark and the mutex are still to be dropped.
LEMMA LoadFailsIInv == ASSUME IInv, NEW t \in Task, LoadFails(t) PROVE IInv'
<1>1. /\ pc[t] = "load" /\ Step(t, "unmark")
      /\ UNCHANGED <<killed, exitTask, notify, guard, cred, inExec, unsafe>>
  BY DEF LoadFails, Step, InKernel, Set, sigVars, execVars, Locations, Early, Waiting,
         Alone
<1>2. Kept(t, "unmark")
  BY <1>1, Own
<1>3. ExecAt(t)'
  BY <1>1, <1>2
  DEF ExecAt, CredsAt, ZapAt, CountAt, VerdictAt, Unshared, Kept, Early, Waiting,
      Alone, Undecided, Holding, Judged, Marked, Single, IInv, TypeOK
<1>4. Types'
  BY <1>1, <1>2 DEF Types, Kept, IInv, TypeOK
<1>5. Apart(t)
  BY <1>1, <1>2
  DEF Apart, Kept, ExecAt, CredsAt, Early, Waiting, Alone, Undecided, Holding, Judged,
      Marked, Single, IInv, TypeOK
<1>6. Marks(t)
  BY <1>1, <1>2 DEF Marks, Kept, Unshared, Marked, Judged, Waiting, Alone
<1> QED
  BY <1>1, <1>3, <1>4, <1>5, <1>6, MoveIInv

\* out_unmark: drops the mark if the fs_struct is the one that carries it.
LEMMA UnmarkIInv == ASSUME IInv, NEW t \in Task, Unmark(t) PROVE IInv'
<1>1. /\ pc[t] = "unmark" /\ Step(t, "free")
      /\ inExec' = (inExec /\ t \notin fs)
      /\ UNCHANGED <<killed, exitTask, notify, guard, cred, unsafe>>
  BY DEF Unmark, Step, InKernel, Set, sigVars, execVars, Locations, Early, Waiting,
         Alone
<1>2. Kept(t, "free")
  BY <1>1, Own
<1>3. ExecAt(t)'
  BY <1>1, <1>2
  DEF ExecAt, CredsAt, ZapAt, CountAt, VerdictAt, Unshared, Kept, Early, Waiting,
      Alone, Undecided, Holding, Judged, Marked, Single, IInv, TypeOK
<1>4. Types'
  BY <1>1, <1>2 DEF Types, Kept, IInv, TypeOK
<1>5. Apart(t)
  BY <1>1, <1>2
  DEF Apart, Kept, ExecAt, CredsAt, Early, Waiting, Alone, Undecided, Holding, Judged,
      Marked, Single, IInv, TypeOK
<1>6. Marks(t)
  BY <1>1, <1>2 DEF Marks, Kept, Unshared, Marked, Judged, Waiting, Alone
<1> QED
  BY <1>1, <1>3, <1>4, <1>5, <1>6, MoveIInv

\* free_bprm(): drops the mutex if it is still held.
LEMMA FreeBprmIInv == ASSUME IInv, NEW t \in Task, FreeBprm(t) PROVE IInv'
<1>1. /\ pc[t] = "free" /\ Step(t, "user")
      /\ guard' = IF t \in cred THEN [guard EXCEPT ![proc[t]] = NoTask] ELSE guard
      /\ cred' = cred \ {t}
      /\ unsafe' = [unsafe EXCEPT ![t] = {}]
      /\ UNCHANGED <<killed, exitTask, notify, inExec>>
  BY DEF FreeBprm, Step, InKernel, Set, sigVars, execVars, Locations, Early, Waiting,
         Alone
<1>2. Kept(t, "user")
  BY <1>1, Own
<1>3. ExecAt(t)'
  BY <1>1, <1>2
  DEF ExecAt, CredsAt, ZapAt, CountAt, VerdictAt, Unshared, Kept, Early, Waiting,
      Alone, Undecided, Holding, Judged, Marked, Single, IInv, TypeOK
<1>4. Types'
  BY <1>1, <1>2 DEF Types, Kept, IInv, TypeOK
<1>5. Apart(t)
  BY <1>1, <1>2
  DEF Apart, Kept, ExecAt, CredsAt, Early, Waiting, Alone, Undecided, Holding, Judged,
      Marked, Single, IInv, TypeOK
<1>6. Marks(t)
  BY <1>1, <1>2 DEF Marks, Kept, Unshared, Marked, Judged, Waiting, Alone
<1> QED
  BY <1>1, <1>3, <1>4, <1>5, <1>6, MoveIInv

\* de_thread(): every other live thread is struck, and the count is that of the list.
LEMMA DeThreadIInv == ASSUME IInv, NEW t \in Task, DeThread(t) PROVE IInv'
<1>1. ASSUME pc[t] = "load", Step(t, "sighand"),
             Others(t) = {},
             UNCHANGED <<killed, exitTask, notify, guard, cred, inExec, unsafe>>
      PROVE  IInv'
  <2>1. Kept(t, "sighand")
    BY <1>1, Own
  <2>2. ExecAt(t)'
    BY <1>1, <2>1
    DEF ExecAt, CredsAt, ZapAt, CountAt, VerdictAt, Unshared, Kept, Early, Waiting,
        Alone, Undecided, Holding, Judged, Marked, Single, IInv, TypeOK
  <2>3. Types'
    BY <1>1, <2>1 DEF Types, Kept, IInv, TypeOK
  <2>4. Apart(t)
    BY <1>1, <2>1
    DEF Apart, Kept, ExecAt, CredsAt, Early, Waiting, Alone, Undecided, Holding,
        Judged, Marked, Single, IInv, TypeOK
  <2>5. Marks(t)
    BY <1>1, <2>1 DEF Marks, Kept, Unshared, Marked, Judged, Waiting, Alone
  <2> QED
    BY <1>1, <2>2, <2>3, <2>4, <2>5, MoveIInv
<1>2. ASSUME pc[t] = "load", Step(t, "unmark"),
             UNCHANGED <<killed, exitTask, notify, guard, cred, inExec, unsafe>>
      PROVE  IInv'
  <2>1. Kept(t, "unmark")
    BY <1>2, Own
  <2>2. ExecAt(t)'
    BY <1>2, <2>1
    DEF ExecAt, CredsAt, ZapAt, CountAt, VerdictAt, Unshared, Kept, Early, Waiting,
        Alone, Undecided, Holding, Judged, Marked, Single, IInv, TypeOK
  <2>3. Types'
    BY <1>2, <2>1 DEF Types, Kept, IInv, TypeOK
  <2>4. Apart(t)
    BY <1>2, <2>1
    DEF Apart, Kept, ExecAt, CredsAt, Early, Waiting, Alone, Undecided, Holding,
        Judged, Marked, Single, IInv, TypeOK
  <2>5. Marks(t)
    BY <1>2, <2>1 DEF Marks, Kept, Unshared, Marked, Judged, Waiting, Alone
  <2> QED
    BY <1>2, <2>2, <2>3, <2>4, <2>5, MoveIInv
<1>3. ASSUME pc[t] = "load", Step(t, "zapped"),
             Others(t) = {Leader(t)},
             exitTask' = [exitTask EXCEPT ![proc[t]] = t],
             killed' = killed \cup {u \in Others(t) : state[u] = "live"},
             notify' = [notify EXCEPT ![proc[t]] = Cardinality(Others(t) \ {Leader(t)})],
             UNCHANGED <<guard, cred, inExec, unsafe>>
      PROVE  IInv'
  <2>1. Kept(t, "zapped")
    BY <1>3, Own
  <2>2. Cardinality(Others(t) \ {Leader(t)}) \in -1 .. Cardinality(Task)
    BY Countable DEF Others, Linked
  <2>3. killed' \subseteq Task
    BY <1>3 DEF Others, Linked, IInv, TypeOK
  <2>4. ExecAt(t)'
    BY <1>3, <2>1
    DEF ExecAt, CredsAt, ZapAt, CountAt, VerdictAt, Unshared, Kept, Early, Waiting,
        Alone, Undecided, Holding, Judged, Marked, Single, IInv, TypeOK
  <2>5. Types'
    BY <1>3, <2>1, <2>2, <2>3 DEF Types, Kept, IInv, TypeOK
  <2>6. Apart(t)
    BY <1>3, <2>1, OneHolder
    DEF Apart, Kept, ExecAt, CredsAt, Early, Waiting, Alone, Undecided, Holding,
        Judged, Marked, Single, IInv, TypeOK
  <2>7. Marks(t)
    BY <1>3, <2>1 DEF Marks, Kept, Unshared, Marked, Judged, Waiting, Alone
  <2> QED
    BY <1>3, <2>4, <2>5, <2>6, <2>7, MoveIInv
<1>4. ASSUME pc[t] = "load", Step(t, "zap"),
             exitTask' = [exitTask EXCEPT ![proc[t]] = t],
             killed' = killed \cup {u \in Others(t) : state[u] = "live"},
             notify' = [notify EXCEPT ![proc[t]] = Cardinality(Others(t) \ {Leader(t)})],
             UNCHANGED <<guard, cred, inExec, unsafe>>
      PROVE  IInv'
  <2>1. Kept(t, "zap")
    BY <1>4, Own
  <2>2. Cardinality(Others(t) \ {Leader(t)}) \in -1 .. Cardinality(Task)
    BY Countable DEF Others, Linked
  <2>3. killed' \subseteq Task
    BY <1>4 DEF Others, Linked, IInv, TypeOK
  <2>4. ExecAt(t)'
    BY <1>4, <2>1
    DEF ExecAt, CredsAt, ZapAt, CountAt, VerdictAt, Unshared, Kept, Early, Waiting,
        Alone, Undecided, Holding, Judged, Marked, Single, IInv, TypeOK
  <2>5. Types'
    BY <1>4, <2>1, <2>2, <2>3 DEF Types, Kept, IInv, TypeOK
  <2>6. Apart(t)
    BY <1>4, <2>1, OneHolder
    DEF Apart, Kept, ExecAt, CredsAt, Early, Waiting, Alone, Undecided, Holding,
        Judged, Marked, Single, IInv, TypeOK
  <2>7. Marks(t)
    BY <1>4, <2>1 DEF Marks, Kept, Unshared, Marked, Judged, Waiting, Alone
  <2> QED
    BY <1>4, <2>4, <2>5, <2>6, <2>7, MoveIInv
<1> QED
  BY <1>1, <1>2, <1>3, <1>4
  DEF DeThread, Step, InKernel, Set, sigVars, execVars, Locations, Early, Waiting,
      Alone, IInv, TypeOK

\* The waiting exec is killed; its mutex makes it the only one that waits.
LEMMA ZapKilledIInv == ASSUME IInv, NEW t \in Task, ZapKilled(t) PROVE IInv'
<1>1. /\ pc[t] \in {"zap", "leader"} /\ Step(t, "unmark")
      /\ exitTask' = [exitTask EXCEPT ![proc[t]] = NoTask]
      /\ notify' = [notify EXCEPT ![proc[t]] = 0]
      /\ UNCHANGED <<killed, guard, cred, inExec, unsafe>>
  BY DEF ZapKilled, Step, InKernel, Set, sigVars, execVars, Locations, Early, Waiting,
         Alone
<1>2. Kept(t, "unmark")
  BY <1>1, Own
<1>3. ExecAt(t)'
  BY <1>1, <1>2
  DEF ExecAt, CredsAt, ZapAt, CountAt, VerdictAt, Unshared, Kept, Early, Waiting,
      Alone, Undecided, Holding, Judged, Marked, Single, IInv, TypeOK
<1>4. Types'
  BY <1>1, <1>2, Zero DEF Types, Kept, IInv, TypeOK
<1>5. Apart(t)
  BY <1>1, <1>2, OneHolder
  DEF Apart, Kept, ExecAt, CredsAt, Early, Waiting, Alone, Undecided, Holding, Judged,
      Marked, Single, IInv, TypeOK
<1>6. Marks(t)
  BY <1>1, <1>2 DEF Marks, Kept, Unshared, Marked, Judged, Waiting, Alone
<1> QED
  BY <1>1, <1>3, <1>4, <1>5, <1>6, MoveIInv

\* The count is 0, so nobody but the leader is left.
LEMMA ZapDoneIInv == ASSUME IInv, NEW t \in Task, ZapDone(t) PROVE IInv'
<1>1. /\ pc[t] = "zap" /\ Step(t, "zapped")
      /\ notify[proc[t]] = 0
      /\ UNCHANGED <<killed, exitTask, notify, guard, cred, inExec, unsafe>>
  BY DEF ZapDone, Step, InKernel, Set, sigVars, execVars, Locations, Early, Waiting,
         Alone
<1>2. Kept(t, "zapped")
  BY <1>1, Own
<1>3. Others(t) \subseteq {Leader(t)}
  <2>1. Cardinality(Others(t) \ {Leader(t)}) = 0
    BY <1>1, <1>2 DEF Kept, ExecAt, CountAt
  <2>2. IsFiniteSet(Others(t) \ {Leader(t)})
    BY Countable DEF Others, Linked
  <2> QED
    BY <2>1, <2>2, FS_EmptySet
<1>4. ExecAt(t)'
  BY <1>1, <1>2, <1>3
  DEF ExecAt, CredsAt, ZapAt, CountAt, VerdictAt, Unshared, Kept, Early, Waiting,
      Alone, Undecided, Holding, Judged, Marked, Single, IInv, TypeOK
<1>5. Types'
  BY <1>1, <1>2 DEF Types, Kept, IInv, TypeOK
<1>6. Apart(t)
  BY <1>1, <1>2
  DEF Apart, Kept, ExecAt, CredsAt, Early, Waiting, Alone, Undecided, Holding, Judged,
      Marked, Single, IInv, TypeOK
<1>7. Marks(t)
  BY <1>1, <1>2 DEF Marks, Kept, Unshared, Marked, Judged, Waiting, Alone
<1> QED
  BY <1>1, <1>4, <1>5, <1>6, <1>7, MoveIInv

\* The leader alone is left: the caller, or the one task it still waits for.
LEMMA AfterZapIInv == ASSUME IInv, NEW t \in Task, AfterZap(t) PROVE IInv'
<1>1. ASSUME pc[t] = "zapped", Step(t, "ungroup"),
             t = Leader(t),
             UNCHANGED <<killed, exitTask, notify, guard, cred, inExec, unsafe>>
      PROVE  IInv'
  <2>1. Kept(t, "ungroup")
    BY <1>1, Own
  <2>2. Others(t) = {}
    BY <1>1, <2>1 DEF Kept, ExecAt, ZapAt, Others
  <2>3. ExecAt(t)'
    BY <1>1, <2>1, <2>2
    DEF ExecAt, CredsAt, ZapAt, CountAt, VerdictAt, Unshared, Kept, Early, Waiting,
        Alone, Undecided, Holding, Judged, Marked, Single, IInv, TypeOK
  <2>4. Types'
    BY <1>1, <2>1 DEF Types, Kept, IInv, TypeOK
  <2>5. Apart(t)
    BY <1>1, <2>1
    DEF Apart, Kept, ExecAt, CredsAt, Early, Waiting, Alone, Undecided, Holding,
        Judged, Marked, Single, IInv, TypeOK
  <2>6. Marks(t)
    BY <1>1, <2>1 DEF Marks, Kept, Unshared, Marked, Judged, Waiting, Alone
  <2> QED
    BY <1>1, <2>3, <2>4, <2>5, <2>6, MoveIInv
<1>2. ASSUME pc[t] = "zapped", Step(t, "leader"),
             t # Leader(t),
             notify' = [notify EXCEPT ![proc[t]] = -1],
             UNCHANGED <<killed, exitTask, guard, cred, inExec, unsafe>>
      PROVE  IInv'
  <2>1. Kept(t, "leader")
    BY <1>2, Own
  <2>2. ExecAt(t)'
    BY <1>2, <2>1
    DEF ExecAt, CredsAt, ZapAt, CountAt, VerdictAt, Unshared, Kept, Early, Waiting,
        Alone, Undecided, Holding, Judged, Marked, Single, IInv, TypeOK
  <2>3. Types'
    BY <1>2, <2>1, Zero DEF Types, Kept, IInv, TypeOK
  <2>4. Apart(t)
    BY <1>2, <2>1, OneHolder
    DEF Apart, Kept, ExecAt, CredsAt, Early, Waiting, Alone, Undecided, Holding,
        Judged, Marked, Single, IInv, TypeOK
  <2>5. Marks(t)
    BY <1>2, <2>1 DEF Marks, Kept, Unshared, Marked, Judged, Waiting, Alone
  <2> QED
    BY <1>2, <2>2, <2>3, <2>4, <2>5, MoveIInv
<1> QED
  BY <1>1, <1>2
  DEF AfterZap, Step, InKernel, Set, sigVars, execVars, Locations, Early, Waiting,
      Alone

\* The exec is alone and clears what it waited with.
LEMMA UngroupIInv == ASSUME IInv, NEW t \in Task, Ungroup(t) PROVE IInv'
<1>1. /\ pc[t] = "ungroup" /\ Step(t, "sighand")
      /\ exitTask' = [exitTask EXCEPT ![proc[t]] = NoTask]
      /\ notify' = [notify EXCEPT ![proc[t]] = 0]
      /\ UNCHANGED <<killed, guard, cred, inExec, unsafe>>
  BY DEF Ungroup, Step, InKernel, Set, sigVars, execVars, Locations, Early, Waiting,
         Alone
<1>2. Kept(t, "sighand")
  BY <1>1, Own
<1>3. ExecAt(t)'
  BY <1>1, <1>2
  DEF ExecAt, CredsAt, ZapAt, CountAt, VerdictAt, Unshared, Kept, Early, Waiting,
      Alone, Undecided, Holding, Judged, Marked, Single, IInv, TypeOK
<1>4. Types'
  BY <1>1, <1>2, Zero DEF Types, Kept, IInv, TypeOK
<1>5. Apart(t)
  BY <1>1, <1>2, OneHolder
  DEF Apart, Kept, ExecAt, CredsAt, Early, Waiting, Alone, Undecided, Holding, Judged,
      Marked, Single, IInv, TypeOK
<1>6. Marks(t)
  BY <1>1, <1>2 DEF Marks, Kept, Unshared, Marked, Judged, Waiting, Alone
<1> QED
  BY <1>1, <1>3, <1>4, <1>5, <1>6, MoveIInv

\* The new mm, or a failure of an exec that is alone.
LEMMA ExecMmapIInv == ASSUME IInv, NEW t \in Task, ExecMmap(t) PROVE IInv'
<1>1. ASSUME pc[t] = "sighand", Step(t, "mapped"),
             UNCHANGED <<killed, exitTask, notify, guard, cred, inExec, unsafe>>
      PROVE  IInv'
  <2>1. Kept(t, "mapped")
    BY <1>1, Own
  <2>2. ExecAt(t)'
    BY <1>1, <2>1
    DEF ExecAt, CredsAt, ZapAt, CountAt, VerdictAt, Unshared, Kept, Early, Waiting,
        Alone, Undecided, Holding, Judged, Marked, Single, IInv, TypeOK
  <2>3. Types'
    BY <1>1, <2>1 DEF Types, Kept, IInv, TypeOK
  <2>4. Apart(t)
    BY <1>1, <2>1
    DEF Apart, Kept, ExecAt, CredsAt, Early, Waiting, Alone, Undecided, Holding,
        Judged, Marked, Single, IInv, TypeOK
  <2>5. Marks(t)
    BY <1>1, <2>1 DEF Marks, Kept, Unshared, Marked, Judged, Waiting, Alone
  <2> QED
    BY <1>1, <2>2, <2>3, <2>4, <2>5, MoveIInv
<1>2. ASSUME pc[t] = "sighand", Step(t, "unmark"),
             UNCHANGED <<killed, exitTask, notify, guard, cred, inExec, unsafe>>
      PROVE  IInv'
  <2>1. Kept(t, "unmark")
    BY <1>2, Own
  <2>2. ExecAt(t)'
    BY <1>2, <2>1
    DEF ExecAt, CredsAt, ZapAt, CountAt, VerdictAt, Unshared, Kept, Early, Waiting,
        Alone, Undecided, Holding, Judged, Marked, Single, IInv, TypeOK
  <2>3. Types'
    BY <1>2, <2>1 DEF Types, Kept, IInv, TypeOK
  <2>4. Apart(t)
    BY <1>2, <2>1
    DEF Apart, Kept, ExecAt, CredsAt, Early, Waiting, Alone, Undecided, Holding,
        Judged, Marked, Single, IInv, TypeOK
  <2>5. Marks(t)
    BY <1>2, <2>1 DEF Marks, Kept, Unshared, Marked, Judged, Waiting, Alone
  <2> QED
    BY <1>2, <2>2, <2>3, <2>4, <2>5, MoveIInv
<1> QED
  BY <1>1, <1>2
  DEF ExecMmap, Step, InKernel, Set, sigVars, execVars, Locations, Early, Waiting,
      Alone

\* commit_creds(): the mutex is dropped next, and not by free_bprm().
LEMMA CommitCredsIInv == ASSUME IInv, NEW t \in Task, CommitCreds(t) PROVE IInv'
<1>1. /\ pc[t] = "mapped" /\ Step(t, "commit")
      /\ cred' = cred \ {t}
      /\ UNCHANGED <<killed, exitTask, notify, guard, inExec, unsafe>>
  BY DEF CommitCreds, Step, InKernel, Set, sigVars, execVars, Locations, Early,
         Waiting, Alone
<1>2. Kept(t, "commit")
  BY <1>1, Own
<1>3. ExecAt(t)'
  BY <1>1, <1>2
  DEF ExecAt, CredsAt, ZapAt, CountAt, VerdictAt, Unshared, Kept, Early, Waiting,
      Alone, Undecided, Holding, Judged, Marked, Single, IInv, TypeOK
<1>4. Types'
  BY <1>1, <1>2 DEF Types, Kept, IInv, TypeOK
<1>5. Apart(t)
  BY <1>1, <1>2
  DEF Apart, Kept, ExecAt, CredsAt, Early, Waiting, Alone, Undecided, Holding, Judged,
      Marked, Single, IInv, TypeOK
<1>6. Marks(t)
  BY <1>1, <1>2 DEF Marks, Kept, Unshared, Marked, Judged, Waiting, Alone
<1> QED
  BY <1>1, <1>3, <1>4, <1>5, <1>6, MoveIInv

\* The mutex is dropped by an exec that is alone in its process.
LEMMA UnlockGuardIInv == ASSUME IInv, NEW t \in Task, UnlockGuard(t) PROVE IInv'
<1>1. /\ pc[t] = "commit" /\ Step(t, "start")
      /\ guard' = [guard EXCEPT ![proc[t]] = NoTask]
      /\ UNCHANGED <<killed, exitTask, notify, cred, inExec, unsafe>>
  BY DEF UnlockGuard, Step, InKernel, Set, sigVars, execVars, Locations, Early,
         Waiting, Alone
<1>2. Kept(t, "start")
  BY <1>1, Own
<1>3. ExecAt(t)'
  BY <1>1, <1>2
  DEF ExecAt, CredsAt, ZapAt, CountAt, VerdictAt, Unshared, Kept, Early, Waiting,
      Alone, Undecided, Holding, Judged, Marked, Single, IInv, TypeOK
<1>4. Types'
  BY <1>1, <1>2 DEF Types, Kept, IInv, TypeOK
<1>5. Apart(t)
  BY <1>1, <1>2
  DEF Apart, Kept, ExecAt, CredsAt, Early, Waiting, Alone, Undecided, Holding, Judged,
      Marked, Single, IInv, TypeOK
<1>6. Marks(t)
  BY <1>1, <1>2 DEF Marks, Kept, Unshared, Marked, Judged, Waiting, Alone
<1> QED
  BY <1>1, <1>3, <1>4, <1>5, <1>6, MoveIInv

\* A failure past the point of no return leaves the exec alone.
LEMMA NoReturnIInv == ASSUME IInv, NEW t \in Task, NoReturn(t) PROVE IInv'
<1>1. /\ pc[t] \in {"mapped", "start"} /\ Step(t, "unmark")
      /\ killed' = killed \cup {t}
      /\ UNCHANGED <<exitTask, notify, guard, cred, inExec, unsafe>>
  BY DEF NoReturn, Step, InKernel, Set, sigVars, execVars, Locations, Early, Waiting,
         Alone
<1>2. Kept(t, "unmark")
  BY <1>1, Own
<1>3. ExecAt(t)'
  BY <1>1, <1>2
  DEF ExecAt, CredsAt, ZapAt, CountAt, VerdictAt, Unshared, Kept, Early, Waiting,
      Alone, Undecided, Holding, Judged, Marked, Single, IInv, TypeOK
<1>4. Types'
  BY <1>1, <1>2 DEF Types, Kept, IInv, TypeOK
<1>5. Apart(t)
  BY <1>1, <1>2
  DEF Apart, Kept, ExecAt, CredsAt, Early, Waiting, Alone, Undecided, Holding, Judged,
      Marked, Single, IInv, TypeOK
<1>6. Marks(t)
  BY <1>1, <1>2 DEF Marks, Kept, Unshared, Marked, Judged, Waiting, Alone
<1> QED
  BY <1>1, <1>3, <1>4, <1>5, <1>6, MoveIInv

\* The exec succeeds and drops its mark.
LEMMA ExecDoneIInv == ASSUME IInv, NEW t \in Task, ExecDone(t) PROVE IInv'
<1>1. /\ pc[t] = "start" /\ Step(t, "user")
      /\ inExec' = (inExec /\ t \notin fs)
      /\ unsafe' = [unsafe EXCEPT ![t] = {}]
      /\ UNCHANGED <<killed, exitTask, notify, guard, cred>>
  BY DEF ExecDone, Step, InKernel, Set, sigVars, execVars, Locations, Early, Waiting,
         Alone
<1>2. Kept(t, "user")
  BY <1>1, Own
<1>3. ExecAt(t)'
  BY <1>1, <1>2
  DEF ExecAt, CredsAt, ZapAt, CountAt, VerdictAt, Unshared, Kept, Early, Waiting,
      Alone, Undecided, Holding, Judged, Marked, Single, IInv, TypeOK
<1>4. Types'
  BY <1>1, <1>2 DEF Types, Kept, IInv, TypeOK
<1>5. Apart(t)
  BY <1>1, <1>2
  DEF Apart, Kept, ExecAt, CredsAt, Early, Waiting, Alone, Undecided, Holding, Judged,
      Marked, Single, IInv, TypeOK
<1>6. Marks(t)
  BY <1>1, <1>2 DEF Marks, Kept, Unshared, Marked, Judged, Waiting, Alone
<1> QED
  BY <1>1, <1>3, <1>4, <1>5, <1>6, MoveIInv

-------------------------------------------------------------------------------
(* Steps that are not of an exec.                                          *)

\* A task in user mode or in copy_process() has no part in an exec.
LEMMA IdleAt ==
  ASSUME NEW u \in Task, pc'[u] \in {"user", "clone"}, u \notin cred'
  PROVE  ExecAt(u)'
BY DEF ExecAt, CredsAt, ZapAt, CountAt, VerdictAt, Unshared, Early, Waiting, Alone,
       Undecided, Holding, Judged, Marked, Single

\* An exec goes on as it was while its process has the same members, the struck
\* stay so, and nobody new shares the fs_struct.
LEMMA SameMembers ==
  ASSUME IInv, NEW u \in Task, pc'[u] = pc[u], proc'[u] = proc[u],
         UNCHANGED <<leader, exitTask, notify, execVars>>,
         Linked(proc[u])' = Linked(proc[u]),
         \A v \in Others(u) :
           state'[v] = "live" => state[v] = "live" /\ (v \in killed => v \in killed'),
         fs' \subseteq fs \/ ~inExec, u \in fs' => u \in fs,
         u \in traced' => u \in traced \/ pc[u] \notin Judged
  PROVE  ExecAt(u)'
<1>1. CredsAt(u) /\ ZapAt(u) /\ CountAt(u) /\ VerdictAt(u)
  BY DEF IInv, Execs, ExecAt
<1>2. UNCHANGED <<guard, cred, inExec, unsafe>>
  BY DEF execVars
<1>3. Others(u)' = Others(u) /\ Leader(u)' = Leader(u)
  BY DEF Others, Leader
<1>4. CredsAt(u)' /\ CountAt(u)'
  BY <1>1, <1>2, <1>3 DEF CredsAt, CountAt
<1>5. ZapAt(u)'
  BY <1>1, <1>2, <1>3 DEF ZapAt
<1>6. VerdictAt(u)'
  BY <1>1, <1>2 DEF VerdictAt, Unshared
<1> QED
  BY <1>4, <1>5, <1>6 DEF ExecAt

\* The mark of the fs_struct stays with the execs that it belongs to.
LEMMA SameMarks ==
  ASSUME IInv, UNCHANGED execVars,
         \A u \in fs' : state'[u] \in {"live", "cloned"},
         \A u \in fs : pc[u] \in Marked => u \in fs' /\ pc'[u] \in Marked
  PROVE  Sharing'
BY DEF IInv, Sharing, Unshared, execVars

\* A task in user mode or in copy_process() holds no credentials of an exec.
LEMMA IdleUser ==
  ASSUME IInv, NEW u \in Task, pc[u] \in {"user", "clone"}
  PROVE  u \notin cred /\ pc[u] \notin Marked
BY DEF IInv, Execs, ExecAt, CredsAt, Undecided, Early, Waiting, Alone, Marked, Judged

\* copy_fs(): a new task shares the fs_struct only while it has no mark.
LEMMA CopyFsIInv ==
  ASSUME IInv, NEW t \in Task, NEW c \in Task, NEW thread \in BOOLEAN,
         NEW share \in BOOLEAN, CopyFs(t, c, thread, share)
  PROVE  IInv'
<1>1. /\ state[t] = "live" /\ pc[t] = "user" /\ state[c] = "unused" /\ pc[c] = "user"
      /\ state' = [state EXCEPT ![c] = "cloned"]
      /\ proc' = [proc EXCEPT ![c] = IF thread THEN proc[t] ELSE c]
      /\ fs' \subseteq fs \cup {c} /\ fs \subseteq fs' /\ (fs' \subseteq fs \/ ~inExec)
      /\ child' = [child EXCEPT ![t] = c] /\ pc' = [pc EXCEPT ![t] = "clone"]
      /\ UNCHANGED <<traced, pid, killed, leader, groupExit, exitTask, notify>>
      /\ UNCHANGED execVars
  BY DEF CopyFs, InKernel, Goto, sigVars, IInv, Families
<1>2. TypeOK'
  BY <1>1 DEF IInv, TypeOK, execVars, Locations
<1>3. Families'
  BY <1>1 DEF IInv, TypeOK, Families
<1>4. Processes'
  BY <1>1 DEF IInv, TypeOK, Processes, Unborn
<1>5. Leaders'
  BY <1>1 DEF IInv, TypeOK, Leaders, Leader, Unborn, Started
<1>6. ASSUME NEW u \in Task PROVE ExecAt(u)'
  <2>1. CASE u \in {t, c}
    BY <1>1, <2>1, IdleUser, IdleAt DEF IInv, TypeOK, execVars
  <2>2. CASE u \notin {t, c}
    <3>1. Linked(proc[u])' = Linked(proc[u])
      <4>1. proc'[u] = proc[u] /\ state'[c] = "cloned"
        BY <1>1, <2>2 DEF IInv, TypeOK
      <4>2. \A v \in Task \ {c} : proc'[v] = proc[v] /\ state'[v] = state[v]
        BY <1>1 DEF IInv, TypeOK
      <4> QED
        BY <1>1, <4>1, <4>2 DEF Linked
    <3>2. \A v \in Others(u) : state'[v] = state[v]
      BY <1>1 DEF Others, Linked, IInv, TypeOK
    <3> QED
      BY <1>1, <2>2, <3>1, <3>2, SameMembers DEF IInv, TypeOK
  <2> QED
    BY <2>1, <2>2
<1>7. Sharing'
  BY <1>1, SameMarks, IdleUser DEF IInv, TypeOK, Sharing
<1> QED
  BY <1>2, <1>3, <1>4, <1>5, <1>6, <1>7 DEF IInv, Execs

\* A task is linked by a thread that is not struck: its process has no exec that waits
\* or is alone.
LEMMA LinkIInv == ASSUME IInv, NEW t \in Task, Link(t) PROVE IInv'
<1> DEFINE c == child[t]
<1>1. /\ state[t] = "live" /\ pc[t] = "clone" /\ t \notin killed
      /\ c \in Task /\ c # t /\ state[c] = "cloned" /\ pc[c] = "user"
      /\ proc[c] \in {proc[t], c}
      /\ state' = [state EXCEPT ![c] = "live"]
      /\ child' = [child EXCEPT ![t] = NoTask] /\ pc' = [pc EXCEPT ![t] = "user"]
      /\ UNCHANGED <<proc, fs, traced, pid, killed, leader, groupExit, exitTask, notify>>
      /\ UNCHANGED execVars
  BY DEF Link, InKernel, Goto, sigVars, IInv, Families
<1> HIDE DEF c
<1>2. TypeOK'
  BY <1>1 DEF IInv, TypeOK, execVars, Locations
<1>3. Families'
  BY <1>1 DEF IInv, TypeOK, Families, c
<1>4. Processes'
  BY <1>1 DEF IInv, TypeOK, Processes, Unborn
<1>5. Leaders'
  BY <1>1 DEF IInv, TypeOK, Leaders, Leader, Unborn, Started
<1>6. ASSUME NEW u \in Task PROVE ExecAt(u)'
  <2>1. CASE u \in {t, c}
    BY <1>1, <2>1, IdleUser, IdleAt DEF IInv, TypeOK, execVars
  <2>2. CASE u \notin {t, c} /\ proc[c] # proc[u]
    <3>1. Linked(proc[u])' = Linked(proc[u])
      BY <1>1, <2>2 DEF Linked, IInv, TypeOK
    <3>2. \A v \in Others(u) : state'[v] = state[v]
      BY <1>1 DEF Others, Linked, IInv, TypeOK
    <3> QED
      BY <1>1, <2>2, <3>1, <3>2, SameMembers DEF IInv, TypeOK
  <2>3. CASE u \notin {t, c} /\ proc[c] = proc[u] /\ pc[u] \in {"user", "clone"}
    BY <1>1, <2>3, IdleUser, IdleAt DEF IInv, TypeOK, execVars
  <2>4. CASE u \notin {t, c} /\ proc[c] = proc[u] /\ pc[u] \notin {"user", "clone"}
    <3>1. t \in Others(u)
      BY <1>1, <2>4, NoNewMember DEF IInv, Families, c
    <3>2. CredsAt(u) /\ ZapAt(u) /\ VerdictAt(u)
      BY DEF IInv, Execs, ExecAt
    <3>3. pc[u] \notin Single /\ pc[u] \notin Waiting /\ (pc[u] = "unmark" => u \in cred)
      BY <1>1, <3>1, <3>2 DEF ZapAt, Waiting
    <3>4. /\ pc'[u] = pc[u] /\ Linked(proc[u]) \subseteq Linked(proc[u])'
          /\ UNCHANGED <<proc, guard, cred, inExec, unsafe>>
      BY <1>1, <2>4 DEF IInv, TypeOK, Linked, execVars
    <3>5. CredsAt(u)' /\ VerdictAt(u)'
      BY <1>1, <3>2, <3>4 DEF CredsAt, VerdictAt, Unshared
    <3>6. ZapAt(u)' /\ CountAt(u)'
      BY <3>3, <3>4 DEF ZapAt, CountAt, Waiting
    <3> QED
      BY <3>5, <3>6 DEF ExecAt
  <2> QED
    BY <2>1, <2>2, <2>3, <2>4
<1>7. Sharing'
  BY <1>1, SameMarks, IdleUser DEF IInv, TypeOK, Sharing
<1> QED
  BY <1>2, <1>3, <1>4, <1>5, <1>6, <1>7 DEF IInv, Execs

\* copy_process() fails: the new task was in no list.
LEMMA UnforkIInv == ASSUME IInv, NEW t \in Task, Unfork(t) PROVE IInv'
<1> DEFINE c == child[t]
<1>1. /\ state[t] = "live" /\ pc[t] = "clone"
      /\ c \in Task /\ c # t /\ state[c] = "cloned" /\ pc[c] = "user"
      /\ state' = [state EXCEPT ![c] = "released"] /\ fs' = fs \ {c}
      /\ child' = [child EXCEPT ![t] = NoTask] /\ pc' = [pc EXCEPT ![t] = "user"]
      /\ UNCHANGED <<proc, traced, pid, killed, leader, groupExit, exitTask, notify>>
      /\ UNCHANGED execVars
  BY DEF Unfork, InKernel, Goto, sigVars, IInv, Families
<1> HIDE DEF c
<1>2. TypeOK'
  BY <1>1 DEF IInv, TypeOK, execVars, Locations
<1>3. Families'
  BY <1>1 DEF IInv, TypeOK, Families, c
<1>4. Processes'
  BY <1>1 DEF IInv, TypeOK, Processes, Unborn
<1>5. Leaders'
  BY <1>1 DEF IInv, TypeOK, Leaders, Leader, Unborn, Started
<1>6. ASSUME NEW u \in Task PROVE ExecAt(u)'
  <2>1. CASE u \in {t, c}
    BY <1>1, <2>1, IdleUser, IdleAt DEF IInv, TypeOK, execVars
  <2>2. CASE u \notin {t, c}
    <3>1. Linked(proc[u])' = Linked(proc[u])
      BY <1>1 DEF Linked, IInv, TypeOK
    <3>2. \A v \in Others(u) : state'[v] = state[v]
      BY <1>1 DEF Others, Linked, IInv, TypeOK
    <3> QED
      BY <1>1, <2>2, <3>1, <3>2, SameMembers DEF IInv, TypeOK
  <2> QED
    BY <2>1, <2>2
<1>7. Sharing'
  BY <1>1, SameMarks, IdleUser DEF IInv, TypeOK, Sharing
<1> QED
  BY <1>2, <1>3, <1>4, <1>5, <1>6, <1>7 DEF IInv, Execs

\* A task that begins to exit leaves the fs_struct; it carried no mark.
LEMMA ExitFsIInv == ASSUME IInv, NEW t \in Task, ExitFs(t) PROVE IInv'
<1>1. /\ state[t] = "live" /\ pc[t] = "user"
      /\ state' = [state EXCEPT ![t] = "exiting"] /\ fs' = fs \ {t}
      /\ killed' = killed \ {t}
      /\ UNCHANGED <<proc, pc, child, traced, pid, leader, groupExit, exitTask, notify>>
      /\ UNCHANGED execVars
  BY DEF ExitFs, InKernel
<1>2. TypeOK'
  BY <1>1 DEF IInv, TypeOK, execVars
<1>3. Families'
  BY <1>1 DEF IInv, TypeOK, Families
<1>4. Processes'
  BY <1>1 DEF IInv, TypeOK, Processes, Unborn
<1>5. Leaders'
  BY <1>1 DEF IInv, TypeOK, Leaders, Leader, Unborn, Started
<1>6. ASSUME NEW u \in Task PROVE ExecAt(u)'
  <2>1. Linked(proc[u])' = Linked(proc[u])
    BY <1>1 DEF Linked, IInv, TypeOK
  <2>2. \A v \in Others(u) :
          state'[v] = "live" => state[v] = "live" /\ (v \in killed => v \in killed')
    BY <1>1 DEF Others, Linked, IInv, TypeOK
  <2> QED
    BY <1>1, <2>1, <2>2, SameMembers DEF IInv, TypeOK
<1>7. Sharing'
  BY <1>1, SameMarks, IdleUser DEF IInv, TypeOK, Sharing
<1> QED
  BY <1>2, <1>3, <1>4, <1>5, <1>6, <1>7 DEF IInv, Execs

\* A thread that is not the leader leaves the list, and is counted.
LEMMA ReleaseIInv ==
  ASSUME IInv, NEW t \in Task, state[t] \in {"exiting", "zombie"}, t # Leader(t), Release(t)
  PROVE  IInv'
<1>1. /\ pc[t] = "user" /\ t \notin fs /\ proc[t] \in Task
      /\ state' = [state EXCEPT ![t] = "released"] /\ traced' = traced \ {t}
      /\ UNCHANGED <<proc, fs, pc, child, pid, killed, leader, groupExit, exitTask>>
      /\ UNCHANGED execVars
  BY DEF Release, IInv, TypeOK, Families, Sharing
<1>2. notify' = IF notify[proc[t]] > 0
                THEN [notify EXCEPT ![proc[t]] = notify[proc[t]] - 1] ELSE notify
  BY DEF Release, Set
<1>3. notify' \in [Task -> -1 .. Cardinality(Task)]
  <2>1. Cardinality(Task) \in Nat
    BY TaskAssumption, FS_CardinalityType
  <2> QED
    BY <1>1, <1>2, <2>1 DEF IInv, TypeOK
<1>4. TypeOK'
  BY <1>1, <1>3 DEF IInv, TypeOK, execVars
<1>5. Families'
  BY <1>1 DEF IInv, TypeOK, Families
<1>6. Processes'
  BY <1>1 DEF IInv, TypeOK, Processes, Unborn
<1>7. Leaders'
  BY <1>1 DEF IInv, TypeOK, Leaders, Leader, Unborn, Started
<1>8. ASSUME NEW u \in Task PROVE ExecAt(u)'
  <2>1. CASE u = t
    BY <1>1, <2>1, IdleUser, IdleAt DEF execVars
  <2>2. CASE u # t
    <3>1. CredsAt(u) /\ ZapAt(u) /\ CountAt(u) /\ VerdictAt(u)
      BY DEF IInv, Execs, ExecAt
    <3>2. /\ UNCHANGED <<guard, cred, inExec, unsafe>> /\ Leader(u)' = Leader(u)
          /\ Linked(proc[u])' = Linked(proc[u]) \ {t}
          /\ Others(u)' = Others(u) \ {t}
      BY <1>1 DEF IInv, TypeOK, Linked, Others, Leader, execVars
    <3>3. CredsAt(u)' /\ VerdictAt(u)'
      BY <1>1, <2>2, <3>1, <3>2 DEF CredsAt, VerdictAt, Unshared
    <3>4. ZapAt(u)'
      BY <1>1, <3>1, <3>2 DEF ZapAt, IInv, TypeOK
    <3>5. CountAt(u)'
      <4> DEFINE S == Others(u) \ {Leader(u)}
      <4>1. CASE proc[u] = proc[t] /\ pc[u] = "zap"
        <5>1. t \in S
          BY <1>1, <2>2, <4>1 DEF Others, Linked, Leader
        <5>2. IsFiniteSet(S) /\ Cardinality(S) \in Nat
          BY Countable DEF Others, Linked
        <5>3. Cardinality(S) > 0
          BY <5>1, <5>2, FS_EmptySet
        <5>4. Cardinality(S \ {t}) = Cardinality(S) - 1
          BY <5>1, <5>2, FS_RemoveElement
        <5>5. notify[proc[u]] = Cardinality(S)
          BY <3>1, <4>1 DEF CountAt
        <5>6. notify'[proc[u]] = Cardinality(S) - 1
          BY <1>1, <1>2, <4>1, <5>3, <5>5 DEF IInv, TypeOK
        <5>7. (Others(u) \ {Leader(u)})' = S \ {t}
          BY <3>2
        <5> QED
          BY <1>1, <5>4, <5>6, <5>7 DEF CountAt
      <4>2. CASE proc[u] # proc[t]
        <5>1. notify'[proc[u]] = notify[proc[u]] /\ Others(u)' = Others(u)
          BY <1>2, <3>2, <4>2 DEF IInv, TypeOK, Others, Linked
        <5> QED
          BY <1>1, <3>1, <3>2, <5>1 DEF CountAt
      <4>3. CASE pc[u] # "zap"
        BY <1>1, <4>3 DEF CountAt
      <4> QED
        BY <4>1, <4>2, <4>3
    <3> QED
      BY <3>3, <3>4, <3>5 DEF ExecAt
  <2> QED
    BY <2>1, <2>2
<1>9. Sharing'
  BY <1>1, SameMarks DEF IInv, TypeOK, Sharing
<1> QED
  BY <1>4, <1>5, <1>6, <1>7, <1>8, <1>9 DEF IInv, Execs

\* A task ends as a zombie, or leaves the list.
LEMMA ExitNotifyIInv == ASSUME IInv, NEW t \in Task, ExitNotify(t) PROVE IInv'
<1>1. CASE ~(t = Leader(t) \/ t \in traced)
  BY <1>1, ReleaseIInv DEF ExitNotify
<1>2. CASE t = Leader(t) \/ t \in traced
  <2>1. /\ state[t] = "exiting" /\ state' = [state EXCEPT ![t] = "zombie"]
        /\ UNCHANGED <<proc, fs, pc, child, traced, pid>>
        /\ UNCHANGED <<killed, leader, groupExit, exitTask, notify, execVars>>
    BY <1>2 DEF ExitNotify, sigVars
  <2>2. TypeOK'
    BY <2>1 DEF IInv, TypeOK, execVars
  <2>3. Families'
    BY <2>1 DEF IInv, TypeOK, Families
  <2>4. Processes'
    BY <2>1 DEF IInv, TypeOK, Processes, Unborn
  <2>5. Leaders'
    BY <2>1 DEF IInv, TypeOK, Leaders, Leader, Unborn, Started
  <2>6. ASSUME NEW u \in Task PROVE ExecAt(u)'
    <3>1. Linked(proc[u])' = Linked(proc[u])
      BY <2>1 DEF Linked, IInv, TypeOK
    <3>2. \A v \in Others(u) : state'[v] = "live" => state[v] = "live"
      BY <2>1 DEF Others, Linked, IInv, TypeOK
    <3> QED
      BY <2>1, <3>1, <3>2, SameMembers DEF IInv, TypeOK
  <2>7. Sharing'
    BY <2>1, SameMarks DEF IInv, TypeOK, Sharing
  <2> QED
    BY <2>2, <2>3, <2>4, <2>5, <2>6, <2>7 DEF IInv, Execs
<1> QED
  BY <1>1, <1>2

\* A zombie that is not the leader leaves the list.
LEMMA ReapIInv == ASSUME IInv, NEW t \in Task, Reap(t) PROVE IInv'
BY ReleaseIInv DEF Reap

\* A fatal signal strikes more tasks.
LEMMA KillIInv == ASSUME IInv, NEW p \in Task, Kill(p) PROVE IInv'
<1>1. /\ UNCHANGED <<state, proc, fs, pc, child, traced, pid>>
      /\ UNCHANGED <<leader, exitTask, notify, execVars>>
      /\ groupExit' \subseteq Task /\ killed' \subseteq Task /\ killed \subseteq killed'
  BY DEF Kill, taskVars, Linked, IInv, TypeOK
<1>2. TypeOK'
  BY <1>1 DEF IInv, TypeOK, execVars
<1>3. Families' /\ Processes' /\ Leaders'
  BY <1>1 DEF IInv, Families, Processes, Leaders, Leader
<1>4. ASSUME NEW u \in Task PROVE ExecAt(u)'
  <2>1. Linked(proc[u])' = Linked(proc[u])
    BY <1>1 DEF Linked
  <2> QED
    BY <1>1, <2>1, SameMembers
<1>5. Sharing'
  BY <1>1, SameMarks DEF IInv, Sharing
<1> QED
  BY <1>2, <1>3, <1>4, <1>5 DEF IInv, Execs

\* ptrace_attach() takes the mutex, so nobody of the process is judged.
LEMMA AttachIInv == ASSUME IInv, NEW t \in Task, Attach(t) PROVE IInv'
<1>1. /\ guard[proc[t]] = NoTask /\ traced' = traced \cup {t}
      /\ UNCHANGED <<state, proc, fs, pc, child, pid>>
      /\ UNCHANGED <<killed, leader, groupExit, exitTask, notify, execVars>>
  BY DEF Attach, sigVars
<1>2. TypeOK'
  BY <1>1 DEF IInv, TypeOK, execVars
<1>3. Families' /\ Processes' /\ Leaders'
  BY <1>1 DEF IInv, Families, Processes, Leaders, Leader
<1>4. pc[t] \notin Judged
  BY <1>1, TaskAssumption DEF IInv, Execs, ExecAt, CredsAt, Judged, Holding, Early
<1>5. ASSUME NEW u \in Task PROVE ExecAt(u)'
  <2>1. Linked(proc[u])' = Linked(proc[u])
    BY <1>1 DEF Linked
  <2> QED
    BY <1>1, <1>4, <2>1, SameMembers
<1>6. Sharing'
  BY <1>1, SameMarks DEF IInv, Sharing
<1> QED
  BY <1>2, <1>3, <1>5, <1>6 DEF IInv, Execs

\* The last other task was the leader: the caller takes its place and its pid.
LEMMA TakeOverIInv == ASSUME IInv, NEW t \in Task, TakeOver(t) PROVE IInv'
<1> DEFINE l == Leader(t)
<1>1. /\ state[t] = "live" /\ pc[t] = "leader" /\ state[l] = "zombie"
      /\ pid' = [pid EXCEPT ![t] = pid[l]]
      /\ leader' = [leader EXCEPT ![proc[t]] = t]
      /\ state' = [state EXCEPT ![l] = "released"] /\ traced' = traced \ {l}
      /\ pc' = [pc EXCEPT ![t] = "ungroup"]
      /\ UNCHANGED <<proc, fs, child, killed, groupExit, exitTask, notify>>
      /\ UNCHANGED execVars
  BY DEF TakeOver, InKernel, Goto, Set
<1>2. /\ CredsAt(t) /\ ZapAt(t) /\ VerdictAt(t) /\ proc[t] \in Task
      /\ l \in Task /\ pid[l] = proc[t] /\ proc[l] = proc[t] /\ pc[l] = "user" /\ l \notin fs
  BY <1>1 DEF IInv, TypeOK, Families, Leaders, Leader, Started, Execs, ExecAt, Sharing
<1>3. l # t /\ Others(t) \subseteq {l}
  BY <1>1, <1>2 DEF ZapAt
<1>4. \A u \in Task \ {t, l} : proc[u] = proc[t] => state[u] \notin Started
  BY <1>3 DEF Others, Linked, Started
<1> HIDE DEF l
<1>5. TypeOK'
  BY <1>1, <1>2 DEF IInv, TypeOK, execVars, Locations, Waiting
<1>6. Families'
  BY <1>1, <1>2 DEF IInv, TypeOK, Families
<1>7. Processes'
  BY <1>1, <1>2 DEF IInv, TypeOK, Processes, Unborn
<1>8. Leaders'
  <2>1. ASSUME NEW c \in Task, state'[c] \in Unborn PROVE leader'[c] = c /\ pid'[c] = c
    BY <1>1, <1>2, <2>1 DEF IInv, TypeOK, Processes, Leaders, Unborn
  <2>2. ASSUME NEW u \in Task, state'[u] \in Started, proc[u] = proc[t]
        PROVE  u = t /\ Leader(u)' = t /\ pid'[t] = proc[t]
    BY <1>1, <1>2, <1>4, <2>2 DEF IInv, TypeOK, Leader, Started
  <2>3. ASSUME NEW u \in Task, state'[u] \in Started, proc[u] # proc[t]
        PROVE  /\ Leader(u)' = Leader(u) /\ proc[Leader(u)] = proc[u]
               /\ Leader(u) \notin {t, l} /\ Leader(u) \in Task
               /\ state[Leader(u)] \in Started /\ pid[Leader(u)] = proc[u]
    BY <1>1, <1>2, <2>3 DEF IInv, TypeOK, Leaders, Leader, Started
  <2> QED
    BY <1>1, <1>2, <1>3, <2>1, <2>2, <2>3 DEF IInv, TypeOK, Leaders, Started
<1>9. ASSUME NEW u \in Task PROVE ExecAt(u)'
  <2>1. CASE u = t
    <3>1. Others(t)' = {}
      BY <1>1, <1>2, <1>3 DEF Others, Linked, IInv, TypeOK
    <3>2. /\ pc'[t] = "ungroup" /\ Linked(proc[t])' = Linked(proc[t]) \ {l}
          /\ UNCHANGED <<guard, cred, inExec, unsafe>>
      BY <1>1, <1>2 DEF IInv, TypeOK, Linked, execVars
    <3> QED
      BY <1>1, <1>2, <2>1, <3>1, <3>2
      DEF ExecAt, CredsAt, ZapAt, CountAt, VerdictAt, Unshared, Early, Waiting, Alone,
          Undecided, Holding, Judged, Marked, Single
  <2>2. CASE u # t /\ proc[u] = proc[t]
    <3>1. pc[u] = "user"
      BY <1>2, <1>4, <2>2 DEF IInv, Families, Started
    <3> QED
      BY <1>1, <2>2, <3>1, IdleUser, IdleAt DEF IInv, TypeOK, execVars
  <2>3. CASE proc[u] # proc[t]
    <3>1. /\ Linked(proc[u])' = Linked(proc[u]) /\ Leader(u)' = Leader(u)
          /\ Others(u)' = Others(u) /\ \A v \in Others(u) : state'[v] = state[v]
      BY <1>1, <1>2, <2>3 DEF Linked, Others, Leader, IInv, TypeOK
    <3>2. CredsAt(u) /\ ZapAt(u) /\ CountAt(u) /\ VerdictAt(u)
      BY DEF IInv, Execs, ExecAt
    <3>3. pc'[u] = pc[u] /\ UNCHANGED <<guard, cred, inExec, unsafe>>
      BY <1>1, <2>3 DEF IInv, TypeOK, execVars
    <3>4. CredsAt(u)' /\ ZapAt(u)' /\ CountAt(u)'
      BY <1>1, <3>1, <3>2, <3>3 DEF CredsAt, ZapAt, CountAt
    <3>5. VerdictAt(u)'
      BY <1>1, <3>1, <3>2, <3>3 DEF VerdictAt, Unshared
    <3> QED
      BY <3>4, <3>5 DEF ExecAt
  <2> QED
    BY <2>1, <2>2, <2>3
<1>10. Sharing'
  <2>1. \A u \in fs : state'[u] \in {"live", "cloned"}
    BY <1>1, <1>2 DEF IInv, TypeOK, Sharing
  <2>2. \A u \in fs : pc[u] \in Marked => pc'[u] \in Marked
    BY <1>1 DEF IInv, TypeOK, Marked, Judged, Waiting
  <2> QED
    BY <1>1, <2>1, <2>2, SameMarks
<1> QED
  BY <1>5, <1>6, <1>7, <1>8, <1>9, <1>10 DEF IInv, Execs

-------------------------------------------------------------------------------
(* The invariant, and what follows from it.                                *)

\* Every step keeps the invariant.
LEMMA NextIInv == IInv /\ [Next]_vars => IInv'
<1> SUFFICES ASSUME IInv, [Next]_vars PROVE IInv'
  OBVIOUS
<1>1. CASE UNCHANGED vars
  <2>1. /\ UNCHANGED <<state, proc, fs, pc, child, traced, pid>>
        /\ UNCHANGED <<killed, leader, groupExit, exitTask, notify, execVars>>
    BY <1>1 DEF vars, taskVars, sigVars
  <2>2. TypeOK'
    BY <2>1 DEF IInv, TypeOK, execVars
  <2>3. Families' /\ Processes' /\ Leaders'
    BY <2>1 DEF IInv, Families, Processes, Leaders, Leader
  <2>4. ASSUME NEW u \in Task PROVE ExecAt(u)'
    <3>1. Linked(proc[u])' = Linked(proc[u])
      BY <2>1 DEF Linked
    <3> QED
      BY <2>1, <3>1, SameMembers
  <2>5. Sharing'
    BY <2>1, SameMarks DEF IInv, Sharing
  <2> QED
    BY <2>2, <2>3, <2>4, <2>5 DEF IInv, Execs
<1>2. ASSUME NEW t \in Task, Exec(t) PROVE IInv'
  BY <1>2, PrepareCredsIInv, CheckUnsafeIInv, LoadFailsIInv, UnmarkIInv, FreeBprmIInv,
     DeThreadIInv, ZapKilledIInv, ZapDoneIInv, AfterZapIInv, TakeOverIInv, UngroupIInv,
     ExecMmapIInv, CommitCredsIInv, UnlockGuardIInv, NoReturnIInv, ExecDoneIInv
  DEF Exec
<1>3. ASSUME NEW t \in Task, NEW c \in Task, NEW f \in Clones, CopyFs(t, c, f[1], f[2])
      PROVE  IInv'
  <2>1. f[1] \in BOOLEAN /\ f[2] \in BOOLEAN
    BY TaskAssumption
  <2> QED
    BY <1>3, <2>1, CopyFsIInv
<1>4. ASSUME NEW t \in Task, Copy(t) \/ Execve(t) PROVE IInv'
  BY <1>4, LinkIInv, UnforkIInv, ExecveIInv DEF Copy
<1>5. ASSUME NEW t \in Task, ExitFs(t) \/ ExitNotify(t) \/ Reap(t) \/ Attach(t) \/ Kill(t)
      PROVE  IInv'
  BY <1>5, ExitFsIInv, ExitNotifyIInv, ReapIInv, AttachIInv, KillIInv
<1> QED
  BY <1>1, <1>2, <1>3, <1>4, <1>5 DEF Next

\* The types of ExecThreadGroup, and with them all of the inductive invariant: who
\* holds the mutex, what de_thread() has reached, what was judged and is marked.
THEOREM Invariant == Spec => []IInv
<1>1. Init => IInv
  BY InitIInv
<1>2. IInv /\ [Next]_vars => IInv'
  BY NextIInv
<1> QED
  BY <1>1, <1>2, PTL DEF Spec

\* Every variable keeps its type; the counts of de_thread() stay within the number of
\* tasks.
THEOREM TypeOKHolds == Spec => []TypeOK
<1>1. IInv => TypeOK
  BY DEF IInv
<1> QED
  BY <1>1, Invariant, PTL

\* When de_thread() returns 0 the caller is the only task of its process, none is on
\* its way out of copy_process(), and the caller leads the process under its pid.
THEOREM SoloHolds == Spec => []SoloAfterDeThread
<1>1. IInv => SoloAfterDeThread
  <2> SUFFICES ASSUME IInv, NEW t \in Task, state[t] = "live", pc[t] \in Alone \cup {"start"}
               PROVE  /\ \A u \in Task \ {t} :
                           proc[u] = proc[t] => state[u] \in {"unused", "released"}
                      /\ Leader(t) = t
                      /\ pid[t] = proc[t]
    BY DEF SoloAfterDeThread
  <2>1. Others(t) = {} /\ pc[t] # "clone"
    BY DEF IInv, Execs, ExecAt, ZapAt, Single, Alone
  <2>2. \A u \in Task \ {t} : proc[u] = proc[t] => state[u] \in {"unused", "released"}
    BY <2>1, AloneIsSolo
  <2>3. /\ proc[Leader(t)] = proc[t] /\ state[Leader(t)] \in Started
        /\ pid[Leader(t)] = proc[t] /\ Leader(t) \in Task
    BY DEF IInv, TypeOK, Leaders, Leader, Started
  <2>4. Leader(t) = t
    BY <2>2, <2>3 DEF Started
  <2> QED
    BY <2>2, <2>3, <2>4
<1> QED
  BY <1>1, Invariant, PTL

\* The count that de_thread() sleeps on is the number of threads still to be released.
THEOREM NotifyCountsHolds == Spec => []NotifyCounts
<1>1. IInv => NotifyCounts
  BY DEF IInv, Execs, ExecAt, CountAt, NotifyCounts, InKernel
<1> QED
  BY <1>1, Invariant, PTL

\* What check_unsafe_exec() judged under the mutex holds when commit_creds() runs.
THEOREM VerdictHoldsAlways == Spec => []VerdictHolds
<1>1. IInv => VerdictHolds
  <2> SUFFICES ASSUME IInv, NEW t \in Task, state[t] = "live", pc[t] \in {"mapped", "commit"}
               PROVE  /\ t \in traced => "ptrace" \in unsafe[t]
                      /\ t \in fs /\ "share" \notin unsafe[t] => fs = {t}
    BY DEF VerdictHolds
  <2>1. VerdictAt(t) /\ ZapAt(t) /\ pc[t] \in Judged /\ pc[t] \in Single
    BY DEF IInv, Execs, ExecAt, Judged, Single, Alone
  <2>2. Others(t) = {}
    BY <2>1 DEF ZapAt
  <2>3. t \in fs /\ "share" \notin unsafe[t] => fs \subseteq Linked(proc[t])
    BY <2>1 DEF VerdictAt, Unshared, Marked
  <2> QED
    BY <2>1, <2>2, <2>3 DEF VerdictAt, Others
<1> QED
  BY <1>1, Invariant, PTL

\* fs->in_exec is set exactly while an exec that found the fs_struct unshared runs.
THEOREM InExecOwnedHolds == Spec => []InExecOwned
<1>1. IInv => InExecOwned
  <2> SUFFICES ASSUME IInv PROVE InExecOwned
    OBVIOUS
  <2>1. ASSUME NEW t \in Task
        PROVE  Unshared(t) <=> /\ t \in fs /\ state[t] = "live"
                               /\ pc[t] \in {"load", "unmark", "start"} \cup Waiting \cup Alone
                               /\ "share" \notin unsafe[t]
    BY DEF IInv, Families, Unshared, Marked, Judged, Waiting, Alone
  <2>2. ASSUME NEW t \in Task, Unshared(t) PROVE inExec
    BY <2>2 DEF IInv, Execs, ExecAt, VerdictAt
  <2>3. inExec => \E t \in Task : Unshared(t)
    BY DEF IInv, Sharing
  <2>4. fs \subseteq Task
    BY DEF IInv, TypeOK
  <2>5. CASE inExec
    BY <2>1, <2>3, <2>5 DEF InExecOwned
  <2>6. CASE ~inExec
    BY <2>1, <2>2, <2>4, <2>6 DEF InExecOwned
  <2> QED
    BY <2>5, <2>6
<1> QED
  BY <1>1, Invariant, PTL

\* cred_guard_mutex is held by the one exec of the process that is between its verdict
\* and its commit, and by every exec that has still to drop it.
THEOREM GuardHeldHolds == Spec => []GuardHeld
<1>1. IInv => GuardHeld
  BY DEF IInv, Execs, ExecAt, CredsAt, GuardHeld, Holding
<1> QED
  BY <1>1, Invariant, PTL

===============================================================================
