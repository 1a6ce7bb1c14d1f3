------------------------- MODULE ProcessCreationProofs -------------------------
(***************************************************************************)
(* What ProcessCreation promises of clones, for any finite set of tasks    *)
(* and any flags: references and counters are exact whatever fails, nobody *)
(* escapes a fatal signal by cloning, and the wait of a vfork is neither   *)
(* completed in a frame that is left nor over while memory is lent.        *)
(***************************************************************************)
EXTENDS ProcessCreation, FiniteSetTheorems, TLAPS

-------------------------------------------------------------------------------
(* Where a task is.                                                        *)

\* The steps of copy_process() at which other tasks may run.
Stops == {"creds", "module", "policy", "files", "fs", "sighand", "signal", "mm",
          "namespaces", "pid", "link"}
Vfork == {<<"vforkWait">>, <<"vforkKilled">>}
Leaving == {<<"complete", "execMmap">>, <<"complete", "exit">>, <<"execMmap">>,
            <<"exit">>}
Places == {<<"new">>, <<"user">>, <<"wake">>} \cup Vfork \cup Leaving
            \cup {<<"copy", s>> : s \in Stops}

New(t) == pc[t] = <<"new">>
Copying(t) == pc[t][1] = "copy"
Wakes(t) == pc[t] = <<"wake">>
Waits(t) == pc[t] = <<"vforkWait">>
InVfork(t) == pc[t] \in Vfork
Leaves(t) == pc[t] \in Leaving

\* The clone of t has got past step r, and holds a reference of its own by it.
Takes(t, r) == Copying(t) /\ r \in Taken(pc[t][2])
Owns(t, r) == Takes(t, r) /\ ~(r = "signal" /\ "THREAD" \in flags[t])

\* Having() of ProcessCreation, and the tasks that are counted in an object.
Havers(r) == Linked \cup {child[t] : t \in {p \in Task : Takes(p, r)}}
Owners(r) == Linked \cup {child[t] : t \in {p \in Task : Owns(p, r)}}
Users(r, o) == {u \in Owners(r) : ptr[u][r] = o}
Changers == {child[t] : t \in {p \in Task : Takes(p, "module") /\ "THREAD" \in flags[p]}}

-------------------------------------------------------------------------------
(* The inductive invariant.                                                *)

Counts == [processes : Int, threads : Int, module : Int, changing : Int]

Types ==
  /\ st \in [Task -> {"none", "embryo", "linked", "dead"}]
  /\ pc \in [Task -> Places]
  /\ child \in [Task -> Task \cup {NoTask}]
  /\ flags \in [Task -> SUBSET Flag]
  /\ ptr \in [Task -> [Resource -> Object \cup {NoObject}]]
  /\ refs \in [Resource -> [Object -> Int]]
  /\ counts \in Counts
  /\ pids \subseteq Task /\ usage \subseteq Task
  /\ vforkDone \in [Task -> Task \cup {NoTask}]
  /\ completion \in [Task -> {"none", "waited", "done"}]
  /\ lender \in [Task -> Task \cup {NoTask}]
  /\ pending \in [Task -> BOOLEAN]
SignalTypes == struck \in BOOLEAN /\ faulty \in BOOLEAN

\* A task that is copied has one parent, and a parent one child.
Family(t) ==
  /\ child[t] # NoTask <=> Copying(t) \/ Wakes(t) \/ InVfork(t)
  /\ Copying(t) => st[child[t]] = "embryo"
  /\ Wakes(t) => st[child[t]] = "linked" /\ New(child[t])
  /\ InVfork(t) =>
       /\ child[t] \in usage
       /\ st[child[t]] \in {"linked", "dead"}
       /\ st[child[t]] = "linked" => ~New(child[t])
Families == \A t \in Task : Family(t)
OneParent == \A t, p \in Task : child[t] = child[p] /\ child[t] # NoTask => t = p
\* Only a task that is linked runs.  What is dead is kept for a vfork.
Running ==
  \A u \in Task :
    /\ st[u] # "linked" => New(u) /\ ~pending[u]
    /\ st[u] = "dead" => u \in usage
    /\ u \in usage => \E t \in Task : child[t] = u /\ InVfork(t)

\* The pointers of a task that exists are of objects.  A thread that is not linked
\* has its parent's signal_struct, another embryo one that no other task has.
Pointers ==
  /\ \A u \in Linked : ptr[u] \in [Resource -> Object]
  /\ \A t \in Task : Copying(t) =>
       /\ ptr[child[t]] \in [Resource -> Object]
       /\ "THREAD" \in flags[t] => ptr[child[t]].signal = ptr[t].signal
OwnSignal ==
  \A t \in Task : \A v \in Owners("signal") :
    Owns(t, "signal") /\ v # child[t] => ptr[child[t]].signal # ptr[v].signal

References == \A r \in Resource : \A o \in Object : refs[r][o] = Cardinality(Users(r, o))
Counters ==
  /\ counts.processes = Cardinality(Havers("creds"))
  /\ counts.threads = Cardinality(Linked)
  /\ counts.module = Cardinality(Havers("module"))
  /\ counts.changing = Cardinality(Changers)
  /\ pids = Havers("pid")
NoFault == ~faulty

\* The completion that a task writes to is the one that its parent waits for.
Completions ==
  /\ \A u \in Linked : LET t == vforkDone[u]
                       IN t # NoTask => completion[t] = "waited" /\ child[t] = u
  /\ \A t \in Task :
       /\ completion[t] # "none" <=> InVfork(t)
       /\ Copying(t) /\ "module" \in Taken(pc[t][2]) => vforkDone[child[t]] = NoTask

\* Memory is lent to the child that the parent waits for, until that releases it.
Lent ==
  \A u \in Task :
    LET t == lender[u]
    IN /\ t # NoTask =>
            pending[t] \/ (Waits(t) /\ completion[t] = "waited" /\ child[t] = u)
       /\ New(u) \/ Leaves(u) => t = NoTask

IInv ==
  /\ Types /\ SignalTypes /\ Families /\ OneParent /\ Running /\ Pointers /\ OwnSignal
  /\ References /\ Counters /\ NoFault /\ Completions /\ Lent /\ NoneSlipsOut

-------------------------------------------------------------------------------
(* The steps of copy_process() and its labels, in order.                   *)

\* No step comes twice, and no label.
LEMMA StepIndex ==
  /\ DOMAIN Steps = 1 .. 15 /\ \A i, j \in 1 .. 15 : Steps[i] = Steps[j] => i = j
  /\ DOMAIN Labels = 1 .. 15 /\ \A i, j \in 1 .. 15 : Labels[i] = Labels[j] => i = j
<1>1. DOMAIN Steps = 1 .. 15 /\ DOMAIN Labels = 1 .. 15
  BY DEF Steps, Labels
<1>2. \A i, j \in 1 .. 15 : Steps[i] = Steps[j] => i = j
  BY DEF Steps
<1>3. \A i, j \in 1 .. 15 : Labels[i] = Labels[j] => i = j
  BY DEF Labels
<1> QED
  BY <1>1, <1>2, <1>3

\* The index of a step, and of a label, is where it is.
LEMMA IndexIs ==
  /\ \A i \in 1 .. 15 : Index(Steps, Steps[i]) = i
  /\ \A i \in 1 .. 15 : Index(Labels, Labels[i]) = i
BY StepIndex DEF Index

\* What has been taken when a clone is at a step,
LEMMA TakenIs ==
  /\ Taken("creds") = {}
  /\ Taken("module") = {"creds"}
  /\ Taken("policy") = {"creds", "module"}
  /\ Taken("perf") = {"creds", "module", "policy"}
  /\ Taken("audit") = {"creds", "module", "policy", "perf"}
  /\ Taken("semundo") = {"creds", "module", "policy", "perf", "audit"}
  /\ Taken("files") = {"creds", "module", "policy", "perf", "audit", "semundo"}
  /\ Taken("fs") = {"creds", "module", "policy", "perf", "audit", "semundo",
        "files"}
  /\ Taken("sighand") = {"creds", "module", "policy", "perf", "audit", "semundo",
        "files", "fs"}
  /\ Taken("signal") = {"creds", "module", "policy", "perf", "audit", "semundo",
        "files", "fs", "sighand"}
  /\ Taken("mm") = {"creds", "module", "policy", "perf", "audit", "semundo",
        "files", "fs", "sighand", "signal"}
  /\ Taken("namespaces") = {"creds", "module", "policy", "perf", "audit",
        "semundo", "files", "fs", "sighand", "signal", "mm"}
  /\ Taken("io") = {"creds", "module", "policy", "perf", "audit", "semundo",
        "files", "fs", "sighand", "signal", "mm", "namespaces"}
  /\ Taken("pid") = {"creds", "module", "policy", "perf", "audit", "semundo",
        "files", "fs", "sighand", "signal", "mm", "namespaces", "io"}
  /\ Taken("link") = {"creds", "module", "policy", "perf", "audit", "semundo",
        "files", "fs", "sighand", "signal", "mm", "namespaces", "io", "pid"}
BY IndexIs, StepIndex DEF Taken, Steps

\* and where it goes from there.
LEMMA NextIs ==
  /\ Steps[Index(Steps, "creds") + 1] = "module"
  /\ Steps[Index(Steps, "module") + 1] = "policy"
  /\ Steps[Index(Steps, "semundo") + 1] = "files"
  /\ Steps[Index(Steps, "files") + 1] = "fs"
  /\ Steps[Index(Steps, "fs") + 1] = "sighand"
  /\ Steps[Index(Steps, "sighand") + 1] = "signal"
  /\ Steps[Index(Steps, "signal") + 1] = "mm"
  /\ Steps[Index(Steps, "mm") + 1] = "namespaces"
  /\ Steps[Index(Steps, "io") + 1] = "pid"
  /\ Steps[Index(Steps, "pid") + 1] = "link"
BY IndexIs, StepIndex DEF Steps

\* The labels that are reached if a step fails.
LEMMA ReachedIs ==
  /\ Reached(FailsTo["creds"]) = {"free"}
  /\ Reached(FailsTo["module"]) = {"count", "free"}
  /\ Reached(FailsTo["policy"]) = {"threadgroup", "count", "free"}
  /\ Reached(FailsTo["perf"]) = {"policy", "threadgroup", "count", "free"}
  /\ Reached(FailsTo["audit"]) = {"perf", "policy", "threadgroup", "count",
        "free"}
  /\ Reached(FailsTo["semundo"]) = {"audit", "perf", "policy", "threadgroup",
        "count", "free"}
  /\ Reached(FailsTo["files"]) = {"semundo", "audit", "perf", "policy",
        "threadgroup", "count", "free"}
  /\ Reached(FailsTo["fs"]) = {"files", "semundo", "audit", "perf", "policy",
        "threadgroup", "count", "free"}
  /\ Reached(FailsTo["sighand"]) = {"fs", "files", "semundo", "audit", "perf",
        "policy", "threadgroup", "count", "free"}
  /\ Reached(FailsTo["signal"]) = {"sighand", "fs", "files", "semundo", "audit",
        "perf", "policy", "threadgroup", "count", "free"}
  /\ Reached(FailsTo["mm"]) = {"signal", "sighand", "fs", "files", "semundo",
        "audit", "perf", "policy", "threadgroup", "count", "free"}
  /\ Reached(FailsTo["namespaces"]) = {"mm", "signal", "sighand", "fs", "files",
        "semundo", "audit", "perf", "policy", "threadgroup", "count", "free"}
  /\ Reached(FailsTo["io"]) = {"namespaces", "mm", "signal", "sighand", "fs",
        "files", "semundo", "audit", "perf", "policy", "threadgroup", "count",
        "free"}
  /\ Reached(FailsTo["pid"]) = {"io", "namespaces", "mm", "signal", "sighand",
        "fs", "files", "semundo", "audit", "perf", "policy", "threadgroup",
        "count", "free"}
  /\ Reached(FailsTo["link"]) = {"pid", "io", "namespaces", "mm", "signal",
        "sighand", "fs", "files", "semundo", "audit", "perf", "policy",
        "threadgroup", "count", "free"}
BY IndexIs, StepIndex DEF Reached, Labels, FailsTo

\* Where a clone is when a step of it fails.
Stop(step) == IF step \in Local THEN "policy"
              ELSE IF step \in Spaces THEN "namespaces" ELSE step

\* The labels that are reached undo what was taken, and no more.
Undoes(step) ==
  LET labels == Reached(FailsTo[step])
      stop == Stop(step)
  IN /\ stop \in Stops
     /\ Resource \cap labels = Resource \cap Taken(stop)
     /\ labels \cap (Local \cup Spaces) = Taken(step) \cap (Local \cup Spaces)
     /\ "count" \in labels <=> "creds" \in Taken(stop)
     /\ "threadgroup" \in labels <=> "module" \in Taken(stop)
     /\ "pid" \in labels <=> "pid" \in Taken(stop)

\* Whatever step fails.
LEMMA LabelsUndo == \A step \in DOMAIN FailsTo : Undoes(step)
<1> USE TakenIs, ReachedIs DEF Undoes, Stop, Stops, Local, Spaces, Resource
<1>1. Undoes("creds")
  OBVIOUS
<1>2. Undoes("module")
  OBVIOUS
<1>3. Undoes("policy")
  OBVIOUS
<1>4. Undoes("perf")
  OBVIOUS
<1>5. Undoes("audit")
  OBVIOUS
<1>6. Undoes("semundo")
  OBVIOUS
<1>7. Undoes("files")
  OBVIOUS
<1>8. Undoes("fs")
  OBVIOUS
<1>9. Undoes("sighand")
  OBVIOUS
<1>10. Undoes("signal")
  OBVIOUS
<1>11. Undoes("mm")
  OBVIOUS
<1>12. Undoes("namespaces")
  OBVIOUS
<1>13. Undoes("io")
  OBVIOUS
<1>14. Undoes("pid")
  OBVIOUS
<1>15. Undoes("link")
  OBVIOUS
<1> QED
  BY <1>1, <1>2, <1>3, <1>4, <1>5, <1>6, <1>7, <1>8, <1>9, <1>10, <1>11, <1>12,
        <1>13, <1>14, <1>15 DEF FailsTo

-------------------------------------------------------------------------------
(* Who has what.                                                           *)

\* A place is one of a clone if it begins with "copy".
LEMMA PlaceIs ==
  ASSUME NEW p \in Places
  PROVE  /\ p[1] = "copy" => p[2] \in Stops /\ p = <<"copy", p[2]>>
         /\ p \in Vfork \cup Leaving \cup {<<"new">>, <<"user">>, <<"wake">>}
              => p[1] # "copy"
BY DEF Places, Vfork, Leaving

\* The tasks that others than t are copying.
OtherHavers(t, r) == {child[p] : p \in {q \in Task \ {t} : Takes(q, r)}}
OtherOwners(t, r) == {child[p] : p \in {q \in Task \ {t} : Owns(q, r)}}
OtherChangers(t) ==
  {child[p] : p \in {q \in Task \ {t} : Takes(q, "module") /\ "THREAD" \in flags[q]}}

\* A step of t leaves the clones of others alone.
Others(t) ==
  \A p \in Task \ {t} :
    \/ UNCHANGED <<pc[p], child[p], flags[p]>>
    \/ ~Copying(p) /\ ~Copying(p)'

\* Who has something: the tasks that are linked, and the children of t and of the others.
LEMMA Split ==
  ASSUME NEW t \in Task
  PROVE  /\ \A r : Havers(r) = Linked \cup OtherHavers(t, r)
                          \cup (IF Takes(t, r) THEN {child[t]} ELSE {})
         /\ \A r : Owners(r) = Linked \cup OtherOwners(t, r)
                          \cup (IF Owns(t, r) THEN {child[t]} ELSE {})
         /\ Changers = OtherChangers(t)
                         \cup (IF Takes(t, "module") /\ "THREAD" \in flags[t]
                               THEN {child[t]} ELSE {})
BY DEF Havers, OtherHavers, Owners, OtherOwners, Changers, OtherChangers

\* The same after a step of t.
LEMMA SplitNext ==
  ASSUME NEW t \in Task, Others(t)
  PROVE  /\ \A r : Havers(r)' = Linked' \cup OtherHavers(t, r)
                          \cup (IF Takes(t, r)' THEN {child'[t]} ELSE {})
         /\ \A r : Owners(r)' = Linked' \cup OtherOwners(t, r)
                          \cup (IF Owns(t, r)' THEN {child'[t]} ELSE {})
         /\ Changers' = OtherChangers(t)
                         \cup (IF (Takes(t, "module") /\ "THREAD" \in flags[t])'
                               THEN {child'[t]} ELSE {})
<1>1. \A q \in Task \ {t} : \A r : /\ Takes(q, r)' <=> Takes(q, r)
                                   /\ Owns(q, r)' <=> Owns(q, r)
                                   /\ Takes(q, r) => UNCHANGED <<child[q], flags[q]>>
  BY DEF Others, Takes, Owns, Copying
<1>2. \A r : OtherHavers(t, r)' = OtherHavers(t, r)
  BY <1>1 DEF OtherHavers
<1>3. \A r : OtherOwners(t, r)' = OtherOwners(t, r)
  BY <1>1 DEF OtherOwners, Owns
<1>4. OtherChangers(t)' = OtherChangers(t)
  BY <1>1 DEF OtherChangers
<1>5. /\ \A r : Havers(r)' = Linked' \cup OtherHavers(t, r)'
                          \cup (IF Takes(t, r)' THEN {child'[t]} ELSE {})
      /\ \A r : Owners(r)' = Linked' \cup OtherOwners(t, r)'
                          \cup (IF Owns(t, r)' THEN {child'[t]} ELSE {})
      /\ Changers' = OtherChangers(t)'
                         \cup (IF (Takes(t, "module") /\ "THREAD" \in flags[t])'
                               THEN {child'[t]} ELSE {})
  BY DEF Havers, OtherHavers, Owners, OtherOwners, Changers, OtherChangers
<1> QED
  BY <1>2, <1>3, <1>4, <1>5

\* The child of a clone is nobody else's, and not linked.
LEMMA ChildApart ==
  ASSUME IInv, NEW t \in Task, Copying(t)
  PROVE  /\ child[t] \in Task /\ child[t] \notin Linked /\ child[t] # t
         /\ t \in Linked /\ New(child[t])
         /\ \A p \in Task \ {t} : child[p] # child[t]
         /\ \A r : child[t] \notin OtherHavers(t, r) \cup OtherOwners(t, r)
                                    \cup OtherChangers(t)
BY ForkAssumption DEF IInv, Types, Families, Family, OneParent, Running, Linked,
  OtherHavers, OtherOwners, OtherChangers, Takes, Owns, Copying, New

\* All of these are finite sets of tasks.
LEMMA Finite ==
  ASSUME IInv, NEW r
  PROVE  /\ Havers(r) \subseteq Task /\ IsFiniteSet(Havers(r))
         /\ Owners(r) \subseteq Havers(r) /\ IsFiniteSet(Owners(r))
         /\ Changers \subseteq Task /\ IsFiniteSet(Changers)
         /\ Linked \subseteq Task /\ IsFiniteSet(Linked)
         /\ \A o : Users(r, o) \subseteq Owners(r) /\ IsFiniteSet(Users(r, o))
<1>1. Havers(r) \subseteq Task /\ Changers \subseteq Task /\ Linked \subseteq Task
  BY ForkAssumption DEF IInv, Types, Families, Family, Havers, Changers, Linked, Takes
<1>2. Owners(r) \subseteq Havers(r) /\ \A o : Users(r, o) \subseteq Owners(r)
  BY DEF Owners, Havers, Owns, Users
<1>3. IsFiniteSet(Havers(r)) /\ IsFiniteSet(Changers) /\ IsFiniteSet(Linked)
  BY <1>1, ForkAssumption, FS_Subset
<1>4. IsFiniteSet(Owners(r))
  BY <1>2, <1>3, FS_Subset
<1> QED
  BY <1>1, <1>2, <1>3, <1>4, FS_Subset

\* The family of p stays as it is, if neither p nor its child changes.
LEMMA FamilyStays ==
  ASSUME IInv, NEW p \in Task, UNCHANGED <<pc[p], child[p]>>,
         child[p] # NoTask =>
           /\ UNCHANGED st[child[p]]
           /\ pc'[child[p]] = <<"new">> <=> New(child[p])
           /\ child[p] \in usage => child[p] \in usage'
  PROVE  Family(p)'
<1>1. Family(p) /\ (child[p] # NoTask <=> child'[p] # NoTask)
  BY DEF IInv, Families
<1>2. /\ Copying(p)' <=> Copying(p)
      /\ Wakes(p)' <=> Wakes(p)
      /\ InVfork(p)' <=> InVfork(p)
  BY DEF Copying, Wakes, InVfork
<1>3. New(child[p])' <=> pc'[child[p]] = <<"new">>
  BY DEF New
<1> QED
  BY <1>1, <1>2, <1>3 DEF Family

\* The objects stay as they are, and with them who is counted in them.
LEMMA ObjectsStay ==
  ASSUME IInv, UNCHANGED refs,
         \A r \in Resource : Owners(r)' = Owners(r),
         \A r \in Resource : \A u \in Owners(r) : ptr'[u][r] = ptr[u][r],
         \A p \in Task : Owns(p, "signal")' => Owns(p, "signal") /\ child'[p] = child[p]
  PROVE  References' /\ OwnSignal'
<1>1. \A r \in Resource : \A o \in Object : Users(r, o)' = Users(r, o)
  BY DEF Users
<1>2. References'
  BY <1>1 DEF IInv, References
<1>3. OwnSignal'
  <2> SUFFICES ASSUME NEW t \in Task, NEW v \in Owners("signal")', Owns(t, "signal")',
                      v # child'[t]
               PROVE  ptr'[child'[t]].signal # ptr'[v].signal
    BY DEF OwnSignal
  <2>1. "signal" \in Resource /\ child[t] \in Owners("signal") /\ v \in Owners("signal")
    BY DEF Owners, Resource
  <2> QED
    BY <2>1 DEF IInv, OwnSignal
<1> QED
  BY <1>2, <1>3

\* A step that is not one of p in copy_process().
Quiet(p) ==
  \/ pc'[p] = pc[p] /\ child'[p] = child[p] /\ flags'[p] = flags[p]
  \/ ~Copying(p) /\ ~Copying(p)'

\* Such a step of all tasks, that links nobody.
LEMMA QuietHavers ==
  ASSUME \A p \in Task : Quiet(p),
         Linked' = Linked
  PROVE  /\ \A r : Havers(r)' = Havers(r) /\ Owners(r)' = Owners(r)
         /\ Changers' = Changers
         /\ \A p \in Task : Owns(p, "signal")' => Owns(p, "signal") /\ child'[p] = child[p]
<1>1. \A p \in Task : \A r : /\ Takes(p, r)' <=> Takes(p, r)
                             /\ Owns(p, r)' <=> Owns(p, r)
                             /\ Takes(p, r) => /\ child'[p] = child[p]
                                               /\ flags'[p] = flags[p]
  BY DEF Quiet, Takes, Owns, Copying
<1>2. \A r : Havers(r)' = Havers(r)
  BY <1>1 DEF Havers
<1>3. \A r : Owners(r)' = Owners(r)
  BY <1>1 DEF Owners, Owns
<1>4. Changers' = Changers
  BY <1>1 DEF Changers
<1> QED
  BY <1>1, <1>2, <1>3, <1>4 DEF Owns

\* Such a step that leaves objects and counters alone keeps what is said of them.
LEMMA QuietObjects ==
  ASSUME IInv, UNCHANGED <<objectVars, counts>>, Linked' = Linked,
         \A p \in Task : Quiet(p)
  PROVE  Pointers' /\ OwnSignal' /\ References' /\ Counters'
<1>1. Pointers'
  <2>1. \A p \in Task :
          Copying(p)' => Copying(p) /\ child'[p] = child[p] /\ flags'[p] = flags[p]
    BY DEF Quiet, Copying
  <2> QED
    BY <2>1 DEF IInv, Pointers, objectVars
<1>2. Counters'
  BY QuietHavers DEF IInv, Counters, objectVars
<1> QED
  BY <1>1, <1>2, QuietHavers, ObjectsStay DEF objectVars

-------------------------------------------------------------------------------
(* A clone goes on.                                                        *)

\* A step of copy_process() from s to n: only the new task may change.
Advance(t, s, n) ==
  /\ At(t, "copy", s) /\ Goto(t, <<"copy", n>>)
  /\ \A u \in Linked : ptr'[u] = ptr[u]
  /\ \/ UNCHANGED vforkDone /\ ("module" \in Taken(n) => "module" \in Taken(s))
     \/ vforkDone' = [vforkDone EXCEPT ![child[t]] = NoTask]
  /\ UNCHANGED <<st, child, flags, usage, completion, lender, signalVars, faulty>>

\* It changes nothing about families, signals, vforks.
LEMMA AdvanceFamilies ==
  ASSUME IInv, NEW t \in Task, NEW s \in Stops, NEW n \in Stops, Advance(t, s, n)
  PROVE  /\ pc' \in [Task -> Places] /\ Copying(t) /\ Copying(t)' /\ Others(t)
         /\ Families' /\ OneParent' /\ Running' /\ Completions' /\ Lent'
         /\ NoneSlipsOut' /\ SignalTypes' /\ NoFault'
<1> USE DEF Advance, signalVars
<1>1. pc[t] = <<"copy", s>> /\ pc' = [pc EXCEPT ![t] = <<"copy", n>>]
  BY DEF At, Goto
<1>2. pc' \in [Task -> Places]
  BY <1>1 DEF IInv, Types, Places
<1>3. \A p \in Task :
        /\ Copying(p)' <=> Copying(p)
        /\ New(p)' <=> New(p)
        /\ Wakes(p)' <=> Wakes(p)
        /\ Waits(p)' <=> Waits(p)
        /\ InVfork(p)' <=> InVfork(p)
        /\ Leaves(p)' <=> Leaves(p)
  BY <1>1 DEF IInv, Types, Copying, New, Wakes, Waits, InVfork, Leaves, Vfork, Leaving
<1>4. Copying(t) /\ Copying(t)' /\ Others(t)
  BY <1>1 DEF IInv, Types, Copying, Others
<1>5. Families'
  BY <1>3, ForkAssumption DEF IInv, Types, Families, Family
<1>6. OneParent'
  BY DEF IInv, OneParent
<1>7. Running'
  BY <1>3 DEF IInv, Running
<1>8. Lent'
  BY <1>3 DEF IInv, Types, Lent
<1>9. NoneSlipsOut'
  BY DEF IInv, NoneSlipsOut, Linked, Group
<1>10. Completions'
  <2>1. \A u \in Linked' : vforkDone'[u] = vforkDone[u]
    BY <1>4, ChildApart DEF IInv, Types, Linked
  <2>2. \A p \in Task : /\ Copying(p)' /\ "module" \in Taken(pc'[p][2])
                       => vforkDone'[child'[p]] = NoTask
    BY <1>1, <1>3, <1>4, ChildApart DEF IInv, Types, Completions, OneParent
  <2> QED
    BY <1>3, <2>1, <2>2 DEF IInv, Completions, Linked
<1>11. SignalTypes' /\ NoFault'
  BY DEF IInv, SignalTypes, NoFault
<1> QED
  BY <1>2, <1>4, <1>5, <1>6, <1>7, <1>8, <1>9, <1>10, <1>11

\* What is taken between s and n.
Gains(s, n) == Taken(n) \ Taken(s)

\* The child is then one of those who have it.
LEMMA AdvanceHavers ==
  ASSUME IInv, NEW t \in Task, NEW s \in Stops, NEW n \in Stops, Advance(t, s, n),
         Taken(s) \subseteq Taken(n)
  PROVE  /\ Linked' = Linked
         /\ \A r : IF r \in Gains(s, n)
                  THEN /\ Havers(r)' = Havers(r) \cup {child[t]}
                       /\ child[t] \notin Havers(r)
                  ELSE Havers(r)' = Havers(r)
         /\ \A r : IF r \in Gains(s, n) /\ ~(r = "signal" /\ "THREAD" \in flags[t])
                  THEN /\ Owners(r)' = Owners(r) \cup {child[t]}
                       /\ child[t] \notin Owners(r)
                  ELSE Owners(r)' = Owners(r)
         /\ IF "module" \in Gains(s, n) /\ "THREAD" \in flags[t]
            THEN Changers' = Changers \cup {child[t]} /\ child[t] \notin Changers
            ELSE Changers' = Changers
<1>1. Others(t) /\ Copying(t) /\ Copying(t)'
  BY AdvanceFamilies
<1>2. /\ pc[t][2] = s /\ pc'[t][2] = n /\ Linked' = Linked
      /\ child'[t] = child[t] /\ flags'[t] = flags[t]
  BY DEF Advance, At, Goto, Linked, IInv, Types
<1>3. \A r : /\ Takes(t, r) <=> r \in Taken(s)
             /\ Takes(t, r)' <=> r \in Taken(n)
  BY <1>1, <1>2 DEF Takes
<1>4. ASSUME NEW r
      PROVE  IF r \in Gains(s, n)
             THEN /\ Havers(r)' = Havers(r) \cup {child[t]}
                  /\ child[t] \notin Havers(r)
             ELSE Havers(r)' = Havers(r)
  <2>1. Havers(r) = Linked \cup OtherHavers(t, r)
                      \cup (IF r \in Taken(s) THEN {child[t]} ELSE {})
    BY <1>3, Split
  <2>2. Havers(r)' = Linked \cup OtherHavers(t, r)
                       \cup (IF r \in Taken(n) THEN {child[t]} ELSE {})
    BY <1>1, <1>2, <1>3, SplitNext
  <2> QED
    BY <1>1, <2>1, <2>2, ChildApart DEF Gains
<1>5. ASSUME NEW r
      PROVE  IF r \in Gains(s, n) /\ ~(r = "signal" /\ "THREAD" \in flags[t])
             THEN /\ Owners(r)' = Owners(r) \cup {child[t]}
                  /\ child[t] \notin Owners(r)
             ELSE Owners(r)' = Owners(r)
  <2>1. /\ Owns(t, r) <=> r \in Taken(s) /\ ~(r = "signal" /\ "THREAD" \in flags[t])
        /\ Owns(t, r)' <=> r \in Taken(n) /\ ~(r = "signal" /\ "THREAD" \in flags[t])
    BY <1>2, <1>3 DEF Owns
  <2>2. Owners(r) = Linked \cup OtherOwners(t, r)
                      \cup (IF Owns(t, r) THEN {child[t]} ELSE {})
    BY Split
  <2>3. Owners(r)' = Linked \cup OtherOwners(t, r)
                       \cup (IF Owns(t, r)' THEN {child[t]} ELSE {})
    BY <1>1, <1>2, SplitNext
  <2> QED
    BY <1>1, <2>1, <2>2, <2>3, ChildApart DEF Gains
<1>6. IF "module" \in Gains(s, n) /\ "THREAD" \in flags[t]
      THEN Changers' = Changers \cup {child[t]} /\ child[t] \notin Changers
      ELSE Changers' = Changers
  <2>1. Changers = OtherChangers(t)
                     \cup (IF "module" \in Taken(s) /\ "THREAD" \in flags[t]
                           THEN {child[t]} ELSE {})
    BY <1>3, Split
  <2>2. Changers' = OtherChangers(t)
                      \cup (IF "module" \in Taken(n) /\ "THREAD" \in flags[t]
                            THEN {child[t]} ELSE {})
    BY <1>1, <1>2, <1>3, SplitNext
  <2> QED
    BY <1>1, <2>1, <2>2, ChildApart DEF Gains
<1> QED
  BY <1>2, <1>4, <1>5, <1>6

\* A step that takes no reference: nothing shared, or the signal_struct of a thread.
LEMMA AdvanceObjects ==
  ASSUME IInv, NEW t \in Task, NEW s \in Stops, NEW n \in Stops, Advance(t, s, n),
         UNCHANGED <<ptr, refs>>, Taken(s) \subseteq Taken(n),
         \A r \in Gains(s, n) \cap Resource : r = "signal" /\ "THREAD" \in flags[t]
  PROVE  Pointers' /\ References' /\ OwnSignal'
<1>1. /\ Others(t) /\ Copying(t) /\ Copying(t)'
      /\ pc[t] = <<"copy", s>> /\ pc'[t] = <<"copy", n>>
  BY AdvanceFamilies DEF Advance, At, Goto, IInv, Types
<1>2. Pointers'
  <2>1. \A p \in Task : Copying(p)' => Copying(p)
    BY <1>1 DEF Others, Copying
  <2> QED
    BY <2>1 DEF Advance, IInv, Pointers, Linked
<1>3. \A r \in Resource : Owners(r)' = Owners(r)
  BY AdvanceHavers
<1>4. \A p \in Task : Owns(p, "signal")' => Owns(p, "signal") /\ child'[p] = child[p]
  BY <1>1 DEF Advance, Others, Owns, Takes, Copying, Resource, Gains
<1> QED
  BY <1>2, <1>3, <1>4, ObjectsStay

\* The process is counted.
LEMMA CopyCredsIInv == ASSUME IInv, NEW t \in Task, CopyCreds(t) PROVE IInv'
<1> USE DEF CopyCreds
<1>1. Advance(t, "creds", "module") /\ {"creds", "module"} \subseteq Stops
  BY NextIs, TakenIs DEF Advance, Passes, vforkVars, signalVars, Stops
<1>2. Types'
  BY <1>1, AdvanceFamilies DEF IInv, Types, Count, Counts, vforkVars, signalVars
<1>3. Gains("creds", "module") = {"creds"} /\ Taken("creds") \subseteq Taken("module")
  BY TakenIs DEF Gains
<1>4. Pointers' /\ References' /\ OwnSignal'
  BY <1>1, <1>3, AdvanceObjects DEF Resource
<1>5. Counters'
  <2>1. /\ Havers("creds")' = Havers("creds") \cup {child[t]}
        /\ child[t] \notin Havers("creds")
        /\ Havers("module")' = Havers("module") /\ Havers("pid")' = Havers("pid")
        /\ Changers' = Changers /\ Linked' = Linked
    BY <1>1, <1>3, AdvanceHavers
  <2>2. Cardinality(Havers("creds")') = Cardinality(Havers("creds")) + 1
    BY <2>1, Finite, FS_AddElement
  <2> QED
    BY <2>1, <2>2 DEF IInv, Types, Counters, Count, Counts
<1> QED
  BY <1>1, <1>2, <1>4, <1>5, AdvanceFamilies DEF IInv

\* The module is counted, and a thread changes the group.
LEMMA CopyModuleIInv == ASSUME IInv, NEW t \in Task, CopyModule(t) PROVE IInv'
<1> USE DEF CopyModule
<1>1. Advance(t, "module", "policy") /\ {"module", "policy"} \subseteq Stops
  BY NextIs, TakenIs DEF Advance, Passes, objectVars, vforkVars, signalVars, Stops
<1>2. Types'
  <2>1. vforkDone' \in [Task -> Task \cup {NoTask}]
    BY DEF IInv, Types
  <2>2. counts' \in Counts
    <3>1. /\ counts \in Counts /\ counts.module + 1 \in Int
          /\ counts.changing + (IF "THREAD" \in flags[t] THEN 1 ELSE 0) \in Int
      BY DEF IInv, Types, Counts
    <3> QED
      BY <3>1 DEF Counts
  <2> QED
    BY <1>1, <2>1, <2>2, AdvanceFamilies DEF IInv, Types, objectVars, signalVars
<1>3. Gains("module", "policy") = {"module"} /\ Taken("module") \subseteq Taken("policy")
  BY TakenIs DEF Gains
<1>4. Pointers' /\ References' /\ OwnSignal'
  BY <1>1, <1>3, AdvanceObjects DEF Resource, objectVars
<1>5. Counters'
  <2>1. /\ Havers("module")' = Havers("module") \cup {child[t]}
        /\ child[t] \notin Havers("module")
        /\ Havers("creds")' = Havers("creds") /\ Havers("pid")' = Havers("pid")
        /\ IF "THREAD" \in flags[t]
           THEN Changers' = Changers \cup {child[t]} /\ child[t] \notin Changers
           ELSE Changers' = Changers
        /\ Linked' = Linked
    BY <1>1, <1>3, AdvanceHavers
  <2>2. Cardinality(Havers("module")') = Cardinality(Havers("module")) + 1
    BY <2>1, Finite, FS_AddElement
  <2>3. IsFiniteSet(Changers)
    BY Finite
  <2>4. Cardinality(Changers')
          = Cardinality(Changers) + IF "THREAD" \in flags[t] THEN 1 ELSE 0
    <3>1. CASE "THREAD" \in flags[t]
      BY <2>1, <2>3, <3>1, FS_AddElement
    <3>2. CASE "THREAD" \notin flags[t]
      BY <2>1, <2>3, <3>2, FS_CardinalityType
    <3> QED
      BY <3>1, <3>2
  <2> QED
    BY <2>1, <2>2, <2>4 DEF IInv, Types, Counters, objectVars, Counts
<1> QED
  BY <1>1, <1>2, <1>4, <1>5, AdvanceFamilies DEF IInv

\* Nobody sees what is taken.
LEMMA CopyPrivateIInv == ASSUME IInv, NEW t \in Task, CopyPrivate(t) PROVE IInv'
<1>1. PICK s \in Stops, n \in Stops :
        /\ Advance(t, s, n) /\ Taken(s) \subseteq Taken(n)
        /\ Gains(s, n) \cap ({"creds", "module", "pid"} \cup Resource) = {}
  <2>1. CASE At(t, "copy", "policy") /\ Passes(t, "semundo")
    <3>1. Advance(t, "policy", "files") /\ {"policy", "files"} \subseteq Stops
      BY <2>1, NextIs, TakenIs
        DEF CopyPrivate, Advance, Passes, objectVars, vforkVars, signalVars, Stops
    <3>2. /\ Taken("policy") \subseteq Taken("files")
          /\ Gains("policy", "files") \cap ({"creds", "module", "pid"} \cup Resource) = {}
      BY TakenIs DEF Gains, Resource
    <3> QED
      BY <3>1, <3>2
  <2>2. CASE At(t, "copy", "namespaces") /\ Passes(t, "io")
    <3>1. Advance(t, "namespaces", "pid") /\ {"namespaces", "pid"} \subseteq Stops
      BY <2>2, NextIs, TakenIs
        DEF CopyPrivate, Advance, Passes, objectVars, vforkVars, signalVars, Stops
    <3>2. /\ Taken("namespaces") \subseteq Taken("pid")
          /\ Gains("namespaces", "pid") \cap ({"creds", "module", "pid"} \cup Resource) = {}
      BY TakenIs DEF Gains, Resource
    <3> QED
      BY <3>1, <3>2
  <2> QED
    BY <2>1, <2>2 DEF CopyPrivate
<1>2. Types'
  BY <1>1, AdvanceFamilies DEF CopyPrivate, IInv, Types, objectVars, vforkVars, signalVars
<1>3. Pointers' /\ References' /\ OwnSignal'
  BY <1>1, AdvanceObjects DEF CopyPrivate, objectVars
<1>4. Counters'
  <2>1. /\ Havers("creds")' = Havers("creds") /\ Havers("module")' = Havers("module")
        /\ Havers("pid")' = Havers("pid") /\ Changers' = Changers /\ Linked' = Linked
    BY <1>1, AdvanceHavers
  <2> QED
    BY <2>1 DEF CopyPrivate, IInv, Counters, objectVars
<1> QED
  BY <1>1, <1>2, <1>3, <1>4, AdvanceFamilies DEF IInv

\* The struct pid is the child's.
LEMMA AllocPidIInv == ASSUME IInv, NEW t \in Task, AllocPid(t) PROVE IInv'
<1> USE DEF AllocPid
<1>1. Advance(t, "pid", "link") /\ {"pid", "link"} \subseteq Stops
  BY NextIs, TakenIs DEF Advance, Passes, vforkVars, signalVars, Stops
<1>2. Gains("pid", "link") = {"pid"} /\ Taken("pid") \subseteq Taken("link")
  BY TakenIs DEF Gains
<1>3. Types'
  BY <1>1, AdvanceFamilies, ChildApart DEF IInv, Types, vforkVars, signalVars
<1>4. Pointers' /\ References' /\ OwnSignal'
  BY <1>1, <1>2, AdvanceObjects DEF Resource
<1>5. Counters'
  <2>1. /\ Havers("creds")' = Havers("creds") /\ Havers("module")' = Havers("module")
        /\ Havers("pid")' = Havers("pid") \cup {child[t]}
        /\ Changers' = Changers /\ Linked' = Linked
    BY <1>1, <1>2, AdvanceHavers
  <2> QED
    BY <2>1 DEF IInv, Counters
<1> QED
  BY <1>1, <1>3, <1>4, <1>5, AdvanceFamilies DEF IInv

-------------------------------------------------------------------------------
(* References.                                                             *)

\* tally[o] counts the tasks of S that have object o, and not all tasks are in S.
Tallies(tally, users, S) ==
  /\ S \subseteq Task /\ S # Task
  /\ \A o \in Object : users[o] \subseteq S /\ tally[o] = Cardinality(users[o])
  /\ \A o, x \in Object : o # x => users[o] \cap users[x] = {}

\* As long as a task has no object of a kind, there is one to be had.
LEMMA FreeIs ==
  ASSUME NEW S, NEW users, NEW count, NEW r, Tallies(count[r], users, S), NEW t \in Task
  PROVE  /\ FreeObject(count, r, t) \in Object
         /\ count[r][FreeObject(count, r, t)] = 0
         /\ users[FreeObject(count, r, t)] = {}
<1> USE DEF Tallies
<1>1. \A o \in Object : IsFiniteSet(users[o])
  <2>1. \A o \in Object : users[o] \in SUBSET Task
    OBVIOUS
  <2> QED
    BY <2>1, ForkAssumption, FS_Subset
<1>2. \A o \in Object : count[r][o] = 0 <=> users[o] = {}
  BY <1>1, FS_EmptySet
<1>3. \E o \in Object : users[o] = {}
  <2> SUFFICES ASSUME \A o \in Object : users[o] # {} PROVE FALSE
    OBVIOUS
  <2> DEFINE g == [o \in Object |-> CHOOSE u \in S : u \in users[o]]
  <2>1. \A o \in Object : g[o] \in S /\ g[o] \in users[o]
    OBVIOUS
  <2>2. g \in [Task -> S]
    BY <2>1 DEF Object
  <2>3. IsFiniteSet(S) /\ IsFiniteSet(Task) /\ Cardinality(S) < Cardinality(Task)
    BY ForkAssumption, FS_Subset, FS_CardinalityType
  <2> HIDE DEF g
  <2>4. \E x, y \in Task : x # y /\ g[x] = g[y]
    BY <2>2, <2>3, FS_PigeonHole
  <2> QED
    BY <2>1, <2>4 DEF Object
<1> QED
  BY <1>2, <1>3 DEF FreeObject, Object

\* A reference to o is taken for the child: nobody had it, if it is a signal_struct.
LEMMA AdvanceTakes ==
  ASSUME IInv, NEW t \in Task, NEW s \in Stops, NEW n \in Stops, Advance(t, s, n),
         NEW r \in Resource, Gains(s, n) = {r}, Taken(s) \subseteq Taken(n),
         NEW o \in Object, r = "signal" => "THREAD" \notin flags[t] /\ Users(r, o) = {},
         ptr' = [ptr EXCEPT ![child[t]][r] = o],
         refs' = [refs EXCEPT ![r][o] = @ + 1]
  PROVE  /\ ptr' \in [Task -> [Resource -> Object \cup {NoObject}]]
         /\ refs' \in [Resource -> [Object -> Int]]
         /\ Pointers' /\ References' /\ OwnSignal'
<1> DEFINE u == child[t]
<1>1. /\ Copying(t) /\ Copying(t)' /\ Others(t)
      /\ u \in Task /\ u \notin Linked /\ Linked' = Linked
      /\ child' = child /\ flags' = flags
      /\ \A p \in Task \ {t} : child[p] # u
  BY AdvanceFamilies, ChildApart DEF Advance, Linked
<1>2. /\ ptr' \in [Task -> [Resource -> Object \cup {NoObject}]]
      /\ refs' \in [Resource -> [Object -> Int]]
  BY <1>1 DEF IInv, Types
<1>3. /\ \A v \in Task : \A q \in Resource :
           ptr'[v][q] = IF v = u /\ q = r THEN o ELSE ptr[v][q]
      /\ \A q \in Resource : \A x \in Object :
           refs'[q][x] = IF q = r /\ x = o THEN refs[q][x] + 1 ELSE refs[q][x]
  BY <1>1 DEF IInv, Types
<1>4. Pointers'
  <2>1. \A v \in Linked' : ptr'[v] \in [Resource -> Object]
    BY <1>1 DEF Advance, IInv, Pointers
  <2>2. \A p \in Task : Copying(p)' => Copying(p)
    BY <1>1 DEF Others, Copying
  <2>3. ptr'[u] \in [Resource -> Object]
    BY <1>1 DEF IInv, Types, Pointers
  <2>4. \A p \in Task : Copying(p)' => ptr'[child'[p]] \in [Resource -> Object]
    BY <1>1, <1>3, <2>2, <2>3 DEF IInv, Types, Pointers
  <2>5. \A p \in Task : Copying(p)' /\ "THREAD" \in flags'[p] =>
           ptr'[child'[p]].signal = ptr'[p].signal
    <3> SUFFICES ASSUME NEW p \in Task, Copying(p)', "THREAD" \in flags'[p]
                 PROVE  ptr'[child'[p]].signal = ptr'[p].signal
      OBVIOUS
    <3>1. p \in Linked /\ child[p] \in Task /\ ptr[child[p]].signal = ptr[p].signal
      BY <1>1, <2>2, ForkAssumption
        DEF IInv, Types, Families, Family, Running, Pointers, Linked, Copying, New
    <3>2. p # u /\ "signal" \in Resource /\ (p = t => r # "signal")
      BY <1>1, <3>1 DEF Resource
    <3> QED
      BY <1>1, <1>3, <3>1, <3>2
  <2> QED
    BY <2>1, <2>4, <2>5 DEF Pointers
<1>5. /\ Owners(r)' = Owners(r) \cup {u} /\ u \notin Owners(r)
      /\ \A q \in Resource \ {r} : Owners(q)' = Owners(q)
  BY AdvanceHavers
<1>6. \A q \in Resource : \A x \in Object :
         Users(q, x)' = IF q = r /\ x = o THEN Users(q, x) \cup {u} ELSE Users(q, x)
  <2> SUFFICES ASSUME NEW q \in Resource, NEW x \in Object
               PROVE  Users(q, x)' = IF q = r /\ x = o THEN Users(q, x) \cup {u}
                                     ELSE Users(q, x)
    OBVIOUS
  <2>1. Owners(q) \subseteq Task
    BY Finite
  <2>2. CASE q = r
    BY <1>1, <1>3, <1>5, <2>1, <2>2 DEF Users
  <2>3. CASE q # r
    BY <1>1, <1>3, <1>5, <2>1, <2>3 DEF Users
  <2> QED
    BY <2>2, <2>3
<1>7. References'
  <2>1. IsFiniteSet(Users(r, o)) /\ u \notin Users(r, o)
    BY <1>5, Finite DEF Users
  <2>2. Cardinality(Users(r, o) \cup {u}) = Cardinality(Users(r, o)) + 1
    BY <2>1, FS_AddElement
  <2> SUFFICES ASSUME NEW q \in Resource, NEW x \in Object
               PROVE  refs'[q][x] = Cardinality(Users(q, x)')
    BY DEF References
  <2>3. refs[q][x] = Cardinality(Users(q, x))
    BY DEF IInv, References
  <2>4. CASE q = r /\ x = o
    BY <1>3, <1>6, <2>2, <2>3, <2>4
  <2>5. CASE ~(q = r /\ x = o)
    BY <1>3, <1>6, <2>3, <2>5
  <2> QED
    BY <2>4, <2>5
<1>8. OwnSignal'
  <2> SUFFICES ASSUME NEW p \in Task, NEW v \in Owners("signal")', Owns(p, "signal")',
                      v # child[p]
               PROVE  ptr'[child[p]].signal # ptr'[v].signal
    BY <1>1 DEF OwnSignal
  <2>1. /\ "signal" \in Resource /\ Owners("signal") \subseteq Task
        /\ p # t => Owns(p, "signal")
    BY <1>1, Finite DEF Resource, Others, Owns, Takes, Copying
  <2>2. CASE r # "signal"
    <3>1. Owns(p, "signal")
      BY <1>1, <2>1, <2>2 DEF Advance, At, Goto, Owns, Takes, Gains, IInv, Types
    <3>2. child[p] \in Owners("signal") /\ v \in Owners("signal")
      BY <1>5, <2>1, <2>2, <3>1 DEF Owners
    <3> QED
      BY <1>3, <2>1, <2>2, <3>1, <3>2 DEF IInv, OwnSignal
  <2>3. CASE r = "signal"
    <3>1. \A w \in Owners("signal") : ptr'[w].signal = ptr[w].signal /\ ptr[w].signal # o
      BY <1>3, <1>5, <2>1, <2>3 DEF Users
    <3>2. ptr'[u].signal = o
      BY <1>1, <1>3, <2>3
    <3>3. CASE p = t
      BY <1>5, <2>3, <3>1, <3>2, <3>3
    <3>4. CASE p # t
      <4>1. child[p] \in Owners("signal") /\ Owns(p, "signal")
        BY <2>1, <3>4 DEF Owners
      <4>2. v \in Owners("signal") \/ v = u
        BY <1>5, <2>3
      <4> QED
        BY <3>1, <3>2, <4>1, <4>2 DEF IInv, OwnSignal
    <3> QED
      BY <3>3, <3>4
  <2> QED
    BY <2>2, <2>3
<1> QED
  BY <1>2, <1>4, <1>7, <1>8

\* A reference to an object of the caller's, or an object of the task's own.
LEMMA CopySharedIInv == ASSUME IInv, NEW t \in Task, CopyShared(t) PROVE IInv'
<1> USE DEF CopyShared
<1>1. PICK r \in Resource :
        /\ At(t, "copy", r) /\ Passes(t, r)
        /\ IF Shares[r] \in flags[t]
           THEN /\ refs' = IF r = "signal" THEN refs
                           ELSE [refs EXCEPT ![r][ptr[child[t]][r]] = @ + 1]
                /\ UNCHANGED ptr
           ELSE /\ refs' = [refs EXCEPT ![r][FreeObject(refs, r, child[t])] = 1]
                /\ ptr' = [ptr EXCEPT ![child[t]][r] = FreeObject(refs, r, child[t])]
  OBVIOUS
<1>2. PICK n \in Stops :
        /\ r \in Stops /\ Goto(t, <<"copy", n>>)
        /\ Taken(r) \subseteq Taken(n) /\ Gains(r, n) = {r}
        /\ "module" \in Taken(r)
  BY <1>1, NextIs, TakenIs DEF Resource, Passes, Gains, Stops
<1>3. Copying(t) /\ pc[t][2] = r
  BY <1>1 DEF At, Copying
<1>4. /\ child[t] \in Task /\ child[t] \notin Linked
      /\ ptr[child[t]] \in [Resource -> Object] /\ ~Owns(t, r)
  BY <1>2, <1>3, ChildApart DEF IInv, Pointers, Owns, Takes, Gains
<1>5. Advance(t, r, n)
  <2>1. \A u \in Linked : ptr'[u] = ptr[u]
    BY <1>1, <1>4 DEF IInv, Types, Linked
  <2> QED
    BY <1>1, <1>2, <2>1 DEF Advance, vforkVars
<1>6. Linked' = Linked /\ counts' = counts /\ pids' = pids
      /\ Havers("creds")' = Havers("creds") /\ Havers("module")' = Havers("module")
      /\ Havers("pid")' = Havers("pid") /\ Changers' = Changers
  BY <1>2, <1>5, AdvanceHavers DEF Resource
<1>7. Counters'
  BY <1>6 DEF IInv, Counters
<1>8. /\ ptr' \in [Task -> [Resource -> Object \cup {NoObject}]]
      /\ refs' \in [Resource -> [Object -> Int]]
      /\ Pointers' /\ References' /\ OwnSignal'
  <2>1. CASE r = "signal" /\ Shares[r] \in flags[t]
    <3>1. UNCHANGED <<ptr, refs>> /\ "THREAD" \in flags[t]
      BY <1>1, <2>1 DEF Shares
    <3> QED
      BY <1>2, <1>5, <2>1, <3>1, AdvanceObjects DEF IInv, Types
  <2>2. CASE r # "signal" /\ Shares[r] \in flags[t]
    <3> DEFINE o == ptr[child[t]][r]
    <3>1. o \in Object /\ ptr' = [ptr EXCEPT ![child[t]][r] = o]
          /\ refs' = [refs EXCEPT ![r][o] = @ + 1]
      BY <1>1, <1>4, <2>2 DEF IInv, Types
    <3> QED
      BY <1>2, <1>5, <2>2, <3>1, AdvanceTakes
  <2>3. CASE Shares[r] \notin flags[t]
    <3> DEFINE o == FreeObject(refs, r, child[t])
    <3>1. Owners(r) \subseteq Task /\ Owners(r) # Task
      <4>1. child[t] \notin Owners(r)
        BY <1>3, <1>4, Split, ChildApart
      <4> QED
        BY <1>4, <4>1, Finite
    <3>2. o \in Object /\ refs[r][o] = 0 /\ Users(r, o) = {}
      <4> DEFINE users == [x \in Object |-> Users(r, x)]
      <4>1. Tallies(refs[r], users, Owners(r))
        BY <3>1 DEF IInv, References, Users, Tallies
      <4>2. o \in Object /\ refs[r][o] = 0 /\ users[o] = {}
        <5> HIDE DEF users
        <5> QED
          BY <1>4, <4>1, FreeIs
      <4> QED
        BY <4>2
    <3> HIDE DEF o
    <3>4. r = "signal" => "THREAD" \notin flags[t]
      BY <2>3 DEF Shares
    <3>5. /\ ptr' = [ptr EXCEPT ![child[t]][r] = o]
          /\ refs' = [refs EXCEPT ![r][o] = 1]
      BY <1>1, <2>3 DEF o
    <3>6. refs' = [refs EXCEPT ![r][o] = @ + 1]
      BY <3>2, <3>5 DEF IInv, Types
    <3> QED
      BY <1>2, <1>5, <3>2, <3>4, <3>5, <3>6, AdvanceTakes
  <2> QED
    BY <2>1, <2>2, <2>3
<1>9. Types'
  BY <1>2, <1>5, <1>6, <1>8, AdvanceFamilies DEF IInv, Types, vforkVars, signalVars
<1> QED
  BY <1>2, <1>5, <1>7, <1>8, <1>9, AdvanceFamilies DEF IInv

\* Nobody is linked while a signal is pending, and what is linked has all it took.
LEMMA LinkIInv == ASSUME IInv, NEW t \in Task, Link(t) PROVE IInv'
<1>0. PICK u \in Task : u = child[t]
  BY ChildApart DEF Link, At, Copying
<1> DEFINE thread == "THREAD" \in flags[t]
<1>1. /\ pc[t] = <<"copy", "link">> /\ ~pending[t]
      /\ st' = [st EXCEPT ![u] = "linked"] /\ pc' = [pc EXCEPT ![t] = <<"wake">>]
      /\ counts' = [counts EXCEPT !.threads = @ + 1,
                      !.changing = @ - (IF thread THEN 1 ELSE 0)]
      /\ refs' = IF thread THEN [refs EXCEPT !["signal"][ptr[u].signal] = @ + 1]
                 ELSE refs
      /\ UNCHANGED <<child, flags, ptr, pids, vforkVars, signalVars, faulty>>
  BY <1>0 DEF Link, At, Goto
<1>2. Copying(t) /\ pc[t][2] = "link" /\ \A r : Takes(t, r) <=> r \in Taken("link")
  BY <1>1 DEF Copying, Takes
<1>3. /\ u = child[t] /\ u \notin Linked /\ u # t /\ t \in Linked
      /\ New(u) /\ st[u] = "embryo"
      /\ ~pending[u] /\ vforkDone[u] = NoTask
      /\ \A p \in Task \ {t} : child[p] # u
      /\ \A r : u \notin OtherHavers(t, r) \cup OtherOwners(t, r) \cup OtherChangers(t)
  BY <1>0, <1>2, ChildApart, TakenIs DEF IInv, Families, Family, Running, Completions
<1>4. /\ Resource \cup {"creds", "module", "pid"} \subseteq Taken("link")
      /\ "signal" \in Resource
  BY TakenIs DEF Resource
<1>5. Wakes(t)' /\ ~Copying(t)' /\ ~InVfork(t) /\ ~InVfork(t)' /\ ~Waits(t) /\ ~Wakes(t)
      /\ ~New(t)' /\ ~Leaves(t)'
  BY <1>1 DEF IInv, Types, Wakes, Waits, Copying, InVfork, New, Leaves, Vfork, Leaving
<1>6. \A p \in Task \ {t} :
        /\ pc'[p] = pc[p]
        /\ Copying(p)' <=> Copying(p)
        /\ New(p)' <=> New(p)
        /\ Wakes(p)' <=> Wakes(p)
        /\ Waits(p)' <=> Waits(p)
        /\ InVfork(p)' <=> InVfork(p)
        /\ Leaves(p)' <=> Leaves(p)
  BY <1>1 DEF IInv, Types, Copying, New, Wakes, Waits, InVfork, Leaves
<1>7. Others(t) /\ Linked' = Linked \cup {u}
      /\ \A r : Takes(t, r)' <=> FALSE
  BY <1>1, <1>3, <1>5, <1>6 DEF Others, IInv, Types, Linked, Takes
<1>8. ptr[u] \in [Resource -> Object] /\ (thread => ptr[u].signal = ptr[t].signal)
  BY <1>2, <1>3 DEF IInv, Pointers
<1>9. Types'
  <2>1. pc' \in [Task -> Places] /\ st' \in [Task -> {"none", "embryo", "linked", "dead"}]
    BY <1>1, <1>3 DEF IInv, Types, Places
  <2>2. refs' \in [Resource -> [Object -> Int]]
    <3>1. refs \in [Resource -> [Object -> Int]] /\ ptr[u].signal \in Object
      BY <1>4, <1>8 DEF IInv, Types
    <3> QED
      BY <1>1, <1>4, <3>1
  <2>3. counts' \in Counts
    <3>1. /\ counts \in Counts /\ counts.threads + 1 \in Int
          /\ counts.changing - (IF thread THEN 1 ELSE 0) \in Int
      BY DEF IInv, Types, Counts
    <3> QED
      BY <1>1, <3>1 DEF Counts
  <2> QED
    BY <1>1, <2>1, <2>2, <2>3 DEF IInv, Types, vforkVars, signalVars
<1>10. SignalTypes' /\ NoFault'
  BY <1>1 DEF IInv, SignalTypes, NoFault, signalVars
<1>11. Families' /\ OneParent'
  <2>1. OneParent'
    BY <1>1 DEF IInv, OneParent
  <2>2. ASSUME NEW p \in Task \ {t} PROVE Family(p)'
    <3>1. child'[p] = child[p] /\ child[p] # u /\ usage' = usage
      BY <1>1, <1>3 DEF vforkVars
    <3>2. child[p] # NoTask => child[p] \in Task /\ st'[child[p]] = st[child[p]]
      BY <1>1, <3>1 DEF IInv, Types
    <3>3. \A q \in Task : pc'[q] = <<"new">> <=> New(q)
      BY <1>2, <1>5, <1>6 DEF New, Copying
    <3> QED
      BY <1>6, <3>1, <3>2, <3>3, FamilyStays
  <2>3. /\ child'[t] = u /\ u # NoTask /\ st'[u] = "linked" /\ New(u)'
    BY <1>1, <1>3, <1>6, ForkAssumption DEF IInv, Types
  <2>4. Family(t)'
    BY <1>5, <2>3 DEF Family, New
  <2> QED
    BY <2>1, <2>2, <2>4 DEF Families
<1>12. Running'
  <2>1. \A v \in Task : st'[v] # "linked" => st[v] # "linked" /\ v # t /\ st'[v] = st[v]
    BY <1>1, <1>3 DEF IInv, Types, Linked
  <2>2. \A v \in Task : st'[v] # "linked" => New(v)' /\ ~pending'[v]
    BY <1>1, <1>6, <2>1 DEF IInv, Running, signalVars
  <2>3. \A p \in Task : InVfork(p) => InVfork(p)'
    BY <1>5, <1>6
  <2> QED
    BY <1>1, <2>1, <2>2, <2>3 DEF IInv, Running, vforkVars
<1>13. Pointers'
  <2>1. \A p \in Task : Copying(p)' => Copying(p)
    BY <1>5, <1>6
  <2> QED
    BY <1>1, <1>7, <1>8, <2>1 DEF IInv, Pointers
<1>14. /\ \A r \in Resource \cup {"creds", "module", "pid"} : Havers(r)' = Havers(r)
       /\ \A r \in Resource :
            IF r = "signal" /\ thread
            THEN Owners(r)' = Owners(r) \cup {u} /\ u \notin Owners(r)
            ELSE Owners(r)' = Owners(r)
       /\ Changers' = Changers \ {u} /\ (u \in Changers <=> thread)
  <2>1. ASSUME NEW r \in Resource \cup {"creds", "module", "pid"}
        PROVE  Havers(r)' = Havers(r)
    <3>1. Havers(r) = Linked \cup OtherHavers(t, r) \cup {u}
      BY <1>0, <1>2, <1>4, Split
    <3>2. Havers(r)' = Linked' \cup OtherHavers(t, r)
      BY <1>7, SplitNext
    <3> QED
      BY <1>7, <3>1, <3>2
  <2>2. ASSUME NEW r \in Resource
        PROVE  IF r = "signal" /\ thread
               THEN Owners(r)' = Owners(r) \cup {u} /\ u \notin Owners(r)
               ELSE Owners(r)' = Owners(r)
    <3>1. /\ Owns(t, r) <=> ~(r = "signal" /\ thread)
          /\ Owns(t, r)' <=> FALSE
      BY <1>2, <1>4, <1>7 DEF Owns
    <3>2. Owners(r) = Linked \cup OtherOwners(t, r) \cup (IF Owns(t, r) THEN {u} ELSE {})
      BY <1>0, Split
    <3>3. Owners(r)' = Linked' \cup OtherOwners(t, r)
      BY <1>7, <3>1, SplitNext
    <3> QED
      BY <1>3, <1>7, <3>1, <3>2, <3>3
  <2>3. Changers' = Changers \ {u} /\ (u \in Changers <=> thread)
    <3>1. Changers = OtherChangers(t) \cup (IF thread THEN {u} ELSE {})
      BY <1>0, <1>2, <1>4, Split
    <3>2. Changers' = OtherChangers(t)
      BY <1>7, SplitNext
    <3> QED
      BY <1>3, <3>1, <3>2
  <2> QED
    BY <2>1, <2>2, <2>3
<1>15. References'
  <2> SUFFICES ASSUME NEW r \in Resource, NEW o \in Object
               PROVE  refs'[r][o] = Cardinality(Users(r, o)')
    BY DEF References
  <2>1. refs[r][o] = Cardinality(Users(r, o)) /\ IsFiniteSet(Users(r, o))
    BY Finite DEF IInv, References
  <2>2. CASE r = "signal" /\ thread /\ o = ptr[u].signal
    <3>1. refs'[r][o] = refs[r][o] + 1
      BY <1>1, <1>8, <2>2 DEF IInv, Types
    <3>2. Users(r, o)' = Users(r, o) \cup {u} /\ u \notin Users(r, o)
      BY <1>1, <1>14, <2>2 DEF Users
    <3> QED
      BY <2>1, <3>1, <3>2, FS_AddElement
  <2>3. CASE ~(r = "signal" /\ thread /\ o = ptr[u].signal)
    <3>1. refs'[r][o] = refs[r][o]
      BY <1>1, <1>4, <1>8, <2>3 DEF IInv, Types
    <3>2. Users(r, o)' = Users(r, o)
      BY <1>1, <1>14, <2>3 DEF Users
    <3> QED
      BY <2>1, <3>1, <3>2
  <2> QED
    BY <2>2, <2>3
<1>16. OwnSignal'
  <2> SUFFICES ASSUME NEW p \in Task, NEW v \in Owners("signal")', Owns(p, "signal")',
                      v # child'[p]
               PROVE  ptr'[child'[p]].signal # ptr'[v].signal
    BY DEF OwnSignal
  <2>1. p # t /\ Owns(p, "signal") /\ UNCHANGED <<child, ptr>>
    BY <1>1, <1>5, <1>6 DEF Owns, Takes
  <2>2. CASE v \in Owners("signal")
    BY <2>1, <2>2 DEF IInv, OwnSignal
  <2>3. CASE v = u /\ thread
    <3>1. t \in Owners("signal") /\ child[p] # t
      BY <1>3, <2>1 DEF Owners, IInv, Families, Family, Owns, Takes, Linked
    <3> QED
      BY <1>8, <2>1, <2>3, <3>1 DEF IInv, OwnSignal
  <2> QED
    BY <1>4, <1>14, <2>2, <2>3
<1>17. Counters'
  <2>1. Cardinality(Linked') = Cardinality(Linked) + 1
    BY <1>3, <1>7, Finite, FS_AddElement
  <2>2. Cardinality(Changers') = Cardinality(Changers) - (IF thread THEN 1 ELSE 0)
    <3>1. IsFiniteSet(Changers)
      BY Finite
    <3>2. CASE thread
      BY <1>14, <3>1, <3>2, FS_RemoveElement, FS_CardinalityType
    <3>3. CASE ~thread
      <4>1. Changers' = Changers /\ Cardinality(Changers) \in Int
        BY <1>14, <3>1, <3>3, FS_CardinalityType
      <4> QED
        BY <3>3, <4>1
    <3> QED
      BY <3>2, <3>3
  <2> QED
    BY <1>1, <1>14, <2>1, <2>2 DEF IInv, Types, Counts, Counters
<1>18. Completions'
  <2>1. \A v \in Linked' : vforkDone'[v] # NoTask => v \in Linked
    BY <1>1, <1>3, <1>7 DEF vforkVars
  <2>2. \A p \in Task : Copying(p)' => Copying(p) /\ pc'[p] = pc[p]
    BY <1>5, <1>6
  <2>3. \A p \in Task : InVfork(p)' <=> InVfork(p)
    BY <1>5, <1>6
  <2> QED
    BY <1>1, <2>1, <2>2, <2>3 DEF IInv, Completions, vforkVars
<1>19. Lent'
  <2>1. \A v \in Task : New(v)' \/ Leaves(v)' => New(v) \/ Leaves(v)
    BY <1>5, <1>6
  <2>2. \A p \in Task : Waits(p) => Waits(p)'
    BY <1>5, <1>6
  <2> QED
    BY <1>1, <2>1, <2>2 DEF IInv, Types, Lent, vforkVars, signalVars
<1>20. NoneSlipsOut'
  <2>1. ~struck /\ pending' = pending /\ struck' = struck /\ ptr' = ptr
    BY <1>1, <1>3 DEF IInv, NoneSlipsOut, signalVars
  <2>2. ASSUME NEW v \in Linked, ptr[v].signal = ptr[u].signal
        PROVE  ~pending[v]
    <3>1. CASE thread
      BY <1>1, <1>3, <1>8, <2>2, <3>1 DEF IInv, NoneSlipsOut, Group
    <3>2. CASE ~thread
      <4>1. Owns(t, "signal") /\ v \in Owners("signal") /\ v # u
        BY <1>2, <1>3, <1>4, <3>2 DEF Owns, Owners
      <4> QED
        BY <1>0, <2>2, <4>1 DEF IInv, OwnSignal
    <3> QED
      BY <3>1, <3>2
  <2>3. ASSUME NEW v \in Linked', NEW w \in Linked', ptr[v].signal = ptr[w].signal
        PROVE  pending[v] <=> pending[w]
    <3>1. CASE v = u \/ w = u
      BY <1>3, <1>7, <2>2, <2>3, <3>1
    <3>2. CASE v \in Linked /\ w \in Linked
      BY <2>3, <3>2 DEF IInv, NoneSlipsOut, Group
    <3> QED
      BY <1>7, <3>1, <3>2
  <2> QED
    BY <2>1, <2>3 DEF NoneSlipsOut, Group
<1> QED
  BY <1>9, <1>10, <1>11, <1>12, <1>13, <1>15, <1>16, <1>17, <1>18, <1>19, <1>20 DEF IInv

\* A task that is not used is nobody's.
LEMMA UnusedApart ==
  ASSUME IInv, NEW u \in Unused
  PROVE  /\ u \in Task /\ st[u] = "none" /\ u \notin Linked /\ New(u) /\ u \notin usage
         /\ \A p \in Task : child[p] # u
         /\ \A r : u \notin Havers(r)
<1>1. u \in Task /\ st[u] = "none" /\ u \notin Linked /\ New(u)
  BY DEF Unused, Linked, IInv, Running
<1>2. \A p \in Task : child[p] # u
  BY <1>1, ForkAssumption DEF IInv, Families, Family
<1>3. u \notin usage
  BY <1>1, <1>2 DEF IInv, Running
<1> QED
  BY <1>1, <1>2, <1>3 DEF Havers

\* dup_task_struct(): a new task with the pointers of its parent, of which it holds none.
LEMMA ForkIInv == ASSUME IInv, NEW t \in Task, Fork(t) PROVE IInv'
<1>1. PICK u \in Unused, f \in CloneFlags :
        /\ pc[t] = <<"user">> /\ t \in Linked
        /\ st' = [st EXCEPT ![u] = "embryo"]
        /\ child' = [child EXCEPT ![t] = u]
        /\ flags' = [flags EXCEPT ![t] = f]
        /\ ptr' = [ptr EXCEPT ![u] = ptr[t]]
        /\ vforkDone' = [vforkDone EXCEPT ![u] = vforkDone[t]]
        /\ pc' = [pc EXCEPT ![t] = <<"copy", "creds">>]
        /\ UNCHANGED <<refs, pids, counts, usage, completion, lender, signalVars, faulty>>
  BY DEF Fork, InUser, Goto
<1>2. /\ u \in Task /\ u # t /\ u # NoTask /\ u \notin Linked /\ New(u) /\ u \notin usage
      /\ \A p \in Task : child[p] # u
      /\ \A r : u \notin Havers(r)
  BY <1>1, UnusedApart, ForkAssumption
<1>3. /\ Copying(t)' /\ ~Wakes(t)' /\ ~Waits(t)' /\ ~InVfork(t)' /\ ~New(t)' /\ ~Leaves(t)'
      /\ ~Copying(t) /\ ~Wakes(t) /\ ~Waits(t) /\ ~InVfork(t) /\ ~New(t) /\ ~Leaves(t)
  BY <1>1 DEF IInv, Types, Wakes, Waits, Copying, InVfork, New, Leaves, Vfork, Leaving
<1>4. \A p \in Task \ {t} :
        /\ UNCHANGED <<pc[p], child[p], flags[p]>>
        /\ Copying(p)' <=> Copying(p)
        /\ New(p)' <=> New(p)
        /\ Wakes(p)' <=> Wakes(p)
        /\ Waits(p)' <=> Waits(p)
        /\ InVfork(p)' <=> InVfork(p)
        /\ Leaves(p)' <=> Leaves(p)
  BY <1>1 DEF IInv, Types, Copying, New, Wakes, Waits, InVfork, Leaves
<1>5. /\ child'[t] = u /\ flags'[t] = f /\ st'[u] = "embryo" /\ ptr'[u] = ptr[t]
      /\ \A v \in Task \ {u} : UNCHANGED <<st[v], ptr[v], vforkDone[v]>>
  BY <1>1, <1>2 DEF IInv, Types
<1>6. Others(t) /\ Linked' = Linked
  BY <1>1, <1>2, <1>4 DEF Others, IInv, Types, Linked
<1>7. \A r : ~Takes(t, r) /\ ~Takes(t, r)'
  <2>1. pc'[t][2] = "creds"
    BY <1>1 DEF IInv, Types
  <2> QED
    BY <1>3, <2>1, TakenIs DEF Takes
<1>8. /\ \A r : Havers(r)' = Havers(r)
      /\ \A r : Owners(r)' = Owners(r)
      /\ Changers' = Changers
  <2>1. ASSUME NEW r PROVE Havers(r)' = Havers(r)
    <3>1. Havers(r) = Linked \cup OtherHavers(t, r) \cup {}
      BY <1>7, Split
    <3>2. Havers(r)' = Linked' \cup OtherHavers(t, r) \cup {}
      BY <1>6, <1>7, SplitNext
    <3> QED
      BY <1>6, <3>1, <3>2
  <2>2. ASSUME NEW r PROVE Owners(r)' = Owners(r)
    <3>1. Owners(r) = Linked \cup OtherOwners(t, r) \cup {}
      BY <1>7, Split DEF Owns
    <3>2. Owns(t, r)' <=> FALSE
      BY <1>7 DEF Owns
    <3>3. Owners(r)' = Linked' \cup OtherOwners(t, r) \cup {}
      BY <1>6, <3>2, SplitNext
    <3> QED
      BY <1>6, <3>1, <3>3
  <2>3. Changers' = Changers
    BY <1>6, <1>7, Split, SplitNext
  <2> QED
    BY <2>1, <2>2, <2>3
<1>9. Types'
  <2>1. /\ pc' \in [Task -> Places] /\ f \in SUBSET Flag
        /\ st' \in [Task -> {"none", "embryo", "linked", "dead"}]
    BY <1>1, <1>2, ForkAssumption DEF IInv, Types, Places, Stops
  <2>2. /\ child' \in [Task -> Task \cup {NoTask}] /\ flags' \in [Task -> SUBSET Flag]
        /\ vforkDone' \in [Task -> Task \cup {NoTask}]
        /\ ptr' \in [Task -> [Resource -> Object \cup {NoObject}]]
    BY <1>1, <1>2, <2>1 DEF IInv, Types
  <2> QED
    BY <1>1, <2>1, <2>2 DEF IInv, Types, signalVars
<1>10. SignalTypes' /\ NoFault'
  BY <1>1 DEF IInv, SignalTypes, NoFault, signalVars
<1>11. Families' /\ OneParent'
  <2>1. OneParent'
    BY <1>1, <1>2, <1>4, <1>5 DEF IInv, OneParent
  <2>2. ASSUME NEW p \in Task \ {t} PROVE Family(p)'
    <3>1. \A q \in Task : pc'[q] = <<"new">> <=> New(q)
      BY <1>3, <1>4 DEF New
    <3>2. child[p] # NoTask => child[p] \in Task \ {u}
      BY <1>2 DEF IInv, Types
    <3> QED
      BY <1>1, <1>4, <1>5, <3>1, <3>2, FamilyStays
  <2>3. Family(t)'
    BY <1>2, <1>3, <1>5 DEF Family
  <2> QED
    BY <2>1, <2>2, <2>3 DEF Families
<1>12. Running'
  <2>1. \A v \in Task : st'[v] # "linked" => v # t /\ New(v) /\ New(v)' /\ ~pending[v]
    BY <1>1, <1>2, <1>4, <1>5 DEF IInv, Running, Linked
  <2>2. \A v \in Task : st'[v] = "dead" => st[v] = "dead"
    BY <1>5
  <2>3. \A p \in Task : InVfork(p) => InVfork(p)' /\ child'[p] = child[p]
    BY <1>3, <1>4
  <2> QED
    BY <1>1, <2>1, <2>2, <2>3 DEF IInv, Running, signalVars
<1>13. Pointers'
  <2>1. \A v \in Linked' : ptr'[v] \in [Resource -> Object]
    BY <1>2, <1>5, <1>6 DEF IInv, Pointers, Linked
  <2>2. ASSUME NEW p \in Task \ {t}, Copying(p)'
        PROVE  /\ ptr'[child'[p]] \in [Resource -> Object]
               /\ "THREAD" \in flags'[p] => ptr'[child'[p]].signal = ptr'[p].signal
    <3>1. Copying(p) /\ child[p] \in Task \ {u} /\ p # u
      BY <1>2, <1>4, <2>2, ChildApart DEF New, Copying
    <3> QED
      BY <1>4, <1>5, <3>1 DEF IInv, Pointers
  <2>3. /\ ptr'[child'[t]] \in [Resource -> Object]
        /\ ptr'[child'[t]].signal = ptr'[t].signal
    BY <1>1, <1>2, <1>5 DEF IInv, Pointers
  <2> QED
    BY <2>1, <2>2, <2>3 DEF Pointers
<1>14. References' /\ OwnSignal'
  <2>1. \A r \in Resource : \A v \in Owners(r) : ptr'[v][r] = ptr[v][r]
    BY <1>2, <1>5, Finite
  <2>2. \A p \in Task : Owns(p, "signal")' => Owns(p, "signal") /\ child'[p] = child[p]
    BY <1>4, <1>7 DEF Owns, Takes, Copying
  <2> QED
    BY <1>1, <1>8, <2>1, <2>2, ObjectsStay
<1>15. Counters'
  BY <1>1, <1>6, <1>8 DEF IInv, Counters
<1>16. Completions'
  <2>1. \A v \in Linked' : v # u /\ vforkDone'[v] = vforkDone[v]
    BY <1>2, <1>5, <1>6 DEF Linked
  <2>2. \A v \in Linked' : vforkDone[v] # NoTask => child'[vforkDone[v]] = v
    BY <1>1, <1>3, <1>4, <1>6 DEF IInv, Types, Completions, Linked
  <2>3. \A p \in Task : InVfork(p)' <=> InVfork(p)
    BY <1>3, <1>4
  <2>4. ASSUME NEW p \in Task, Copying(p)', "module" \in Taken(pc'[p][2])
        PROVE  vforkDone'[child'[p]] = NoTask
    <3>1. p # t /\ Copying(p) /\ pc'[p] = pc[p] /\ child'[p] = child[p]
      BY <1>4, <1>7, <2>4 DEF Takes
    <3> QED
      BY <1>2, <1>5, <2>4, <3>1, ChildApart DEF IInv, Completions
  <2> QED
    BY <1>1, <1>6, <2>1, <2>2, <2>3, <2>4 DEF IInv, Completions
<1>17. Lent'
  <2>1. \A v \in Task : New(v)' \/ Leaves(v)' => New(v) \/ Leaves(v)
    BY <1>3, <1>4
  <2>2. \A p \in Task : Waits(p) => Waits(p)' /\ child'[p] = child[p]
    BY <1>3, <1>4
  <2> QED
    BY <1>1, <2>1, <2>2 DEF IInv, Types, Lent, signalVars
<1>18. NoneSlipsOut'
  BY <1>1, <1>2, <1>5, <1>6 DEF IInv, NoneSlipsOut, Group, Linked, signalVars
<1> QED
  BY <1>9, <1>10, <1>11, <1>12, <1>13, <1>14, <1>15, <1>16, <1>17, <1>18 DEF IInv

\* Whatever step fails, its labels put what the new task held, and no more.
LEMMA BadForkIInv == ASSUME IInv, NEW t \in Task, BadFork(t) PROVE IInv'
<1>1. PICK step \in DOMAIN FailsTo : LET labels == Reached(FailsTo[step])
                                        put == PutAt(t, labels)
                                        u == child[t]
        IN
        /\ MayFail(t, step)
        /\ pids' = IF "pid" \in labels THEN pids \ {u} ELSE pids
        /\ Put(u, put)
        /\ counts' = [counts EXCEPT
             !.processes = @ - (IF "count" \in labels THEN 1 ELSE 0),
             !.module = @ - (IF "threadgroup" \in labels THEN 1 ELSE 0),
             !.changing =
               @ - (IF "threadgroup" \in labels /\ "THREAD" \in flags[t]
                    THEN 1 ELSE 0)]
        /\ Fault(\/ labels \cap (Local \cup Spaces) # Taken(step) \cap (Local \cup Spaces)
                 \/ \E r \in put : refs[r][ptr[u][r]] = 0)
        /\ st' = [st EXCEPT ![u] = "none"]
        /\ ptr' = [ptr EXCEPT ![u] = NoPtr]
        /\ vforkDone' = [vforkDone EXCEPT ![u] = NoTask]
  BY DEF BadFork
<1>2. /\ child' = [child EXCEPT ![t] = NoTask]
      /\ flags' = [flags EXCEPT ![t] = {}]
      /\ pc' = [pc EXCEPT ![t] = <<"user">>]
      /\ UNCHANGED <<usage, completion, lender, signalVars>>
  BY DEF BadFork, Goto
<1> DEFINE labels == Reached(FailsTo[step])
           stop == Stop(step)
           thread == "THREAD" \in flags[t]
<1>3. pc[t] = <<"copy", stop>> /\ Undoes(step)
  BY <1>1, LabelsUndo DEF MayFail, At, Stop
<1>4. Copying(t) /\ \A r : Takes(t, r) <=> r \in Taken(stop)
  BY <1>3 DEF Copying, Takes
<1>5. PICK u \in Task : u = child[t]
  BY <1>4, ChildApart
<1>6. /\ u \notin Linked /\ u # t /\ t \in Linked /\ New(u) /\ st[u] = "embryo"
      /\ ~pending[u] /\ u # NoTask
      /\ \A p \in Task \ {t} : child[p] # u
      /\ \A r : u \notin OtherHavers(t, r) \cup OtherOwners(t, r) \cup OtherChangers(t)
      /\ ptr[u] \in [Resource -> Object]
  BY <1>4, <1>5, ChildApart, ForkAssumption DEF IInv, Families, Family, Running, Pointers
<1>7. /\ \A r \in Resource : r \in PutAt(t, labels) <=> Owns(t, r)
      /\ "count" \in labels <=> Takes(t, "creds")
      /\ "threadgroup" \in labels <=> Takes(t, "module")
      /\ "pid" \in labels <=> Takes(t, "pid")
      /\ labels \cap (Local \cup Spaces) = Taken(step) \cap (Local \cup Spaces)
      /\ PutAt(t, labels) \subseteq Resource
  <2>1. /\ Resource \cap labels = Resource \cap Taken(stop)
        /\ labels \cap (Local \cup Spaces) = Taken(step) \cap (Local \cup Spaces)
        /\ "count" \in labels <=> "creds" \in Taken(stop)
        /\ "threadgroup" \in labels <=> "module" \in Taken(stop)
        /\ "pid" \in labels <=> "pid" \in Taken(stop)
    BY <1>3 DEF Undoes
  <2> HIDE DEF labels, stop
  <2> QED
    BY <1>4, <2>1 DEF PutAt, Owns
<1> HIDE DEF labels, stop
<1>8. /\ st' = [st EXCEPT ![u] = "none"] /\ ptr' = [ptr EXCEPT ![u] = NoPtr]
      /\ vforkDone' = [vforkDone EXCEPT ![u] = NoTask]
      /\ pids' = IF Takes(t, "pid") THEN pids \ {u} ELSE pids
      /\ counts' = [counts EXCEPT
           !.processes = @ - (IF Takes(t, "creds") THEN 1 ELSE 0),
           !.module = @ - (IF Takes(t, "module") THEN 1 ELSE 0),
           !.changing = @ - (IF Takes(t, "module") /\ thread THEN 1 ELSE 0)]
      /\ \A r \in Resource : \A o \in Object :
           refs'[r][o] = refs[r][o] - (IF Owns(t, r) /\ ptr[u][r] = o THEN 1 ELSE 0)
      /\ refs' \in [Resource -> [Object -> Int]]
  <2>1. /\ refs' = [r \in Resource |-> [o \in Object |->
             refs[r][o] - (IF r \in PutAt(t, labels) /\ ptr[u][r] = o THEN 1 ELSE 0)]]
        /\ \A r \in Resource : \A o \in Object : refs[r][o] \in Int
    BY <1>1, <1>5 DEF Put, labels, IInv, Types
  <2>2. /\ \A r \in Resource : \A o \in Object :
             refs'[r][o] = refs[r][o] - (IF Owns(t, r) /\ ptr[u][r] = o THEN 1 ELSE 0)
        /\ refs' \in [Resource -> [Object -> Int]]
    BY <1>7, <2>1
  <2>3. /\ st' = [st EXCEPT ![u] = "none"] /\ ptr' = [ptr EXCEPT ![u] = NoPtr]
        /\ vforkDone' = [vforkDone EXCEPT ![u] = NoTask]
        /\ pids' = IF "pid" \in labels THEN pids \ {u} ELSE pids
        /\ counts' = [counts EXCEPT
             !.processes = @ - (IF "count" \in labels THEN 1 ELSE 0),
             !.module = @ - (IF "threadgroup" \in labels THEN 1 ELSE 0),
             !.changing = @ - (IF "threadgroup" \in labels /\ thread THEN 1 ELSE 0)]
    BY <1>1, <1>5 DEF labels
  <2> QED
    BY <1>7, <2>2, <2>3
<1>9. NoFault' /\ SignalTypes'
  <2>1. \A r \in PutAt(t, labels) : refs[r][ptr[u][r]] # 0
    <3> SUFFICES ASSUME NEW r \in Resource, Owns(t, r) PROVE refs[r][ptr[u][r]] # 0
      BY <1>7
    <3>1. u \in Users(r, ptr[u][r]) /\ ptr[u][r] \in Object
      BY <1>5, <1>6 DEF Users, Owners
    <3>2. refs[r][ptr[u][r]] = Cardinality(Users(r, ptr[u][r]))
      BY <3>1 DEF IInv, References
    <3> QED
      BY <3>1, <3>2, Finite, FS_EmptySet
  <2>2. faulty' = faulty
    BY <1>1, <1>5, <1>7, <2>1 DEF Fault, labels, IInv, SignalTypes
  <2> QED
    BY <1>2, <2>2 DEF IInv, NoFault, SignalTypes, signalVars
<1>10. /\ ~Copying(t)' /\ ~Wakes(t)' /\ ~Waits(t)' /\ ~InVfork(t)' /\ ~New(t)' /\ ~Leaves(t)'
       /\ ~Wakes(t) /\ ~Waits(t) /\ ~InVfork(t) /\ ~New(t) /\ ~Leaves(t)
  BY <1>2, <1>3 DEF IInv, Types, Wakes, Waits, Copying, InVfork, New, Leaves, Vfork, Leaving
<1>11. \A p \in Task \ {t} :
        /\ UNCHANGED <<pc[p], child[p], flags[p]>>
        /\ Copying(p)' <=> Copying(p)
        /\ New(p)' <=> New(p)
        /\ Wakes(p)' <=> Wakes(p)
        /\ Waits(p)' <=> Waits(p)
        /\ InVfork(p)' <=> InVfork(p)
        /\ Leaves(p)' <=> Leaves(p)
  BY <1>2 DEF IInv, Types, Copying, New, Wakes, Waits, InVfork, Leaves
<1>12. /\ child'[t] = NoTask /\ st'[u] = "none"
       /\ \A v \in Task \ {u} : UNCHANGED <<st[v], ptr[v], vforkDone[v]>>
  BY <1>2, <1>8 DEF IInv, Types
<1>13. Others(t) /\ Linked' = Linked /\ \A r : Takes(t, r)' <=> FALSE
  BY <1>6, <1>8, <1>10, <1>11 DEF Others, IInv, Types, Linked, Takes
<1>14. /\ \A r : Havers(r)' = Havers(r) \ {u} /\ (u \in Havers(r) <=> Takes(t, r))
       /\ \A r : Owners(r)' = Owners(r) \ {u} /\ (u \in Owners(r) <=> Owns(t, r))
       /\ Changers' = Changers \ {u} /\ (u \in Changers <=> Takes(t, "module") /\ thread)
  <2>1. ASSUME NEW r PROVE Havers(r)' = Havers(r) \ {u} /\ (u \in Havers(r) <=> Takes(t, r))
    <3>1. Havers(r) = Linked \cup OtherHavers(t, r) \cup (IF Takes(t, r) THEN {u} ELSE {})
      BY <1>5, Split
    <3>2. Havers(r)' = Linked' \cup OtherHavers(t, r) \cup {}
      BY <1>13, SplitNext
    <3> QED
      BY <1>6, <1>13, <3>1, <3>2
  <2>2. ASSUME NEW r PROVE Owners(r)' = Owners(r) \ {u} /\ (u \in Owners(r) <=> Owns(t, r))
    <3>1. Owners(r) = Linked \cup OtherOwners(t, r) \cup (IF Owns(t, r) THEN {u} ELSE {})
      BY <1>5, Split
    <3>2. Owns(t, r)' <=> FALSE
      BY <1>13 DEF Owns
    <3>3. Owners(r)' = Linked' \cup OtherOwners(t, r) \cup {}
      BY <1>13, <3>2, SplitNext
    <3> QED
      BY <1>6, <1>13, <3>1, <3>3
  <2>3. Changers' = Changers \ {u} /\ (u \in Changers <=> Takes(t, "module") /\ thread)
    <3>1. Changers = OtherChangers(t)
                       \cup (IF Takes(t, "module") /\ thread THEN {u} ELSE {})
      BY <1>5, Split
    <3>2. Changers' = OtherChangers(t)
      BY <1>13, SplitNext
    <3> QED
      BY <1>6, <3>1, <3>2
  <2> QED
    BY <2>1, <2>2, <2>3
<1>15. Types'
  <2>1. /\ pc' \in [Task -> Places]
        /\ st' \in [Task -> {"none", "embryo", "linked", "dead"}]
        /\ child' \in [Task -> Task \cup {NoTask}] /\ flags' \in [Task -> SUBSET Flag]
        /\ vforkDone' \in [Task -> Task \cup {NoTask}]
    BY <1>2, <1>8 DEF IInv, Types, Places
  <2>2. ptr' \in [Task -> [Resource -> Object \cup {NoObject}]]
    BY <1>8 DEF IInv, Types, NoPtr
  <2>3. counts' \in Counts
    <3>1. /\ counts \in Counts
          /\ counts.processes - (IF Takes(t, "creds") THEN 1 ELSE 0) \in Int
          /\ counts.module - (IF Takes(t, "module") THEN 1 ELSE 0) \in Int
          /\ counts.changing - (IF Takes(t, "module") /\ thread THEN 1 ELSE 0) \in Int
      BY DEF IInv, Types, Counts
    <3> QED
      BY <1>8, <3>1 DEF Counts
  <2>4. pids' \subseteq Task
    BY <1>8 DEF IInv, Types
  <2> QED
    BY <1>2, <1>8, <2>1, <2>2, <2>3, <2>4 DEF IInv, Types, signalVars
<1>16. Families' /\ OneParent'
  <2>1. OneParent'
    BY <1>2, <1>11, <1>12 DEF IInv, OneParent
  <2>2. ASSUME NEW p \in Task \ {t} PROVE Family(p)'
    <3>1. \A q \in Task : pc'[q] = <<"new">> <=> New(q)
      BY <1>10, <1>11 DEF New
    <3>2. child[p] # NoTask => child[p] \in Task \ {u}
      BY <1>6 DEF IInv, Types
    <3> QED
      BY <1>2, <1>11, <1>12, <3>1, <3>2, FamilyStays
  <2>3. Family(t)'
    BY <1>10, <1>12 DEF Family
  <2> QED
    BY <2>1, <2>2, <2>3 DEF Families
<1>17. Running'
  <2>1. \A v \in Task : st'[v] # "linked" => v # t /\ New(v) /\ New(v)' /\ ~pending[v]
    BY <1>6, <1>11, <1>12 DEF IInv, Running, Linked
  <2>2. \A v \in Task : st'[v] = "dead" => st[v] = "dead"
    BY <1>12
  <2>3. \A p \in Task : InVfork(p) => InVfork(p)' /\ child'[p] = child[p]
    BY <1>10, <1>11
  <2> QED
    BY <1>2, <2>1, <2>2, <2>3 DEF IInv, Running, signalVars
<1>18. Pointers'
  <2>1. \A v \in Linked' : ptr'[v] \in [Resource -> Object]
    BY <1>6, <1>12, <1>13 DEF IInv, Pointers, Linked
  <2>2. ASSUME NEW p \in Task, Copying(p)'
        PROVE  /\ ptr'[child'[p]] \in [Resource -> Object]
               /\ "THREAD" \in flags'[p] => ptr'[child'[p]].signal = ptr'[p].signal
    <3>1. p # t /\ Copying(p)
      BY <1>10, <1>11, <2>2
    <3>2. child[p] \in Task \ {u} /\ p # u
      BY <1>6, <3>1, ChildApart
    <3> QED
      BY <1>11, <1>12, <3>1, <3>2 DEF IInv, Pointers
  <2> QED
    BY <2>1, <2>2 DEF Pointers
<1>19. References'
  <2> SUFFICES ASSUME NEW r \in Resource, NEW o \in Object
               PROVE  refs'[r][o] = Cardinality(Users(r, o)')
    BY DEF References
  <2>1. refs[r][o] = Cardinality(Users(r, o)) /\ IsFiniteSet(Users(r, o))
    BY Finite DEF IInv, References
  <2>2. Owners(r) \subseteq Task
    BY Finite
  <2>3. Users(r, o)' = Users(r, o) \ {u}
    BY <1>12, <1>14, <2>2 DEF Users
  <2>4. u \in Users(r, o) <=> Owns(t, r) /\ ptr[u][r] = o
    BY <1>14 DEF Users
  <2>5. CASE Owns(t, r) /\ ptr[u][r] = o
    <3>1. Cardinality(Users(r, o) \ {u}) = Cardinality(Users(r, o)) - 1
      BY <2>1, <2>4, <2>5, FS_RemoveElement
    <3>2. refs'[r][o] = refs[r][o] - 1
      BY <1>8, <2>5
    <3> QED
      BY <2>1, <2>3, <3>1, <3>2
  <2>6. CASE ~(Owns(t, r) /\ ptr[u][r] = o)
    <3>1. Users(r, o)' = Users(r, o)
      BY <2>3, <2>4, <2>6
    <3>2. refs'[r][o] = refs[r][o]
      BY <1>8, <2>6 DEF IInv, Types
    <3> QED
      BY <2>1, <3>1, <3>2
  <2> QED
    BY <2>5, <2>6
<1>20. OwnSignal'
  <2> SUFFICES ASSUME NEW p \in Task, NEW v \in Owners("signal")', Owns(p, "signal")',
                      v # child'[p]
               PROVE  ptr'[child'[p]].signal # ptr'[v].signal
    BY DEF OwnSignal
  <2>1. p # t /\ Owns(p, "signal") /\ child'[p] = child[p]
    BY <1>11, <1>13 DEF Owns, Takes
  <2>2. child[p] \in Task \ {u} /\ v \in Owners("signal") \ {u} /\ v \in Task
    BY <1>6, <1>14, <2>1, ChildApart, Finite DEF Owns, Takes
  <2> QED
    BY <1>12, <2>1, <2>2 DEF IInv, OwnSignal
<1>21. Counters'
  <2>1. Cardinality(Havers("creds")')
          = Cardinality(Havers("creds")) - (IF Takes(t, "creds") THEN 1 ELSE 0)
    <3>1. IsFiniteSet(Havers("creds")) /\ Cardinality(Havers("creds")) \in Int
      BY Finite, FS_CardinalityType
    <3> QED
      BY <1>14, <3>1, FS_RemoveElement
  <2>2. Cardinality(Havers("module")')
          = Cardinality(Havers("module")) - (IF Takes(t, "module") THEN 1 ELSE 0)
    <3>1. IsFiniteSet(Havers("module")) /\ Cardinality(Havers("module")) \in Int
      BY Finite, FS_CardinalityType
    <3> QED
      BY <1>14, <3>1, FS_RemoveElement
  <2>3. Cardinality(Changers')
          = Cardinality(Changers) - (IF Takes(t, "module") /\ thread THEN 1 ELSE 0)
    <3>1. IsFiniteSet(Changers) /\ Cardinality(Changers) \in Int
      BY Finite, FS_CardinalityType
    <3>2. CASE u \in Changers
      <4>1. Cardinality(Changers \ {u}) = Cardinality(Changers) - 1
        BY <3>1, <3>2, FS_RemoveElement
      <4> QED
        BY <1>14, <3>2, <4>1
    <3>3. CASE u \notin Changers
      <4>1. ~(Takes(t, "module") /\ thread) /\ Changers' = Changers \ {u}
        BY <1>14, <3>3
      <4>2. Changers' = Changers
        BY <3>3, <4>1
      <4>3. Cardinality(Changers) - 0 = Cardinality(Changers)
        BY <3>1
      <4>4. (IF Takes(t, "module") /\ thread THEN 1 ELSE 0) = 0
        BY <4>1
      <4> QED
        BY <4>2, <4>3, <4>4, Zenon
    <3> QED
      BY <3>2, <3>3
  <2>4. Havers("pid")' = IF Takes(t, "pid") THEN Havers("pid") \ {u} ELSE Havers("pid")
    BY <1>14
  <2> QED
    BY <1>8, <1>13, <2>1, <2>2, <2>3, <2>4 DEF IInv, Types, Counts, Counters
<1>22. Completions'
  <2>1. \A v \in Linked' : v # u /\ vforkDone'[v] = vforkDone[v]
    BY <1>6, <1>12, <1>13 DEF Linked
  <2>2. \A v \in Linked' : vforkDone[v] # NoTask => child'[vforkDone[v]] = v
    BY <1>2, <1>4, <1>5, <1>6, <1>11, <1>13 DEF IInv, Types, Completions, Linked
  <2>3. \A p \in Task : InVfork(p)' <=> InVfork(p)
    BY <1>10, <1>11
  <2>4. ASSUME NEW p \in Task, Copying(p)', "module" \in Taken(pc'[p][2])
        PROVE  vforkDone'[child'[p]] = NoTask
    <3>1. p # t /\ Copying(p) /\ pc'[p] = pc[p] /\ child'[p] = child[p]
      BY <1>10, <1>11, <2>4
    <3> QED
      BY <1>6, <1>12, <2>4, <3>1, ChildApart DEF IInv, Completions
  <2> QED
    BY <1>2, <1>13, <2>1, <2>2, <2>3, <2>4 DEF IInv, Completions
<1>23. Lent'
  <2>1. \A v \in Task : New(v)' \/ Leaves(v)' => New(v) \/ Leaves(v)
    BY <1>10, <1>11
  <2>2. \A p \in Task : Waits(p) => Waits(p)' /\ child'[p] = child[p]
    BY <1>10, <1>11
  <2> QED
    BY <1>2, <2>1, <2>2 DEF IInv, Types, Lent, signalVars
<1>24. NoneSlipsOut'
  BY <1>2, <1>6, <1>12, <1>13 DEF IInv, NoneSlipsOut, Group, Linked, signalVars
<1> QED
  BY <1>9, <1>15, <1>16, <1>17, <1>18, <1>19, <1>20, <1>21, <1>22, <1>23, <1>24 DEF IInv

-------------------------------------------------------------------------------
(* The wait of a vfork, and what ends it.                                  *)

\* A task goes on within its vfork, or on its way out of its address space.
Move(t, l) ==
  /\ pc' = [pc EXCEPT ![t] = l]
  /\ l \in Places /\ l[1] # "copy" /\ ~Copying(t) /\ l # <<"wake">> /\ ~Wakes(t)
  /\ l = <<"new">> <=> New(t)
  /\ l \in Vfork <=> InVfork(t)
  /\ UNCHANGED <<st, child, flags, objectVars, counts, usage, pending, struck>>

\* Nothing that is said of families, objects, counters and signals is changed by it.
LEMMA MoveIs ==
  ASSUME IInv, NEW t \in Task, NEW l, Move(t, l)
  PROVE  /\ pc' \in [Task -> Places]
         /\ Families' /\ OneParent' /\ Running' /\ Pointers' /\ OwnSignal' /\ References'
         /\ Counters' /\ NoneSlipsOut'
         /\ \A p \in Task : /\ Copying(p)' => UNCHANGED pc[p] /\ Copying(p)
                            /\ New(p)' <=> New(p)
                            /\ InVfork(p)' <=> InVfork(p)
<1> USE DEF Move
<1>1. pc' \in [Task -> Places] /\ pc'[t] = l
  BY DEF IInv, Types
<1>2. \A p \in Task \ {t} : UNCHANGED pc[p]
  BY DEF IInv, Types
<1>3. \A p \in Task : /\ Copying(p)' <=> Copying(p)
                      /\ New(p)' <=> New(p)
                      /\ Wakes(p)' <=> Wakes(p)
                      /\ InVfork(p)' <=> InVfork(p)
  BY <1>1, <1>2 DEF Copying, New, Wakes, InVfork
<1>4. \A p \in Task : Quiet(p)
  BY <1>2, <1>3 DEF Quiet
<1>5. Linked' = Linked
  BY DEF Linked
<1>6. Families'
  <2> SUFFICES ASSUME NEW p \in Task PROVE Family(p)'
    BY DEF Families
  <2>1. child[p] # NoTask => child[p] \in Task
    BY DEF IInv, Types
  <2>2. Family(p)
    BY DEF IInv, Families
  <2>3. \A q \in Task : pc'[q] = <<"new">> <=> pc[q] = <<"new">>
    BY <1>3 DEF New
  <2>4. child[p] \in Task => (pc'[child[p]] = <<"new">> <=> pc[child[p]] = <<"new">>)
    BY <2>3
  <2> QED
    BY <1>3, <2>1, <2>2, <2>4, ForkAssumption DEF Family, New
<1>7. OneParent'
  BY DEF IInv, OneParent
<1>8. Running'
  BY <1>3 DEF IInv, Running
<1>9. Pointers' /\ OwnSignal' /\ References' /\ Counters'
  BY <1>4, <1>5, QuietObjects
<1>10. NoneSlipsOut'
  BY <1>5 DEF IInv, NoneSlipsOut, Group, objectVars
<1> QED
  BY <1>1, <1>2, <1>3, <1>6, <1>7, <1>8, <1>9, <1>10

\* A signal ends the wait.
LEMMA VforkKilledIInv == ASSUME IInv, NEW t \in Task, VforkKilled(t) PROVE IInv'
<1> USE DEF VforkKilled
<1>1. Move(t, <<"vforkKilled">>)
  BY DEF Goto, Move, Places, Vfork, Copying, Wakes, New, InVfork, vforkVars, signalVars
<1>2. Types' /\ SignalTypes' /\ NoFault'
  BY <1>1, MoveIs DEF IInv, Types, SignalTypes, NoFault, objectVars, vforkVars, signalVars
<1>3. Completions'
  BY <1>1, MoveIs DEF IInv, Completions, Linked, vforkVars
<1>4. Lent'
  <2>1. \A p \in Task \ {t} : pc'[p] = pc[p]
    BY DEF Goto, IInv, Types
  <2>2. \A v \in Task : New(v)' \/ Leaves(v)' => New(v) \/ Leaves(v)
    BY <2>1 DEF Goto, New, Leaves, IInv, Types, Leaving
  <2>3. \A p \in Task : Waits(p) => Waits(p)' \/ p = t
    BY <2>1 DEF Waits
  <2> QED
    BY <2>2, <2>3 DEF IInv, Types, Lent, vforkVars, signalVars
<1> QED
  BY <1>1, <1>2, <1>3, <1>4, MoveIs DEF IInv

\* mm_release(): the task uses the memory no longer.
LEMMA ReleaseIInv ==
  ASSUME IInv, NEW t \in Task, InUser(t), NEW next \in {"execMmap", "exit"},
         MmRelease(t, next),
         UNCHANGED <<st, child, flags, objectVars, counts, usage, vforkDone, completion,
                     signalVars, faulty>>
  PROVE  IInv'
<1> USE DEF MmRelease, InUser
<1>1. PICK l \in Leaving : pc' = [pc EXCEPT ![t] = l]
  BY DEF Goto, Leaving
<1>2. Move(t, l)
  BY <1>1 DEF Move, Places, Vfork, Leaving, Copying, Wakes, New, InVfork, signalVars
<1>3. Types' /\ SignalTypes' /\ NoFault'
  BY <1>2, MoveIs DEF IInv, Types, SignalTypes, NoFault, objectVars, signalVars
<1>4. Completions'
  BY <1>2, MoveIs DEF IInv, Completions, Linked
<1>5. Lent'
  <2>1. \A p \in Task \ {t} : pc'[p] = pc[p]
    BY <1>1 DEF IInv, Types
  <2>2. \A v \in Task : New(v)' \/ Leaves(v)' => New(v) \/ Leaves(v) \/ v = t
    BY <2>1 DEF New, Leaves
  <2>3. \A p \in Task : Waits(p) => Waits(p)'
    BY <2>1 DEF Waits
  <2>4. \A v \in Task : lender'[v] = IF v = t THEN NoTask ELSE lender[v]
    BY DEF IInv, Types
  <2> QED
    BY <2>2, <2>3, <2>4 DEF IInv, Types, Lent, signalVars
<1> QED
  BY <1>2, <1>3, <1>4, <1>5, MoveIs DEF IInv

\* exec_mmap(), its first half.
LEMMA ExecReleaseIInv == ASSUME IInv, NEW t \in Task, ExecRelease(t) PROVE IInv'
BY ReleaseIInv DEF ExecRelease

\* do_exit(), its first half.
LEMMA ExitReleaseIInv == ASSUME IInv, NEW t \in Task, ExitRelease(t) PROVE IInv'
BY ReleaseIInv DEF ExitRelease

\* The completion is that of the parent, which waits for it.
LEMMA CompleteVforkIInv == ASSUME IInv, NEW t \in Task, CompleteVfork(t) PROVE IInv'
<1>1. PICK next \in {"execMmap", "exit"} :
        pc[t] = <<"complete", next>> /\ pc' = [pc EXCEPT ![t] = <<next>>]
  BY DEF CompleteVfork, At, Goto
<1>2. /\ UNCHANGED <<st, child, flags, objectVars, counts, usage, lender, signalVars>>
      /\ IF vforkDone[t] = NoTask
         THEN UNCHANGED <<vforkDone, completion, faulty>>
         ELSE /\ vforkDone' = [vforkDone EXCEPT ![t] = NoTask]
              /\ completion' = [completion EXCEPT ![vforkDone[t]] = "done"]
              /\ Fault(completion[vforkDone[t]] = "none")
  BY DEF CompleteVfork
<1>3. Move(t, <<next>>) /\ <<next>> \in Leaving
  BY <1>1, <1>2
    DEF Move, Places, Vfork, Leaving, Copying, Wakes, New, InVfork, signalVars
<1>4. t \in Linked /\ Leaves(t)
  BY <1>1 DEF IInv, Running, New, Linked, Leaves, Leaving
<1>5. /\ \A p \in Task \ {t} : pc'[p] = pc[p]
      /\ \A v \in Task : New(v)' \/ Leaves(v)' => New(v) \/ Leaves(v)
      /\ \A p \in Task : Waits(p) => Waits(p)'
  <2>1. \A p \in Task \ {t} : pc'[p] = pc[p]
    BY <1>1 DEF IInv, Types
  <2> QED
    BY <1>1, <1>4, <2>1 DEF New, Leaves, Waits
<1>6. CASE vforkDone[t] = NoTask
  <2>1. Types' /\ SignalTypes' /\ NoFault'
    BY <1>2, <1>3, <1>6, MoveIs
      DEF IInv, Types, SignalTypes, NoFault, objectVars, signalVars
  <2>2. Completions'
    BY <1>2, <1>3, <1>6, MoveIs DEF IInv, Completions, Linked
  <2>3. Lent'
    BY <1>2, <1>5, <1>6 DEF IInv, Types, Lent, signalVars
  <2> QED
    BY <1>3, <2>1, <2>2, <2>3, MoveIs DEF IInv
<1>7. CASE vforkDone[t] # NoTask
  <2>1. PICK x \in Task : x = vforkDone[t] /\ completion[x] = "waited" /\ child[x] = t
    BY <1>4, <1>7 DEF IInv, Types, Completions, Linked
  <2>2. /\ vforkDone' = [vforkDone EXCEPT ![t] = NoTask]
        /\ completion' = [completion EXCEPT ![x] = "done"]
        /\ Fault(completion[x] = "none")
    BY <1>2, <1>7, <2>1
  <2>3. SignalTypes' /\ NoFault'
    BY <1>2, <2>1, <2>2 DEF Fault, IInv, SignalTypes, NoFault, signalVars
  <2>4. Types'
    <3>1. /\ vforkDone' \in [Task -> Task \cup {NoTask}]
          /\ completion' \in [Task -> {"none", "waited", "done"}]
      BY <2>2 DEF IInv, Types
    <3> QED
      BY <1>2, <1>3, <3>1, MoveIs DEF IInv, Types, objectVars, signalVars
  <2>5. /\ \A v \in Task : vforkDone'[v] = IF v = t THEN NoTask ELSE vforkDone[v]
        /\ \A p \in Task : completion'[p] = IF p = x THEN "done" ELSE completion[p]
    BY <2>2 DEF IInv, Types
  <2>6. Completions'
    <3>1. \A v \in Linked' :
            vforkDone'[v] # NoTask => /\ completion'[vforkDone'[v]] = "waited"
                                      /\ child'[vforkDone'[v]] = v
      <4> SUFFICES ASSUME NEW v \in Linked, vforkDone'[v] # NoTask
                   PROVE  /\ completion'[vforkDone'[v]] = "waited"
                          /\ child'[vforkDone'[v]] = v
        BY <1>2 DEF Linked
      <4>1. v \in Task /\ v # t /\ vforkDone'[v] = vforkDone[v] /\ vforkDone[v] \in Task
        BY <2>5 DEF IInv, Types, Linked
      <4>2. completion[vforkDone[v]] = "waited" /\ child[vforkDone[v]] = v
        BY <4>1 DEF IInv, Completions
      <4> QED
        BY <1>2, <2>1, <2>5, <4>1, <4>2
    <3>2. \A p \in Task : completion'[p] # "none" <=> InVfork(p)'
      BY <1>3, <2>1, <2>5, MoveIs DEF IInv, Completions
    <3>3. ASSUME NEW p \in Task, Copying(p)', "module" \in Taken(pc'[p][2])
          PROVE  vforkDone'[child'[p]] = NoTask
      <4>1. Copying(p) /\ pc'[p] = pc[p] /\ child'[p] = child[p] /\ child[p] \in Task
        BY <1>2, <1>3, <3>3, MoveIs, ChildApart
      <4> QED
        BY <2>5, <3>3, <4>1 DEF IInv, Completions
    <3> QED
      BY <3>1, <3>2, <3>3 DEF Completions
  <2>7. Lent'
    <3> SUFFICES ASSUME NEW v \in Task, lender[v] # NoTask
                 PROVE  \/ pending[lender[v]]
                        \/ /\ Waits(lender[v])' /\ completion'[lender[v]] = "waited"
                           /\ child'[lender[v]] = v
      BY <1>2, <1>5 DEF IInv, Lent, signalVars
    <3>1. lender[v] \in Task /\ v # t
      BY <1>4 DEF IInv, Types, Lent
    <3>2. \A p \in Task : child'[p] = child[p]
      BY <1>2
    <3>3. \A p \in Task : Waits(p) /\ p = lender[v] => Waits(lender[v])'
      BY <1>2, <1>5 DEF Waits
    <3> QED
      BY <2>1, <2>5, <3>1, <3>2, <3>3 DEF IInv, Lent
  <2> QED
    BY <1>3, <2>3, <2>4, <2>6, <2>7, MoveIs DEF IInv
<1> QED
  BY <1>6, <1>7

-------------------------------------------------------------------------------
(* Signals.                                                                *)

\* A signal to all threads of a process, or to everybody.
LEMMA KillIInv == ASSUME IInv, Kill PROVE IInv'
<1>1. UNCHANGED <<st, pc, child, flags, objectVars, counts, vforkVars, faulty>>
  BY DEF Kill
<1>2. PICK t \in Linked :
        \/ /\ pending' = [u \in Task |-> pending[u] \/ u \in Group(t)]
           /\ struck' = struck
        \/ /\ pending' = [u \in Task |-> u \in Linked]
           /\ struck' = TRUE
  BY DEF Kill
<1>3. \A p \in Task : /\ Copying(p)' <=> Copying(p)
                      /\ New(p)' <=> New(p)
                      /\ Wakes(p)' <=> Wakes(p)
                      /\ Waits(p)' <=> Waits(p)
                      /\ InVfork(p)' <=> InVfork(p)
                      /\ Leaves(p)' <=> Leaves(p)
  BY <1>1 DEF Copying, New, Wakes, Waits, InVfork, Leaves
<1>4. Linked' = Linked /\ \A p \in Task : Quiet(p)
  BY <1>1 DEF Linked, Quiet
<1>5. /\ pending' \in [Task -> BOOLEAN]
      /\ \A u \in Task : pending[u] => pending'[u]
      /\ \A u \in Task : st[u] # "linked" => ~pending'[u]
  <2>1. CASE pending' = [u \in Task |-> pending[u] \/ u \in Group(t)]
    BY <2>1 DEF IInv, Types, Running, Group, Linked
  <2>2. CASE pending' = [u \in Task |-> u \in Linked]
    BY <2>2 DEF IInv, Types, Running, Linked
  <2> QED
    BY <1>2, <2>1, <2>2
<1>6. Types' /\ SignalTypes' /\ NoFault'
  <2>1. SignalTypes' /\ NoFault'
    BY <1>1, <1>2 DEF IInv, SignalTypes, NoFault
  <2>2. Types'
    BY <1>1, <1>5 DEF IInv, Types, objectVars, vforkVars
  <2> QED
    BY <2>1, <2>2
<1>7. Families' /\ OneParent'
  <2>1. OneParent'
    BY <1>1 DEF IInv, OneParent
  <2>2. ASSUME NEW p \in Task PROVE Family(p)'
    BY <1>1, FamilyStays DEF New, vforkVars
  <2> QED
    BY <2>1, <2>2 DEF Families
<1>8. Running'
  BY <1>1, <1>3, <1>5 DEF IInv, Running, vforkVars
<1>9. Pointers' /\ OwnSignal' /\ References' /\ Counters'
  BY <1>1, <1>4, QuietObjects
<1>10. Completions'
  BY <1>1, <1>3, <1>4 DEF IInv, Completions, vforkVars
<1>11. Lent'
  BY <1>1, <1>3, <1>5 DEF IInv, Types, Lent, vforkVars
<1>12. NoneSlipsOut'
  <2>1. ptr' = ptr /\ Linked \subseteq Task
    BY <1>1 DEF objectVars, Linked
  <2>2. CASE pending' = [u \in Task |-> pending[u] \/ u \in Group(t)] /\ struck' = struck
    <3>1. \A v \in Linked : pending'[v] <=> pending[v] \/ ptr[v].signal = ptr[t].signal
      BY <2>1, <2>2 DEF Group
    <3> QED
      BY <1>4, <2>1, <2>2, <3>1 DEF IInv, NoneSlipsOut, Group
  <2>3. CASE pending' = [u \in Task |-> u \in Linked]
    BY <1>4, <2>1, <2>3 DEF NoneSlipsOut, Group
  <2> QED
    BY <1>2, <2>2, <2>3
<1> QED
  BY <1>6, <1>7, <1>8, <1>9, <1>10, <1>11, <1>12 DEF IInv

\* Nothing changes.
LEMMA StutterIInv == ASSUME IInv, UNCHANGED vars PROVE IInv'
<1>1. UNCHANGED <<st, pc, child, flags, objectVars, counts, vforkVars, signalVars, faulty>>
  BY DEF vars
<1>2. \A p \in Task : /\ Copying(p)' <=> Copying(p)
                      /\ New(p)' <=> New(p)
                      /\ Wakes(p)' <=> Wakes(p)
                      /\ Waits(p)' <=> Waits(p)
                      /\ InVfork(p)' <=> InVfork(p)
                      /\ Leaves(p)' <=> Leaves(p)
  BY <1>1 DEF Copying, New, Wakes, Waits, InVfork, Leaves
<1>3. Linked' = Linked /\ \A p \in Task : Quiet(p)
  BY <1>1 DEF Linked, Quiet
<1>4. Types' /\ SignalTypes' /\ NoFault' /\ OneParent'
  BY <1>1
    DEF IInv, Types, SignalTypes, NoFault, OneParent, objectVars, vforkVars, signalVars
<1>5. Families'
  <2>1. ASSUME NEW p \in Task PROVE Family(p)'
    BY <1>1, FamilyStays DEF New, vforkVars
  <2> QED
    BY <2>1 DEF Families
<1>6. Running' /\ Completions' /\ Lent'
  <2>1. Running'
    BY <1>1, <1>2 DEF IInv, Running, vforkVars, signalVars
  <2>2. Completions'
    BY <1>1, <1>2, <1>3 DEF IInv, Completions, vforkVars
  <2>3. Lent'
    BY <1>1, <1>2 DEF IInv, Types, Lent, vforkVars, signalVars
  <2> QED
    BY <2>1, <2>2, <2>3
<1>7. Pointers' /\ OwnSignal' /\ References' /\ Counters'
  BY <1>1, <1>3, QuietObjects
<1>8. NoneSlipsOut'
  BY <1>1, <1>3 DEF IInv, NoneSlipsOut, Group, objectVars, signalVars
<1> QED
  BY <1>4, <1>5, <1>6, <1>7, <1>8 DEF IInv

\* wake_up_new_task(): the completion is in place before the child can run.
LEMMA WakeUpNewIInv == ASSUME IInv, NEW t \in Task, WakeUpNew(t) PROVE IInv'
<1> DEFINE vfork == "VFORK" \in flags[t]
<1>1. /\ pc[t] = <<"wake">> /\ Wakes(t)
      /\ UNCHANGED <<st, objectVars, counts, signalVars, faulty>>
  BY DEF WakeUpNew, Wakes
<1>2. PICK u \in Task : /\ u = child[t] /\ u # t /\ u # NoTask /\ st[u] = "linked" /\ New(u)
                        /\ \A p \in Task \ {t} : child[p] # u
  <2>1. child[t] \in Task /\ st[child[t]] = "linked" /\ New(child[t]) /\ ~New(t)
    BY <1>1 DEF IInv, Types, Families, Family, New
  <2> QED
    BY <2>1, ForkAssumption DEF IInv, OneParent
<1>3. /\ pc' = [pc EXCEPT ![u] = <<"user">>,
                          ![t] = IF vfork THEN <<"vforkWait">> ELSE <<"user">>]
      /\ IF vfork
         THEN /\ vforkDone' = [vforkDone EXCEPT ![u] = t]
              /\ completion' = [completion EXCEPT ![t] = "waited"]
              /\ usage' = usage \cup {u}
              /\ lender' = IF "VM" \in flags[t] THEN [lender EXCEPT ![u] = t] ELSE lender
              /\ child' = child /\ flags' = flags
         ELSE /\ child' = [child EXCEPT ![t] = NoTask]
              /\ flags' = [flags EXCEPT ![t] = {}]
              /\ UNCHANGED vforkVars
  BY <1>2 DEF WakeUpNew
<1>4. /\ pc'[u] = <<"user">> /\ pc'[t] = IF vfork THEN <<"vforkWait">> ELSE <<"user">>
      /\ \A p \in Task \ {t, u} : pc'[p] = pc[p]
      /\ pc' \in [Task -> Places]
  BY <1>2, <1>3 DEF IInv, Types, Places, Vfork
<1>5. /\ \A p \in Task : Copying(p)' => Copying(p) /\ pc'[p] = pc[p] /\ p # t
      /\ \A p \in Task : Wakes(p)' => Wakes(p) /\ p # t
      /\ \A p \in Task : New(p)' <=> New(p) /\ p # u
      /\ \A p \in Task : InVfork(p)' <=> InVfork(p) \/ (p = t /\ vfork)
      /\ \A p \in Task : Waits(p)' <=> Waits(p) \/ (p = t /\ vfork)
      /\ \A p \in Task : Leaves(p)' <=> Leaves(p)
      /\ ~InVfork(t) /\ ~Waits(t) /\ ~Leaves(u) /\ ~Copying(t) /\ ~New(t) /\ ~Wakes(t)'
      /\ ~Copying(t)' /\ ~Copying(u) /\ ~Copying(u)' /\ ~InVfork(u)
  BY <1>1, <1>2, <1>4 DEF Copying, Wakes, New, InVfork, Waits, Leaves, Vfork, Leaving
<1>6. /\ \A p \in Task \ {t} : child'[p] = child[p] /\ flags'[p] = flags[p]
      /\ child'[t] = IF vfork THEN u ELSE NoTask
      /\ child' \in [Task -> Task \cup {NoTask}] /\ flags' \in [Task -> SUBSET Flag]
  BY <1>2, <1>3 DEF IInv, Types
<1>7. Linked' = Linked /\ \A p \in Task : Quiet(p)
  <2>1. ASSUME NEW p \in Task PROVE Quiet(p)
    BY <1>4, <1>5, <1>6 DEF Quiet
  <2> QED
    BY <1>1, <2>1 DEF Linked
<1>8. /\ vforkDone' \in [Task -> Task \cup {NoTask}]
      /\ completion' \in [Task -> {"none", "waited", "done"}]
      /\ lender' \in [Task -> Task \cup {NoTask}] /\ usage' \subseteq Task
      /\ \A v \in Task : vforkDone'[v] = IF vfork /\ v = u THEN t ELSE vforkDone[v]
      /\ \A p \in Task : completion'[p] = IF vfork /\ p = t THEN "waited" ELSE completion[p]
      /\ \A v \in Task : lender'[v] = IF vfork /\ v = u /\ "VM" \in flags[t] THEN t
                                      ELSE lender[v]
      /\ usage' = IF vfork THEN usage \cup {u} ELSE usage
  <2>1. CASE vfork
    <3>1. /\ vforkDone' \in [Task -> Task \cup {NoTask}]
          /\ \A v \in Task : vforkDone'[v] = IF v = u THEN t ELSE vforkDone[v]
      BY <1>2, <1>3, <2>1 DEF IInv, Types
    <3>2. /\ completion' \in [Task -> {"none", "waited", "done"}]
          /\ \A p \in Task : completion'[p] = IF p = t THEN "waited" ELSE completion[p]
      BY <1>2, <1>3, <2>1 DEF IInv, Types
    <3>3. /\ lender' \in [Task -> Task \cup {NoTask}]
          /\ \A v \in Task :
               lender'[v] = IF v = u /\ "VM" \in flags[t] THEN t ELSE lender[v]
      <4>1. lender \in [Task -> Task \cup {NoTask}]
        BY DEF IInv, Types
      <4>2. CASE "VM" \in flags[t]
        <5>1. lender' = [lender EXCEPT ![u] = t]
          BY <1>3, <2>1, <4>2
        <5> QED
          BY <4>1, <4>2, <5>1
      <4>3. CASE "VM" \notin flags[t]
        BY <1>3, <2>1, <4>1, <4>3
      <4> QED
        BY <4>2, <4>3
    <3>4. usage' \subseteq Task /\ usage' = usage \cup {u}
      BY <1>2, <1>3, <2>1 DEF IInv, Types
    <3> QED
      BY <2>1, <3>1, <3>2, <3>3, <3>4
  <2>2. CASE ~vfork
    BY <1>3, <2>2 DEF IInv, Types, vforkVars
  <2> QED
    BY <2>1, <2>2
<1>9. Types' /\ SignalTypes' /\ NoFault'
  <2>1. SignalTypes' /\ NoFault'
    BY <1>1 DEF IInv, SignalTypes, NoFault, signalVars
  <2>2. Types'
    BY <1>1, <1>4, <1>6, <1>8 DEF IInv, Types, objectVars, signalVars
  <2> QED
    BY <2>1, <2>2
<1>10. Families' /\ OneParent'
  <2>1. OneParent'
    BY <1>2, <1>6 DEF IInv, OneParent
  <2>2. ASSUME NEW p \in Task \ {t}, p # u PROVE Family(p)'
    <3>1. child[p] # NoTask => child[p] \in Task \ {u}
      BY <1>2 DEF IInv, Types
    <3>2. \A q \in Task \ {u} : pc'[q] = <<"new">> <=> New(q)
      BY <1>5 DEF New
    <3>3. \A q \in usage : q \in usage'
      BY <1>8
    <3> QED
      BY <1>1, <1>4, <1>6, <2>2, <3>1, <3>2, <3>3, FamilyStays
  <2>3. Family(u)'
    <3>1. child[u] = NoTask
      BY <1>2, <1>5 DEF IInv, Families, Family, Wakes, New
    <3> QED
      BY <1>2, <1>5, <1>6, <3>1 DEF Family, Wakes, New
  <2>4. Family(t)'
    <3>1. ~New(u)' /\ st'[u] = "linked" /\ (vfork => u \in usage')
      BY <1>1, <1>2, <1>5, <1>8
    <3> QED
      BY <1>2, <1>5, <1>6, <3>1 DEF Family, New
  <2> QED
    BY <2>1, <2>2, <2>3, <2>4 DEF Families
<1>11. Running'
  <2>1. \A v \in Task : st'[v] # "linked" => New(v)' /\ ~pending'[v]
    BY <1>1, <1>2, <1>5 DEF IInv, Running, signalVars
  <2>2. \A v \in Task : st'[v] = "dead" => v \in usage'
    BY <1>1, <1>8 DEF IInv, Running
  <2>3. ASSUME NEW v \in Task, v \in usage'
        PROVE  \E p \in Task : child'[p] = v /\ InVfork(p)'
    <3>1. CASE v \in usage
      <4>1. PICK p \in Task : child[p] = v /\ InVfork(p)
        BY <3>1 DEF IInv, Running
      <4> QED
        BY <1>5, <1>6, <4>1
    <3>2. CASE vfork /\ v = u
      BY <1>5, <1>6, <3>2
    <3> QED
      BY <1>8, <2>3, <3>1, <3>2
  <2> QED
    BY <2>1, <2>2, <2>3 DEF Running
<1>12. Pointers' /\ OwnSignal' /\ References' /\ Counters'
  BY <1>1, <1>7, QuietObjects
<1>13. Completions'
  <2>1. ASSUME NEW v \in Linked, vforkDone'[v] # NoTask
        PROVE  completion'[vforkDone'[v]] = "waited" /\ child'[vforkDone'[v]] = v
    <3>1. v \in Task
      BY DEF Linked
    <3>2. CASE vfork /\ v = u
      BY <1>6, <1>8, <3>2
    <3>3. CASE ~(vfork /\ v = u)
      <4>1. vforkDone'[v] = vforkDone[v] /\ vforkDone[v] \in Task
        BY <1>8, <2>1, <3>1, <3>3 DEF IInv, Types
      <4>2. completion[vforkDone[v]] = "waited" /\ child[vforkDone[v]] = v
        BY <4>1, <2>1 DEF IInv, Completions
      <4>3. vforkDone[v] # t
        BY <1>5, <4>1, <4>2 DEF IInv, Completions
      <4> QED
        BY <1>6, <1>8, <4>1, <4>2, <4>3
    <3> QED
      BY <3>2, <3>3
  <2>2. \A p \in Task : completion'[p] # "none" <=> InVfork(p)'
    BY <1>5, <1>8 DEF IInv, Completions
  <2>3. ASSUME NEW p \in Task, Copying(p)', "module" \in Taken(pc'[p][2])
        PROVE  vforkDone'[child'[p]] = NoTask
    <3>1. Copying(p) /\ pc'[p] = pc[p] /\ p # t /\ child'[p] = child[p]
      BY <1>5, <1>6, <2>3
    <3>2. child[p] \in Task /\ child[p] # u
      BY <1>2, <3>1, ChildApart
    <3> QED
      BY <1>8, <2>3, <3>1, <3>2 DEF IInv, Completions
  <2> QED
    BY <1>7, <2>1, <2>2, <2>3 DEF Completions
<1>14. Lent'
  <2>1. ASSUME NEW v \in Task, lender'[v] # NoTask
        PROVE  \/ pending'[lender'[v]]
               \/ /\ pc'[lender'[v]] = <<"vforkWait">> /\ completion'[lender'[v]] = "waited"
                  /\ child'[lender'[v]] = v
    <3>1. CASE vfork /\ v = u /\ "VM" \in flags[t]
      BY <1>4, <1>6, <1>8, <3>1
    <3>2. CASE ~(vfork /\ v = u /\ "VM" \in flags[t])
      <4>1. lender'[v] = lender[v] /\ lender[v] \in Task
        BY <1>8, <2>1, <3>2 DEF IInv, Types
      <4>2. \/ pending[lender[v]]
            \/ Waits(lender[v]) /\ completion[lender[v]] = "waited" /\ child[lender[v]] = v
        BY <2>1, <4>1 DEF IInv, Lent
      <4>3. CASE pending[lender[v]]
        BY <1>1, <4>1, <4>3 DEF signalVars
      <4>4. CASE Waits(lender[v]) /\ completion[lender[v]] = "waited" /\ child[lender[v]] = v
        <5>1. lender[v] # t /\ lender[v] # u
          BY <1>2, <1>5, <4>4 DEF New, Waits
        <5> QED
          BY <1>4, <1>6, <1>8, <4>1, <4>4, <5>1 DEF Waits
      <4> QED
        BY <4>2, <4>3, <4>4
    <3> QED
      BY <3>1, <3>2
  <2>2. ASSUME NEW v \in Task, New(v)' \/ Leaves(v)' PROVE lender'[v] = NoTask
    <3>1. v # u /\ (New(v) \/ Leaves(v))
      BY <1>5, <2>2
    <3> QED
      BY <1>8, <3>1 DEF IInv, Lent
  <2> QED
    BY <2>1, <2>2 DEF Lent, Waits
<1>15. NoneSlipsOut'
  BY <1>1, <1>7 DEF IInv, NoneSlipsOut, Group, objectVars, signalVars
<1> QED
  BY <1>9, <1>10, <1>11, <1>12, <1>13, <1>14, <1>15 DEF IInv

\* The frame of do_fork() is left, when the child has completed the vfork or is made to
\* forget it.
LEMMA LeaveVforkIInv ==
  ASSUME IInv, NEW t \in Task, InVfork(t), LeaveVfork(t),
         \/ completion[t] = "done" /\ vforkDone' = vforkDone
         \/ ~Waits(t) /\ vforkDone' = [vforkDone EXCEPT ![child[t]] = NoTask],
         UNCHANGED <<objectVars, counts, lender, signalVars, faulty>>
  PROVE  IInv'
<1>1. PICK u \in Task : /\ u = child[t] /\ u \in usage /\ u # NoTask
                        /\ \A p \in Task \ {t} : child[p] # u
  <2>1. child[t] \in Task /\ child[t] \in usage
    BY ForkAssumption DEF IInv, Types, Families, Family
  <2> QED
    BY <2>1, ForkAssumption DEF IInv, OneParent
<1>2. /\ completion' = [completion EXCEPT ![t] = "none"]
      /\ usage' = usage \ {u}
      /\ st' = [st EXCEPT ![u] = IF @ = "dead" THEN "none" ELSE @]
      /\ child' = [child EXCEPT ![t] = NoTask]
      /\ flags' = [flags EXCEPT ![t] = {}]
      /\ pc' = [pc EXCEPT ![t] = <<"user">>]
  BY <1>1 DEF LeaveVfork, Goto
<1>3. /\ pc'[t] = <<"user">> /\ child'[t] = NoTask
      /\ \A p \in Task \ {t} : UNCHANGED <<pc[p], child[p], flags[p], completion[p]>>
      /\ \A v \in Task \ {u} : UNCHANGED st[v]
      /\ st'[u] # "dead" /\ (st'[u] # "linked" => st[u] # "linked")
      /\ (st[u] # "linked" => st'[u] # "linked")
      /\ completion'[t] = "none"
      /\ pc' \in [Task -> Places] /\ child' \in [Task -> Task \cup {NoTask}]
      /\ st' \in [Task -> {"none", "embryo", "linked", "dead"}]
  BY <1>1, <1>2 DEF IInv, Types, Places
<1>4. /\ \A p \in Task : Copying(p)' => Copying(p) /\ pc'[p] = pc[p] /\ p # t
      /\ \A p \in Task : Copying(p) => p # t
      /\ \A p \in Task : Wakes(p)' => Wakes(p) /\ p # t
      /\ \A p \in Task : New(p)' <=> New(p)
      /\ \A p \in Task : InVfork(p)' <=> InVfork(p) /\ p # t
      /\ \A p \in Task : Waits(p)' <=> Waits(p) /\ p # t
      /\ \A p \in Task : Leaves(p)' <=> Leaves(p)
  BY <1>3 DEF Copying, Wakes, New, InVfork, Waits, Leaves, Vfork, Leaving
<1>5. Linked' = Linked /\ \A p \in Task : Quiet(p)
  <2>1. Linked' = Linked
    BY <1>1, <1>3 DEF Linked
  <2>2. ASSUME NEW p \in Task PROVE Quiet(p)
    BY <1>3, <1>4 DEF Quiet
  <2> QED
    BY <2>1, <2>2
<1>6. /\ vforkDone' \in [Task -> Task \cup {NoTask}]
      /\ \A v \in Task : vforkDone'[v] = vforkDone[v] \/ v = u
      /\ vforkDone'[u] = vforkDone[u] \/ vforkDone'[u] = NoTask
      /\ vforkDone'[u] = NoTask \/ completion[t] = "done"
      /\ ~Waits(t) \/ completion[t] = "done"
  BY <1>1 DEF IInv, Types
<1>7. Types' /\ SignalTypes' /\ NoFault'
  <2>1. SignalTypes' /\ NoFault'
    BY DEF IInv, SignalTypes, NoFault, signalVars
  <2>2. /\ completion' \in [Task -> {"none", "waited", "done"}]
        /\ flags' \in [Task -> SUBSET Flag]
        /\ usage' \subseteq Task
    BY <1>2 DEF IInv, Types
  <2>3. Types'
    BY <1>3, <1>6, <2>2 DEF IInv, Types, objectVars, signalVars
  <2> QED
    BY <2>1, <2>3
<1>8. Families' /\ OneParent'
  <2>1. OneParent'
    BY <1>1, <1>3 DEF IInv, OneParent
  <2>2. ASSUME NEW p \in Task \ {t} PROVE Family(p)'
    <3>1. child[p] # NoTask => child[p] \in Task \ {u}
      BY <1>1 DEF IInv, Types
    <3>2. \A q \in Task : pc'[q] = <<"new">> <=> New(q)
      BY <1>4 DEF New
    <3>3. \A q \in Task \ {u} : q \in usage => q \in usage'
      BY <1>2
    <3> QED
      BY <1>3, <3>1, <3>2, <3>3, FamilyStays
  <2>3. Family(t)'
    BY <1>3, <1>4 DEF Family
  <2> QED
    BY <2>1, <2>2, <2>3 DEF Families
<1>9. Running'
  <2>1. \A v \in Task : st'[v] # "linked" => New(v)' /\ ~pending'[v]
    BY <1>3, <1>4 DEF IInv, Running, signalVars
  <2>2. \A v \in Task : st'[v] = "dead" => v \in usage'
    BY <1>2, <1>3 DEF IInv, Running
  <2>3. ASSUME NEW v \in Task, v \in usage'
        PROVE  \E p \in Task : child'[p] = v /\ InVfork(p)'
    <3>1. v \in usage /\ v # u
      BY <1>2, <2>3
    <3>2. PICK p \in Task : child[p] = v /\ InVfork(p)
      BY <3>1 DEF IInv, Running
    <3> QED
      BY <1>1, <1>3, <1>4, <3>1, <3>2
  <2> QED
    BY <2>1, <2>2, <2>3 DEF Running
<1>10. Pointers' /\ OwnSignal' /\ References' /\ Counters'
  BY <1>5, QuietObjects
<1>11. Completions'
  <2>1. ASSUME NEW v \in Linked, vforkDone'[v] # NoTask
        PROVE  completion'[vforkDone'[v]] = "waited" /\ child'[vforkDone'[v]] = v
    <3>1. v \in Task /\ vforkDone'[v] = vforkDone[v] /\ vforkDone[v] \in Task
      BY <1>1, <1>6, <2>1 DEF IInv, Types, Linked
    <3>2. completion[vforkDone[v]] = "waited" /\ child[vforkDone[v]] = v
      BY <2>1, <3>1 DEF IInv, Completions
    <3>3. vforkDone[v] # t
      BY <1>1, <1>6, <2>1, <3>1, <3>2
    <3> QED
      BY <1>3, <3>1, <3>2, <3>3
  <2>2. \A p \in Task : completion'[p] # "none" <=> InVfork(p)'
    BY <1>3, <1>4 DEF IInv, Completions
  <2>3. ASSUME NEW p \in Task, Copying(p)', "module" \in Taken(pc'[p][2])
        PROVE  vforkDone'[child'[p]] = NoTask
    <3>1. Copying(p) /\ pc'[p] = pc[p] /\ p # t /\ child'[p] = child[p]
      BY <1>3, <1>4, <2>3
    <3>2. child[p] \in Task /\ child[p] # u
      BY <1>1, <3>1, ChildApart
    <3> QED
      BY <1>6, <2>3, <3>1, <3>2 DEF IInv, Completions
  <2> QED
    BY <1>5, <2>1, <2>2, <2>3 DEF Completions
<1>12. Lent'
  <2>1. ASSUME NEW v \in Task, lender[v] # NoTask
        PROVE  \/ pending[lender[v]]
               \/ /\ pc'[lender[v]] = <<"vforkWait">> /\ completion'[lender[v]] = "waited"
                  /\ child'[lender[v]] = v
    <3>1. lender[v] \in Task
      BY <2>1 DEF IInv, Types
    <3>2. \/ pending[lender[v]]
          \/ Waits(lender[v]) /\ completion[lender[v]] = "waited" /\ child[lender[v]] = v
      BY <2>1 DEF IInv, Lent
    <3>3. CASE Waits(lender[v]) /\ completion[lender[v]] = "waited" /\ child[lender[v]] = v
      <4>1. lender[v] # t
        BY <1>6, <3>3
      <4> QED
        BY <1>3, <3>1, <3>3, <4>1 DEF Waits
    <3> QED
      BY <3>2, <3>3
  <2>2. ASSUME NEW v \in Task, New(v)' \/ Leaves(v)' PROVE lender[v] = NoTask
    BY <1>4, <2>2 DEF IInv, Lent
  <2> QED
    BY <2>1, <2>2 DEF Lent, Waits, signalVars
<1>13. NoneSlipsOut'
  BY <1>5 DEF IInv, NoneSlipsOut, Group, objectVars, signalVars
<1> QED
  BY <1>7, <1>8, <1>9, <1>10, <1>11, <1>12, <1>13 DEF IInv

\* wait_for_vfork_done(), when the child has completed it.
LEMMA VforkDoneIInv == ASSUME IInv, NEW t \in Task, VforkDone(t) PROVE IInv'
BY LeaveVforkIInv DEF VforkDone, InVfork, Vfork

\* wait_for_vfork_done(), after a fatal signal.
LEMMA VforkForgetIInv == ASSUME IInv, NEW t \in Task, VforkForget(t) PROVE IInv'
<1>1. InVfork(t) /\ ~Waits(t)
  BY DEF VforkForget, InVfork, Vfork, Waits
<1> QED
  BY <1>1, LeaveVforkIInv DEF VforkForget

-------------------------------------------------------------------------------
(* The new address space of an exec, and the end of a task.                *)

\* A task that executes or ends is linked, copies nothing, and is copied by nobody.
LEMMA LeavingApart ==
  ASSUME IInv, NEW t \in Task, Leaves(t)
  PROVE  /\ t \in Linked /\ ~Copying(t) /\ ~New(t) /\ ~Wakes(t) /\ ~InVfork(t) /\ ~Waits(t)
         /\ child[t] = NoTask /\ lender[t] = NoTask
         /\ \A p \in Task : child[p] = t => InVfork(p)
<1>1. ~Copying(t) /\ ~New(t) /\ ~Wakes(t) /\ ~InVfork(t) /\ ~Waits(t)
  BY DEF Copying, New, Wakes, InVfork, Waits, Leaves, Vfork, Leaving
<1>2. t \in Linked
  BY <1>1 DEF IInv, Running, Linked
<1>3. child[t] = NoTask /\ lender[t] = NoTask
  BY <1>1 DEF IInv, Families, Family, Lent
<1>4. \A p \in Task : child[p] = t => InVfork(p)
  BY <1>1, <1>2, ForkAssumption DEF IInv, Families, Family, Linked
<1> QED
  BY <1>1, <1>2, <1>3, <1>4

\* exec_mmap(): the address space of before is put, and the one of the task's own is new.
LEMMA ExecMmapIInv == ASSUME IInv, NEW t \in Task, ExecMmap(t) PROVE IInv'
<1> DEFINE put == [refs EXCEPT !["mm"][ptr[t].mm] = @ - 1]
           m == ptr[t].mm
           o == FreeObject(put, "mm", t)
<1>1. /\ pc[t] = <<"execMmap">> /\ Leaves(t) /\ pc' = [pc EXCEPT ![t] = <<"user">>]
      /\ refs' = [put EXCEPT !["mm"][o] = 1]
      /\ ptr' = [ptr EXCEPT ![t].mm = o]
      /\ UNCHANGED <<st, child, flags, pids, counts, vforkVars, signalVars, faulty>>
  BY DEF ExecMmap, Goto, Leaves, Leaving
<1>2. /\ t \in Linked /\ ~Copying(t) /\ ~New(t) /\ ~Wakes(t) /\ ~InVfork(t) /\ ~Waits(t)
      /\ lender[t] = NoTask
      /\ \A p \in Task : child[p] = t => InVfork(p)
  BY <1>1, LeavingApart
<1>3. /\ "mm" \in Resource /\ m \in Object
      /\ \A r \in Resource : \A x \in Object : refs[r][x] \in Int
  BY <1>2 DEF IInv, Types, Pointers, Resource
<1>4. /\ \A p \in Task \ {t} : pc'[p] = pc[p]
      /\ pc' \in [Task -> Places] /\ pc'[t] = <<"user">>
  BY <1>1 DEF IInv, Types, Places
<1>5. \A p \in Task : /\ Copying(p)' <=> Copying(p)
                      /\ Copying(p) => p # t
                      /\ New(p)' <=> New(p)
                      /\ Wakes(p)' <=> Wakes(p)
                      /\ InVfork(p)' <=> InVfork(p)
                      /\ Waits(p)' <=> Waits(p)
                      /\ Leaves(p)' => Leaves(p)
  BY <1>2, <1>4 DEF Copying, New, Wakes, InVfork, Waits, Leaves, Vfork, Leaving
<1>6. Linked' = Linked /\ \A p \in Task : Quiet(p)
  <2>1. ASSUME NEW p \in Task PROVE Quiet(p)
    BY <1>1, <1>4, <1>5 DEF Quiet
  <2> QED
    BY <1>1, <2>1 DEF Linked
<1>7. /\ t \in Owners("mm") /\ t \in Users("mm", m)
      /\ \A r \in Resource : Owners(r)' = Owners(r) /\ Owners(r) \subseteq Task
  BY <1>2, <1>6, QuietHavers, Finite DEF Owners, Users
<1>8. \A x \in Object :
        /\ put["mm"][x] = refs["mm"][x] - (IF x = m THEN 1 ELSE 0)
        /\ put["mm"][x] = Cardinality(Users("mm", x) \ {t})
  <2>1. \A x \in Object : put["mm"][x] = refs["mm"][x] - (IF x = m THEN 1 ELSE 0)
    BY <1>3 DEF IInv, Types
  <2> SUFFICES ASSUME NEW x \in Object
               PROVE  put["mm"][x] = Cardinality(Users("mm", x) \ {t})
    BY <2>1
  <2> HIDE DEF put
  <2>2. refs["mm"][x] = Cardinality(Users("mm", x)) /\ IsFiniteSet(Users("mm", x))
    BY <1>3, Finite DEF IInv, References
  <2>3. CASE x = m
    <3>1. Cardinality(Users("mm", x) \ {t}) = Cardinality(Users("mm", x)) - 1
      BY <1>7, <2>2, <2>3, FS_RemoveElement
    <3> QED
      BY <2>1, <2>2, <2>3, <3>1
  <2>4. CASE x # m
    <3>1. Users("mm", x) \ {t} = Users("mm", x)
      BY <2>4 DEF Users
    <3>2. refs["mm"][x] - 0 = refs["mm"][x]
      BY <1>3
    <3> QED
      BY <2>1, <2>2, <2>4, <3>1, <3>2
  <2> QED
    BY <2>3, <2>4
<1>9. o \in Object /\ put["mm"][o] = 0 /\ Users("mm", o) \ {t} = {}
  <2> DEFINE users == [x \in Object |-> Users("mm", x) \ {t}]
  <2>1. Tallies(put["mm"], users, Owners("mm") \ {t})
    <3>1. Owners("mm") \ {t} \subseteq Task /\ Owners("mm") \ {t} # Task
      BY <1>3, <1>7
    <3>2. \A x \in Object : /\ users[x] \subseteq Owners("mm") \ {t}
                            /\ put["mm"][x] = Cardinality(users[x])
      BY <1>8 DEF Users
    <3>3. \A x, y \in Object : x # y => users[x] \cap users[y] = {}
      BY DEF Users
    <3> HIDE DEF users, put
    <3> QED
      BY <3>1, <3>2, <3>3 DEF Tallies
  <2>2. o \in Object /\ put["mm"][o] = 0 /\ users[o] = {}
    <3> HIDE DEF users, put
    <3> QED
      BY <2>1, FreeIs
  <2> QED
    BY <2>2
<1>10. /\ \A r \in Resource : \A x \in Object :
            refs'[r][x] = IF r = "mm" THEN IF x = o THEN 1 ELSE put["mm"][x] ELSE refs[r][x]
       /\ refs' \in [Resource -> [Object -> Int]]
  <2>1. put \in [Resource -> [Object -> Int]]
    BY <1>3 DEF IInv, Types
  <2>2. \A r \in Resource : r # "mm" => put[r] = refs[r]
    BY DEF IInv, Types
  <2> HIDE DEF put, o
  <2> QED
    BY <1>1, <1>3, <1>9, <2>1, <2>2
<1> HIDE DEF put, o
<1>11. /\ ptr' \in [Task -> [Resource -> Object \cup {NoObject}]]
       /\ \A v \in Task : \A r \in Resource :
            ptr'[v][r] = IF v = t /\ r = "mm" THEN o ELSE ptr[v][r]
       /\ \A v \in Task \ {t} : ptr'[v] = ptr[v]
       /\ ptr'[t] \in [Resource -> Object]
  <2>1. ptr \in [Task -> [Resource -> Object \cup {NoObject}]]
        /\ ptr[t] \in [Resource -> Object]
    BY <1>2 DEF IInv, Types, Pointers
  <2>2. ptr' = [ptr EXCEPT ![t]["mm"] = o]
    BY <1>1
  <2> QED
    BY <1>3, <1>9, <2>1, <2>2
<1>12. Types' /\ SignalTypes' /\ NoFault'
  <2>1. SignalTypes' /\ NoFault'
    BY <1>1 DEF IInv, SignalTypes, NoFault, signalVars
  <2>2. Types'
    BY <1>1, <1>4, <1>10, <1>11 DEF IInv, Types, vforkVars, signalVars
  <2> QED
    BY <2>1, <2>2
<1>13. Families' /\ OneParent'
  <2>1. OneParent'
    BY <1>1 DEF IInv, OneParent
  <2>2. ASSUME NEW p \in Task, p # t PROVE Family(p)'
    <3>1. \A q \in Task : pc'[q] = <<"new">> <=> New(q)
      BY <1>5 DEF New
    <3>2. child[p] # NoTask => child[p] \in Task
      BY DEF IInv, Types
    <3>3. \A q \in Task : st'[q] = st[q] /\ (q \in usage => q \in usage')
      BY <1>1 DEF vforkVars
    <3>4. UNCHANGED <<pc[p], child[p]>>
      BY <1>1, <1>4, <2>2
    <3> QED
      BY <3>1, <3>2, <3>3, <3>4, FamilyStays
  <2>3. Family(t)'
    <3>1. child'[t] = NoTask
      BY <1>1, LeavingApart
    <3> QED
      BY <1>2, <1>5, <3>1 DEF Family
  <2> QED
    BY <2>1, <2>2, <2>3 DEF Families
<1>14. Running'
  BY <1>1, <1>5 DEF IInv, Running, vforkVars, signalVars
<1>15. Pointers'
  <2>1. \A v \in Linked' : ptr'[v] \in [Resource -> Object]
    BY <1>6, <1>11 DEF IInv, Pointers, Linked
  <2>2. ASSUME NEW p \in Task, Copying(p)'
        PROVE  /\ ptr'[child'[p]] \in [Resource -> Object]
               /\ "THREAD" \in flags'[p] => ptr'[child'[p]].signal = ptr'[p].signal
    <3>1. Copying(p) /\ p # t /\ child[p] \in Task \ {t} /\ child'[p] = child[p]
      BY <1>1, <1>2, <1>5, <2>2, ChildApart
    <3> QED
      BY <1>1, <1>11, <3>1 DEF IInv, Pointers
  <2> QED
    BY <2>1, <2>2 DEF Pointers
<1>16. References'
  <2> SUFFICES ASSUME NEW r \in Resource, NEW x \in Object
               PROVE  refs'[r][x] = Cardinality(Users(r, x)')
    BY DEF References
  <2>1. refs[r][x] = Cardinality(Users(r, x))
    BY DEF IInv, References
  <2>2. CASE r # "mm"
    <3>1. Users(r, x)' = Users(r, x)
      BY <1>7, <1>11, <2>2 DEF Users
    <3> QED
      BY <1>10, <2>1, <2>2, <3>1
  <2>3. CASE r = "mm" /\ x = o
    <3>1. \A v \in Owners("mm") : ptr'[v]["mm"] = o <=> v = t
      BY <1>3, <1>7, <1>9, <1>11 DEF Users
    <3>2. Users(r, x)' = {t}
      BY <1>7, <2>3, <3>1 DEF Users
    <3> QED
      BY <1>10, <2>3, <3>2, FS_Singleton
  <2>4. CASE r = "mm" /\ x # o
    <3>1. \A v \in Owners("mm") : ptr'[v]["mm"] = x <=> ptr[v]["mm"] = x /\ v # t
      BY <1>3, <1>7, <1>11, <2>4
    <3>2. Users(r, x)' = Users(r, x) \ {t}
      BY <1>7, <2>4, <3>1 DEF Users
    <3> QED
      BY <1>8, <1>10, <2>4, <3>2
  <2> QED
    BY <2>2, <2>3, <2>4
<1>17. OwnSignal'
  <2>1. \A p \in Task : Owns(p, "signal")' => Owns(p, "signal") /\ child'[p] = child[p]
    BY <1>6, QuietHavers
  <2>2. \A v \in Task : ptr'[v].signal = ptr[v].signal
    BY <1>11 DEF Resource
  <2>3. Owners("signal")' = Owners("signal") /\ Owners("signal") \subseteq Task
    BY <1>7 DEF Resource
  <2>4. \A p \in Task : Owns(p, "signal") => child[p] \in Task
    BY ChildApart DEF Owns, Takes
  <2> QED
    BY <2>1, <2>2, <2>3, <2>4 DEF IInv, OwnSignal
<1>18. Counters'
  BY <1>1, <1>6, QuietHavers DEF IInv, Counters
<1>19. Completions'
  <2>1. \A p \in Task : Copying(p)' => Copying(p) /\ pc'[p] = pc[p]
    BY <1>4, <1>5
  <2> QED
    BY <1>1, <1>5, <1>6, <2>1 DEF IInv, Completions, vforkVars
<1>20. Lent'
  BY <1>1, <1>5 DEF IInv, Types, Lent, vforkVars, signalVars
<1>21. NoneSlipsOut'
  <2>1. \A v \in Linked : ptr'[v].signal = ptr[v].signal
    BY <1>11 DEF Resource, Linked
  <2> QED
    BY <1>1, <1>6, <2>1 DEF IInv, NoneSlipsOut, Group, signalVars
<1> QED
  BY <1>12, <1>13, <1>14, <1>15, <1>16, <1>17, <1>18, <1>19, <1>20, <1>21 DEF IInv

\* do_exit() and release_task(): the task puts all it has.
LEMMA ExitIInv == ASSUME IInv, NEW t \in Task, Exit(t) PROVE IInv'
<1>1. /\ pc[t] = <<"exit">> /\ Leaves(t) /\ pc' = [pc EXCEPT ![t] = <<"new">>]
      /\ st' = [st EXCEPT ![t] = IF t \in usage THEN "dead" ELSE "none"]
      /\ Put(t, Resource)
      /\ ptr' = [ptr EXCEPT ![t] = NoPtr]
      /\ pids' = pids \ {t}
      /\ counts' = [counts EXCEPT !.processes = @ - 1, !.threads = @ - 1, !.module = @ - 1]
      /\ lender' = [u \in Task |-> IF lender[u] = t THEN NoTask ELSE lender[u]]
      /\ pending' = [pending EXCEPT ![t] = FALSE]
      /\ struck' = (struck /\ Linked # {t})
      /\ UNCHANGED <<child, flags, usage, vforkDone, completion, faulty>>
  BY DEF Exit, Goto, Leaves, Leaving
<1>2. /\ t \in Linked /\ ~Copying(t) /\ ~New(t) /\ ~Wakes(t) /\ ~InVfork(t) /\ ~Waits(t)
      /\ child[t] = NoTask /\ lender[t] = NoTask
      /\ \A p \in Task : child[p] = t => InVfork(p)
  BY <1>1, LeavingApart
<1>3. /\ \A p \in Task \ {t} : UNCHANGED <<pc[p], st[p], ptr[p], pending[p]>>
      /\ pc' \in [Task -> Places] /\ pc'[t] = <<"new">>
      /\ st' \in [Task -> {"none", "embryo", "linked", "dead"}]
      /\ st'[t] = IF t \in usage THEN "dead" ELSE "none"
      /\ ptr' \in [Task -> [Resource -> Object \cup {NoObject}]]
      /\ pending' \in [Task -> BOOLEAN] /\ ~pending'[t]
  BY <1>1 DEF IInv, Types, Places, NoPtr
<1>4. /\ \A p \in Task : Copying(p)' <=> Copying(p)
      /\ \A p \in Task : Copying(p) => p # t /\ pc'[p] = pc[p]
      /\ \A p \in Task : New(p)' <=> New(p) \/ p = t
      /\ \A p \in Task : Wakes(p)' <=> Wakes(p)
      /\ \A p \in Task : InVfork(p)' <=> InVfork(p)
      /\ \A p \in Task : Waits(p)' <=> Waits(p)
      /\ \A p \in Task : Leaves(p)' => Leaves(p)
  BY <1>2, <1>3 DEF Copying, New, Wakes, InVfork, Waits, Leaves, Vfork, Leaving
<1>5. Others(t) /\ Linked' = Linked \ {t}
  <2>1. Others(t)
    BY <1>1, <1>3 DEF Others
  <2>2. \A v \in Task : st'[v] = "linked" <=> st[v] = "linked" /\ v # t
    BY <1>3
  <2> QED
    BY <2>1, <2>2 DEF Linked
<1>6. \A r : t \notin OtherHavers(t, r) \cup OtherOwners(t, r)
  <2>1. \A p \in Task : Copying(p) => child[p] # t
    BY <1>2 DEF Copying, InVfork, Vfork
  <2> QED
    BY <2>1 DEF OtherHavers, OtherOwners, Takes, Owns
<1>7. /\ \A r : Havers(r)' = Havers(r) \ {t} /\ t \in Havers(r)
      /\ \A r : Owners(r)' = Owners(r) \ {t} /\ t \in Owners(r)
      /\ Changers' = Changers
  <2>1. \A r : /\ ~Takes(t, r) /\ ~Owns(t, r)
               /\ Takes(t, r)' <=> FALSE
               /\ Owns(t, r)' <=> FALSE
    BY <1>2, <1>4 DEF Takes, Owns
  <2>2. ASSUME NEW r PROVE Havers(r)' = Havers(r) \ {t} /\ t \in Havers(r)
    <3>1. Havers(r) = Linked \cup OtherHavers(t, r) \cup {}
      BY <2>1, Split
    <3>2. Havers(r)' = Linked' \cup OtherHavers(t, r) \cup {}
      BY <1>5, <2>1, SplitNext
    <3> QED
      BY <1>2, <1>5, <1>6, <3>1, <3>2
  <2>3. ASSUME NEW r PROVE Owners(r)' = Owners(r) \ {t} /\ t \in Owners(r)
    <3>1. Owners(r) = Linked \cup OtherOwners(t, r) \cup {}
      BY <2>1, Split
    <3>2. Owners(r)' = Linked' \cup OtherOwners(t, r) \cup {}
      BY <1>5, <2>1, SplitNext
    <3> QED
      BY <1>2, <1>5, <1>6, <3>1, <3>2
  <2>4. Changers' = Changers
    <3>1. Changers = OtherChangers(t) /\ Changers' = OtherChangers(t)
      BY <1>5, <2>1, Split, SplitNext
    <3> QED
      BY <3>1
  <2> QED
    BY <2>2, <2>3, <2>4
<1>8. /\ \A r \in Resource : \A o \in Object :
            refs'[r][o] = refs[r][o] - (IF ptr[t][r] = o THEN 1 ELSE 0)
      /\ refs' \in [Resource -> [Object -> Int]]
      /\ \A r \in Resource : \A o \in Object : refs[r][o] \in Int
  <2>1. /\ refs' = [r \in Resource |-> [o \in Object |->
             refs[r][o] - (IF r \in Resource /\ ptr[t][r] = o THEN 1 ELSE 0)]]
        /\ \A r \in Resource : \A o \in Object : refs[r][o] \in Int
    BY <1>1 DEF Put, IInv, Types
  <2> QED
    BY <2>1
<1>9. Types' /\ SignalTypes' /\ NoFault'
  <2>1. SignalTypes' /\ NoFault'
    BY <1>1 DEF IInv, SignalTypes, NoFault
  <2>2. counts' \in Counts
    <3>1. /\ counts \in Counts /\ counts.processes - 1 \in Int
          /\ counts.threads - 1 \in Int /\ counts.module - 1 \in Int
      BY DEF IInv, Types, Counts
    <3> QED
      BY <1>1, <3>1 DEF Counts
  <2>3. lender' \in [Task -> Task \cup {NoTask}] /\ pids' \subseteq Task
    BY <1>1 DEF IInv, Types
  <2>4. Types'
    BY <1>1, <1>3, <1>8, <2>2, <2>3 DEF IInv, Types
  <2> QED
    BY <2>1, <2>4
<1>10. Families' /\ OneParent'
  <2>1. OneParent'
    BY <1>1 DEF IInv, OneParent
  <2>2. ASSUME NEW p \in Task, child[p] # t, p # t PROVE Family(p)'
    <3>1. child[p] # NoTask => child[p] \in Task \ {t}
      BY <2>2 DEF IInv, Types
    <3>2. \A q \in Task \ {t} : (pc'[q] = <<"new">> <=> New(q)) /\ st'[q] = st[q]
      BY <1>3, <1>4 DEF New
    <3>3. UNCHANGED <<pc[p], child[p], usage>>
      BY <1>1, <1>3, <2>2
    <3> QED
      BY <3>1, <3>2, <3>3, FamilyStays
  <2>3. ASSUME NEW p \in Task, child[p] = t, p # t PROVE Family(p)'
    <3>1. InVfork(p) /\ t \in usage /\ ~Copying(p) /\ ~Wakes(p)
      BY <1>2, <2>3 DEF IInv, Families, Family, InVfork, Copying, Wakes, Vfork
    <3> QED
      BY <1>1, <1>3, <1>4, <2>3, <3>1, ForkAssumption DEF Family
  <2>4. Family(t)'
    BY <1>1, <1>2, <1>4 DEF Family
  <2> QED
    BY <2>1, <2>2, <2>3, <2>4 DEF Families
<1>11. Running'
  BY <1>1, <1>3, <1>4 DEF IInv, Running
<1>12. Pointers'
  <2>1. \A v \in Linked' : ptr'[v] \in [Resource -> Object]
    BY <1>3, <1>5 DEF IInv, Pointers, Linked
  <2>2. ASSUME NEW p \in Task, Copying(p)'
        PROVE  /\ ptr'[child'[p]] \in [Resource -> Object]
               /\ "THREAD" \in flags'[p] => ptr'[child'[p]].signal = ptr'[p].signal
    <3>1. Copying(p) /\ p # t /\ child[p] \in Task \ {t} /\ child'[p] = child[p]
      BY <1>1, <1>2, <1>4, <2>2, ChildApart
    <3> QED
      BY <1>1, <1>3, <3>1 DEF IInv, Pointers
  <2> QED
    BY <2>1, <2>2 DEF Pointers
<1>13. References'
  <2> SUFFICES ASSUME NEW r \in Resource, NEW o \in Object
               PROVE  refs'[r][o] = Cardinality(Users(r, o)')
    BY DEF References
  <2>1. refs[r][o] = Cardinality(Users(r, o)) /\ IsFiniteSet(Users(r, o))
    BY Finite DEF IInv, References
  <2>2. Owners(r) \subseteq Task
    BY Finite
  <2>3. Users(r, o)' = Users(r, o) \ {t}
    BY <1>3, <1>7, <2>2 DEF Users
  <2>4. t \in Users(r, o) <=> ptr[t][r] = o
    BY <1>7 DEF Users
  <2>5. CASE ptr[t][r] = o
    <3>1. Cardinality(Users(r, o) \ {t}) = Cardinality(Users(r, o)) - 1
      BY <2>1, <2>4, <2>5, FS_RemoveElement
    <3>2. refs'[r][o] = refs[r][o] - 1
      BY <1>8, <2>5
    <3> QED
      BY <2>1, <2>3, <3>1, <3>2
  <2>6. CASE ptr[t][r] # o
    <3>1. Users(r, o)' = Users(r, o)
      BY <2>3, <2>4, <2>6
    <3>2. refs'[r][o] = refs[r][o]
      BY <1>8, <2>6
    <3> QED
      BY <2>1, <3>1, <3>2
  <2> QED
    BY <2>5, <2>6
<1>14. OwnSignal'
  <2> SUFFICES ASSUME NEW p \in Task, NEW v \in Owners("signal")', Owns(p, "signal")',
                      v # child'[p]
               PROVE  ptr'[child'[p]].signal # ptr'[v].signal
    BY DEF OwnSignal
  <2>1. Owns(p, "signal") /\ child'[p] = child[p] /\ Copying(p)
    BY <1>1, <1>4 DEF Owns, Takes
  <2>2. child[p] \in Task \ {t} /\ v \in Owners("signal") /\ v \in Task \ {t}
    BY <1>2, <1>7, <2>1, ChildApart, Finite
  <2> QED
    BY <1>3, <2>1, <2>2 DEF IInv, OwnSignal
<1>15. Counters'
  <2>1. \A S : IsFiniteSet(S) /\ t \in S => Cardinality(S \ {t}) = Cardinality(S) - 1
    BY FS_RemoveElement
  <2>2. /\ Cardinality(Havers("creds")') = Cardinality(Havers("creds")) - 1
        /\ Cardinality(Havers("module")') = Cardinality(Havers("module")) - 1
        /\ Cardinality(Linked') = Cardinality(Linked) - 1
    BY <1>2, <1>5, <1>7, <2>1, Finite
  <2>3. /\ counts'.processes = counts.processes - 1 /\ counts'.threads = counts.threads - 1
        /\ counts'.module = counts.module - 1 /\ counts'.changing = counts.changing
    BY <1>1 DEF IInv, Types, Counts
  <2> QED
    BY <1>1, <1>7, <2>2, <2>3 DEF IInv, Counters
<1>16. Completions'
  BY <1>1, <1>4, <1>5 DEF IInv, Completions
<1>17. Lent'
  <2> SUFFICES ASSUME NEW v \in Task
               PROVE  /\ lender'[v] # NoTask =>
                           \/ pending'[lender'[v]]
                           \/ /\ pc'[lender'[v]] = <<"vforkWait">>
                              /\ completion'[lender'[v]] = "waited"
                              /\ child'[lender'[v]] = v
                      /\ New(v)' \/ Leaves(v)' => lender'[v] = NoTask
    BY DEF Lent, Waits
  <2>1. lender'[v] = IF lender[v] = t THEN NoTask ELSE lender[v]
    BY <1>1
  <2>2. CASE lender[v] \in Task \ {t}
    <3>1. /\ pending'[lender[v]] = pending[lender[v]] /\ pc'[lender[v]] = pc[lender[v]]
          /\ lender'[v] = lender[v] /\ lender[v] # NoTask
      BY <1>3, <2>1, <2>2, ForkAssumption
    <3>2. v # t
      BY <1>2, <3>1
    <3> QED
      BY <1>1, <1>4, <3>1, <3>2 DEF IInv, Lent, Waits
  <2>3. CASE lender[v] = t \/ lender[v] = NoTask
    BY <2>1, <2>3
  <2> QED
    BY <2>2, <2>3 DEF IInv, Types
<1>18. NoneSlipsOut'
  BY <1>1, <1>3, <1>5 DEF IInv, NoneSlipsOut, Group, Linked
<1> QED
  BY <1>9, <1>10, <1>11, <1>12, <1>13, <1>14, <1>15, <1>16, <1>17, <1>18 DEF IInv

-------------------------------------------------------------------------------
(* The theorems.                                                           *)

\* One task from outside, with an object of each kind.
LEMMA InitIInv == Init => IInv
<1> SUFFICES ASSUME Init PROVE IInv
  OBVIOUS
<1> DEFINE t0 == CHOOSE t \in Task : TRUE
<1>1. t0 \in Task /\ t0 # NoTask
  BY ForkAssumption
<1>2. /\ st = [t \in Task |-> IF t = t0 THEN "linked" ELSE "none"]
      /\ pc = [t \in Task |-> IF t = t0 THEN <<"user">> ELSE <<"new">>]
      /\ child = [t \in Task |-> NoTask]
      /\ flags = [t \in Task |-> {}]
      /\ ptr = [t \in Task |-> IF t = t0 THEN [r \in Resource |-> t0] ELSE NoPtr]
      /\ refs = [r \in Resource |-> [o \in Object |-> IF o = t0 THEN 1 ELSE 0]]
      /\ counts = [processes |-> 1, threads |-> 1, module |-> 1, changing |-> 0]
      /\ pids = {t0}
      /\ usage = {}
      /\ vforkDone = [t \in Task |-> NoTask]
      /\ completion = [t \in Task |-> "none"]
      /\ lender = [t \in Task |-> NoTask]
      /\ pending = [t \in Task |-> FALSE]
      /\ struck = FALSE
      /\ faulty = FALSE
  BY DEF Init
<1> HIDE DEF t0
<1>3. \A t \in Task : /\ ~Copying(t) /\ ~Wakes(t) /\ ~InVfork(t) /\ ~Leaves(t)
                      /\ New(t) <=> t # t0
  BY <1>2 DEF Copying, Wakes, InVfork, Leaves, New, Vfork, Leaving
<1>4. Linked = {t0}
  BY <1>1, <1>2 DEF Linked
<1>5. /\ \A r : Havers(r) = {t0}
      /\ \A r : Owners(r) = {t0}
      /\ Changers = {}
      /\ \A t \in Task : ~Owns(t, "signal")
  <2>1. \A t \in Task : \A r : ~Takes(t, r) /\ ~Owns(t, r)
    BY <1>3 DEF Takes, Owns
  <2> QED
    BY <1>4, <2>1 DEF Havers, Owners, Changers
<1>6. Types
  <2>1. /\ st \in [Task -> {"none", "embryo", "linked", "dead"}]
        /\ pc \in [Task -> Places]
        /\ child \in [Task -> Task \cup {NoTask}] /\ flags \in [Task -> SUBSET Flag]
    BY <1>2 DEF Places
  <2>2. ptr \in [Task -> [Resource -> Object \cup {NoObject}]]
    BY <1>1, <1>2 DEF NoPtr, Object
  <2>3. refs \in [Resource -> [Object -> Int]] /\ counts \in Counts
    BY <1>2 DEF Counts
  <2>4. /\ pids \subseteq Task /\ usage \subseteq Task
        /\ vforkDone \in [Task -> Task \cup {NoTask}]
        /\ completion \in [Task -> {"none", "waited", "done"}]
        /\ lender \in [Task -> Task \cup {NoTask}]
        /\ pending \in [Task -> BOOLEAN]
    BY <1>1, <1>2
  <2> QED
    BY <2>1, <2>2, <2>3, <2>4 DEF Types
<1>7. SignalTypes /\ NoFault
  BY <1>2 DEF SignalTypes, NoFault
<1>8. Families /\ OneParent
  BY <1>2, <1>3 DEF Families, Family, OneParent
<1>9. Running
  BY <1>2, <1>3 DEF Running
<1>10. Pointers /\ OwnSignal
  BY <1>1, <1>2, <1>3, <1>4, <1>5 DEF Pointers, OwnSignal, Object
<1>11. References
  <2> SUFFICES ASSUME NEW r \in Resource, NEW o \in Object
               PROVE  refs[r][o] = Cardinality(Users(r, o))
    BY DEF References
  <2>1. ptr[t0][r] = t0 /\ refs[r][o] = IF o = t0 THEN 1 ELSE 0
    BY <1>1, <1>2
  <2>2. Users(r, o) = IF o = t0 THEN {t0} ELSE {}
    BY <1>5, <2>1 DEF Users
  <2> QED
    BY <2>1, <2>2, FS_Singleton, FS_EmptySet
<1>12. Counters
  BY <1>2, <1>4, <1>5, FS_Singleton, FS_EmptySet DEF Counters
<1>13. Completions
  BY <1>2, <1>3, <1>4 DEF Completions, Linked
<1>14. Lent
  BY <1>2 DEF Lent
<1>15. NoneSlipsOut
  BY <1>2 DEF NoneSlipsOut, Group, Linked
<1> QED
  BY <1>6, <1>7, <1>8, <1>9, <1>10, <1>11, <1>12, <1>13, <1>14, <1>15 DEF IInv

\* Every action.
LEMMA NextIInv == IInv /\ [Next]_vars => IInv'
<1> SUFFICES ASSUME IInv, [Next]_vars PROVE IInv'
  OBVIOUS
<1>1. CASE UNCHANGED vars
  BY <1>1, StutterIInv
<1>2. CASE Kill
  BY <1>2, KillIInv
<1>3. CASE Gone
  BY <1>3, StutterIInv DEF Gone
<1>4. ASSUME NEW t \in Task, Fork(t) \/ ExecRelease(t) \/ ExitRelease(t) \/ InKernel(t)
      PROVE  IInv'
  <2>1. CASE Fork(t)
    BY <2>1, ForkIInv
  <2>2. CASE ExecRelease(t)
    BY <2>2, ExecReleaseIInv
  <2>3. CASE ExitRelease(t)
    BY <2>3, ExitReleaseIInv
  <2>4. CASE CopyProcess(t)
    BY <2>4, CopyCredsIInv, CopyModuleIInv, CopyPrivateIInv, CopySharedIInv, AllocPidIInv,
          LinkIInv DEF CopyProcess
  <2>5. CASE BadFork(t)
    BY <2>5, BadForkIInv
  <2>6. CASE WakeUpNew(t)
    BY <2>6, WakeUpNewIInv
  <2>7. CASE VforkDone(t) \/ VforkKilled(t) \/ VforkForget(t)
    BY <2>7, VforkDoneIInv, VforkKilledIInv, VforkForgetIInv
  <2>8. CASE CompleteVfork(t)
    BY <2>8, CompleteVforkIInv
  <2>9. CASE ExecMmap(t)
    BY <2>9, ExecMmapIInv
  <2>10. CASE Exit(t)
    BY <2>10, ExitIInv
  <2> QED
    BY <1>4, <2>1, <2>2, <2>3, <2>4, <2>5, <2>6, <2>7, <2>8, <2>9, <2>10 DEF InKernel
<1> QED
  BY <1>1, <1>2, <1>3, <1>4 DEF Next

\* The inductive invariant, for any finite set of tasks and any flags.
THEOREM Invariant == Spec => []IInv
BY InitIInv, NextIInv, PTL DEF Spec

\* A reference count is never more than the tasks, and a task has every object that it
\* points to (copy_process(), do_exit(), exec_mmap()).
THEOREM TypeOKHolds == Spec => []TypeOK
<1>1. IInv => TypeOK
  <2> SUFFICES ASSUME IInv PROVE TypeOK
    OBVIOUS
  <2>1. ASSUME NEW r \in Resource, NEW o \in Object
        PROVE  refs[r][o] \in 0 .. Cardinality(Task)
    <3>1. refs[r][o] = Cardinality(Users(r, o)) /\ Users(r, o) \in SUBSET Task
      BY Finite DEF IInv, References
    <3> QED
      BY <3>1, ForkAssumption, FS_Subset, FS_CardinalityType
  <2>2. refs \in [Resource -> [Object -> 0 .. Cardinality(Task)]]
    BY <2>1 DEF IInv, Types
  <2>3. ASSUME NEW t \in Task, st[t] = "linked", NEW r \in Resource
        PROVE  refs[r][ptr[t][r]] > 0
    <3>1. t \in Linked /\ ptr[t][r] \in Object
      BY <2>3 DEF IInv, Pointers, Linked
    <3>2. t \in Users(r, ptr[t][r])
      BY <3>1 DEF Users, Owners
    <3>3. /\ refs[r][ptr[t][r]] = Cardinality(Users(r, ptr[t][r]))
          /\ IsFiniteSet(Users(r, ptr[t][r]))
      BY <3>1, Finite DEF IInv, References
    <3> QED
      BY <3>2, <3>3, FS_EmptySet, FS_CardinalityType
  <2> QED
    BY <2>2, <2>3 DEF TypeOK, IInv, Types, SignalTypes
<1> QED
  BY <1>1, Invariant, PTL

\* Whatever clones fail, and wherever: every object is referenced by as many as have
\* it, every counter is exact, and nothing is put that was not there.
THEOREM CountsExactHolds == Spec => []CountsExact
<1>1. IInv => CountsExact
  <2> SUFFICES ASSUME IInv PROVE CountsExact
    OBVIOUS
  <2>1. \A p \in Task : Copying(p) => child[p] \in Task /\ child[p] \notin Linked
    BY ChildApart
  <2>2. ASSUME NEW r PROVE Having(r) = Havers(r)
    BY <2>1 DEF Having, Havers, Takes, Copying
  <2>3. \A u \in Task : \A p \in Task : Copying(p) /\ child[p] = u =>
          (Thread(u) <=> "THREAD" \in flags[p])
    BY <2>1, ForkAssumption DEF Thread, IInv, OneParent
  <2>4. ASSUME NEW r
        PROVE  Owners(r) =
                 {u \in Having(r) : ~(r = "signal" /\ u \notin Linked /\ Thread(u))}
    <3>1. \A u \in Linked : u \in Owners(r) /\ u \in Having(r)
      BY DEF Owners, Having
    <3>2. \A u : u \notin Linked =>
            (u \in Owners(r) <=> u \in Having(r) /\ ~(r = "signal" /\ Thread(u)))
      BY <2>1, <2>2, <2>3 DEF Owners, Owns, Takes, Havers
    <3> QED
      BY <3>1, <3>2
  <2>5. Changers = {u \in Embryos("module") : Thread(u)}
    BY <2>1, <2>2, <2>3 DEF Embryos, Changers, Havers, Takes
  <2>6. ASSUME NEW r \in Resource, NEW o \in Object
        PROVE  LET owners == {u \in Having(r) :
                                ~(r = "signal" /\ u \notin Linked /\ Thread(u))}
               IN refs[r][o] = Cardinality({u \in owners : ptr[u][r] = o})
    BY <2>4 DEF IInv, References, Users
  <2> QED
    BY <2>2, <2>5, <2>6 DEF CountsExact, IInv, Counters, NoFault
<1> QED
  BY <1>1, Invariant, PTL

\* Nobody is without a signal that was sent to all of the group or the process.
THEOREM NoneSlipsOutHolds == Spec => []NoneSlipsOut
<1>1. IInv => NoneSlipsOut
  BY DEF IInv
<1> QED
  BY <1>1, Invariant, PTL

\* The completion that a task may write to is in a frame that is not left, and the task
\* that a vfork is to put is there.
THEOREM CompletionAliveHolds == Spec => []CompletionAlive
<1>1. IInv => CompletionAlive
  <2> SUFFICES ASSUME IInv PROVE CompletionAlive
    OBVIOUS
  <2>1. ASSUME NEW t \in Task, completion[t] # "none"
        PROVE  child[t] \in usage /\ st[child[t]] # "none"
    BY <2>1 DEF IInv, Completions, Families, Family
  <2> QED
    BY <2>1 DEF CompletionAlive, IInv, Completions
<1> QED
  BY <1>1, Invariant, PTL

\* While the child of a vfork uses the memory, the parent waits or has been killed.
THEOREM VmLentHolds == Spec => []VmLent
<1>1. IInv => VmLent
  BY DEF IInv, Lent, VmLent, Waits
<1> QED
  BY <1>1, Invariant, PTL

===============================================================================
