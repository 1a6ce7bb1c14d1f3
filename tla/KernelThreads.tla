----------------------------- MODULE KernelThreads -----------------------------
(***************************************************************************)
(* The threads of GeekOS (kthread.c of project2), with the processes that  *)
(* spawn and wait for each other (user.c, syscall.c): run queue, join      *)
(* queues, reference counts, graveyard and reaper, on one processor whose  *)
(* timer takes it away wherever interrupts are enabled, and the list of    *)
(* all threads, to which a thread is added with interrupts enabled.        *)
(*                                                                         *)
(* A step is what runs with interrupts disabled, or between two points     *)
(* where an interrupt matters.  A thread is the page of its object: a page *)
(* that was freed keeps its contents until it is used again, and it is     *)
(* used again for an object only.  A KASSERT that fails spins for ever, as *)
(* does a walk of a list that has a cycle: the thread alone, or with       *)
(* interrupts disabled the machine.                                        *)
(***************************************************************************)
EXTENDS Integers, Sequences, FiniteSets, SequencesExt

CONSTANTS
  Process,       \* pages of the objects of processes
  Init1,         \* the first process, that of the shell
  Main,          \* the thread of Main(), which waits for the first process
  Idle, Reaper,  \* the threads that Init_Scheduler() starts
  NoThread

ASSUME ThreadAssumption ==
  /\ Init1 \in Process
  /\ Main # Idle /\ Main # Reaper /\ Idle # Reaper
  /\ {Main, Idle, Reaper} \cap Process = {}
  /\ NoThread \notin Process \cup {Main, Idle, Reaper}

Thread == Process \cup {Main, Idle, Reaper}

VARIABLES
  current,       \* g_currentThread
  runQueue,      \* s_runQueue
  joinQueue,     \* joinQueue of each thread
  graveyard,     \* s_graveyardQueue
  reaperQueue,   \* s_reaperWaitQueue
  dying,         \* what Reaper() has taken from the graveyard
  threads,       \* the pages that are objects of threads
  alive, owner, refCount,
  pc,            \* where a thread is
  target,        \* the thread it is creating or joining
  head, tail,    \* s_allThreadList
  next, prev,    \* the links of each object in that list
  seen,          \* the tail that a thread has read in its add
  torn,          \* history: a thread was added behind one that was not the last, or
                 \* the last was removed while another was half added behind it
  stopped        \* the machine spins with interrupts disabled

queueVars == <<current, runQueue, joinQueue, graveyard, reaperQueue>>
objectVars == <<threads, alive, owner, refCount>>
listVars == <<head, tail, next, prev, seen, torn>>
vars == <<queueVars, dying, objectVars, listVars, pc, target, stopped>>

-------------------------------------------------------------------------------
\* PRIORITY_IDLE, PRIORITY_USER, PRIORITY_NORMAL
Priority(t) == IF t = Idle THEN 0 ELSE IF t \in Process THEN 1 ELSE 5

\* Find_Best(): where the first of the highest priority is.
Best(queue) ==
  CHOOSE i \in DOMAIN queue :
    \A j \in DOMAIN queue :
      /\ Priority(queue[i]) >= Priority(queue[j])
      /\ j < i => Priority(queue[i]) > Priority(queue[j])

\* Schedule(), or the return from an interrupt, with this run queue.
Schedule(queue) ==
  /\ current' = queue[Best(queue)]
  /\ runQueue' = RemoveAt(queue, Best(queue))

Goto(t, l) == pc' = [pc EXCEPT ![t] = l]
Runs(t, l) == ~stopped /\ current = t /\ pc[t] = l

\* Where a thread runs with interrupts enabled.
Interruptible == {"user", "add", "link", "back", "last", "created", "spawned",
                  "join", "exit", "destroy", "idle", "assertAdd", "assertSpawn",
                  "assertJoin"}

\* Main() has spawned the first process and waits for it, the reaper for the dead.
Init ==
  /\ current = Init1
  /\ runQueue = <<Idle>>
  /\ joinQueue = [t \in Thread |-> IF t = Init1 THEN <<Main>> ELSE <<>>]
  /\ graveyard = <<>> /\ reaperQueue = <<Reaper>> /\ dying = <<>>
  /\ threads = {Main, Idle, Reaper, Init1}
  /\ alive = [t \in Thread |-> t \in threads]
  /\ owner = [t \in Thread |-> IF t = Init1 THEN Main ELSE NoThread]
  /\ refCount = [t \in Thread |->
                   IF t = Init1 THEN 2 ELSE IF t \in threads THEN 1 ELSE 0]
  /\ pc = [t \in Thread |->
             IF t = Main THEN "joining" ELSE IF t = Idle THEN "idle"
             ELSE IF t = Reaper THEN "look" ELSE "user"]
  /\ target = [t \in Thread |-> IF t = Main THEN Init1 ELSE NoThread]
  /\ head = Main /\ tail = Init1
  /\ next = [t \in Thread |-> CASE t = Main -> Idle [] t = Idle -> Reaper
                                [] t = Reaper -> Init1 [] OTHER -> NoThread]
  /\ prev = [t \in Thread |-> CASE t = Idle -> Main [] t = Reaper -> Idle
                                [] t = Init1 -> Reaper [] OTHER -> NoThread]
  /\ seen = [t \in Thread |-> NoThread] /\ torn = FALSE
  /\ stopped = FALSE

-------------------------------------------------------------------------------
\* Yield() of the idle thread, and the timer: Make_Runnable(), Get_Next_Runnable().
Preempt ==
  /\ ~stopped /\ pc[current] \in Interruptible
  /\ Schedule(Append(runQueue, current))
  /\ UNCHANGED <<joinQueue, graveyard, reaperQueue, dying, objectVars, listVars, pc,
                 target, stopped>>

\* Mutant: the queue of the reaper is emptied and nobody is made runnable.
WokenNobody(t) == <<>>
\* Wake_Up() in Reap_Thread(): who runs again when this reference to t goes.
Woken(t) == IF refCount[t] = 1 THEN reaperQueue ELSE <<>>

\* Detach_Thread(), whose caller makes Woken(t) runnable; the last one to go calls
\* Reap_Thread().
Detach(t) ==
  /\ refCount' = [refCount EXCEPT ![t] = @ - 1]
  /\ IF refCount[t] = 1
     THEN graveyard' = Append(graveyard, t) /\ reaperQueue' = <<>>
     ELSE UNCHANGED <<graveyard, reaperQueue>>

-------------------------------------------------------------------------------
(* The list of all threads.                                                *)

\* The walk of Is_Member_Of_All_Thread_List() and Lookup_Thread(): one more step than
\* there are threads ends it, or it never ends.
Walk[n \in 0 .. Cardinality(Thread)] ==
  IF n = 0 THEN head
  ELSE LET t == Walk[n - 1] IN IF t = NoThread THEN NoThread ELSE next[t]
Listed == {Walk[n] : n \in DOMAIN Walk} \ {NoThread}
Endless == Walk[Cardinality(Thread)] # NoThread

\* The last was removed while another was half added behind it.
TornBy(t) == next[t] # NoThread /\ prev[next[t]] # t

\* Remove_From_All_Thread_List() of a thread that is found in it.
Unlink(t) ==
  /\ IF prev[t] # NoThread
     THEN next' = [next EXCEPT ![prev[t]] = next[t]] /\ UNCHANGED head
     ELSE head' = next[t] /\ UNCHANGED next
  /\ IF next[t] # NoThread
     THEN prev' = [prev EXCEPT ![next[t]] = prev[t]] /\ UNCHANGED tail
     ELSE tail' = prev[t] /\ UNCHANGED prev
  /\ torn' = (torn \/ TornBy(t))
  /\ UNCHANGED seen

-------------------------------------------------------------------------------
(* Sys_Spawn().                                                            *)

\* Up to Create_Thread(), Alloc_Page() and Init_Thread(), which clears the links too.  A
\* spawn that fails before has changed nothing.
Spawn(t) ==
  /\ t \in Process /\ Runs(t, "user")
  /\ \E u \in Process \ threads :
       /\ threads' = threads \cup {u}
       /\ alive' = [alive EXCEPT ![u] = TRUE]
       /\ owner' = [owner EXCEPT ![u] = t]
       /\ refCount' = [refCount EXCEPT ![u] = 2]
       /\ joinQueue' = [joinQueue EXCEPT ![u] = <<>>]
       /\ next' = [next EXCEPT ![u] = NoThread]
       /\ prev' = [prev EXCEPT ![u] = NoThread]
       /\ pc' = [pc EXCEPT ![u] = "user", ![t] = "add"]
       /\ target' = [target EXCEPT ![u] = NoThread, ![t] = u]
  /\ UNCHANGED <<current, runQueue, graveyard, reaperQueue, dying, head, tail, seen, torn,
                 stopped>>

\* Add_To_Back_Of_All_Thread_List(): KASSERT(!Is_Member_Of_All_Thread_List()), whose walk
\* may not end, and the tail is read.
ReadTail(t) ==
  /\ Runs(t, "add") /\ (Endless => target[t] \in Listed)
  /\ IF target[t] \in Listed
     THEN Goto(t, "assertAdd") /\ UNCHANGED <<next, seen>>
     ELSE /\ Goto(t, "link")
          /\ next' = [next EXCEPT ![target[t]] = NoThread]
          /\ seen' = [seen EXCEPT ![t] = tail]
  /\ UNCHANGED <<queueVars, dying, objectVars, head, tail, prev, torn, target, stopped>>

\* listPtr->tail->next = nodePtr, with the tail that was read; where there is none, the
\* thread is the only one of the list.
Link(t) ==
  /\ Runs(t, "link")
  /\ torn' = (torn \/ seen[t] # tail \/ (tail # NoThread /\ next[tail] # NoThread))
  /\ IF seen[t] = NoThread
     THEN /\ head' = target[t] /\ tail' = target[t]
          /\ prev' = [prev EXCEPT ![target[t]] = NoThread]
          /\ Goto(t, "created")
          /\ UNCHANGED next
     ELSE /\ next' = [next EXCEPT ![seen[t]] = target[t]]
          /\ Goto(t, "back")
          /\ UNCHANGED <<head, tail, prev>>
  /\ seen' = [seen EXCEPT ![t] = NoThread]
  /\ UNCHANGED <<queueVars, dying, objectVars, target, stopped>>

\* nodePtr->prev = listPtr->tail
LinkBack(t) ==
  /\ Runs(t, "back")
  /\ prev' = [prev EXCEPT ![target[t]] = tail]
  /\ Goto(t, "last")
  /\ UNCHANGED <<queueVars, dying, objectVars, head, tail, next, seen, torn, target,
                 stopped>>

\* listPtr->tail = nodePtr
MakeLast(t) ==
  /\ Runs(t, "last")
  /\ tail' = target[t]
  /\ Goto(t, "created")
  /\ UNCHANGED <<queueVars, dying, objectVars, head, next, prev, seen, torn, target, stopped>>

\* Make_Runnable_Atomic()
MakeRunnable(t) ==
  /\ Runs(t, "created")
  /\ runQueue' = Append(runQueue, target[t])
  /\ Goto(t, "spawned")
  /\ UNCHANGED <<current, joinQueue, graveyard, reaperQueue, dying, objectVars, listVars,
                 target, stopped>>

\* Spawn() after Start_User_Thread(): KASSERT(thread->refCount == 2)
Spawned(t) ==
  /\ Runs(t, "spawned")
  /\ Goto(t, IF refCount[target[t]] = 2 THEN "user" ELSE "assertSpawn")
  /\ target' = [target EXCEPT ![t] = NoThread]
  /\ UNCHANGED <<queueVars, dying, objectVars, listVars, stopped>>

-------------------------------------------------------------------------------
(* Sys_Wait() and Sys_Exit().                                              *)

\* Lookup_Thread(): the caller must be the owner of the thread with that pid, or is told
\* so and goes on; the walk is with interrupts disabled.
Lookup(t) ==
  /\ t \in Process /\ Runs(t, "user")
  /\ \/ \E u \in Thread \cap Listed :
          /\ owner[u] = t
          /\ target' = [target EXCEPT ![t] = u]
          /\ Goto(t, "join")
          /\ UNCHANGED stopped
     \/ Endless /\ stopped' = TRUE /\ UNCHANGED <<pc, target>>
  /\ UNCHANGED <<queueVars, dying, objectVars, listVars>>

\* Join(): while the thread is alive, Wait() in its queue; then Detach_Thread().  The
\* caller goes on with interrupts enabled, Main() to its end.
JoinLoop(t) ==
  LET u == target[t]
  IN \/ /\ alive[u]
        /\ joinQueue' = [joinQueue EXCEPT ![u] = Append(@, t)]
        /\ Goto(t, "joining")
        /\ Schedule(runQueue)
        /\ UNCHANGED <<graveyard, reaperQueue, refCount, target, stopped>>
     \/ /\ ~alive[u] /\ refCount[u] > 0
        /\ Detach(u)
        /\ runQueue' = runQueue \o Woken(u)
        /\ Goto(t, IF t = Main THEN "exit" ELSE "user")
        /\ target' = [target EXCEPT ![t] = NoThread]
        /\ UNCHANGED <<current, joinQueue, stopped>>
     \/ /\ ~alive[u] /\ refCount[u] = 0
        /\ stopped' = TRUE
        /\ UNCHANGED <<queueVars, refCount, pc, target>>

\* Join() of the owner, which KASSERTs that it is.
Join(t) ==
  /\ Runs(t, "join")
  /\ \/ owner[target[t]] = t /\ JoinLoop(t)
     \/ /\ owner[target[t]] # t
        /\ Goto(t, "assertJoin")
        /\ UNCHANGED <<queueVars, refCount, target, stopped>>
  /\ UNCHANGED <<dying, threads, alive, owner, listVars>>

\* Wait() returns in Join().
Rejoin(t) ==
  /\ Runs(t, "joining")
  /\ JoinLoop(t)
  /\ UNCHANGED <<dying, threads, alive, owner, listVars>>

\* Mutant: the owner is not told.
ExitSilent(t) ==
  /\ Runs(t, IF t = Main THEN "exit" ELSE "user")
  /\ alive' = [alive EXCEPT ![t] = FALSE]
  /\ Detach(t)
  /\ Schedule(runQueue \o Woken(t))
  /\ Goto(t, "dead")
  /\ UNCHANGED <<joinQueue, dying, threads, owner, listVars, target, stopped>>
\* Exit(): Wake_Up() of the join queue, Detach_Thread() and Schedule().
Exit(t) ==
  /\ Runs(t, IF t = Main THEN "exit" ELSE "user")
  /\ alive' = [alive EXCEPT ![t] = FALSE]
  /\ joinQueue' = [joinQueue EXCEPT ![t] = <<>>]
  /\ Detach(t)
  /\ Schedule(runQueue \o joinQueue[t] \o Woken(t))
  /\ Goto(t, "dead")
  /\ UNCHANGED <<dying, threads, owner, listVars, target, stopped>>

-------------------------------------------------------------------------------
(* Reaper(), with interrupts disabled when it looks at the graveyard.      *)

\* Wait() for a thread to die.
ReaperWaits ==
  /\ Runs(Reaper, "look") /\ graveyard = <<>>
  /\ reaperQueue' = Append(reaperQueue, Reaper)
  /\ Schedule(runQueue)
  /\ UNCHANGED <<joinQueue, graveyard, dying, objectVars, listVars, pc, target, stopped>>

\* Mutant: the graveyard is not cleared.
ReaperTakesKeeping ==
  /\ Runs(Reaper, "look") /\ graveyard # <<>>
  /\ dying' = graveyard
  /\ Goto(Reaper, "destroy")
  /\ Schedule(Append(runQueue, Reaper))
  /\ UNCHANGED <<joinQueue, graveyard, reaperQueue, objectVars, listVars, target, stopped>>
\* All of the graveyard is taken, and Yield().
ReaperTakes ==
  /\ Runs(Reaper, "look") /\ graveyard # <<>>
  /\ dying' = graveyard
  /\ graveyard' = <<>>
  /\ Goto(Reaper, "destroy")
  /\ Schedule(Append(runQueue, Reaper))
  /\ UNCHANGED <<joinQueue, reaperQueue, objectVars, listVars, target, stopped>>

\* Destroy_Thread(): the pages are free, and a new thread may take them; then
\* Remove_From_All_Thread_List(), which KASSERTs that it finds the thread.
DestroyThread ==
  LET t == Head(dying)
  IN /\ Runs(Reaper, "destroy") /\ dying # <<>>
     /\ \/ /\ t \in Listed
           /\ Unlink(t)
           /\ threads' = threads \ {t}
           /\ dying' = Tail(dying)
           /\ UNCHANGED stopped
        \/ /\ t \notin Listed
           /\ stopped' = TRUE
           /\ UNCHANGED <<listVars, threads, dying>>
     /\ UNCHANGED <<queueVars, alive, owner, refCount, pc, target>>

ReaperAgain ==
  /\ Runs(Reaper, "destroy") /\ dying = <<>>
  /\ Goto(Reaper, "look")
  /\ UNCHANGED <<queueVars, dying, objectVars, listVars, target, stopped>>

-------------------------------------------------------------------------------
\* A KASSERT, or a walk of the list of all threads, spins for ever.
Halted ==
  /\ stopped
  /\ UNCHANGED vars

\* What a thread does in the kernel, once it is there.
KernelStep(t) ==
  \/ ReadTail(t) \/ Link(t) \/ LinkBack(t) \/ MakeLast(t)
  \/ MakeRunnable(t) \/ Spawned(t) \/ Join(t) \/ Rejoin(t)
  \/ (t = Main /\ Exit(t))
ReaperStep == ReaperWaits \/ ReaperTakes \/ DestroyThread \/ ReaperAgain
\* What a process asks of it.
UserStep(t) == Spawn(t) \/ Lookup(t) \/ (t \in Process /\ Exit(t))

Next ==
  \/ Preempt
  \/ \E t \in Process : UserStep(t)
  \/ \E t \in Process \cup {Main} : KernelStep(t)
  \/ ReaperStep
  \/ Halted

Spec == Init /\ [][Next]_vars

\* The timer ticks, and a thread that gets the processor again and again moves on:
\* a quantum is many ticks.  No process has to make a system call.
Fairness ==
  /\ WF_vars(Preempt)
  /\ \A t \in Process \cup {Main} : SF_vars(KernelStep(t))
  /\ SF_vars(ReaperStep)
FairSpec == Spec /\ Fairness

-------------------------------------------------------------------------------
(* Correctness.                                                            *)

\* Where a thread is in a queue, and in the queues of joiners.
Places(t, queue) == {i \in DOMAIN queue : queue[i] = t}
JoinPlaces(t) == UNION {{u} \X Places(t, joinQueue[u]) : u \in Thread}
Links(t) ==
  Cardinality(Places(t, runQueue)) + Cardinality(Places(t, graveyard))
    + Cardinality(Places(t, reaperQueue)) + Cardinality(Places(t, dying))
    + Cardinality(JoinPlaces(t))
\* Created, and not yet made runnable.
InCreation == {"add", "link", "back", "last", "created", "assertAdd"}
Unstarted == {target[t] : t \in {u \in Process : pc[u] \in InCreation}}

\* A thread has one link for all the queues (Enqueue_Thread()): it is in one of them
\* at a time and in it once, the running thread is in none, every other that lives
\* and has been started is in one, and the run queue is never empty when it is asked for
\* a thread: the idle thread is in it or runs.
OneQueue ==
  /\ Links(current) = 0
  /\ \A t \in threads \ {current} :
       IF alive[t]
       THEN Links(t) = IF t \in Unstarted THEN 0 ELSE 1
       ELSE Links(t) = IF refCount[t] = 0 THEN 1 ELSE 0
  /\ current = Idle \/ Places(Idle, runQueue) # {}

\* In its creator's hands, and not yet behind the last of the list.
Unlinked == {target[t] : t \in {u \in Process : pc[u] \in {"add", "link", "assertAdd"}}}


\* A wake-up is not lost: nobody waits to join a thread that is dead, and the reaper
\* does not wait beside a thread that is to be destroyed.
NoLostWake ==
  /\ \A t \in Thread : joinQueue[t] # <<>> => alive[t]
  /\ reaperQueue # <<>> => graveyard = <<>>

\* What the graveyard holds is taken from it, and what was taken from it is destroyed,
\* unless the machine spins: a thread that is dead and that nobody refers to, which is in
\* one of the two (OneQueue), does not keep its pages.
DeadAreDone ==
  /\ (graveyard # <<>>) ~> (graveyard = <<>> \/ stopped)
  /\ (dying # <<>>) ~> (dying = <<>> \/ stopped)

\* Spawn() after it has started the child: "KASSERT(thread->refCount == 2);"
SpawnAsserts == \A t \in Thread : pc[t] # "assertSpawn"

===============================================================================
