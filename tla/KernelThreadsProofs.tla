------------------------- MODULE KernelThreadsProofs -------------------------
(***************************************************************************)
(* That no wake-up of KernelThreads is lost, and that a thread is never in *)
(* two queues, in none when it should be in one, or twice in one: for any  *)
(* set of processes.                                                       *)
(***************************************************************************)
EXTENDS KernelThreads, FiniteSetTheorems, SequenceTheorems, WellFoundedInduction, TLAPS

\* What the proof needs of the types: the queues and flags that a wake-up reads.
TypeInv ==
  /\ joinQueue \in [Thread -> Seq(Thread)]
  /\ alive \in [Thread -> BOOLEAN]
  /\ threads \subseteq Thread

\* One half of NoLostWake for the joiners, one for the reaper.
JoinersWaitForLiving == \A t \in Thread : joinQueue[t] # <<>> => alive[t]
ReaperWaitsForNone == reaperQueue # <<>> => graveyard = <<>>

IInv == TypeInv /\ JoinersWaitForLiving /\ ReaperWaitsForNone

-------------------------------------------------------------------------------
\* Main, the idle thread and the reaper are threads, and a step is of a thread.
LEMMA ThreadMembers == Process \subseteq Thread /\ {Main, Idle, Reaper} \subseteq Thread
BY DEF Thread

LEMMA InitIInv == Init => IInv
<1> SUFFICES ASSUME Init PROVE IInv
  OBVIOUS
<1>0. Main \in Thread
  BY ThreadMembers
<1>1. TypeInv
  <2>1. joinQueue \in [Thread -> Seq(Thread)]
    BY <1>0 DEF Init
  <2>2. alive \in [Thread -> BOOLEAN]
    BY DEF Init
  <2>3. threads \subseteq Thread
    BY ThreadAssumption DEF Init, Thread
  <2> QED
    BY <2>1, <2>2, <2>3 DEF TypeInv
<1>2. JoinersWaitForLiving
  BY DEF Init, JoinersWaitForLiving
<1>3. ReaperWaitsForNone
  BY DEF Init, ReaperWaitsForNone
<1> QED
  BY <1>1, <1>2, <1>3 DEF IInv

\* A step that leaves queues of joiners, flags, graveyard and reaper alone.
LEMMA QuietIInv ==
  ASSUME IInv, threads' \subseteq Thread,
         UNCHANGED <<joinQueue, alive, graveyard, reaperQueue>>
  PROVE  IInv'
BY DEF IInv, TypeInv, JoinersWaitForLiving, ReaperWaitsForNone

\* Detach_Thread() empties the reaper's queue with the step that fills the graveyard.
LEMMA DetachReaper ==
  ASSUME IInv, NEW t, Detach(t)
  PROVE  ReaperWaitsForNone'
<1>1. CASE reaperQueue' = <<>>
  BY <1>1 DEF ReaperWaitsForNone
<1>2. CASE UNCHANGED <<graveyard, reaperQueue>>
  BY <1>2 DEF IInv, ReaperWaitsForNone
<1> QED
  BY <1>1, <1>2 DEF Detach

LEMMA SpawnIInv ==
  ASSUME IInv, NEW t \in Thread, Spawn(t)
  PROVE  IInv'
<1>1. PICK u \in Process \ threads :
           /\ threads' = threads \cup {u}
           /\ alive' = [alive EXCEPT ![u] = TRUE]
           /\ joinQueue' = [joinQueue EXCEPT ![u] = <<>>]
  BY DEF Spawn
<1>2. u \in Thread
  BY ThreadMembers
<1>3. UNCHANGED <<graveyard, reaperQueue>>
  BY DEF Spawn
<1>4. TypeInv'
  BY <1>1, <1>2, <1>3 DEF IInv, TypeInv
<1>5. JoinersWaitForLiving'
  BY <1>1, <1>2 DEF IInv, TypeInv, JoinersWaitForLiving
<1>6. ReaperWaitsForNone'
  BY <1>3 DEF IInv, ReaperWaitsForNone
<1> QED
  BY <1>4, <1>5, <1>6 DEF IInv

\* The add to the list of all threads touches the links of that list only.
LEMMA AddIInv ==
  ASSUME IInv, NEW t, ReadTail(t) \/ Link(t) \/ LinkBack(t) \/ MakeLast(t)
  PROVE  IInv'
<1>1. UNCHANGED <<queueVars, objectVars>>
  BY DEF ReadTail, Link, LinkBack, MakeLast
<1> QED
  BY <1>1, QuietIInv DEF queueVars, objectVars, IInv, TypeInv

LEMMA JoinLoopIInv ==
  ASSUME IInv, NEW t \in Thread, JoinLoop(t), UNCHANGED <<threads, alive>>
  PROVE  IInv'
<1> DEFINE u == target[t]
<1>1. CASE alive[u] /\ joinQueue' = [joinQueue EXCEPT ![u] = Append(@, t)]
             /\ UNCHANGED <<graveyard, reaperQueue>>
  <2>1. TypeInv'
    <3>1. CASE u \in Thread
      BY <1>1, <3>1 DEF IInv, TypeInv
    <3>2. CASE u \notin Thread
      BY <1>1, <3>2 DEF IInv, TypeInv
    <3> QED
      BY <3>1, <3>2
  <2>2. JoinersWaitForLiving'
    BY <1>1 DEF IInv, TypeInv, JoinersWaitForLiving
  <2> QED
    BY <1>1, <2>1, <2>2 DEF IInv, ReaperWaitsForNone
<1>2. CASE Detach(u) /\ UNCHANGED joinQueue
  BY <1>2, DetachReaper DEF IInv, TypeInv, JoinersWaitForLiving
<1>3. CASE UNCHANGED queueVars
  BY <1>3, QuietIInv DEF queueVars, IInv, TypeInv
<1> QED
  BY <1>1, <1>2, <1>3 DEF JoinLoop

LEMMA ExitIInv ==
  ASSUME IInv, NEW t \in Thread, Exit(t)
  PROVE  IInv'
<1>1. /\ alive' = [alive EXCEPT ![t] = FALSE]
      /\ joinQueue' = [joinQueue EXCEPT ![t] = <<>>]
      /\ Detach(t) /\ UNCHANGED threads
  BY DEF Exit
<1>2. TypeInv'
  BY <1>1, DetachReaper DEF IInv, TypeInv
<1>3. JoinersWaitForLiving'
  BY <1>1 DEF IInv, TypeInv, JoinersWaitForLiving
<1> QED
  BY <1>1, <1>2, <1>3, DetachReaper DEF IInv

\* The reaper waits only beside an empty graveyard, and empties it before it goes on.
LEMMA ReaperIInv == ASSUME IInv, ReaperStep PROVE IInv'
<1>1. CASE ReaperWaits
  BY <1>1 DEF ReaperWaits, objectVars, IInv, TypeInv, JoinersWaitForLiving,
              ReaperWaitsForNone
<1>2. CASE ReaperTakes
  BY <1>2 DEF ReaperTakes, objectVars, IInv, TypeInv, JoinersWaitForLiving,
              ReaperWaitsForNone
<1>3. CASE DestroyThread
  BY <1>3, QuietIInv DEF DestroyThread, queueVars, IInv, TypeInv
<1>4. CASE ReaperAgain
  BY <1>4, QuietIInv DEF ReaperAgain, queueVars, objectVars, IInv, TypeInv
<1> QED
  BY <1>1, <1>2, <1>3, <1>4 DEF ReaperStep

\* One step for each disjunct of Next.
LEMMA NextIInv == ASSUME IInv, [Next]_vars PROVE IInv'
<1>1. CASE Preempt
  BY <1>1, QuietIInv DEF Preempt, objectVars, IInv, TypeInv
<1>2. ASSUME NEW t \in Process, UserStep(t) PROVE IInv'
  <2>0. t \in Thread
    BY ThreadMembers
  <2>1. CASE Spawn(t)
    BY <2>0, <2>1, SpawnIInv
  <2>2. CASE Lookup(t)
    BY <2>2, QuietIInv DEF Lookup, queueVars, objectVars, IInv, TypeInv
  <2>3. CASE Exit(t)
    BY <2>0, <2>3, ExitIInv
  <2> QED
    BY <1>2, <2>1, <2>2, <2>3 DEF UserStep
<1>3. ASSUME NEW t \in Process \cup {Main}, KernelStep(t) PROVE IInv'
  <2>0. t \in Thread
    BY ThreadMembers
  <2>1. CASE ReadTail(t) \/ Link(t) \/ LinkBack(t) \/ MakeLast(t)
    BY <2>1, AddIInv
  <2>2. CASE MakeRunnable(t)
    BY <2>2, QuietIInv DEF MakeRunnable, objectVars, IInv, TypeInv
  <2>3. CASE Spawned(t)
    BY <2>3, QuietIInv DEF Spawned, queueVars, objectVars, IInv, TypeInv
  <2>4. CASE Join(t)
    <3>1. CASE JoinLoop(t)
      BY <2>0, <2>4, <3>1, JoinLoopIInv DEF Join
    <3>2. CASE UNCHANGED queueVars
      BY <2>4, <3>2, QuietIInv DEF Join, queueVars, IInv, TypeInv
    <3> QED
      BY <2>4, <3>1, <3>2 DEF Join
  <2>5. CASE Rejoin(t)
    BY <2>0, <2>5, JoinLoopIInv DEF Rejoin
  <2>6. CASE Exit(t)
    BY <2>0, <2>6, ExitIInv
  <2> QED
    BY <1>3, <2>1, <2>2, <2>3, <2>4, <2>5, <2>6 DEF KernelStep
<1>4. CASE ReaperStep
  BY <1>4, ReaperIInv
<1>5. CASE UNCHANGED vars
  BY <1>5, QuietIInv DEF vars, queueVars, objectVars, IInv, TypeInv
<1> QED
  BY <1>1, <1>2, <1>3, <1>4, <1>5 DEF Next, Halted

-------------------------------------------------------------------------------
\* The inductive invariant holds in every reachable state: kthread.c fills a queue of
\* waiters only where what they wait for is still to come.
THEOREM Invariant == Spec => []IInv
<1>1. Init => IInv
  BY InitIInv
<1>2. IInv /\ [Next]_vars => IInv'
  BY NextIInv
<1> QED
  BY <1>1, <1>2, PTL DEF Spec

\* No wake-up is lost, for any number of processes: Exit() empties the queue of its
\* joiners, and Detach_Thread() that of the reaper, with the step that makes what
\* they wait for true.
THEOREM NoLostWakeHolds == Spec => []NoLostWake
<1>1. IInv => NoLostWake
  BY DEF IInv, JoinersWaitForLiving, ReaperWaitsForNone, NoLostWake
<1> QED
  BY <1>1, Invariant, PTL

-------------------------------------------------------------------------------
(* Queues.  A step moves threads between them: what each operation on a    *)
(* queue does to the set of its threads.                                   *)

\* A queue of threads, none of which is in it twice.
Line(queue) == queue \in Seq(Thread) /\ IsInjective(queue)

\* Append() adds one thread that was not there.
LEMMA AppendIs ==
  ASSUME NEW queue, Line(queue), NEW t \in Thread, t \notin Range(queue)
  PROVE  /\ Line(Append(queue, t))
         /\ Range(Append(queue, t)) = Range(queue) \cup {t}
<1> DEFINE q == Append(queue, t)
<1>1. /\ q \in Seq(Thread) /\ DOMAIN queue = 1..Len(queue) /\ Len(queue) \in Nat
      /\ DOMAIN q = 1..(Len(queue) + 1)
      /\ \A i \in 1..Len(queue) : q[i] = queue[i]
      /\ q[Len(queue) + 1] = t
  BY DEF Line
<1>2. \A i \in DOMAIN q : i # Len(queue) + 1 => i \in DOMAIN queue
  BY <1>1
<1>3. IsInjective(q)
  BY <1>1, <1>2 DEF Line, IsInjective, Range
<1>4. Range(q) = Range(queue) \cup {t}
  BY <1>1, <1>2 DEF Range
<1> QED
  BY <1>1, <1>3, <1>4 DEF Line

\* Wake_Up(): a queue that has nobody in common with another goes to its end.
LEMMA ConcatIs ==
  ASSUME NEW queue, Line(queue), NEW more, Line(more), Range(queue) \cap Range(more) = {}
  PROVE  /\ Line(queue \o more)
         /\ Range(queue \o more) = Range(queue) \cup Range(more)
<1> DEFINE q == queue \o more
<1>1. /\ q \in Seq(Thread) /\ DOMAIN queue = 1..Len(queue) /\ Len(queue) \in Nat
      /\ DOMAIN more = 1..Len(more) /\ Len(more) \in Nat
      /\ DOMAIN q = 1..(Len(queue) + Len(more))
      /\ \A i \in DOMAIN queue : i \in DOMAIN q /\ q[i] = queue[i]
      /\ \A i \in DOMAIN more : Len(queue) + i \in DOMAIN q /\ q[Len(queue) + i] = more[i]
  BY DEF Line
<1>2. ASSUME NEW i \in DOMAIN q
      PROVE  \/ i \in DOMAIN queue /\ q[i] = queue[i]
             \/ i - Len(queue) \in DOMAIN more /\ q[i] = more[i - Len(queue)]
  <2>1. CASE i <= Len(queue)
    BY <1>1, <2>1
  <2>2. CASE ~(i <= Len(queue))
    <3>1. i - Len(queue) \in DOMAIN more /\ i = Len(queue) + (i - Len(queue))
      BY <1>1, <2>2
    <3> QED
      BY <1>1, <3>1
  <2> QED
    BY <2>1, <2>2
<1>3. IsInjective(q)
  <2> SUFFICES ASSUME NEW i \in DOMAIN q, NEW j \in DOMAIN q, q[i] = q[j]
               PROVE  i = j
    BY DEF IsInjective
  <2>1. CASE i \in DOMAIN queue /\ q[i] = queue[i]
    <3>1. ~(q[j] \in Range(more))
      BY <2>1 DEF Range
    <3>2. j \in DOMAIN queue /\ q[j] = queue[j]
      BY <1>2, <3>1 DEF Range
    <3> QED
      BY <2>1, <3>2 DEF Line, IsInjective
  <2>2. CASE i - Len(queue) \in DOMAIN more /\ q[i] = more[i - Len(queue)]
    <3>1. j - Len(queue) \in DOMAIN more /\ q[j] = more[j - Len(queue)]
      BY <1>2, <2>2 DEF Range
    <3>2. i - Len(queue) = j - Len(queue)
      BY <2>2, <3>1 DEF Line, IsInjective
    <3> QED
      BY <1>1, <3>2
  <2> QED
    BY <1>2, <2>1, <2>2
<1>4. Range(q) = Range(queue) \cup Range(more)
  <2>1. Range(q) \subseteq Range(queue) \cup Range(more)
    BY <1>2 DEF Range
  <2>2. Range(queue) \cup Range(more) \subseteq Range(q)
    BY <1>1 DEF Range
  <2> QED
    BY <2>1, <2>2
<1> QED
  BY <1>1, <1>3, <1>4 DEF Line

\* The first thread is taken from a queue.
LEMMA TailIs ==
  ASSUME NEW queue, Line(queue), queue # <<>>
  PROVE  /\ Line(Tail(queue)) /\ Head(queue) \in Range(queue)
         /\ Range(Tail(queue)) = Range(queue) \ {Head(queue)}
<1> DEFINE q == Tail(queue)
<1>1. /\ q \in Seq(Thread) /\ DOMAIN queue = 1..Len(queue) /\ Len(queue) \in Nat \ {0}
      /\ DOMAIN q = 1..(Len(queue) - 1) /\ Head(queue) = queue[1]
      /\ \A i \in DOMAIN q : q[i] = queue[i + 1]
  BY HeadTailProperties, EmptySeq DEF Line
<1>2. \A i \in DOMAIN q : i + 1 \in DOMAIN queue /\ i + 1 # 1
  BY <1>1
<1>3. \A i \in DOMAIN queue : i # 1 => i - 1 \in DOMAIN q /\ q[i - 1] = queue[i]
  BY <1>1
<1>4. IsInjective(q)
  <2> SUFFICES ASSUME NEW i \in DOMAIN q, NEW j \in DOMAIN q, q[i] = q[j]
               PROVE  i = j
    BY DEF IsInjective
  <2>1. i + 1 = j + 1
    BY <1>1, <1>2 DEF Line, IsInjective
  <2> QED
    BY <1>1, <2>1
<1>5. Range(q) \subseteq Range(queue) \ {Head(queue)}
  BY <1>1, <1>2 DEF Line, IsInjective, Range
<1>6. Range(queue) \ {Head(queue)} \subseteq Range(q)
  BY <1>1, <1>3 DEF Range
<1>7. Head(queue) \in Range(queue)
  BY <1>1 DEF Range
<1> QED
  BY <1>1, <1>4, <1>5, <1>6, <1>7 DEF Line

\* Remove_Thread(): one thread leaves, the others stay.
LEMMA RemoveAtIs ==
  ASSUME NEW queue, Line(queue), NEW k \in DOMAIN queue
  PROVE  /\ Line(RemoveAt(queue, k))
         /\ Range(RemoveAt(queue, k)) = Range(queue) \ {queue[k]}
<1> DEFINE n == Len(queue)
           front == SubSeq(queue, 1, k - 1)
           back == SubSeq(queue, k + 1, n)
           q == front \o back
<1>1. /\ DOMAIN queue = 1..n /\ n \in Nat /\ k \in 1..n
      /\ \A i \in 1..n : queue[i] \in Thread
  BY DEF Line
<1>2. /\ front \in Seq(Thread) /\ Len(front) = k - 1
      /\ \A i \in 1..(k - 1) : front[i] = queue[i]
  BY <1>1, SubSeqProperties
<1>3. /\ back \in Seq(Thread) /\ Len(back) = n - k
      /\ \A i \in 1..(n - k) : back[i] = queue[k + i]
  <2>1. /\ back \in Seq(Thread)
        /\ Len(back) = IF k + 1 <= n THEN n - (k + 1) + 1 ELSE 0
        /\ \A i \in 1..(n - (k + 1) + 1) : back[i] = queue[(k + 1) + i - 1]
    <3>1. \A i \in (k + 1)..n : queue[i] \in Thread
      BY <1>1
    <3> QED
      BY <1>1, <3>1, SubSeqProperties
  <2>2. Len(back) = n - k
    BY <1>1, <2>1
  <2>3. ASSUME NEW i \in 1..(n - k) PROVE back[i] = queue[k + i]
    <3>1. i \in 1..(n - (k + 1) + 1) /\ (k + 1) + i - 1 = k + i
      BY <1>1
    <3>2. back[i] = queue[(k + 1) + i - 1]
      BY <2>1, <3>1
    <3> QED
      BY <3>1, <3>2
  <2> QED
    BY <2>1, <2>2, <2>3
<1>4. /\ q \in Seq(Thread) /\ Len(q) = n - 1 /\ DOMAIN q = 1..(n - 1)
      /\ \A i \in 1..(n - 1) : q[i] = IF i <= k - 1 THEN front[i] ELSE back[i - (k - 1)]
  <2>1. (k - 1) + (n - k) = n - 1
    BY <1>1
  <2> HIDE DEF front, back
  <2> QED
    <3>1. q \in Seq(Thread) /\ Len(q) = n - 1
      BY <1>2, <1>3, <2>1, ConcatProperties
    <3>2. DOMAIN q = 1..(n - 1)
      BY <3>1, LenProperties
    <3>3. \A i \in 1..(n - 1) : q[i] = IF i <= k - 1 THEN front[i] ELSE back[i - (k - 1)]
      <4>1. \A i \in 1..(Len(front) + Len(back)) :
              q[i] = IF i <= Len(front) THEN front[i] ELSE back[i - Len(front)]
        BY <1>2, <1>3, ConcatProperties
      <4>2. Len(front) + Len(back) = n - 1 /\ Len(front) = k - 1
        BY <1>2, <1>3, <2>1
      <4> HIDE DEF q
      <4> QED
        BY <4>1, <4>2
    <3> QED
      BY <3>1, <3>2, <3>3
<1>5. \A i \in 1..(n - 1) :
        /\ i < k => q[i] = queue[i]
        /\ ~(i < k) => q[i] = queue[i + 1]
  <2>1. ASSUME NEW i \in 1..(n - 1), i < k PROVE q[i] = queue[i]
    <3>1. i <= k - 1 /\ i \in 1..(k - 1)
      BY <1>1, <2>1
    <3> QED
      BY <1>2, <1>4, <3>1
  <2>2. ASSUME NEW i \in 1..(n - 1), ~(i < k) PROVE q[i] = queue[i + 1]
    <3>1. ~(i <= k - 1) /\ i - (k - 1) \in 1..(n - k) /\ k + (i - (k - 1)) = i + 1
      BY <1>1, <2>2
    <3> QED
      BY <1>3, <1>4, <3>1
  <2> QED
    BY <2>1, <2>2
<1> HIDE DEF q
<1>6. \A i \in 1..(n - 1) : \E j \in 1..n :
        /\ q[i] = queue[j] /\ j # k /\ j = IF i < k THEN i ELSE i + 1
  <2> SUFFICES ASSUME NEW i \in 1..(n - 1)
               PROVE  \E j \in 1..n :
                        q[i] = queue[j] /\ j # k /\ j = IF i < k THEN i ELSE i + 1
    OBVIOUS
  <2>1. CASE i < k
    BY <1>1, <1>5, <2>1
  <2>2. CASE ~(i < k)
    BY <1>1, <1>5, <2>2
  <2> QED
    BY <2>1, <2>2
<1>7. \A j \in 1..n : j # k => \E i \in 1..(n - 1) : q[i] = queue[j]
  <2> SUFFICES ASSUME NEW j \in 1..n, j # k
               PROVE  \E i \in 1..(n - 1) : q[i] = queue[j]
    OBVIOUS
  <2>1. CASE j < k
    BY <1>1, <1>5, <2>1
  <2>2. CASE ~(j < k)
    <3>1. j - 1 \in 1..(n - 1) /\ ~(j - 1 < k) /\ (j - 1) + 1 = j
      BY <1>1, <2>2
    <3>2. q[j - 1] = queue[j]
      BY <1>5, <3>1
    <3> QED
      BY <3>1, <3>2
  <2> QED
    BY <2>1, <2>2
<1>8. IsInjective(q)
  <2> SUFFICES ASSUME NEW i \in 1..(n - 1), NEW j \in 1..(n - 1), q[i] = q[j]
               PROVE  i = j
    BY <1>4 DEF IsInjective
  <2>1. PICK ii \in 1..n : q[i] = queue[ii] /\ ii = IF i < k THEN i ELSE i + 1
    BY <1>6
  <2>2. PICK jj \in 1..n : q[j] = queue[jj] /\ jj = IF j < k THEN j ELSE j + 1
    BY <1>6
  <2>3. ii = jj
    BY <1>1, <2>1, <2>2 DEF Line, IsInjective
  <2> QED
    BY <1>1, <2>1, <2>2, <2>3
<1>9. Range(q) = Range(queue) \ {queue[k]}
  <2>1. Range(q) \subseteq Range(queue) \ {queue[k]}
    <3> SUFFICES ASSUME NEW i \in 1..(n - 1)
                 PROVE  q[i] \in Range(queue) /\ q[i] # queue[k]
      BY <1>4 DEF Range
    <3>1. PICK j \in 1..n : q[i] = queue[j] /\ j # k
      BY <1>6
    <3>2. queue[j] # queue[k]
      BY <1>1, <3>1 DEF Line, IsInjective
    <3> QED
      BY <1>1, <3>1, <3>2 DEF Range
  <2>2. Range(queue) \ {queue[k]} \subseteq Range(q)
    <3> SUFFICES ASSUME NEW j \in 1..n, queue[j] # queue[k]
                 PROVE  queue[j] \in Range(q)
      BY <1>1 DEF Range
    <3>1. PICK i \in 1..(n - 1) : q[i] = queue[j]
      BY <1>7
    <3> QED
      BY <1>4, <3>1 DEF Range
  <2> QED
    BY <2>1, <2>2
<1>10. RemoveAt(queue, k) = q
  BY DEF RemoveAt, q
<1> QED
  BY <1>4, <1>8, <1>9, <1>10 DEF Line

\* A set of numbers that is not empty has a least one.
LEMMA LeastIs ==
  ASSUME NEW S, S \subseteq Nat, S # {}
  PROVE  \E m \in S : \A n \in S : ~(n < m)
<1>1. \E m \in S : \A n \in S : ~(<<n, m>> \in OpToRel(<, Nat))
  BY NatLessThanWellFounded, WFMin
<1>2. \A m \in S, n \in S : n < m => <<n, m>> \in OpToRel(<, Nat)
  BY DEF OpToRel
<1> QED
  BY <1>1, <1>2

\* Find_Best() finds a thread when there is one.
LEMMA BestIs ==
  ASSUME NEW queue, Line(queue), queue # <<>>
  PROVE  Best(queue) \in DOMAIN queue
<1> DEFINE Of(p) == {i \in DOMAIN queue : Priority(queue[i]) = p}
<1>1. DOMAIN queue = 1..Len(queue) /\ Len(queue) \in Nat \ {0}
  BY EmptySeq DEF Line
<1>2. DOMAIN queue \subseteq Nat /\ DOMAIN queue # {}
  BY <1>1
<1>3. \A i \in DOMAIN queue : Priority(queue[i]) \in {0, 1, 5}
  BY DEF Priority
<1>4. \E p \in {0, 1, 5} : Of(p) # {} /\ \A i \in DOMAIN queue : Priority(queue[i]) <= p
  <2>1. CASE Of(5) # {}
    BY <1>3, <2>1
  <2>2. CASE Of(5) = {} /\ Of(1) # {}
    BY <1>3, <2>2
  <2>3. CASE Of(5) = {} /\ Of(1) = {}
    BY <1>2, <1>3, <2>3
  <2> QED
    BY <2>1, <2>2, <2>3
<1>5. PICK p \in {0, 1, 5} : Of(p) # {} /\ \A i \in DOMAIN queue : Priority(queue[i]) <= p
  BY <1>4
<1>6. PICK m \in Of(p) : \A n \in Of(p) : ~(n < m)
  BY <1>2, <1>5, LeastIs
<1>7. \A j \in DOMAIN queue :
        /\ Priority(queue[m]) >= Priority(queue[j])
        /\ j < m => Priority(queue[m]) > Priority(queue[j])
  BY <1>3, <1>5, <1>6
<1>8. m \in DOMAIN queue
  BY <1>6
<1>9. \E i \in DOMAIN queue : \A j \in DOMAIN queue :
        /\ Priority(queue[i]) >= Priority(queue[j])
        /\ j < i => Priority(queue[i]) > Priority(queue[j])
  BY <1>7, <1>8
<1> QED
  BY <1>9 DEF Best

\* Schedule() takes one thread out of the queue, and that is the one that runs.
LEMMA ScheduleIs ==
  ASSUME NEW queue, Line(queue), queue # <<>>, Schedule(queue)
  PROVE  /\ current' \in Range(queue) /\ Line(runQueue)'
         /\ Range(runQueue') = Range(queue) \ {current'}
<1>1. Best(queue) \in DOMAIN queue
  BY BestIs
<1>2. /\ Line(RemoveAt(queue, Best(queue)))
      /\ Range(RemoveAt(queue, Best(queue))) = Range(queue) \ {queue[Best(queue)]}
  BY <1>1, RemoveAtIs
<1>3. queue[Best(queue)] \in Range(queue)
  BY <1>1 DEF Range
<1> QED
  BY <1>2, <1>3 DEF Schedule, Line

-------------------------------------------------------------------------------
(* Every thread in its place.                                              *)

\* Where a thread can be.
Labels == {"user", "add", "link", "back", "last", "created", "spawned", "join", "joining",
           "exit", "assertAdd", "assertSpawn", "assertJoin", "dead", "idle", "look",
           "destroy"}

\* The types that the queues and the steps need.
Types ==
  /\ current \in Thread /\ threads \subseteq Thread
  /\ joinQueue \in [Thread -> Seq(Thread)]
  /\ alive \in [Thread -> BOOLEAN] /\ refCount \in [Thread -> Int]
  /\ pc \in [Thread -> Labels] /\ target \in [Thread -> Thread \cup {NoThread}]

\* Nobody is in a queue twice.
Lines ==
  /\ Line(runQueue) /\ Line(graveyard) /\ Line(reaperQueue) /\ Line(dying)
  /\ \A u \in Thread : Line(joinQueue[u])

\* A thread that lives is in one queue, a thread that died in another.
Queued(x) ==
  x \in Range(runQueue) \/ x \in Range(reaperQueue)
    \/ \E u \in Thread : x \in Range(joinQueue[u])
Doomed(x) == x \in Range(graveyard) \/ x \in Range(dying)

\* No two queues have a thread in common.
Apart ==
  \A x \in Thread :
    /\ ~(x \in Range(runQueue) /\ x \in Range(reaperQueue))
    /\ \A u \in Thread :
         x \in Range(joinQueue[u]) => x \notin Range(runQueue) /\ x \notin Range(reaperQueue)
    /\ \A u, v \in Thread : x \in Range(joinQueue[u]) /\ x \in Range(joinQueue[v]) => u = v
    /\ ~(x \in Range(graveyard) /\ x \in Range(dying))

\* Create_Thread() has made x for t, and Make_Runnable_Atomic() has not been called.
Creating(t, x) == pc[t] \in InCreation /\ target[t] = x
Fresh(x) == \E t \in Process : Creating(t, x)

\* Who is in a queue: those who live and wait or want to run, and those to be destroyed.
Standing ==
  \A x \in Thread :
    /\ Queued(x) <=> x \in threads /\ alive[x] /\ x # current /\ ~Fresh(x)
    /\ Doomed(x) <=> x \in threads /\ ~alive[x] /\ refCount[x] = 0
    /\ x \notin threads => ~alive[x] /\ refCount[x] = 0
    /\ alive[x] => refCount[x] >= 1

\* Where threads are: the running one, creators, joiners, Main, the reaper and the
\* idle thread.
Stages ==
  /\ current \in threads /\ alive[current] /\ ~Fresh(current)
  /\ \A t \in Thread : pc[t] \in InCreation =>
       /\ t \in Process /\ alive[t]
       /\ target[t] \in Thread /\ target[t] \in threads /\ alive[target[t]]
  /\ \A t, u \in Thread : \A x \in Thread : Creating(t, x) /\ Creating(u, x) => t = u
  /\ \A t \in Thread : pc[t] \in {"join", "joining"} => target[t] \in Thread
  /\ pc[Main] \in {"joining", "exit", "dead"}
  /\ pc[Reaper] = "look" => dying = <<>>
  /\ current = Idle \/ Idle \in Range(runQueue)

\* The inductive invariant of the queues.
Linked == Types /\ Lines /\ Apart /\ Standing /\ Stages

\* The threads of a queue are threads.
LEMMA LineRange == ASSUME NEW queue, Line(queue) PROVE Range(queue) \subseteq Thread
<1>1. \A i \in DOMAIN queue : queue[i] \in Thread
  BY DEF Line
<1> QED
  BY <1>1 DEF Range

\* The empty queue.
LEMMA EmptyIs == Line(<<>>) /\ Range(<<>>) = {}
BY DEF Line, IsInjective, Range

\* The queue of one thread.
LEMMA OneIs == ASSUME NEW t \in Thread PROVE Line(<<t>>) /\ Range(<<t>>) = {t}
<1>1. DOMAIN <<t>> = {1} /\ <<t>>[1] = t /\ <<t>> \in Seq(Thread)
  OBVIOUS
<1> QED
  BY <1>1 DEF Line, IsInjective, Range

\* A member makes a queue non-empty.
LEMMA NonEmptyIs == ASSUME NEW queue, NEW t \in Range(queue) PROVE queue # <<>>
BY DEF Range

\* It holds when Main() waits for the first process and the reaper for the dead.
LEMMA InitLinked == Init => Linked
<1> SUFFICES ASSUME Init PROVE Linked
  OBVIOUS
<1>0. /\ Main \in Thread /\ Idle \in Thread /\ Reaper \in Thread /\ Init1 \in Thread
      /\ Init1 \in Process /\ Process \subseteq Thread
      /\ Init1 # Main /\ Init1 # Idle /\ Init1 # Reaper
  BY ThreadAssumption DEF Thread
<1>1. /\ Line(runQueue) /\ Range(runQueue) = {Idle}
      /\ Line(reaperQueue) /\ Range(reaperQueue) = {Reaper}
      /\ Line(graveyard) /\ Range(graveyard) = {}
      /\ Line(dying) /\ Range(dying) = {}
  BY <1>0, OneIs, EmptyIs DEF Init
<1>2. \A u \in Thread : Line(joinQueue[u])
         /\ Range(joinQueue[u]) = IF u = Init1 THEN {Main} ELSE {}
  <2>1. \A u \in Thread : joinQueue[u] = IF u = Init1 THEN <<Main>> ELSE <<>>
    BY DEF Init
  <2> QED
    BY <1>0, <2>1, OneIs, EmptyIs
<1>3. Types
  <2>1. joinQueue \in [Thread -> Seq(Thread)]
    BY <1>0 DEF Init
  <2>2. alive \in [Thread -> BOOLEAN] /\ refCount \in [Thread -> Int]
    BY DEF Init
  <2>3. pc \in [Thread -> Labels]
    BY DEF Init, Labels
  <2>4. target \in [Thread -> Thread \cup {NoThread}]
    BY <1>0 DEF Init
  <2> QED
    BY <1>0, <2>1, <2>2, <2>3, <2>4 DEF Init, Types
<1>4. Lines
  BY <1>1, <1>2 DEF Lines
<1>5. Apart
  BY <1>0, <1>1, <1>2, ThreadAssumption DEF Apart
<1>6. \A x : ~Fresh(x)
  BY <1>0 DEF Init, Fresh, Creating, InCreation
<1>7. Standing
  <2> SUFFICES ASSUME NEW x \in Thread
               PROVE  /\ Queued(x) <=> x \in threads /\ alive[x] /\ x # current /\ ~Fresh(x)
                      /\ Doomed(x) <=> x \in threads /\ ~alive[x] /\ refCount[x] = 0
                      /\ x \notin threads => ~alive[x] /\ refCount[x] = 0
                      /\ alive[x] => refCount[x] >= 1
    BY DEF Standing
  <2>1. Queued(x) <=> x \in {Idle, Reaper, Main}
    BY <1>0, <1>1, <1>2 DEF Queued
  <2>2. ~Doomed(x)
    BY <1>1 DEF Doomed
  <2>3. /\ alive[x] = (x \in threads) /\ threads = {Main, Idle, Reaper, Init1}
        /\ current = Init1
        /\ refCount[x] = IF x = Init1 THEN 2 ELSE IF x \in threads THEN 1 ELSE 0
    BY DEF Init
  <2>4. (x \in threads => refCount[x] >= 1) /\ (x \notin threads => refCount[x] = 0)
    BY <2>3
  <2> QED
    BY <1>0, <1>6, <2>1, <2>2, <2>3, <2>4
<1>8. Stages
  <2>1. current \in threads /\ alive[current]
    BY <1>0 DEF Init
  <2>2. \A t \in Thread : pc[t] \notin InCreation
    BY DEF Init, InCreation
  <2>3. \A t \in Thread : pc[t] \in {"join", "joining"} => target[t] \in Thread
    BY <1>0, ThreadAssumption DEF Init
  <2>4. pc[Main] = "joining" /\ dying = <<>>
    BY <1>0 DEF Init
  <2>5. Idle \in Range(runQueue)
    BY <1>1
  <2> QED
    BY <1>6, <2>1, <2>2, <2>3, <2>4, <2>5 DEF Stages, Creating
<1> QED
  BY <1>3, <1>4, <1>5, <1>7, <1>8 DEF Linked

\* A step in which the running thread only moves on, in no queue and creating nobody.
LEMMA MoveLinked ==
  ASSUME Linked, NEW t \in Thread, current = t, pc[t] \notin InCreation,
         NEW l \in Labels \ InCreation, Goto(t, l),
         NEW u \in Thread \cup {NoThread}, target' = [target EXCEPT ![t] = u],
         l \in {"join", "joining"} => u \in Thread,
         t = Main => l \in {"joining", "exit", "dead"},
         t = Reaper /\ l = "look" => dying = <<>>,
         UNCHANGED <<queueVars, dying, threads, alive, refCount>>
  PROVE  Linked'
<1> USE DEF Linked
<1>1. pc' = [pc EXCEPT ![t] = l] /\ pc'[t] = l /\ target'[t] = u
  BY DEF Goto, Types
<1>2. \A x \in Thread : x # t => pc'[x] = pc[x] /\ target'[x] = target[x]
  BY <1>1 DEF Types
<1>3. UNCHANGED <<current, runQueue, joinQueue, graveyard, reaperQueue>>
  BY DEF queueVars
<1>4. \A x \in Thread : \A y : Creating(x, y)' <=> Creating(x, y)
  BY <1>1, <1>2 DEF Creating
<1>5. \A y : Fresh(y)' <=> Fresh(y)
  BY <1>4, ThreadMembers DEF Fresh
<1>6. Types'
  BY <1>1, <1>3 DEF Types
<1>7. Lines' /\ Apart'
  BY <1>3 DEF Lines, Apart
<1>8. \A x : (Queued(x)' <=> Queued(x)) /\ (Doomed(x)' <=> Doomed(x))
  BY <1>3 DEF Queued, Doomed
<1>9. Standing'
  BY <1>3, <1>5, <1>8 DEF Standing
<1>10. Stages'
  <2>1. (current \in threads /\ alive[current] /\ ~Fresh(current))'
    BY <1>3, <1>5 DEF Stages
  <2>2. \A x \in Thread : pc'[x] \in InCreation =>
          /\ x \in Process /\ alive'[x]
          /\ target'[x] \in Thread /\ target'[x] \in threads' /\ alive'[target'[x]]
    BY <1>1, <1>2 DEF Stages
  <2>3. \A x, y \in Thread : \A z \in Thread : Creating(x, z)' /\ Creating(y, z)' => x = y
    BY <1>4 DEF Stages
  <2>4. \A x \in Thread : pc'[x] \in {"join", "joining"} => target'[x] \in Thread
    BY <1>1, <1>2 DEF Stages
  <2>5. pc'[Main] \in {"joining", "exit", "dead"}
    BY <1>1, <1>2, ThreadMembers DEF Stages
  <2>6. pc'[Reaper] = "look" => dying' = <<>>
    BY <1>1, <1>2, ThreadMembers DEF Stages
  <2>7. current' = Idle \/ Idle \in Range(runQueue')
    BY <1>3 DEF Stages
  <2> QED
    BY <2>1, <2>2, <2>3, <2>4, <2>5, <2>6, <2>7 DEF Stages
<1> QED
  BY <1>6, <1>7, <1>9, <1>10

\* A step in which one thread moves creates and starts nobody, if it is no creator.
LEMMA SameFresh ==
  ASSUME Linked, NEW t \in Thread, pc[t] \notin InCreation,
         NEW l \in Labels \ InCreation, Goto(t, l),
         \A x \in Thread : x # t => target'[x] = target[x]
  PROVE  /\ pc' \in [Thread -> Labels] /\ pc'[t] = l
         /\ \A x \in Thread : x # t => pc'[x] = pc[x]
         /\ \A x \in Thread : \A y : Creating(x, y)' <=> Creating(x, y)
         /\ \A y : Fresh(y)' <=> Fresh(y)
<1>1. /\ pc' \in [Thread -> Labels] /\ pc'[t] = l
      /\ \A x \in Thread : x # t => pc'[x] = pc[x]
  BY DEF Goto, Linked, Types
<1>2. \A x \in Thread : \A y : Creating(x, y)' <=> Creating(x, y)
  BY <1>1 DEF Creating
<1>3. \A y : Fresh(y)' <=> Fresh(y)
  BY <1>2, ThreadMembers DEF Fresh
<1> QED
  BY <1>1, <1>2, <1>3

\* The running thread goes to the end of the run queue, and the next one is taken: the
\* timer, Yield(), and the reaper when it takes the graveyard.
LEMMA YieldLinked ==
  ASSUME Linked, Schedule(Append(runQueue, current)),
         UNCHANGED <<joinQueue, reaperQueue, threads, alive, refCount, target>>,
         \/ UNCHANGED <<pc, graveyard, dying>>
         \/ /\ current = Reaper /\ Runs(Reaper, "look") /\ Goto(Reaper, "destroy")
            /\ dying' = graveyard /\ graveyard' = <<>>
  PROVE  Linked'
<1> USE DEF Linked
<1> DEFINE queue == Append(runQueue, current)
<1>1. current \in Thread /\ current \notin Range(runQueue)
  BY DEF Types, Standing, Queued
<1>2. Line(queue) /\ Range(queue) = Range(runQueue) \cup {current} /\ queue # <<>>
  <2>1. Line(queue) /\ Range(queue) = Range(runQueue) \cup {current}
    BY <1>1, AppendIs DEF Lines
  <2> QED
    BY <2>1, NonEmptyIs
<1>3. /\ current' \in Range(queue) /\ Line(runQueue)'
      /\ Range(runQueue') = Range(queue) \ {current'}
  BY <1>2, ScheduleIs
<1>4. current' \in Thread
  BY <1>2, <1>3, LineRange
<1>5. Reaper \in Thread /\ Idle \in Thread /\ Main \in Thread
  BY ThreadMembers
<1>6. /\ pc' \in [Thread -> Labels] /\ \A y : Fresh(y)' <=> Fresh(y)
      /\ \A x \in Thread : \A y : Creating(x, y)' <=> Creating(x, y)
      /\ \A x \in Thread : x # Reaper => pc'[x] = pc[x]
      /\ \/ pc'[Reaper] = pc[Reaper] /\ dying' = dying
         \/ pc'[Reaper] = "destroy"
  <2>1. CASE UNCHANGED <<pc, dying>>
    BY <2>1 DEF Fresh, Creating, Types
  <2>2. CASE Runs(Reaper, "look") /\ Goto(Reaper, "destroy")
    BY <1>5, <2>2, SameFresh DEF Runs, Labels, InCreation
  <2> QED
    BY <2>1, <2>2
<1>7. dying = <<>> \/ UNCHANGED <<graveyard, dying>>
  BY DEF Runs, Stages
<1>8. Types'
  BY <1>4, <1>6 DEF Types
<1>9. /\ Line(graveyard') /\ Line(dying')
      /\ \A x : Doomed(x)' <=> Doomed(x)
      /\ \A x : ~(x \in Range(graveyard') /\ x \in Range(dying'))
  <2>1. CASE UNCHANGED <<graveyard, dying>>
    <3>1. \A x : x \in Range(graveyard) => x \in Thread
      BY LineRange DEF Lines
    <3> QED
      BY <2>1, <3>1 DEF Lines, Apart, Doomed
  <2>2. CASE dying = <<>> /\ dying' = graveyard /\ graveyard' = <<>>
    BY <2>2, EmptyIs DEF Lines, Doomed
  <2> QED
    BY <1>7, <2>1, <2>2
<1>10. Lines'
  BY <1>3, <1>9 DEF Lines, Line
<1>11. Apart'
  BY <1>1, <1>2, <1>3, <1>9 DEF Apart, Standing, Queued
<1>12. \A x \in Thread : Queued(x)' <=> (Queued(x) \/ x = current) /\ x # current'
  <2> SUFFICES ASSUME NEW x \in Thread
               PROVE  Queued(x)' <=> (Queued(x) \/ x = current) /\ x # current'
    OBVIOUS
  <2>1. Queued(x)' <=>
          \/ x \in Range(runQueue) \cup {current} /\ x # current'
          \/ x \in Range(reaperQueue)
          \/ \E u \in Thread : x \in Range(joinQueue[u])
    BY <1>2, <1>3 DEF Queued
  <2>2. current' \in Range(runQueue) \cup {current}
    BY <1>2, <1>3
  <2>3. x = current' => x \notin Range(reaperQueue)
                          /\ \A u \in Thread : x \notin Range(joinQueue[u])
    BY <1>1, <2>2 DEF Apart, Standing, Queued
  <2> QED
    BY <2>1, <2>3 DEF Queued
<1>13. /\ current' \in threads /\ alive[current'] /\ ~Fresh(current')
       /\ current \in threads /\ alive[current] /\ ~Fresh(current)
  BY <1>2, <1>3, <1>4 DEF Standing, Queued, Stages
<1>14. Standing'
  <2> SUFFICES ASSUME NEW x \in Thread
               PROVE  Queued(x)' <=> x \in threads /\ alive[x] /\ x # current' /\ ~Fresh(x)
    BY <1>6, <1>9 DEF Standing
  <2> QED
    BY <1>12, <1>13 DEF Standing
<1>15. Stages'
  <2>1. current' = Idle \/ Idle \in Range(runQueue')
    BY <1>2, <1>3 DEF Stages
  <2>2. pc'[Main] \in {"joining", "exit", "dead"}
    BY <1>5, <1>6, ThreadAssumption DEF Stages
  <2>3. pc'[Reaper] = "look" => dying' = <<>>
    BY <1>6 DEF Stages
  <2>4. \A x \in Thread : pc'[x] \in InCreation => pc[x] \in InCreation
    BY <1>6, ThreadAssumption DEF Stages, Creating
  <2>5. \A x \in Thread : pc'[x] \in {"join", "joining"} => pc[x] \in {"join", "joining"}
    <3>1. pc'[Reaper] = pc[Reaper] \/ pc'[Reaper] = "destroy"
      BY <1>6
    <3> QED
      BY <1>6, <3>1
  <2> QED
    BY <1>6, <1>13, <2>1, <2>2, <2>3, <2>4, <2>5 DEF Stages
<1> QED
  BY <1>8, <1>10, <1>11, <1>14, <1>15

\* The timer.
LEMMA PreemptLinked == ASSUME Linked, Preempt PROVE Linked'
BY YieldLinked DEF Preempt, objectVars

\* The reaper takes the graveyard.
LEMMA ReaperTakesLinked == ASSUME Linked, ReaperTakes PROVE Linked'
BY YieldLinked DEF ReaperTakes, objectVars, Runs

\* A step that changes no variable of the invariant.
LEMMA SameLinked ==
  ASSUME Linked, UNCHANGED <<queueVars, dying, threads, alive, refCount, pc, target>>
  PROVE  Linked'
<1>1. UNCHANGED <<current, runQueue, joinQueue, graveyard, reaperQueue>>
  BY DEF queueVars
<1>2. \A x, y : Creating(x, y)' <=> Creating(x, y)
  BY DEF Creating
<1>3. \A x : /\ Fresh(x)' <=> Fresh(x)
             /\ Queued(x)' <=> Queued(x)
             /\ Doomed(x)' <=> Doomed(x)
  BY <1>1, <1>2 DEF Fresh, Queued, Doomed
<1> QED
  BY <1>1, <1>2, <1>3 DEF Linked, Types, Lines, Apart, Standing, Stages

\* Destroy_Thread(): the thread leaves the last queue it was in with the list of all.
LEMMA DestroyThreadLinked == ASSUME Linked, DestroyThread PROVE Linked'
<1> USE DEF Linked
<1> DEFINE d == Head(dying)
<1>a. CASE UNCHANGED <<threads, dying>>
  BY <1>a, SameLinked DEF DestroyThread
<1> SUFFICES ASSUME threads' = threads \ {d}, dying' = Tail(dying)
             PROVE  Linked'
  BY <1>a DEF DestroyThread
<1>1. /\ Runs(Reaper, "destroy") /\ dying # <<>>
      /\ UNCHANGED <<queueVars, alive, refCount, pc, target>>
  BY DEF DestroyThread
<1>2. UNCHANGED <<current, runQueue, joinQueue, graveyard, reaperQueue>>
  BY <1>1 DEF queueVars
<1>3. /\ Line(dying') /\ d \in Range(dying) /\ Range(dying') = Range(dying) \ {d}
  BY <1>1, TailIs DEF Lines
<1>4. d \in Thread /\ ~alive[d] /\ refCount[d] = 0 /\ d \notin Range(graveyard)
  <2>1. d \in Thread
    BY <1>3, LineRange DEF Lines
  <2> QED
    BY <1>3, <2>1 DEF Standing, Doomed, Apart
<1>5. \A y : (Fresh(y)' <=> Fresh(y)) /\ (Queued(y)' <=> Queued(y))
  BY <1>1, <1>2 DEF Fresh, Creating, Queued
<1>6. Types'
  BY <1>1, <1>2 DEF Types
<1>7. Lines'
  BY <1>2, <1>3 DEF Lines
<1>8. Apart'
  BY <1>2, <1>3 DEF Apart
<1>9. \A y : Doomed(y)' <=> Doomed(y) /\ y # d
  BY <1>2, <1>3, <1>4 DEF Doomed
<1>10. Standing'
  BY <1>1, <1>2, <1>4, <1>5, <1>9 DEF Standing
<1>11. Stages'
  <2>1. pc[Reaper] # "look"
    BY <1>1 DEF Runs
  <2>2. \A x \in Thread : alive[x] /\ x \in threads => x \in threads'
    BY <1>1, <1>4
  <2>3. (current \in threads /\ alive[current] /\ ~Fresh(current))'
    BY <1>1, <1>2, <1>5, <2>2 DEF Stages, Types
  <2>4. \A x \in Thread : pc[x] \in InCreation => target[x] \in threads'
    BY <2>2 DEF Stages
  <2>5. \A x, y : Creating(x, y)' <=> Creating(x, y)
    BY <1>1 DEF Creating
  <2> QED
    BY <1>1, <1>2, <2>1, <2>3, <2>4, <2>5 DEF Stages
<1> QED
  BY <1>6, <1>7, <1>8, <1>10, <1>11

\* The running thread goes into the queue of those who join u, or into the reaper's, and
\* the next one runs.
LEMMA BlockLinked ==
  ASSUME Linked, NEW t \in Thread \ {Idle}, current = t, Schedule(runQueue),
         pc[t] \notin InCreation, NEW l \in Labels \ InCreation, Goto(t, l),
         t = Main => l = "joining", t = Reaper => l = pc[t],
         l \in {"join", "joining"} => target[t] \in Thread,
         UNCHANGED <<graveyard, dying, threads, alive, refCount, target>>,
         \/ /\ reaperQueue' = Append(reaperQueue, t)
            /\ UNCHANGED joinQueue
         \/ /\ UNCHANGED reaperQueue
            /\ \E u \in Thread : joinQueue' = [joinQueue EXCEPT ![u] = Append(@, t)]
  PROVE  Linked'
<1> USE DEF Linked
<1>1. /\ pc' \in [Thread -> Labels] /\ pc'[t] = l
      /\ \A x \in Thread : x # t => pc'[x] = pc[x]
      /\ \A x \in Thread : \A y : Creating(x, y)' <=> Creating(x, y)
      /\ \A y : Fresh(y)' <=> Fresh(y)
  BY SameFresh
<1>2. t \notin Range(runQueue) /\ t \notin Range(reaperQueue)
        /\ \A u \in Thread : t \notin Range(joinQueue[u])
  BY DEF Standing, Queued
<1>3. Idle \in Range(runQueue) /\ runQueue # <<>> /\ Line(runQueue)
  <2>1. Idle \in Range(runQueue) /\ Line(runQueue)
    BY DEF Stages, Lines
  <2> QED
    BY <2>1, NonEmptyIs
<1>4. /\ current' \in Range(runQueue) /\ Line(runQueue)'
      /\ Range(runQueue') = Range(runQueue) \ {current'}
  BY <1>3, ScheduleIs
<1>5. current' \in Thread /\ current' # t
  BY <1>2, <1>3, <1>4, LineRange
<1> DEFINE Entered ==
      /\ Line(reaperQueue') /\ joinQueue' \in [Thread -> Seq(Thread)]
      /\ \A u \in Thread : Line(joinQueue'[u])
      /\ \A x : x \in Range(reaperQueue) => x \in Range(reaperQueue')
      /\ \A x : x \in Range(reaperQueue') => x \in Range(reaperQueue) \/ x = t
      /\ \A u \in Thread : \A x : x \in Range(joinQueue[u]) => x \in Range(joinQueue'[u])
      /\ \A u \in Thread : \A x :
           x \in Range(joinQueue'[u]) => x \in Range(joinQueue[u]) \/ x = t
      /\ \/ t \in Range(reaperQueue') /\ \A u \in Thread : t \notin Range(joinQueue'[u])
         \/ /\ t \notin Range(reaperQueue')
            /\ \E u \in Thread : t \in Range(joinQueue'[u])
            /\ \A u, v \in Thread :
                 t \in Range(joinQueue'[u]) /\ t \in Range(joinQueue'[v]) => u = v
<1>6. Entered
  <2>1. CASE reaperQueue' = Append(reaperQueue, t) /\ UNCHANGED joinQueue
    <3>1. Line(Append(reaperQueue, t))
            /\ Range(Append(reaperQueue, t)) = Range(reaperQueue) \cup {t}
      BY <1>2, AppendIs DEF Lines
    <3> QED
      BY <1>2, <2>1, <3>1 DEF Lines, Types
  <2>2. ASSUME UNCHANGED reaperQueue, NEW w \in Thread,
               joinQueue' = [joinQueue EXCEPT ![w] = Append(@, t)]
        PROVE  Entered
    <3>1. Line(Append(joinQueue[w], t))
            /\ Range(Append(joinQueue[w], t)) = Range(joinQueue[w]) \cup {t}
      BY <1>2, AppendIs DEF Lines
    <3>2. /\ joinQueue'[w] = Append(joinQueue[w], t)
          /\ \A u \in Thread : u # w => joinQueue'[u] = joinQueue[u]
      BY <2>2 DEF Types
    <3>3. joinQueue' \in [Thread -> Seq(Thread)]
      BY <2>2, <3>1 DEF Types, Line
    <3>4. \A u \in Thread :
            /\ Line(joinQueue'[u])
            /\ Range(joinQueue'[u]) = IF u = w THEN Range(joinQueue[u]) \cup {t}
                                      ELSE Range(joinQueue[u])
      BY <3>1, <3>2 DEF Lines
    <3>5. Line(reaperQueue') /\ Range(reaperQueue') = Range(reaperQueue)
      BY <2>2 DEF Lines
    <3>6. \A u \in Thread : t \in Range(joinQueue'[u]) <=> u = w
      BY <1>2, <3>4
    <3> QED
      BY <1>2, <3>3, <3>4, <3>5, <3>6
  <2> QED
    BY <2>1, <2>2
<1>7. Types'
  BY <1>1, <1>5, <1>6 DEF Types
<1>8. Lines'
  BY <1>4, <1>6 DEF Lines, Line
<1>9. Apart'
  <2> SUFFICES ASSUME NEW x \in Thread
               PROVE  /\ ~(x \in Range(runQueue') /\ x \in Range(reaperQueue'))
                      /\ \A u \in Thread : x \in Range(joinQueue'[u]) =>
                           x \notin Range(runQueue') /\ x \notin Range(reaperQueue')
                      /\ \A u, v \in Thread :
                           x \in Range(joinQueue'[u]) /\ x \in Range(joinQueue'[v]) => u = v
    BY DEF Apart
  <2>1. CASE x = t
    BY <1>2, <1>4, <1>6, <2>1
  <2>2. CASE x # t
    BY <1>4, <1>6, <2>2 DEF Apart
  <2> QED
    BY <2>1, <2>2
<1>10. \A x \in Thread : Queued(x)' <=> (Queued(x) \/ x = t) /\ x # current'
  <2> SUFFICES ASSUME NEW x \in Thread
               PROVE  Queued(x)' <=> (Queued(x) \/ x = t) /\ x # current'
    OBVIOUS
  <2>1. CASE x = t
    BY <1>5, <1>6, <2>1 DEF Queued
  <2>2. CASE x # t
    <3>1. /\ x \in Range(reaperQueue') <=> x \in Range(reaperQueue)
          /\ \A u \in Thread : x \in Range(joinQueue'[u]) <=> x \in Range(joinQueue[u])
          /\ x \in Range(runQueue') <=> x \in Range(runQueue) /\ x # current'
      BY <1>4, <1>6, <2>2
    <3>2. x = current' => x \notin Range(reaperQueue)
                            /\ \A u \in Thread : x \notin Range(joinQueue[u])
      BY <1>4 DEF Apart
    <3> QED
      BY <2>2, <3>1, <3>2 DEF Queued
  <2> QED
    BY <2>1, <2>2
<1>11. \A x : Doomed(x)' <=> Doomed(x)
  BY DEF Doomed
<1>12. /\ current' \in threads /\ alive[current'] /\ ~Fresh(current')
       /\ t \in threads /\ alive[t] /\ ~Fresh(t)
  BY <1>4, <1>5 DEF Standing, Queued, Stages
<1>13. Standing'
  <2> SUFFICES ASSUME NEW x \in Thread
               PROVE  Queued(x)' <=> x \in threads /\ alive[x] /\ x # current' /\ ~Fresh(x)
    BY <1>1, <1>11 DEF Standing
  <2> QED
    BY <1>10, <1>12 DEF Standing
<1>14. Stages'
  <2>1. current' = Idle \/ Idle \in Range(runQueue')
    BY <1>3, <1>4
  <2>2. pc'[Main] \in {"joining", "exit", "dead"}
    BY <1>1, ThreadMembers DEF Stages
  <2>3. pc'[Reaper] = "look" => dying' = <<>>
    BY <1>1, ThreadMembers DEF Stages
  <2>4. \A x \in Thread : pc'[x] \in InCreation => pc[x] \in InCreation
    BY <1>1
  <2>5. \A x \in Thread : pc'[x] \in {"join", "joining"} => target[x] \in Thread
    BY <1>1 DEF Stages
  <2> QED
    BY <1>1, <1>12, <2>1, <2>2, <2>3, <2>4, <2>5 DEF Stages
<1> QED
  BY <1>7, <1>8, <1>9, <1>13, <1>14

\* The reaper waits.
LEMMA ReaperWaitsLinked == ASSUME Linked, ReaperWaits PROVE Linked'
<1>1. Reaper \in Thread \ {Idle} /\ current = Reaper /\ pc[Reaper] = "look"
  BY ThreadMembers, ThreadAssumption DEF ReaperWaits, Runs
<1>2. Goto(Reaper, "look")
  BY <1>1 DEF ReaperWaits, Goto, Linked, Types
<1>3. "look" \in Labels \ InCreation
  BY DEF Labels, InCreation
<1>4. Reaper # Main
  BY ThreadAssumption
<1> QED
  BY <1>1, <1>2, <1>3, <1>4, BlockLinked DEF ReaperWaits, objectVars

\* Sys_Spawn(): the new thread is in no queue yet.
LEMMA SpawnLinked ==
  ASSUME Linked, JoinersWaitForLiving, NEW t \in Process, Spawn(t)
  PROVE  Linked'
<1> USE DEF Linked
<1>1. /\ t \in Thread /\ current = t /\ pc[t] = "user" /\ t # Main /\ t # Reaper
      /\ pc[t] \notin InCreation
  BY ThreadMembers, ThreadAssumption DEF Spawn, Runs, InCreation
<1>2. ASSUME NEW u \in Process \ threads,
             threads' = threads \cup {u},
             alive' = [alive EXCEPT ![u] = TRUE],
             refCount' = [refCount EXCEPT ![u] = 2],
             joinQueue' = [joinQueue EXCEPT ![u] = <<>>],
             pc' = [pc EXCEPT ![u] = "user", ![t] = "add"],
             target' = [target EXCEPT ![u] = NoThread, ![t] = u]
      PROVE  Linked'
  <2>1. /\ u \in Thread /\ u # t /\ ~alive[u] /\ u # Main /\ u # Reaper
        /\ u # current
    BY <1>1, <1>2, ThreadMembers, ThreadAssumption DEF Standing, Stages
  <2>2. UNCHANGED <<current, runQueue, graveyard, reaperQueue, dying>>
    BY DEF Spawn
  <2>3. joinQueue' = joinQueue
    BY <1>2, <2>1 DEF JoinersWaitForLiving, Types
  <2>4. /\ pc'[u] = "user" /\ pc'[t] \in InCreation /\ target'[t] = u
        /\ \A x \in Thread : x # u /\ x # t => pc'[x] = pc[x] /\ target'[x] = target[x]
        /\ pc' \in [Thread -> Labels] /\ target' \in [Thread -> Thread \cup {NoThread}]
    BY <1>1, <1>2, <2>1 DEF Types, Labels, InCreation
  <2>5. /\ alive'[u] /\ refCount'[u] = 2
        /\ \A x \in Thread : x # u => alive'[x] = alive[x] /\ refCount'[x] = refCount[x]
    BY <1>2, <2>1 DEF Types
  <2>6. pc[u] \notin InCreation /\ \A x \in Thread : ~Creating(x, u)
    BY <1>2, <2>1 DEF Stages, Creating
  <2>7. \A x \in Thread : \A y : Creating(x, y)' <=> Creating(x, y) \/ (x = t /\ y = u)
    <3> SUFFICES ASSUME NEW x \in Thread, NEW y
                 PROVE  Creating(x, y)' <=> Creating(x, y) \/ (x = t /\ y = u)
      OBVIOUS
    <3>1. CASE x = t
      BY <1>1, <2>4, <3>1 DEF Creating
    <3>2. CASE x = u
      BY <2>1, <2>4, <2>6, <3>2 DEF Creating, InCreation
    <3>3. CASE x # t /\ x # u
      BY <2>4, <3>3 DEF Creating
    <3> QED
      BY <3>1, <3>2, <3>3
  <2>8. \A y : Fresh(y)' <=> Fresh(y) \/ y = u
    BY <1>1, <2>7, ThreadMembers DEF Fresh
  <2>9. \A y : (Queued(y)' <=> Queued(y)) /\ (Doomed(y)' <=> Doomed(y))
    BY <2>2, <2>3 DEF Queued, Doomed
  <2>10. Types'
    <3>1. alive' \in [Thread -> BOOLEAN]
      BY <1>2 DEF Types
    <3>3. refCount' \in [Thread -> Int]
      <4>1. refCount \in [Thread -> Int] /\ 2 \in Int
        BY DEF Types
      <4> QED
        BY <1>2, <4>1
    <3>2. current' \in Thread /\ threads' \subseteq Thread
            /\ joinQueue' \in [Thread -> Seq(Thread)]
      BY <1>2, <2>1, <2>2, <2>3 DEF Types
    <3> QED
      BY <2>4, <3>1, <3>2, <3>3 DEF Types
  <2>11. Lines' /\ Apart'
    BY <2>2, <2>3 DEF Lines, Apart
  <2>12. Standing'
    <3> SUFFICES ASSUME NEW x \in Thread
                 PROVE  /\ Queued(x) <=> /\ x \in threads' /\ alive'[x] /\ x # current
                                         /\ ~(Fresh(x) \/ x = u)
                        /\ Doomed(x) <=> x \in threads' /\ ~alive'[x] /\ refCount'[x] = 0
                        /\ x \notin threads' => ~alive'[x] /\ refCount'[x] = 0
                        /\ alive'[x] => refCount'[x] >= 1
      BY <2>2, <2>8, <2>9 DEF Standing
    <3>1. CASE x = u
      BY <1>2, <2>1, <2>5, <3>1 DEF Standing
    <3>2. CASE x # u
      BY <1>2, <2>5, <3>2 DEF Standing
    <3> QED
      BY <3>1, <3>2
  <2>13. Stages'
    <3>1. (current \in threads /\ alive[current] /\ ~Fresh(current))'
      BY <1>1, <1>2, <2>1, <2>2, <2>5, <2>8 DEF Stages
    <3>2. \A x \in Thread : pc'[x] \in InCreation =>
            /\ x \in Process /\ alive'[x]
            /\ target'[x] \in Thread /\ target'[x] \in threads' /\ alive'[target'[x]]
      <4> SUFFICES ASSUME NEW x \in Thread, pc'[x] \in InCreation
                   PROVE  /\ x \in Process /\ alive'[x]
                          /\ target'[x] \in Thread /\ target'[x] \in threads'
                          /\ alive'[target'[x]]
        OBVIOUS
      <4>1. CASE x = t
        BY <1>1, <1>2, <2>1, <2>4, <2>5, <4>1 DEF Stages
      <4>2. CASE x # t
        <5>1. x # u
          BY <2>4, <4>2 DEF InCreation
        <5>2. pc[x] \in InCreation /\ target'[x] = target[x]
          BY <2>4, <4>2, <5>1
        <5>3. /\ x \in Process /\ alive[x]
              /\ target[x] \in Thread /\ target[x] \in threads /\ alive[target[x]]
          BY <5>2 DEF Stages
        <5>4. target[x] # u
          BY <2>1, <5>3
        <5> QED
          BY <1>2, <2>5, <5>1, <5>2, <5>3, <5>4
      <4> QED
        BY <4>1, <4>2
    <3>3. \A x, y \in Thread : \A z \in Thread : Creating(x, z)' /\ Creating(y, z)' => x = y
      BY <2>6, <2>7 DEF Stages
    <3>4. \A x \in Thread : pc'[x] \in {"join", "joining"} => target'[x] \in Thread
      BY <2>1, <2>4 DEF Stages
    <3>5. pc'[Main] \in {"joining", "exit", "dead"}
      BY <1>1, <2>1, <2>4, ThreadMembers DEF Stages
    <3>6. pc'[Reaper] = "look" => dying' = <<>>
      BY <1>1, <2>1, <2>2, <2>4, ThreadMembers DEF Stages
    <3>7. current' = Idle \/ Idle \in Range(runQueue')
      BY <2>2 DEF Stages
    <3> QED
      BY <3>1, <3>2, <3>3, <3>4, <3>5, <3>6, <3>7 DEF Stages
  <2> QED
    BY <2>10, <2>11, <2>12, <2>13
<1> QED
  BY <1>2 DEF Spawn

\* The steps of the add to the list of all threads: the thread goes on creating the same
\* one, and no queue changes.
LEMMA AddLinked ==
  ASSUME Linked, NEW t \in Process, ReadTail(t) \/ Link(t) \/ LinkBack(t) \/ MakeLast(t)
  PROVE  Linked'
<1> USE DEF Linked
<1>1. /\ t \in Thread /\ t # Main /\ t # Reaper
  BY ThreadMembers, ThreadAssumption
<1>2. /\ pc[t] \in InCreation
      /\ UNCHANGED <<queueVars, dying, objectVars, target>>
  BY DEF ReadTail, Link, LinkBack, MakeLast, Runs, InCreation
<1>3. PICK l \in InCreation : Goto(t, l)
  BY DEF ReadTail, Link, LinkBack, MakeLast, InCreation
<1>4. UNCHANGED <<current, runQueue, joinQueue, graveyard, reaperQueue, threads, alive,
                  refCount>>
  BY <1>2 DEF queueVars, objectVars
<1>5. /\ pc' \in [Thread -> Labels] /\ pc'[t] = l
      /\ \A x \in Thread : x # t => pc'[x] = pc[x]
  BY <1>1, <1>3 DEF Goto, Types, Labels, InCreation
<1>6. \A x \in Thread : pc'[x] \in InCreation <=> pc[x] \in InCreation
  BY <1>2, <1>3, <1>5
<1>7. \A x \in Thread : \A y : Creating(x, y)' <=> Creating(x, y)
  BY <1>2, <1>6 DEF Creating
<1>8. \A y : /\ Fresh(y)' <=> Fresh(y)
             /\ Queued(y)' <=> Queued(y)
             /\ Doomed(y)' <=> Doomed(y)
  BY <1>2, <1>4, <1>7, ThreadMembers DEF Fresh, Queued, Doomed
<1>9. Types'
  BY <1>2, <1>4, <1>5 DEF Types
<1>10. Lines' /\ Apart'
  BY <1>2, <1>4 DEF Lines, Apart
<1>11. Standing'
  BY <1>4, <1>8 DEF Standing
<1>12. Stages'
  <2>1. \A x \in Thread : pc'[x] \in {"join", "joining"} => target'[x] \in Thread
    <3>1. l \notin {"join", "joining"}
      BY DEF InCreation
    <3> QED
      BY <1>2, <1>5, <3>1 DEF Stages
  <2>2. pc'[Main] \in {"joining", "exit", "dead"}
    BY <1>1, <1>5, ThreadMembers DEF Stages
  <2>3. pc'[Reaper] = "look" => dying' = <<>>
    BY <1>1, <1>2, <1>5, ThreadMembers DEF Stages
  <2> QED
    BY <1>2, <1>4, <1>6, <1>7, <1>8, <2>1, <2>2, <2>3 DEF Stages
<1> QED
  BY <1>9, <1>10, <1>11, <1>12

\* Make_Runnable_Atomic() of the new thread.
LEMMA MakeRunnableLinked ==
  ASSUME Linked, NEW t \in Thread, MakeRunnable(t)
  PROVE  Linked'
<1> USE DEF Linked
<1> DEFINE c == target[t]
<1>1. /\ current = t /\ pc[t] = "created" /\ runQueue' = Append(runQueue, c)
      /\ Goto(t, "spawned")
      /\ UNCHANGED <<current, joinQueue, graveyard, reaperQueue, dying, threads, alive,
                     refCount, target>>
  BY DEF MakeRunnable, Runs, objectVars
<1>2. c \in Thread /\ c \in threads /\ alive[c] /\ Creating(t, c) /\ Fresh(c) /\ t \in Process
  BY <1>1 DEF Stages, Creating, Fresh, InCreation
<1>3. ~Queued(c) /\ c # current
  BY <1>2 DEF Standing, Stages
<1>4. Line(runQueue') /\ Range(runQueue') = Range(runQueue) \cup {c}
  BY <1>1, <1>2, <1>3, AppendIs DEF Lines, Queued
<1>5. /\ pc' \in [Thread -> Labels] /\ pc'[t] = "spawned"
      /\ \A x \in Thread : x # t => pc'[x] = pc[x]
  BY <1>1 DEF Goto, Types, Labels
<1>6. \A x \in Thread : \A y : Creating(x, y)' <=> Creating(x, y) /\ x # t
  BY <1>1, <1>5 DEF Creating, InCreation
<1>7. \A y \in Thread : Fresh(y)' <=> Fresh(y) /\ y # c
  <2> SUFFICES ASSUME NEW y \in Thread
               PROVE  Fresh(y)' <=> Fresh(y) /\ y # c
    OBVIOUS
  <2>1. ASSUME Fresh(y)' PROVE Fresh(y) /\ y # c
    <3>1. PICK x \in Process : Creating(x, y)'
      BY <2>1 DEF Fresh
    <3>2. Creating(x, y) /\ x # t /\ x \in Thread
      BY <1>6, <3>1, ThreadMembers
    <3>3. y # c
      BY <1>2, <3>2 DEF Stages
    <3> QED
      BY <3>2, <3>3 DEF Fresh
  <2>2. ASSUME Fresh(y), y # c PROVE Fresh(y)'
    <3>1. PICK x \in Process : Creating(x, y)
      BY <2>2 DEF Fresh
    <3>2. x # t /\ x \in Thread
      BY <2>2, <3>1, ThreadMembers DEF Creating
    <3> QED
      BY <1>6, <3>1, <3>2 DEF Fresh
  <2> QED
    BY <2>1, <2>2
<1>8. Types'
  BY <1>1, <1>5 DEF Types
<1>9. Lines'
  BY <1>1, <1>4 DEF Lines
<1>10. Apart'
  BY <1>1, <1>3, <1>4 DEF Apart, Queued
<1>11. \A x \in Thread : (Queued(x)' <=> Queued(x) \/ x = c) /\ (Doomed(x)' <=> Doomed(x))
  BY <1>1, <1>4 DEF Queued, Doomed
<1>12. Standing'
  BY <1>1, <1>2, <1>3, <1>7, <1>11 DEF Standing
<1>13. Stages'
  <2>1. (current \in threads /\ alive[current] /\ ~Fresh(current))'
    BY <1>1, <1>7 DEF Stages
  <2>2. \A x \in Thread : pc'[x] \in InCreation => pc[x] \in InCreation
    BY <1>5 DEF InCreation
  <2>3. \A x \in Thread : pc'[x] \in {"join", "joining"} => pc[x] \in {"join", "joining"}
    BY <1>5
  <2>4. pc'[Main] \in {"joining", "exit", "dead"}
    BY <1>2, <1>5, ThreadMembers, ThreadAssumption DEF Stages
  <2>5. pc'[Reaper] = "look" => dying' = <<>>
    BY <1>1, <1>5, ThreadMembers DEF Stages
  <2>6. current' = Idle \/ Idle \in Range(runQueue')
    BY <1>1, <1>4 DEF Stages
  <2> QED
    BY <1>1, <1>6, <2>1, <2>2, <2>3, <2>4, <2>5, <2>6 DEF Stages
<1> QED
  BY <1>8, <1>9, <1>10, <1>12, <1>13

\* Detach_Thread() of a thread with a reference: the last one puts it into the graveyard,
\* and those who waited for that are taken from the reaper's queue.
LEMMA DetachIs ==
  ASSUME Linked, NEW u \in Thread, refCount[u] >= 1, Detach(u)
  PROVE  /\ refCount' \in [Thread -> Int] /\ refCount'[u] = refCount[u] - 1
         /\ \A x \in Thread : x # u => refCount'[x] = refCount[x]
         /\ Line(graveyard') /\ Line(reaperQueue') /\ Line(Woken(u))
         /\ \A x : x \in Range(graveyard') <=>
                     x \in Range(graveyard) \/ (x = u /\ refCount[u] = 1)
         /\ \A x : x \in Range(reaperQueue) <=>
                     x \in Range(Woken(u)) \/ x \in Range(reaperQueue')
         /\ Range(Woken(u)) \cap Range(reaperQueue') = {}
<1> USE DEF Linked
<1>1. refCount' = [refCount EXCEPT ![u] = @ - 1] /\ refCount \in [Thread -> Int]
  BY DEF Detach, Types
<1>2. /\ refCount' \in [Thread -> Int] /\ refCount'[u] = refCount[u] - 1
      /\ \A x \in Thread : x # u => refCount'[x] = refCount[x]
  BY <1>1
<1>3. ~Doomed(u)
  BY DEF Standing
<1>4. CASE refCount[u] = 1
  <2>1. graveyard' = Append(graveyard, u) /\ reaperQueue' = <<>> /\ Woken(u) = reaperQueue
    BY <1>4 DEF Detach, Woken
  <2>2. Line(graveyard') /\ Range(graveyard') = Range(graveyard) \cup {u}
    BY <1>3, <2>1, AppendIs DEF Lines, Doomed
  <2> QED
    BY <1>2, <1>4, <2>1, <2>2, EmptyIs DEF Lines
<1>5. CASE refCount[u] # 1
  <2>1. UNCHANGED <<graveyard, reaperQueue>> /\ Woken(u) = <<>>
    BY <1>5 DEF Detach, Woken
  <2> QED
    BY <1>2, <1>5, <2>1, EmptyIs DEF Lines
<1> QED
  BY <1>4, <1>5

\* Join() of a thread that is dead: the caller goes on.
LEMMA JoinedLinked ==
  ASSUME Linked, NEW t \in Thread, current = t, t # Reaper, pc[t] \notin InCreation,
         NEW u \in Thread, ~alive[u], refCount[u] > 0, Detach(u),
         runQueue' = runQueue \o Woken(u),
         Goto(t, IF t = Main THEN "exit" ELSE "user"),
         target' = [target EXCEPT ![t] = NoThread],
         UNCHANGED <<current, joinQueue, dying, threads, alive>>
  PROVE  Linked'
<1> USE DEF Linked
<1> DEFINE l == IF t = Main THEN "exit" ELSE "user"
<1>1. /\ pc' \in [Thread -> Labels] /\ pc'[t] = l
      /\ \A x \in Thread : x # t => pc'[x] = pc[x]
      /\ \A x \in Thread : \A y : Creating(x, y)' <=> Creating(x, y)
      /\ \A y : Fresh(y)' <=> Fresh(y)
  <2>1. l \in Labels \ InCreation
    BY DEF Labels, InCreation
  <2>2. \A x \in Thread : x # t => target'[x] = target[x]
    BY DEF Types
  <2> QED
    BY <2>1, <2>2, SameFresh
<1>2. /\ refCount[u] \in Int /\ refCount[u] >= 1 /\ u \in threads
  BY DEF Types, Standing
<1>3. /\ refCount' \in [Thread -> Int] /\ refCount'[u] = refCount[u] - 1
      /\ \A x \in Thread : x # u => refCount'[x] = refCount[x]
      /\ Line(graveyard') /\ Line(reaperQueue') /\ Line(Woken(u))
      /\ \A x : x \in Range(graveyard') <=>
                  x \in Range(graveyard) \/ (x = u /\ refCount[u] = 1)
      /\ \A x : x \in Range(reaperQueue) <=>
                  x \in Range(Woken(u)) \/ x \in Range(reaperQueue')
      /\ Range(Woken(u)) \cap Range(reaperQueue') = {}
  BY <1>2, DetachIs
<1>4. Line(runQueue') /\ Range(runQueue') = Range(runQueue) \cup Range(Woken(u))
  <2>1. Range(runQueue) \subseteq Thread
    BY LineRange DEF Lines
  <2>2. Range(runQueue) \cap Range(Woken(u)) = {}
    BY <1>3, <2>1 DEF Apart
  <2> QED
    BY <1>3, <2>2, ConcatIs DEF Lines
<1>5. ~Doomed(u)
  BY <1>2 DEF Standing
<1>6. Types'
  BY <1>1, <1>3 DEF Types
<1>7. Lines'
  BY <1>3, <1>4 DEF Lines
<1>8. Apart'
  BY <1>3, <1>4, <1>5 DEF Apart, Doomed
<1>9. \A x \in Thread : /\ Queued(x)' <=> Queued(x)
                        /\ Doomed(x)' <=> Doomed(x) \/ (x = u /\ refCount[u] = 1)
  BY <1>3, <1>4 DEF Queued, Doomed
<1>10. Standing'
  <2> SUFFICES ASSUME NEW x \in Thread
               PROVE  /\ Doomed(x) \/ (x = u /\ refCount[u] = 1) <=>
                           x \in threads /\ ~alive[x] /\ refCount'[x] = 0
                      /\ x \notin threads => ~alive[x] /\ refCount'[x] = 0
                      /\ alive[x] => refCount'[x] >= 1
    BY <1>1, <1>9 DEF Standing
  <2>1. CASE x = u
    <3>1. refCount'[u] = 0 <=> refCount[u] = 1
      BY <1>2, <1>3
    <3> QED
      BY <1>2, <1>5, <2>1, <3>1
  <2>2. CASE x # u
    BY <1>3, <2>2 DEF Standing
  <2> QED
    BY <2>1, <2>2
<1>11. Stages'
  <2>1. (current \in threads /\ alive[current] /\ ~Fresh(current))'
    BY <1>1 DEF Stages
  <2>2. \A x \in Thread : pc'[x] \in InCreation =>
          /\ x \in Process /\ alive'[x]
          /\ target'[x] \in Thread /\ target'[x] \in threads' /\ alive'[target'[x]]
    <3>1. \A x \in Thread :
            pc'[x] \in InCreation => pc[x] \in InCreation /\ target'[x] = target[x]
      BY <1>1 DEF Types, InCreation
    <3> QED
      BY <3>1 DEF Stages
  <2>3. \A x \in Thread : pc'[x] \in {"join", "joining"} => target'[x] \in Thread
    <3>1. \A x \in Thread : pc'[x] \in {"join", "joining"} =>
            pc[x] \in {"join", "joining"} /\ target'[x] = target[x]
      BY <1>1 DEF Types
    <3> QED
      BY <3>1 DEF Stages
  <2>4. pc'[Main] \in {"joining", "exit", "dead"}
    BY <1>1, ThreadMembers DEF Stages
  <2>5. pc'[Reaper] = "look" => dying' = <<>>
    BY <1>1, ThreadMembers DEF Stages
  <2>6. current' = Idle \/ Idle \in Range(runQueue')
    BY <1>4 DEF Stages
  <2> QED
    BY <1>1, <2>1, <2>2, <2>3, <2>4, <2>5, <2>6 DEF Stages
<1> QED
  BY <1>6, <1>7, <1>8, <1>10, <1>11

\* Join(), called and continued.
LEMMA JoinLoopLinked ==
  ASSUME Linked, NEW t \in Process \cup {Main}, current = t, pc[t] \in {"join", "joining"},
         JoinLoop(t), UNCHANGED <<dying, threads, alive>>
  PROVE  Linked'
<1> DEFINE u == target[t]
<1>1. t \in Thread /\ t # Idle /\ t # Reaper
  BY ThreadMembers, ThreadAssumption
<1>2. u \in Thread
  BY <1>1 DEF Linked, Stages
<1>3. CASE /\ joinQueue' = [joinQueue EXCEPT ![u] = Append(@, t)]
           /\ Goto(t, "joining") /\ Schedule(runQueue)
           /\ UNCHANGED <<graveyard, reaperQueue, refCount, target, stopped>>
  <2>1. "joining" \in Labels \ InCreation /\ pc[t] \notin InCreation
    BY DEF Labels, InCreation
  <2> QED
    BY <1>1, <1>2, <1>3, <2>1, BlockLinked
<1>4. CASE /\ ~alive[u] /\ refCount[u] > 0 /\ Detach(u)
           /\ runQueue' = runQueue \o Woken(u)
           /\ Goto(t, IF t = Main THEN "exit" ELSE "user")
           /\ target' = [target EXCEPT ![t] = NoThread]
           /\ UNCHANGED <<current, joinQueue, stopped>>
  <2>1. pc[t] \notin InCreation
    BY DEF InCreation
  <2> QED
    BY <1>1, <1>2, <1>4, <2>1, JoinedLinked
<1>5. CASE UNCHANGED <<queueVars, refCount, pc, target>>
  BY <1>5, SameLinked
<1> QED
  BY <1>3, <1>4, <1>5 DEF JoinLoop

\* Exit(): the joiners are woken, the reference of the thread to itself goes, and the next
\* one runs.
LEMMA ExitLinked ==
  ASSUME Linked, NEW t \in Process \cup {Main}, Exit(t)
  PROVE  Linked'
<1> USE DEF Linked
<1> DEFINE first == runQueue \o joinQueue[t]
           queue == first \o Woken(t)
<1>1. /\ t \in Thread /\ current = t /\ t # Reaper /\ t # Idle /\ pc[t] \notin InCreation
      /\ alive[t] /\ t \in threads /\ ~Fresh(t) /\ ~Queued(t)
  BY ThreadMembers, ThreadAssumption DEF Exit, Runs, Stages, Standing,
                                          InCreation
<1>2. /\ alive' = [alive EXCEPT ![t] = FALSE]
      /\ joinQueue' = [joinQueue EXCEPT ![t] = <<>>]
      /\ Detach(t) /\ Schedule(queue) /\ Goto(t, "dead")
      /\ UNCHANGED <<dying, threads, target>>
  BY DEF Exit
<1>3. /\ pc' \in [Thread -> Labels] /\ pc'[t] = "dead"
      /\ \A x \in Thread : x # t => pc'[x] = pc[x]
      /\ \A x \in Thread : \A y : Creating(x, y)' <=> Creating(x, y)
      /\ \A y : Fresh(y)' <=> Fresh(y)
  <2>1. "dead" \in Labels \ InCreation
    BY DEF Labels, InCreation
  <2>2. \A x \in Thread : x # t => target'[x] = target[x]
    BY <1>2
  <2> QED
    BY <1>1, <1>2, <2>1, <2>2, SameFresh
<1>4. /\ alive' \in [Thread -> BOOLEAN] /\ ~alive'[t]
      /\ \A x \in Thread : x # t => alive'[x] = alive[x]
  BY <1>1, <1>2 DEF Types
<1>5. /\ joinQueue' \in [Thread -> Seq(Thread)]
      /\ \A u \in Thread : /\ Line(joinQueue'[u])
                           /\ Range(joinQueue'[u]) = IF u = t THEN {} ELSE Range(joinQueue[u])
  <2>1. /\ joinQueue'[t] = <<>>
        /\ \A u \in Thread : u # t => joinQueue'[u] = joinQueue[u]
    BY <1>1, <1>2 DEF Types
  <2>2. joinQueue' \in [Thread -> Seq(Thread)]
    <3>1. <<>> \in Seq(Thread) /\ joinQueue \in [Thread -> Seq(Thread)]
      BY DEF Types
    <3> QED
      BY <1>2, <3>1
  <2> QED
    BY <2>1, <2>2, EmptyIs DEF Lines
<1>6. refCount[t] \in Int /\ refCount[t] >= 1
  BY <1>1 DEF Types, Standing
<1>7. /\ refCount' \in [Thread -> Int] /\ refCount'[t] = refCount[t] - 1
      /\ \A x \in Thread : x # t => refCount'[x] = refCount[x]
      /\ Line(graveyard') /\ Line(reaperQueue') /\ Line(Woken(t))
      /\ \A x : x \in Range(graveyard') <=>
                  x \in Range(graveyard) \/ (x = t /\ refCount[t] = 1)
      /\ \A x : x \in Range(reaperQueue) <=>
                  x \in Range(Woken(t)) \/ x \in Range(reaperQueue')
      /\ Range(Woken(t)) \cap Range(reaperQueue') = {}
  BY <1>1, <1>2, <1>6, DetachIs
<1>8. Range(runQueue) \subseteq Thread /\ Range(joinQueue[t]) \subseteq Thread
  BY <1>1, LineRange DEF Lines
<1>9. Line(first) /\ Range(first) = Range(runQueue) \cup Range(joinQueue[t])
  <2>1. Range(runQueue) \cap Range(joinQueue[t]) = {}
    BY <1>1, <1>8 DEF Apart
  <2> QED
    BY <1>1, <2>1, ConcatIs DEF Lines
<1>10. /\ Line(queue)
       /\ Range(queue) = Range(runQueue) \cup Range(joinQueue[t]) \cup Range(Woken(t))
  <2>1. Range(first) \cap Range(Woken(t)) = {}
    BY <1>1, <1>7, <1>8, <1>9 DEF Apart
  <2> HIDE DEF first
  <2> QED
    BY <1>7, <1>9, <2>1, ConcatIs
<1>11. Idle \in Range(runQueue) /\ queue # <<>>
  <2>1. Idle \in Range(runQueue)
    BY <1>1 DEF Stages
  <2>2. Idle \in Range(queue)
    BY <1>10, <2>1
  <2> QED
    BY <2>1, <2>2, NonEmptyIs
<1>12. /\ current' \in Range(queue) /\ Line(runQueue')
       /\ Range(runQueue') = Range(queue) \ {current'}
  <2> HIDE DEF queue
  <2>1. Line(runQueue)' <=> Line(runQueue')
    BY DEF Line
  <2> QED
    BY <1>2, <1>10, <1>11, <2>1, ScheduleIs
<1>13. current' \in Thread
  BY <1>10, <1>12, LineRange
<1> HIDE DEF queue
<1>14. \A x \in Range(queue) : x \in Thread /\ Queued(x) /\ x # t
  BY <1>1, <1>7, <1>8, <1>10, LineRange DEF Queued, Lines
<1>15. \A x \in Thread : Queued(x)' <=> Queued(x) /\ x # current'
  <2> SUFFICES ASSUME NEW x \in Thread
               PROVE  Queued(x)' <=> Queued(x) /\ x # current'
    OBVIOUS
  <2>1. Queued(x)' <=>
          \/ /\ x \in Range(runQueue) \cup Range(joinQueue[t]) \cup Range(Woken(t))
             /\ x # current'
          \/ x \in Range(reaperQueue')
          \/ \E u \in Thread : u # t /\ x \in Range(joinQueue[u])
    BY <1>5, <1>10, <1>12 DEF Queued
  <2>2. x = current' => x \notin Range(reaperQueue')
          /\ \A u \in Thread : u # t => x \notin Range(joinQueue[u])
    <3>1. current' \in Range(runQueue) \/ current' \in Range(joinQueue[t])
            \/ current' \in Range(Woken(t))
      BY <1>10, <1>12
    <3> QED
      BY <1>1, <1>7, <3>1 DEF Apart
  <2> QED
    BY <1>1, <1>7, <2>1, <2>2 DEF Queued
<1>16. \A x \in Thread : Doomed(x)' <=> Doomed(x) \/ (x = t /\ refCount[t] = 1)
  BY <1>2, <1>7 DEF Doomed
<1>17. Types'
  BY <1>2, <1>3, <1>4, <1>5, <1>7, <1>13 DEF Types
<1>18. Lines'
  BY <1>2, <1>5, <1>7, <1>12 DEF Lines
<1>19. Apart'
  <2> SUFFICES ASSUME NEW x \in Thread
               PROVE  /\ ~(x \in Range(runQueue') /\ x \in Range(reaperQueue'))
                      /\ \A u \in Thread : x \in Range(joinQueue'[u]) =>
                           x \notin Range(runQueue') /\ x \notin Range(reaperQueue')
                      /\ \A u, v \in Thread :
                           x \in Range(joinQueue'[u]) /\ x \in Range(joinQueue'[v]) => u = v
                      /\ ~(x \in Range(graveyard') /\ x \in Range(dying'))
    BY DEF Apart
  <2>1. x \in Range(runQueue') =>
          x \in Range(runQueue) \/ x \in Range(joinQueue[t]) \/ x \in Range(Woken(t))
    BY <1>10, <1>12
  <2>2. \A u \in Thread : x \in Range(joinQueue'[u]) => x \in Range(joinQueue[u]) /\ u # t
    BY <1>5
  <2>3. ~(x \in Range(runQueue') /\ x \in Range(reaperQueue'))
    BY <1>1, <1>7, <2>1 DEF Apart
  <2>4. \A u \in Thread : x \in Range(joinQueue'[u]) =>
           x \notin Range(runQueue') /\ x \notin Range(reaperQueue')
    BY <1>1, <1>7, <2>1, <2>2 DEF Apart
  <2>5. \A u, v \in Thread :
           x \in Range(joinQueue'[u]) /\ x \in Range(joinQueue'[v]) => u = v
    BY <2>2 DEF Apart
  <2>6. ~(x \in Range(graveyard') /\ x \in Range(dying'))
    <3>1. ~Doomed(t)
      BY <1>1 DEF Standing
    <3> QED
      BY <1>2, <1>7, <3>1 DEF Apart, Doomed
  <2> QED
    BY <2>3, <2>4, <2>5, <2>6
<1>20. Standing'
  <2> SUFFICES ASSUME NEW x \in Thread
               PROVE  /\ Queued(x) /\ x # current' <=>
                           x \in threads /\ alive'[x] /\ x # current' /\ ~Fresh(x)
                      /\ Doomed(x) \/ (x = t /\ refCount[t] = 1) <=>
                           x \in threads /\ ~alive'[x] /\ refCount'[x] = 0
                      /\ x \notin threads => ~alive'[x] /\ refCount'[x] = 0
                      /\ alive'[x] => refCount'[x] >= 1
    BY <1>2, <1>3, <1>15, <1>16 DEF Standing
  <2>1. CASE x = t
    <3>1. refCount'[t] = 0 <=> refCount[t] = 1
      BY <1>6, <1>7
    <3>2. ~Doomed(t)
      BY <1>1 DEF Standing
    <3> QED
      BY <1>1, <1>4, <2>1, <3>1, <3>2
  <2>2. CASE x # t
    BY <1>1, <1>4, <1>7, <2>2 DEF Standing
  <2> QED
    BY <2>1, <2>2
<1>21. Stages'
  <2>1. (current \in threads /\ alive[current] /\ ~Fresh(current))'
    <3>1. Queued(current') /\ current' # t
      BY <1>12, <1>14
    <3>2. current' \in threads /\ alive[current'] /\ ~Fresh(current')
      BY <1>13, <3>1 DEF Standing
    <3> QED
      BY <1>2, <1>3, <1>4, <1>13, <3>1, <3>2
  <2>2. \A x \in Thread : pc'[x] \in InCreation =>
          /\ x \in Process /\ alive'[x]
          /\ target'[x] \in Thread /\ target'[x] \in threads' /\ alive'[target'[x]]
    <3> SUFFICES ASSUME NEW x \in Thread, pc'[x] \in InCreation
                 PROVE  /\ x \in Process /\ alive'[x]
                        /\ target[x] \in Thread /\ target[x] \in threads
                        /\ alive'[target[x]]
      BY <1>2
    <3>1. x # t /\ pc[x] \in InCreation
      BY <1>3 DEF InCreation
    <3>2. /\ x \in Process /\ alive[x]
          /\ target[x] \in Thread /\ target[x] \in threads /\ alive[target[x]]
      BY <3>1 DEF Stages
    <3>3. target[x] # t
      BY <1>1, <3>1, <3>2 DEF Fresh, Creating
    <3> QED
      BY <1>4, <3>1, <3>2, <3>3
  <2>3. \A x \in Thread : pc'[x] \in {"join", "joining"} => target'[x] \in Thread
    <3>1. \A x \in Thread : pc'[x] \in {"join", "joining"} => pc[x] \in {"join", "joining"}
      BY <1>3
    <3> QED
      BY <1>2, <3>1 DEF Stages
  <2>4. pc'[Main] \in {"joining", "exit", "dead"}
    BY <1>3, ThreadMembers DEF Stages
  <2>5. pc'[Reaper] = "look" => dying' = <<>>
    BY <1>1, <1>2, <1>3, ThreadMembers DEF Stages
  <2>6. current' = Idle \/ Idle \in Range(runQueue')
    BY <1>10, <1>11, <1>12
  <2> QED
    BY <1>3, <2>1, <2>2, <2>3, <2>4, <2>5, <2>6 DEF Stages
<1> QED
  BY <1>17, <1>18, <1>19, <1>20, <1>21

\* One step for each disjunct of Next.
LEMMA NextLinked == ASSUME Linked, JoinersWaitForLiving, [Next]_vars PROVE Linked'
<1>1. CASE Preempt
  BY <1>1, PreemptLinked
<1>2. ASSUME NEW t \in Process, UserStep(t) PROVE Linked'
  <2>0. t \in Thread /\ t # Main /\ t # Reaper
    BY ThreadMembers, ThreadAssumption
  <2>1. CASE Spawn(t)
    BY <2>1, SpawnLinked
  <2>2. CASE Lookup(t)
    <3>0. UNCHANGED <<queueVars, dying, threads, alive, refCount>>
      BY <2>2 DEF Lookup, objectVars
    <3>1. CASE UNCHANGED <<pc, target>>
      BY <3>0, <3>1, SameLinked
    <3>2. ASSUME NEW u \in Thread, target' = [target EXCEPT ![t] = u], Goto(t, "join")
          PROVE  Linked'
      <4>1. current = t /\ pc[t] \notin InCreation
        BY <2>2 DEF Lookup, Runs, InCreation
      <4>2. "join" \in Labels \ InCreation
        BY DEF Labels, InCreation
      <4> QED
        BY <2>0, <3>0, <3>2, <4>1, <4>2, MoveLinked
    <3> QED
      BY <2>2, <3>1, <3>2 DEF Lookup
  <2>3. CASE Exit(t)
    BY <2>3, ExitLinked
  <2> QED
    BY <1>2, <2>1, <2>2, <2>3 DEF UserStep
<1>3. ASSUME NEW t \in Process \cup {Main}, KernelStep(t) PROVE Linked'
  <2>0. t \in Thread /\ t # Reaper
    BY ThreadMembers, ThreadAssumption
  <2>1. CASE ReadTail(t) \/ Link(t) \/ LinkBack(t) \/ MakeLast(t)
    <3>1. t # Main
      BY <2>1 DEF ReadTail, Link, LinkBack, MakeLast, Runs, Linked, Stages
    <3> QED
      BY <2>1, <3>1, AddLinked
  <2>2. CASE MakeRunnable(t)
    BY <2>0, <2>2, MakeRunnableLinked
  <2>3. CASE Spawned(t)
    <3>1. /\ current = t /\ pc[t] = "spawned"
          /\ UNCHANGED <<queueVars, dying, threads, alive, refCount>>
          /\ target' = [target EXCEPT ![t] = NoThread]
          /\ \E l \in {"user", "assertSpawn"} : Goto(t, l)
      BY <2>3 DEF Spawned, Runs, objectVars
    <3>2. t # Main
      BY <3>1 DEF Linked, Stages
    <3>3. PICK l \in {"user", "assertSpawn"} : Goto(t, l)
      BY <3>1
    <3>4. l \in Labels \ InCreation /\ l \notin {"join", "joining"}
      BY DEF Labels, InCreation
    <3>5. pc[t] \notin InCreation /\ NoThread \in Thread \cup {NoThread}
      BY <3>1 DEF InCreation
    <3> QED
      BY <2>0, <3>1, <3>2, <3>3, <3>4, <3>5, MoveLinked
  <2>4. CASE Join(t)
    <3>1. CASE JoinLoop(t)
      BY <2>4, <3>1, JoinLoopLinked DEF Join, Runs
    <3>2. CASE Goto(t, "assertJoin") /\ UNCHANGED <<queueVars, refCount, target, stopped>>
      <4>1. current = t /\ pc[t] = "join"
            /\ UNCHANGED <<queueVars, dying, threads, alive, refCount>>
        BY <2>4, <3>2 DEF Join, Runs
      <4>2. t # Main
        BY <4>1 DEF Linked, Stages
      <4>3. PICK u \in Thread \cup {NoThread} : target' = [target EXCEPT ![t] = u]
        <5>1. target[t] \in Thread \cup {NoThread}
              /\ target' = [target EXCEPT ![t] = target[t]]
          BY <2>0, <3>2 DEF Linked, Types
        <5> QED
          BY <5>1
      <4>4. "assertJoin" \in Labels \ InCreation /\ "assertJoin" \notin {"join", "joining"}
            /\ pc[t] \notin InCreation
        BY <4>1 DEF Labels, InCreation
      <4> QED
        BY <2>0, <3>2, <4>1, <4>2, <4>3, <4>4, MoveLinked
    <3> QED
      BY <2>4, <3>1, <3>2 DEF Join
  <2>5. CASE Rejoin(t)
    BY <2>5, JoinLoopLinked DEF Rejoin, Runs
  <2>6. CASE Exit(t)
    BY <2>6, ExitLinked
  <2> QED
    BY <1>3, <2>1, <2>2, <2>3, <2>4, <2>5, <2>6 DEF KernelStep
<1>4. CASE ReaperStep
  <2>1. CASE ReaperAgain
    <3>1. /\ current = Reaper /\ pc[Reaper] \notin InCreation /\ dying = <<>>
          /\ Goto(Reaper, "look")
          /\ UNCHANGED <<queueVars, dying, threads, alive, refCount>>
      BY <2>1 DEF ReaperAgain, Runs, objectVars, InCreation
    <3>2. Reaper \in Thread /\ Reaper # Main
      BY ThreadMembers, ThreadAssumption
    <3>3. PICK u \in Thread \cup {NoThread} : target' = [target EXCEPT ![Reaper] = u]
      <4>1. target[Reaper] \in Thread \cup {NoThread}
            /\ target' = [target EXCEPT ![Reaper] = target[Reaper]]
        BY <2>1, <3>2 DEF ReaperAgain, Linked, Types
      <4> QED
        BY <4>1
    <3>4. "look" \in Labels \ InCreation /\ "look" \notin {"join", "joining"}
      BY DEF Labels, InCreation
    <3> QED
      BY <3>1, <3>2, <3>3, <3>4, MoveLinked
  <2> QED
    BY <1>4, <2>1, ReaperWaitsLinked, ReaperTakesLinked, DestroyThreadLinked DEF ReaperStep
<1>5. CASE UNCHANGED vars
  BY <1>5, SameLinked DEF vars, objectVars
<1> QED
  BY <1>1, <1>2, <1>3, <1>4, <1>5 DEF Next, Halted

-------------------------------------------------------------------------------
\* How often a thread is in a queue in which nobody is twice.
LEMMA PlacesOf ==
  ASSUME NEW queue, Line(queue), NEW t
  PROVE  Cardinality(Places(t, queue)) = IF t \in Range(queue) THEN 1 ELSE 0
<1>1. CASE t \in Range(queue)
  <2>1. PICK i \in DOMAIN queue : queue[i] = t
    BY <1>1 DEF Range
  <2>2. Places(t, queue) = {i}
    BY <2>1 DEF Places, Line, IsInjective
  <2> QED
    BY <1>1, <2>2, FS_Singleton
<1>2. CASE t \notin Range(queue)
  <2>1. Places(t, queue) = {}
    BY <1>2 DEF Places, Range
  <2> QED
    BY <1>2, <2>1, FS_EmptySet
<1> QED
  BY <1>1, <1>2

\* In how many queues of joiners, when it is in one of them at most.
LEMMA JoinPlacesOf ==
  ASSUME Lines, Apart, NEW t \in Thread
  PROVE  Cardinality(JoinPlaces(t)) =
           IF \E u \in Thread : t \in Range(joinQueue[u]) THEN 1 ELSE 0
<1>1. \A p : p \in JoinPlaces(t) <=>
        \E u \in Thread : \E i \in Places(t, joinQueue[u]) : p = <<u, i>>
  BY DEF JoinPlaces
<1>2. CASE \E u \in Thread : t \in Range(joinQueue[u])
  <2>1. PICK u \in Thread : t \in Range(joinQueue[u])
    BY <1>2
  <2>2. PICK i \in DOMAIN joinQueue[u] : joinQueue[u][i] = t
    BY <2>1 DEF Range
  <2>3. \A v \in Thread : \A j \in Places(t, joinQueue[v]) : v = u /\ j = i
    <3> SUFFICES ASSUME NEW v \in Thread, NEW j \in Places(t, joinQueue[v])
                 PROVE  v = u /\ j = i
      OBVIOUS
    <3>1. t \in Range(joinQueue[v])
      BY DEF Places, Range
    <3>2. v = u
      BY <2>1, <3>1 DEF Apart
    <3> QED
      BY <2>2, <3>2 DEF Places, Lines, Line, IsInjective
  <2>4. i \in Places(t, joinQueue[u])
    BY <2>2 DEF Places
  <2>5. JoinPlaces(t) = {<<u, i>>}
    BY <1>1, <2>3, <2>4
  <2> QED
    BY <1>2, <2>5, FS_Singleton
<1>3. CASE ~\E u \in Thread : t \in Range(joinQueue[u])
  <2>1. \A u \in Thread : Places(t, joinQueue[u]) = {}
    BY <1>3 DEF Places, Range
  <2>2. JoinPlaces(t) = {}
    BY <1>1, <2>1
  <2> QED
    BY <1>3, <2>2, FS_EmptySet
<1> QED
  BY <1>2, <1>3

\* The number of links of a thread from what the invariant says of it.
LEMMA LinksOf ==
  ASSUME Linked, NEW t \in Thread
  PROVE  Links(t) = IF Queued(t) \/ Doomed(t) THEN 1 ELSE 0
<1> DEFINE r == Cardinality(Places(t, runQueue))
           g == Cardinality(Places(t, graveyard))
           w == Cardinality(Places(t, reaperQueue))
           d == Cardinality(Places(t, dying))
           j == Cardinality(JoinPlaces(t))
<1>1. /\ r = IF t \in Range(runQueue) THEN 1 ELSE 0
      /\ g = IF t \in Range(graveyard) THEN 1 ELSE 0
      /\ w = IF t \in Range(reaperQueue) THEN 1 ELSE 0
      /\ d = IF t \in Range(dying) THEN 1 ELSE 0
  BY PlacesOf DEF Linked, Lines
<1>2. j = IF \E u \in Thread : t \in Range(joinQueue[u]) THEN 1 ELSE 0
  BY JoinPlacesOf DEF Linked
<1>3. ~(Queued(t) /\ Doomed(t))
  BY DEF Linked, Standing
<1>4. Links(t) = r + g + w + d + j
  BY DEF Links
<1> HIDE DEF r, g, w, d, j
<1>5. CASE Doomed(t)
  <2>1. r = 0 /\ w = 0 /\ j = 0
    BY <1>1, <1>2, <1>3, <1>5 DEF Queued
  <2>2. (g = 1 /\ d = 0) \/ (g = 0 /\ d = 1)
    BY <1>1, <1>5 DEF Doomed, Linked, Apart
  <2> QED
    BY <1>4, <1>5, <2>1, <2>2
<1>6. CASE Queued(t)
  <2>1. g = 0 /\ d = 0
    BY <1>1, <1>3, <1>6 DEF Doomed
  <2>2. \/ r = 1 /\ w = 0 /\ j = 0
        \/ r = 0 /\ w = 1 /\ j = 0
        \/ r = 0 /\ w = 0 /\ j = 1
    BY <1>1, <1>2, <1>6 DEF Queued, Linked, Apart
  <2> QED
    BY <1>4, <1>6, <2>1, <2>2
<1>7. CASE ~Queued(t) /\ ~Doomed(t)
  <2>1. r = 0 /\ w = 0 /\ j = 0 /\ g = 0 /\ d = 0
    BY <1>1, <1>2, <1>7 DEF Queued, Doomed
  <2> QED
    BY <1>4, <1>7, <2>1
<1> QED
  BY <1>5, <1>6, <1>7

\* The property is what the invariant says of the number of links.
LEMMA LinkedOneQueue == Linked => OneQueue
<1> SUFFICES ASSUME Linked PROVE OneQueue
  OBVIOUS
<1>1. current \in Thread /\ threads \subseteq Thread
  BY DEF Linked, Types
<1>2. \A t : t \in Unstarted <=> Fresh(t)
  BY DEF Unstarted, Fresh, Creating
<1>3. Links(current) = 0
  <2>1. ~Queued(current) /\ ~Doomed(current)
    BY <1>1 DEF Linked, Standing, Stages
  <2> QED
    BY <1>1, <2>1, LinksOf
<1>4. ASSUME NEW t \in threads \ {current}
      PROVE  IF alive[t]
             THEN Links(t) = IF t \in Unstarted THEN 0 ELSE 1
             ELSE Links(t) = IF refCount[t] = 0 THEN 1 ELSE 0
  <2>1. CASE alive[t]
    <3>1. (Queued(t) <=> ~Fresh(t)) /\ ~Doomed(t)
      BY <1>1, <2>1 DEF Linked, Standing
    <3> QED
      BY <1>1, <1>2, <2>1, <3>1, LinksOf
  <2>2. CASE ~alive[t]
    <3>1. ~Queued(t) /\ (Doomed(t) <=> refCount[t] = 0)
      BY <1>1, <2>2 DEF Linked, Standing
    <3> QED
      BY <1>1, <2>2, <3>1, LinksOf
  <2> QED
    BY <2>1, <2>2
<1>5. current = Idle \/ Places(Idle, runQueue) # {}
  BY DEF Linked, Stages, Places, Range
<1> QED
  BY <1>3, <1>4, <1>5 DEF OneQueue

-------------------------------------------------------------------------------
\* The invariant of the queues holds in every reachable state: each step of kthread.c that
\* takes a thread out of a queue puts it into another or makes it the running one.
THEOREM QueueInvariant == Spec => []Linked
<1>1. Init => Linked
  BY InitLinked
<1>2. IInv /\ Linked /\ [Next]_vars => Linked'
  BY NextLinked DEF IInv
<1> QED
  BY <1>1, <1>2, Invariant, PTL DEF Spec

\* A thread is never in two queues, whose links are the same field of it, nor lost from all
\* of them, for any number of processes; and Find_Best() finds a thread whenever
\* Get_Next_Runnable() asks, as the idle thread is in the run queue or runs.
THEOREM OneQueueHolds == Spec => []OneQueue
<1> QED
  BY QueueInvariant, LinkedOneQueue, PTL

===============================================================================
