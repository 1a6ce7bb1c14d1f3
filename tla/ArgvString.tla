------------------------------ MODULE ArgvString ------------------------------
(***************************************************************************)
(* The kernel module's splitter (src/kernel/string.c) under the calls that *)
(* src/kernel/lm_kernel.c makes of it: recv_cb() runs str_to_argv() into   *)
(* the static table envp for every environment it receives, and the exit   *)
(* of the module runs free_argv() on what the last call left.              *)
(*                                                                         *)
(* Every block kmalloc() hands out is named by the call that asked for it; *)
(* kmalloc() may fail at each of them.  A string is a sequence of          *)
(* characters and a pointer into it a position from 1 to its NUL.          *)
(*                                                                         *)
(* The NUL iteration stores one slot more than the table was asked for.    *)
(* Where the block that kmalloc() rounds the table up to has no room for   *)
(* it, the store overwrites the block behind, a string of the call, say,   *)
(* or the free list: from there on the kernel has no defined state, and    *)
(* the model stops.                                                        *)
(***************************************************************************)
EXTENDS Integers, Sequences, FiniteSets

CONSTANTS
  Delim,      \* the delimiter, DELIME of data.h
  Strings,    \* the strings recv_cb() is handed
  FullSlots,  \* how many slots fill a block of kmalloc(), to its last byte
  MaxCalls    \* bound: calls of str_to_argv() until the module is unloaded

\* The client ends every variable with a delimiter (get_args_str), so that each
\* string has one and the table at least one slot.
ASSUME StringsAssumption ==
  \A s \in Strings : /\ Len(s) \in Nat /\ DOMAIN s = 1 .. Len(s)
                     /\ \E k \in DOMAIN s : s[k] = Delim
ASSUME FullSlotsAssumption == FullSlots \subseteq Nat
ASSUME MaxCallsAssumption == MaxCalls \in Nat

VARIABLES
  pc,     \* "idle" between calls, in str_to_argv(), "unloaded", or "overrun"
  call,   \* the number of calls so far; it names the blocks of the call
  str,    \* the string of the last call
  p, q,   \* p and q of str_to_argv(): the scan and the start of the token
  i,      \* i of str_to_argv(): the next slot
  slot,   \* slot[k]: the string the call stored in slot k of its table
  envp,   \* envp of lm_kernel.c: the call whose table it points to, 0 for NULL
  envc,   \* envc of lm_kernel.c: what the last call returned
  live,   \* the allocated blocks
  faulty  \* a block was freed that was not allocated

heap == <<live, faulty>>
scan == <<str, p, q, i>>
vars == <<pc, call, scan, slot, envp, envc, heap>>

-------------------------------------------------------------------------------
Copy(n) == <<n, "str_p", 0>>
Table(n) == <<n, "argv", 0>>
Slot(n, k) == <<n, "argv[i]", k>>

Kmalloc(b) == live' = live \cup {b} /\ UNCHANGED faulty
Kfree(B) == live' = live \ B /\ faulty' = (faulty \/ ~(B \subseteq live))

\* count_arg(): the slots of the table.
count_arg(s) == Cardinality({k \in DOMAIN s : s[k] = Delim})

\* The slots of the table that are memory of its block: those asked for, and one more
\* where they do not fill it.
Room(argc) == IF argc \in FullSlots THEN argc ELSE argc + 1

Goto(l) == pc' = l

Init ==
  /\ pc = "idle"
  /\ call = 0
  /\ str = <<>>
  /\ p = 1 /\ q = 1 /\ i = 0
  /\ slot = <<>>
  /\ envp = 0
  /\ envc = 0
  /\ live = {}
  /\ faulty = FALSE

-------------------------------------------------------------------------------
\* str_to_argv(s): the copy str_p, or -2 with envp as it was.
Call(s) ==
  /\ pc = "idle"
  /\ call < MaxCalls
  /\ call' = call + 1
  /\ str' = s
  /\ p' = 1 /\ q' = 1 /\ i' = 0
  /\ \/ Goto("table") /\ Kmalloc(Copy(call')) /\ UNCHANGED envc
     \/ Goto("idle") /\ envc' = -2 /\ UNCHANGED heap
  /\ UNCHANGED <<slot, envp>>

\* *argv = kmalloc(): the table, which envp points to from here on, or -4 with
\* envp NULL.  The table of the call before is not freed.
AllocTable ==
  /\ pc = "table"
  /\ slot' = <<>>
  /\ \/ Goto("scan") /\ envp' = call /\ Kmalloc(Table(call)) /\ UNCHANGED envc
     \/ Goto("idle") /\ envp' = 0 /\ Kfree({Copy(call)}) /\ envc' = -4
  /\ UNCHANGED <<call, scan>>

\* The string from q to the NUL that str_to_argv() finds or writes at p.
Token == SubSeq(str, q, p - 1)
AtNul == p = Len(str) + 1
AtDelim == ~AtNul /\ str[p] = Delim

Char ==
  /\ pc = "scan" /\ ~AtNul /\ ~AtDelim
  /\ p' = p + 1
  /\ UNCHANGED <<pc, call, str, q, i, slot, envp, envc, heap>>

\* (*argv)[i], which is written whether kmalloc() has a block or not, is in the table.
InTable == i < Room(count_arg(str))

\* (*argv)[i] = kmalloc() and the copy of the token; a failure stores NULL.
Store ==
  /\ InTable
  /\ slot' = [k \in DOMAIN slot \cup {i} |-> IF k = i THEN Token ELSE slot[k]]
  /\ Kmalloc(Slot(call, i))

\* Mutant: the token pointer stays at the start of the string.
AtTokenKeepsQ ==
  /\ pc = "scan" /\ AtDelim
  /\ Store
  /\ i' = i + 1
  /\ p' = p + 1
  /\ UNCHANGED <<pc, call, str, q, envp, envc>>

AtToken ==
  /\ pc = "scan" /\ AtDelim
  /\ Store
  /\ i' = i + 1
  /\ p' = p + 1 /\ q' = p + 1
  /\ UNCHANGED <<pc, call, str, envp, envc>>

\* Mutant: the NUL iteration counts its string too and scans on.
AtEndCounts ==
  /\ pc = "scan" /\ AtNul
  /\ Store
  /\ i' = i + 1
  /\ Goto("return")
  /\ UNCHANGED <<call, str, p, q, envp, envc>>

\* The NUL iteration stores what follows the last delimiter in slot argc, if the
\* block of the table has room for one slot more, and ends the loop.
AtEnd ==
  /\ pc = "scan" /\ AtNul
  /\ Store
  /\ Goto("return")
  /\ UNCHANGED <<call, scan, envp, envc>>

\* The slot is behind the block of the table: what is overwritten there is not the
\* module's to know.
Overrun ==
  /\ pc = "scan" /\ (AtDelim \/ AtNul) /\ ~InTable
  /\ Goto("overrun")
  /\ UNCHANGED <<call, scan, slot, envp, envc, heap>>

Return ==
  /\ pc = "return"
  /\ Kfree({Copy(call)})
  /\ envc' = count_arg(str)
  /\ Goto("idle")
  /\ UNCHANGED <<call, scan, slot, envp>>

\* Mutant: the label does not set *argv to NULL after it freed the table.
UndoKeepsTable ==
  /\ pc = "scan" /\ (AtDelim \/ AtNul) /\ InTable
  /\ Kfree({Copy(call), Table(call)} \cup {Slot(call, k) : k \in DOMAIN slot})
  /\ slot' = <<>>
  /\ envc' = -5
  /\ Goto("idle")
  /\ UNCHANGED <<call, scan, envp>>

\* Mutant: the label frees the strings before slot i - 1 only.
UndoForgetsLast ==
  /\ pc = "scan" /\ (AtDelim \/ AtNul) /\ InTable
  /\ Kfree({Copy(call), Table(call)} \cup {Slot(call, k) : k \in 0 .. (i - 2)})
  /\ slot' = <<>>
  /\ envp' = 0
  /\ envc' = -5
  /\ Goto("idle")
  /\ UNCHANGED <<call, scan>>

\* ARGV_I_MEM_ERRO: the allocation of slot i failed; the copy, the strings of
\* slots 0 to i (NULL in slot i) and the table go, and -5 is returned.
Undo ==
  /\ pc = "scan" /\ (AtDelim \/ AtNul) /\ InTable
  /\ Kfree({Copy(call), Table(call)} \cup {Slot(call, k) : k \in 0 .. (i - 1)})
  /\ slot' = <<>>
  /\ envp' = 0
  /\ envc' = -5
  /\ Goto("idle")
  /\ UNCHANGED <<call, scan>>

\* The slots free_argv() visits: its loop and its body both step i.
Visited(cnt) == {k \in 0 .. (cnt - 1) : k % 2 = 0}

\* lm_kernel__exit(): free_argv(&envp, envc), -1 for a NULL table.
Unload ==
  /\ pc = "idle"
  /\ Goto("unloaded")
  /\ IF envp = 0
     THEN UNCHANGED <<slot, envp, heap>>
     ELSE /\ Kfree({Table(envp)} \cup {Slot(envp, k) : k \in Visited(envc)})
          /\ slot' = [k \in DOMAIN slot \ Visited(envc) |-> slot[k]]
          /\ envp' = 0
  /\ UNCHANGED <<call, scan, envc>>

Next ==
  \/ \E s \in Strings : Call(s)
  \/ AllocTable \/ Char \/ AtToken \/ AtEnd \/ Overrun \/ Return \/ Undo
  \/ Unload

Spec == Init /\ [][Next]_vars

-------------------------------------------------------------------------------
(* Properties.                                                             *)

Succeeded == pc = "idle" /\ envc > 0

\* The types, and the memory of the table: no string was stored in a slot that is not
\* in the table's block.
TypeOK ==
  /\ pc \in {"idle", "table", "scan", "return", "overrun", "unloaded"}
  /\ call \in 0 .. MaxCalls
  /\ str \in Strings \cup {<<>>}
  /\ q \in 1 .. p /\ p \in 1 .. (Len(str) + 1)
  /\ i \in 0 .. count_arg(str)
  /\ DOMAIN slot \subseteq Nat
  /\ pc \in {"scan", "return", "overrun"} \/ Succeeded =>
       DOMAIN slot \subseteq 0 .. (Room(count_arg(str)) - 1)
  /\ envp \in 0 .. call
  /\ envc \in Int
  /\ live \subseteq (1 .. call) \X {"str_p", "argv", "argv[i]"} \X Nat
  /\ faulty \in BOOLEAN

\* Where a string is to be cut: in front of it, at every delimiter, at its NUL.
Cuts(s) == {0, Len(s) + 1} \cup {k \in DOMAIN s : s[k] = Delim}
NextCut(s, a, b) == a < b /\ \A c \in Cuts(s) : c =< a \/ b =< c

\* The delimiters among the first n characters of s, which give the slot of the string
\* that ends at cut b.
Delims(s, n) == {k \in DOMAIN s : k =< n /\ s[k] = Delim}
SlotOf(s, b) == Cardinality(Delims(s, b - 1))

\* What lies between two cuts of s, the second of them among the first n, is in its slot.
StoredTo(s, sl, n) ==
  \A a, b \in Cuts(s) :
    NextCut(s, a, b) /\ b =< n => sl[SlotOf(s, b)] = SubSeq(s, a + 1, b - 1)

\* What is stored is the string, cut at every delimiter and nowhere else: while it is
\* scanned, and up to an overrun, the part that was passed, whatever its number of
\* delimiters; after a call that succeeded the whole of it, and the number of delimiters
\* was returned.
TokensMatch ==
  /\ pc \in {"scan", "overrun"} => DOMAIN slot = 0 .. (i - 1) /\ StoredTo(str, slot, p - 1)
  /\ Succeeded =>
       /\ envc = count_arg(str) /\ DOMAIN slot = 0 .. envc
       /\ StoredTo(str, slot, Len(str) + 1)

\* As long as no slot was written behind the table, between calls envp never dangles, and
\* recv_cb()'s loop over envp[0] to envp[envc - 1] reads strings that are allocated.
TableAlive ==
  pc = "idle" =>
    /\ envp # 0 => Table(envp) \in live
    /\ envc > 0 => envp = call /\ {Slot(call, k) : k \in 0 .. envc} \subseteq live

\* A call that fails, at whichever of its allocations, keeps none of the blocks
\* it was given.
FailureLeavesNothing ==
  pc = "idle" /\ envc < 0 => \A b \in live : b[1] # call

\* Nothing is freed twice, whatever mixture of failed and successful calls the
\* unload follows.
FreedOnce == ~faulty

===============================================================================
