--------------------------- MODULE ArgvStringProofs ---------------------------
(***************************************************************************)
(* What ArgvString promises, for any strings and any number of calls: the  *)
(* table that envp points to is allocated, a call that fails keeps         *)
(* nothing, nothing is freed twice, and what is stored, up to an overrun   *)
(* of the table, is the string cut at its delimiters.                      *)
(***************************************************************************)
EXTENDS ArgvString, FiniteSetTheorems, TLAPS

-------------------------------------------------------------------------------
(* The inductive invariant.                                                *)

\* The blocks of the first n calls.
Blocks(n) == (1 .. n) \X {"str_p", "argv", "argv[i]"} \X Nat

\* TypeOK, with the types of the blocks apart.
Types ==
  /\ pc \in {"idle", "table", "scan", "return", "overrun", "unloaded"}
  /\ call \in 0 .. MaxCalls
  /\ str \in Strings \cup {<<>>}
  /\ q \in 1 .. p /\ p \in 1 .. (Len(str) + 1)
  /\ i \in 0 .. count_arg(str)
  /\ DOMAIN slot \subseteq Nat
  /\ envp \in 0 .. call
  /\ envc \in Int
  /\ faulty \in BOOLEAN
BlockTypes == live \subseteq Blocks(call)

\* The index counts the delimiters that the scan has passed.
Counted == i = Cardinality(Delims(str, p - 1))

\* The blocks of one call, and those it has been given by the time it is at pc.
BlocksOf(n) == {b \in live : b[1] = n}
Slots(n, k) == {Slot(n, j) : j \in 0 .. k}
Given ==
  /\ pc = "table" => BlocksOf(call) = {Copy(call)} /\ i = 0
  /\ pc = "scan" =>
       /\ BlocksOf(call) = {Copy(call), Table(call)} \cup Slots(call, i - 1)
       /\ DOMAIN slot = 0 .. i - 1
  /\ pc = "overrun" => DOMAIN slot = 0 .. i - 1
  /\ pc = "return" =>
       /\ BlocksOf(call) = {Copy(call), Table(call)} \cup Slots(call, i)
       /\ i = count_arg(str)

\* envp points to the table of this call or to an earlier one, which is never freed.
Pointed ==
  /\ pc \in {"scan", "return"} => envp = call
  /\ pc # "unloaded" /\ envp # 0 => Table(envp) \in live
  /\ pc # "idle" /\ pc # "unloaded" => call > 0
  /\ pc = "table" => envp < call

IInv ==
  /\ Types /\ BlockTypes /\ Counted /\ Given /\ Pointed
  /\ TableAlive /\ FailureLeavesNothing /\ FreedOnce

-------------------------------------------------------------------------------
\* A string that recv_cb() is handed, or the empty one before the first call.
LEMMA StringType ==
  ASSUME NEW s \in Strings \cup {<<>>}
  PROVE  /\ Len(s) \in Nat /\ DOMAIN s = 1 .. Len(s)
BY StringsAssumption

\* The delimiters of a string are finitely many, and those of a part are no more.
LEMMA DelimsFinite ==
  ASSUME NEW s \in Strings \cup {<<>>}, NEW n \in Int
  PROVE  /\ IsFiniteSet(Delims(s, n)) /\ Cardinality(Delims(s, n)) \in Nat
         /\ count_arg(s) \in Nat
         /\ Cardinality(Delims(s, n)) =< count_arg(s)
         /\ n >= Len(s) => Cardinality(Delims(s, n)) = count_arg(s)
<1> DEFINE all == {k \in DOMAIN s : s[k] = Delim}
<1>1. Len(s) \in Nat /\ DOMAIN s = 1 .. Len(s)
  BY StringType
<1>2. IsFiniteSet(1 .. Len(s))
  BY <1>1, FS_Interval
<1>3. IsFiniteSet(all)
  BY <1>1, <1>2, FS_Subset
<1>4. IsFiniteSet(Delims(s, n)) /\ Cardinality(Delims(s, n)) =< Cardinality(all)
  BY <1>3, FS_Subset DEF Delims
<1>5. n >= Len(s) => Delims(s, n) = all
  BY <1>1 DEF Delims
<1> QED
  BY <1>3, <1>4, <1>5, FS_CardinalityType DEF count_arg

\* The scan passes one character: a delimiter is counted, another is not.
LEMMA DelimsStep ==
  ASSUME NEW s \in Strings \cup {<<>>}, NEW n \in 1 .. Len(s)
  PROVE  Cardinality(Delims(s, n)) =
           Cardinality(Delims(s, n - 1)) + (IF s[n] = Delim THEN 1 ELSE 0)
<1>1. Len(s) \in Nat /\ DOMAIN s = 1 .. Len(s) /\ n \in Int /\ n - 1 \in Int
  BY StringType
<1>2. CASE s[n] = Delim
  <2>1. Delims(s, n) = Delims(s, n - 1) \cup {n}
    BY <1>1, <1>2 DEF Delims
  <2>2. n \notin Delims(s, n - 1)
    BY <1>1 DEF Delims
  <2>3. IsFiniteSet(Delims(s, n - 1))
    BY <1>1, DelimsFinite
  <2> QED
    BY <1>2, <2>1, <2>2, <2>3, FS_AddElement
<1>3. CASE s[n] # Delim
  <2>1. Delims(s, n) = Delims(s, n - 1)
    BY <1>1, <1>3 DEF Delims
  <2>2. Cardinality(Delims(s, n - 1)) \in Nat
    BY <1>1, DelimsFinite
  <2> QED
    BY <1>3, <2>1, <2>2
<1> QED
  BY <1>2, <1>3

\* The blocks of a call have their type, and those of earlier calls too.
LEMMA BlockType ==
  ASSUME NEW n \in Nat \ {0}, NEW k \in Nat
  PROVE  /\ Copy(n) \in Blocks(n) /\ Copy(n)[1] = n
         /\ Table(n) \in Blocks(n) /\ Table(n)[1] = n
         /\ Slot(n, k) \in Blocks(n) /\ Slot(n, k)[1] = n
BY DEF Copy, Table, Slot, Blocks

\* A block is of a call that was made.
LEMMA BlockCall ==
  ASSUME NEW n \in Nat, NEW b \in Blocks(n)
  PROVE  b[1] \in 1 .. n /\ b \in Blocks(n + 1)
BY DEF Blocks

\* Before the first call.
LEMMA InitIInv == Init => IInv
<1> SUFFICES ASSUME Init PROVE IInv
  OBVIOUS
<1>1. Len(<<>>) = 0 /\ DOMAIN <<>> = {}
  OBVIOUS
<1>2. Delims(<<>>, 0) = {} /\ count_arg(<<>>) = 0
  BY <1>1, FS_EmptySet DEF Delims, count_arg
<1>3. Types /\ BlockTypes
  <2>1. 1 \in 1 .. Len(<<>>) + 1 /\ 0 \in 0 .. count_arg(<<>>) /\ 0 \in 0 .. MaxCalls
    BY <1>1, <1>2, MaxCallsAssumption
  <2>2. DOMAIN slot \subseteq Nat
    BY <1>1 DEF Init
  <2>3. faulty \in BOOLEAN
    BY DEF Init
  <2>4. live \subseteq Blocks(call) /\ envp \in 0 .. call /\ envc \in Int /\ q \in 1 .. p
    BY DEF Init
  <2> QED
    BY <2>1, <2>2, <2>3, <2>4 DEF Init, Types, BlockTypes
<1>4. Counted
  BY <1>2, FS_EmptySet DEF Init, Counted
<1>5. Given /\ Pointed /\ TableAlive /\ FailureLeavesNothing /\ FreedOnce
  BY DEF Init, Given, Pointed, TableAlive, FailureLeavesNothing, FreedOnce
<1> QED
  BY <1>3, <1>4, <1>5 DEF IInv

\* str_to_argv() is called, and gets the memory for its copy or not.
LEMMA CallIInv == ASSUME IInv, NEW s \in Strings, Call(s) PROVE IInv'
<1>1. /\ call' = call + 1 /\ call \in Nat /\ call' =< MaxCalls
      /\ str' = s /\ p' = 1 /\ q' = 1 /\ i' = 0 /\ UNCHANGED <<slot, envp>>
      /\ \A b \in live : b[1] \in 1 .. call /\ b \in Blocks(call + 1)
      /\ envp \in 0 .. call
      /\ \/ pc' = "table" /\ live' = live \cup {Copy(call')} /\ UNCHANGED <<faulty, envc>>
         \/ pc' = "idle" /\ envc' = -2 /\ UNCHANGED <<live, faulty>>
  BY MaxCallsAssumption, BlockCall DEF Call, IInv, Types, BlockTypes, Goto, Kmalloc, heap
<1>2. Len(s) \in Nat /\ count_arg(s) \in Nat
  BY StringType, DelimsFinite
<1>3. Types' /\ BlockTypes'
  <2>1. Types'
    BY <1>1, <1>2, MaxCallsAssumption DEF IInv, Types
  <2>2. Copy(call') \in Blocks(call')
    BY <1>1, BlockType, 0 \in Nat
  <2>3. BlockTypes'
    BY <1>1, <2>2 DEF BlockTypes
  <2> QED
    BY <2>1, <2>3
<1>4. Counted'
  <2>1. Delims(s, 0) = {}
    BY StringType DEF Delims
  <2> QED
    BY <1>1, <2>1, FS_EmptySet DEF Counted
<1>5. BlocksOf(call') = {}
  BY <1>1 DEF BlocksOf
<1>6. Given'
  BY <1>1, <1>5 DEF Given, BlocksOf, Copy
<1>7. Pointed'
  BY <1>1 DEF IInv, Pointed, Call
<1>8. TableAlive' /\ FailureLeavesNothing' /\ FreedOnce'
  BY <1>1, <1>5 DEF IInv, TableAlive, FailureLeavesNothing, FreedOnce, BlocksOf, Pointed, Call
<1> QED
  BY <1>3, <1>4, <1>6, <1>7, <1>8 DEF IInv

\* The table is allocated, or the call fails and gives the copy back.
LEMMA AllocTableIInv == ASSUME IInv, AllocTable PROVE IInv'
<1>1. /\ pc = "table" /\ call \in Nat \ {0} /\ UNCHANGED <<call, str, p, q, i>> /\ i \in Nat
      /\ BlocksOf(call) = {Copy(call)} /\ Copy(call) \in live
      /\ \/ /\ pc' = "scan" /\ envp' = call /\ live' = live \cup {Table(call)}
            /\ UNCHANGED <<faulty, envc>>
         \/ /\ pc' = "idle" /\ envp' = 0 /\ live' = live \ {Copy(call)} /\ faulty' = FALSE
            /\ envc' = -4
  BY DEF AllocTable, IInv, Types, Goto, Kmalloc, Kfree, Given, Pointed, FreedOnce, scan,
         BlocksOf
<1>2. slot' = <<>> /\ DOMAIN slot' = {}
  BY DEF AllocTable
<1>3. Types' /\ BlockTypes'
  <2>1. BlockTypes'
    <3>1. Table(call) \in Blocks(call)
      BY <1>1, BlockType, 0 \in Nat
    <3> QED
      BY <1>1, <3>1 DEF IInv, BlockTypes
  <2>2. envp' \in 0 .. call /\ envc' \in Int
    BY <1>1 DEF IInv, Types
  <2> QED
    BY <1>1, <1>2, <2>1, <2>2 DEF IInv, Types
<1>4. Counted'
  BY <1>1 DEF IInv, Counted
<1>5. CASE pc' = "scan"
  <2>1. i = 0 /\ Slots(call, i - 1) = {} /\ 0 .. i - 1 = {}
    BY <1>1 DEF IInv, Given, Slots
  <2>2. BlocksOf(call)' = {Copy(call), Table(call)}
    <3>1. Table(call)[1] = call
      BY <1>1, BlockType, 0 \in Nat
    <3> QED
      BY <1>1, <1>5, <3>1 DEF BlocksOf
  <2>3. Given'
    BY <1>1, <1>2, <1>5, <2>1, <2>2 DEF Given, Slots
  <2>4. Pointed' /\ TableAlive' /\ FailureLeavesNothing' /\ FreedOnce'
    BY <1>1, <1>5 DEF IInv, Pointed, TableAlive, FailureLeavesNothing, FreedOnce
  <2> QED
    BY <1>3, <1>4, <2>3, <2>4 DEF IInv
<1>6. CASE pc' = "idle"
  <2>1. BlocksOf(call)' = {}
    BY <1>1, <1>6 DEF BlocksOf
  <2>2. Given' /\ Pointed'
    BY <1>1, <1>6 DEF Given, Pointed
  <2>3. TableAlive' /\ FailureLeavesNothing' /\ FreedOnce'
    BY <1>1, <1>6, <2>1 DEF TableAlive, FailureLeavesNothing, FreedOnce, BlocksOf
  <2> QED
    BY <1>3, <1>4, <2>2, <2>3 DEF IInv
<1> QED
  BY <1>1, <1>5, <1>6

-------------------------------------------------------------------------------
(* The scan.                                                               *)

\* What holds of the scan wherever it is.
LEMMA Scanning ==
  ASSUME IInv, pc = "scan"
  PROVE  /\ call \in Nat \ {0} /\ envp = call /\ i \in Nat /\ p \in Nat \ {0}
         /\ str \in Strings \cup {<<>>} /\ Len(str) \in Nat
         /\ BlocksOf(call) = {Copy(call), Table(call)} \cup Slots(call, i - 1)
         /\ DOMAIN slot = 0 .. i - 1
         /\ Table(call) \in live
BY StringType, MaxCallsAssumption DEF IInv, Types, Given, Pointed

\* A character that is no delimiter.
LEMMA CharIInv == ASSUME IInv, Char PROVE IInv'
<1>1. /\ pc = "scan" /\ p \in 1 .. Len(str) /\ str[p] # Delim /\ p' = p + 1
      /\ str \in Strings \cup {<<>>}
      /\ UNCHANGED <<pc, call, str, q, i, slot, envp, envc, live, faulty>>
  BY StringType DEF Char, AtNul, AtDelim, heap, IInv, Types
<1>2. Types' /\ BlockTypes'
  BY <1>1, StringType DEF IInv, Types, BlockTypes
<1>3. Counted'
  <2>1. Cardinality(Delims(str, p)) = Cardinality(Delims(str, p - 1))
    <3>1. Len(str) \in Nat /\ p - 1 \in Int
      BY <1>1, Scanning
    <3>2. Cardinality(Delims(str, p - 1)) \in Nat
      BY <1>1, <3>1, DelimsFinite
    <3> QED
      BY <1>1, <3>2, DelimsStep
  <2>2. p' - 1 = p
    BY <1>1
  <2> QED
    BY <1>1, <2>1, <2>2 DEF IInv, Counted
<1>4. Given' /\ Pointed'
  BY <1>1 DEF IInv, Given, Pointed, BlocksOf
<1>5. TableAlive' /\ FailureLeavesNothing' /\ FreedOnce'
  BY <1>1 DEF IInv, TableAlive, FailureLeavesNothing, FreedOnce
<1> QED
  BY <1>2, <1>3, <1>4, <1>5 DEF IInv

\* What a string that is stored adds to the blocks and to the table.
LEMMA StoreBlocks ==
  ASSUME IInv, pc = "scan", Store, UNCHANGED call
  PROVE  /\ live' = live \cup {Slot(call, i)} /\ UNCHANGED faulty
         /\ BlocksOf(call)' = {Copy(call), Table(call)} \cup Slots(call, i)
         /\ DOMAIN slot' = 0 .. i
         /\ BlockTypes'
<1>1. live' = live \cup {Slot(call, i)} /\ UNCHANGED faulty
  BY DEF Store, Kmalloc
<1>2. Slots(call, i) = Slots(call, i - 1) \cup {Slot(call, i)}
  <2>1. 0 .. i = (0 .. i - 1) \cup {i}
    BY Scanning
  <2> QED
    BY <2>1 DEF Slots
<1>3. BlocksOf(call)' = BlocksOf(call) \cup {Slot(call, i)}
  <2>1. Slot(call, i)[1] = call
    BY Scanning, BlockType
  <2> QED
    BY <1>1, <2>1 DEF BlocksOf
<1>4. DOMAIN slot' = DOMAIN slot \cup {i}
  BY DEF Store
<1>5. BlockTypes'
  <2>1. Slot(call, i) \in Blocks(call)
    BY Scanning, BlockType
  <2> QED
    BY <1>1, <2>1 DEF IInv, BlockTypes
<1> QED
  BY <1>1, <1>2, <1>3, <1>4, <1>5, Scanning

\* A delimiter: the string before it goes to slot i.
LEMMA AtTokenIInv == ASSUME IInv, AtToken PROVE IInv'
<1>1. /\ pc = "scan" /\ p \in 1 .. Len(str) /\ str[p] = Delim
      /\ p' = p + 1 /\ q' = p + 1 /\ i' = i + 1 /\ Store
      /\ UNCHANGED <<pc, call, str, envp, envc>>
  BY StringType DEF AtToken, AtNul, AtDelim, IInv, Types
<1>2. Counted'
  <2>1. Cardinality(Delims(str, p)) = Cardinality(Delims(str, p - 1)) + 1
    BY <1>1, DelimsStep, Scanning
  <2>2. p' - 1 = p
    BY <1>1
  <2> QED
    BY <1>1, <2>1, <2>2 DEF IInv, Counted
<1>3. Types' /\ BlockTypes'
  <2>1. i' \in 0 .. count_arg(str)
    <3>1. p' - 1 \in Int
      BY <1>1
    <3> QED
      BY <1>1, <1>2, <3>1, DelimsFinite, Scanning DEF Counted
  <2>2. q' \in 1 .. p' /\ p' \in 1 .. Len(str) + 1 /\ DOMAIN slot' \subseteq Nat
    BY <1>1, StoreBlocks, Scanning
  <2> QED
    BY <1>1, <2>1, <2>2, StoreBlocks DEF IInv, Types
<1>4. Given'
  <2>1. i' - 1 = i
    BY <1>1, Scanning
  <2> QED
    BY <1>1, <2>1, StoreBlocks DEF Given, Slots
<1>5. Pointed' /\ TableAlive' /\ FailureLeavesNothing' /\ FreedOnce'
  BY <1>1, StoreBlocks
  DEF IInv, Pointed, TableAlive, FailureLeavesNothing, FreedOnce
<1> QED
  BY <1>2, <1>3, <1>4, <1>5 DEF IInv

\* The NUL: every delimiter was counted, and one string more is stored.
LEMMA AtEndIInv == ASSUME IInv, AtEnd PROVE IInv'
<1>1. /\ pc = "scan" /\ p = Len(str) + 1 /\ pc' = "return" /\ Store
      /\ UNCHANGED <<call, str, p, q, i, envp, envc>>
  BY DEF AtEnd, AtNul, Goto, scan
<1>2. i = count_arg(str)
  <2>1. p - 1 \in Int /\ p - 1 >= Len(str)
    BY <1>1, Scanning
  <2> QED
    BY <1>1, <2>1, DelimsFinite, Scanning DEF IInv, Counted
<1>3. Types' /\ BlockTypes'
  <2>1. DOMAIN slot' \subseteq Nat
    BY <1>1, StoreBlocks
  <2> QED
    BY <1>1, <2>1, StoreBlocks DEF IInv, Types
<1>4. Counted'
  BY <1>1 DEF IInv, Counted
<1>5. Given'
  BY <1>1, <1>2, StoreBlocks DEF Given, Slots
<1>6. Pointed' /\ TableAlive' /\ FailureLeavesNothing' /\ FreedOnce'
  BY <1>1, StoreBlocks, Scanning
  DEF IInv, Pointed, TableAlive, FailureLeavesNothing, FreedOnce
<1> QED
  BY <1>3, <1>4, <1>5, <1>6 DEF IInv

\* The NUL where the table has no room for one slot more: nothing is left but what was
\* stored so far.
LEMMA OverrunIInv == ASSUME IInv, Overrun PROVE IInv'
<1>1. /\ pc = "scan" /\ pc' = "overrun"
      /\ UNCHANGED <<call, str, p, q, i, slot, envp, envc, live, faulty>>
  BY DEF Overrun, Goto, scan, heap
<1>2. Types' /\ BlockTypes' /\ Counted'
  BY <1>1 DEF IInv, Types, BlockTypes, Counted
<1>3. Given' /\ Pointed'
  BY <1>1 DEF IInv, Given, Pointed
<1>4. TableAlive' /\ FailureLeavesNothing' /\ FreedOnce'
  BY <1>1 DEF IInv, TableAlive, FailureLeavesNothing, FreedOnce
<1> QED
  BY <1>2, <1>3, <1>4 DEF IInv

\* An allocation fails: what the call was given is freed, and all of it was there.
LEMMA UndoIInv == ASSUME IInv, Undo PROVE IInv'
<1>1. /\ pc = "scan" /\ pc' = "idle" /\ envp' = 0 /\ envc' = -5 /\ slot' = <<>>
      /\ live' = live \ BlocksOf(call) /\ faulty' = FALSE
      /\ UNCHANGED <<call, str, p, q, i>>
  <2>1. {Slot(call, k) : k \in 0 .. (i - 1)} = Slots(call, i - 1)
    BY DEF Slots
  <2>2. BlocksOf(call) \subseteq live
    BY DEF BlocksOf
  <2> QED
    BY <2>1, <2>2, Scanning DEF Undo, Kfree, Goto, scan, IInv, FreedOnce
<1>2. Types' /\ BlockTypes'
  <2>1. DOMAIN slot' = {}
    BY <1>1
  <2>2. faulty' \in BOOLEAN
    BY <1>1
  <2>3. BlockTypes'
    BY <1>1 DEF IInv, BlockTypes
  <2>4. envp' \in 0 .. call /\ envc' \in Int
    BY <1>1 DEF IInv, Types
  <2> QED
    BY <1>1, <2>1, <2>2, <2>3, <2>4 DEF IInv, Types
<1>3. Counted' /\ Given' /\ Pointed'
  BY <1>1 DEF IInv, Counted, Given, Pointed
<1>4. TableAlive' /\ FailureLeavesNothing' /\ FreedOnce'
  BY <1>1 DEF TableAlive, FailureLeavesNothing, FreedOnce, BlocksOf
<1> QED
  BY <1>2, <1>3, <1>4 DEF IInv

-------------------------------------------------------------------------------
\* The call succeeds and frees its copy; the table and its strings stay.
LEMMA ReturnIInv == ASSUME IInv, Return PROVE IInv'
<1>1. /\ pc = "return" /\ pc' = "idle" /\ envc' = count_arg(str) /\ i = count_arg(str)
      /\ envp = call /\ call \in Nat \ {0} /\ count_arg(str) \in Nat
      /\ BlocksOf(call) = {Copy(call), Table(call)} \cup Slots(call, i)
      /\ live' = live \ {Copy(call)} /\ faulty' = FALSE
      /\ UNCHANGED <<call, str, p, q, i, slot, envp>>
  <2>1. count_arg(str) \in Nat
    BY DelimsFinite DEF IInv, Types
  <2>2. BlocksOf(call) \subseteq live
    BY DEF BlocksOf
  <2> QED
    BY <2>1, <2>2, MaxCallsAssumption
    DEF Return, Kfree, Goto, scan, IInv, Types, Given, Pointed, FreedOnce
<1>2. {Table(call)} \cup Slots(call, i) \subseteq live'
  <2>1. Table(call) # Copy(call) /\ Copy(call) \notin Slots(call, i)
    BY DEF Table, Copy, Slots, Slot
  <2> QED
    BY <1>1, <2>1 DEF BlocksOf
<1>3. Types' /\ BlockTypes'
  <2>1. faulty' \in BOOLEAN
    BY <1>1
  <2>2. BlockTypes'
    BY <1>1 DEF IInv, BlockTypes
  <2>3. envp' \in 0 .. call /\ envc' \in Int
    BY <1>1 DEF IInv, Types
  <2> QED
    BY <1>1, <2>1, <2>2, <2>3 DEF IInv, Types
<1>4. Counted' /\ Given' /\ Pointed'
  BY <1>1, <1>2 DEF IInv, Counted, Given, Pointed
<1>5. TableAlive' /\ FailureLeavesNothing' /\ FreedOnce'
  BY <1>1, <1>2 DEF TableAlive, FailureLeavesNothing, FreedOnce, Slots
<1> QED
  BY <1>3, <1>4, <1>5 DEF IInv

\* The module is unloaded: half of the strings of the last table are freed, and all of
\* them are there if the last call succeeded; after a failure none is freed.
LEMMA UnloadIInv == ASSUME IInv, Unload PROVE IInv'
<1>1. pc = "idle" /\ pc' = "unloaded" /\ UNCHANGED <<call, str, p, q, i, envc>>
  BY DEF Unload, Goto, scan
<1>2. /\ live' \subseteq live /\ faulty' = FALSE
      /\ envp' \in 0 .. call /\ DOMAIN slot' \subseteq DOMAIN slot
  <2>1. CASE envp = 0
    BY <2>1 DEF Unload, heap, IInv, Types, FreedOnce
  <2>2. CASE envp # 0
    <3>1. Visited(envc) \subseteq 0 .. envc /\ (Visited(envc) # {} => envc > 0)
      BY DEF Visited, IInv, Types
    <3>2. {Slot(envp, k) : k \in Visited(envc)} \subseteq live
      BY <1>1, <3>1 DEF IInv, TableAlive
    <3>3. Table(envp) \in live
      BY <1>1, <2>2 DEF IInv, TableAlive
    <3>4. 0 \in 0 .. call
      BY DEF IInv, Types
    <3> QED
      BY <2>2, <3>2, <3>3, <3>4 DEF Unload, Kfree, IInv, FreedOnce
  <2> QED
    BY <2>1, <2>2
<1>3. Types' /\ BlockTypes'
  BY <1>1, <1>2 DEF IInv, Types, BlockTypes
<1>4. Counted' /\ Given' /\ Pointed'
  BY <1>1 DEF IInv, Counted, Given, Pointed
<1>5. TableAlive' /\ FailureLeavesNothing' /\ FreedOnce'
  BY <1>1, <1>2 DEF TableAlive, FailureLeavesNothing, FreedOnce
<1> QED
  BY <1>3, <1>4, <1>5 DEF IInv

\* Every step keeps the invariant.
LEMMA NextIInv == IInv /\ [Next]_vars => IInv'
<1> SUFFICES ASSUME IInv, [Next]_vars PROVE IInv'
  OBVIOUS
<1>1. CASE UNCHANGED vars
  <2>1. UNCHANGED <<pc, call, str, p, q, i, slot, envp, envc, live, faulty>>
    BY <1>1 DEF vars, scan, heap
  <2> QED
    BY <2>1 DEF IInv, Types, BlockTypes, Counted, Given, BlocksOf, Pointed, TableAlive,
                FailureLeavesNothing, FreedOnce
<1>2. CASE Next
  BY <1>2, CallIInv, AllocTableIInv, CharIInv, AtTokenIInv, AtEndIInv, ReturnIInv,
     UndoIInv, UnloadIInv, OverrunIInv
  DEF Next
<1> QED
  BY <1>1, <1>2

-------------------------------------------------------------------------------
\* The blocks of the running call are those it was given so far, and envp is NULL or
\* points to a table that is allocated.
THEOREM Invariant == Spec => []IInv
BY InitIInv, NextIInv, PTL DEF Spec

\* What is stored is in memory of the table.
Inside ==
  pc \in {"scan", "return", "overrun"} \/ Succeeded =>
    DOMAIN slot \subseteq 0 .. (Room(count_arg(str)) - 1)

\* The room of a table is that of its slots at least.
LEMMA RoomIs ==
  ASSUME NEW n \in Nat, NEW m \in 0 .. n
  PROVE  Room(n) \in Nat /\ \A k \in 0 .. (m - 1) : k \in 0 .. (Room(n) - 1)
<1>1. CASE Room(n) = n
  BY <1>1
<1>2. CASE Room(n) = n + 1
  BY <1>2
<1> QED
  BY <1>1, <1>2 DEF Room

\* While the string is scanned the slots are those of the delimiters passed; the one of the
\* NUL is stored where there is room for it.
LEMMA NextInside == ASSUME IInv, IInv', Inside, [Next]_vars PROVE Inside'
<1>1. CASE pc' \in {"scan", "overrun"}
  <2>1. DOMAIN slot' = 0 .. i' - 1 /\ i' \in 0 .. count_arg(str')
    BY <1>1 DEF IInv, Given, Types
  <2>2. count_arg(str') \in Nat
    BY DelimsFinite DEF IInv, Types
  <2>3. \A k \in 0 .. (i' - 1) : k \in 0 .. (Room(count_arg(str')) - 1)
    BY <2>1, <2>2, RoomIs
  <2> QED
    BY <2>1, <2>3 DEF Inside
<1>2. CASE AtEnd
  <2>1. DOMAIN slot' = 0 .. i /\ i \in Nat /\ i < Room(count_arg(str)) /\ UNCHANGED str
    BY <1>2, StoreBlocks, Scanning DEF AtEnd, Store, InTable, scan
  <2>2. Room(count_arg(str)) \in Nat
    <3>1. count_arg(str) \in Nat
      BY DelimsFinite DEF IInv, Types
    <3> QED
      BY <3>1, RoomIs DEF IInv, Types
  <2>3. 0 .. i \subseteq 0 .. (Room(count_arg(str)) - 1)
    BY <2>1, <2>2
  <2> QED
    BY <2>1, <2>3 DEF Inside
<1>3. CASE Return
  BY <1>3 DEF Return, scan, Inside
<1>4. CASE UNCHANGED vars
  BY <1>4 DEF vars, scan, Inside, Succeeded
<1>5. CASE pc' \in {"idle", "table", "unloaded"} /\ ~Succeeded'
  BY <1>5 DEF Inside
<1>6. CASE \E s \in Strings : Call(s)
  BY <1>5, <1>6 DEF Call, Goto, Succeeded
<1>7. CASE AllocTable
  BY <1>1, <1>5, <1>7 DEF AllocTable, Goto, Succeeded
<1>8. CASE Char \/ AtToken \/ Overrun
  BY <1>1, <1>8 DEF Char, AtToken, Overrun, Goto
<1>9. CASE Undo \/ Unload
  BY <1>5, <1>9 DEF Undo, Unload, Goto, Succeeded
<1> QED
  BY <1>2, <1>3, <1>4, <1>6, <1>7, <1>8, <1>9 DEF Next

\* The types, and that no string is stored in a slot that is not memory of the table, up to
\* the step that would overrun it.
THEOREM TypeOKHolds == Spec => []TypeOK
<1>1. Init => Inside
  BY DEF Init, Inside, Succeeded
<1>2. IInv /\ IInv' /\ Inside /\ [Next]_vars => Inside'
  BY NextInside
<1>3. IInv /\ Inside => TypeOK
  BY DEF IInv, Types, BlockTypes, Blocks, Inside, TypeOK
<1> QED
  BY <1>1, <1>2, <1>3, Invariant, PTL DEF Spec

\* Between calls envp never dangles, and the strings recv_cb() reads are allocated.
THEOREM TableAliveHolds == Spec => []TableAlive
<1>1. IInv => TableAlive
  BY DEF IInv
<1> QED
  BY <1>1, Invariant, PTL

\* A call that fails at any of its allocations keeps none of its blocks.
THEOREM FailureLeavesNothingHolds == Spec => []FailureLeavesNothing
<1>1. IInv => FailureLeavesNothing
  BY DEF IInv
<1> QED
  BY <1>1, Invariant, PTL

\* No block is freed that is not allocated, the unload of the module included.
THEOREM FreedOnceHolds == Spec => []FreedOnce
<1>1. IInv => FreedOnce
  BY DEF IInv
<1> QED
  BY <1>1, Invariant, PTL

-------------------------------------------------------------------------------
(* The tokens: a second invariant.                                         *)

\* All of the string is stored.
Whole == DOMAIN slot = 0 .. count_arg(str) /\ StoredTo(str, slot, Len(str) + 1)

\* The token starts behind a cut, the last one before the scan.
Tokens ==
  /\ pc = "table" => p = 1 /\ q = 1
  /\ pc = "scan" =>
       /\ q - 1 \in Cuts(str)
       /\ \A c \in Cuts(str) : c =< q - 1 \/ p =< c
       /\ StoredTo(str, slot, p - 1)
  /\ pc = "overrun" => StoredTo(str, slot, p - 1)
  /\ pc = "return" => Whole
  /\ Succeeded => envc = count_arg(str) /\ Whole

\* Cuts are positions of the string, or around it.
LEMMA CutType ==
  ASSUME NEW s \in Strings \cup {<<>>}, NEW c \in Cuts(s)
  PROVE  /\ c \in 0 .. Len(s) + 1
         /\ c \notin {0, Len(s) + 1} => c \in 1 .. Len(s) /\ s[c] = Delim
BY StringType DEF Cuts

\* Strings that end at different places are in different slots.
LEMMA SlotsApart ==
  ASSUME IInv, NEW b \in Cuts(str), b # 0, NEW n \in 0 .. Len(str) + 1, b < n
  PROVE  SlotOf(str, b) \in 0 .. Cardinality(Delims(str, n - 1)) - 1
<1>1. str \in Strings \cup {<<>>} /\ Len(str) \in Nat
  BY StringType DEF IInv, Types
<1>2. b \in 1 .. Len(str) /\ str[b] = Delim /\ b - 1 \in Int /\ n - 1 \in Int /\ b =< n - 1
  BY <1>1, CutType
<1>3. Cardinality(Delims(str, b)) = Cardinality(Delims(str, b - 1)) + 1
  BY <1>1, <1>2, DelimsStep
<1>4. Delims(str, b) \subseteq Delims(str, n - 1)
  BY <1>1, <1>2, StringType DEF Delims
<1>5. IsFiniteSet(Delims(str, n - 1)) /\ Cardinality(Delims(str, n - 1)) \in Nat
  BY <1>1, <1>2, DelimsFinite
<1>6. Cardinality(Delims(str, b)) =< Cardinality(Delims(str, n - 1))
  BY <1>4, <1>5, FS_Subset
<1>7. Cardinality(Delims(str, b - 1)) \in Nat
  BY <1>1, <1>2, DelimsFinite
<1> QED
  BY <1>3, <1>5, <1>6, <1>7 DEF SlotOf

\* What is stored when the scan meets a cut is the string between that and the last one.
LEMMA StoreTokens ==
  ASSUME IInv, Tokens, pc = "scan", Store, UNCHANGED str, p \in Cuts(str)
  PROVE  StoredTo(str', slot', p)
<1>1. /\ str \in Strings \cup {<<>>} /\ Len(str) \in Nat
      /\ p \in 1 .. Len(str) + 1 /\ q \in 1 .. p
      /\ i = Cardinality(Delims(str, p - 1)) /\ i \in Nat
      /\ DOMAIN slot = 0 .. i - 1
  BY Scanning DEF IInv, Types, Counted
<1>2. /\ slot'[i] = SubSeq(str, q, p - 1)
      /\ \A k \in 0 .. i - 1 : slot'[k] = slot[k]
  BY <1>1 DEF Store, Token
<1> SUFFICES ASSUME NEW a \in Cuts(str), NEW b \in Cuts(str), NextCut(str, a, b), b =< p
             PROVE  slot'[Cardinality(Delims(str, b - 1))] = SubSeq(str, a + 1, b - 1)
  BY DEF StoredTo, SlotOf
<1>3. a \in 0 .. Len(str) + 1 /\ b \in 0 .. Len(str) + 1 /\ a < b
  BY <1>1, CutType DEF NextCut
<1>4. CASE b = p
  <2>1. a = q - 1
    <3>1. a =< q - 1
      BY <1>1, <1>3, <1>4 DEF Tokens
    <3>2. q - 1 =< a \/ p =< q - 1
      BY <1>4 DEF Tokens, NextCut
    <3> QED
      BY <1>1, <1>3, <3>1, <3>2
  <2>2. a + 1 = q
    BY <1>1, <2>1
  <2> QED
    BY <1>1, <1>2, <1>4, <2>2
<1>5. CASE b < p
  <2>1. b # 0
    BY <1>3
  <2>2. SlotOf(str, b) \in 0 .. i - 1
    BY <1>1, <1>5, <2>1, SlotsApart
  <2>3. b =< p - 1
    BY <1>1, <1>3, <1>5
  <2>4. slot[SlotOf(str, b)] = SubSeq(str, a + 1, b - 1)
    BY <2>3 DEF Tokens, StoredTo
  <2> QED
    BY <1>2, <2>2, <2>4 DEF SlotOf
<1> QED
  BY <1>1, <1>3, <1>4, <1>5

\* The scan starts behind the cut in front of the string.
LEMMA AllocTableTokens == ASSUME IInv, Tokens, AllocTable PROVE Tokens'
<1>1. /\ pc = "table" /\ p = 1 /\ q = 1 /\ UNCHANGED <<str, p, q>>
      /\ \/ pc' = "scan"
         \/ pc' = "idle" /\ envc' = -4
  BY DEF AllocTable, Tokens, Goto, scan
<1>2. str \in Strings \cup {<<>>} /\ Len(str) \in Nat
  BY StringType DEF IInv, Types
<1>3. \A c \in Cuts(str) : c \in 0 .. Len(str) + 1
  BY <1>2, CutType
<1>4. 0 \in Cuts(str) /\ \A c \in Cuts(str) : c =< 0 \/ 1 =< c
  BY <1>2, <1>3 DEF Cuts
<1>5. StoredTo(str', slot', 0)
  BY <1>1, <1>2, <1>3 DEF StoredTo, NextCut
<1> QED
  BY <1>1, <1>4, <1>5 DEF Tokens, Succeeded

\* A character that is not a cut belongs to the token.
LEMMA CharTokens == ASSUME IInv, Tokens, Char PROVE Tokens'
<1>1. /\ pc = "scan" /\ p \in 1 .. Len(str) /\ str[p] # Delim /\ p' = p + 1
      /\ UNCHANGED <<pc, str, q, slot, envc>>
      /\ str \in Strings \cup {<<>>} /\ Len(str) \in Nat
  BY StringType DEF Char, AtNul, AtDelim, heap, IInv, Types
<1>2. p \notin Cuts(str) /\ \A c \in Cuts(str) : c \in 0 .. Len(str) + 1
  BY <1>1, CutType
<1>3. \A c \in Cuts(str) : c =< q - 1 \/ p + 1 =< c
  BY <1>1, <1>2 DEF Tokens
<1>4. StoredTo(str', slot', p)
  <2> SUFFICES ASSUME NEW a \in Cuts(str), NEW b \in Cuts(str), NextCut(str, a, b), b =< p
               PROVE  slot[Cardinality(Delims(str, b - 1))] = SubSeq(str, a + 1, b - 1)
    BY <1>1 DEF StoredTo, SlotOf
  <2>1. b =< p - 1
    BY <1>1, <1>2
  <2> QED
    BY <1>1, <2>1 DEF Tokens, StoredTo, SlotOf
<1>5. p' - 1 = p
  BY <1>1
<1> QED
  BY <1>1, <1>3, <1>4, <1>5 DEF Tokens, Succeeded

\* A delimiter ends a token and the next one starts behind it.
LEMMA AtTokenTokens == ASSUME IInv, Tokens, AtToken PROVE Tokens'
<1>1. /\ pc = "scan" /\ p \in 1 .. Len(str) /\ str[p] = Delim
      /\ p' = p + 1 /\ q' = p + 1 /\ Store /\ UNCHANGED <<pc, str>>
      /\ str \in Strings \cup {<<>>} /\ Len(str) \in Nat
  BY StringType DEF AtToken, AtNul, AtDelim, IInv, Types
<1>2. p \in Cuts(str) /\ \A c \in Cuts(str) : c \in 0 .. Len(str) + 1
  <2>1. DOMAIN str = 1 .. Len(str)
    BY <1>1, StringType
  <2> QED
    BY <1>1, <2>1, CutType DEF Cuts
<1>3. StoredTo(str', slot', p)
  BY <1>1, <1>2, StoreTokens
<1>4. p' - 1 = p /\ q' - 1 = p /\ \A c \in Cuts(str) : c =< p \/ p + 1 =< c
  BY <1>1, <1>2
<1>5. StoredTo(str', slot', p' - 1)
  BY <1>3, <1>4 DEF StoredTo, SlotOf
<1> QED
  BY <1>1, <1>2, <1>4, <1>5 DEF Tokens, Succeeded

\* The NUL is the last cut.
LEMMA AtEndTokens == ASSUME IInv, Tokens, AtEnd PROVE Tokens'
<1>1. /\ pc = "scan" /\ p = Len(str) + 1 /\ pc' = "return" /\ Store
      /\ UNCHANGED <<call, str, p, q, i>>
      /\ str \in Strings \cup {<<>>} /\ Len(str) \in Nat
  BY StringType DEF AtEnd, AtNul, Goto, scan, IInv, Types
<1>2. p \in Cuts(str)
  BY <1>1 DEF Cuts
<1>3. StoredTo(str', slot', p)
  BY <1>1, <1>2, StoreTokens
<1>4. StoredTo(str', slot', Len(str') + 1)
  BY <1>1, <1>3 DEF StoredTo, SlotOf
<1>5. DOMAIN slot' = 0 .. count_arg(str)
  <2>1. i = count_arg(str)
    <3>1. p - 1 \in Int /\ p - 1 >= Len(str)
      BY <1>1
    <3> QED
      BY <1>1, <3>1, DelimsFinite DEF IInv, Counted
  <2> QED
    BY <1>1, <2>1, StoreBlocks
<1> QED
  BY <1>1, <1>4, <1>5 DEF Tokens, Succeeded, Whole

\* Every step.
LEMMA NextTokens == ASSUME IInv, Tokens, [Next]_vars PROVE Tokens'
<1>1. CASE \E s \in Strings : Call(s)
  BY <1>1 DEF Call, Goto, Tokens, Succeeded
<1>2. CASE AllocTable
  BY <1>2, AllocTableTokens
<1>3. CASE Char
  BY <1>3, CharTokens
<1>4. CASE AtToken
  BY <1>4, AtTokenTokens
<1>5. CASE AtEnd
  BY <1>5, AtEndTokens
<1>6. CASE Return
  BY <1>6 DEF Return, Goto, scan, Tokens, Succeeded, Whole, StoredTo, SlotOf
<1>7. CASE Undo \/ Unload
  BY <1>7 DEF Undo, Unload, Goto, Tokens, Succeeded
<1>8. CASE Overrun
  BY <1>8 DEF Overrun, Goto, scan, Tokens, Succeeded, StoredTo, SlotOf
<1>9. CASE UNCHANGED vars
  BY <1>9 DEF vars, scan, Tokens, Succeeded, Whole, StoredTo, SlotOf
<1> QED
  BY <1>1, <1>2, <1>3, <1>4, <1>5, <1>6, <1>7, <1>8, <1>9 DEF Next

\* While a string is scanned, what is stored is what lies between the cuts behind the
\* scan, and the token under way starts at the last of them.
THEOREM TokenInvariant == Spec => []Tokens
<1>1. Init => Tokens
  BY DEF Init, Tokens, Succeeded
<1>2. IInv /\ Tokens /\ [Next]_vars => Tokens'
  BY NextTokens
<1> QED
  BY <1>1, <1>2, Invariant, PTL DEF Spec

\* What is stored is the string, cut at every delimiter and nowhere else: the part of it
\* that was scanned, and all of it after a call that succeeded.
THEOREM TokensMatchHolds == Spec => []TokensMatch
<1>1. IInv /\ Tokens => TokensMatch
  <2> SUFFICES ASSUME IInv, Tokens PROVE TokensMatch
    OBVIOUS
  <2>1. pc \in {"scan", "overrun"} => DOMAIN slot = 0 .. (i - 1) /\ StoredTo(str, slot, p - 1)
    BY DEF IInv, Given, Tokens
  <2>2. Succeeded =>
          /\ envc = count_arg(str) /\ DOMAIN slot = 0 .. envc
          /\ StoredTo(str, slot, Len(str) + 1)
    BY DEF Tokens, Whole
  <2> QED
    BY <2>1, <2>2 DEF TokensMatch
<1> QED
  BY <1>1, Invariant, TokenInvariant, PTL

===============================================================================
