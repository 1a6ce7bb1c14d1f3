----------------------------- MODULE RequestReply ------------------------------
(***************************************************************************)
(* What the netlink exchange of code/par_elf promises: the port has one    *)
(* owner at a time; the owner asks with the numbers 1, 2, 3, ... and asks  *)
(* again only after it took the answer to its last question; each question *)
(* is answered at most once, with its own number, to the process that      *)
(* asked; what an owner leaves behind is not seen by the next.             *)
(***************************************************************************)
EXTENDS Naturals, Sequences

CONSTANTS Process, NoProcess

VARIABLES
  owner,   \* the process that has the port, or NoProcess
  taken,   \* how many answers the owner has taken
  asked,   \* the question under way, or 0
  answer   \* the answer on its way: empty or one number

vars == <<owner, taken, asked, answer>>

Init == owner = NoProcess /\ taken = 0 /\ asked = 0 /\ answer = <<>>

Acquire ==
  /\ owner = NoProcess
  /\ owner' \in Process
  /\ UNCHANGED <<taken, asked, answer>>

Ask ==
  /\ owner # NoProcess /\ asked = 0
  /\ asked' = taken + 1
  /\ UNCHANGED <<owner, taken, answer>>

Answer ==
  /\ asked # 0 /\ answer = <<>>
  /\ answer' = <<asked>>
  /\ UNCHANGED <<owner, taken, asked>>

Take ==
  /\ answer = <<asked>>
  /\ taken' = asked
  /\ asked' = 0
  /\ answer' = <<>>
  /\ UNCHANGED owner

\* The owner ends, or dies, whatever is under way.
Drop ==
  /\ owner # NoProcess
  /\ owner' = NoProcess
  /\ taken' = 0 /\ asked' = 0 /\ answer' = <<>>

Next == Acquire \/ Ask \/ Answer \/ Take \/ Drop

Spec == Init /\ [][Next]_vars

===============================================================================
