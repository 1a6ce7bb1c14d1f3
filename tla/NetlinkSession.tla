---------------------------- MODULE NetlinkSession ----------------------------
(***************************************************************************)
(* The program of code/par_elf: client processes (src/user/client.c) that  *)
(* hand their argv and environment to a kernel module                      *)
(* (src/kernel/lm_kernel.c) over a netlink socket, one packet at a time,   *)
(* each packet answered before the next is sent.                           *)
(*                                                                         *)
(* Any number of clients run, one after the other or at once.  All bind    *)
(* the same netlink port (USER_PORT) and write the same static buffers of  *)
(* the module, and a client can die between any two of its user-mode       *)
(* steps.  netlink runs the module's input callback recv_cb inside the     *)
(* sender's sendto(), so the steps of the callback are steps of the client.*)
(*                                                                         *)
(* A string is a sequence of cells.  A payload is MsgLen cells, a netlink  *)
(* header one cell; <<c, k>> is the k-th character of client c's           *)
(* environment and Junk what belongs to no environment.                    *)
(***************************************************************************)
EXTENDS Integers, Sequences

CONSTANTS
  Client,      \* the processes that may run the client program
  NoClient,    \* no process: a free port, an unused argv buffer
  MsgLen,      \* MSG_LEN = ARGV_LEN = ENVP_LEN = MAX_PLOAD, in cells
  MaxEnv,      \* bound: the longest environment string a client starts with
  AllocFails   \* whether an allocation of the kernel or the client may fail

ASSUME ClientAssumption == NoClient \notin Client
ASSUME LengthAssumption ==
  /\ MsgLen \in Nat \ {0}
  /\ MaxEnv \in Nat
  /\ MaxEnv < 8 * MsgLen     \* envp_buff of main() has MSG_LEN * 8 bytes
ASSUME AllocAssumption == AllocFails \in BOOLEAN

VARIABLES
  loaded,    \* the module is inserted and its netlink socket exists
  argvBuff,  \* static argv_buff: the client whose argv it holds, or NoClient
  envpBuff,  \* static envp_buff: the string it holds
  envp,      \* static envp: the string the table was built from; <<>> for NULL
  overrun,   \* argv_buff or envp_buff has been written past its end
  port,      \* the client whose socket is bound to USER_PORT, or NoClient
  queue,     \* receive queue of that socket: the nlmsg_seq of each reply
  pc,        \* pc[c]: where client c is
  envLen,    \* envLen[c]: strlen of the environment string client c packed
  idx,       \* idx[c]: the loop index i of send_to_kernel(e_pack)
  skb,       \* skb[c]: the string in the packet client c sent last
  lost       \* lost[c]: a packet or reply of this run of c was not allocated

moduleVars == <<loaded, argvBuff, envpBuff, envp, overrun>>
socketVars == <<port, queue>>
clientVars == <<pc, envLen, idx, skb, lost>>
vars == <<moduleVars, socketVars, clientVars>>

Junk == <<NoClient, 0>>

-------------------------------------------------------------------------------
(* What pack_str() leaves in memory and what recv_cb() finds in a packet.  *)

\* count_pack(): how many packets a string of n cells takes.
Packets(n) == (n \div MsgLen) + (IF n % MsgLen > 0 THEN 1 ELSE 0)

\* The headers are allocated without their payloads: pack_str() puts header i
\* in cell i and payload i in the MsgLen cells behind it, so each iteration
\* overwrites all but the header of the one before.  Once the loop is done
\* cell a is a header for every packet number a.
HeaderAt(n, a) == a < Packets(n)

\* The characters memcpy() puts behind header i and that survive the loop,
\* read as a string.  A header begins with nlmsg_len, which is 0x1010: read as a string
\* it is two bytes, one cell of Junk, and a NUL.
PacketText(c, n, i) ==
  IF HeaderAt(n, i + 1)
  THEN <<Junk>>
  ELSE [k \in 1 .. (n - i * MsgLen) |-> <<c, i * MsgLen + k>>]

\* Whether the string of packet i ends inside the packet.  The single packet
\* of a short environment is copied with strlen(str) bytes and no terminator,
\* and a full payload leaves no room for one: what follows is heap contents.
Terminated(n, i) ==
  \/ HeaderAt(n, i + 1)
  \/ Packets(n) > 1 /\ n % MsgLen > 0

Texts(c, n, i) ==
  {PacketText(c, n, i) \o [k \in 1 .. m |-> Junk] :
     m \in IF Terminated(n, i) THEN {0} ELSE {0, 1, MsgLen}}

-------------------------------------------------------------------------------
InCallback == {"argvCopy", "argvReply", "argvClear",
               "envpAppend", "envpParse", "envpReply"}
Waiting == {"argvWait", "envpWait"}
\* Between bind() and the end of main() the process holds USER_PORT.
Bound == InCallback \cup Waiting \cup {"argv", "pack", "envp", "free"}
Locations == Bound \cup {"exited", "init", "bind"}

Init ==
  /\ loaded = FALSE
  /\ argvBuff = NoClient
  /\ envpBuff = <<>>
  /\ envp = <<>>
  /\ overrun = FALSE
  /\ port = NoClient
  /\ queue = <<>>
  /\ pc = [c \in Client |-> "exited"]
  /\ envLen = [c \in Client |-> 0]
  /\ idx = [c \in Client |-> 0]
  /\ skb = [c \in Client |-> <<>>]
  /\ lost = [c \in Client |-> FALSE]

Goto(c, l) == pc' = [pc EXCEPT ![c] = l]

\* main() returns or the process dies, and its memory is gone: its socket is
\* closed, which frees the port and drops the replies that wait in its queue.
Exit(c) ==
  /\ Goto(c, "exited")
  /\ envLen' = [envLen EXCEPT ![c] = 0]
  /\ idx' = [idx EXCEPT ![c] = 0]
  /\ skb' = [skb EXCEPT ![c] = <<>>]
  /\ lost' = [lost EXCEPT ![c] = FALSE]
  /\ IF port = c
     THEN port' = NoClient /\ queue' = <<>>
     ELSE UNCHANGED socketVars
  /\ UNCHANGED moduleVars

-------------------------------------------------------------------------------
(* The module's load and unload.                                           *)

\* lm_kernel_init(): clears envp_buff and creates the netlink socket.  When it
\* cannot, the module stays out and nothing has changed.
Insmod ==
  /\ ~loaded
  /\ loaded' = TRUE
  /\ argvBuff' = NoClient
  /\ envpBuff' = <<>>
  /\ envp' = <<>>
  /\ UNCHANGED <<overrun, socketVars, clientVars>>

\* lm_kernel__exit().  An open client socket holds a reference to the module.
Rmmod ==
  /\ loaded
  /\ \A c \in Client : pc[c] \in {"exited", "init"}
  /\ loaded' = FALSE
  /\ envp' = <<>>
  /\ UNCHANGED <<argvBuff, envpBuff, overrun, socketVars, clientVars>>

-------------------------------------------------------------------------------
(* The client's user-mode steps.                                           *)

\* A process starts main() with an environment of n cells.
Start(c) ==
  /\ pc[c] = "exited"
  /\ \E n \in 0 .. MaxEnv : envLen' = [envLen EXCEPT ![c] = n]
  /\ Goto(c, "init")
  /\ UNCHANGED <<moduleVars, socketVars, idx, skb, lost>>

\* init_nlk(): socket() fails while the module is out.
Socket(c) ==
  /\ pc[c] = "init"
  /\ \/ /\ loaded
        /\ Goto(c, "bind")
        /\ UNCHANGED <<moduleVars, socketVars, envLen, idx, skb, lost>>
     \/ /\ ~loaded
        /\ Exit(c)

\* Mutant: the result of bind() is not looked at.
BindUnchecked(c) ==
  /\ pc[c] = "bind"
  /\ Goto(c, "argv")
  /\ port' = IF port = NoClient THEN c ELSE port
  /\ UNCHANGED <<moduleVars, queue, envLen, idx, skb, lost>>

\* init_nlk(): bind() fails while another socket has the port.
Bind(c) ==
  /\ pc[c] = "bind"
  /\ \/ /\ port = NoClient
        /\ port' = c
        /\ Goto(c, "argv")
        /\ UNCHANGED <<moduleVars, queue, envLen, idx, skb, lost>>
     \/ /\ port # NoClient
        /\ Exit(c)

\* sendto() in send_to_kernel().  A failure returns -1, which the test for 0
\* takes for success, so the client goes on to wait for an answer.
Sendto(c, callback, wait) ==
  \/ /\ Goto(c, callback)
     /\ UNCHANGED <<moduleVars, socketVars, envLen, idx, lost>>
  \/ /\ AllocFails
     /\ Goto(c, wait)
     /\ lost' = [lost EXCEPT ![c] = TRUE]
     /\ UNCHANGED <<moduleVars, socketVars, envLen, idx>>

SendArgv(c) ==
  /\ pc[c] = "argv"
  /\ Sendto(c, "argvCopy", "argvWait")
  /\ UNCHANGED skb

\* pack_str(envp_buff): -1 for an empty environment, -2 when there is no memory
\* for two headers or more (malloc() of a single one is not checked).
PackEnvp(c) ==
  /\ pc[c] = "pack"
  /\ \/ /\ envLen[c] > 0
        /\ Goto(c, "envp")
        /\ UNCHANGED <<moduleVars, socketVars, envLen, idx, skb, lost>>
     \/ /\ envLen[c] = 0 \/ (AllocFails /\ Packets(envLen[c]) > 1)
        /\ Exit(c)

SendEnvp(c) ==
  /\ pc[c] = "envp"
  /\ \E s \in Texts(c, envLen[c], idx[c]) : skb' = [skb EXCEPT ![c] = s]
  /\ Sendto(c, "envpAppend", "envpWait")

\* The nlmsg_seq of the packet client c has sent: 1 for argv, 2 + i for envp.
SentSeq(c) ==
  IF pc[c] \in {"argvCopy", "argvReply", "argvClear", "argvWait"}
  THEN 1
  ELSE 2 + idx[c]

\* Mutant: the loop of pack_str() and send_to_kernel() runs to i <= cnt.
LastPacketTooFar(c) == idx[c] = Packets(envLen[c])

\* pack_str() sets nlmsg_flags to 1 on every packet but the last.
LastPacket(c) == idx[c] + 1 = Packets(envLen[c])

\* recvfrom() and the rest of the loop body in send_to_kernel(): the answer
\* must carry the sequence number of the packet, or the client gives up.
Recv(c) ==
  /\ pc[c] \in Waiting
  /\ port = c
  /\ queue # <<>>
  /\ IF Head(queue) # SentSeq(c)
     THEN Exit(c)
     ELSE /\ queue' = Tail(queue)
          /\ \/ /\ pc[c] = "argvWait"
                /\ Goto(c, "pack")
                /\ UNCHANGED idx
             \/ /\ pc[c] = "envpWait"
                /\ ~LastPacket(c)
                /\ Goto(c, "envp")
                /\ idx' = [idx EXCEPT ![c] = idx[c] + 1]
             \/ /\ pc[c] = "envpWait"
                /\ LastPacket(c)
                /\ Goto(c, "free")
                /\ UNCHANGED idx
          /\ UNCHANGED <<moduleVars, port, envLen, skb, lost>>

\* free_data_pack() of both packs and the end of main().
Finish(c) ==
  /\ pc[c] = "free"
  /\ Exit(c)

\* The process dies in user mode or in a sleep: a signal of the user, or an
\* abort of malloc() or free() over the heap that pack_str() overwrote and the
\* interior pointers that free_data_pack() frees.
Die(c) ==
  /\ pc[c] \in Locations \ (InCallback \cup {"exited"})
  /\ Exit(c)

-------------------------------------------------------------------------------
(* recv_cb(), in the sendto() of client c.                                 *)

\* Mutant: recv_cb() returns before it answers an argv packet.
ArgvCopySilent(c) ==
  /\ pc[c] = "argvCopy"
  /\ argvBuff' = c
  /\ Goto(c, "argvClear")
  /\ UNCHANGED <<loaded, envpBuff, envp, overrun, socketVars,
                 envLen, idx, skb, lost>>

\* strcpy(argv_buff, data): the packet holds the argv string without a
\* terminator, so what is copied may be longer than argv_buff.
ArgvCopy(c) ==
  /\ pc[c] = "argvCopy"
  /\ argvBuff' = c
  /\ overrun' \in BOOLEAN
  /\ Goto(c, "argvReply")
  /\ UNCHANGED <<loaded, envpBuff, envp, socketVars, envLen, idx, skb, lost>>

\* Mutant: the sequence number of the packet is not copied to the answer, which
\* keeps the 0 that nlmsg_put() wrote.
SendToUserNoSeq(c, next) ==
  /\ \/ queue' = Append(queue, 0) /\ UNCHANGED lost
     \/ AllocFails /\ lost' = [lost EXCEPT ![c] = TRUE] /\ UNCHANGED queue
  /\ Goto(c, next)
  /\ UNCHANGED <<moduleVars, port, envLen, idx, skb>>

\* send_to_user(): the answer goes to whoever holds USER_PORT, or is lost if
\* alloc_skb() fails; recv_cb() does not look at the result.
SendToUser(c, next) ==
  /\ \/ queue' = Append(queue, SentSeq(c)) /\ UNCHANGED lost
     \/ AllocFails /\ lost' = [lost EXCEPT ![c] = TRUE] /\ UNCHANGED queue
  /\ Goto(c, next)
  /\ UNCHANGED <<moduleVars, port, envLen, idx, skb>>

ArgvReply(c) == pc[c] = "argvReply" /\ SendToUser(c, "argvClear")

\* Mutant: envp_buff is cleared by lm_kernel_init() alone.
ArgvNoClear(c) ==
  /\ pc[c] = "argvClear"
  /\ Goto(c, "argvWait")
  /\ UNCHANGED <<moduleVars, socketVars, envLen, idx, skb, lost>>

\* memset(envp_buff, 0, ENVP_LEN), after the reply
ArgvClear(c) ==
  /\ pc[c] = "argvClear"
  /\ envpBuff' = <<>>
  /\ Goto(c, "argvWait")
  /\ UNCHANGED <<loaded, argvBuff, envp, overrun, socketVars,
                 envLen, idx, skb, lost>>

\* Mutant: the answer is inside the test for the last packet.
EnvpAppendNoAnswer(c) ==
  /\ pc[c] = "envpAppend"
  /\ envpBuff' = envpBuff \o skb[c]
  /\ overrun' = (Len(envpBuff') >= MsgLen)
  /\ Goto(c, IF LastPacket(c) THEN "envpParse" ELSE "envpWait")
  /\ UNCHANGED <<loaded, argvBuff, envp, socketVars,
                 envLen, idx, skb, lost>>

\* strncat(envp_buff, data, strlen(data)): envp_buff has room for MsgLen - 1
\* characters and a NUL.
EnvpAppend(c) ==
  /\ pc[c] = "envpAppend"
  /\ envpBuff' = envpBuff \o skb[c]
  /\ overrun' = (Len(envpBuff') >= MsgLen)
  /\ Goto(c, IF LastPacket(c) THEN "envpParse" ELSE "envpReply")
  /\ UNCHANGED <<loaded, argvBuff, envp, socketVars,
                 envLen, idx, skb, lost>>

\* Mutant: recv_cb() answers the last packet once more when it has parsed it.
EnvpParseAnswers(c) ==
  /\ pc[c] = "envpParse"
  /\ envp' = skb[c]
  /\ queue' = Append(queue, SentSeq(c))
  /\ Goto(c, "envpReply")
  /\ UNCHANGED <<loaded, argvBuff, envpBuff, overrun, port,
                 envLen, idx, skb, lost>>

\* str_to_argv(data, DELIME, &envp): parses the packet, not envp_buff.  When
\* an allocation fails envp keeps its value (-2) or is NULL (-4, -5).
EnvpParse(c) ==
  /\ pc[c] = "envpParse"
  /\ \/ envp' = skb[c]
     \/ AllocFails /\ envp' \in {envp, <<>>}
  /\ Goto(c, "envpReply")
  /\ UNCHANGED <<loaded, argvBuff, envpBuff, overrun, socketVars,
                 envLen, idx, skb, lost>>

EnvpReply(c) == pc[c] = "envpReply" /\ SendToUser(c, "envpWait")

-------------------------------------------------------------------------------
User(c) == \/ Socket(c) \/ Bind(c) \/ SendArgv(c) \/ PackEnvp(c)
           \/ SendEnvp(c) \/ Recv(c) \/ Finish(c)
Callback(c) == \/ ArgvCopy(c) \/ ArgvReply(c) \/ ArgvClear(c)
               \/ EnvpAppend(c) \/ EnvpParse(c) \/ EnvpReply(c)

\* Past an overrun of envp_buff the C program has no defined state.
Overrun == overrun /\ UNCHANGED vars

Next ==
  \/ /\ ~overrun
     /\ \/ Insmod
        \/ Rmmod
        \/ \E c \in Client : Start(c) \/ User(c) \/ Callback(c) \/ Die(c)
  \/ Overrun

Spec == Init /\ [][Next]_vars

\* A process that can run is scheduled; the kernel finishes a system call.
\* Nothing is assumed of the user: starts, deaths, insmod and rmmod are free.
Fairness == \A c \in Client : WF_vars(~overrun /\ (User(c) \/ Callback(c)))
FairSpec == Spec /\ Fairness

-------------------------------------------------------------------------------
(* Properties.                                                             *)

Cells == (Client \cup {NoClient}) \X Nat

\* The locations of the loop of send_to_kernel(e_pack).
PackLoop == {"envp", "envpAppend", "envpParse", "envpReply", "envpWait"}

\* The loop of send_to_kernel() starts with the first header and stays in those
\* pack_str() allocated.
IndexInPack ==
  \A c \in Client :
    /\ pc[c] \in PackLoop => idx[c] < Packets(envLen[c])
    /\ pc[c] \notin PackLoop \cup {"free"} => idx[c] = 0

ModuleTypes ==
  /\ loaded \in BOOLEAN
  /\ argvBuff \in Client \cup {NoClient}
  /\ envpBuff \in Seq(Cells)
  /\ envp \in Seq(Cells)
  /\ overrun \in BOOLEAN

SocketTypes ==
  /\ port \in Client \cup {NoClient}
  /\ queue \in Seq(Nat)

ClientTypes ==
  /\ pc \in [Client -> Locations]
  /\ envLen \in [Client -> 0 .. MaxEnv]
  /\ idx \in [Client -> Nat]
  /\ skb \in [Client -> Seq(Cells)]
  /\ lost \in [Client -> BOOLEAN]

\* The types of the state, an index in bounds among them.
TypeOK == ModuleTypes /\ SocketTypes /\ ClientTypes /\ IndexInPack

\* recv_cb() and send_to_kernel() take no lock: that two clients never work on
\* the module's static buffers at once rests on the exclusive bind of
\* USER_PORT alone (init_nlk), from the bind to the exit of the process.
OneSession ==
  \A c, d \in Client : pc[c] \in Bound /\ pc[d] \in Bound => c = d

\* Of the packets of this run that recv_cb() has appended: the number of those
\* before the last, and whether the last is among them.
PastAppend(c) == pc[c] \in {"envpParse", "envpReply", "envpWait", "free"}
HeadersAppended(c) == IF PastAppend(c) /\ ~LastPacket(c) THEN idx[c] + 1 ELSE idx[c]
AllAppended(c) == PastAppend(c) /\ LastPacket(c)

Junks(n) == [k \in 1 .. n |-> Junk]

HoldsOwn(c) ==
  pc[c] \in PackLoop \cup {"argvWait", "pack", "free"} /\ ~lost[c] =>
    /\ argvBuff = c
    /\ envpBuff = Junks(HeadersAppended(c)) \o
                    (IF AllAppended(c) THEN skb[c] ELSE <<>>)

\* The module's buffers hold what the running client sent and nothing of an
\* earlier session, however that one ended: the client's argv, one cell of junk
\* for each packet but the last, then the text of the last (recv_cb clears
\* envp_buff after it answered the argv packet, before the client goes on).
NoResidue == \A c \in Client : HoldsOwn(c)

\* The reply a client reads answers the packet it sent: replies to a client
\* that died never reach the next one, so send_to_kernel's -4 is unreachable.
ReplyMatches ==
  \A c \in Client :
    pc[c] \in Waiting /\ queue # <<>> => queue = <<SentSeq(c)>>

\* A client sleeps in recvfrom() with nothing to read only when a packet or a
\* reply could not be allocated: every packet recv_cb() takes is answered.
BlockedOnlyIfLost ==
  \A c \in Client : pc[c] \in Waiting /\ queue = <<>> => lost[c]

\* The inductive invariant of the properties above.  The module stays while a
\* client has a socket; the port belongs to the one process between its bind
\* and its exit; its queue holds at most the answer to the packet sent last, and
\* is empty only if that one is lost; the packets before the last carry a cell
\* of junk each.
ModulePinned == \A c \in Client : pc[c] \notin {"exited", "init"} => loaded
PortHeld == \A c \in Client : pc[c] \in Bound <=> port = c
Answerable == Waiting \cup {"argvClear"}
QueueAnswers ==
  queue # <<>> =>
    \E c \in Client : /\ port = c
                      /\ pc[c] \in Answerable
                      /\ queue = <<SentSeq(c)>>
EmptyIfLost ==
  \A c \in Client : pc[c] \in Answerable /\ queue = <<>> => lost[c]
Buffers(c) ==
  /\ pc[c] \in {"argvReply", "argvClear"} => argvBuff = c
  /\ pc[c] \in PackLoop \ {"envp"} /\ ~LastPacket(c) => skb[c] = <<Junk>>
  /\ pc[c] = "free" => LastPacket(c)
  /\ HoldsOwn(c)
SessionInv ==
  /\ ModulePinned /\ PortHeld
  /\ QueueAnswers /\ EmptyIfLost
  /\ \A c \in Client : Buffers(c)

\* Every run of the client ends, unless an allocation failed under it (then it
\* sleeps for ever in recvfrom, and keeps the port).
RunEnds ==
  \A c \in Client :
    (pc[c] = "init") ~> (pc[c] = "exited" \/ lost[c] \/ overrun)

\* data.h calls the reply C_ENVP "complte send envp": a client that got it for
\* every packet can rely on envp_buff beginning with its environment.
CompleteMeansStored ==
  \A c \in Client :
    pc[c] = "free" =>
      /\ Len(envpBuff) >= envLen[c]
      /\ SubSeq(envpBuff, 1, envLen[c]) = [k \in 1 .. envLen[c] |-> <<c, k>>]

===============================================================================
