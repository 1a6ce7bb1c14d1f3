------------------------- MODULE NetlinkSessionProofs -------------------------
(***************************************************************************)
(* Proofs about NetlinkSession, for any number of clients, any payload and *)
(* any environment: the types, the exclusive session, the pairing of each  *)
(* answer with its packet, what the module's buffers hold, and that it     *)
(* implements RequestReply.  Only the client that holds USER_PORT moves    *)
(* the abstract exchange: a step of any other one is a stutter.            *)
(***************************************************************************)
EXTENDS NetlinkRefinement, TLAPS

-------------------------------------------------------------------------------
(* Lemmas on the operators.                                                *)

\* A string of a packet is a string: whatever pack_str() left behind header i.
LEMMA TextsType ==
  ASSUME NEW c \in Client, NEW n \in Nat, NEW i \in Nat, NEW s \in Texts(c, n, i)
  PROVE  s \in Seq(Cells)
<1>1. Junk \in Cells
  BY DEF Junk, Cells
<1>2. i * MsgLen \in Nat
  BY LengthAssumption
<1>3. PacketText(c, n, i) \in Seq(Cells)
  <2>1. CASE HeaderAt(n, i + 1)
    BY <1>1, <2>1 DEF PacketText
  <2>2. CASE ~HeaderAt(n, i + 1)
    <3> DEFINE text(m) == [k \in 1 .. m |-> <<c, i * MsgLen + k>>]
    <3>1. ASSUME NEW m \in Nat PROVE text(m) \in Seq(Cells)
      <4>1. \A k \in 1 .. m : <<c, i * MsgLen + k>> \in Cells
        BY <1>2 DEF Cells
      <4> QED BY <4>1
    <3>2. n - i * MsgLen \in Int
      BY <1>2
    <3>3. CASE n - i * MsgLen \in Nat
      BY <2>2, <3>1, <3>3 DEF PacketText
    <3>4. CASE n - i * MsgLen < 0
      <4>1. text(n - i * MsgLen) = text(0)
        BY <3>2, <3>4
      <4> QED BY <2>2, <3>1, <4>1 DEF PacketText
    <3> QED BY <3>2, <3>3, <3>4
  <2> QED BY <2>1, <2>2
<1>4. PICK m \in {0, 1, MsgLen} : s = PacketText(c, n, i) \o [k \in 1 .. m |-> Junk]
  BY DEF Texts
<1>5. [k \in 1 .. m |-> Junk] \in Seq(Cells)
  BY <1>1, LengthAssumption
<1> QED BY <1>3, <1>4, <1>5

\* count_pack() returns a natural number, and at least one packet for a string
\* that is not empty.
LEMMA PacketsType ==
  ASSUME NEW n \in Nat
  PROVE  Packets(n) \in Nat /\ (n > 0 => Packets(n) > 0)
BY LengthAssumption DEF Packets

-------------------------------------------------------------------------------
(* Types.                                                                  *)

\* A step of client c that keeps the index of c in bounds keeps all of them.
LEMMA IndexStep ==
  ASSUME IndexInPack, NEW c \in Client,
         \A d \in Client \ {c} :
           pc'[d] = pc[d] /\ idx'[d] = idx[d] /\ envLen'[d] = envLen[d],
         pc'[c] \in PackLoop => idx'[c] < Packets(envLen'[c]),
         pc'[c] \notin PackLoop \cup {"free"} => idx'[c] = 0
  PROVE  IndexInPack'
<1>1. ASSUME NEW d \in Client
      PROVE  /\ pc'[d] \in PackLoop => idx'[d] < Packets(envLen'[d])
             /\ pc'[d] \notin PackLoop \cup {"free"} => idx'[d] = 0
  <2>1. CASE d = c
    BY <2>1
  <2>2. CASE d # c
    BY <2>2 DEF IndexInPack
  <2> QED BY <2>1, <2>2
<1> QED BY <1>1 DEF IndexInPack, Packets

\* So does a step that leaves the clients where they are.
LEMMA IndexStutter ==
  ASSUME IndexInPack, UNCHANGED <<pc, idx, envLen>>
  PROVE  IndexInPack'
BY DEF IndexInPack, Packets

\* The empty string, for the solver.
LEMMA EmptySeq == ASSUME NEW S PROVE <<>> \in Seq(S)
OBVIOUS

\* Sequence numbers are natural numbers.
LEMMA SentSeqType ==
  ASSUME ClientTypes, NEW c \in Client
  PROVE  SentSeq(c) \in Nat
BY DEF ClientTypes, SentSeq

\* The end of a process keeps the types.
LEMMA ExitType ==
  ASSUME TypeOK, NEW c \in Client, Exit(c)
  PROVE  TypeOK'
<1> USE DEF TypeOK, Exit, Goto
<1>1. ModuleTypes'
  BY DEF ModuleTypes, moduleVars
<1>2. SocketTypes'
  BY EmptySeq DEF SocketTypes, socketVars
<1>3. ClientTypes'
  BY EmptySeq, LengthAssumption DEF ClientTypes, Locations
<1>4. IndexInPack'
  BY IndexStep DEF ClientTypes, PackLoop
<1> QED BY <1>1, <1>2, <1>3, <1>4

\* The types of every reachable state: above all, send_to_kernel() never
\* leaves the header array that pack_str() allocated.
THEOREM TypeInvariant == Spec => []TypeOK
<1>1. ASSUME Init PROVE TypeOK
  <2> USE <1>1 DEF Init
  <2>1. ModuleTypes
    BY EmptySeq DEF ModuleTypes
  <2>2. SocketTypes
    BY EmptySeq DEF SocketTypes
  <2>3. ClientTypes
    BY EmptySeq, LengthAssumption DEF ClientTypes, Locations
  <2>4. IndexInPack
    BY DEF IndexInPack, PackLoop
  <2> QED BY <2>1, <2>2, <2>3, <2>4 DEF TypeOK
<1>2. ASSUME TypeOK, [Next]_vars PROVE TypeOK'
  <2> USE <1>2 DEF TypeOK, Goto
  <2>1. CASE Insmod
    BY <2>1, EmptySeq, IndexStutter DEF Insmod, clientVars, socketVars, ModuleTypes, SocketTypes, ClientTypes
  <2>2. CASE Rmmod
    BY <2>2, EmptySeq, IndexStutter DEF Rmmod, clientVars, socketVars, ModuleTypes, SocketTypes, ClientTypes
  <2>3. CASE UNCHANGED vars
    BY <2>3, IndexStutter DEF vars, moduleVars, clientVars, socketVars, ModuleTypes, SocketTypes, ClientTypes
  <2>4. ASSUME NEW c \in Client, Finish(c) \/ Die(c) PROVE TypeOK'
    BY <2>4, ExitType DEF Finish, Die
  <2>5. ASSUME NEW c \in Client, Start(c) PROVE TypeOK'
    <3> USE <2>5 DEF Start
    <3>1. ModuleTypes'
      BY DEF ModuleTypes, ClientTypes, moduleVars
    <3>2. SocketTypes'
      BY DEF SocketTypes, ClientTypes, socketVars
    <3>3. ClientTypes'
      BY DEF ClientTypes, Locations, Bound, InCallback, Waiting
    <3>4. IndexInPack'
      BY IndexStep DEF ClientTypes, IndexInPack, PackLoop
    <3> QED BY <3>1, <3>2, <3>3, <3>4
  <2>6. ASSUME NEW c \in Client, Socket(c) PROVE TypeOK'
    <3>1. CASE Exit(c)
      BY <3>1, ExitType
    <3>2. CASE ~Exit(c)
      <4> USE <2>6, <3>2 DEF Socket
      <4>1. ModuleTypes'
        BY DEF ModuleTypes, ClientTypes, moduleVars
      <4>2. SocketTypes'
        BY DEF SocketTypes, ClientTypes, socketVars
      <4>3. ClientTypes'
        BY DEF ClientTypes, Locations, Bound, InCallback, Waiting
      <4>4. IndexInPack'
        BY IndexStep DEF ClientTypes, IndexInPack, PackLoop
      <4> QED BY <4>1, <4>2, <4>3, <4>4
    <3> QED BY <3>1, <3>2
  <2>7. ASSUME NEW c \in Client, Bind(c) PROVE TypeOK'
    <3>1. CASE Exit(c)
      BY <3>1, ExitType
    <3>2. CASE ~Exit(c)
      <4> USE <2>7, <3>2 DEF Bind
      <4>1. ModuleTypes'
        BY DEF ModuleTypes, ClientTypes, moduleVars
      <4>2. SocketTypes'
        BY DEF SocketTypes, ClientTypes, socketVars
      <4>3. ClientTypes'
        BY DEF ClientTypes, Locations, Bound, InCallback, Waiting
      <4>4. IndexInPack'
        BY IndexStep DEF ClientTypes, IndexInPack, PackLoop
      <4> QED BY <4>1, <4>2, <4>3, <4>4
    <3> QED BY <3>1, <3>2
  <2>8. ASSUME NEW c \in Client, SendArgv(c) PROVE TypeOK'
    <3> USE <2>8 DEF SendArgv, Sendto
    <3>1. ModuleTypes'
      BY DEF ModuleTypes, ClientTypes, moduleVars
    <3>2. SocketTypes'
      BY DEF SocketTypes, ClientTypes, socketVars
    <3>3. ClientTypes'
      BY DEF ClientTypes, Locations, Bound, InCallback, Waiting
    <3>4. IndexInPack'
      BY IndexStep DEF ClientTypes, IndexInPack, PackLoop
    <3> QED BY <3>1, <3>2, <3>3, <3>4
  <2>9. ASSUME NEW c \in Client, PackEnvp(c) PROVE TypeOK'
    <3>1. CASE Exit(c)
      BY <3>1, ExitType
    <3>2. CASE ~Exit(c)
      <4> USE <2>9, <3>2 DEF PackEnvp
      <4>1. ModuleTypes'
        BY DEF ModuleTypes, ClientTypes, moduleVars
      <4>2. SocketTypes'
        BY DEF SocketTypes, ClientTypes, socketVars
      <4>3. ClientTypes'
        BY PacketsType DEF ClientTypes, Locations, Bound, InCallback, Waiting
      <4>4. IndexInPack'
        <5>1. envLen[c] \in Nat
          BY LengthAssumption DEF ClientTypes
        <5>2. envLen[c] > 0
          OBVIOUS
        <5>3. idx[c] = 0
          BY DEF IndexInPack, PackLoop
        <5>4. 0 < Packets(envLen[c])
          BY <5>1, <5>2, PacketsType
        <5> QED BY <5>3, <5>4, IndexStep DEF ClientTypes, PackLoop
      <4> QED BY <4>1, <4>2, <4>3, <4>4
    <3> QED BY <3>1, <3>2
  <2>10. ASSUME NEW c \in Client, SendEnvp(c) PROVE TypeOK'
    <3> USE <2>10 DEF SendEnvp, Sendto
    <3>1. ModuleTypes'
      BY DEF ModuleTypes, ClientTypes, moduleVars
    <3>2. SocketTypes'
      BY DEF SocketTypes, ClientTypes, socketVars
    <3>3. ClientTypes'
      <4>1. envLen[c] \in Nat /\ idx[c] \in Nat
        BY LengthAssumption DEF ClientTypes
      <4>2. PICK s \in Texts(c, envLen[c], idx[c]) : skb' = [skb EXCEPT ![c] = s]
        OBVIOUS
      <4>3. s \in Seq(Cells)
        BY <4>1, TextsType
      <4> QED BY <4>2, <4>3 DEF ClientTypes, Locations, Bound, InCallback, Waiting
    <3>4. IndexInPack'
      BY IndexStep, TextsType DEF ClientTypes, IndexInPack, PackLoop
    <3> QED BY <3>1, <3>2, <3>3, <3>4
  <2>11. ASSUME NEW c \in Client, Recv(c) PROVE TypeOK'
    <3>1. CASE Exit(c)
      BY <3>1, ExitType
    <3>2. CASE ~Exit(c)
      <4> USE <2>11, <3>2 DEF Recv
      <4>1. ModuleTypes'
        BY DEF ModuleTypes, moduleVars
      <4>2. SocketTypes'
        <5>1. Tail(queue) \in Seq(Nat)
          BY DEF SocketTypes
        <5> QED BY <5>1 DEF SocketTypes
      <4>3. ClientTypes'
        <5>1. pc' \in [Client -> Locations]
          BY DEF ClientTypes, Locations, Bound
        <5>2. idx' \in [Client -> Nat]
          BY DEF ClientTypes
        <5> QED BY <5>1, <5>2 DEF ClientTypes
      <4>4. IndexInPack'
        <5>1. Packets(envLen[c]) \in Nat /\ idx[c] \in Nat
          BY PacketsType, LengthAssumption DEF ClientTypes
        <5>2. pc'[c] \in PackLoop => idx'[c] < Packets(envLen'[c])
          BY <5>1 DEF ClientTypes, IndexInPack, PackLoop, LastPacket
        <5>3. pc'[c] \notin PackLoop \cup {"free"} => idx'[c] = 0
          BY DEF ClientTypes, IndexInPack, PackLoop
        <5> QED BY <5>2, <5>3, IndexStep DEF ClientTypes
      <4> QED BY <4>1, <4>2, <4>3, <4>4
    <3> QED BY <3>1, <3>2
  <2>12. ASSUME NEW c \in Client, ArgvCopy(c) PROVE TypeOK'
    <3> USE <2>12 DEF ArgvCopy
    <3>1. ModuleTypes'
      BY DEF ModuleTypes, ClientTypes
    <3>2. SocketTypes'
      BY DEF SocketTypes, ClientTypes, socketVars
    <3>3. ClientTypes'
      BY DEF ClientTypes, Locations, Bound, InCallback, Waiting
    <3>4. IndexInPack'
      BY IndexStep DEF ClientTypes, IndexInPack, PackLoop
    <3> QED BY <3>1, <3>2, <3>3, <3>4
  <2>13. ASSUME NEW c \in Client, ArgvClear(c) PROVE TypeOK'
    <3> USE <2>13 DEF ArgvClear
    <3>1. ModuleTypes'
      BY EmptySeq DEF ModuleTypes, ClientTypes
    <3>2. SocketTypes'
      BY DEF SocketTypes, ClientTypes, socketVars
    <3>3. ClientTypes'
      BY DEF ClientTypes, Locations, Bound, InCallback, Waiting
    <3>4. IndexInPack'
      BY IndexStep DEF ClientTypes, IndexInPack, PackLoop
    <3> QED BY <3>1, <3>2, <3>3, <3>4
  <2>14. ASSUME NEW c \in Client, ArgvReply(c) PROVE TypeOK'
    <3> USE <2>14 DEF ArgvReply, SendToUser
    <3>1. ModuleTypes'
      BY DEF ModuleTypes, ClientTypes, moduleVars
    <3>2. SocketTypes'
      <4>1. SentSeq(c) \in Nat
        BY SentSeqType
      <4> QED BY <4>1 DEF SocketTypes
    <3>3. ClientTypes'
      BY DEF ClientTypes, Locations, Bound, InCallback, Waiting
    <3>4. IndexInPack'
      BY IndexStep DEF ClientTypes, IndexInPack, PackLoop
    <3> QED BY <3>1, <3>2, <3>3, <3>4
  <2>15. ASSUME NEW c \in Client, EnvpReply(c) PROVE TypeOK'
    <3> USE <2>15 DEF EnvpReply, SendToUser
    <3>1. ModuleTypes'
      BY DEF ModuleTypes, ClientTypes, moduleVars
    <3>2. SocketTypes'
      <4>1. SentSeq(c) \in Nat
        BY SentSeqType
      <4> QED BY <4>1 DEF SocketTypes
    <3>3. ClientTypes'
      BY DEF ClientTypes, Locations, Bound, InCallback, Waiting
    <3>4. IndexInPack'
      BY IndexStep DEF ClientTypes, IndexInPack, PackLoop
    <3> QED BY <3>1, <3>2, <3>3, <3>4
  <2>16. ASSUME NEW c \in Client, EnvpAppend(c) PROVE TypeOK'
    <3> USE <2>16 DEF EnvpAppend
    <3>1. ModuleTypes'
      BY DEF ModuleTypes, ClientTypes
    <3>2. SocketTypes'
      BY DEF SocketTypes, ClientTypes, socketVars
    <3>3. ClientTypes'
      BY DEF ClientTypes, Locations, Bound, InCallback, Waiting
    <3>4. IndexInPack'
      BY IndexStep DEF ClientTypes, IndexInPack, PackLoop
    <3> QED BY <3>1, <3>2, <3>3, <3>4
  <2>17. ASSUME NEW c \in Client, EnvpParse(c) PROVE TypeOK'
    <3> USE <2>17 DEF EnvpParse
    <3>1. ModuleTypes'
      BY EmptySeq DEF ModuleTypes, ClientTypes
    <3>2. SocketTypes'
      BY DEF SocketTypes, ClientTypes, socketVars
    <3>3. ClientTypes'
      BY DEF ClientTypes, Locations, Bound, InCallback, Waiting
    <3>4. IndexInPack'
      BY IndexStep DEF ClientTypes, IndexInPack, PackLoop
    <3> QED BY <3>1, <3>2, <3>3, <3>4
  <2> QED
    BY <2>1, <2>2, <2>3, <2>4, <2>5, <2>6, <2>7, <2>8, <2>9, <2>10, <2>11, <2>12, <2>13, <2>14, <2>15, <2>16, <2>17
    DEF Next, User, Callback, Overrun
<1> QED BY <1>1, <1>2, PTL DEF Spec

-------------------------------------------------------------------------------
(* The session.                                                            *)

\* While c holds the port nobody else is between bind and exit.
LEMMA OneBound ==
  ASSUME PortHeld, NEW c \in Client, pc[c] \in Bound, NEW d \in Client, d # c
  PROVE  pc[d] \notin Bound
BY DEF PortHeld

\* Whether the packet is the last depends on the client's own state only.
LEMMA LastPacketStep ==
  ASSUME NEW c \in Client, envLen'[c] = envLen[c], idx'[c] = idx[c]
  PROVE  LastPacket(c)' <=> LastPacket(c)
BY DEF LastPacket, Packets

\* Nothing is claimed of the buffers for a process that does not hold the port.
LEMMA BuffersUnbound ==
  ASSUME NEW c \in Client, pc'[c] \notin Bound \ {"argv"}
  PROVE  Buffers(c)'
BY DEF Buffers, HoldsOwn, PackLoop, Bound, InCallback, Waiting

\* A step that touches neither the buffers nor the client keeps the claim.
LEMMA BuffersStutter ==
  ASSUME NEW c \in Client, Buffers(c), argvBuff' = argvBuff, envpBuff' = envpBuff,
         pc'[c] = pc[c], envLen'[c] = envLen[c], idx'[c] = idx[c],
         skb'[c] = skb[c], lost'[c] = lost[c]
  PROVE  Buffers(c)'
BY LastPacketStep
DEF Buffers, HoldsOwn, HeadersAppended, AllAppended, PastAppend, Junks

\* One more cell of junk.
LEMMA JunksAppend ==
  ASSUME NEW n \in Nat
  PROVE  Junks(n) \o <<Junk>> = Junks(n + 1)
BY DEF Junks

\* The end of a process keeps the session invariant.
LEMMA ExitSession ==
  ASSUME TypeOK, SessionInv, NEW c \in Client, Exit(c)
  PROVE  SessionInv'
<1> USE DEF SessionInv, Exit, Goto
<1>1. /\ pc' = [pc EXCEPT ![c] = "exited"]
      /\ pc'[c] = "exited"
      /\ \A d \in Client \ {c} : /\ pc'[d] = pc[d] /\ envLen'[d] = envLen[d]
                                /\ idx'[d] = idx[d] /\ skb'[d] = skb[d]
                                /\ lost'[d] = lost[d]
      /\ loaded' = loaded /\ argvBuff' = argvBuff /\ envpBuff' = envpBuff
  BY DEF TypeOK, ClientTypes, moduleVars
<1>2. ModulePinned'
  BY <1>1 DEF ModulePinned
<1>3. PortHeld'
  BY <1>1, ClientAssumption DEF PortHeld, Bound, InCallback, Waiting, socketVars
<1>4. QueueAnswers'
  BY <1>1 DEF QueueAnswers, SentSeq, socketVars
<1>5. EmptyIfLost'
  <2> SUFFICES ASSUME NEW d \in Client, pc'[d] \in Answerable, queue' = <<>>
               PROVE  lost'[d]
    BY DEF EmptyIfLost
  <2>1. d # c /\ pc[d] \in Answerable
    BY <1>1 DEF Answerable, Waiting
  <2>2. port = d
    BY <2>1 DEF PortHeld, Answerable, Bound, InCallback
  <2> QED BY <1>1, <2>1, <2>2 DEF EmptyIfLost, socketVars
<1>6. ASSUME NEW d \in Client PROVE Buffers(d)'
  <2>1. CASE d = c
    BY <1>1, <2>1, BuffersUnbound DEF Bound, InCallback, Waiting
  <2>2. CASE d # c
    BY <1>1, <2>2, BuffersStutter
  <2> QED BY <2>1, <2>2
<1> QED BY <1>2, <1>3, <1>4, <1>5, <1>6

\* A step of c from inside its session to inside it keeps the port with c.
LEMMA PortStep ==
  ASSUME PortHeld, NEW c \in Client, port' = port,
         pc'[c] \in Bound <=> pc[c] \in Bound,
         \A d \in Client \ {c} : pc'[d] = pc[d]
  PROVE  PortHeld'
BY DEF PortHeld

\* Before it answers, recv_cb() finds the queue of its sender empty.
LEMMA EmptyQueue ==
  ASSUME PortHeld, QueueAnswers, NEW c \in Client,
         pc[c] \in Bound, pc[c] \notin Answerable
  PROVE  queue = <<>> /\ port = c
BY DEF PortHeld, QueueAnswers

\* Every packet but the last carries one cell of junk.
LEMMA HeaderText ==
  ASSUME ClientTypes, IndexInPack, NEW c \in Client, pc[c] = "envp", ~LastPacket(c),
         NEW s \in Texts(c, envLen[c], idx[c])
  PROVE  s = <<Junk>>
<1>1. HeaderAt(envLen[c], idx[c] + 1)
  <2>1. Packets(envLen[c]) \in Nat /\ idx[c] \in Nat
    BY PacketsType, LengthAssumption DEF ClientTypes
  <2>2. idx[c] < Packets(envLen[c])
    BY DEF IndexInPack, PackLoop
  <2> QED BY <2>1, <2>2 DEF HeaderAt, LastPacket
<1>2. s = <<Junk>> \o Junks(0)
  BY <1>1 DEF Texts, PacketText, Terminated, Junks
<1> QED BY <1>2 DEF Junks, Junk

\* Every step of Next keeps the session invariant.
LEMMA SessionStep ==
  ASSUME TypeOK, SessionInv, [Next]_vars
  PROVE  SessionInv'
  <1> USE DEF TypeOK, SessionInv, Goto
  <1>1. CASE Insmod
    <2>1. \A d \in Client : pc[d] \in {"exited", "init"}
      BY <1>1 DEF Insmod, ModulePinned
    <2>2. \A d \in Client : pc'[d] = pc[d] /\ lost'[d] = lost[d]
      BY <1>1 DEF Insmod, clientVars
    <2>3. \A d \in Client : Buffers(d)'
      BY <2>1, <2>2, BuffersUnbound DEF Bound, InCallback, Waiting
    <2> QED
      BY <1>1, <2>1, <2>3 DEF Insmod, ModulePinned, PortHeld, QueueAnswers, SentSeq, EmptyIfLost, clientVars, socketVars
  <1>2. CASE Rmmod
    <2>1. \A d \in Client : Buffers(d)'
      BY <1>2, BuffersStutter DEF Rmmod, clientVars
    <2> QED
      BY <1>2, <2>1 DEF Rmmod, ModulePinned, PortHeld, QueueAnswers, SentSeq, EmptyIfLost, clientVars, socketVars
  <1>3. CASE UNCHANGED vars
    <2>1. \A d \in Client : Buffers(d)'
      BY <1>3, BuffersStutter DEF vars, moduleVars, clientVars
    <2> QED
      BY <1>3, <2>1 DEF vars, ModulePinned, PortHeld, QueueAnswers, SentSeq, EmptyIfLost, moduleVars, clientVars, socketVars
  <1>4. ASSUME NEW c \in Client, Finish(c) \/ Die(c) PROVE SessionInv'
    BY <1>4, ExitSession DEF Finish, Die
  <1>5. ASSUME NEW c \in Client, Start(c) PROVE SessionInv'
    <2> USE <1>5 DEF Start
    <2>1. /\ ModulePinned' /\ PortHeld'
      BY DEF ModulePinned, PortHeld, Bound, InCallback, Waiting, moduleVars, socketVars, ClientTypes
    <2>2. QueueAnswers'
      BY DEF QueueAnswers, PortHeld, SentSeq, Answerable, Bound, InCallback, Waiting, socketVars, ClientTypes, SocketTypes
    <2>3. EmptyIfLost'
      BY DEF EmptyIfLost, PortHeld, Answerable, Bound, InCallback, Waiting, socketVars, ClientTypes, SocketTypes
    <2>4. Buffers(c)'
      BY BuffersUnbound DEF ClientTypes, Bound, InCallback, Waiting
    <2>5. ASSUME NEW d \in Client \ {c} PROVE Buffers(d)'
      BY BuffersStutter DEF moduleVars, ClientTypes
    <2> QED BY <2>1, <2>2, <2>3, <2>4, <2>5
  <1>6. ASSUME NEW c \in Client, Socket(c), ~Exit(c) PROVE SessionInv'
    <2> USE <1>6 DEF Socket
    <2>1. /\ ModulePinned' /\ PortHeld'
      BY DEF ModulePinned, PortHeld, Bound, InCallback, Waiting, moduleVars, socketVars, ClientTypes
    <2>2. QueueAnswers'
      BY DEF QueueAnswers, PortHeld, SentSeq, Answerable, Bound, InCallback, Waiting, socketVars, ClientTypes, SocketTypes
    <2>3. EmptyIfLost'
      BY DEF EmptyIfLost, PortHeld, Answerable, Bound, InCallback, Waiting, socketVars, ClientTypes, SocketTypes
    <2>4. Buffers(c)'
      BY BuffersUnbound DEF ClientTypes, Bound, InCallback, Waiting
    <2>5. ASSUME NEW d \in Client \ {c} PROVE Buffers(d)'
      BY BuffersStutter DEF moduleVars, ClientTypes
    <2> QED BY <2>1, <2>2, <2>3, <2>4, <2>5
  <1>7. ASSUME NEW c \in Client, Bind(c), ~Exit(c) PROVE SessionInv'
    <2> USE <1>7 DEF Bind
    <2>1. /\ ModulePinned' /\ PortHeld'
      <3>1. ModulePinned'
        <4>1. loaded
          BY DEF ModulePinned
        <4> QED BY <4>1 DEF ModulePinned, moduleVars
      <3>2. port = NoClient /\ port' = c
        OBVIOUS
      <3>3. \A d \in Client : pc'[d] \in Bound <=> d = c
        BY <3>2, ClientAssumption DEF PortHeld, Bound, ClientTypes
      <3> QED BY <3>1, <3>2, <3>3 DEF PortHeld
    <2>2. QueueAnswers'
      <3>1. queue' = <<>>
        BY ClientAssumption DEF QueueAnswers, PortHeld, SocketTypes
      <3> QED BY <3>1 DEF QueueAnswers
    <2>3. EmptyIfLost'
      BY DEF EmptyIfLost, PortHeld, Answerable, Bound, InCallback, Waiting, socketVars, ClientTypes, SocketTypes
    <2>4. Buffers(c)'
      BY BuffersUnbound DEF ClientTypes, Bound, InCallback, Waiting
    <2>5. ASSUME NEW d \in Client \ {c} PROVE Buffers(d)'
      BY BuffersStutter DEF moduleVars, ClientTypes
    <2> QED BY <2>1, <2>2, <2>3, <2>4, <2>5
  <1>8. ASSUME NEW c \in Client, PackEnvp(c), ~Exit(c) PROVE SessionInv'
    <2> USE <1>8 DEF PackEnvp
    <2>1. /\ ModulePinned' /\ PortHeld'
      <3>1. ModulePinned'
        <4>1. loaded
          BY DEF ModulePinned
        <4> QED BY <4>1 DEF ModulePinned, moduleVars
      <3>2. PortHeld'
        BY PortStep DEF Bound, InCallback, Waiting, socketVars, ClientTypes
      <3> QED BY <3>1, <3>2
    <2>2. QueueAnswers'
      BY DEF QueueAnswers, PortHeld, SentSeq, Answerable, Bound, InCallback, Waiting, socketVars, ClientTypes, SocketTypes
    <2>3. EmptyIfLost'
      BY DEF EmptyIfLost, PortHeld, Answerable, Bound, InCallback, Waiting, socketVars, ClientTypes, SocketTypes
    <2>4. Buffers(c)'
      BY LastPacketStep DEF Buffers, HoldsOwn, HeadersAppended, AllAppended, PastAppend, Junks, PackLoop, ClientTypes, moduleVars
    <2>5. ASSUME NEW d \in Client \ {c} PROVE Buffers(d)'
      BY BuffersStutter DEF moduleVars, ClientTypes
    <2> QED BY <2>1, <2>2, <2>3, <2>4, <2>5
  <1>9. ASSUME NEW c \in Client, Recv(c), ~Exit(c) PROVE SessionInv'
    <2> USE <1>9 DEF Recv
    <2>1. /\ ModulePinned' /\ PortHeld'
      BY DEF ModulePinned, PortHeld, Bound, InCallback, Waiting, moduleVars, socketVars, ClientTypes
    <2>2. QueueAnswers'
      BY DEF QueueAnswers, PortHeld, SentSeq, Answerable, Bound, InCallback, Waiting, socketVars, ClientTypes, SocketTypes
    <2>3. EmptyIfLost'
      BY DEF EmptyIfLost, PortHeld, Answerable, Bound, InCallback, Waiting, socketVars, ClientTypes, SocketTypes
    <2>4. Buffers(c)'
      BY LastPacketStep DEF Buffers, HoldsOwn, HeadersAppended, AllAppended, PastAppend, Junks, PackLoop, ClientTypes, moduleVars
    <2>5. ASSUME NEW d \in Client \ {c} PROVE Buffers(d)'
      BY BuffersStutter DEF moduleVars, ClientTypes
    <2> QED BY <2>1, <2>2, <2>3, <2>4, <2>5
  <1>10. ASSUME NEW c \in Client, SendArgv(c) PROVE SessionInv'
    <2> USE <1>10 DEF SendArgv, Sendto
    <2>1. /\ ModulePinned' /\ PortHeld'
      <3>1. ModulePinned'
        <4>1. loaded
          BY DEF ModulePinned
        <4> QED BY <4>1 DEF ModulePinned, moduleVars
      <3>2. PortHeld'
        BY PortStep DEF Bound, InCallback, Waiting, socketVars, ClientTypes
      <3> QED BY <3>1, <3>2
    <2>2. QueueAnswers'
      BY DEF QueueAnswers, PortHeld, SentSeq, Answerable, Bound, InCallback, Waiting, socketVars, ClientTypes, SocketTypes
    <2>3. EmptyIfLost'
      BY DEF EmptyIfLost, PortHeld, Answerable, Bound, InCallback, Waiting, socketVars, ClientTypes, SocketTypes
    <2>4. Buffers(c)'
      BY LastPacketStep DEF Buffers, HoldsOwn, HeadersAppended, AllAppended, PastAppend, Junks, PackLoop, ClientTypes, moduleVars
    <2>5. ASSUME NEW d \in Client \ {c} PROVE Buffers(d)'
      BY BuffersStutter DEF moduleVars, ClientTypes
    <2> QED BY <2>1, <2>2, <2>3, <2>4, <2>5
  <1>11. ASSUME NEW c \in Client, SendEnvp(c) PROVE SessionInv'
    <2> USE <1>11 DEF SendEnvp, Sendto
    <2>1. /\ ModulePinned' /\ PortHeld'
      BY DEF ModulePinned, PortHeld, Bound, InCallback, Waiting, moduleVars, socketVars, ClientTypes
    <2>2. QueueAnswers'
      BY DEF QueueAnswers, PortHeld, SentSeq, Answerable, Bound, InCallback, Waiting, socketVars, ClientTypes, SocketTypes
    <2>3. EmptyIfLost'
      BY DEF EmptyIfLost, PortHeld, Answerable, Bound, InCallback, Waiting, socketVars, ClientTypes, SocketTypes
    <2>4. Buffers(c)'
      <3>1. LastPacket(c)' <=> LastPacket(c)
        BY LastPacketStep
      <3>2. ~LastPacket(c) => skb'[c] = <<Junk>>
        BY HeaderText DEF ClientTypes, IndexInPack, PackLoop
      <3> QED
        BY <3>1, <3>2
        DEF Buffers, HoldsOwn, HeadersAppended, AllAppended, PastAppend, Junks, PackLoop, ClientTypes, moduleVars
    <2>5. ASSUME NEW d \in Client \ {c} PROVE Buffers(d)'
      BY BuffersStutter DEF moduleVars, ClientTypes
    <2> QED BY <2>1, <2>2, <2>3, <2>4, <2>5
  <1>12. ASSUME NEW c \in Client, ArgvCopy(c) PROVE SessionInv'
    <2> USE <1>12 DEF ArgvCopy
    <2>1. /\ ModulePinned' /\ PortHeld'
      BY DEF ModulePinned, PortHeld, Bound, InCallback, Waiting, moduleVars, socketVars, ClientTypes
    <2>2. QueueAnswers'
      BY DEF QueueAnswers, PortHeld, SentSeq, Answerable, Bound, InCallback, Waiting, socketVars, ClientTypes, SocketTypes
    <2>3. EmptyIfLost'
      BY DEF EmptyIfLost, PortHeld, Answerable, Bound, InCallback, Waiting, socketVars, ClientTypes, SocketTypes
    <2>4. Buffers(c)'
      BY LastPacketStep DEF Buffers, HoldsOwn, HeadersAppended, AllAppended, PastAppend, Junks, PackLoop, ClientTypes, moduleVars
    <2>5. ASSUME NEW d \in Client \ {c} PROVE Buffers(d)'
      BY OneBound, BuffersUnbound DEF ClientTypes, Bound, InCallback, Waiting
    <2> QED BY <2>1, <2>2, <2>3, <2>4, <2>5
  <1>13. ASSUME NEW c \in Client, ArgvReply(c) PROVE SessionInv'
    <2> USE <1>13 DEF ArgvReply, SendToUser
    <2>1. /\ ModulePinned' /\ PortHeld'
      BY DEF ModulePinned, PortHeld, Bound, InCallback, Waiting, moduleVars, socketVars, ClientTypes
    <2>2. QueueAnswers'
      <3>1. queue = <<>> /\ port = c
        BY EmptyQueue DEF Answerable, Bound, InCallback, Waiting
      <3>2. queue' = <<>> \/ queue' = <<SentSeq(c)>>
        BY <3>1
      <3>3. SentSeq(c)' = SentSeq(c)
        BY DEF SentSeq, ClientTypes
      <3>4. port' = c /\ pc'[c] \in Answerable
        BY <3>1 DEF Answerable, Waiting, ClientTypes
      <3> QED BY <3>2, <3>3, <3>4 DEF QueueAnswers
    <2>3. EmptyIfLost'
      <3>1. queue = <<>> /\ port = c
        BY EmptyQueue DEF Answerable, Bound, InCallback, Waiting
      <3>2. queue' = <<>> => lost'[c]
        BY <3>1 DEF ClientTypes
      <3>3. \A d \in Client \ {c} : pc'[d] \notin Answerable
        BY OneBound DEF Answerable, Bound, InCallback, Waiting, ClientTypes
      <3> QED BY <3>2, <3>3 DEF EmptyIfLost
    <2>4. Buffers(c)'
      BY LastPacketStep DEF Buffers, HoldsOwn, HeadersAppended, AllAppended, PastAppend, Junks, PackLoop, ClientTypes, moduleVars
    <2>5. ASSUME NEW d \in Client \ {c} PROVE Buffers(d)'
      BY BuffersStutter DEF moduleVars, ClientTypes
    <2> QED BY <2>1, <2>2, <2>3, <2>4, <2>5
  <1>14. ASSUME NEW c \in Client, ArgvClear(c) PROVE SessionInv'
    <2> USE <1>14 DEF ArgvClear
    <2>1. /\ ModulePinned' /\ PortHeld'
      BY DEF ModulePinned, PortHeld, Bound, InCallback, Waiting, moduleVars, socketVars, ClientTypes
    <2>2. QueueAnswers'
      BY DEF QueueAnswers, PortHeld, SentSeq, Answerable, Bound, InCallback, Waiting, socketVars, ClientTypes, SocketTypes
    <2>3. EmptyIfLost'
      BY DEF EmptyIfLost, PortHeld, Answerable, Bound, InCallback, Waiting, socketVars, ClientTypes, SocketTypes
    <2>4. Buffers(c)'
      <3>1. idx[c] = 0 /\ HeadersAppended(c)' = 0 /\ ~AllAppended(c)'
        BY DEF IndexInPack, PackLoop, HeadersAppended, AllAppended, PastAppend, ClientTypes
      <3>2. Junks(0) = <<>>
        BY DEF Junks
      <3>3. Junks(HeadersAppended(c)') \o <<>> = <<>>
        BY <3>1, <3>2
      <3> QED BY <3>1, <3>3 DEF Buffers, HoldsOwn, Junks, PackLoop, ClientTypes
    <2>5. ASSUME NEW d \in Client \ {c} PROVE Buffers(d)'
      BY OneBound, BuffersUnbound DEF ClientTypes, Bound, InCallback, Waiting
    <2> QED BY <2>1, <2>2, <2>3, <2>4, <2>5
  <1>15. ASSUME NEW c \in Client, EnvpAppend(c) PROVE SessionInv'
    <2> USE <1>15 DEF EnvpAppend
    <2>1. /\ ModulePinned' /\ PortHeld'
      BY DEF ModulePinned, PortHeld, Bound, InCallback, Waiting, moduleVars, socketVars, ClientTypes
    <2>2. QueueAnswers'
      BY DEF QueueAnswers, PortHeld, SentSeq, Answerable, Bound, InCallback, Waiting, socketVars, ClientTypes, SocketTypes
    <2>3. EmptyIfLost'
      BY DEF EmptyIfLost, PortHeld, Answerable, Bound, InCallback, Waiting, socketVars, ClientTypes, SocketTypes
    <2>4. Buffers(c)'
      <3>1. LastPacket(c)' <=> LastPacket(c)
        BY LastPacketStep
      <3>2. /\ argvBuff' = argvBuff /\ skb' = skb /\ lost' = lost
            /\ pc'[c] \in {"envpParse", "envpReply"}
            /\ envpBuff' = envpBuff \o skb[c]
        BY DEF ClientTypes
      <3>3. ~lost[c] => argvBuff = c /\ envpBuff = Junks(idx[c]) \o <<>>
        BY DEF Buffers, HoldsOwn, HeadersAppended, AllAppended, PastAppend, PackLoop
      <3>4. Junks(idx[c]) \o <<>> = Junks(idx[c]) /\ idx[c] \in Nat
        BY DEF Junks, Junk, ClientTypes
      <3>5. CASE LastPacket(c)
        <4>1. HeadersAppended(c)' = idx[c] /\ AllAppended(c)'
          BY <3>1, <3>2, <3>5 DEF HeadersAppended, AllAppended, PastAppend
        <4> QED
          BY <3>1, <3>2, <3>3, <3>4, <3>5, <4>1 DEF Buffers, HoldsOwn, Junks
      <3>6. CASE ~LastPacket(c)
        <4>1. HeadersAppended(c)' = idx[c] + 1 /\ ~AllAppended(c)'
          BY <3>1, <3>2, <3>6 DEF HeadersAppended, AllAppended, PastAppend
        <4>2. skb[c] = <<Junk>>
          BY <3>6 DEF Buffers, PackLoop
        <4>3. Junks(idx[c]) \o <<Junk>> = Junks(idx[c] + 1)
          BY <3>4, JunksAppend
        <4>4. Junks(idx[c] + 1) \o <<>> = Junks(idx[c] + 1)
          BY <3>4 DEF Junks, Junk
        <4> QED
          BY <3>1, <3>2, <3>3, <3>4, <3>6, <4>1, <4>2, <4>3, <4>4
          DEF Buffers, HoldsOwn, Junks
      <3> QED BY <3>5, <3>6
    <2>5. ASSUME NEW d \in Client \ {c} PROVE Buffers(d)'
      BY OneBound, BuffersUnbound DEF ClientTypes, Bound, InCallback, Waiting
    <2> QED BY <2>1, <2>2, <2>3, <2>4, <2>5
  <1>16. ASSUME NEW c \in Client, EnvpParse(c) PROVE SessionInv'
    <2> USE <1>16 DEF EnvpParse
    <2>1. /\ ModulePinned' /\ PortHeld'
      BY DEF ModulePinned, PortHeld, Bound, InCallback, Waiting, moduleVars, socketVars, ClientTypes
    <2>2. QueueAnswers'
      BY DEF QueueAnswers, PortHeld, SentSeq, Answerable, Bound, InCallback, Waiting, socketVars, ClientTypes, SocketTypes
    <2>3. EmptyIfLost'
      BY DEF EmptyIfLost, PortHeld, Answerable, Bound, InCallback, Waiting, socketVars, ClientTypes, SocketTypes
    <2>4. Buffers(c)'
      BY LastPacketStep DEF Buffers, HoldsOwn, HeadersAppended, AllAppended, PastAppend, Junks, PackLoop, ClientTypes, moduleVars
    <2>5. ASSUME NEW d \in Client \ {c} PROVE Buffers(d)'
      BY BuffersStutter DEF moduleVars, ClientTypes
    <2> QED BY <2>1, <2>2, <2>3, <2>4, <2>5
  <1>17. ASSUME NEW c \in Client, EnvpReply(c) PROVE SessionInv'
    <2> USE <1>17 DEF EnvpReply, SendToUser
    <2>1. /\ ModulePinned' /\ PortHeld'
      BY DEF ModulePinned, PortHeld, Bound, InCallback, Waiting, moduleVars, socketVars, ClientTypes
    <2>2. QueueAnswers'
      <3>1. queue = <<>> /\ port = c
        BY EmptyQueue DEF Answerable, Bound, InCallback, Waiting
      <3>2. queue' = <<>> \/ queue' = <<SentSeq(c)>>
        BY <3>1
      <3>3. SentSeq(c)' = SentSeq(c)
        BY DEF SentSeq, ClientTypes
      <3>4. port' = c /\ pc'[c] \in Answerable
        BY <3>1 DEF Answerable, Waiting, ClientTypes
      <3> QED BY <3>2, <3>3, <3>4 DEF QueueAnswers
    <2>3. EmptyIfLost'
      <3>1. queue = <<>> /\ port = c
        BY EmptyQueue DEF Answerable, Bound, InCallback, Waiting
      <3>2. queue' = <<>> => lost'[c]
        BY <3>1 DEF ClientTypes
      <3>3. \A d \in Client \ {c} : pc'[d] \notin Answerable
        BY OneBound DEF Answerable, Bound, InCallback, Waiting, ClientTypes
      <3> QED BY <3>2, <3>3 DEF EmptyIfLost
    <2>4. Buffers(c)'
      BY LastPacketStep DEF Buffers, HoldsOwn, HeadersAppended, AllAppended, PastAppend, Junks, PackLoop, ClientTypes, moduleVars
    <2>5. ASSUME NEW d \in Client \ {c} PROVE Buffers(d)'
      BY BuffersStutter DEF moduleVars, ClientTypes
    <2> QED BY <2>1, <2>2, <2>3, <2>4, <2>5
  <1> QED
    BY <1>1, <1>2, <1>3, <1>4, <1>5, <1>6, <1>7, <1>8, <1>9, <1>10, <1>11, <1>12,
       <1>13, <1>14, <1>15, <1>16, <1>17, ExitSession DEF Next, User, Callback, Overrun

\* The session of NetlinkSession: the named invariant, for every run.
THEOREM SessionInvariant == Spec => [](TypeOK /\ SessionInv)
<1>1. Init => SessionInv
  BY ClientAssumption
  DEF Init, SessionInv, ModulePinned, PortHeld, QueueAnswers, EmptyIfLost,
      Answerable, Waiting, Bound, InCallback, Buffers, HoldsOwn, PackLoop
<1>2. TypeOK /\ SessionInv /\ [Next]_vars => SessionInv'
  BY SessionStep
<1> QED BY <1>1, <1>2, TypeInvariant, PTL DEF Spec

\* Two clients never work on the module's static buffers at once.
THEOREM OneSessionHolds == Spec => []OneSession
<1>1. SessionInv => OneSession
  BY DEF SessionInv, PortHeld, OneSession
<1> QED BY <1>1, SessionInvariant, PTL

\* The module's buffers never hold what an earlier session left behind.
THEOREM NoResidueHolds == Spec => []NoResidue
<1>1. SessionInv => NoResidue
  BY DEF SessionInv, Buffers, NoResidue
<1> QED BY <1>1, SessionInvariant, PTL

\* An answer never reaches a packet that it does not belong to.
THEOREM ReplyMatchesHolds == Spec => []ReplyMatches
<1>1. SessionInv => ReplyMatches
  BY DEF SessionInv, QueueAnswers, PortHeld, ReplyMatches, Answerable, Bound
<1> QED BY <1>1, SessionInvariant, PTL

\* A client waits with nothing to read only if an allocation failed.
THEOREM BlockedOnlyIfLostHolds == Spec => []BlockedOnlyIfLost
<1>1. SessionInv => BlockedOnlyIfLost
  BY DEF SessionInv, EmptyIfLost, BlockedOnlyIfLost, Answerable
<1> QED BY <1>1, SessionInvariant, PTL

-------------------------------------------------------------------------------
(* Lemmas on the mapping.                                                  *)

\* A client's part in the exchange depends on its own location and index only.
LEMMA MapFrame ==
  ASSUME NEW c \in Client, pc'[c] = pc[c], idx'[c] = idx[c]
  PROVE  Taken(c)' = Taken(c) /\ Asked(c)' = Asked(c)
BY DEF Taken, Asked, SentSeq

\* A step that leaves the socket and its holder's part alone is a stutter.
LEMMA MapStutter ==
  ASSUME TypeOK, UNCHANGED <<port, queue>>,
         \A c \in Client : port = c => Taken(c)' = Taken(c) /\ Asked(c)' = Asked(c)
  PROVE  UNCHANGED Abstract!vars
<1>1. CASE port = NoClient
  BY <1>1 DEF Abstract!vars
<1>2. CASE port # NoClient
  <2>1. port \in Client
    BY <1>2 DEF TypeOK, SocketTypes
  <2>2. PICK c \in Client : port = c
    BY <2>1
  <2>3. port' = c /\ Taken(c)' = Taken(c) /\ Asked(c)' = Asked(c)
    BY <2>2
  <2>4. Taken(port)' = Taken(port) /\ Asked(port)' = Asked(port)
    BY <2>2, <2>3
  <2> QED BY <2>4 DEF Abstract!vars
<1> QED BY <1>1, <1>2

\* While c holds the port the mapping is that of c.
LEMMA MapHolder ==
  ASSUME NEW c \in Client, port = c, port' = c
  PROVE  /\ (IF port = NoClient THEN 0 ELSE Taken(port)) = Taken(c)
         /\ (IF port = NoClient THEN 0 ELSE Asked(port)) = Asked(c)
         /\ (IF port = NoClient THEN 0 ELSE Taken(port))' = Taken(c)'
         /\ (IF port = NoClient THEN 0 ELSE Asked(port))' = Asked(c)'
BY ClientAssumption

\* The end of a process gives the port up, or concerns nobody.
LEMMA MapExit ==
  ASSUME TypeOK, NEW c \in Client, Exit(c)
  PROVE  [Abstract!Next]_(Abstract!vars)
<1> USE DEF Exit, Goto
<1>1. CASE port = c
  <2>1. port # NoClient /\ port' = NoClient /\ queue' = <<>>
    BY <1>1, ClientAssumption
  <2> QED BY <2>1 DEF Abstract!Next, Abstract!Drop
<1>2. CASE port # c
  <2>1. \A d \in Client : port = d => pc'[d] = pc[d] /\ idx'[d] = idx[d]
    BY <1>2 DEF TypeOK, ClientTypes
  <2>2. UNCHANGED <<port, queue>>
    BY <1>2 DEF socketVars
  <2> QED BY <2>1, <2>2, MapFrame, MapStutter
<1> QED BY <1>1, <1>2

\* A step of a client that leaves the socket and its own part alone.
LEMMA MapOwnStutter ==
  ASSUME TypeOK, NEW c \in Client, UNCHANGED <<port, queue>>,
         \A d \in Client \ {c} : pc'[d] = pc[d] /\ idx'[d] = idx[d],
         port = c => Taken(c)' = Taken(c) /\ Asked(c)' = Asked(c)
  PROVE  [Abstract!Next]_(Abstract!vars)
<1>1. ASSUME NEW d \in Client, port = d
      PROVE  Taken(d)' = Taken(d) /\ Asked(d)' = Asked(d)
  <2>1. CASE d = c
    BY <1>1, <2>1
  <2>2. CASE d # c
    BY <2>2, MapFrame
  <2> QED BY <2>1, <2>2
<1> QED BY <1>1, MapStutter

\* A sendto() of the holder that finds its last answer taken is a question,
\* and carries the next number.
LEMMA MapAsk ==
  ASSUME TypeOK, NEW c \in Client, port = c, UNCHANGED <<port, queue>>,
         Asked(c) = 0, Taken(c)' = Taken(c), Asked(c)' = Taken(c) + 1
  PROVE  [Abstract!Next]_(Abstract!vars)
<1>1. port # NoClient
  BY ClientAssumption
<1> QED BY <1>1, MapHolder DEF Abstract!Next, Abstract!Ask

-------------------------------------------------------------------------------
(* Each step.                                                              *)

\* Under the invariants every step of the clients, of recv_cb() and of the
\* module's load and unload is a step of the exchange or a stutter.
LEMMA MapStep ==
  ASSUME TypeOK, TypeOK', SessionInv, [Next]_vars
  PROVE  [Abstract!Next]_(Abstract!vars)
<1> USE DEF Goto
<1>t. /\ pc \in [Client -> Locations] /\ idx \in [Client -> Nat]
      /\ port \in Client \cup {NoClient}
  BY DEF TypeOK, ClientTypes, SocketTypes
<1>p. ASSUME NEW c \in Client PROVE pc[c] \in Bound <=> port = c
  BY DEF SessionInv, PortHeld
<1>e. ASSUME NEW c \in Client, Exit(c) PROVE [Abstract!Next]_(Abstract!vars)
  BY <1>e, MapExit
<1>1. CASE Insmod \/ Rmmod \/ UNCHANGED vars
  <2>1. UNCHANGED <<port, queue, pc, idx>>
    BY <1>1 DEF Insmod, Rmmod, vars, socketVars, clientVars
  <2> QED BY <2>1, MapFrame, MapStutter
<1>2. ASSUME NEW c \in Client, Start(c) \/ (Socket(c) /\ ~Exit(c))
      PROVE  [Abstract!Next]_(Abstract!vars)
  <2>1. pc[c] \notin Bound
    BY <1>2 DEF Start, Socket, Bound, InCallback, Waiting
  <2>2. UNCHANGED <<port, queue>>
    BY <1>2 DEF Start, Socket, socketVars
  <2>3. \A d \in Client \ {c} : pc'[d] = pc[d] /\ idx'[d] = idx[d]
    BY <1>2, <1>t DEF Start, Socket
  <2> QED BY <2>1, <2>2, <2>3, <1>p, MapOwnStutter
<1>3. ASSUME NEW c \in Client, Bind(c), ~Exit(c)
      PROVE  [Abstract!Next]_(Abstract!vars)
  <2>1. port = NoClient /\ port' = c /\ queue' = queue /\ pc'[c] = "argv"
    BY <1>3, <1>t DEF Bind
  <2>2. port' # NoClient
    BY <2>1, ClientAssumption
  <2>3. Taken(c)' = 0 /\ Asked(c)' = 0
    BY <2>1 DEF Taken, Asked, InCallback, Waiting
  <2>4. Taken(port)' = 0 /\ Asked(port)' = 0
    BY <2>1, <2>3
  <2> QED BY <2>1, <2>2, <2>4 DEF Abstract!Next, Abstract!Acquire
<1>4. ASSUME NEW c \in Client, PackEnvp(c), ~Exit(c)
      PROVE  [Abstract!Next]_(Abstract!vars)
  <2>1. pc[c] = "pack" /\ pc'[c] = "envp" /\ idx' = idx /\ UNCHANGED <<port, queue>>
    BY <1>4, <1>t DEF PackEnvp, socketVars
  <2>2. Taken(c)' = Taken(c) /\ Asked(c)' = Asked(c)
    BY <2>1 DEF Taken, Asked, InCallback, Waiting
  <2>3. \A d \in Client \ {c} : pc'[d] = pc[d] /\ idx'[d] = idx[d]
    BY <1>4, <1>t DEF PackEnvp
  <2> QED BY <2>1, <2>2, <2>3, MapOwnStutter
<1>5. ASSUME NEW c \in Client, SendArgv(c) PROVE [Abstract!Next]_(Abstract!vars)
  <2>1. pc[c] = "argv" /\ pc'[c] \in {"argvCopy", "argvWait"} /\ UNCHANGED <<port, queue>>
    BY <1>5, <1>t DEF SendArgv, Sendto, socketVars
  <2>2. port = c
    BY <2>1, <1>p DEF Bound
  <2>3. Asked(c) = 0 /\ Taken(c)' = Taken(c) /\ Asked(c)' = Taken(c) + 1
    BY <2>1 DEF Taken, Asked, SentSeq, InCallback, Waiting
  <2> QED BY <2>1, <2>2, <2>3, MapAsk
<1>6. ASSUME NEW c \in Client, SendEnvp(c) PROVE [Abstract!Next]_(Abstract!vars)
  <2>1. /\ pc[c] = "envp" /\ pc'[c] \in {"envpAppend", "envpWait"}
        /\ UNCHANGED <<port, queue, idx>>
    BY <1>6, <1>t DEF SendEnvp, Sendto, socketVars
  <2>2. port = c
    BY <2>1, <1>p DEF Bound
  <2>3. Asked(c) = 0 /\ Taken(c)' = Taken(c) /\ Asked(c)' = Taken(c) + 1
    BY <2>1, <1>t DEF Taken, Asked, SentSeq, InCallback, Waiting
  <2> QED BY <2>1, <2>2, <2>3, MapAsk
<1>7. ASSUME NEW c \in Client, ArgvCopy(c) \/ ArgvClear(c) \/ EnvpAppend(c) \/ EnvpParse(c)
      PROVE  [Abstract!Next]_(Abstract!vars)
  <2>1. UNCHANGED <<port, queue, idx>>
    BY <1>7 DEF ArgvCopy, ArgvClear, EnvpAppend, EnvpParse, socketVars
  <2>2. \/ pc[c] = "argvCopy" /\ pc'[c] = "argvReply"
        \/ pc[c] = "argvClear" /\ pc'[c] = "argvWait"
        \/ pc[c] = "envpAppend" /\ pc'[c] \in {"envpParse", "envpReply"}
        \/ pc[c] = "envpParse" /\ pc'[c] = "envpReply"
    BY <1>7, <1>t DEF ArgvCopy, ArgvClear, EnvpAppend, EnvpParse
  <2>3. Taken(c)' = Taken(c) /\ Asked(c)' = Asked(c)
    BY <2>1, <2>2 DEF Taken, Asked, SentSeq, InCallback, Waiting
  <2>4. \A d \in Client \ {c} : pc'[d] = pc[d] /\ idx'[d] = idx[d]
    BY <1>7, <1>t DEF ArgvCopy, ArgvClear, EnvpAppend, EnvpParse
  <2> QED BY <2>1, <2>3, <2>4, MapOwnStutter
<1>8. ASSUME NEW c \in Client, ArgvReply(c) \/ EnvpReply(c)
      PROVE  [Abstract!Next]_(Abstract!vars)
  <2>1. /\ UNCHANGED <<port, idx>>
        /\ queue' = Append(queue, SentSeq(c)) \/ queue' = queue
        /\ \/ pc[c] = "argvReply" /\ pc'[c] = "argvClear"
           \/ pc[c] = "envpReply" /\ pc'[c] = "envpWait"
    BY <1>8, <1>t DEF ArgvReply, EnvpReply, SendToUser
  <2>2. Taken(c)' = Taken(c) /\ Asked(c)' = Asked(c) /\ Asked(c) = SentSeq(c)
    BY <2>1 DEF Taken, Asked, SentSeq, InCallback, Waiting
  <2>3. \A d \in Client \ {c} : pc'[d] = pc[d] /\ idx'[d] = idx[d]
    BY <1>8, <1>t DEF ArgvReply, EnvpReply, SendToUser
  <2>4. queue = <<>> /\ port = c
    BY <2>1, EmptyQueue DEF SessionInv, Bound, InCallback, Answerable, Waiting
  <2>5. CASE queue' = queue
    BY <2>1, <2>2, <2>3, <2>5, MapOwnStutter
  <2>6. CASE queue' = Append(queue, SentSeq(c))
    <3>1. queue' = <<Asked(c)>>
      BY <2>2, <2>4, <2>6
    <3>2. Asked(c) # 0
      BY <2>1, <2>2, <1>t DEF SentSeq
    <3> QED BY <2>1, <2>2, <2>4, <3>1, <3>2, MapHolder DEF Abstract!Next, Abstract!Answer
  <2> QED BY <2>1, <2>5, <2>6
<1>9. ASSUME NEW c \in Client, Recv(c), ~Exit(c)
      PROVE  [Abstract!Next]_(Abstract!vars)
  <2>1. /\ pc[c] \in Waiting /\ port = c /\ port' = c /\ queue # <<>>
        /\ queue' = Tail(queue)
    BY <1>9 DEF Recv
  <2>2. queue = <<SentSeq(c)>> /\ queue' = <<>>
    <3>1. PICK d \in Client : port = d /\ queue = <<SentSeq(d)>>
      BY <2>1 DEF SessionInv, QueueAnswers
    <3>2. queue = <<SentSeq(c)>>
      BY <2>1, <3>1
    <3> QED BY <2>1, <3>2
  <2>3. Asked(c) = SentSeq(c)
    BY <2>1 DEF Asked
  <2>4. Taken(c)' = SentSeq(c) /\ Asked(c)' = 0
    <3> USE <1>t DEF Taken, Asked, SentSeq, InCallback, Waiting
    <3>1. CASE pc[c] = "argvWait"
      <4>1. pc'[c] = "pack" /\ idx' = idx
        BY <1>9, <3>1 DEF Recv
      <4>2. idx[c] = 0
        BY <3>1 DEF TypeOK, IndexInPack, PackLoop
      <4> QED BY <3>1, <4>1, <4>2
    <3>2. CASE pc[c] = "envpWait" /\ ~LastPacket(c)
      <4>1. pc'[c] = "envp" /\ idx'[c] = idx[c] + 1
        BY <1>9, <3>2 DEF Recv
      <4> QED BY <3>2, <4>1
    <3>3. CASE pc[c] = "envpWait" /\ LastPacket(c)
      <4>1. pc'[c] = "free" /\ idx' = idx
        BY <1>9, <3>3 DEF Recv
      <4> QED BY <3>3, <4>1
    <3> QED BY <2>1, <3>1, <3>2, <3>3
  <2> QED BY <2>1, <2>2, <2>3, <2>4, MapHolder DEF Abstract!Next, Abstract!Take
<1>10. ASSUME NEW c \in Client, Finish(c) \/ Die(c)
       PROVE  [Abstract!Next]_(Abstract!vars)
  BY <1>10, <1>e DEF Finish, Die
<1> QED
  BY <1>e, <1>1, <1>2, <1>3, <1>4, <1>5, <1>6, <1>7, <1>8, <1>9, <1>10
  DEF Next, Overrun, User, Callback

\* The clients and the module, whatever deaths, failed allocations and reloads
\* come between, keep the promise of the exchange: one owner of the port, one
\* question at a time, each answered at most once and to who asked.
THEOREM Refinement == Spec => ImplementsRequestReply
<1>1. Init => Abstract!Init
  BY DEF Init, Abstract!Init
<1>2. TypeOK /\ TypeOK' /\ SessionInv /\ [Next]_vars => [Abstract!Next]_(Abstract!vars)
  BY MapStep
<1> QED BY <1>1, <1>2, SessionInvariant, PTL DEF Spec, ImplementsRequestReply, Abstract!Spec

===============================================================================
