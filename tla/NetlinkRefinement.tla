--------------------------- MODULE NetlinkRefinement ---------------------------
(***************************************************************************)
(* NetlinkSession implements RequestReply: the packets of the two          *)
(* send_to_kernel() calls of client.c are the questions, the answers of    *)
(* send_to_user() in lm_kernel.c the answers.                              *)
(***************************************************************************)
EXTENDS NetlinkSession

\* The packets of this run of c that were answered and read: the argv packet,
\* then those of the environment.
Taken(c) ==
  IF pc[c] \in InCallback \cup Waiting THEN SentSeq(c) - 1
  ELSE IF pc[c] = "argv" THEN 0
  ELSE IF pc[c] = "free" THEN 2 + idx[c]
  ELSE 1 + idx[c]

\* The packet c has sent and has no answer of.
Asked(c) == IF pc[c] \in InCallback \cup Waiting THEN SentSeq(c) ELSE 0

Abstract ==
  INSTANCE RequestReply WITH
    Process <- Client,
    NoProcess <- NoClient,
    owner <- port,
    taken <- IF port = NoClient THEN 0 ELSE Taken(port),
    asked <- IF port = NoClient THEN 0 ELSE Asked(port),
    answer <- queue

\* Every step of clients, callbacks, deaths, insmod and rmmod is a step of the
\* abstract exchange or none of its business.
ImplementsRequestReply == Abstract!Spec

===============================================================================
