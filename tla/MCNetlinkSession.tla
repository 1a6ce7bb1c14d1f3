--------------------------- MODULE MCNetlinkSession ---------------------------
(***************************************************************************)
(* NetlinkSession for TLC: two clients, payloads of three cells, and       *)
(* environments of up to MCMaxEnv cells, that is of none to three packets  *)
(* whose last is short or full.                                            *)
(***************************************************************************)
EXTENDS NetlinkRefinement

CONSTANTS c1, c2

MCClient == {c1, c2}

===============================================================================
