--------------------------- MODULE MCEvidenceChain ---------------------------
(***************************************************************************)
(* A chain of at most three links, the number of addresses.  The weights   *)
(* reach below 0 and above 1, and four of them make ties, majorities and   *)
(* exact halves possible; two severities tell a worse link from another.   *)
(***************************************************************************)
EXTENDS EvidenceChain

CONSTANTS a1, a2, a3

MCAddress == {a1, a2, a3}
MCGiven ==
  {<<w, v, IF w \in {-10, 60} THEN 3 ELSE 1>> : w \in {-10, 50, 60, 130}, v \in Verdict}
=============================================================================
