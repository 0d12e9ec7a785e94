---------------------------- MODULE Truthimatics ----------------------------
(***************************************************************************)
(* The vocabulary of the evidence engine (include/truthimatics.h): the     *)
(* verdicts and severities a link carries, the weights, and the rule that  *)
(* an evidence chain's verdict comes down to.                              *)
(*                                                                         *)
(* A weight is a float in the code.  Here it is an integer number of       *)
(* hundredths: every weight the probes use is a multiple of 0.01, and the  *)
(* engine only adds weights and compares them with one half of a sum.      *)
(***************************************************************************)
EXTENDS Integers, Sequences

Verdict  == {"DETERMINISTIC", "REJECT", "UNCERTAIN"}
Severity == 0 .. 4              \* INFO, LOW, MEDIUM, HIGH, CRITICAL
INFO     == 0

WeightOne == 100                \* the weight 1.0f
Weight    == 0 .. WeightOne

(* zp_evidence_add trusting the caller.                                    *)
Unclamped(w) == w

(* zp_evidence_add forces the caller's weight into [0, 1].                 *)
Clamp(w) == IF w < 0 THEN 0 ELSE IF w > WeightOne THEN WeightOne ELSE w

(* The sum of a sequence of numbers.                                       *)
Total(w) ==
  LET upTo[i \in 0 .. Len(w)] == IF i = 0 THEN 0 ELSE upTo[i - 1] + w[i]
  IN upTo[Len(w)]

NoWeight == [v \in Verdict |-> 0]

(***************************************************************************)
(* The verdict that weighs most.  REJECT wins its ties, DETERMINISTIC wins *)
(* a tie with UNCERTAIN, and a chain that weighs nothing is UNCERTAIN.     *)
(***************************************************************************)
Plurality(sum) ==
  LET det == sum["DETERMINISTIC"]
      rej == sum["REJECT"]
      unc == sum["UNCERTAIN"]
  IN IF det + rej + unc = 0         THEN "UNCERTAIN"
     ELSE IF rej >= det /\ rej >= unc THEN "REJECT"
     ELSE IF det >= unc               THEN "DETERMINISTIC"
     ELSE "UNCERTAIN"
=============================================================================
