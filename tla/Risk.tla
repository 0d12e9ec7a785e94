-------------------------------- MODULE Risk --------------------------------
(***************************************************************************)
(* src/risk.c: the score of a finding, of a probe and of the whole audit,  *)
(* and the label of a score.                                               *)
(*                                                                         *)
(* A score from 0 to 10 is a float in the code and a number of thousandths *)
(* here: a weight in hundredths times a range in tenths is exact in them.  *)
(***************************************************************************)
EXTENDS Truthimatics, SequencesExt

ScoreMax == 10000
Score    == 0 .. ScoreMax

(* sev_base and sev_range; the range is per hundredth of weight.           *)
SevBase  == [s \in Severity |-> <<500, 2500, 5000, 7500, 9500>>[s + 1]]
SevRange == [s \in Severity |-> <<15, 20, 15, 10, 5>>[s + 1]]

Capped(x) == IF x > ScoreMax THEN ScoreMax ELSE x

FindingRisk(severity, weight) ==
  Capped(SevBase[severity] + Clamp(weight) * SevRange[severity])

(* The loop of zp_risk_probe and zp_risk_overall without its comparison.   *)
LastScore(scores) == IF scores = << >> THEN 0 ELSE Last(scores)

(* The worst of a sequence of scores, and 0 when there is none.            *)
Worst(scores) == Max({0} \cup Range(scores))

(* zp_risk_probe, for the links of a chain.                                *)
ProbeRisk(links) ==
  Worst([i \in 1 .. Len(links) |-> FindingRisk(links[i].severity, links[i].weight)])

(* What the second and each further probe at 5.0 or more add.              *)
Bonus(scores) ==
  LET high == Cardinality({i \in 1 .. Len(scores) : scores[i] >= 5000})
  IN IF high < 2 THEN 0 ELSE IF high > 6 THEN 1500 ELSE 300 * (high - 1)

OverallRisk(scores) == Capped(Worst(scores) + Bonus(scores))

(* zp_risk_label.                                                          *)
Label == {"CRITICAL", "HIGH", "MEDIUM", "LOW", "INFO"}

LabelOf(score) ==
  IF score >= 9000 THEN "CRITICAL"
  ELSE IF score >= 7000 THEN "HIGH"
  ELSE IF score >= 4000 THEN "MEDIUM"
  ELSE IF score >= 1000 THEN "LOW"
  ELSE "INFO"

(* zp_risk_label_to_int.                                                   *)
LabelToInt == [CRITICAL |-> 4, HIGH |-> 3, MEDIUM |-> 2, LOW |-> 1, INFO |-> 0]

(* (int)(score * 10 + 0.5)                                                 *)
Times10(score) == (score + 50) \div 100
=============================================================================
