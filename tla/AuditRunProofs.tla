--------------------------- MODULE AuditRunProofs ---------------------------
(***************************************************************************)
(* What TLC finds of AuditRun for three probes, proved for any registry,   *)
(* whatever the probes leave behind and whatever the limits: the types,    *)
(* the selection, the audit context, the risk, the paths, the exit status. *)
(* First the lemmas about the scores of src/risk.c: their range, and how   *)
(* the ones rest on the others.                                            *)
(***************************************************************************)
EXTENDS AuditRun, Arithmetic, FiniteSetTheorems, SequenceTheorems

(* Where the scores of each severity start.                                *)
LEMMA FindingRiskBounds ==
  ASSUME NEW s \in Severity, NEW w \in Weight
  PROVE  /\ FindingRisk(s, w) \in Score /\ FindingRisk(s, w) >= 500
         /\ s # INFO => FindingRisk(s, w) >= 2500
         /\ FindingRisk(s, w) = SevBase[s] + w * SevRange[s]
<1>1. Clamp(w) = w /\ w \in 0 .. 100
  BY DEF Clamp, Weight, WeightOne
<1>2. CASE s = 0
  <2>1. SevBase[s] = 500 /\ SevRange[s] = 15
    BY <1>2 DEF SevBase, SevRange, Severity
  <2>2. QED
    BY <1>1, <1>2, <2>1 DEF FindingRisk, Capped, Score, ScoreMax, INFO
<1>3. CASE s = 1
  <2>1. SevBase[s] = 2500 /\ SevRange[s] = 20
    BY <1>3 DEF SevBase, SevRange, Severity
  <2>2. QED
    BY <1>1, <2>1 DEF FindingRisk, Capped, Score, ScoreMax
<1>4. CASE s = 2
  <2>1. SevBase[s] = 5000 /\ SevRange[s] = 15
    BY <1>4 DEF SevBase, SevRange, Severity
  <2>2. QED
    BY <1>1, <2>1 DEF FindingRisk, Capped, Score, ScoreMax
<1>5. CASE s = 3
  <2>1. SevBase[s] = 7500 /\ SevRange[s] = 10
    BY <1>5 DEF SevBase, SevRange, Severity
  <2>2. QED
    BY <1>1, <2>1 DEF FindingRisk, Capped, Score, ScoreMax
<1>6. CASE s = 4
  <2>1. SevBase[s] = 9500 /\ SevRange[s] = 5
    BY <1>6 DEF SevBase, SevRange, Severity
  <2>2. QED
    BY <1>1, <2>1 DEF FindingRisk, Capped, Score, ScoreMax
<1>7. QED
  BY <1>2, <1>3, <1>4, <1>5, <1>6 DEF Severity

(* No grade that the probes give has a score that is rounded down.         *)
LEMMA GradesRoundUp ==
  ASSUME NEW s \in Severity, NEW w \in Weight, w \in GradeWeights[s]
  PROVE  100 * Times10(FindingRisk(s, w)) >= FindingRisk(s, w)
<1>1. FindingRisk(s, w) = SevBase[s] + w * SevRange[s]
  BY FindingRiskBounds
<1>2. CASE s = 0
  <2>1. SevBase[s] = 500 /\ SevRange[s] = 15 /\ w = 10
    BY <1>2 DEF SevBase, SevRange, GradeWeights, Severity
  <2>2. QED
    BY <1>1, <2>1 DEF Times10
<1>3. CASE s = 1
  <2>1. SevBase[s] = 2500 /\ SevRange[s] = 20 /\ w \in {20, 30, 40, 50}
    BY <1>3 DEF SevBase, SevRange, GradeWeights, Severity
  <2>2. QED
    BY <1>1, <2>1 DEF Times10
<1>4. CASE s = 2
  <2>1. SevBase[s] = 5000 /\ SevRange[s] = 15 /\ w \in {50, 60, 70}
    BY <1>4 DEF SevBase, SevRange, GradeWeights, Severity
  <2>2. QED
    BY <1>1, <2>1 DEF Times10
<1>5. CASE s = 3
  <2>1. SevBase[s] = 7500 /\ SevRange[s] = 10 /\ w \in {60, 70, 75, 80, 85, 90}
    BY <1>5 DEF SevBase, SevRange, GradeWeights, Severity
  <2>2. QED
    BY <1>1, <2>1 DEF Times10
<1>6. CASE s = 4
  <2>1. SevBase[s] = 9500 /\ SevRange[s] = 5 /\ w \in {90, 95, 98, 99}
    BY <1>6 DEF SevBase, SevRange, GradeWeights, Severity
  <2>2. QED
    BY <1>1, <2>1 DEF Times10
<1>7. QED
  BY <1>2, <1>3, <1>4, <1>5, <1>6 DEF Severity

(* The worst score is one of them or 0, and none is above it.              *)
LEMMA WorstBounds ==
  ASSUME NEW n \in Nat, NEW scores \in [1 .. n -> Score]
  PROVE  /\ Worst(scores) \in Score
         /\ \A i \in 1 .. n : scores[i] <= Worst(scores)
         /\ (\A i \in 1 .. n : scores[i] = 0) => Worst(scores) = 0
         /\ Worst(scores) = 0 \/ \E i \in 1 .. n : Worst(scores) = scores[i]
<1> DEFINE S == {0} \cup Range(scores)
<1>1. Range(scores) = {scores[i] : i \in 1 .. n}
  BY DEF Range
<1>2. S \in SUBSET (0 .. ScoreMax) /\ S # {} /\ ScoreMax \in Nat
  <2>1. \A i \in 1 .. n : scores[i] \in Score
    OBVIOUS
  <2>2. 0 \in Score /\ ScoreMax \in Nat
    BY DEF Score, ScoreMax
  <2>3. S \in SUBSET Score
    BY <1>1, <2>1, <2>2
  <2>4. QED
    BY <2>2, <2>3 DEF Score
<1>3. Max(S) \in S /\ \A x \in S : x <= Max(S)
  <2> HIDE DEF S
  <2>1. QED
    BY <1>2, GreatestOfBounded
<1>4. Worst(scores) = Max(S)
  BY DEF Worst
<1>7. Max(S) = 0 \/ \E i \in 1 .. n : Max(S) = scores[i]
  BY <1>1, <1>3
<1> HIDE DEF S
<1>5. Max(S) \in Score /\ \A i \in 1 .. n : scores[i] <= Max(S)
  <2>1. \A i \in 1 .. n : scores[i] \in S
    BY <1>1 DEF S
  <2>2. QED
    BY <1>2, <1>3, <2>1 DEF Score
<1>6. ASSUME \A i \in 1 .. n : scores[i] = 0 PROVE Max(S) = 0
  <2>1. \A x \in S : x = 0
    BY <1>1, <1>6 DEF S
  <2>2. QED
    BY <1>3, <2>1
<1>8. QED
  BY <1>4, <1>5, <1>6, <1>7

(* The score of a probe is at least that of each of its findings, and 0    *)
(* when it has none.                                                       *)
LEMMA ProbeRiskBounds ==
  ASSUME NEW links, Len(links) \in Nat,
         \A k \in 1 .. Len(links) : links[k].severity \in Severity /\ links[k].weight \in Weight
  PROVE  /\ ProbeRisk(links) \in Score
         /\ \A k \in 1 .. Len(links) :
              FindingRisk(links[k].severity, links[k].weight) <= ProbeRisk(links)
         /\ Len(links) > 0 => ProbeRisk(links) >= 500
         /\ Len(links) = 0 => ProbeRisk(links) = 0
         /\ \/ ProbeRisk(links) = 0
            \/ \E k \in 1 .. Len(links) :
                 ProbeRisk(links) = FindingRisk(links[k].severity, links[k].weight)
<1> DEFINE n == Len(links)
           scores == [i \in 1 .. n |-> FindingRisk(links[i].severity, links[i].weight)]
<1>1. \A i \in 1 .. n : /\ FindingRisk(links[i].severity, links[i].weight) \in Score
                       /\ FindingRisk(links[i].severity, links[i].weight) >= 500
  BY FindingRiskBounds
<1>2. scores \in [1 .. n -> Score] /\ \A i \in 1 .. n : scores[i] >= 500
  BY <1>1
<1>3. ProbeRisk(links) = Worst(scores)
  BY DEF ProbeRisk
<1>4. \A i \in 1 .. n : scores[i] = FindingRisk(links[i].severity, links[i].weight)
  OBVIOUS
<1> HIDE DEF scores, n
<1>5. n \in Nat
  BY DEF n
<1>6. /\ Worst(scores) \in Score
      /\ \A i \in 1 .. n : scores[i] <= Worst(scores)
      /\ (\A i \in 1 .. n : scores[i] = 0) => Worst(scores) = 0
      /\ Worst(scores) = 0 \/ \E i \in 1 .. n : Worst(scores) = scores[i]
  BY <1>2, <1>5, WorstBounds
<1>7. ASSUME n > 0 PROVE Worst(scores) >= 500
  <2>1. 1 \in 1 .. n
    BY <1>5, <1>7
  <2>2. scores[1] \in Int /\ scores[1] >= 500 /\ scores[1] <= Worst(scores)
    BY <1>2, <1>6, <2>1 DEF Score
  <2>3. QED
    BY <1>6, <2>2 DEF Score
<1>8. ASSUME n = 0 PROVE Worst(scores) = 0
  <2>1. 1 .. n = {}
    BY <1>8
  <2>2. QED
    BY <1>6, <2>1
<1>9. QED
  BY <1>3, <1>4, <1>6, <1>7, <1>8 DEF n

(* The bonus for several high scores is at most 1.5, and none for none.    *)
LEMMA BonusBounds ==
  ASSUME NEW scores, NEW n \in Nat, Len(scores) = n
  PROVE  /\ 0 <= Bonus(scores) /\ Bonus(scores) <= 1500 /\ Bonus(scores) \in Int
         /\ (\A i \in 1 .. n : scores[i] = 0) => Bonus(scores) = 0
<1> DEFINE H == {i \in 1 .. n : scores[i] >= 5000}
           high == Cardinality(H)
<1>1. IsFiniteSet(1 .. n) /\ H \in SUBSET (1 .. n)
  BY FS_Interval
<1>2. high \in Nat
  BY <1>1, FS_Subset, FS_CardinalityType
<1>3. Bonus(scores) = IF high < 2 THEN 0 ELSE IF high > 6 THEN 1500 ELSE 300 * (high - 1)
  BY DEF Bonus
<1>4. ASSUME \A i \in 1 .. n : scores[i] = 0 PROVE high = 0
  <2>1. H = {}
    BY <1>4
  <2>2. QED
    BY SMTT(30), <2>1, FS_EmptySet
<1> HIDE DEF high
<1>5. /\ 0 <= Bonus(scores) /\ Bonus(scores) <= 1500 /\ Bonus(scores) \in Int
      /\ high = 0 => Bonus(scores) = 0
  BY <1>2, <1>3
<1>6. ASSUME \A i \in 1 .. n : scores[i] = 0 PROVE Bonus(scores) = 0
  BY <1>4, <1>5, <1>6
<1>7. QED
  BY <1>5, <1>6

(* The overall score is a score, and at least that of each probe.          *)
LEMMA OverallRiskBounds ==
  ASSUME NEW n \in Nat, NEW scores \in [1 .. n -> Score], Len(scores) = n
  PROVE  /\ OverallRisk(scores) \in Score
         /\ Worst(scores) <= OverallRisk(scores)
         /\ \A i \in 1 .. n : scores[i] <= OverallRisk(scores)
         /\ (\A i \in 1 .. n : scores[i] = 0) => OverallRisk(scores) = 0
<1>1. /\ Worst(scores) \in Score
      /\ \A i \in 1 .. n : scores[i] <= Worst(scores)
      /\ (\A i \in 1 .. n : scores[i] = 0) => Worst(scores) = 0
  BY WorstBounds
<1>2. /\ 0 <= Bonus(scores) /\ Bonus(scores) <= 1500 /\ Bonus(scores) \in Int
      /\ (\A i \in 1 .. n : scores[i] = 0) => Bonus(scores) = 0
  BY BonusBounds
<1>3. /\ OverallRisk(scores) \in Score
      /\ Worst(scores) <= OverallRisk(scores)
      /\ Worst(scores) = 0 /\ Bonus(scores) = 0 => OverallRisk(scores) = 0
  <2> DEFINE w == Worst(scores)
             b == Bonus(scores)
  <2>1. OverallRisk(scores) = IF w + b > 10000 THEN 10000 ELSE w + b
    BY DEF OverallRisk, Capped, ScoreMax
  <2>2. w \in 0 .. 10000
    BY SMTT(30), <1>1 DEF Score, ScoreMax
  <2>3. 0 <= b /\ b <= 1500 /\ b \in Int
    BY <1>2
  <2> HIDE DEF w, b
  <2>4. /\ OverallRisk(scores) \in 0 .. 10000
        /\ w <= OverallRisk(scores)
        /\ w = 0 /\ b = 0 => OverallRisk(scores) = 0
    BY SMTT(30), <2>1, <2>2, <2>3
  <2>5. QED
    BY <2>4 DEF w, b, Score, ScoreMax
<1>4. ASSUME NEW i \in 1 .. n PROVE scores[i] <= OverallRisk(scores)
  <2>1. scores[i] \in Int /\ scores[i] <= Worst(scores)
    BY <1>1 DEF Score
  <2>2. QED
    BY <1>1, <1>3, <2>1 DEF Score
<1>5. QED
  BY <1>1, <1>2, <1>3, <1>4

(* A score has a label, higher scores no lower ones.                       *)
LEMMA LabelType ==
  ASSUME NEW x \in Score
  PROVE  /\ LabelOf(x) \in Label
         /\ x >= 1000 => LabelOf(x) # "INFO"
  BY DEF LabelOf, Label, Score, ScoreMax

LEMMA LabelMonotone ==
  ASSUME NEW x \in Score, NEW y \in Score, x <= y
  PROVE  LabelToInt[LabelOf(x)] <= LabelToInt[LabelOf(y)]
  BY DEF LabelOf, LabelToInt, Score, ScoreMax

(* Rounding keeps the order.                                               *)
LEMMA Times10Bounds ==
  ASSUME NEW x \in Score
  PROVE  /\ Times10(x) \in 0 .. 100
         /\ Times10(x) \in Int /\ 0 <= Times10(x) /\ Times10(x) <= 100
         /\ x >= 500 => Times10(x) > 0
         /\ x = 0 => Times10(x) = 0
  BY DEF Times10, Score, ScoreMax

LEMMA Times10Monotone ==
  ASSUME NEW x \in Score, NEW y \in Score, x <= y
  PROVE  Times10(x) <= Times10(y)
  BY DEF Times10, Score, ScoreMax

-----------------------------------------------------------------------------

Link == {l \in [weight : Weight, verdict : Verdict, severity : Severity,
                 text : SUBSET Keyword, target : SUBSET Keyword] :
           l.weight \in GradeWeights[l.severity]}

Record == [name : Registered, verdict : Verdict, count : Nat, risk : Score,
           findings : Seq(Link)]

-----------------------------------------------------------------------------

(* TypeOK, and what it leaves open.                                        *)
Typed ==
  /\ TypeOK
  /\ chains \in Seq(Seq(Link))
  /\ worst # NoExit

(* What has not happened yet.                                              *)
NothingYet ==
  /\ pc = "parse" => looked = 0 /\ probes = << >>
  /\ pc \in {"parse", "init"} => ran = 0 /\ worst = EXIT_OK /\ failed = {}
  /\ pc \in {"parse", "init", "probe", "json"} => json = NoDocument
  /\ pc \in {"parse", "init", "probe", "json", "html"} => html = NoDocument
  /\ pc = "init" \/ Started => args.json \/ args.html

(* The probes selected among the entries looked at.                        *)
SelectedSoFar ==
  pc = "init" \/ Started =>
    /\ \A k \in 1 .. looked :
         Selected(Registry[k]) => \E i \in 1 .. Len(probes) : probes[i] = Registry[k]
    /\ \A i \in 1 .. Len(probes) :
         \E k \in 1 .. looked : Registry[k] = probes[i] /\ Selected(Registry[k])
    /\ \A i, j \in 1 .. Len(probes) : i < j =>
         \E k, m \in 1 .. looked :
           k < m /\ Registry[k] = probes[i] /\ Registry[m] = probes[j]
    /\ Len(probes) <= looked
    /\ Started => looked = Len(Registry)

(* The audit context, with the types its records have while it exists.     *)
Mirrored ==
  Started =>
    /\ audit \in [records : Seq(Record), capacity : Nat \ {0}]
    /\ ran <= Len(probes)
    /\ AuditMirrorsChains

(* What the status of the probe loop says of the probes that have run.     *)
Judged ==
  Started =>
    /\ worst = EXIT_OK => failed = {}
    /\ worst = EXIT_PROBE => failed # {}
    /\ worst = EXIT_VULN =>
         \E i \in 1 .. ran : Len(chains[i]) > 0 /\ verdicts[i] = "DETERMINISTIC"

(* What the risk and the documents are computed from.                      *)
Scored ==
  pc \in {"json", "html", "finish"} =>
    risk = [x10 |-> Highest(Scores), label |-> LabelOf(OverallRisk(Scores))]

PrintedSoFar ==
  /\ pc \in {"html", "finish"} => json = IF args.json THEN JsonDocument ELSE NoDocument
  /\ pc = "finish" => html = IF args.html THEN HtmlDocument ELSE NoDocument

(***************************************************************************)
(* The inductive invariant.  The last three are about what was printed and *)
(* released: they are established when a document is written or the run    *)
(* ends, from the ones before.                                             *)
(***************************************************************************)
IInv ==
  /\ Typed /\ NothingYet /\ SelectedSoFar /\ Mirrored /\ Judged /\ Scored
  /\ PrintedSoFar
  /\ RiskCovers /\ PathsBorneOut /\ ExitExplained

-----------------------------------------------------------------------------

(* A probe leaves links behind.                                            *)
LEMMA OutcomeType ==
  ASSUME NEW name \in Registered, NEW o \in Outcomes[name]
  PROVE  o.links \in Seq(Link)
<1> DEFINE ALink == [weight : Weight, verdict : Verdict, severity : Severity,
                   text : SUBSET Keyword, target : SUBSET Keyword]
<1>1. /\ o.links \in Seq(ALink)
      /\ \A k \in 1 .. Len(o.links) : o.links[k].weight \in GradeWeights[o.links[k].severity]
  BY OutcomesAssumption DEF OutcomesAssumption
<1>2. Link = {l \in ALink : l.weight \in GradeWeights[l.severity]}
  BY DEF Link
<1> HIDE DEF ALink
<1>3. \A k \in 1 .. Len(o.links) : o.links[k] \in Link
  BY <1>1, <1>2
<1>4. QED
  BY <1>1, <1>3

(* An entry of the registry is a registered name.                          *)
LEMMA RegistryType ==
  /\ Len(Registry) \in Nat /\ Len(Registry) <= MaxProbes /\ MaxProbes \in Nat
  /\ \A k \in 1 .. Len(Registry) : Registry[k] \in Registered
  BY RegistryAssumption DEF RegistryAssumption, Registered

(* A verdict is one of the three, and only links make it DETERMINISTIC.    *)
LEMMA VerdictType ==
  ASSUME NEW links \in Seq(Link)
  PROVE  /\ VerdictOf(links) \in Verdict
         /\ VerdictOf(links) = "DETERMINISTIC" => Len(links) > 0
<1>1. links # << >> => Len(links) > 0
  OBVIOUS
<1>2. Plurality(Sums(links)) \in Verdict
  BY DEF Plurality, Verdict
<1>3. VerdictOf(links) \in Verdict
  BY <1>2 DEF VerdictOf, Verdict
<1>4. links = << >> => VerdictOf(links) # "DETERMINISTIC"
  BY DEF VerdictOf
<1>5. QED
  BY <1>1, <1>3, <1>4

(* What the audit context keeps of a chain is its beginning, all of it or  *)
(* as much as there is room for.                                           *)
LEMMA KeptBounds ==
  ASSUME NEW links \in Seq(Link)
  PROVE  /\ Kept(links) \in Seq(Link)
         /\ IsPrefix(Kept(links), links)
         /\ Len(Kept(links)) = Len(links) \/ Len(Kept(links)) = MaxFindings
<1> DEFINE m == MaxFindings
           s == SubSeq(links, 1, m)
<1>1. m \in Nat /\ m >= 1 /\ Len(links) \in Nat
  BY CapacityAssumption DEF CapacityAssumption
<1>2. CASE Len(links) <= m
  <2>1. Kept(links) = links
    BY <1>2 DEF Kept
  <2>2. QED
    BY <2>1 DEF IsPrefix
<1>3. CASE Len(links) > m
  <2>1. Kept(links) = s
    BY <1>1, <1>3 DEF Kept
  <2> HIDE DEF m
  <2>2. s \in Seq(Link) /\ Len(s) = m
    BY <1>1, <1>3
  <2>3. SubSeq(s, 1, m) = s
    BY <1>1, <2>2, SubSeqFull
  <2>4. QED
    BY <1>1, <1>3, <2>1, <2>2, <2>3 DEF IsPrefix, m
<1>4. QED
  BY <1>1, <1>2, <1>3

(***************************************************************************)
(* The scores of the chains: each is that of a probe, at least that of its *)
(* findings, and what is computed of them all covers them.                 *)
(***************************************************************************)
LEMMA ChainRisk ==
  ASSUME NEW links \in Seq(Link)
  PROVE  /\ ProbeRisk(links) \in Score
         /\ Len(links) \in Nat
         /\ \A k \in 1 .. Len(links) :
              /\ links[k].severity \in Severity /\ links[k].weight \in Weight
              /\ FindingRisk(links[k].severity, links[k].weight) \in Score
              /\ FindingRisk(links[k].severity, links[k].weight) <= ProbeRisk(links)
              /\ links[k].severity # INFO => ProbeRisk(links) >= 2500
         /\ Len(links) > 0 => ProbeRisk(links) >= 500
         /\ Len(links) = 0 => ProbeRisk(links) = 0
         /\ 100 * Times10(ProbeRisk(links)) >= ProbeRisk(links)
<1>1. \A k \in 1 .. Len(links) :
        /\ links[k].severity \in Severity /\ links[k].weight \in Weight
        /\ links[k].weight \in GradeWeights[links[k].severity]
  <2>1. ASSUME NEW k \in 1 .. Len(links) PROVE links[k] \in Link
    OBVIOUS
  <2>2. QED
    BY <2>1 DEF Link
<1>2. Len(links) \in Nat
  OBVIOUS
<1>3. /\ ProbeRisk(links) \in Score
      /\ \A k \in 1 .. Len(links) :
           FindingRisk(links[k].severity, links[k].weight) <= ProbeRisk(links)
      /\ Len(links) > 0 => ProbeRisk(links) >= 500
      /\ Len(links) = 0 => ProbeRisk(links) = 0
      /\ \/ ProbeRisk(links) = 0
         \/ \E k \in 1 .. Len(links) :
              ProbeRisk(links) = FindingRisk(links[k].severity, links[k].weight)
  BY <1>1, <1>2, ProbeRiskBounds
<1>4. ASSUME NEW k \in 1 .. Len(links)
      PROVE  /\ FindingRisk(links[k].severity, links[k].weight) \in Score
             /\ links[k].severity # INFO => ProbeRisk(links) >= 2500
  <2> DEFINE f == FindingRisk(links[k].severity, links[k].weight)
             r == ProbeRisk(links)
  <2>1. f \in Score /\ (links[k].severity # INFO => f >= 2500)
    BY <1>1, FindingRiskBounds
  <2>2. f <= r /\ r \in Score
    BY <1>3
  <2> HIDE DEF f, r
  <2>3. f \in Int /\ r \in Int
    BY <2>1, <2>2 DEF Score
  <2>4. links[k].severity # INFO => r >= 2500
    BY <2>1, <2>2, <2>3
  <2>5. QED
    BY <2>1, <2>4 DEF f, r
<1>5. 100 * Times10(ProbeRisk(links)) >= ProbeRisk(links)
  <2>1. CASE ProbeRisk(links) = 0
    BY <2>1 DEF Times10
  <2>2. CASE \E k \in 1 .. Len(links) :
               ProbeRisk(links) = FindingRisk(links[k].severity, links[k].weight)
    BY <1>1, <2>2, GradesRoundUp
  <2>3. QED
    BY <1>3, <2>1, <2>2
<1>6. QED
  BY <1>1, <1>2, <1>3, <1>4, <1>5

(***************************************************************************)
(* What is computed from the scores covers every probe, and is nothing     *)
(* when no probe found anything.                                           *)
(***************************************************************************)
LEMMA AuditRisk ==
  ASSUME Typed
  PROVE  /\ OverallRisk(Scores) \in Score
         /\ Highest(Scores) = Times10(OverallRisk(Scores))
         /\ \A i \in 1 .. Len(probes) :
              chains[i] \in Seq(Link) /\ ProbeRisk(chains[i]) <= OverallRisk(Scores)
         /\ (\A i \in 1 .. Len(probes) : Len(chains[i]) = 0) => OverallRisk(Scores) = 0
<1> DEFINE n == Len(probes)
           scores == Scores
<1>1. n \in Nat /\ \A i \in 1 .. n : chains[i] \in Seq(Link)
  <2>1. Len(chains) = n /\ chains \in Seq(Seq(Link)) /\ probes \in Seq(Registered)
    BY DEF Typed, TypeOK
  <2>2. QED
    BY <2>1
<1>2. \A i \in 1 .. n : ProbeRisk(chains[i]) \in Score
  BY <1>1, ChainRisk
<1>3. scores = [i \in 1 .. n |-> ProbeRisk(chains[i])]
  BY DEF Scores
<1> HIDE DEF n, scores
<1>4. scores \in [1 .. n -> Score] /\ \A i \in 1 .. n : scores[i] = ProbeRisk(chains[i])
  BY <1>2, <1>3
<1>5. Len(scores) = n
  BY <1>1, <1>3
<1>6. /\ OverallRisk(scores) \in Score
      /\ Worst(scores) <= OverallRisk(scores)
      /\ \A i \in 1 .. n : scores[i] <= OverallRisk(scores)
      /\ (\A i \in 1 .. n : scores[i] = 0) => OverallRisk(scores) = 0
  BY <1>1, <1>4, <1>5, OverallRiskBounds
<1>7. Worst(scores) \in Score
  BY <1>1, <1>4, WorstBounds
<1>8. Highest(scores) = Times10(OverallRisk(scores))
  <2>1. Times10(Worst(scores)) <= Times10(OverallRisk(scores))
    BY <1>6, <1>7, Times10Monotone
  <2>2. Times10(Worst(scores)) \in 0 .. 100 /\ Times10(OverallRisk(scores)) \in 0 .. 100
    BY <1>6, <1>7, Times10Bounds
  <2>3. QED
    BY <2>1, <2>2 DEF Highest
<1>9. ASSUME \A i \in 1 .. n : Len(chains[i]) = 0 PROVE OverallRisk(scores) = 0
  <2>1. \A i \in 1 .. n : scores[i] = 0
    BY <1>1, <1>4, <1>9, ChainRisk
  <2>2. QED
    BY <1>6, <2>1
<1>10. QED
  BY <1>1, <1>4, <1>6, <1>8, <1>9 DEF n, scores

-----------------------------------------------------------------------------

(* The invariant holds at the start.                                       *)
LEMMA InitIInv == Init => IInv
<1> SUFFICES ASSUME Init PROVE IInv
  OBVIOUS
<1>0. /\ pc = "parse" /\ looked = 0 /\ probes = << >> /\ chains = << >> /\ verdicts = << >>
      /\ ran = 0 /\ worst = EXIT_OK /\ exit = NoExit /\ failed = {}
  BY Zenon DEF Init
<1>1. TypeOK
  <2> DEFINE none == << >>
             Names == Registered \cup Unknown
  <2>1. none \in Seq(Names) /\ Len(none) = 0
    OBVIOUS
  <2>2. /\ args = [runAll |-> TRUE, probes |-> none, json |-> FALSE, html |-> FALSE,
                   info |-> FALSE]
    BY DEF Init, DefaultArgs
  <2> HIDE DEF none, Names
  <2>3. args \in [runAll : BOOLEAN, probes : Seq(Names), json : BOOLEAN,
                  html : BOOLEAN, info : BOOLEAN]
    BY <2>1, <2>2
  <2>4. Len(args.probes) <= MaxProbes
    <3>1. args.probes = none
      BY <2>2
    <3>2. QED
      BY <2>1, <3>1, RegistryType
  <2>5. /\ probes \in Seq(Registered) /\ Len(probes) <= MaxProbes
        /\ Len(chains) = Len(probes) /\ verdicts \in Seq(Verdict)
        /\ Len(verdicts) = Len(probes)
    BY <1>0, RegistryType
  <2>6. risk.x10 = 0 /\ risk.label = ""
    BY DEF Init
  <2>7. /\ pc = "parse"
        /\ looked \in 0 .. Len(Registry) /\ ran \in 0 .. MaxProbes
        /\ {worst, exit} \subseteq {NoExit, EXIT_OK, EXIT_PROBE, EXIT_VULN}
        /\ failed \subseteq Registered
        /\ exit # NoExit <=> pc = "exited"
    BY <1>0, RegistryType
  <2>8. QED
    <3> 0 \in 0 .. 100
      OBVIOUS
    <3>1. risk.x10 \in 0 .. 100 /\ risk.label \in Label \cup {""}
      BY <2>6, Zenon
    <3>2. QED
      BY <2>3, <2>4, <2>5, <2>7, <3>1, <1>0, Zenon DEF TypeOK, Names
<1>2. Typed
  <2>1. chains \in Seq(Seq(Link))
    BY <1>0
  <2>2. worst # NoExit
    BY <1>0 DEF NoExit, EXIT_OK
  <2>3. QED
    BY <1>1, <2>1, <2>2 DEF Typed
<1>3. NothingYet /\ SelectedSoFar /\ Mirrored /\ Judged /\ Scored /\ PrintedSoFar
  BY DEF Init, NothingYet, SelectedSoFar, Mirrored, Judged, Scored, PrintedSoFar, Started
<1>4. RiskCovers /\ PathsBorneOut /\ ExitExplained
  <2>1. Printed = {} /\ exit = NoExit
    BY DEF Init, Printed
  <2>2. json.paths = {}
    BY DEF Init, NoDocument
  <2>3. RiskCovers /\ PathsBorneOut
    BY <2>1, <2>2 DEF RiskCovers, PathsBorneOut
  <2>4. ExitExplained
    BY <2>1 DEF ExitExplained, NoExit, EXIT_OK, EXIT_PROBE, EXIT_VULN
  <2>5. QED
    BY <2>3, <2>4
<1>5. QED
  BY <1>2, <1>3, <1>4 DEF IInv

-----------------------------------------------------------------------------

Args == [runAll : BOOLEAN, probes : Seq(Registered \cup Unknown),
         json : BOOLEAN, html : BOOLEAN, info : BOOLEAN]

ArgsTyped == args \in Args /\ Len(args.probes) <= MaxProbes

(* The options keep their types.                                           *)
LEMMA ArgsStep == ArgsTyped /\ [Next]_vars => ArgsTyped'
<1> SUFFICES ASSUME ArgsTyped, [Next]_vars PROVE ArgsTyped'
  OBVIOUS
<1>1. CASE ParseOption
  <2>1. CASE \E name \in Registered \cup Unknown :
               /\ Len(args.probes) < MaxProbes
               /\ args' = [args EXCEPT !.probes = Append(@, name), !.runAll = FALSE]
    <3>1. PICK name \in Registered \cup Unknown :
            /\ Len(args.probes) < MaxProbes
            /\ args' = [args EXCEPT !.probes = Append(@, name), !.runAll = FALSE]
      BY <2>1
    <3> DEFINE Names == Registered \cup Unknown
               named == Append(args.probes, name)
    <3>2. args.probes \in Seq(Names)
      BY DEF ArgsTyped, Args
    <3>3. named \in Seq(Names) /\ Len(named) <= MaxProbes
      <4> HIDE DEF Names
      <4>1. Len(args.probes) \in Nat /\ MaxProbes \in Nat
        BY <3>2, RegistryType
      <4>2. name \in Names
        BY DEF Names
      <4>3. QED
        BY <3>1, <3>2, <4>1, <4>2
    <3>4. args' = [args EXCEPT !.probes = named, !.runAll = FALSE]
      BY <3>1
    <3> HIDE DEF named, Names
    <3>5. args' \in [runAll : BOOLEAN, probes : Seq(Names), json : BOOLEAN,
                     html : BOOLEAN, info : BOOLEAN] /\ args'.probes = named
      BY <3>3, <3>4 DEF ArgsTyped, Args, Names
    <3>6. QED
      BY <3>3, <3>5 DEF ArgsTyped, Args, Names
  <2>2. CASE \/ args' = [args EXCEPT !.runAll = TRUE]
             \/ args' = [args EXCEPT !.json = TRUE]
             \/ args' = [args EXCEPT !.html = TRUE]
             \/ args' = [args EXCEPT !.info = TRUE]
    BY <2>2 DEF ArgsTyped, Args
  <2>3. QED
    BY <1>1, <2>1, <2>2, Zenon DEF ParseOption
<1>2. CASE EndOptions
  <2>1. CASE args' = args
    BY <2>1 DEF ArgsTyped
  <2>2. CASE args' = [args EXCEPT !.json = @ \/ ~args.html]
    <3>1. (args.json \/ ~args.html) \in BOOLEAN
      OBVIOUS
    <3>2. PICK b \in BOOLEAN : args' = [args EXCEPT !.json = b]
      BY <2>2, <3>1
    <3>3. QED
      BY <3>2 DEF ArgsTyped, Args
  <2>3. QED
    BY <1>2, <2>1, <2>2, Zenon DEF EndOptions
<1>3. CASE \/ UsageError \/ SelectProbe \/ RuntimeInit \/ RunProbe \/ Aggregate
           \/ EmitJson \/ EmitHtml \/ Finish \/ Killed \/ OutOfMemory \/ UNCHANGED vars
  <2>1. args' = args
    BY <1>3, Zenon DEF UsageError, SelectProbe, RuntimeInit, RunProbe, Aggregate, EmitJson,
                       EmitHtml, Finish, Killed, OutOfMemory, vars
  <2>2. QED
    BY <2>1 DEF ArgsTyped
<1>4. QED
  BY <1>1, <1>2, <1>3, Zenon DEF Next

ListsTyped ==
  /\ probes \in Seq(Registered) /\ chains \in Seq(Seq(Link)) /\ verdicts \in Seq(Verdict)
  /\ Len(probes) <= MaxProbes
  /\ Len(chains) = Len(probes) /\ Len(verdicts) = Len(probes)

(* The probes that the loop runs are of the registry, and so are what they *)
(* may leave behind.                                                       *)
LEMMA RunType ==
  ASSUME ListsTyped, ran \in Nat, ran < Len(probes), NEW o \in Outcomes[probes[ran + 1]]
  PROVE  /\ ran + 1 \in 1 .. Len(probes)
         /\ probes[ran + 1] \in Registered
         /\ o.links \in Seq(Link)
         /\ VerdictOf(o.links) \in Verdict
         /\ VerdictOf(o.links) = "DETERMINISTIC" => Len(o.links) > 0
<1>1. probes \in Seq(Registered)
  BY DEF ListsTyped
<1>2. ran + 1 \in 1 .. Len(probes) /\ probes[ran + 1] \in Registered
  BY <1>1
<1>3. o.links \in Seq(Link)
  BY <1>2, OutcomeType
<1>4. QED
  BY <1>2, <1>3, VerdictType

(* The probes, their chains and their verdicts keep their types.           *)
LEMMA ListsStep ==
  ListsTyped /\ looked \in Nat /\ ran \in Nat /\ [Next]_vars => ListsTyped'
<1> SUFFICES ASSUME ListsTyped, looked \in Nat, ran \in Nat, [Next]_vars PROVE ListsTyped'
  OBVIOUS
<1>1. CASE SelectProbe
  <2> DEFINE name == Registry[looked + 1]
  <2>1. name \in Registered
    BY <1>1, RegistryType DEF SelectProbe
  <2>2. CASE Selected(name) /\ Len(probes) < MaxProbes
    <3>1. /\ probes' = Append(probes, name)
          /\ chains' = Append(chains, << >>)
          /\ verdicts' = Append(verdicts, "UNCERTAIN")
      BY <1>1, <2>2, Zenon DEF SelectProbe
    <3> HIDE DEF name
    <3>2. probes' \in Seq(Registered) /\ Len(probes') = Len(probes) + 1
      BY <2>1, <3>1 DEF ListsTyped
    <3>3. chains' \in Seq(Seq(Link)) /\ Len(chains') = Len(chains) + 1
      <4>1. << >> \in Seq(Link)
        OBVIOUS
      <4>2. QED
        BY <3>1, <4>1 DEF ListsTyped
    <3>4. verdicts' \in Seq(Verdict) /\ Len(verdicts') = Len(verdicts) + 1
      BY <3>1 DEF ListsTyped, Verdict
    <3>5. Len(probes) \in Nat
      BY DEF ListsTyped
    <3>6. QED
      BY <2>2, <3>2, <3>3, <3>4, <3>5, RegistryType DEF ListsTyped
  <2>3. CASE ~ (Selected(name) /\ Len(probes) < MaxProbes)
    <3>1. UNCHANGED <<probes, chains, verdicts>>
      BY <1>1, <2>3, Zenon DEF SelectProbe
    <3>2. QED
      BY <3>1 DEF ListsTyped
  <2>4. QED
    BY <2>2, <2>3
<1>2. CASE RunProbe
  <2>1. ran < Len(probes)
    BY <1>2 DEF RunProbe
  <2>2. PICK o \in Outcomes[probes[ran + 1]] : Take(ran + 1, o)
    BY <1>2 DEF RunProbe
  <2> DEFINE links == o.links
             verdict == VerdictOf(o.links)
  <2>3. ran + 1 \in 1 .. Len(probes) /\ links \in Seq(Link) /\ verdict \in Verdict
    BY <2>1, RunType
  <2>4. /\ chains' = [chains EXCEPT ![ran + 1] = links]
        /\ verdicts' = [verdicts EXCEPT ![ran + 1] = verdict]
    BY <2>2, Zenon DEF Take
  <2>5. probes' = probes
    BY <1>2, Zenon DEF RunProbe
  <2> HIDE DEF links, verdict
  <2>6. chains' \in Seq(Seq(Link)) /\ Len(chains') = Len(chains)
    BY <2>3, <2>4, ExceptSeq DEF ListsTyped
  <2>7. verdicts' \in Seq(Verdict) /\ Len(verdicts') = Len(verdicts)
    BY <2>3, <2>4, ExceptSeq DEF ListsTyped
  <2>8. QED
    BY <2>5, <2>6, <2>7 DEF ListsTyped
<1>3. CASE Finish
  <2>1. probes' = << >> /\ chains' = << >> /\ verdicts' = << >>
    BY <1>3, Zenon DEF Finish
  <2>2. QED
    BY <2>1, RegistryType DEF ListsTyped
<1>4. CASE \/ ParseOption \/ UsageError \/ EndOptions \/ RuntimeInit \/ Aggregate
           \/ EmitJson \/ EmitHtml \/ Killed \/ OutOfMemory \/ UNCHANGED vars
  <2>1. UNCHANGED <<probes, chains, verdicts>>
    BY <1>4, Zenon DEF ParseOption, UsageError, EndOptions, RuntimeInit, Aggregate, EmitJson,
                       EmitHtml, Killed, OutOfMemory, vars
  <2>2. QED
    BY <2>1 DEF ListsTyped
<1>5. QED
  BY <1>1, <1>2, <1>3, <1>4, Zenon DEF Next

RunTyped ==
  /\ looked \in 0 .. Len(Registry) /\ ran \in 0 .. MaxProbes
  /\ worst \in {EXIT_OK, EXIT_PROBE, EXIT_VULN}
  /\ failed \subseteq Registered

(* The counters, the status of the loop and the failures keep their types. *)
LEMMA RunStep == RunTyped /\ ListsTyped /\ [Next]_vars => RunTyped'
<1> SUFFICES ASSUME RunTyped, ListsTyped, [Next]_vars PROVE RunTyped'
  OBVIOUS
<1>1. CASE SelectProbe
  <2>1. looked' = looked + 1 /\ looked < Len(Registry)
    BY <1>1, Zenon DEF SelectProbe
  <2>2. UNCHANGED <<ran, worst, failed>>
    BY <1>1, Zenon DEF SelectProbe
  <2>3. looked' \in 0 .. Len(Registry)
    BY <2>1, RegistryType DEF RunTyped
  <2>4. QED
    BY <2>2, <2>3, Zenon DEF RunTyped
<1>2. CASE RunProbe
  <2>1. ran < Len(probes) /\ ran' = ran + 1 /\ looked' = looked
    BY <1>2, Zenon DEF RunProbe
  <2>2. PICK o \in Outcomes[probes[ran + 1]] : Take(ran + 1, o)
    BY <1>2, Zenon DEF RunProbe
  <2>3. ran \in Nat
    BY DEF RunTyped
  <2>4. probes[ran + 1] \in Registered
    BY <2>1, <2>3, RunType
  <2>5. ran' \in 0 .. MaxProbes
    <3>1. Len(probes) \in Nat /\ Len(probes) <= MaxProbes
      BY DEF ListsTyped
    <3>2. QED
      BY <2>1, <2>3, <3>1, RegistryType
  <2>6. worst' \in {EXIT_OK, EXIT_PROBE, EXIT_VULN}
    <3>1. worst' = Worsened(o.rc, VerdictOf(o.links))
      BY <2>2, Zenon DEF Take
    <3>2. QED
      BY <3>1, Zenon DEF Worsened, RunTyped
  <2>7. failed' \subseteq Registered
    <3>1. failed' = IF o.rc = "OK" THEN failed ELSE failed \cup {probes[ran + 1]}
      BY <2>2, Zenon DEF Take
    <3>2. failed' = failed \/ failed' = failed \cup {probes[ran + 1]}
      BY <3>1, Zenon
    <3>3. QED
      BY <2>4, <3>2 DEF RunTyped
  <2>8. QED
    BY <2>1, <2>5, <2>6, <2>7, Zenon DEF RunTyped
<1>3. CASE \/ ParseOption \/ UsageError \/ EndOptions \/ RuntimeInit \/ Aggregate
           \/ EmitJson \/ EmitHtml \/ Finish \/ Killed \/ OutOfMemory \/ UNCHANGED vars
  <2>1. UNCHANGED <<looked, ran, worst, failed>>
    BY <1>3, Zenon DEF ParseOption, UsageError, EndOptions, RuntimeInit, Aggregate, EmitJson,
                       EmitHtml, Finish, Killed, OutOfMemory, vars
  <2>2. QED
    BY <2>1 DEF RunTyped
<1>4. QED
  BY <1>1, <1>2, <1>3, Zenon DEF Next

RiskTyped == risk.x10 \in 0 .. 100 /\ risk.label \in Label \cup {""}

(* The risk is a number of tenths with a label.                            *)
LEMMA RiskStep == Typed /\ RiskTyped /\ [Next]_vars => RiskTyped'
<1> SUFFICES ASSUME Typed, RiskTyped, [Next]_vars PROVE RiskTyped'
  OBVIOUS
<1>1. CASE Aggregate
  <2> DEFINE overall == OverallRisk(Scores)
  <2>1. overall \in Score /\ Highest(Scores) = Times10(overall)
    BY AuditRisk
  <2>2. risk' = [x10 |-> Highest(Scores), label |-> LabelOf(overall)]
    BY <1>1, Zenon DEF Aggregate
  <2> HIDE DEF overall
  <2>3. Times10(overall) \in 0 .. 100 /\ LabelOf(overall) \in Label
    BY <2>1, Times10Bounds, LabelType
  <2>4. risk'.x10 = Times10(overall) /\ risk'.label = LabelOf(overall)
    BY <2>1, <2>2
  <2>5. QED
    BY <2>3, <2>4, Zenon DEF RiskTyped
<1>2. CASE \/ ParseOption \/ UsageError \/ EndOptions \/ SelectProbe \/ RuntimeInit
           \/ RunProbe \/ EmitJson \/ EmitHtml \/ Finish \/ Killed \/ OutOfMemory \/ UNCHANGED vars
  <2>1. UNCHANGED risk
    BY <1>2, Zenon DEF ParseOption, UsageError, EndOptions, SelectProbe, RuntimeInit, RunProbe,
                       EmitJson, EmitHtml, Finish, Killed, OutOfMemory, vars
  <2>2. QED
    BY <2>1 DEF RiskTyped
<1>3. QED
  BY <1>1, <1>2, Zenon DEF Next

ExitTyped ==
  /\ pc \in {"parse", "init", "probe", "json", "html", "finish", "exited", "killed", "aborted"}
  /\ exit \in {NoExit, EXIT_OK, EXIT_PROBE, EXIT_VULN}
  /\ exit # NoExit <=> pc = "exited"

(* There is an exit status once the run has exited and no sooner.          *)
LEMMA ExitStep == RunTyped /\ ExitTyped /\ [Next]_vars => ExitTyped'
<1> SUFFICES ASSUME RunTyped, ExitTyped, [Next]_vars PROVE ExitTyped'
  OBVIOUS
<1>1. EXIT_OK # NoExit /\ EXIT_PROBE # NoExit /\ EXIT_VULN # NoExit
  BY DEF EXIT_OK, EXIT_PROBE, EXIT_VULN, NoExit
<1>2. ASSUME NEW status \in {EXIT_OK, EXIT_PROBE, EXIT_VULN}, Exit(status)
      PROVE  ExitTyped'
  BY <1>1, <1>2 DEF Exit, ExitTyped
<1>3. CASE UsageError
  BY <1>2, <1>3, Zenon DEF UsageError
<1>4. CASE EndOptions
  <2>1. CASE Exit(EXIT_OK)
    BY <1>2, <2>1
  <2>2. CASE pc' = "init" /\ exit' = exit /\ pc = "parse"
    BY <2>2 DEF ExitTyped
  <2>3. QED
    BY <1>4, <2>1, <2>2, Zenon DEF EndOptions
<1>5. CASE Finish
  <2>1. Status \in {EXIT_OK, EXIT_PROBE, EXIT_VULN}
    BY Zenon DEF Status, RunTyped
  <2>2. QED
    BY <1>2, <1>5, <2>1, Zenon DEF Finish
<1>6. CASE \/ ParseOption \/ SelectProbe \/ RuntimeInit \/ RunProbe \/ Aggregate
           \/ EmitJson \/ EmitHtml \/ Killed \/ OutOfMemory
  <2>1. /\ exit' = exit /\ pc # "exited"
        /\ pc' \in {"parse", "init", "probe", "json", "html", "finish", "killed", "aborted"}
    <3>1. CASE ParseOption
      BY <3>1 DEF ParseOption
    <3>2. CASE SelectProbe \/ RuntimeInit
      BY <3>2 DEF SelectProbe, RuntimeInit
    <3>3. CASE RunProbe \/ Aggregate
      BY <3>3 DEF RunProbe, Aggregate
    <3>4. CASE EmitJson \/ EmitHtml
      BY <3>4 DEF EmitJson, EmitHtml
    <3>5. CASE Killed \/ OutOfMemory
      BY <3>5 DEF Killed, OutOfMemory
    <3>6. QED
      BY <1>6, <3>1, <3>2, <3>3, <3>4, <3>5, Zenon
  <2>2. QED
    BY <2>1 DEF ExitTyped
<1>7. CASE UNCHANGED vars
  <2>1. exit' = exit /\ pc' = pc
    BY <1>7, Zenon DEF vars
  <2>2. QED
    BY <2>1 DEF ExitTyped
<1>8. QED
  BY <1>3, <1>4, <1>5, <1>6, <1>7, Zenon DEF Next

(* All the types together.                                                 *)
LEMMA TypedParts ==
  Typed <=> ArgsTyped /\ ListsTyped /\ RunTyped /\ RiskTyped /\ ExitTyped
<1>1. NoExit \notin {EXIT_OK, EXIT_PROBE, EXIT_VULN}
  BY DEF EXIT_OK, EXIT_PROBE, EXIT_VULN, NoExit
<1>2. /\ {worst, exit} \subseteq {NoExit, EXIT_OK, EXIT_PROBE, EXIT_VULN}
      /\ worst # NoExit
      <=> /\ worst \in {EXIT_OK, EXIT_PROBE, EXIT_VULN}
          /\ exit \in {NoExit, EXIT_OK, EXIT_PROBE, EXIT_VULN}
  BY <1>1
<1>3. QED
  BY <1>2, Zenon DEF Typed, TypeOK, ArgsTyped, Args, ListsTyped, RunTyped, RiskTyped, ExitTyped

LEMMA TypedStep == Typed /\ [Next]_vars => Typed'
<1> SUFFICES ASSUME Typed, [Next]_vars PROVE Typed'
  OBVIOUS
<1>1. ArgsTyped /\ ListsTyped /\ RunTyped /\ RiskTyped /\ ExitTyped
  BY TypedParts
<1>2. looked \in Nat /\ ran \in Nat
  BY <1>1 DEF RunTyped
<1>3. ArgsTyped' /\ ListsTyped' /\ RunTyped' /\ RiskTyped' /\ ExitTyped'
  BY <1>1, <1>2, ArgsStep, ListsStep, RunStep, RiskStep, ExitStep
<1>4. QED
  BY <1>3, TypedParts, PTL

-----------------------------------------------------------------------------


(* Nothing is done before its time.                                        *)
LEMMA NothingYetStep == Typed /\ NothingYet /\ [Next]_vars => NothingYet'
<1> SUFFICES ASSUME Typed, NothingYet, [Next]_vars PROVE NothingYet'
  OBVIOUS
<1>1. CASE ParseOption
  <2>1. /\ pc = "parse" /\ pc' = "parse"
        /\ UNCHANGED <<looked, probes, ran, worst, failed, json, html>>
    BY <1>1, Zenon DEF ParseOption
  <2>2. QED
    BY <2>1 DEF NothingYet, Started
<1>2. CASE UsageError
  BY <1>2 DEF UsageError, Exit, NothingYet, Started
<1>3. CASE EndOptions
  <2>1. pc = "parse" /\ UNCHANGED <<ran, worst, failed, json, html>>
    BY <1>3, Zenon DEF EndOptions
  <2>2. CASE Exit(EXIT_OK)
    BY <2>2 DEF Exit, NothingYet, Started
  <2>3. CASE pc' = "init" /\ args' = [args EXCEPT !.json = @ \/ ~args.html]
    <3>1. args'.json \/ args'.html
      <4>1. args \in Args
        BY TypedParts DEF ArgsTyped
      <4>2. args'.json = (args.json \/ ~args.html) /\ args'.html = args.html
        BY <2>3, <4>1, Zenon DEF Args
      <4>3. QED
        BY <4>2, Zenon
    <3>2. QED
      BY <2>1, <2>3, <3>1 DEF NothingYet, Started
  <2>4. QED
    BY <1>3, <2>2, <2>3, Zenon DEF EndOptions
<1>4. CASE SelectProbe \/ RuntimeInit
  <2>1. /\ pc = "init" /\ pc' \in {"init", "probe"}
        /\ UNCHANGED <<args, ran, worst, failed, json, html>>
    BY <1>4 DEF SelectProbe, RuntimeInit
  <2>2. QED
    BY <2>1 DEF NothingYet, Started
<1>5. CASE RunProbe \/ Aggregate
  <2>1. pc = "probe" /\ pc' \in {"probe", "json"} /\ UNCHANGED <<args, json, html>>
    BY <1>5 DEF RunProbe, Aggregate
  <2>2. QED
    BY <2>1 DEF NothingYet, Started
<1>6. CASE EmitJson
  BY <1>6 DEF EmitJson, NothingYet, Started
<1>7. CASE EmitHtml \/ Finish \/ Killed \/ OutOfMemory
  <2>1. CASE EmitHtml
    BY <2>1 DEF EmitHtml, NothingYet, Started
  <2>2. CASE Finish
    BY <2>2 DEF Finish, Exit, NothingYet, Started
  <2>3. CASE Killed \/ OutOfMemory
    BY <2>3 DEF Killed, OutOfMemory, NothingYet, Started
  <2>4. QED
    BY <1>7, <2>1, <2>2, <2>3
<1>8. CASE UNCHANGED vars
  BY <1>8 DEF vars, NothingYet, Started
<1>9. QED
  BY <1>1, <1>2, <1>3, <1>4, <1>5, <1>6, <1>7, <1>8, Zenon DEF Next

(* zp_runtime_init selects what was asked for, in the registry's order.    *)
LEMMA SelectedStep ==
  Typed /\ NothingYet /\ SelectedSoFar /\ [Next]_vars => SelectedSoFar'
<1> SUFFICES ASSUME Typed, NothingYet, SelectedSoFar, [Next]_vars PROVE SelectedSoFar'
  OBVIOUS
<1>1. ListsTyped /\ RunTyped
  BY TypedParts
<1>2. CASE SelectProbe
  <2> DEFINE name == Registry[looked + 1]
             n == Len(probes)
  <2>1. pc = "init" /\ pc' = "init" /\ looked < Len(Registry) /\ looked' = looked + 1
        /\ args' = args
    BY <1>2, Zenon DEF SelectProbe
  <2>2. looked \in Nat /\ n \in Nat /\ n <= looked /\ n < MaxProbes
    BY <1>1, <2>1, RegistryType DEF RunTyped, ListsTyped, SelectedSoFar
  <2>3. ~ Started'
    BY <2>1 DEF Started
  <2>4. \A k \in 1 .. looked : k \in 1 .. looked' /\ looked' \in 1 .. looked' /\ k < looked'
    BY <2>1, <2>2
  <2>5. \A r : Selected(r)' <=> Selected(r)
    BY <2>1 DEF Selected
  <2>6. /\ \A k \in 1 .. looked : Selected(Registry[k]) => \E i \in 1 .. n : probes[i] = Registry[k]
        /\ \A i \in 1 .. n : \E k \in 1 .. looked : Registry[k] = probes[i] /\ Selected(Registry[k])
        /\ \A i, j \in 1 .. n : i < j =>
             \E k, m \in 1 .. looked : k < m /\ Registry[k] = probes[i] /\ Registry[m] = probes[j]
    BY <2>1 DEF SelectedSoFar
  <2>7. \A k \in 1 .. looked' : k \in 1 .. looked \/ k = looked'
    BY <2>1, <2>2
  <2>8. CASE Selected(name)
    <3>1. probes' = Append(probes, name)
      BY <1>2, <2>2, <2>8, Zenon DEF SelectProbe
    <3>2. /\ Len(probes') = n + 1 /\ probes'[n + 1] = name
          /\ \A i \in 1 .. n : probes'[i] = probes[i]
      <4>1. probes \in Seq(Registered) /\ name \in Registered
        BY <1>1, <2>1, <2>2, RegistryType DEF ListsTyped
      <4> HIDE DEF name
      <4>2. QED
        BY <3>1, <4>1
    <3>3. \A i \in 1 .. n + 1 : i \in 1 .. n \/ i = n + 1
      BY <2>2
    <3>4. n + 1 \in 1 .. n + 1 /\ \A i \in 1 .. n : i \in 1 .. n + 1 /\ ~ (n + 1 < i)
      BY <2>2
    <3>5. name = Registry[looked']
      BY <2>1
    <3>6. looked' \in 1 .. looked'
      BY <2>1, <2>2
    <3> HIDE DEF name, n
    <3>7. ASSUME NEW k \in 1 .. looked', Selected(Registry[k])
          PROVE  \E i \in 1 .. Len(probes') : probes'[i] = Registry[k]
      <4>1. CASE k \in 1 .. looked
        <5>1. PICK i \in 1 .. n : probes[i] = Registry[k]
          BY <2>6, <3>7, <4>1
        <5>2. QED
          BY <3>2, <3>4, <5>1
      <4>2. CASE k = looked'
        BY <3>2, <3>4, <3>5, <4>2
      <4>3. QED
        BY <2>7, <4>1, <4>2
    <3>8. ASSUME NEW i \in 1 .. Len(probes')
          PROVE  \E k \in 1 .. looked' : Registry[k] = probes'[i] /\ Selected(Registry[k])
      <4>1. CASE i \in 1 .. n
        <5>1. PICK k \in 1 .. looked : Registry[k] = probes[i] /\ Selected(Registry[k])
          BY <2>6, <4>1
        <5>2. k \in 1 .. looked' /\ probes'[i] = probes[i]
          BY <2>4, <3>2, <4>1
        <5>3. QED
          BY <5>1, <5>2
      <4>2. CASE i = n + 1
        BY <2>8, <3>2, <3>5, <3>6, <4>2
      <4>3. QED
        BY <3>2, <3>3, <4>1, <4>2
    <3>9. ASSUME NEW i \in 1 .. Len(probes'), NEW j \in 1 .. Len(probes'), i < j
          PROVE  \E k, m \in 1 .. looked' :
                   k < m /\ Registry[k] = probes'[i] /\ Registry[m] = probes'[j]
      <4>1. i \in 1 .. n
        BY <2>2, <3>2, <3>9
      <4>2. CASE j \in 1 .. n
        <5>1. PICK k \in 1 .. looked, m \in 1 .. looked :
                k < m /\ Registry[k] = probes[i] /\ Registry[m] = probes[j]
          BY <2>6, <3>9, <4>1, <4>2
        <5>2. QED
          BY <2>4, <3>2, <4>1, <4>2, <5>1
      <4>3. CASE j = n + 1
        <5>1. PICK k \in 1 .. looked : Registry[k] = probes[i]
          BY <2>6, <4>1
        <5>2. QED
          BY <2>4, <3>2, <3>5, <3>6, <4>1, <4>3, <5>1
      <4>4. QED
        BY <3>2, <3>3, <4>2, <4>3
    <3>10. Len(probes') <= looked'
      BY <2>1, <2>2, <3>2
    <3>11. QED
      BY <2>3, <2>5, <3>7, <3>8, <3>9, <3>10 DEF SelectedSoFar
  <2>9. CASE ~ Selected(name)
    <3>1. probes' = probes
      BY <1>2, <2>9, Zenon DEF SelectProbe
    <3>2. name = Registry[looked']
      BY <2>1
    <3>3. ASSUME NEW k \in 1 .. looked', Selected(Registry[k])
          PROVE  \E i \in 1 .. n : probes[i] = Registry[k]
      BY <2>6, <2>7, <2>9, <3>2, <3>3
    <3>4. ASSUME NEW i \in 1 .. n
          PROVE  \E k \in 1 .. looked' : Registry[k] = probes[i] /\ Selected(Registry[k])
      BY <2>4, <2>6
    <3>5. ASSUME NEW i \in 1 .. n, NEW j \in 1 .. n, i < j
          PROVE  \E k, m \in 1 .. looked' :
                   k < m /\ Registry[k] = probes[i] /\ Registry[m] = probes[j]
      <4>1. PICK k \in 1 .. looked, m \in 1 .. looked :
              k < m /\ Registry[k] = probes[i] /\ Registry[m] = probes[j]
        BY <2>6, <3>5
      <4>2. QED
        BY <2>4, <4>1
    <3>6. n <= looked'
      BY <2>1, <2>2
    <3>7. QED
      BY <2>3, <2>5, <3>1, <3>3, <3>4, <3>5, <3>6 DEF SelectedSoFar
  <2>10. QED
    BY <2>8, <2>9
<1>3. CASE RuntimeInit
  <2>1. /\ pc = "init" /\ looked = Len(Registry)
        /\ UNCHANGED <<args, looked, probes>>
    BY <1>3, Zenon DEF RuntimeInit
  <2>2. \A r : Selected(r)' <=> Selected(r)
    BY <2>1 DEF Selected
  <2>3. QED
    BY <2>1, <2>2 DEF SelectedSoFar
<1>4. CASE EndOptions
  <2>1. pc = "parse" /\ looked' = 0 /\ probes' = << >> /\ pc' \in {"init", "exited"}
    BY <1>4 DEF EndOptions, Exit, NothingYet
  <2>2. QED
    BY <2>1 DEF SelectedSoFar, Started
<1>5. CASE RunProbe \/ Aggregate \/ EmitJson \/ EmitHtml \/ UNCHANGED vars
  <2>1. /\ UNCHANGED <<args, looked, probes>>
        /\ pc' = "init" <=> pc = "init"
        /\ Started' <=> Started
    <3>1. CASE RunProbe \/ Aggregate
      BY <3>1 DEF RunProbe, Aggregate, Started
    <3>2. CASE EmitJson \/ EmitHtml
      BY <3>2 DEF EmitJson, EmitHtml, Started
    <3>3. CASE UNCHANGED vars
      BY <3>3 DEF vars, Started
    <3>4. QED
      BY <1>5, <3>1, <3>2, <3>3
  <2>2. \A r : Selected(r)' <=> Selected(r)
    BY <2>1 DEF Selected
  <2>3. QED
    BY <2>1, <2>2 DEF SelectedSoFar
<1>6. CASE ParseOption \/ UsageError \/ Finish \/ Killed \/ OutOfMemory
  <2>1. pc' \in {"parse", "exited", "killed", "aborted"}
    BY <1>6 DEF ParseOption, UsageError, Finish, Killed, OutOfMemory, Exit
  <2>2. QED
    BY <2>1 DEF SelectedSoFar, Started
<1>7. QED
  BY <1>2, <1>3, <1>4, <1>5, <1>6, Zenon DEF Next

(* The steps that leave the probe loop or what comes after it, and those   *)
(* that change nothing of what the loop has left behind.                   *)
LEMMA Stages ==
  ASSUME [Next]_vars
  PROVE  \/ SelectProbe \/ RuntimeInit \/ RunProbe \/ Aggregate
         \/ ~ Started'
         \/ /\ Started
            /\ UNCHANGED <<probes, chains, verdicts, ran, worst, audit, risk, failed>>
<1>1. CASE ParseOption \/ UsageError \/ EndOptions \/ Finish \/ Killed \/ OutOfMemory
  <2>1. pc' \in {"parse", "init", "exited", "killed", "aborted"}
    BY <1>1 DEF ParseOption, UsageError, EndOptions, Finish, Killed, OutOfMemory, Exit
  <2>2. QED
    BY <2>1 DEF Started
<1>2. CASE EmitJson \/ EmitHtml
  BY <1>2 DEF EmitJson, EmitHtml, Started
<1>3. CASE UNCHANGED vars
  BY <1>3 DEF vars, Started
<1>4. QED
  BY <1>1, <1>2, <1>3, Zenon DEF Next

(* What a record of the audit context says of its probe.                   *)
Mirrors(r, name, verdict, links) ==
  /\ r.name = name /\ r.verdict = verdict /\ r.count = Len(links)
  /\ IsPrefix(r.findings, links)
  /\ Len(r.findings) = r.count \/ Len(r.findings) = MaxFindings

(* The record that is added mirrors the probe that ran, and finds room.    *)
LEMMA RecordedMirrors ==
  ASSUME audit \in [records : Seq(Record), capacity : Nat \ {0}],
         Len(audit.records) <= audit.capacity,
         NEW name \in Registered, NEW verdict \in Verdict, NEW links \in Seq(Link)
  PROVE  LET new == Recorded(name, verdict, links)
             n == Len(audit.records)
         IN /\ new \in [records : Seq(Record), capacity : Nat \ {0}]
            /\ Len(new.records) = n + 1 /\ n + 1 <= new.capacity
            /\ \A i \in 1 .. n : new.records[i] = audit.records[i]
            /\ Mirrors(new.records[n + 1], name, verdict, links)
<1> DEFINE r == [name |-> name, verdict |-> verdict, count |-> Len(links),
                 risk |-> ProbeRisk(links), findings |-> Kept(links)]
           old == audit.records
           room == audit.capacity
           recs == Append(old, r)
           cap == IF Len(old) >= room THEN 2 * room ELSE room
<1>1. r \in Record
  BY ChainRisk, KeptBounds DEF Record
<1>2. Mirrors(r, name, verdict, links)
  BY KeptBounds DEF Mirrors
<1>3. old \in Seq(Record) /\ room \in Nat \ {0} /\ Len(old) <= room
  OBVIOUS
<1>4. Recorded(name, verdict, links) = [records |-> recs, capacity |-> cap]
  BY DEF Recorded
<1> HIDE DEF r, old, room
<1>5. /\ recs \in Seq(Record) /\ Len(recs) = Len(old) + 1
      /\ recs[Len(old) + 1] = r
      /\ \A i \in 1 .. Len(old) : recs[i] = old[i]
  BY <1>1, <1>3
<1>6. cap \in Nat \ {0} /\ Len(old) + 1 <= cap
  BY <1>3
<1> HIDE DEF recs, cap
<1>7. /\ Recorded(name, verdict, links) \in [records : Seq(Record), capacity : Nat \ {0}]
      /\ Recorded(name, verdict, links).records = recs
      /\ Recorded(name, verdict, links).capacity = cap
  BY <1>4, <1>5, <1>6
<1>8. QED
  BY <1>2, <1>5, <1>6, <1>7, Zenon DEF old

(* The audit context keeps up with the loop.                               *)
LEMMA MirroredStep == Typed /\ NothingYet /\ Mirrored /\ [Next]_vars => Mirrored'
<1> SUFFICES ASSUME Typed, NothingYet, Mirrored, [Next]_vars PROVE Mirrored'
  OBVIOUS
<1>1. ListsTyped /\ RunTyped
  BY TypedParts
<1>2. CASE SelectProbe
  BY <1>2 DEF SelectProbe, Mirrored, Started
<1>3. CASE RuntimeInit
  <2> DEFINE none == << >>
  <2>1. none \in Seq(Record) /\ Len(none) = 0
    OBVIOUS
  <2>2. ran = 0 /\ ran' = ran /\ probes' = probes
    BY <1>3 DEF RuntimeInit, NothingYet
  <2>3. audit' = [records |-> none, capacity |-> ProbeCapacity]
    BY <1>3, Zenon DEF RuntimeInit
  <2>4. ProbeCapacity \in Nat \ {0}
    BY CapacityAssumption DEF CapacityAssumption
  <2>5. Len(probes) \in Nat
    BY <1>1 DEF ListsTyped
  <2> HIDE DEF none
  <2>6. /\ audit' \in [records : Seq(Record), capacity : Nat \ {0}]
        /\ audit'.records = none /\ audit'.capacity = ProbeCapacity
    BY <2>1, <2>3, <2>4
  <2>7. 1 .. ran' = {} /\ Len(audit'.records) = ran' /\ ran' <= audit'.capacity
    BY <2>1, <2>2, <2>4, <2>6
  <2>8. AuditMirrorsChains'
    BY <2>7, Zenon DEF AuditMirrorsChains
  <2>9. ran' <= Len(probes')
    BY <2>2, <2>5
  <2>10. QED
    BY <2>6, <2>8, <2>9, Zenon DEF Mirrored
<1>4. CASE RunProbe
  <2> DEFINE i == ran + 1
             name == probes[ran + 1]
  <2>1. Started /\ ran < Len(probes) /\ ran' = i /\ probes' = probes
    BY <1>4 DEF RunProbe, Started
  <2>2. PICK o \in Outcomes[probes[ran + 1]] : Take(ran + 1, o)
    BY <1>4, Zenon DEF RunProbe
  <2> DEFINE links == o.links
             verdict == VerdictOf(o.links)
             new == Recorded(name, verdict, links)
  <2>3. ran \in Nat
    BY <1>1 DEF RunTyped
  <2>4. i \in 1 .. Len(probes) /\ name \in Registered /\ links \in Seq(Link) /\ verdict \in Verdict
    BY <1>1, <2>1, <2>3, RunType
  <2>5. /\ chains' = [chains EXCEPT ![i] = links]
        /\ verdicts' = [verdicts EXCEPT ![i] = verdict]
        /\ audit' = new
    BY <2>2, Zenon DEF Take
  <2>6. /\ audit \in [records : Seq(Record), capacity : Nat \ {0}]
        /\ Len(audit.records) = ran /\ ran <= audit.capacity
        /\ \A k \in 1 .. ran : Mirrors(audit.records[k], probes[k], verdicts[k], chains[k])
    BY <2>1, Zenon DEF Mirrored, AuditMirrorsChains, Mirrors
  <2>7. /\ new \in [records : Seq(Record), capacity : Nat \ {0}]
        /\ Len(new.records) = i /\ i <= new.capacity
        /\ \A k \in 1 .. ran : new.records[k] = audit.records[k]
        /\ Mirrors(new.records[i], name, verdict, links)
    BY <2>4, <2>6, RecordedMirrors
  <2>8. /\ chains'[i] = links /\ verdicts'[i] = verdict /\ name = probes'[i]
        /\ \A k \in 1 .. ran : chains'[k] = chains[k] /\ verdicts'[k] = verdicts[k]
    <3>1. /\ chains \in Seq(Seq(Link)) /\ verdicts \in Seq(Verdict)
          /\ i \in 1 .. Len(chains) /\ i \in 1 .. Len(verdicts)
          /\ \A k \in 1 .. ran : k \in 1 .. Len(chains) /\ k \in 1 .. Len(verdicts) /\ k # i
      BY <1>1, <2>1, <2>3, <2>4 DEF ListsTyped
    <3> HIDE DEF i, links, verdict
    <3>2. /\ chains'[i] = links
          /\ \A k \in 1 .. ran : chains'[k] = chains[k]
      BY <2>4, <2>5, <3>1, ExceptSeq
    <3>3. /\ verdicts'[i] = verdict
          /\ \A k \in 1 .. ran : verdicts'[k] = verdicts[k]
      BY <2>4, <2>5, <3>1, ExceptSeq
    <3>4. QED
      BY <2>1, <3>2, <3>3 DEF i
  <2> HIDE DEF new, links, verdict, name
  <2>9. \A k \in 1 .. ran' : k \in 1 .. ran \/ k = i
    BY <2>1, <2>3
  <2>10. ASSUME NEW k \in 1 .. ran'
         PROVE  Mirrors(new.records[k], probes'[k], verdicts'[k], chains'[k])
    <3>1. CASE k \in 1 .. ran
      BY <2>1, <2>6, <2>7, <2>8, <3>1
    <3>2. CASE k = i
      BY <2>7, <2>8, <3>2
    <3>3. QED
      BY <2>9, <2>10, <3>1, <3>2
  <2>11. AuditMirrorsChains'
    BY <2>1, <2>5, <2>7, <2>10, Zenon DEF AuditMirrorsChains, Mirrors
  <2>12. ran' <= Len(probes')
    BY <2>1, <2>4
  <2>13. QED
    BY <2>5, <2>7, <2>11, <2>12, Zenon DEF Mirrored
<1>5. CASE Aggregate
  <2>1. Started /\ UNCHANGED <<probes, chains, verdicts, ran, audit>>
    BY <1>5 DEF Aggregate, Started
  <2>2. QED
    BY <2>1 DEF Mirrored, AuditMirrorsChains
<1>6. CASE ~ Started'
  BY <1>6 DEF Mirrored
<1>7. CASE Started /\ UNCHANGED <<probes, chains, verdicts, ran, audit>>
  BY <1>7 DEF Mirrored, AuditMirrorsChains
<1>8. QED
  BY <1>2, <1>3, <1>4, <1>5, <1>6, <1>7, Stages

(* The status of the loop is explained by the probes that have run.        *)
LEMMA JudgedStep == Typed /\ NothingYet /\ Judged /\ [Next]_vars => Judged'
<1> SUFFICES ASSUME Typed, NothingYet, Judged, [Next]_vars PROVE Judged'
  OBVIOUS
<1>1. ListsTyped /\ RunTyped
  BY TypedParts
<1>2. EXIT_OK # EXIT_PROBE /\ EXIT_OK # EXIT_VULN /\ EXIT_PROBE # EXIT_VULN
  BY DEF EXIT_OK, EXIT_PROBE, EXIT_VULN
<1>3. CASE SelectProbe
  BY <1>3 DEF SelectProbe, Judged, Started
<1>4. CASE RuntimeInit
  <2>1. worst' = EXIT_OK /\ failed' = {}
    BY <1>4 DEF RuntimeInit, NothingYet
  <2>2. QED
    BY <1>2, <2>1 DEF Judged
<1>5. CASE RunProbe
  <2> DEFINE i == ran + 1
  <2>1. Started /\ ran < Len(probes) /\ ran' = i /\ ran \in Nat
    BY <1>1, <1>5 DEF RunProbe, Started, RunTyped
  <2>2. PICK o \in Outcomes[probes[ran + 1]] : Take(ran + 1, o)
    BY <1>5, Zenon DEF RunProbe
  <2> DEFINE links == o.links
             verdict == VerdictOf(o.links)
  <2>3. /\ i \in 1 .. Len(probes) /\ links \in Seq(Link)
        /\ verdict = "DETERMINISTIC" => Len(links) > 0
        /\ verdict \in Verdict
    BY <1>1, <2>1, RunType
  <2>4. /\ chains' = [chains EXCEPT ![i] = links]
        /\ verdicts' = [verdicts EXCEPT ![i] = verdict]
        /\ worst' = Worsened(o.rc, verdict)
        /\ failed' = IF o.rc = "OK" THEN failed ELSE failed \cup {probes[i]}
    BY <2>2, Zenon DEF Take
  <2>5. /\ chains'[i] = links /\ verdicts'[i] = verdict
        /\ \A k \in 1 .. ran : /\ chains'[k] = chains[k] /\ verdicts'[k] = verdicts[k]
                               /\ k \in 1 .. ran'
    <3>1. /\ chains \in Seq(Seq(Link)) /\ i \in 1 .. Len(chains)
          /\ verdicts \in Seq(Verdict) /\ Len(verdicts) = Len(chains)
      BY <1>1, <2>3 DEF ListsTyped
    <3>2. \A k \in 1 .. ran : k \in 1 .. Len(chains) /\ k # i /\ k \in 1 .. ran'
      BY <2>1, <3>1
    <3> HIDE DEF i, links, verdict
    <3>3. QED
      BY <2>3, <2>4, <3>1, <3>2, ExceptSeq
  <2>6. i \in 1 .. ran'
    BY <2>1
  <2> HIDE DEF links, verdict, i
  <2>7. CASE verdict = "DETERMINISTIC"
    <3>1. worst' = EXIT_VULN
      BY <2>4, <2>7 DEF Worsened
    <3>2. Len(chains'[i]) > 0 /\ verdicts'[i] = "DETERMINISTIC"
      BY <2>3, <2>5, <2>7
    <3>3. QED
      BY <1>2, <2>6, <3>1, <3>2 DEF Judged
  <2>8. CASE verdict # "DETERMINISTIC" /\ o.rc # "OK"
    <3>1. worst' = EXIT_PROBE /\ failed' # {}
      BY <2>4, <2>8 DEF Worsened
    <3>2. QED
      BY <1>2, <3>1 DEF Judged
  <2>9. CASE verdict # "DETERMINISTIC" /\ o.rc = "OK"
    <3>1. worst' = worst /\ failed' = failed
      BY <2>4, <2>9 DEF Worsened
    <3>2. QED
      BY <2>1, <2>5, <3>1 DEF Judged
  <2>10. QED
    BY <2>7, <2>8, <2>9
<1>6. CASE Aggregate
  <2>1. Started /\ UNCHANGED <<chains, verdicts, ran, worst, failed>>
    BY <1>6 DEF Aggregate, Started
  <2>2. QED
    BY <2>1 DEF Judged
<1>7. CASE ~ Started'
  BY <1>7 DEF Judged
<1>8. CASE Started /\ UNCHANGED <<chains, verdicts, ran, worst, failed>>
  BY <1>8 DEF Judged
<1>9. QED
  BY <1>3, <1>4, <1>5, <1>6, <1>7, <1>8, Stages

(* The risk and the documents are what the chains make of them, as long as *)
(* the chains are there.                                                   *)
LEMMA PrintedStep ==
  NothingYet /\ Scored /\ PrintedSoFar /\ [Next]_vars => Scored' /\ PrintedSoFar'
<1> SUFFICES ASSUME NothingYet, Scored, PrintedSoFar, [Next]_vars
             PROVE  Scored' /\ PrintedSoFar'
  OBVIOUS
<1>1. CASE Aggregate
  <2>1. /\ risk' = [x10 |-> Highest(Scores), label |-> LabelOf(OverallRisk(Scores))]
        /\ pc' = "json" /\ Scores' = Scores
    BY <1>1, Zenon DEF Aggregate, Scores
  <2>2. QED
    BY <2>1 DEF Scored, PrintedSoFar
<1>2. CASE EmitJson
  <2>1. /\ pc = "json" /\ pc' = "html" /\ risk' = risk /\ args' = args /\ Scores' = Scores
        /\ json' = IF args.json THEN JsonDocument ELSE json
        /\ JsonDocument' = JsonDocument
    BY <1>2, Zenon DEF EmitJson, Scores, JsonDocument, Rows, Row, Paths, Counts
  <2>2. json = NoDocument
    BY <2>1 DEF NothingYet
  <2>3. json' = IF args'.json THEN JsonDocument' ELSE NoDocument
    BY <2>1, <2>2
  <2>4. QED
    BY <2>1, <2>3 DEF Scored, PrintedSoFar
<1>3. CASE EmitHtml
  <2>1. /\ pc = "html" /\ pc' = "finish" /\ risk' = risk /\ args' = args /\ json' = json
        /\ Scores' = Scores
        /\ html' = IF args.html THEN HtmlDocument ELSE html
        /\ JsonDocument' = JsonDocument /\ HtmlDocument' = HtmlDocument
    BY <1>3, Zenon DEF EmitHtml, Scores, JsonDocument, HtmlDocument, Rows, Row, Paths, Counts
  <2>2. html = NoDocument
    BY <2>1 DEF NothingYet
  <2>3. html' = IF args'.html THEN HtmlDocument' ELSE NoDocument
    BY <2>1, <2>2
  <2>4. QED
    BY <2>1, <2>3 DEF Scored, PrintedSoFar
<1>4. CASE \/ ParseOption \/ UsageError \/ EndOptions \/ SelectProbe \/ RuntimeInit \/ RunProbe
           \/ Finish \/ Killed \/ OutOfMemory
  <2>1. pc' \notin {"json", "html", "finish"}
    BY <1>4 DEF ParseOption, UsageError, EndOptions, SelectProbe, RuntimeInit, RunProbe, Finish,
                Killed, OutOfMemory, Exit
  <2>2. QED
    BY <2>1 DEF Scored, PrintedSoFar
<1>5. CASE UNCHANGED vars
  <2>1. /\ UNCHANGED <<pc, risk, args, json, html>>
        /\ Scores' = Scores /\ JsonDocument' = JsonDocument /\ HtmlDocument' = HtmlDocument
    BY <1>5, Zenon DEF vars, Scores, JsonDocument, HtmlDocument, Rows, Row, Paths, Counts
  <2>2. QED
    BY <2>1 DEF Scored, PrintedSoFar
<1>6. QED
  BY <1>1, <1>2, <1>3, <1>4, <1>5, Zenon DEF Next

-----------------------------------------------------------------------------

(***************************************************************************)
(* The risk of the run covers every probe and finding, is none when        *)
(* nothing was found, and is labelled above INFO by a finding above INFO.  *)
(***************************************************************************)
LEMMA RiskOfRun ==
  ASSUME Typed, risk = [x10 |-> Highest(Scores), label |-> LabelOf(OverallRisk(Scores))]
  PROVE  /\ risk.x10 \in 0 .. 100
         /\ \A i \in 1 .. Len(probes) :
              /\ 100 * risk.x10 >= ProbeRisk(chains[i])
              /\ LabelToInt[risk.label] >= LabelToInt[LabelOf(ProbeRisk(chains[i]))]
              /\ Len(chains[i]) > 0 => risk.x10 > 0
              /\ \A k \in 1 .. Len(chains[i]) :
                   LET l == chains[i][k] IN
                   /\ 100 * risk.x10 >= FindingRisk(l.severity, l.weight)
                   /\ l.severity \in Severity
                   /\ l.severity # INFO => risk.label # "INFO" /\ risk.x10 > 0
         /\ risk.x10 > 0 => \E i \in 1 .. Len(probes) : Len(chains[i]) > 0
<1> DEFINE n == Len(probes)
           all == OverallRisk(Scores)
<1>1. /\ all \in Score /\ Highest(Scores) = Times10(all)
      /\ \A i \in 1 .. n : chains[i] \in Seq(Link) /\ ProbeRisk(chains[i]) <= all
      /\ (\A i \in 1 .. n : Len(chains[i]) = 0) => all = 0
  BY AuditRisk
<1>2. risk.x10 = Times10(all) /\ risk.label = LabelOf(all)
  BY <1>1
<1> HIDE DEF n, all
<1>3. Times10(all) \in 0 .. 100 /\ (all = 0 => Times10(all) = 0)
  BY <1>1, Times10Bounds
<1>4. ASSUME NEW i \in 1 .. n
      PROVE  /\ 100 * Times10(all) >= ProbeRisk(chains[i])
             /\ LabelToInt[LabelOf(all)] >= LabelToInt[LabelOf(ProbeRisk(chains[i]))]
             /\ Len(chains[i]) > 0 => Times10(all) > 0
             /\ \A k \in 1 .. Len(chains[i]) :
                  LET l == chains[i][k] IN
                  /\ 100 * Times10(all) >= FindingRisk(l.severity, l.weight)
                  /\ l.severity \in Severity
                  /\ l.severity # INFO => LabelOf(all) # "INFO" /\ Times10(all) > 0
  <2> DEFINE links == chains[i]
             r == ProbeRisk(chains[i])
  <2>1. links \in Seq(Link) /\ r <= all
    BY <1>1
  <2>2. /\ r \in Score
        /\ Len(links) > 0 => r >= 500
        /\ \A k \in 1 .. Len(links) :
             /\ links[k].severity \in Severity
             /\ FindingRisk(links[k].severity, links[k].weight) \in Score
             /\ FindingRisk(links[k].severity, links[k].weight) <= r
             /\ links[k].severity # INFO => r >= 2500
        /\ 100 * Times10(r) >= r
    BY <2>1, ChainRisk
  <2> HIDE DEF links, r
  <2>3. r \in Int /\ all \in Int
    BY <1>1, <2>2 DEF Score
  <2>4. /\ Times10(r) <= Times10(all) /\ Times10(r) \in 0 .. 100
        /\ r >= 500 => Times10(r) > 0
    BY <1>1, <2>1, <2>2, Times10Monotone, Times10Bounds
  <2>5. LabelToInt[LabelOf(r)] <= LabelToInt[LabelOf(all)]
    BY <1>1, <2>1, <2>2, LabelMonotone
  <2>6. LabelToInt[LabelOf(r)] \in Int /\ LabelToInt[LabelOf(all)] \in Int
    <3>1. ASSUME NEW x \in Score PROVE LabelToInt[LabelOf(x)] \in Int
      BY DEF LabelOf, LabelToInt
    <3>2. QED
      BY <1>1, <2>2, <3>1
  <2>13. Times10(r) \in Int /\ Times10(all) \in Int
    BY <1>1, <2>2, Times10Bounds
  <2>7. 100 * Times10(all) >= r
    BY <2>2, <2>3, <2>4, <2>13
  <2>12. ASSUME NEW k \in 1 .. Len(links)
         PROVE  100 * Times10(all) >= FindingRisk(links[k].severity, links[k].weight)
    <3> DEFINE f == FindingRisk(links[k].severity, links[k].weight)
    <3>1. f \in Score /\ f <= r
      BY <2>2
    <3> HIDE DEF f
    <3>2. f \in Int
      BY <3>1 DEF Score
    <3>3. 100 * Times10(all) >= f
      BY <2>3, <2>7, <2>13, <3>1, <3>2
    <3>4. QED
      BY <3>3 DEF f
  <2>8. ASSUME r >= 2500 PROVE LabelOf(all) # "INFO" /\ Times10(all) > 0
    <3>1. all >= 1000 /\ all >= 500
      BY <2>1, <2>3, <2>8
    <3>2. QED
      BY <1>1, <3>1, LabelType, Times10Bounds
  <2>9. ASSUME Len(links) > 0 PROVE Times10(all) > 0
    <3>1. r >= 500
      BY <2>2, <2>9
    <3>2. all >= 500
      BY <2>1, <2>3, <3>1
    <3>3. QED
      BY <1>1, <3>2, Times10Bounds
  <2>10. LabelToInt[LabelOf(all)] >= LabelToInt[LabelOf(r)]
    BY <2>5, <2>6
  <2>11. QED
    BY <2>2, <2>7, <2>8, <2>9, <2>10, <2>12 DEF links, r
<1>5. ASSUME Times10(all) > 0 PROVE \E i \in 1 .. n : Len(chains[i]) > 0
  <2>1. all # 0
    BY <1>3, <1>5
  <2>2. PICK i \in 1 .. n : Len(chains[i]) # 0
    BY <1>1, <2>1
  <2>3. Len(chains[i]) \in Nat
    BY <1>1
  <2>4. QED
    BY <2>2, <2>3
<1>6. QED
  BY <1>2, <1>3, <1>4, <1>5 DEF n, all

(* What RiskCovers asks of a document, and of one that lists findings.     *)
Covers(d) ==
  /\ d.overall <= 100
  /\ \A i \in 1 .. Len(d.rows) :
       /\ 100 * d.overall >= d.rows[i].risk
       /\ LabelToInt[d.label] >= LabelToInt[LabelOf(d.rows[i].risk)]

CoversFindings(d) ==
  \A i \in 1 .. Len(d.rows) : \A k \in 1 .. Len(d.findings[i]) :
    100 * d.overall >= FindingRisk(d.findings[i][k].severity, d.findings[i][k].weight)

LEMMA RiskCoversParts ==
  RiskCovers <=> \A d \in Printed : Covers(d) /\ (d = json => CoversFindings(d))
BY Zenon DEF RiskCovers, Covers, CoversFindings

(* The rows are those of the probes.                                       *)
LEMMA RowsType ==
  ASSUME Typed
  PROVE  /\ Len(Rows) = Len(probes) /\ Len(probes) \in Nat
         /\ \A i \in 1 .. Len(probes) :
              /\ Rows[i].name = probes[i] /\ Rows[i].verdict = verdicts[i]
              /\ Rows[i].count = Len(chains[i]) /\ Rows[i].risk = ProbeRisk(chains[i])
<1>1. Len(probes) \in Nat
  BY TypedParts DEF ListsTyped
<1>2. Len(Rows) = Len(probes) /\ \A i \in 1 .. Len(probes) : Rows[i] = Row(i)
  BY <1>1 DEF Rows
<1>3. ASSUME NEW i
      PROVE  /\ Row(i).name = probes[i] /\ Row(i).verdict = verdicts[i]
             /\ Row(i).count = Len(chains[i]) /\ Row(i).risk = ProbeRisk(chains[i])
  BY DEF Row
<1>4. QED
  BY <1>1, <1>2, <1>3

(* What is printed at the end of a run covers what is printed under it.    *)
LEMMA DocumentsCover ==
  ASSUME Typed, risk = [x10 |-> Highest(Scores), label |-> LabelOf(OverallRisk(Scores))]
  PROVE  Covers(JsonDocument) /\ CoversFindings(JsonDocument) /\ Covers(HtmlDocument)
<1>1. /\ risk.x10 \in 0 .. 100
      /\ \A i \in 1 .. Len(probes) :
           /\ 100 * risk.x10 >= ProbeRisk(chains[i])
           /\ LabelToInt[risk.label] >= LabelToInt[LabelOf(ProbeRisk(chains[i]))]
           /\ \A k \in 1 .. Len(chains[i]) :
                100 * risk.x10 >= FindingRisk(chains[i][k].severity, chains[i][k].weight)
  BY RiskOfRun
<1>2. /\ Len(Rows) = Len(probes)
      /\ \A i \in 1 .. Len(probes) : Rows[i].risk = ProbeRisk(chains[i])
  BY RowsType
<1>3. risk.x10 <= 100
  <2> DEFINE x == risk.x10
  <2>1. x \in 0 .. 100
    BY <1>1
  <2> HIDE DEF x
  <2>2. x <= 100
    BY <2>1
  <2>3. QED
    BY <2>2 DEF x
<1>4. /\ JsonDocument.rows = Rows /\ JsonDocument.findings = chains
      /\ JsonDocument.overall = risk.x10 /\ JsonDocument.label = risk.label
  BY DEF JsonDocument
<1>5. /\ HtmlDocument.rows = Rows
      /\ HtmlDocument.overall = risk.x10 /\ HtmlDocument.label = risk.label
  BY DEF HtmlDocument
<1>6. Covers(JsonDocument)
  BY <1>1, <1>2, <1>3, <1>4, Zenon DEF Covers
<1>7. CoversFindings(JsonDocument)
  BY <1>1, <1>2, <1>4, Zenon DEF CoversFindings
<1>8. Covers(HtmlDocument)
  BY <1>1, <1>2, <1>3, <1>5, Zenon DEF Covers
<1>9. QED
  BY <1>6, <1>7, <1>8

(* Only two steps print.                                                   *)
LEMMA Printers ==
  ASSUME [Next]_vars
  PROVE  EmitJson \/ EmitHtml \/ (json' = json /\ html' = html)
<1>1. CASE \/ ParseOption \/ UsageError \/ EndOptions \/ SelectProbe \/ RuntimeInit
           \/ RunProbe \/ Aggregate \/ Finish \/ Killed \/ OutOfMemory \/ UNCHANGED vars
  BY <1>1, Zenon DEF ParseOption, UsageError, EndOptions, SelectProbe, RuntimeInit, RunProbe,
                     Aggregate, Finish, Killed, OutOfMemory, vars
<1>2. QED
  BY <1>1, Zenon DEF Next

LEMMA RiskCoversStep ==
  Typed /\ NothingYet /\ Scored /\ RiskCovers /\ [Next]_vars => RiskCovers'
<1> SUFFICES ASSUME Typed, NothingYet, Scored, RiskCovers, [Next]_vars PROVE RiskCovers'
  OBVIOUS
<1>1. \A d \in Printed : Covers(d) /\ (d = json => CoversFindings(d))
  BY RiskCoversParts
<1>2. SUFFICES \A d \in Printed' : Covers(d) /\ (d = json' => CoversFindings(d))
  BY Zenon DEF RiskCovers, Covers, CoversFindings
<1>3. CASE EmitJson
  <2>1. pc = "json" /\ html' = html /\ json' = IF args.json THEN JsonDocument ELSE json
    BY <1>3, Zenon DEF EmitJson
  <2>2. json = NoDocument /\ html = NoDocument
    BY <2>1 DEF NothingYet
  <2>3. Printed' \subseteq {JsonDocument}
    BY <2>1, <2>2 DEF Printed
  <2>4. Covers(JsonDocument) /\ CoversFindings(JsonDocument)
    BY <2>1, DocumentsCover DEF Scored
  <2>5. QED
    BY <2>3, <2>4, Zenon
<1>4. CASE EmitHtml
  <2>1. pc = "html" /\ json' = json /\ html' = IF args.html THEN HtmlDocument ELSE html
    BY <1>4, Zenon DEF EmitHtml
  <2>2. html = NoDocument
    BY <2>1 DEF NothingYet
  <2>3. Covers(HtmlDocument)
    BY <2>1, DocumentsCover DEF Scored
  <2>4. ASSUME NEW d \in Printed' PROVE d = HtmlDocument \/ (d = json /\ d \in Printed)
    BY <2>1, <2>2, <2>4 DEF Printed
  <2>5. json \in Printed \/ json = NoDocument
    BY DEF Printed
  <2>6. NoDocument \notin Printed'
    BY DEF Printed
  <2>7. QED
    BY <1>1, <2>1, <2>3, <2>4, <2>5, <2>6, Zenon
<1>5. CASE json' = json /\ html' = html
  BY <1>1, <1>5, Zenon DEF Printed
<1>6. QED
  BY <1>3, <1>4, <1>5, Printers

(* The paths printed are borne out by the findings printed with them.      *)
LEMMA PathsStep == Typed /\ Scored /\ PathsBorneOut /\ [Next]_vars => PathsBorneOut'
<1> SUFFICES ASSUME Typed, Scored, PathsBorneOut, [Next]_vars PROVE PathsBorneOut'
  OBVIOUS
<1>1. CASE json' = json
  BY <1>1, Zenon DEF PathsBorneOut
<1>2. CASE EmitJson /\ json' = JsonDocument
  <2>1. pc = "json"
    BY <1>2, Zenon DEF EmitJson
  <2>2. risk = [x10 |-> Highest(Scores), label |-> LabelOf(OverallRisk(Scores))]
    BY <2>1 DEF Scored
  <2>3. \A i \in 1 .. Len(probes) : \A k \in 1 .. Len(chains[i]) :
          /\ chains[i][k].severity \in Severity
          /\ chains[i][k].severity # INFO => risk.label # "INFO" /\ risk.x10 > 0
    BY <2>2, RiskOfRun
  <2>4. /\ Len(Rows) = Len(probes)
        /\ \A i \in 1 .. Len(probes) :
             Rows[i].verdict = verdicts[i] /\ Rows[i].name = probes[i]
    BY RowsType
  <2>5. /\ json'.rows = Rows /\ json'.findings = chains /\ json'.paths = Paths
        /\ json'.overall = risk.x10 /\ json'.label = risk.label
    BY <1>2 DEF JsonDocument
  <2>6. ASSUME NEW t \in Paths
        PROVE  /\ risk.label # "INFO" /\ risk.x10 > 0
               /\ \E i \in 1 .. Len(Rows) : \E k \in 1 .. Len(chains[i]) :
                    /\ Rows[i].verdict # "REJECT"
                    /\ chains[i][k].severity > INFO
                    /\ TokenOf(Rows[i].name, chains[i][k]) = t
    <3>1. PICK i \in 1 .. Len(probes) : \E k \in 1 .. Len(chains[i]) :
            Counts(verdicts[i], chains[i][k]) /\ TokenOf(probes[i], chains[i][k]) = t
      BY Zenon DEF Paths
    <3>2. PICK k \in 1 .. Len(chains[i]) :
            Counts(verdicts[i], chains[i][k]) /\ TokenOf(probes[i], chains[i][k]) = t
      BY <3>1
    <3>3. verdicts[i] # "REJECT" /\ chains[i][k].severity # INFO
      BY <3>2, Zenon DEF Counts
    <3>4. chains[i][k].severity > INFO
      <4> DEFINE s == chains[i][k].severity
      <4>1. s \in Severity /\ s # INFO
        BY <2>3, <3>3
      <4> HIDE DEF s
      <4>2. s > INFO
        BY <4>1 DEF Severity, INFO
      <4>3. QED
        BY <4>2 DEF s
    <3>5. Rows[i].verdict = verdicts[i] /\ Rows[i].name = probes[i]
      BY <2>4
    <3>6. risk.label # "INFO" /\ risk.x10 > 0
      BY <2>3, <3>3
    <3>7. QED
      BY <2>4, <3>2, <3>3, <3>4, <3>5, <3>6, Zenon
  <2>7. QED
    BY <2>5, <2>6, Zenon DEF PathsBorneOut
<1>3. CASE EmitJson /\ json' # JsonDocument
  BY <1>1, <1>3, Zenon DEF EmitJson
<1>4. CASE EmitHtml
  BY <1>1, <1>4, Zenon DEF EmitHtml
<1>5. QED
  BY <1>1, <1>2, <1>3, <1>4, Printers, Zenon

(* What ExitExplained calls evidence.                                      *)
Evident(d) == \E i \in 1 .. Len(d.rows) : d.rows[i].count > 0
Certain(d) == \E i \in 1 .. Len(d.rows) : d.rows[i].verdict = "DETERMINISTIC"

(* The exit status is explained by what was printed.                       *)
LEMMA ExitExplainedStep ==
  ASSUME IInv, [Next]_vars PROVE ExitExplained'
<1>1. EXIT_OK # EXIT_PROBE /\ EXIT_OK # EXIT_VULN /\ EXIT_PROBE # EXIT_VULN
  BY DEF EXIT_OK, EXIT_PROBE, EXIT_VULN
<1>2. NoExit # EXIT_OK /\ NoExit # EXIT_VULN /\ NoExit # EXIT_PROBE
  BY DEF EXIT_OK, EXIT_PROBE, EXIT_VULN, NoExit
<1>3. RunTyped /\ ExitTyped
  BY TypedParts DEF IInv
<1>4. CASE Finish
  <2>1. /\ pc = "finish" /\ exit' = Status
        /\ json' = json /\ html' = html /\ failed' = failed
    BY <1>4, Zenon DEF Finish, Exit
  <2> DEFINE Some == \E i \in 1 .. Len(probes) : Len(chains[i]) > 0
             Sure == \E i \in 1 .. Len(probes) : verdicts[i] = "DETERMINISTIC"
  <2>2. risk = [x10 |-> Highest(Scores), label |-> LabelOf(OverallRisk(Scores))]
    BY <2>1 DEF IInv, Scored
  <2>3. risk.x10 > 0 <=> Some
    BY <2>2, RiskOfRun DEF IInv
  <2>4. /\ Len(Rows) = Len(probes)
        /\ \A i \in 1 .. Len(probes) :
             Rows[i].count = Len(chains[i]) /\ Rows[i].verdict = verdicts[i]
    BY RowsType DEF IInv
  <2>5. (Evident(JsonDocument) <=> Some) /\ (Certain(JsonDocument) <=> Sure)
    <3>1. JsonDocument.rows = Rows
      BY DEF JsonDocument
    <3>2. QED
      BY <2>4, <3>1 DEF Evident, Certain
  <2>6. (Evident(HtmlDocument) <=> Some) /\ (Certain(HtmlDocument) <=> Sure)
    <3>1. HtmlDocument.rows = Rows
      BY DEF HtmlDocument
    <3>2. QED
      BY <2>4, <3>1 DEF Evident, Certain
  <2>7. JsonDocument # NoDocument /\ HtmlDocument # NoDocument
    <3>1. risk.x10 \in 0 .. 100
      BY <2>2, RiskOfRun DEF IInv
    <3>2. ~ (-1 \in 0 .. 100)
      OBVIOUS
    <3>3. /\ JsonDocument.overall = risk.x10 /\ HtmlDocument.overall = risk.x10
          /\ NoDocument.overall = -1
      BY DEF JsonDocument, HtmlDocument, NoDocument
    <3>4. QED
      BY <3>1, <3>2, <3>3, Zenon
  <2>8. /\ json = IF args.json THEN JsonDocument ELSE NoDocument
        /\ html = IF args.html THEN HtmlDocument ELSE NoDocument
        /\ args.json \/ args.html
    BY <2>1 DEF IInv, PrintedSoFar, NothingYet, Started
  <2>9. /\ Printed' # {}
        /\ \A d \in Printed' : (Evident(d) <=> Some) /\ (Certain(d) <=> Sure)
    <3>1. Printed' = {d \in {json, html} : d # NoDocument}
      BY <2>1, Zenon DEF Printed
    <3>2. QED
      BY <2>5, <2>6, <2>7, <2>8, <3>1, Zenon
  <2>10. /\ worst = EXIT_OK => failed = {}
         /\ worst = EXIT_PROBE => failed # {}
         /\ worst = EXIT_VULN => Some /\ Sure
    <3>1. Started
      BY <2>1 DEF Started
    <3>2. ran <= Len(probes) /\ ran \in Nat /\ Len(probes) \in Nat
      <4>1. ListsTyped
        BY TypedParts DEF IInv
      <4>2. QED
        BY <1>3, <3>1, <4>1 DEF IInv, Mirrored, RunTyped, ListsTyped
    <3>3. 1 .. ran \subseteq 1 .. Len(probes)
      BY <3>2
    <3>4. QED
      BY <3>1, <3>3, Zenon DEF IInv, Judged
  <2> HIDE DEF Some, Sure
  <2>11. /\ exit' = EXIT_OK => failed = {} /\ ~ Some
         /\ exit' = EXIT_PROBE => failed # {}
         /\ exit' = EXIT_VULN => Some /\ (failed # {} => Sure)
    <3>1. CASE worst = EXIT_OK /\ risk.x10 > 0
      <4>1. exit' = EXIT_VULN
        BY <2>1, <3>1, Zenon DEF Status
      <4>2. QED
        BY <1>1, <2>3, <2>10, <3>1, <4>1
    <3>2. CASE ~ (worst = EXIT_OK /\ risk.x10 > 0)
      <4>1. exit' = worst
        BY <2>1, <3>2, Zenon DEF Status
      <4>2. QED
        BY <2>3, <2>10, <3>2, <4>1, Zenon
    <3>3. QED
      BY <3>1, <3>2
  <2>12. QED
    BY <2>1, <2>9, <2>11, Zenon DEF ExitExplained, Evident, Certain
<1>5. CASE UsageError \/ EndOptions
  <2>1. pc = "parse" /\ json' = json /\ html' = html /\ failed' = failed
    BY <1>5, Zenon DEF UsageError, EndOptions
  <2>2. json' = NoDocument /\ html' = NoDocument /\ failed' = {}
    BY <2>1 DEF IInv, NothingYet
  <2>3. Printed' = {}
    BY <2>2 DEF Printed
  <2>4. exit' \in {EXIT_PROBE, EXIT_OK, exit}
    BY <1>5, Zenon DEF UsageError, EndOptions, Exit
  <2>5. exit = NoExit
    BY <1>3, <2>1 DEF ExitTyped
  <2>6. exit' # EXIT_VULN
    BY <1>1, <1>2, <2>4, <2>5
  <2>7. QED
    BY <2>2, <2>3, <2>6, Zenon DEF ExitExplained
<1>6. CASE \/ ParseOption \/ SelectProbe \/ RuntimeInit \/ RunProbe \/ Aggregate
           \/ EmitJson \/ EmitHtml \/ Killed \/ OutOfMemory
  <2>1. pc # "exited" /\ exit' = exit
    <3>1. CASE ParseOption
      BY <3>1 DEF ParseOption
    <3>2. CASE SelectProbe \/ RuntimeInit
      BY <3>2 DEF SelectProbe, RuntimeInit
    <3>3. CASE RunProbe \/ Aggregate
      BY <3>3 DEF RunProbe, Aggregate
    <3>4. CASE EmitJson \/ EmitHtml
      BY <3>4 DEF EmitJson, EmitHtml
    <3>5. CASE Killed \/ OutOfMemory
      BY <3>5 DEF Killed, OutOfMemory
    <3>6. QED
      BY <1>6, <3>1, <3>2, <3>3, <3>4, <3>5, Zenon
  <2>2. exit' = NoExit
    BY <1>3, <2>1 DEF ExitTyped
  <2>3. QED
    BY <1>2, <2>2, Zenon DEF ExitExplained
<1>7. CASE UNCHANGED vars
  <2>1. UNCHANGED <<exit, failed, json, html>>
    BY <1>7, Zenon DEF vars
  <2>2. QED
    BY <2>1, Zenon DEF IInv, ExitExplained, Printed
<1>8. QED
  BY <1>4, <1>5, <1>6, <1>7, Zenon DEF Next

-----------------------------------------------------------------------------

(***************************************************************************)
(* The inductive invariant: what zp_runtime_init has selected so far, what *)
(* the loop of zp_run_probes has recorded and judged, what the scores, the *)
(* documents and the exit status have been made of.                        *)
(***************************************************************************)
THEOREM Invariant == Spec => []IInv
<1>1. Init => IInv
  BY InitIInv
<1>2. IInv /\ [Next]_vars => IInv'
  <2> SUFFICES ASSUME IInv, [Next]_vars PROVE IInv'
    OBVIOUS
  <2>1. Typed'
    BY TypedStep DEF IInv
  <2>2. NothingYet' /\ SelectedSoFar'
    BY NothingYetStep, SelectedStep DEF IInv
  <2>3. Mirrored' /\ Judged'
    BY MirroredStep, JudgedStep DEF IInv
  <2>4. Scored' /\ PrintedSoFar'
    BY PrintedStep DEF IInv
  <2>5. RiskCovers' /\ PathsBorneOut'
    BY RiskCoversStep, PathsStep DEF IInv
  <2>6. ExitExplained'
    BY ExitExplainedStep
  <2>7. QED
    BY <2>1, <2>2, <2>3, <2>4, <2>5, <2>6 DEF IInv
<1>3. QED
  BY <1>1, <1>2, PTL DEF Spec

(***************************************************************************)
(* The state of main, of struct zp_runtime and of struct audit_ctx keeps   *)
(* its types in every run, with any registry and any probes.               *)
(***************************************************************************)
THEOREM TypeCorrect == Spec => []TypeOK
<1>1. IInv => TypeOK
  BY DEF IInv, Typed
<1>2. QED
  BY <1>1, Invariant, PTL

(***************************************************************************)
(* zp_runtime_init and probe_selected run the probes asked for, once each, *)
(* in the registry's order, whatever the options.                          *)
(***************************************************************************)
THEOREM HonoursSelection == Spec => []SelectionHonoured
<1>1. ASSUME IInv PROVE SelectionHonoured
  <2> SUFFICES ASSUME Started PROVE SelectionHonoured
    BY DEF SelectionHonoured
  <2> DEFINE Run == {probes[i] : i \in 1 .. Len(probes)}
  <2>1. /\ \A k \in 1 .. Len(Registry) : Selected(Registry[k]) => Registry[k] \in Run
        /\ \A p \in Run : \E k \in 1 .. Len(Registry) : Registry[k] = p /\ Selected(p)
        /\ \A i, j \in 1 .. Len(probes) : i < j =>
             \E k, m \in 1 .. Len(Registry) :
               k < m /\ Registry[k] = probes[i] /\ Registry[m] = probes[j]
    <3>0. SelectedSoFar
      BY <1>1, Zenon DEF IInv
    <3>1. /\ \A k \in 1 .. looked :
               Selected(Registry[k]) => \E i \in 1 .. Len(probes) : probes[i] = Registry[k]
          /\ \A i \in 1 .. Len(probes) :
               \E k \in 1 .. looked : Registry[k] = probes[i] /\ Selected(Registry[k])
          /\ \A i, j \in 1 .. Len(probes) : i < j =>
               \E k, m \in 1 .. looked :
                 k < m /\ Registry[k] = probes[i] /\ Registry[m] = probes[j]
          /\ looked = Len(Registry)
      BY <3>0, Zenon DEF SelectedSoFar
    <3>2. /\ \A k \in 1 .. Len(Registry) :
               Selected(Registry[k]) => \E i \in 1 .. Len(probes) : probes[i] = Registry[k]
          /\ \A i \in 1 .. Len(probes) :
               \E k \in 1 .. Len(Registry) : Registry[k] = probes[i] /\ Selected(Registry[k])
          /\ \A i, j \in 1 .. Len(probes) : i < j =>
               \E k, m \in 1 .. Len(Registry) :
                 k < m /\ Registry[k] = probes[i] /\ Registry[m] = probes[j]
      BY <3>1, SMT
    <3>3. ASSUME NEW k \in 1 .. Len(Registry), Selected(Registry[k])
          PROVE  Registry[k] \in Run
      BY <3>2, <3>3
    <3>4. ASSUME NEW p \in Run
          PROVE  \E k \in 1 .. Len(Registry) : Registry[k] = p /\ Selected(p)
      <4>1. PICK i \in 1 .. Len(probes) : probes[i] = p
        BY <3>4
      <4>2. QED
        BY <3>2, <4>1
    <3>5. QED
      BY <3>2, <3>3, <3>4
  <2>2. \A p : p \in Run <=> p \in Registered /\ Selected(p)
    BY <2>1 DEF Registered
  <2> HIDE DEF Run
  <2>3. CASE args.runAll
    <3>1. Run = Registered
      BY <2>2, <2>3 DEF Selected
    <3>2. QED
      BY <2>1, <2>3, <3>1 DEF SelectionHonoured, Run
  <2>4. CASE ~ args.runAll
    <3>1. \A p : Selected(p) <=> p \in {args.probes[i] : i \in 1 .. Len(args.probes)}
      BY <2>4 DEF Selected
    <3>2. Run = Registered \cap {args.probes[i] : i \in 1 .. Len(args.probes)}
      BY <2>2, <3>1
    <3>3. QED
      BY <2>1, <2>4, <3>2 DEF SelectionHonoured, Run
  <2>5. QED
    BY <2>3, <2>4
<1>2. QED
  BY <1>1, Invariant, PTL

(***************************************************************************)
(* audit_ctx_add_probe and audit_ctx_add_finding keep the audit context a  *)
(* mirror of the chains, whatever room it starts with.                     *)
(***************************************************************************)
THEOREM MirrorsChains == Spec => []AuditMirrorsChains
<1>1. IInv => AuditMirrorsChains
  BY DEF IInv, Mirrored, AuditMirrorsChains
<1>2. QED
  BY <1>1, Invariant, PTL

(***************************************************************************)
(* The risk that audit_emit_json and audit_emit_html print covers every    *)
(* finding and every probe of the report, in number and in label.          *)
(***************************************************************************)
THEOREM CoversAll == Spec => []RiskCovers
<1>1. IInv => RiskCovers
  BY DEF IInv
<1>2. QED
  BY <1>1, Invariant, PTL

(***************************************************************************)
(* Every escalation path that zp_compose_json puts into the report rests   *)
(* on a finding above INFO of the same report, and the report's label is   *)
(* above INFO.                                                             *)
(***************************************************************************)
THEOREM PathsRest == Spec => []PathsBorneOut
<1>1. IInv => PathsBorneOut
  BY DEF IInv
<1>2. QED
  BY <1>1, Invariant, PTL

(***************************************************************************)
(* The exit status of main is explained by what failed and by what was     *)
(* printed.                                                                *)
(***************************************************************************)
THEOREM ExplainsExit == Spec => []ExitExplained
<1>1. IInv => ExitExplained
  BY DEF IInv
<1>2. QED
  BY <1>1, Invariant, PTL
=============================================================================
