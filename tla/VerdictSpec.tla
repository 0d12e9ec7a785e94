----------------------------- MODULE VerdictSpec -----------------------------
(***************************************************************************)
(* What an evidence chain promises its callers, whatever it is made of:    *)
(* evidence is weighed into three classes, a judgement adopts the class    *)
(* that weighs most, and closing the chain empties it.  Neither the order  *)
(* in which evidence arrived nor the size of a single piece of it matters. *)
(***************************************************************************)
EXTENDS Truthimatics

VARIABLES
  sum,       \* the weight of the evidence in each class
  verdict,   \* the last judgement
  stage      \* "open" until the chain is closed

vars == <<sum, verdict, stage>>

Init ==
  /\ sum = NoWeight
  /\ verdict = "UNCERTAIN"
  /\ stage = "open"

Weigh(v, w) ==
  /\ stage = "open"
  /\ sum' = [sum EXCEPT ![v] = @ + w]
  /\ UNCHANGED <<verdict, stage>>

Judge ==
  /\ stage = "open"
  /\ verdict' = Plurality(sum)
  /\ UNCHANGED <<sum, stage>>

Close ==
  /\ stage = "open"
  /\ stage' = "closed"
  /\ sum' = NoWeight
  /\ UNCHANGED verdict

Next ==
  \/ \E v \in Verdict, w \in Weight : Weigh(v, w)
  \/ Judge
  \/ Close

Spec == Init /\ [][Next]_vars
=============================================================================
