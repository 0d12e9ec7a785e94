---------------------------- MODULE EvidenceChain ----------------------------
(***************************************************************************)
(* One evidence chain (src/truthimatics): a singly linked list of links on *)
(* the heap, running totals kept beside it, the verdict engine that reads  *)
(* both, and the release that frees the list.                              *)
(*                                                                         *)
(* A call is one step when it has no loop.  zp_engine_decide and           *)
(* zp_evidence_chain_release walk the list, one link a step; meanwhile no  *)
(* other call runs, for a chain belongs to the one thread of the tool.     *)
(***************************************************************************)
EXTENDS Truthimatics, Sequences

CONSTANTS
  Address,   \* where zp_calloc can put a link
  NULL,      \* the null pointer
  Given      \* the evidence callers pass: a weight, a verdict, a severity

ASSUME AddressAssumption == NULL \notin Address
ASSUME GivenAssumption   == Given \subseteq Int \X Verdict \X Severity

VARIABLES
  pc,        \* "open" between calls; "walk" and "releasing" inside one
  heap,      \* the allocated links, by address
  head, tail, count,
  total,     \* total_weight
  sum,       \* det_weight, rej_weight, unc_weight
  verdict,
  maxSeverity,
  cursor,    \* the local variable link of the running loop
  top,       \* the local variable top of zp_engine_decide
  order,     \* history: the live links in the order they were added
  since      \* history: classes of the links added since the last decision

vars == <<pc, heap, head, tail, count, total, sum, verdict, maxSeverity,
          cursor, top, order, since>>

Link == [weight: Weight, verdict: Verdict, severity: Severity,
         next: Address \cup {NULL}]

Live == DOMAIN heap

-----------------------------------------------------------------------------

(* zp_evidence_chain_init *)
Init ==
  /\ pc = "open"
  /\ heap = [a \in {} |-> NULL]
  /\ head = NULL /\ tail = NULL /\ count = 0
  /\ total = 0
  /\ sum = NoWeight
  /\ verdict = "UNCERTAIN"
  /\ maxSeverity = INFO
  /\ cursor = NULL
  /\ top = "UNCERTAIN"
  /\ order = << >>
  /\ since = {}

(* The list as it would be if the old tail were not made to point to l.    *)
Unlinked(a, l) == [b \in Live \cup {a} |-> IF b = a THEN l ELSE heap[b]]

(* The heap once link l is stored at a and the old tail points to it.      *)
Linked(a, l) ==
  [b \in Live \cup {a} |->
     IF b = a THEN l
     ELSE IF b = tail THEN [heap[b] EXCEPT !.next = a]
     ELSE heap[b]]

(* The sums if the second test came without its else.                      *)
WeighedTwice(v, w) ==
  [u \in Verdict |-> IF u = v \/ (v = "DETERMINISTIC" /\ u = "REJECT") THEN sum[u] + w ELSE sum[u]]

(* The class sums after w more of verdict v.                               *)
Weighed(v, w) == [sum EXCEPT ![v] = @ + w]

(* zp_evidence_add: the allocation succeeds at a fresh address.            *)
Add(given, v, s) ==
  LET w == Clamp(given) IN
  /\ pc = "open"
  /\ \E a \in Address \ Live :
       /\ heap' = Linked(a, [weight |-> w, verdict |-> v, severity |-> s, next |-> NULL])
       /\ head' = IF tail = NULL THEN a ELSE head
       /\ tail' = a
       /\ order' = Append(order, a)
  /\ count' = count + 1
  /\ total' = total + w
  /\ sum' = Weighed(v, w)
  /\ maxSeverity' = IF s > maxSeverity THEN s ELSE maxSeverity
  /\ since' = since \cup {v}
  /\ UNCHANGED <<pc, verdict, cursor, top>>

(* zp_calloc finds no memory and ends the process.                         *)
OutOfMemory ==
  /\ pc = "open"
  /\ pc' = "aborted"
  /\ UNCHANGED <<heap, head, tail, count, total, sum, verdict, maxSeverity,
                 cursor, top, order, since>>

-----------------------------------------------------------------------------

(* TopClass with comparisons that are not strict.                          *)
TopClassLoose ==
  LET det == sum["DETERMINISTIC"]
      rej == sum["REJECT"]
      unc == sum["UNCERTAIN"]
      best == IF det >= rej THEN det ELSE rej
  IN IF unc >= best THEN "UNCERTAIN"
     ELSE IF det >= rej THEN "DETERMINISTIC" ELSE "REJECT"

(* TopClass with its last comparison the wrong way round.                  *)
TopClassSwapped ==
  LET det == sum["DETERMINISTIC"]
      rej == sum["REJECT"]
      unc == sum["UNCERTAIN"]
      best == IF det > rej THEN det ELSE rej
  IN IF unc < best THEN "UNCERTAIN"
     ELSE IF det > rej THEN "DETERMINISTIC" ELSE "REJECT"

(* The top class once no majority of REJECT has ended the decision: each   *)
(* comparison is strict, so the class looked at first keeps a tie.         *)
TopClass ==
  LET det == sum["DETERMINISTIC"]
      rej == sum["REJECT"]
      unc == sum["UNCERTAIN"]
      best == IF det > rej THEN det ELSE rej
  IN IF unc > best THEN "UNCERTAIN"
     ELSE IF det > rej THEN "DETERMINISTIC" ELSE "REJECT"

Weightless == count = 0 \/ total <= 0

(* A majority that half of the weight is enough for.                       *)
MajorityOrHalf(w) == 2 * w >= total
Majority(w) == 2 * w > total

(* A decision is made and zp_engine_decide returns.                        *)
Return(v) ==
  /\ verdict' = v
  /\ pc' = "open"
  /\ cursor' = NULL
  /\ since' = {}

(* zp_engine_decide up to its loop: two early returns, or the loop starts. *)
Decide ==
  /\ pc = "open"
  /\ \/ /\ Weightless
        /\ Return("UNCERTAIN")
        /\ UNCHANGED top
     \/ /\ ~Weightless
        /\ Majority(sum["REJECT"])
        /\ Return("REJECT")
        /\ UNCHANGED top
     \/ /\ ~Weightless
        /\ ~Majority(sum["REJECT"])
        /\ top' = TopClass
        /\ pc' = "walk"
        /\ cursor' = head
        /\ UNCHANGED <<verdict, since>>
  /\ UNCHANGED <<heap, head, tail, count, total, sum, maxSeverity, order>>

(* The loop of zp_engine_decide with a light link never left behind.       *)
WalkStuck ==
  /\ pc = "walk"
  /\ \/ /\ cursor # NULL
        /\ Majority(heap[cursor].weight)
        /\ Return(heap[cursor].verdict)
     \/ /\ cursor = NULL
        /\ Return(top)
  /\ UNCHANGED <<heap, head, tail, count, total, sum, maxSeverity, top, order>>

(* The loop of zp_engine_decide, one link a step.                          *)
Walk ==
  /\ pc = "walk"
  /\ \/ /\ cursor # NULL
        /\ Majority(heap[cursor].weight)
        /\ Return(heap[cursor].verdict)
     \/ /\ cursor # NULL
        /\ ~Majority(heap[cursor].weight)
        /\ cursor' = heap[cursor].next
        /\ UNCHANGED <<pc, verdict, since>>
     \/ /\ cursor = NULL
        /\ Return(top)
  /\ UNCHANGED <<heap, head, tail, count, total, sum, maxSeverity, top, order>>

-----------------------------------------------------------------------------

(* zp_evidence_chain_release enters its loop.                              *)
Release ==
  /\ pc = "open"
  /\ pc' = "releasing"
  /\ cursor' = head
  /\ UNCHANGED <<heap, head, tail, count, total, sum, verdict, maxSeverity,
                 top, order, since>>

(* One turn of the loop: next is read before the link is freed.            *)
Free ==
  /\ pc = "releasing"
  /\ cursor # NULL
  /\ cursor' = heap[cursor].next
  /\ heap' = [a \in Live \ {cursor} |-> heap[a]]
  /\ order' = Tail(order)
  /\ UNCHANGED <<pc, head, tail, count, total, sum, verdict, maxSeverity, top, since>>

(* The fields are cleared; verdict and max_severity keep their last values. *)
Released ==
  /\ pc = "releasing"
  /\ cursor = NULL
  /\ pc' = "released"
  /\ head' = NULL /\ tail' = NULL /\ count' = 0
  /\ total' = 0
  /\ sum' = NoWeight
  /\ UNCHANGED <<heap, verdict, maxSeverity, cursor, top, order, since>>

-----------------------------------------------------------------------------

Next ==
  \/ \E g \in Given : Add(g[1], g[2], g[3])
  \/ OutOfMemory
  \/ Decide
  \/ Walk
  \/ Release
  \/ Free
  \/ Released

(* A call that has started runs on: nothing in its loop waits.             *)
Fairness == WF_vars(Walk) /\ WF_vars(Free) /\ WF_vars(Released)

Spec == Init /\ [][Next]_vars
FairSpec == Spec /\ Fairness

-----------------------------------------------------------------------------

(* What the chain promises.                                                *)
V == INSTANCE VerdictSpec
       WITH stage <- IF pc = "released" THEN "closed" ELSE "open"

(* Type correctness of the chain, its heap and the locals of the loops.    *)
TypeOK ==
  /\ pc \in {"open", "walk", "releasing", "released", "aborted"}
  /\ Live \subseteq Address /\ heap \in [Live -> Link]
  /\ head \in Address \cup {NULL}
  /\ tail \in Address \cup {NULL}
  /\ count \in Nat
  /\ total \in Nat
  /\ sum \in [Verdict -> Nat]
  /\ verdict \in Verdict /\ top \in Verdict
  /\ maxSeverity \in Severity
  /\ cursor \in Address \cup {NULL}
  /\ order \in Seq(Address)
  /\ since \subseteq Verdict

Front == IF order = << >> THEN NULL ELSE order[1]
Back  == IF order = << >> THEN NULL ELSE order[Len(order)]

(***************************************************************************)
(* The list is the links added, in that order, each exactly once: what is  *)
(* allocated is what the list holds, the pointers follow the order and the *)
(* last is null, head, tail and count agree with it, and a loop never      *)
(* holds a pointer to a freed link.  At the end nothing is left allocated. *)
(***************************************************************************)
ChainLinked ==
  /\ Live = {order[i] : i \in 1 .. Len(order)}
  /\ \A i, j \in 1 .. Len(order) : order[i] = order[j] => i = j
  /\ \A i \in 1 .. Len(order) :
       heap[order[i]].next = IF i = Len(order) THEN NULL ELSE order[i + 1]
  /\ pc \in {"open", "walk", "aborted"} =>
       head = Front /\ tail = Back /\ count = Len(order)
  /\ pc = "walk" => cursor \in Live \cup {NULL}
  /\ pc = "releasing" => cursor = Front
  /\ pc = "released" => Live = {} /\ head = NULL /\ tail = NULL /\ count = 0

(* The weights along the list, of the links of some classes only.          *)
Weights(classes) ==
  [i \in 1 .. Len(order) |->
     IF heap[order[i]].verdict \in classes THEN heap[order[i]].weight ELSE 0]

(***************************************************************************)
(* The running totals never drift from the list: each class holds the      *)
(* clamped weights of exactly its own links, total_weight holds them all,  *)
(* and max_severity is the severity of the worst link.                     *)
(***************************************************************************)
Sums ==
  pc \in {"open", "walk", "aborted"} =>
    /\ \A v \in Verdict : sum[v] = Total(Weights({v}))
    /\ total = Total(Weights(Verdict))
    /\ \A a \in Live : heap[a].severity <= maxSeverity
    /\ maxSeverity = INFO \/ \E a \in Live : heap[a].severity = maxSeverity

(***************************************************************************)
(* What follows from Sums without adding up a list: total_weight is the    *)
(* three classes together and a link weighs no more than its class.        *)
(***************************************************************************)
Balance ==
  /\ total = sum["DETERMINISTIC"] + sum["REJECT"] + sum["UNCERTAIN"]
  /\ pc # "released" => \A a \in Live : heap[a].weight <= sum[heap[a].verdict]
  /\ count = 0 => total = 0

(***************************************************************************)
(* While zp_engine_decide walks, its fallback is already the plurality.    *)
(***************************************************************************)
FallbackIsPlurality == pc = "walk" => total > 0 /\ top = Plurality(sum)

(***************************************************************************)
(* Evidence for the verdict in force cannot overturn it: until a link of   *)
(* another class arrives, deciding again would give the same answer.       *)
(***************************************************************************)
VerdictSupported ==
  pc \in {"open", "walk"} /\ since \subseteq {verdict} => Plurality(sum) = verdict

(***************************************************************************)
(* The three together: why the engine's shortcuts are harmless.            *)
(***************************************************************************)
ShortcutsAgree == Balance /\ FallbackIsPlurality /\ VerdictSupported

(***************************************************************************)
(* A decision changes the verdict only when evidence of a class other than *)
(* the verdict's came in since the last decision; nothing but a decision   *)
(* changes it, releasing the chain included.                               *)
(***************************************************************************)
OnlyContraryEvidenceOverturns ==
  [][verdict' # verdict => \E v \in since : v # verdict]_vars

(***************************************************************************)
(* Every decision and every release that starts comes to its end.          *)
(***************************************************************************)
CallsReturn ==
  /\ pc = "walk" ~> pc = "open"
  /\ pc = "releasing" ~> pc = "released"

(***************************************************************************)
(* The chain is a VerdictSpec: neither the early return for a majority of  *)
(* REJECT nor a single link heavier than all others together makes the     *)
(* verdict anything but the heaviest class.                                *)
(***************************************************************************)
ImplementsVerdictSpec == V!Spec

(***************************************************************************)
(* The tie-breakers that engine.c states at its head (lines 10-11):        *)
(* "DETERMINISTIC loses ties with both".                                   *)
(***************************************************************************)
DeterministicLosesTies ==
  pc = "open" /\ since = {} /\ count > 0 /\ verdict = "DETERMINISTIC" =>
    \A v \in Verdict \ {"DETERMINISTIC"} : sum["DETERMINISTIC"] > sum[v]
=============================================================================
