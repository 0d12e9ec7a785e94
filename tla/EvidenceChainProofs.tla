------------------------- MODULE EvidenceChainProofs -------------------------
(***************************************************************************)
(* What TLC finds of EvidenceChain on three links, proved for any set of   *)
(* addresses and any evidence: its types, the shape of its list, and that  *)
(* it implements VerdictSpec.                                              *)
(***************************************************************************)
EXTENDS EvidenceChain, Arithmetic, SequenceTheorems, TLAPS

USE AddressAssumption, GivenAssumption DEF AddressAssumption, GivenAssumption

-----------------------------------------------------------------------------

(* Clamping puts any weight a caller gives between 0 and 1.                *)
LEMMA ClampWeight == \A w \in Int : Clamp(w) \in Weight
  BY DEF Clamp, Weight, WeightOne

(* More weight for the class that leads leaves it in the lead.             *)
LEMMA PluralityGrows ==
  ASSUME NEW s \in [Verdict -> Nat], NEW v \in Verdict, NEW w \in Nat,
         Plurality(s) = v
  PROVE  Plurality([s EXCEPT ![v] = @ + w]) = v
<1> DEFINE t == [s EXCEPT ![v] = @ + w]
<1>1. CASE v = "DETERMINISTIC"
  BY <1>1 DEF Plurality, Verdict
<1>2. CASE v = "REJECT"
  BY <1>2 DEF Plurality, Verdict
<1>3. CASE v = "UNCERTAIN"
  BY <1>3 DEF Plurality, Verdict
<1>4. QED
  BY <1>1, <1>2, <1>3 DEF Verdict

(* A class with more than half of all the weight leads.                    *)
LEMMA MajorityLeads ==
  ASSUME NEW s \in [Verdict -> Nat], NEW v \in Verdict,
         2 * s[v] > s["DETERMINISTIC"] + s["REJECT"] + s["UNCERTAIN"]
  PROVE  Plurality(s) = v
  BY DEF Plurality, Verdict

-----------------------------------------------------------------------------

(* An added link is allocated where nothing was and ends the list.         *)
LEMMA AddKeepsList ==
  ASSUME TypeOK, ChainLinked, NEW g \in Given, Add(g[1], g[2], g[3])
  PROVE  TypeOK' /\ ChainLinked'
<1>1. /\ pc = "open" /\ pc' = "open"
      /\ g[1] \in Int /\ g[2] \in Verdict /\ g[3] \in Severity
      /\ Clamp(g[1]) \in Weight
  BY ClampWeight DEF Add
<1> DEFINE l == [weight |-> Clamp(g[1]), verdict |-> g[2],
                 severity |-> g[3], next |-> NULL]
<1>2. PICK a \in Address \ Live :
        /\ heap' = Linked(a, l)
        /\ head' = IF tail = NULL THEN a ELSE head
        /\ tail' = a
        /\ order' = Append(order, a)
  BY DEF Add
<1>3. l \in Link
  BY <1>1 DEF Link
<1> HIDE DEF l
<1>4. /\ Live' = Live \cup {a}
      /\ heap'[a] = l
      /\ \A b \in Live : heap'[b] = IF b = tail THEN [heap[b] EXCEPT !.next = a] ELSE heap[b]
  BY <1>2 DEF Linked, Live
<1>4a. ASSUME NEW b \in Live
       PROVE  heap'[b].next = IF b = tail THEN a ELSE heap[b].next
  <2>1. heap[b] \in Link
    BY DEF TypeOK
  <2>2. CASE b = tail
    BY <1>4, <2>1, <2>2 DEF Link
  <2>3. CASE b # tail
    BY <1>4, <2>3
  <2>4. QED
    BY <2>2, <2>3
<1>5. heap' \in [Live' -> Link]
  BY <1>2, <1>3, <1>4, ZenonT(30) DEF Linked, Live, TypeOK, Link
<1>6. TypeOK'
  <2>1. sum' \in [Verdict -> Nat] /\ total' \in Nat /\ count' \in Nat
    <3>1. /\ count' = count + 1
          /\ total' = total + Clamp(g[1])
          /\ sum' = [sum EXCEPT ![g[2]] = @ + Clamp(g[1])]
      BY DEF Add, Weighed
    <3>2. Clamp(g[1]) \in Nat
      BY <1>1 DEF Weight, WeightOne
    <3>3. QED
      BY <1>1, <3>1, <3>2 DEF TypeOK
  <2>2. maxSeverity' \in Severity /\ since' \subseteq Verdict
    BY <1>1 DEF Add, TypeOK
  <2>3. order' \in Seq(Address) /\ head' \in Address \cup {NULL} /\ tail' \in Address \cup {NULL}
    BY <1>2 DEF TypeOK
  <2>4. QED
    BY <1>1, <1>2, <1>4, <1>5, <2>1, <2>2, <2>3 DEF Add, TypeOK
<1>7. ChainLinked'
  <2>1. /\ Len(order') = Len(order) + 1
        /\ order'[Len(order) + 1] = a
        /\ \A i \in 1 .. Len(order) : order'[i] = order[i]
        /\ Len(order) \in Nat
    BY <1>2 DEF TypeOK
  <2>2. /\ Live = {order[i] : i \in 1 .. Len(order)}
        /\ tail = Back /\ head = Front /\ count = Len(order)
    BY <1>1 DEF ChainLinked
  <2>3. Live' = {order'[i] : i \in 1 .. Len(order')}
    BY <1>4, <2>1, <2>2
  <2>4. \A i, j \in 1 .. Len(order') : order'[i] = order'[j] => i = j
    BY <1>2, <2>1, <2>2 DEF ChainLinked
  <2>5. ASSUME NEW i \in 1 .. Len(order')
        PROVE  heap'[order'[i]].next = IF i = Len(order') THEN NULL ELSE order'[i + 1]
    <3>1. CASE i = Len(order')
      BY <1>4, <2>1, <3>1 DEF l
    <3>2. CASE i = Len(order) /\ i # Len(order')
      <4>1. order[i] = tail /\ order[i] \in Live
        BY <2>1, <2>2, <3>2 DEF Back
      <4>2. heap'[order[i]].next = a
        BY <1>4a, <4>1
      <4>3. order'[i] = order[i] /\ order'[i + 1] = a
        BY <2>1, <3>2
      <4>4. QED
        BY <3>2, <4>2, <4>3
    <3>3. CASE i < Len(order)
      <4>1. order[i] \in Live /\ order[i] # tail
        BY <2>1, <2>2, <3>3 DEF Back, ChainLinked
      <4>2. heap'[order[i]].next = order[i + 1]
        <5>1. i \in 1 .. Len(order) /\ i # Len(order)
          BY <2>1, <3>3
        <5>2. heap[order[i]].next = order[i + 1]
          BY <5>1 DEF ChainLinked
        <5>3. QED
          BY <1>4a, <4>1, <5>2
      <4>3. order'[i] = order[i] /\ order'[i + 1] = order[i + 1]
        BY <2>1, <3>3
      <4>4. QED
        BY <2>1, <3>3, <4>2, <4>3
    <3>4. QED
      BY <2>1, <3>1, <3>2, <3>3
  <2>6. head' = Front' /\ tail' = Back' /\ count' = Len(order')
    <3>1. order' # << >>
      BY <2>1
    <3>2. count' = Len(order')
      BY <2>1, <2>2 DEF Add
    <3>3. tail' = Back'
      BY <1>2, <2>1, <3>1 DEF Back
    <3>4. CASE order = << >>
      <4>1. Len(order) = 0 /\ tail = NULL
        BY <2>2, <3>4 DEF Back
      <4>2. head' = a /\ order'[1] = a
        BY <1>2, <2>1, <4>1
      <4>3. QED
        BY <3>1, <3>2, <3>3, <4>2 DEF Front
    <3>5. CASE order # << >>
      <4>1. tail \in Live /\ tail # NULL /\ Len(order) >= 1
        BY <2>1, <2>2, <3>5 DEF Back, TypeOK
      <4>2. head' = head /\ head = order[1] /\ order'[1] = order[1]
        BY <1>2, <2>1, <2>2, <3>5, <4>1 DEF Front
      <4>3. QED
        BY <3>1, <3>2, <3>3, <4>2 DEF Front
    <3>6. QED
      BY <3>2, <3>3, <3>4, <3>5 DEF Front
  <2>7. QED
    BY <1>1, <2>3, <2>4, <2>5, <2>6 DEF ChainLinked
<1>8. QED
  BY <1>6, <1>7

(* Freeing the first link of what is left leaves the rest of the list.     *)
LEMMA FreeKeepsList ==
  ASSUME TypeOK, ChainLinked, Free
  PROVE  TypeOK' /\ ChainLinked'
<1>1. /\ pc = "releasing" /\ pc' = "releasing"
      /\ cursor # NULL /\ cursor = Front
      /\ order # << >> /\ cursor = order[1]
      /\ order' = Tail(order)
  BY DEF Free, ChainLinked, Front
<1>2. /\ Len(order) \in Nat /\ Len(order) >= 1
      /\ Len(order') = Len(order) - 1
      /\ order' \in Seq(Address)
      /\ \A i \in 1 .. Len(order') : order'[i] = order[i + 1]
  BY <1>1 DEF TypeOK
<1>3. /\ Live' = Live \ {cursor}
      /\ \A a \in Live' : heap'[a] = heap[a]
      /\ heap' \in [Live' -> Link]
  BY DEF Free, Live, TypeOK
<1>4. cursor \in Live /\ heap[cursor].next = IF Len(order) = 1 THEN NULL ELSE order[2]
  <2>1. 1 \in 1 .. Len(order) /\ 1 + 1 = 2
    BY <1>2
  <2>2. heap[order[1]].next = IF 1 = Len(order) THEN NULL ELSE order[1 + 1]
    BY <2>1 DEF ChainLinked
  <2>3. order[1] \in Live
    BY <2>1 DEF ChainLinked
  <2>4. QED
    BY <1>1, <2>1, <2>2, <2>3
<1>5. cursor' = Front'
  <2>1. cursor' = heap[cursor].next
    BY DEF Free
  <2>2. CASE Len(order) = 1
    <3>1. order' = << >>
      BY <1>2, <2>2
    <3>2. QED
      BY <1>4, <2>1, <2>2, <3>1 DEF Front
  <2>3. CASE Len(order) # 1
    <3>1. order' # << >> /\ order'[1] = order[2]
      BY <1>2, <2>3
    <3>2. QED
      BY <1>4, <2>1, <2>3, <3>1 DEF Front
  <2>4. QED
    BY <2>2, <2>3
<1>6. TypeOK'
  BY <1>1, <1>2, <1>3, <1>5 DEF Free, TypeOK, Front
<1>7. Live' = {order'[i] : i \in 1 .. Len(order')}
  <2>1. /\ Live = {order[i] : i \in 1 .. Len(order)}
        /\ \A i, j \in 1 .. Len(order) : order[i] = order[j] => i = j
    BY DEF ChainLinked
  <2>2. ASSUME NEW a \in Live'
        PROVE  \E i \in 1 .. Len(order') : a = order'[i]
    <3>1. PICK k \in 1 .. Len(order) : a = order[k] /\ k # 1
      BY <1>1, <1>3, <2>1
    <3>2. k - 1 \in 1 .. Len(order') /\ order'[k - 1] = a
      BY <1>2, <3>1
    <3>3. QED
      BY <3>2
  <2>3. ASSUME NEW i \in 1 .. Len(order')
        PROVE  order'[i] \in Live'
    <3>1. i + 1 \in 1 .. Len(order) /\ 1 \in 1 .. Len(order) /\ i + 1 # 1
      BY <1>2
    <3>2. order[i + 1] \in Live /\ order[i + 1] # order[1]
      BY <2>1, <3>1
    <3>3. QED
      BY <1>1, <1>2, <1>3, <3>2
  <2>4. QED
    BY <2>2, <2>3
<1>8. \A i, j \in 1 .. Len(order') : order'[i] = order'[j] => i = j
  BY <1>2 DEF ChainLinked
<1>9. ASSUME NEW i \in 1 .. Len(order')
      PROVE  heap'[order'[i]].next = IF i = Len(order') THEN NULL ELSE order'[i + 1]
  <2>1. i + 1 \in 1 .. Len(order) /\ order'[i] = order[i + 1] /\ order'[i] \in Live'
    BY <1>2, <1>7
  <2>2. heap[order[i + 1]].next = IF i + 1 = Len(order) THEN NULL ELSE order[i + 1 + 1]
    BY <2>1 DEF ChainLinked
  <2>3. CASE i = Len(order')
    BY <1>2, <1>3, <2>1, <2>2, <2>3
  <2>4. CASE i # Len(order')
    <3>1. i + 1 \in 1 .. Len(order') /\ order'[i + 1] = order[i + 1 + 1]
      BY <1>2, <2>4
    <3>2. QED
      BY <1>2, <1>3, <2>1, <2>2, <2>4, <3>1
  <2>5. QED
    BY <2>3, <2>4
<1>10. QED
  BY <1>1, <1>5, <1>6, <1>7, <1>8, <1>9 DEF ChainLinked

(* The other calls leave the list alone, or move a pointer along it.       *)
LEMMA ListStep ==
  ASSUME TypeOK, ChainLinked, [Next]_vars
  PROVE  TypeOK' /\ ChainLinked'
<1> USE DEF Live
<1>1. ASSUME NEW g \in Given, Add(g[1], g[2], g[3])
      PROVE  TypeOK' /\ ChainLinked'
  BY <1>1, AddKeepsList
<1>2. CASE OutOfMemory
  BY <1>2 DEF OutOfMemory, TypeOK, ChainLinked, Front, Back
<1>3. CASE Decide
  <2>1. TypeOK'
    BY <1>3 DEF Decide, Return, TopClass, TypeOK, Verdict
  <2>2. head \in Live \cup {NULL}
    BY <1>3 DEF Decide, ChainLinked, Front, TypeOK
  <2>3. ChainLinked'
    BY <1>3, <2>2 DEF Decide, Return, ChainLinked, Front, Back
  <2>4. QED
    BY <2>1, <2>3
<1>4. CASE Walk
  <2>1. pc = "walk" /\ pc' \in {"walk", "open"} /\ cursor \in Live \cup {NULL}
    BY <1>4 DEF Walk, Return, ChainLinked
  <2>2. ASSUME cursor # NULL
        PROVE  heap[cursor].next \in Live \cup {NULL} /\ heap[cursor] \in Link
    <3>1. PICK i \in 1 .. Len(order) : cursor = order[i]
      BY <2>1, <2>2 DEF ChainLinked
    <3>2. heap[cursor].next = IF i = Len(order) THEN NULL ELSE order[i + 1]
      BY <3>1 DEF ChainLinked
    <3>3. i # Len(order) => i + 1 \in 1 .. Len(order)
      BY DEF TypeOK
    <3>4. heap[cursor].next \in Live \cup {NULL}
      BY <3>2, <3>3 DEF ChainLinked
    <3>5. QED
      BY <2>1, <2>2, <3>4 DEF TypeOK
  <2>3. TypeOK'
    BY <1>4, <2>1, <2>2 DEF Walk, Return, TypeOK, Link
  <2>4. ChainLinked'
    BY <1>4, <2>1, <2>2 DEF Walk, Return, ChainLinked, Front, Back
  <2>5. QED
    BY <2>3, <2>4
<1>5. CASE Release
  <2>1. TypeOK'
    BY <1>5 DEF Release, TypeOK
  <2>2. ChainLinked'
    BY <1>5 DEF Release, ChainLinked, Front, Back
  <2>3. QED
    BY <2>1, <2>2
<1>6. CASE Free
  BY <1>6, FreeKeepsList
<1>7. CASE Released
  <2>1. TypeOK'
    BY <1>7 DEF Released, TypeOK, NoWeight
  <2>2. Live = {}
    <3>1. order \in Seq(Address) /\ cursor = NULL /\ cursor = Front
      BY <1>7 DEF Released, ChainLinked, TypeOK
    <3>2. order # << >> => order[1] \in Address
      BY <3>1
    <3>3. order = << >> /\ Len(order) = 0
      BY <3>1, <3>2 DEF Front
    <3>4. QED
      BY <3>3 DEF ChainLinked
  <2>3. ChainLinked'
    BY <1>7, <2>2 DEF Released, ChainLinked, Front, Back
  <2>4. QED
    BY <2>1, <2>3
<1>8. CASE UNCHANGED vars
  <2>1. TypeOK'
    BY <1>8 DEF vars, TypeOK
  <2>2. ChainLinked'
    <3>1. /\ pc' = pc /\ heap' = heap /\ order' = order /\ cursor' = cursor
          /\ head' = head /\ tail' = tail /\ count' = count
      BY <1>8 DEF vars
    <3>2. Front' = Front /\ Back' = Back
      BY <3>1 DEF Front, Back
    <3>3. QED
      BY <3>1, <3>2, ZenonT(30) DEF ChainLinked
  <2>3. QED
    BY <2>1, <2>2
<1>9. QED
  BY <1>1, <1>2, <1>3, <1>4, <1>5, <1>6, <1>7, <1>8 DEF Next

(***************************************************************************)
(* Every call keeps the types, whatever evidence the callers pass.  The    *)
(* types need the list: a loop reads the link its cursor points to, and    *)
(* only the shape of the list says that there is one.                      *)
(***************************************************************************)
THEOREM ListCorrect == Spec => [](TypeOK /\ ChainLinked)
<1>1. Init => TypeOK /\ ChainLinked
  BY DEF Init, TypeOK, ChainLinked, Front, Back, Live, Verdict, Severity, NoWeight, INFO
<1>2. TypeOK /\ ChainLinked /\ [Next]_vars => TypeOK' /\ ChainLinked'
  BY ListStep
<1>3. QED
  BY <1>1, <1>2, PTL DEF Spec

(* The types alone.                                                        *)
THEOREM TypeCorrect == Spec => []TypeOK
  BY ListCorrect, PTL

(* The list alone: no link is lost, freed twice or read after it is freed. *)
THEOREM NoLinkLost == Spec => []ChainLinked
  BY ListCorrect, PTL

-----------------------------------------------------------------------------

(* An added link weighs on the total and on its class alike.               *)
LEMMA AddKeepsShortcuts ==
  ASSUME TypeOK, ChainLinked, ShortcutsAgree, NEW g \in Given, Add(g[1], g[2], g[3])
  PROVE  ShortcutsAgree'
<1> DEFINE w == Clamp(g[1])
           v == g[2]
<1>1. /\ pc = "open" /\ pc' = "open" /\ v \in Verdict
      /\ w \in Nat
      /\ count' = count + 1 /\ total' = total + w
      /\ sum' = [sum EXCEPT ![v] = @ + w]
      /\ verdict' = verdict /\ since' = since \cup {v}
  <2>1. g[1] \in Int /\ v \in Verdict
    OBVIOUS
  <2>2. w \in Nat
    BY <2>1, ClampWeight DEF Weight, WeightOne
  <2>3. QED
    BY <2>1, <2>2 DEF Add, Weighed
<1>2. /\ total' = sum'["DETERMINISTIC"] + sum'["REJECT"] + sum'["UNCERTAIN"]
      /\ count' # 0
  BY SMTT(30), <1>1 DEF ShortcutsAgree, Balance, TypeOK, Verdict
<1>3. sum'[v] = sum[v] + w /\ \A u \in Verdict : sum'[u] >= sum[u]
  BY <1>1 DEF TypeOK
<1>4. ASSUME NEW b \in Live'
      PROVE  heap'[b].weight <= sum'[heap'[b].verdict]
  <2>1. PICK a \in Address \ Live :
          heap' = Linked(a, [weight |-> w, verdict |-> v, severity |-> g[3], next |-> NULL])
    BY DEF Add
  <2>2. CASE b = a
    <3>1. heap'[b].weight = w /\ heap'[b].verdict = v
      BY <2>1, <2>2 DEF Linked, Live
    <3>2. QED
      BY <1>1, <1>3, <3>1 DEF TypeOK
  <2>3. CASE b # a
    <3>1. b \in Live /\ heap[b] \in Link
      BY <2>1, <2>3 DEF Linked, Live, TypeOK
    <3>2. heap'[b] = IF b = tail THEN [heap[b] EXCEPT !.next = a] ELSE heap[b]
      BY <2>1, <2>3, <3>1 DEF Linked
    <3>3. heap'[b].weight = heap[b].weight /\ heap'[b].verdict = heap[b].verdict
      BY <3>1, <3>2 DEF Link
    <3>4. heap[b].weight \in Nat /\ heap[b].verdict \in Verdict
      BY <3>1 DEF Link, Weight, WeightOne
    <3>5. heap[b].weight <= sum[heap[b].verdict]
      BY <1>1, <3>1 DEF ShortcutsAgree, Balance
    <3>6. sum[heap[b].verdict] \in Nat /\ sum'[heap[b].verdict] \in Nat
      BY <1>1, <3>4 DEF TypeOK
    <3>7. heap[b].weight <= sum'[heap[b].verdict]
      BY <1>3, <3>4, <3>5, <3>6
    <3>8. QED
      BY <3>3, <3>7
  <2>4. QED
    BY <2>2, <2>3
<1>5. VerdictSupported'
  <2>1. SUFFICES ASSUME since' \subseteq {verdict'}
                 PROVE  Plurality(sum') = verdict'
    BY DEF VerdictSupported
  <2>2. v = verdict /\ since \subseteq {verdict}
    BY <1>1, <2>1
  <2>3. Plurality(sum) = v
    BY <1>1, <2>2 DEF ShortcutsAgree, VerdictSupported
  <2>4. sum \in [Verdict -> Nat]
    BY DEF TypeOK
  <2>5. Plurality([sum EXCEPT ![v] = @ + w]) = v
    BY <1>1, <2>3, <2>4, PluralityGrows
  <2>6. QED
    BY <1>1, <2>2, <2>5
<1>6. QED
  BY <1>1, <1>2, <1>4, <1>5 DEF ShortcutsAgree, Balance, FallbackIsPlurality

(* A decision that returns at once returns the plurality.                  *)
LEMMA EarlyReturn ==
  ASSUME TypeOK, ShortcutsAgree,
         Weightless \/ Majority(sum["REJECT"])
  PROVE  Plurality(sum) = IF Weightless THEN "UNCERTAIN" ELSE "REJECT"
<1>1. /\ sum["DETERMINISTIC"] \in Nat /\ sum["REJECT"] \in Nat /\ sum["UNCERTAIN"] \in Nat
      /\ total = sum["DETERMINISTIC"] + sum["REJECT"] + sum["UNCERTAIN"]
      /\ count = 0 => total = 0
  BY DEF TypeOK, ShortcutsAgree, Balance, Verdict
<1>2. CASE Weightless
  BY <1>1, <1>2 DEF Weightless, Plurality
<1>3. CASE ~Weightless
  <2>1. 2 * sum["REJECT"] > total
    BY <1>3 DEF Majority
  <2>2. QED
    BY <1>1, <1>3, <2>1 DEF Plurality
<1>4. QED
  BY <1>2, <1>3

(* The class zp_engine_decide falls back on is the plurality.              *)
LEMMA FallbackLeads ==
  ASSUME TypeOK, ShortcutsAgree, ~Weightless
  PROVE  total > 0 /\ TopClass = Plurality(sum)
<1>1. /\ sum["DETERMINISTIC"] \in Nat /\ sum["REJECT"] \in Nat /\ sum["UNCERTAIN"] \in Nat
      /\ total = sum["DETERMINISTIC"] + sum["REJECT"] + sum["UNCERTAIN"]
      /\ total > 0
  BY DEF TypeOK, ShortcutsAgree, Balance, Verdict, Weightless
<1>2. QED
  BY <1>1 DEF TopClass, Plurality

(* The class of a link heavier than all the others together leads as well. *)
LEMMA HeavyLinkLeads ==
  ASSUME TypeOK, ShortcutsAgree, pc = "walk", NEW a \in Live, Majority(heap[a].weight)
  PROVE  heap[a].verdict = Plurality(sum)
<1>1. heap[a].weight \in Nat /\ heap[a].verdict \in Verdict
  <2>1. heap[a] \in Link
    BY DEF TypeOK
  <2>2. QED
    BY <2>1 DEF Link, Weight, WeightOne
<1>2. sum[heap[a].verdict] \in Nat /\ heap[a].weight <= sum[heap[a].verdict]
  BY <1>1 DEF TypeOK, ShortcutsAgree, Balance
<1>3. 2 * sum[heap[a].verdict] > sum["DETERMINISTIC"] + sum["REJECT"] + sum["UNCERTAIN"]
  BY <1>1, <1>2 DEF Majority, ShortcutsAgree, Balance, TypeOK, Verdict
<1>4. QED
  BY <1>1, <1>3, MajorityLeads DEF TypeOK

(* A finished decision leaves the verdict at the plurality.                *)
LEMMA DecisionIsPlurality ==
  ASSUME TypeOK, ChainLinked, ShortcutsAgree, Decide \/ Walk, pc' = "open"
  PROVE  verdict' = Plurality(sum)
<1>1. CASE Decide
  <2>1. \/ Weightless /\ verdict' = "UNCERTAIN"
        \/ ~Weightless /\ Majority(sum["REJECT"]) /\ verdict' = "REJECT"
    BY <1>1 DEF Decide, Return
  <2>2. QED
    BY <2>1, EarlyReturn
<1>2. CASE Walk
  <2>1. pc = "walk" /\ cursor \in Live \cup {NULL}
    BY <1>2 DEF Walk, ChainLinked
  <2>2. \/ /\ cursor # NULL /\ Majority(heap[cursor].weight)
           /\ verdict' = heap[cursor].verdict
        \/ verdict' = top
    BY <1>2, <2>1 DEF Walk, Return
  <2>3. QED
    BY <2>1, <2>2, HeavyLinkLeads DEF ShortcutsAgree, FallbackIsPlurality
<1>3. QED
  BY <1>1, <1>2

(* Every call keeps the facts that make the shortcuts harmless.            *)
LEMMA ShortcutsStep ==
  ASSUME TypeOK, ChainLinked, ShortcutsAgree, [Next]_vars
  PROVE  ShortcutsAgree'
<1> USE DEF ShortcutsAgree, Balance, FallbackIsPlurality, VerdictSupported
<1>1. ASSUME NEW g \in Given, Add(g[1], g[2], g[3])
      PROVE  ShortcutsAgree'
  BY <1>1, AddKeepsShortcuts
<1>2. CASE OutOfMemory
  BY <1>2 DEF OutOfMemory, Live
<1>3. CASE Decide \/ Walk
  <2>1. /\ heap' = heap /\ count' = count /\ total' = total /\ sum' = sum
        /\ pc \in {"open", "walk"} /\ pc' \in {"open", "walk"}
    BY <1>3 DEF Decide, Walk, Return
  <2>2. Balance'
    BY <2>1 DEF Live
  <2>3. CASE pc' = "open"
    <3>1. verdict' = Plurality(sum)
      BY <1>3, <2>3, DecisionIsPlurality
    <3>2. QED
      BY <2>1, <2>2, <2>3, <3>1
  <2>4. CASE pc' = "walk"
    <3>1. verdict' = verdict /\ since' = since
      BY <1>3, <2>4 DEF Decide, Walk, Return
    <3>2. total > 0 /\ top' = Plurality(sum)
      <4>1. CASE Decide
        <5>1. ~Weightless /\ top' = TopClass
          BY <2>4, <4>1 DEF Decide, Return
        <5>2. QED
          BY <5>1, FallbackLeads
      <4>2. CASE Walk
        BY <2>4, <4>2 DEF Walk
      <4>3. QED
        BY <1>3, <4>1, <4>2
    <3>3. QED
      BY <2>1, <2>2, <2>4, <3>1, <3>2
  <2>5. QED
    BY <2>1, <2>3, <2>4
<1>4. CASE Release
  BY <1>4 DEF Release, Live
<1>5. CASE Free
  <2>1. /\ Live' = Live \ {cursor} /\ \A a \in Live' : heap'[a] = heap[a]
        /\ pc = "releasing" /\ pc' = pc
        /\ count' = count /\ total' = total /\ sum' = sum
    BY <1>5 DEF Free, Live
  <2>2. QED
    BY <2>1
<1>6. CASE Released
  BY <1>6 DEF Released, NoWeight, Verdict
<1>7. CASE UNCHANGED vars
  <2>1. /\ pc' = pc /\ heap' = heap /\ count' = count /\ total' = total
        /\ sum' = sum /\ verdict' = verdict /\ since' = since /\ top' = top
    BY <1>7 DEF vars
  <2>2. QED
    BY <2>1 DEF Live
<1>8. QED
  BY <1>1, <1>2, <1>3, <1>4, <1>5, <1>6, <1>7 DEF Next

(* The inductive invariant.                                                *)
Inductive == TypeOK /\ ChainLinked /\ ShortcutsAgree

(* The inductive invariant holds of every reachable state.                 *)
LEMMA InductiveHolds == Spec => []Inductive
<1>1. Init => ShortcutsAgree
  BY DEF Init, ShortcutsAgree, Balance, FallbackIsPlurality, VerdictSupported,
         Plurality, NoWeight, Verdict, Live
<1>2. TypeOK /\ ChainLinked /\ ShortcutsAgree /\ [Next]_vars => ShortcutsAgree'
  BY ShortcutsStep
<1>3. QED
  BY <1>1, <1>2, ListCorrect, PTL DEF Spec, Inductive

(***************************************************************************)
(* The engine's two shortcuts never disagree with the plain comparison of  *)
(* the classes, on a chain of any length.                                  *)
(***************************************************************************)
THEOREM ShortcutsHarmless == Spec => []ShortcutsAgree
  BY InductiveHolds, PTL DEF Inductive

(***************************************************************************)
(* However the chain grows, a verdict falls only to contrary evidence.     *)
(***************************************************************************)
THEOREM VerdictFallsToContraryEvidence == Spec => OnlyContraryEvidenceOverturns
<1>1. ASSUME Inductive, [Next]_vars
      PROVE  [verdict' # verdict => \E v \in since : v # verdict]_vars
  <2>1. SUFFICES ASSUME verdict' # verdict
                 PROVE  \E v \in since : v # verdict
    OBVIOUS
  <2>2. (Decide \/ Walk) /\ pc' = "open" /\ pc \in {"open", "walk"}
    BY <1>1, <2>1 DEF Next, vars, Add, OutOfMemory, Decide, Walk, Return, Release, Free, Released
  <2>3. verdict' = Plurality(sum)
    BY <1>1, <2>2, DecisionIsPlurality DEF Inductive
  <2>4. ~(since \subseteq {verdict})
    BY <1>1, <2>1, <2>2, <2>3 DEF Inductive, ShortcutsAgree, VerdictSupported
  <2>5. QED
    BY <2>4
<1>2. QED
  BY <1>1, InductiveHolds, PTL DEF Spec, OnlyContraryEvidenceOverturns

(***************************************************************************)
(* The chain implements VerdictSpec: the verdict a caller sees depends on  *)
(* nothing but the weight of the three classes.                            *)
(***************************************************************************)
THEOREM Refinement == Spec => ImplementsVerdictSpec
<1> USE DEF V!Verdict, V!Weight, V!WeightOne, V!NoWeight
<1>0. V!Plurality(sum) = Plurality(sum)
  BY DEF V!Plurality, Plurality
<1>1. Init => V!Init
  BY DEF Init, V!Init, NoWeight, Verdict
<1>2. ASSUME Inductive, [Next]_vars
      PROVE  [V!Next]_V!vars
  <2>1. ASSUME NEW g \in Given, Add(g[1], g[2], g[3])
        PROVE  V!Next
    <3>1. g[1] \in Int /\ g[2] \in Verdict
      OBVIOUS
    <3>2. Clamp(g[1]) \in Weight
      BY <3>1, ClampWeight
    <3>3. V!Weigh(g[2], Clamp(g[1]))
      BY <2>1 DEF Add, Weighed, V!Weigh
    <3>4. QED
      BY <3>1, <3>2, <3>3 DEF V!Next, Verdict, Weight, WeightOne
  <2>2. CASE Decide \/ Walk
    <3>1. /\ sum' = sum /\ pc \in {"open", "walk"} /\ pc' \in {"open", "walk"}
          /\ pc' = "walk" => verdict' = verdict
      BY <2>2 DEF Decide, Walk, Return
    <3>2. CASE pc' = "open"
      <4>1. verdict' = Plurality(sum)
        BY <1>2, <2>2, <3>2, DecisionIsPlurality DEF Inductive
      <4>2. V!Judge
        BY <1>0, <3>1, <3>2, <4>1 DEF V!Judge
      <4>3. QED
        BY <4>2 DEF V!Next
    <3>3. CASE pc' = "walk"
      BY <3>1, <3>3 DEF V!vars
    <3>4. QED
      BY <3>1, <3>2, <3>3
  <2>3. CASE Released
    BY <2>3 DEF Released, V!Next, V!Close, NoWeight, Verdict
  <2>4. CASE OutOfMemory \/ Release \/ Free \/ UNCHANGED vars
    BY <2>4 DEF OutOfMemory, Release, Free, vars, V!vars
  <2>5. QED
    BY <1>2, <2>1, <2>2, <2>3, <2>4 DEF Next
<1>3. QED
  BY <1>1, <1>2, InductiveHolds, PTL DEF Spec, ImplementsVerdictSpec, V!Spec

-----------------------------------------------------------------------------

(* There is a weight for each link of the list.                            *)
LEMMA WeightsLen == TypeOK /\ ChainLinked => \A c : Len(Weights(c)) = Len(order)
<1> SUFFICES ASSUME TypeOK, ChainLinked, NEW c PROVE Len(Weights(c)) = Len(order)
  OBVIOUS
<1>1. Len(order) \in Nat /\ \A i \in 1 .. Len(order) : heap[order[i]] \in Link
  BY DEF TypeOK, ChainLinked, Live
<1>2. \A i \in 1 .. Len(order) : heap[order[i]].weight \in Nat
  <2>1. ASSUME NEW i \in 1 .. Len(order) PROVE heap[order[i]].weight \in Nat
    <3>1. heap[order[i]] \in Link
      BY <1>1
    <3>2. heap[order[i]].weight \in Weight
      BY <3>1, Zenon DEF Link
    <3>3. \A x \in Weight : x \in Nat
      BY DEF Weight, WeightOne
    <3>4. QED
      BY <3>2, <3>3, Zenon
  <2>2. QED
    BY <2>1
<1> DEFINE w == Weights(c)
<1>3. w \in [1 .. Len(order) -> Nat]
  BY <1>2 DEF Weights
<1> HIDE DEF w
<1>4. w \in Seq(Nat) /\ DOMAIN w = 1 .. Len(order)
  BY <1>1, <1>3, SeqDef
<1>5. QED
  BY <1>1, <1>4, LenProperties DEF w

(* An added link weighs in its own class, and in no other.                 *)
LEMMA AddKeepsSums ==
  ASSUME TypeOK, ChainLinked, Sums, NEW g \in Given, Add(g[1], g[2], g[3])
  PROVE  Sums'
<1>0. (TypeOK /\ ChainLinked => \A c : Len(Weights(c)) = Len(order))'
  BY WeightsLen, PTL
<1>1. /\ pc = "open" /\ pc' = "open"
      /\ g[1] \in Int /\ g[2] \in Verdict /\ g[3] \in Severity
      /\ Clamp(g[1]) \in Weight
  BY ClampWeight DEF Add
<1> DEFINE w == Clamp(g[1])
           l == [weight |-> w, verdict |-> g[2], severity |-> g[3], next |-> NULL]
           n == Len(order)
<1>2. PICK a \in Address \ Live :
        /\ heap' = Linked(a, l)
        /\ order' = Append(order, a)
  BY DEF Add
<1>3. /\ Live' = Live \cup {a} /\ heap'[a] = l
      /\ \A b \in Live : /\ heap'[b].weight = heap[b].weight
                         /\ heap'[b].verdict = heap[b].verdict
                         /\ heap'[b].severity = heap[b].severity
  <2>1. /\ Live' = Live \cup {a} /\ heap'[a] = l
        /\ \A b \in Live : heap'[b] = heap[b] \/ heap'[b] = [heap[b] EXCEPT !.next = a]
    BY <1>2 DEF Linked, Live
  <2>2. \A b \in Live : heap[b] \in Link
    BY DEF TypeOK
  <2>3. ASSUME NEW b \in Live
        PROVE  /\ heap'[b].weight = heap[b].weight
               /\ heap'[b].verdict = heap[b].verdict
               /\ heap'[b].severity = heap[b].severity
    BY <2>1, <2>2 DEF Link
  <2>4. QED
    BY <2>1, <2>3
<1>4. /\ n \in Nat /\ Len(order') = n + 1 /\ order'[n + 1] = a
      /\ \A i \in 1 .. n : order'[i] = order[i] /\ order[i] \in Live
  BY <1>2 DEF TypeOK, ChainLinked
<1>5. ASSUME NEW c
      PROVE  Total(Weights(c))' = Total(Weights(c)) + (IF g[2] \in c THEN w ELSE 0)
  <2>1. /\ Len(Weights(c)) = n /\ Len(Weights(c)') = n + 1
    <3>1. TypeOK' /\ ChainLinked'
      BY AddKeepsList
    <3>2. QED
      BY <1>0, <1>4, <3>1, WeightsLen
  <2>2. \A i \in 1 .. n : Weights(c)'[i] = Weights(c)[i]
    BY <1>3, <1>4 DEF Weights
  <2>3. Weights(c)'[n + 1] = IF g[2] \in c THEN w ELSE 0
    BY <1>3, <1>4 DEF Weights
  <2> DEFINE old == Weights(c)
             new == Weights(c)'
  <2> HIDE DEF old, new, n
  <2>4. QED
    BY <1>4, <2>1, <2>2, <2>3, TotalGrows DEF old, new
<1>6. /\ \A v \in Verdict : sum'[v] = sum[v] + IF v = g[2] THEN w ELSE 0
      /\ total' = total + w
      /\ maxSeverity' = IF g[3] > maxSeverity THEN g[3] ELSE maxSeverity
  BY <1>1 DEF Add, Weighed, TypeOK
<1>7. /\ \A v \in Verdict : sum'[v] = Total(Weights({v}))'
      /\ total' = Total(Weights(Verdict))'
  BY <1>1, <1>5, <1>6 DEF Sums
<1>8. \A b \in Live' : heap'[b].severity <= maxSeverity'
  <2>1. ASSUME NEW b \in Live PROVE heap'[b].severity <= maxSeverity'
    <3>1. heap[b].severity <= maxSeverity /\ heap[b] \in Link
      BY <1>1, <2>1 DEF Sums, TypeOK
    <3>2. heap[b].severity \in Int /\ maxSeverity \in Int /\ g[3] \in Int
      BY <1>1, <3>1 DEF Link, TypeOK, Severity
    <3>3. QED
      BY <1>3, <1>6, <2>1, <3>1, <3>2
  <2>2. QED
    BY <1>1, <1>3, <1>6, <2>1 DEF TypeOK, Severity
<1>9. maxSeverity' = INFO \/ \E b \in Live' : heap'[b].severity = maxSeverity'
  BY <1>1, <1>3, <1>6 DEF Sums
<1>10. QED
  BY <1>7, <1>8, <1>9 DEF Sums

(***************************************************************************)
(* zp_evidence_add keeps the totals in step with the list, on a chain of   *)
(* any length, and no other call disturbs them until the release.          *)
(***************************************************************************)
THEOREM TotalsFollowList == Spec => []Sums
<1>1. Init => Sums
  <2> SUFFICES ASSUME Init PROVE Sums
    OBVIOUS
  <2>1. order = << >> /\ sum = NoWeight /\ total = 0 /\ maxSeverity = INFO /\ Live = {}
    BY DEF Init, Live
  <2>2. TypeOK /\ ChainLinked
    BY DEF Init, TypeOK, ChainLinked, Front, Back, Live, Verdict, Severity, NoWeight, INFO
  <2>3. \A c : Total(Weights(c)) = 0
    <3>1. \A c : Len(Weights(c)) = 0
      BY <2>1, <2>2, WeightsLen
    <3>2. QED
      BY <3>1, TotalOfNone
  <2>4. QED
    BY <2>1, <2>3 DEF Sums, NoWeight
<1>2. TypeOK /\ ChainLinked /\ Sums /\ [Next]_vars => Sums'
  <2> SUFFICES ASSUME TypeOK, ChainLinked, Sums, [Next]_vars PROVE Sums'
    OBVIOUS
  <2>1. ASSUME NEW g \in Given, Add(g[1], g[2], g[3]) PROVE Sums'
    BY <2>1, AddKeepsSums
  <2>2. CASE OutOfMemory \/ Decide \/ Walk \/ UNCHANGED vars
    <3>1. /\ UNCHANGED <<heap, order, sum, total, maxSeverity>>
          /\ pc' \in {"open", "walk", "aborted"} => pc \in {"open", "walk", "aborted"}
      BY <2>2 DEF OutOfMemory, Decide, Walk, Return, vars
    <3>2. \A c : Weights(c)' = Weights(c)
      BY <3>1 DEF Weights
    <3>3. Live' = Live
      BY <3>1 DEF Live
    <3>4. QED
      BY <3>1, <3>2, <3>3 DEF Sums
  <2>3. CASE Release \/ Free \/ Released
    <3>1. pc' \notin {"open", "walk", "aborted"}
      BY <2>3 DEF Release, Free, Released
    <3>2. QED
      BY <3>1 DEF Sums
  <2>4. QED
    BY <2>1, <2>2, <2>3 DEF Next
<1>3. QED
  BY <1>1, <1>2, ListCorrect, PTL DEF Spec
=============================================================================
