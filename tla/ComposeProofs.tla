---------------------------- MODULE ComposeProofs ----------------------------
(***************************************************************************)
(* What TLC finds of Compose for six probes and two tables of rules,       *)
(* proved for any evidence and any rules: its types, the grounding of the  *)
(* derivations, and that it reports every path there is and no other.      *)
(***************************************************************************)
EXTENDS Compose, Arithmetic, FiniteSetTheorems, TLAPS

(* The masks of the composer are finite.                                   *)
LEMMA MaskFinite ==
  ASSUME NEW M \in SUBSET Token
  PROVE  IsFiniteSet(M) /\ Cardinality(M) \in 0 .. 13
<1>1. IsFiniteSet(Token) /\ Cardinality(Token) = 13
  <2>1. /\ IsFiniteSet(0 .. 12)
        /\ Cardinality(0 .. 12) = IF 0 > 12 THEN 0 ELSE 12 - 0 + 1
    <3>1. 0 \in Int /\ 12 \in Int
      OBVIOUS
    <3>2. QED
      BY <3>1, FS_Interval, Zenon
  <2>2. (IF 0 > 12 THEN 0 ELSE 12 - 0 + 1) = 13
    OBVIOUS
  <2>3. QED
    BY <2>1, <2>2 DEF Token
<1>2. IsFiniteSet(M) /\ Cardinality(M) <= 13
  BY <1>1, FS_Subset
<1>3. QED
  BY <1>2, FS_CardinalityType

(* A link grants one token or none.                                        *)
LEMMA TokenType ==
  ASSUME NEW probe, NEW l
  PROVE  TokenOf(probe, l) \in Token \cup {NoToken}
  BY DEF TokenOf, Token, NoToken, ProbeToken, ROOT, EXEC_AS_ROOT, WRITE_SUDOERS,
         WRITE_SYSTEMD, WRITE_CRON, INJECT_PRELOAD, CONTAINER_ESCAPE, READ_ROOT_KEY,
         WRITE_DISK, SETUID_CAP, KERNEL_LPE, POLKIT_LPE, WRITE_PATH_TROJAN

(* Rules rest on tokens and yield tokens.                                  *)
LEMMA RuleType ==
  ASSUME NEW i \in 1 .. Len(Rules)
  PROVE  /\ Rules[i].pre \in SUBSET Token /\ Rules[i].pre # {}
         /\ Rules[i].result \in Token
<1> DEFINE R == [pre : (SUBSET Token) \ {{}}, result : Token, p : 0 .. 1000]
<1>1. Rules \in Seq(R)
  BY RulesAssumption DEF RulesAssumption
<1> HIDE DEF R
<1>2. Rules[i] \in R
  BY <1>1
<1>3. QED
  BY <1>2 DEF R

(* What the rules make of a token is a set of tokens with it ...           *)
LEMMA ReachableType ==
  ASSUME NEW t \in Token
  PROVE  Reachable[t] \in SUBSET Token /\ t \in Reachable[t]
  BY DEF Reachable, Closure

(* ... that the rules do not leave, ...                                    *)
LEMMA ReachableClosed ==
  ASSUME NEW t \in Token, NEW i \in 1 .. Len(Rules), Rules[i].pre \subseteq Reachable[t]
  PROVE  Rules[i].result \in Reachable[t]
<1>1. Rules[i].result \in Token
  BY RuleType
<1>2. ASSUME NEW S \in SUBSET Token, ClosedUnder(Rules, S), t \in S
      PROVE  Rules[i].result \in S
  <2>1. Reachable[t] \subseteq S
    BY <1>2 DEF Reachable, Closure
  <2>2. QED
    BY <1>2, <2>1 DEF ClosedUnder
<1>3. QED
  BY <1>1, <1>2 DEF Reachable, Closure

(* ... and the least such set.                                             *)
LEMMA ReachableLeast ==
  ASSUME NEW t \in Token, NEW S \in SUBSET Token, ClosedUnder(Rules, S), t \in S
  PROVE  Reachable[t] \subseteq S
  BY DEF Reachable, Closure

-----------------------------------------------------------------------------

Edge == [from : Token, to : Token, rule : 1 .. Len(Rules)]
Path == [token : Token, steps : Seq(Edge), finding : Nat]

(***************************************************************************)
(* rank puts the tokens of M in an order in which the derivations d rest   *)
(* on earlier tokens only, the seed s first.                               *)
(***************************************************************************)
Ranks(rank, s, M, d) ==
  /\ rank \in [M -> 0 .. Cardinality(M) - 1]
  /\ rank[s] = 0
  /\ \A t \in M \ {s} :
       d[t] # NoRule /\ \A u \in Rules[d[t]].pre : u \in M /\ rank[u] < rank[t]

(***************************************************************************)
(* The edges es lead from c to ROOT through M, joined end to end and up    *)
(* the order of rank; the walk back has as many tokens ahead of it as c    *)
(* has rank.                                                               *)
(***************************************************************************)
Walked(rank, s, M, c, es) ==
  /\ c \in M /\ ROOT \in M
  /\ es = << >> => c = ROOT
  /\ es # << >> => s # ROOT /\ es[1].from = c /\ es[Len(es)].to = ROOT
  /\ \A k \in 1 .. Len(es) :
       /\ es[k].from \in Rules[es[k].rule].pre
       /\ es[k].to = Rules[es[k].rule].result
       /\ k < Len(es) => es[k].to = es[k + 1].from
       /\ es[k].to \in M /\ rank[c] < rank[es[k].to]
  /\ \A k, m \in 1 .. Len(es) : k < m => rank[es[k].to] < rank[es[m].to]
  /\ rank[c] + Len(es) <= rank[ROOT]

(* The seed alone is ranked, and its derivations rest on nothing.          *)
LEMMA RanksStart ==
  ASSUME NEW s \in Token, NEW d
  PROVE  \E rank : Ranks(rank, s, {s}, d)
<1> DEFINE rank == [t \in {s} |-> 0]
<1>1. Cardinality({s}) = 1
  BY FS_Singleton
<1>2. Ranks(rank, s, {s}, d)
  BY <1>1 DEF Ranks
<1>3. QED
  BY <1>2

(* A rule that rests on ranked tokens leaves its result ranked, after them. *)
LEMMA RanksGrow ==
  ASSUME NEW M \in SUBSET Token, NEW s \in M, NEW d \in [Token -> 0 .. Len(Rules)],
         NEW rank, Ranks(rank, s, M, d),
         \A t \in Token \ M : d[t] = NoRule,
         NEW i \in 1 .. Len(Rules), Rules[i].pre \subseteq M,
         NEW e, e = IF d[Rules[i].result] = NoRule
                    THEN [d EXCEPT ![Rules[i].result] = i] ELSE d
  PROVE  \E next_rank : Ranks(next_rank, s, M \cup {Rules[i].result}, e)
<1> DEFINE res == Rules[i].result
           N == M \cup {res}
           n == Cardinality(M)
           q == [t \in N |-> IF t \in M THEN rank[t] ELSE n]
<1>1. res \in Token /\ Rules[i].pre \subseteq Token
  BY RuleType
<1>2. n \in 0 .. 13 /\ Cardinality(N) = IF res \in M THEN n ELSE n + 1
  BY MaskFinite, FS_AddElement
<1>3. /\ rank \in [M -> 0 .. n - 1]
      /\ rank[s] = 0
      /\ \A t \in M \ {s} :
           d[t] # NoRule /\ \A u \in Rules[d[t]].pre : u \in M /\ rank[u] < rank[t]
  BY DEF Ranks
<1> HIDE DEF n
<1>4. q \in [N -> 0 .. Cardinality(N) - 1]
  BY <1>2, <1>3
<1>5. q[s] = 0
  BY <1>3
<1>6. ASSUME NEW t \in N \ {s}
      PROVE  e[t] # NoRule /\ \A u \in Rules[e[t]].pre : u \in N /\ q[u] < q[t]
  <2>1. CASE t \in M
    <3>1. d[t] # NoRule /\ e[t] = d[t]
      BY <1>1, <1>3, <2>1
    <3>2. \A u \in Rules[d[t]].pre : u \in M /\ rank[u] < rank[t]
      BY <1>3, <2>1
    <3>3. QED
      BY <2>1, <3>1, <3>2
  <2>2. CASE t \notin M
    <3>1. t = res /\ e[t] = i /\ i # NoRule
      BY <1>1, <2>2 DEF NoRule
    <3>2. \A u \in Rules[i].pre : u \in M /\ rank[u] < n
      BY SMTT(30), <1>2, <1>3
    <3>3. QED
      BY <2>2, <3>1, <3>2
  <2>3. QED
    BY <2>1, <2>2
<1>7. Ranks(q, s, N, e)
  BY <1>4, <1>5, <1>6 DEF Ranks
<1>8. QED
  BY <1>7

(* A walk that goes on goes one token down the order.                      *)
LEMMA WalkBack ==
  ASSUME NEW M \in SUBSET Token, NEW s \in M, NEW d \in [Token -> 0 .. Len(Rules)],
         NEW rank, Ranks(rank, s, M, d),
         \A t \in Token : d[t] # NoRule => Rules[d[t]].result = t,
         NEW c \in Token, NEW es \in Seq(Edge), Walked(rank, s, M, c, es),
         c # s, NEW p \in Rules[d[c]].pre
  PROVE  LET e == [from |-> p, to |-> c, rule |-> d[c]]
         IN /\ p \in Token /\ e \in Edge
            /\ <<e>> \o es \in Seq(Edge) /\ Len(<<e>> \o es) = Len(es) + 1
            /\ Walked(rank, s, M, p, <<e>> \o es)
<1> DEFINE e == [from |-> p, to |-> c, rule |-> d[c]]
           fs == <<e>> \o es
<1>1. /\ rank \in [M -> 0 .. Cardinality(M) - 1] /\ rank[s] = 0
      /\ d[c] # NoRule /\ p \in M /\ rank[p] < rank[c]
      /\ Cardinality(M) \in 0 .. 13
  BY MaskFinite DEF Ranks, Walked
<1>2. d[c] \in 1 .. Len(Rules) /\ Rules[d[c]].result = c /\ p \in Token
  BY <1>1 DEF NoRule
<1>3. e \in Edge /\ e.from = p /\ e.to = c /\ e.rule = d[c]
  BY <1>2 DEF Edge
<1> HIDE DEF e
<1>4. /\ fs \in Seq(Edge) /\ Len(fs) = Len(es) + 1
      /\ fs[1] = e
      /\ \A k \in 1 .. Len(es) : fs[k + 1] = es[k]
      /\ Len(es) \in Nat /\ (es = << >> <=> Len(es) = 0)
  BY <1>3
<1> HIDE DEF fs
<1>4a. ASSUME NEW k \in 1 .. Len(fs), k # 1
       PROVE  k - 1 \in 1 .. Len(es) /\ fs[k] = es[k - 1]
  <2>1. k - 1 \in 1 .. Len(es) /\ (k - 1) + 1 = k
    BY <1>4, <1>4a
  <2>2. fs[(k - 1) + 1] = es[k - 1]
    BY <1>4, <2>1
  <2>3. QED
    BY <2>1, <2>2
<1>5. /\ c \in M /\ ROOT \in M
      /\ es = << >> => c = ROOT
      /\ es # << >> => s # ROOT /\ es[1].from = c /\ es[Len(es)].to = ROOT
      /\ \A k \in 1 .. Len(es) :
           /\ es[k].from \in Rules[es[k].rule].pre
           /\ es[k].to = Rules[es[k].rule].result
           /\ k < Len(es) => es[k].to = es[k + 1].from
           /\ es[k].to \in M /\ rank[c] < rank[es[k].to]
      /\ \A k, m \in 1 .. Len(es) : k < m => rank[es[k].to] < rank[es[m].to]
      /\ rank[c] + Len(es) <= rank[ROOT]
  BY DEF Walked
<1>6. \A t \in M : rank[t] \in Int
  BY <1>1
<1>7. fs # << >> /\ s # ROOT /\ fs[1].from = p /\ fs[Len(fs)].to = ROOT
  <2>1. CASE es = << >>
    <3>1. Len(fs) = 1 /\ c = ROOT
      BY <1>4, <1>5, <2>1
    <3>2. QED
      BY <1>3, <1>4, <3>1
  <2>2. CASE es # << >>
    <3>1. Len(es) >= 1 /\ fs[Len(fs)] = es[Len(es)]
      BY <1>4, <2>2
    <3>2. QED
      BY <1>3, <1>4, <1>5, <2>2, <3>1
  <2>3. QED
    BY <2>1, <2>2
<1>8. ASSUME NEW k \in 1 .. Len(fs)
      PROVE  /\ fs[k].from \in Rules[fs[k].rule].pre
             /\ fs[k].to = Rules[fs[k].rule].result
             /\ k < Len(fs) => fs[k].to = fs[k + 1].from
             /\ fs[k].to \in M /\ rank[p] < rank[fs[k].to]
  <2>1. CASE k = 1
    <3>1. k < Len(fs) => fs[k].to = fs[k + 1].from
      <4>1. ASSUME k < Len(fs) PROVE es # << >> /\ fs[k + 1] = es[1]
        <5>1. 1 \in 1 .. Len(es) /\ k + 1 = 2 /\ 1 + 1 = 2
          BY <1>4, <2>1, <4>1
        <5>2. fs[1 + 1] = es[1]
          BY <1>4, <5>1
        <5>3. QED
          BY <1>4, <5>1, <5>2
      <4>2. QED
        BY <1>3, <1>4, <1>5, <2>1, <4>1
    <3>2. QED
      BY <1>1, <1>2, <1>3, <1>4, <1>5, <2>1, <3>1
  <2>2. CASE k # 1
    <3>1. k - 1 \in 1 .. Len(es) /\ fs[k] = es[k - 1]
      BY <1>4a, <2>2
    <3>2. ASSUME k < Len(fs) PROVE k - 1 < Len(es) /\ fs[k + 1] = es[(k - 1) + 1]
      <4>1. k \in 1 .. Len(es) /\ (k - 1) + 1 = k
        BY <1>4, <3>2
      <4>2. QED
        BY <1>4, <4>1
    <3>3. /\ es[k - 1].from \in Rules[es[k - 1].rule].pre
          /\ es[k - 1].to = Rules[es[k - 1].rule].result
          /\ k - 1 < Len(es) => es[k - 1].to = es[(k - 1) + 1].from
          /\ es[k - 1].to \in M /\ rank[c] < rank[es[k - 1].to]
      BY <1>5, <3>1
    <3>4. rank[p] < rank[es[k - 1].to]
      <4>1. /\ rank[p] \in Int /\ rank[c] \in Int /\ rank[es[k - 1].to] \in Int
            /\ rank[p] < rank[c] /\ rank[c] < rank[es[k - 1].to]
        BY <1>1, <1>5, <1>6, <3>3
      <4>2. QED
        BY <4>1
    <3>5. QED
      BY <3>1, <3>2, <3>3, <3>4
  <2>3. QED
    BY <2>1, <2>2
<1>9. ASSUME NEW k \in 1 .. Len(fs), NEW m \in 1 .. Len(fs), k < m
      PROVE  rank[fs[k].to] < rank[fs[m].to]
  <2>1. m - 1 \in 1 .. Len(es) /\ fs[m] = es[m - 1]
    BY <1>4a, <1>9
  <2>2. CASE k = 1
    BY <1>3, <1>4, <1>5, <2>1, <2>2
  <2>3. CASE k # 1
    <3>1. k - 1 \in 1 .. Len(es) /\ fs[k] = es[k - 1] /\ k - 1 < m - 1
      BY <1>4a, <1>9, <2>3
    <3>2. QED
      BY <1>5, <2>1, <3>1
  <2>4. QED
    BY <2>2, <2>3
<1>10. rank[p] + Len(fs) <= rank[ROOT]
  BY <1>1, <1>4, <1>5, <1>6
<1>11. Walked(rank, s, M, p, fs)
  BY <1>1, <1>5, <1>7, <1>8, <1>9, <1>10 DEF Walked
<1>12. QED
  BY <1>2, <1>3, <1>4, <1>11 DEF e, fs

(* A walk ends at the seed and nowhere else: not at a token without a      *)
(* derivation, nor for want of room.                                       *)
LEMMA WalkEndsAtSeed ==
  ASSUME NEW M \in SUBSET Token, NEW s \in M, NEW d \in [Token -> 0 .. Len(Rules)],
         NEW rank, Ranks(rank, s, M, d),
         NEW c \in Token, NEW es \in Seq(Edge), Walked(rank, s, M, c, es),
         c # s
  PROVE  d[c] # NoRule /\ Len(es) < MaxEdges
<1>1. /\ rank \in [M -> 0 .. Cardinality(M) - 1] /\ c \in M /\ ROOT \in M
      /\ d[c] # NoRule
      /\ \A u \in Rules[d[c]].pre : u \in M /\ rank[u] < rank[c]
      /\ Cardinality(M) \in 0 .. 13
      /\ rank[c] + Len(es) <= rank[ROOT]
  BY MaskFinite DEF Ranks, Walked
<1>2. d[c] \in 1 .. Len(Rules)
  BY <1>1 DEF NoRule
<1>3. PICK u \in Rules[d[c]].pre : TRUE
  BY <1>2, RuleType
<1>4. rank[u] >= 0 /\ rank[u] < rank[c] /\ rank[ROOT] <= 12
      /\ rank[u] \in Int /\ rank[c] \in Int /\ rank[ROOT] \in Int
  <2>1. u \in M /\ rank[u] < rank[c]
    BY <1>1
  <2>2. \A t \in M : rank[t] \in 0 .. Cardinality(M) - 1
    BY <1>1
  <2>3. ASSUME NEW t \in M PROVE rank[t] \in Int /\ rank[t] >= 0 /\ rank[t] <= 12
    <3>1. rank[t] \in 0 .. Cardinality(M) - 1 /\ Cardinality(M) \in 0 .. 13
      BY <2>2, MaskFinite
    <3>2. QED
      BY SMTT(30), <3>1
  <2>4. QED
    BY <1>1, <2>1, <2>3
<1>5. Len(es) < 12 /\ Len(es) \in Nat
  BY <1>1, <1>4
<1>6. QED
  BY <1>1, <1>5, BoundsAssumption DEF BoundsAssumption

-----------------------------------------------------------------------------

(* The types, with what the records and sequences hold; each path has used *)
(* up a token of the enumeration.                                          *)
Typed ==
  /\ pc \in {"gather", "seed", "fixpoint", "backchain", "done"}
  /\ evidence \in Evidences
  /\ next \in 1 .. Len(evidence) + 1
  /\ initial \in SUBSET Token /\ mask \in SUBSET Token
  /\ refs \in Seq([token : Token, finding : 1 .. Len(evidence)])
  /\ Len(refs) <= MaxRefs
  /\ seed \in 0 .. 13 /\ cur \in Token
  /\ pc \in {"fixpoint", "backchain"} => seed \in Token
  /\ der \in [Token -> 0 .. Len(Rules)]
  /\ changed \in BOOLEAN
  /\ rule \in 1 .. Len(Rules) + 1
  /\ edges \in Seq(Edge) /\ Len(edges) <= MaxEdges
  /\ paths \in Seq(Path) /\ Len(paths) <= seed

(* The granted tokens are those the links read so far grant, and what refs *)
(* remembers of them is true.                                              *)
GatheredSoFar ==
  /\ initial = {t \in Token : \E q \in Granting(t) : q < next}
  /\ pc # "gather" => next = Len(evidence) + 1
  /\ \A r \in 1 .. Len(refs) : refs[r].finding \in Granting(refs[r].token)

(***************************************************************************)
(* The locals of the fixpoint and of the walk back: the mask holds only    *)
(* what the rules make of the seed; a derivation yields its token, and its *)
(* tokens come before it in some order of the mask; in a pass that changed *)
(* nothing so far, the rules it went through have nothing to add.          *)
(***************************************************************************)
FixpointSoFar ==
  pc \in {"fixpoint", "backchain"} =>
    /\ seed \in initial /\ seed \in mask /\ mask \subseteq Reachable[seed]
    /\ \A t \in Token : der[t] # NoRule => Rules[der[t]].result = t
    /\ \A t \in Token \ mask : der[t] = NoRule
    /\ ~changed => \A i \in 1 .. rule - 1 :
                     Rules[i].pre \subseteq mask => Rules[i].result \in mask
    /\ \E rank \in [mask -> 0 .. Cardinality(mask) - 1] :
         /\ Ranks(rank, seed, mask, der)
         /\ pc = "backchain" => Walked(rank, seed, mask, cur, edges)

(* One sound path for each granted token below the seed that leads to ROOT. *)
EmittedSoFar ==
  /\ PathsSound
  /\ {paths[i].token : i \in 1 .. Len(paths)} =
       {t \in initial : t < seed /\ ROOT \in Reachable[t]}
  /\ \A i, j \in 1 .. Len(paths) : paths[i].token = paths[j].token => i = j
  /\ pc = "gather" => paths = << >> /\ seed = 0
  /\ pc = "done" => seed = 13

IInv == Typed /\ GatheredSoFar /\ FixpointSoFar /\ EmittedSoFar

-----------------------------------------------------------------------------

(* Evidence is a finite sequence.                                          *)
LEMMA EvidenceFinite == ASSUME Typed PROVE Len(evidence) \in Nat
<1>1. evidence \in Evidences
  BY DEF Typed
<1>2. QED
  BY <1>1, EvidencesAssumption DEF EvidencesAssumption

(* The finding shown for a token is 0 or one that refs remembers for it.   *)
LEMMA FindingRemembered ==
  ASSUME Typed, NEW t \in Token
  PROVE  \/ FindingOf(t) = NoFinding
         \/ \E r \in 1 .. Len(refs) : refs[r].token = t /\ FindingOf(t) = refs[r].finding
<1> DEFINE rs == {q \in 1 .. Len(refs) : refs[q].token = t}
<1>1. CASE rs = {}
  BY <1>1 DEF FindingOf
<1>2. CASE rs # {}
  <2>1. rs \in SUBSET Nat
    OBVIOUS
  <2>2. Min(rs) \in rs
    BY <1>2, <2>1, LeastOfNats
  <2>3. FindingOf(t) = refs[Min(rs)].finding
    BY <1>2 DEF FindingOf
  <2>4. QED
    BY <2>2, <2>3
<1>3. QED
  BY <1>1, <1>2

(* The precondition a walk steps back to is one of the deriving rule.      *)
LEMMA StepsToPrecondition ==
  ASSUME Typed, der[cur] # NoRule
  PROVE  /\ der[cur] \in 1 .. Len(Rules)
         /\ Min(Rules[der[cur]].pre) \in Rules[der[cur]].pre
         /\ Min(Rules[der[cur]].pre) \in Token
<1>1. der[cur] \in 1 .. Len(Rules)
  BY DEF Typed, NoRule
<1>2. Rules[der[cur]].pre \in SUBSET Token /\ Rules[der[cur]].pre # {}
  BY <1>1, RuleType
<1>3. Rules[der[cur]].pre \in SUBSET Nat
  BY <1>2 DEF Token
<1>4. Min(Rules[der[cur]].pre) \in Rules[der[cur]].pre
  BY <1>2, <1>3, LeastOfNats
<1>5. QED
  BY <1>1, <1>2, <1>4

(***************************************************************************)
(* Every step keeps the types.                                             *)
(***************************************************************************)
LEMMA TypedStep == ASSUME Typed, [Next]_vars PROVE Typed'
<1>1. CASE Gather
  <2> DEFINE l == evidence[next]
             t == TokenOf(l.probe, l)
             Ref == [token : Token, finding : 1 .. Len(evidence)]
  <2>1. Len(evidence) \in Nat /\ next \in 1 .. Len(evidence)
    BY <1>1, EvidenceFinite DEF Gather, Typed
  <2>2. t \in Token \cup {NoToken}
    BY TokenType
  <2>3. initial' \in SUBSET Token
    BY <1>1, <2>2 DEF Gather, Typed
  <2>4. refs \in Seq(Ref) /\ Len(refs) <= MaxRefs
    BY DEF Typed
  <2>5. refs' \in Seq(Ref) /\ Len(refs') <= MaxRefs
    <3>1. \/ refs' = refs
          \/ t # NoToken /\ Len(refs) < MaxRefs
             /\ refs' = Append(refs, [token |-> t, finding |-> next])
      BY <1>1 DEF Gather, Room
    <3>2. CASE refs' = refs
      BY <2>4, <3>2
    <3>3. CASE /\ t # NoToken /\ Len(refs) < MaxRefs
               /\ refs' = Append(refs, [token |-> t, finding |-> next])
      <4>1. [token |-> t, finding |-> next] \in Ref
        BY <2>1, <2>2, <3>3
      <4> HIDE DEF Ref, t
      <4>2. MaxRefs \in Nat
        BY BoundsAssumption DEF BoundsAssumption
      <4>3. QED
        BY <2>4, <3>3, <4>1, <4>2
    <3>4. QED
      BY <3>1, <3>2, <3>3
  <2>6. next' \in 1 .. Len(evidence) + 1 /\ evidence' = evidence
    BY <1>1, <2>1 DEF Gather
  <2>7. /\ pc' = "gather"
        /\ UNCHANGED <<mask, seed, cur, der, changed, rule, edges, paths>>
    BY <1>1 DEF Gather
  <2>8. refs' \in Seq([token : Token, finding : 1 .. Len(evidence')])
    BY <2>5, <2>6
  <2> HIDE DEF Ref
  <2>9. QED
    BY <2>3, <2>5, <2>6, <2>7, <2>8 DEF Typed
<1>2. CASE Gathered
  BY <1>2 DEF Gathered, Typed
<1>3. CASE SkipToken
  <2>1. seed \in 0 .. 12 /\ Len(paths) <= seed /\ Len(paths) \in Nat
    BY SMTT(30), <1>3 DEF SkipToken, Typed, Token
  <2>2. seed' \in 0 .. 13 /\ Len(paths) <= seed'
    BY <1>3, <2>1 DEF SkipToken
  <2>3. QED
    BY <1>3, <2>2 DEF SkipToken, Typed
<1>4. CASE StartFixpoint
  <2>1. der' \in [Token -> 0 .. Len(Rules)] /\ rule' \in 1 .. Len(Rules) + 1
    BY <1>4, RulesAssumption DEF StartFixpoint, Underived, NoRule, RulesAssumption
  <2>2. mask' \in SUBSET Token /\ changed' \in BOOLEAN /\ pc' = "fixpoint"
    BY <1>4 DEF StartFixpoint, StartMask
  <2>3. QED
    BY <1>4, <2>1, <2>2 DEF StartFixpoint, Typed
<1>5. CASE ApplyRule
  <2>1. Len(Rules) \in Nat
    BY RulesAssumption DEF RulesAssumption
  <2>2. rule \in 1 .. Len(Rules) /\ rule' \in 1 .. Len(Rules) + 1
    BY <1>5, <2>1 DEF ApplyRule, Typed
  <2>3. Rules[rule].result \in Token
    BY <2>2, RuleType
  <2>4. mask' \in SUBSET Token
    BY <1>5, <2>3 DEF ApplyRule, Typed
  <2>5. changed' \in BOOLEAN
    BY <1>5 DEF ApplyRule, Typed, New
  <2>6. der' \in [Token -> 0 .. Len(Rules)]
    <3>1. der' = der \/ der' = [der EXCEPT ![Rules[rule].result] = rule]
      BY <1>5 DEF ApplyRule, NoteFirst
    <3>2. rule \in 0 .. Len(Rules)
      BY <2>2
    <3>3. der \in [Token -> 0 .. Len(Rules)]
      BY DEF Typed
    <3>4. QED
      BY <2>3, <3>1, <3>2, <3>3
  <2>7. QED
    BY <1>5, <2>2, <2>4, <2>5, <2>6 DEF ApplyRule, Typed
<1>6. CASE EndPass
  <2>1. 1 \in 1 .. Len(Rules) + 1 /\ ROOT \in Token
    BY RulesAssumption DEF RulesAssumption, Token, ROOT
  <2>2. MaxEdges \in Nat
    BY BoundsAssumption DEF BoundsAssumption
  <2>3. /\ pc = "fixpoint" /\ seed \in Token
        /\ UNCHANGED <<evidence, next, initial, refs, mask, der, paths>>
    BY <1>6 DEF EndPass, Typed
  <2>4. CASE UNCHANGED <<pc, seed, cur, edges>> /\ changed' = FALSE /\ rule' = 1
    BY <2>1, <2>3, <2>4 DEF Typed
  <2>5. CASE /\ pc' = "backchain" /\ cur' = ROOT /\ edges' = << >>
             /\ UNCHANGED <<seed, changed, rule>>
    <3>1. edges' \in Seq(Edge) /\ Len(edges') <= MaxEdges
      BY <2>2, <2>5
    <3>2. QED
      BY <2>1, <2>3, <2>5, <3>1 DEF Typed
  <2>6. CASE /\ pc' = "seed" /\ seed' = seed + 1
             /\ UNCHANGED <<changed, rule, cur, edges>>
    <3>1. seed' \in 0 .. 13 /\ Len(paths') <= seed'
      <4>1. seed \in 0 .. 12 /\ Len(paths) <= seed /\ Len(paths) \in Nat
        BY SMTT(30), <2>3 DEF Typed, Token
      <4>2. QED
        BY <2>3, <2>6, <4>1
    <3>2. QED
      BY <2>3, <2>6, <3>1 DEF Typed
  <2>7. QED
    BY <1>6, <2>4, <2>5, <2>6 DEF EndPass
<1>7. CASE StepBack
  <2>1. der[cur] # NoRule /\ Len(edges) < MaxEdges
    BY <1>7 DEF StepBack, WalksOn
  <2> DEFINE pre == Min(Rules[der[cur]].pre)
             e == [from |-> pre, to |-> cur, rule |-> der[cur]]
  <2>2. der[cur] \in 1 .. Len(Rules) /\ pre \in Token
    BY <2>1, StepsToPrecondition
  <2>3. e \in Edge
    BY <2>2 DEF Edge, Typed
  <2>4. edges' = <<e>> \o edges /\ cur' = pre
    BY <1>7 DEF StepBack
  <2> HIDE DEF e
  <2>5. edges' \in Seq(Edge) /\ Len(edges') = Len(edges) + 1
    BY <2>3, <2>4 DEF Typed
  <2>6. Len(edges') <= MaxEdges
    BY <2>1, <2>5, BoundsAssumption DEF BoundsAssumption, Typed
  <2>7. QED
    BY <1>7, <2>2, <2>4, <2>5, <2>6 DEF StepBack, Typed
<1>8. CASE EmitPath
  <2> DEFINE p == [token |-> seed, steps |-> edges, finding |-> FindingOf(seed)]
  <2>1. seed \in Token
    BY <1>8 DEF EmitPath, Typed
  <2>2. p \in Path
    <3>1. FindingOf(seed) \in Nat
      <4>1. \A r \in 1 .. Len(refs) : refs[r].finding \in Nat
        <5> DEFINE Ref == [token : Token, finding : 1 .. Len(evidence)]
        <5>1. refs \in Seq(Ref)
          BY DEF Typed
        <5> HIDE DEF Ref
        <5>2. \A r \in 1 .. Len(refs) : refs[r] \in Ref
          BY <5>1
        <5>3. QED
          BY <5>2, EvidenceFinite DEF Ref
      <4>2. QED
        BY <2>1, <4>1, FindingRemembered DEF NoFinding
    <3>2. QED
      BY <2>1, <3>1 DEF Path, Typed
  <2>3. paths' = Append(paths, p)
    BY <1>8 DEF EmitPath
  <2> HIDE DEF p
  <2>4. paths' \in Seq(Path) /\ Len(paths') = Len(paths) + 1
    BY <2>2, <2>3 DEF Typed
  <2>5. seed' \in 0 .. 13 /\ Len(paths') <= seed'
    BY <1>8, <2>1, <2>4 DEF EmitPath, Typed, Token
  <2>6. QED
    BY <1>8, <2>4, <2>5 DEF EmitPath, Typed
<1>9. CASE Finish
  BY <1>9 DEF Finish, Typed
<1>10. CASE UNCHANGED vars
  BY <1>10 DEF vars, Typed
<1>11. QED
  BY <1>1, <1>2, <1>3, <1>4, <1>5, <1>6, <1>7, <1>8, <1>9, <1>10 DEF Next

(***************************************************************************)
(* Every step keeps what was gathered true to the evidence.                *)
(***************************************************************************)
LEMMA GatheredStep ==
  ASSUME Typed, GatheredSoFar, [Next]_vars
  PROVE  GatheredSoFar'
<1>1. ASSUME UNCHANGED <<evidence, next, initial, refs>>,
             pc' # "gather" => pc # "gather"
      PROVE  GatheredSoFar'
  BY <1>1 DEF GatheredSoFar, Granting
<1>2. CASE Gather
  <2> DEFINE l == evidence[next]
             t == TokenOf(l.probe, l)
             grants == Counts(l.chain, l) /\ t # NoToken
  <2>1. /\ next \in 1 .. Len(evidence) /\ next' = next + 1
        /\ evidence' = evidence /\ pc' = "gather" /\ Len(evidence) \in Nat
    BY <1>2, EvidenceFinite DEF Gather, Typed
  <2>2. /\ initial' = IF grants THEN initial \cup {t} ELSE initial
        /\ refs' = IF grants /\ Room
                   THEN Append(refs, [token |-> t, finding |-> next]) ELSE refs
    BY <1>2 DEF Gather
  <2>3. /\ t \in Token \cup {NoToken}
        /\ \A u \in Token : next \in Granting(u) <=> grants /\ t = u
    BY <2>1, TokenType DEF Granting, NoToken, Token
  <2>4. \A u \in Token : Granting(u)' = Granting(u) /\ Granting(u) \subseteq 1 .. Len(evidence)
    BY <2>1 DEF Granting
  <2> HIDE DEF grants, t
  <2>5. initial' = {u \in Token : \E q \in Granting(u)' : q < next'}
    <3>1. ASSUME NEW u \in Token
          PROVE  u \in initial' <=> u \in initial \/ next \in Granting(u)
      BY <2>2, <2>3, <3>1
    <3>2. ASSUME NEW u \in Token
          PROVE  u \in initial <=> \E q \in Granting(u) : q < next
      BY <3>2 DEF GatheredSoFar
    <3>3. ASSUME NEW u \in Token
          PROVE  (\E q \in Granting(u)' : q < next')
                   <=> next \in Granting(u) \/ \E q \in Granting(u) : q < next
      BY <2>1, <2>4
    <3>4. initial' \subseteq Token
      BY TypedStep DEF Typed
    <3>5. QED
      BY <3>1, <3>2, <3>3, <3>4
  <2>6. ASSUME NEW r \in 1 .. Len(refs')
        PROVE  (refs[r].finding \in Granting(refs[r].token))'
    <3> DEFINE Ref == [token : Token, finding : 1 .. Len(evidence)]
               new == [token |-> t, finding |-> next]
    <3>1. refs \in Seq(Ref)
      BY DEF Typed
    <3> HIDE DEF Ref
    <3>2. ASSUME NEW q \in 1 .. Len(refs)
          PROVE  refs[q].token \in Token /\ refs[q].finding \in Granting(refs[q].token)
      <4>1. refs[q] \in Ref
        BY <3>1
      <4>2. QED
        BY <4>1 DEF Ref, GatheredSoFar
    <3>3. \E u \in Token : refs'[r].token = u /\ refs'[r].finding \in Granting(u)
      <4>1. CASE refs' = refs
        BY <3>2, <4>1
      <4>2. CASE grants /\ refs' = Append(refs, new)
        <5>1. t \in Token /\ next \in Granting(t)
          BY <2>3, <4>2 DEF grants
        <5>2. new.token = t /\ new.finding = next
          OBVIOUS
        <5> HIDE DEF new
        <5>3. (r \in 1 .. Len(refs) /\ refs'[r] = refs[r]) \/ refs'[r] = new
          BY <3>1, <4>2
        <5>4. QED
          BY <3>2, <5>1, <5>2, <5>3
      <4>3. QED
        BY <2>2, <4>1, <4>2
    <3>4. PICK u \in Token : refs'[r].token = u /\ refs'[r].finding \in Granting(u)
      BY <3>3
    <3>5. QED
      BY <2>1, <3>4 DEF Granting
  <2>7. QED
    BY <2>1, <2>5, <2>6 DEF GatheredSoFar
<1>3. CASE Gathered
  <2>1. next = Len(evidence) + 1
    <3>1. Len(evidence) \in Nat /\ next \in 1 .. Len(evidence) + 1 /\ next > Len(evidence)
      BY <1>3, EvidenceFinite DEF Gathered, Typed
    <3>2. QED
      BY <3>1
  <2>2. QED
    BY <1>3, <2>1 DEF Gathered, GatheredSoFar, Granting
<1>4. CASE SkipToken
  BY <1>1, <1>4 DEF SkipToken
<1>5. CASE StartFixpoint
  BY <1>1, <1>5 DEF StartFixpoint
<1>6. CASE ApplyRule
  BY <1>1, <1>6 DEF ApplyRule
<1>7. CASE EndPass
  BY <1>1, <1>7 DEF EndPass
<1>8. CASE StepBack
  BY <1>1, <1>8 DEF StepBack
<1>9. CASE EmitPath
  BY <1>1, <1>9 DEF EmitPath
<1>10. CASE Finish
  BY <1>1, <1>10 DEF Finish
<1>11. CASE UNCHANGED vars
  BY <1>1, <1>11 DEF vars
<1>12. QED
  BY <1>2, <1>3, <1>4, <1>5, <1>6, <1>7, <1>8, <1>9, <1>10, <1>11 DEF Next

(***************************************************************************)
(* Every step keeps the fixpoint and the walk back grounded.               *)
(***************************************************************************)
LEMMA FixpointStep ==
  ASSUME Typed, FixpointSoFar, [Next]_vars
  PROVE  FixpointSoFar'
<1>1. ASSUME pc' \notin {"fixpoint", "backchain"} PROVE FixpointSoFar'
  BY <1>1 DEF FixpointSoFar
<1>2. CASE StartFixpoint
  <2>1. /\ seed \in Token /\ seed \in initial /\ pc' = "fixpoint"
        /\ mask' = {seed} /\ der' = Underived /\ rule' = 1
        /\ seed' = seed /\ initial' = initial
    BY <1>2 DEF StartFixpoint, StartMask
  <2>2. seed \in Reachable[seed]
    BY <2>1, ReachableType
  <2>3. PICK rank : Ranks(rank, seed, {seed}, Underived)
    BY <2>1, RanksStart
  <2>4. /\ rank \in [mask' -> 0 .. Cardinality(mask') - 1]
        /\ Ranks(rank, seed', mask', der')
    BY <2>1, <2>3 DEF Ranks
  <2>5. \A t \in Token : der'[t] = NoRule
    BY <2>1 DEF Underived
  <2>6. \A i \in 1 .. rule' - 1 : Rules[i].pre \subseteq mask' => Rules[i].result \in mask'
    BY <2>1
  <2>7. QED
    BY <2>1, <2>2, <2>4, <2>5, <2>6 DEF FixpointSoFar
<1>3. CASE ApplyRule
  <2> DEFINE r == Rules[rule]
  <2>1. /\ pc = "fixpoint" /\ pc' = "fixpoint" /\ rule' = rule + 1
        /\ rule \in 1 .. Len(Rules)
        /\ UNCHANGED <<seed, initial>>
    BY <1>3, RulesAssumption DEF ApplyRule, Typed, RulesAssumption
  <2>2. /\ seed \in initial /\ seed \in mask /\ mask \subseteq Reachable[seed]
        /\ \A t \in Token : der[t] # NoRule => Rules[der[t]].result = t
        /\ \A t \in Token \ mask : der[t] = NoRule
        /\ ~changed => \A i \in 1 .. rule - 1 :
                         Rules[i].pre \subseteq mask => Rules[i].result \in mask
        /\ seed \in Token /\ mask \in SUBSET Token
        /\ der \in [Token -> 0 .. Len(Rules)]
    BY <2>1 DEF FixpointSoFar, Typed
  <2>3. PICK rank \in [mask -> 0 .. Cardinality(mask) - 1] : Ranks(rank, seed, mask, der)
    BY <2>1 DEF FixpointSoFar
  <2>4. r.result \in Token /\ r.pre \in SUBSET Token
    BY <2>1, RuleType
  <2>5. CASE Enabled(r)
    <3>1. /\ r.pre \subseteq mask
          /\ mask' = mask \cup {r.result}
          /\ der' = IF der[r.result] = NoRule THEN [der EXCEPT ![r.result] = rule] ELSE der
      BY <1>3, <2>5 DEF ApplyRule, Enabled, NoteFirst
    <3>2. changed' = (changed \/ r.result \notin mask)
      BY <1>3, <2>5 DEF ApplyRule, Enabled, New
    <3>3. r.result \in Reachable[seed]
      BY <2>1, <2>2, <3>1, ReachableClosed
    <3>4. \E q : Ranks(q, seed, mask', der')
      BY <2>1, <2>2, <2>3, <3>1, RanksGrow
    <3>5. PICK q : Ranks(q, seed, mask', der')
      BY <3>4
    <3>6. q \in [mask' -> 0 .. Cardinality(mask') - 1] /\ Ranks(q, seed', mask', der')
      BY <2>1, <3>5 DEF Ranks
    <3>7. \A t \in Token : der'[t] # NoRule => Rules[der'[t]].result = t
      BY <2>1, <2>2, <2>4, <3>1
    <3>8. \A t \in Token \ mask' : der'[t] = NoRule
      BY <2>2, <2>4, <3>1
    <3>9. ASSUME ~changed'
          PROVE  \A i \in 1 .. rule' - 1 :
                   Rules[i].pre \subseteq mask' => Rules[i].result \in mask'
      <4>1. ~changed /\ r.result \in mask
        BY <3>2, <3>9
      <4>2. mask' = mask
        BY <3>1, <4>1
      <4>3. \A i \in 1 .. rule' - 1 : i \in 1 .. rule - 1 \/ i = rule
        BY <2>1
      <4>4. QED
        BY <2>2, <4>1, <4>2, <4>3
    <3>10. seed' \in initial' /\ seed' \in mask' /\ mask' \subseteq Reachable[seed']
      BY <2>1, <2>2, <3>1, <3>3
    <3>11. QED
      BY <2>1, <3>6, <3>7, <3>8, <3>9, <3>10 DEF FixpointSoFar
  <2>6. CASE ~Enabled(r)
    <3>1. UNCHANGED <<mask, changed, der>> /\ ~(r.pre \subseteq mask)
      BY <1>3, <2>6 DEF ApplyRule, Enabled
    <3>2. \A i \in 1 .. rule' - 1 : i \in 1 .. rule - 1 \/ i = rule
      BY <2>1
    <3>3. ~changed' => \A i \in 1 .. rule' - 1 :
                        Rules[i].pre \subseteq mask' => Rules[i].result \in mask'
      BY <2>2, <3>1, <3>2
    <3>4. rank \in [mask' -> 0 .. Cardinality(mask') - 1] /\ Ranks(rank, seed', mask', der')
      BY <2>1, <2>3, <3>1
    <3>5. QED
      BY <2>1, <2>2, <3>1, <3>3, <3>4 DEF FixpointSoFar
  <2>7. QED
    BY <2>5, <2>6
<1>4. CASE EndPass
  <2>1. /\ pc = "fixpoint" /\ UNCHANGED <<mask, der, initial>>
        /\ \/ pc' = "fixpoint" /\ rule' = 1 /\ UNCHANGED seed
           \/ /\ pc' = "backchain" /\ cur' = ROOT /\ edges' = << >>
              /\ ROOT \in mask /\ UNCHANGED <<seed, changed, rule>>
           \/ pc' = "seed"
    BY <1>4 DEF EndPass
  <2>2. /\ seed \in initial /\ seed \in mask /\ mask \subseteq Reachable[seed]
        /\ \A t \in Token : der[t] # NoRule => Rules[der[t]].result = t
        /\ \A t \in Token \ mask : der[t] = NoRule
        /\ ~changed => \A i \in 1 .. rule - 1 :
                         Rules[i].pre \subseteq mask => Rules[i].result \in mask
    BY <2>1 DEF FixpointSoFar
  <2>3. PICK rank \in [mask -> 0 .. Cardinality(mask) - 1] : Ranks(rank, seed, mask, der)
    BY <2>1 DEF FixpointSoFar
  <2>4. CASE pc' = "fixpoint" /\ rule' = 1 /\ UNCHANGED seed
    <3>1. \A i \in 1 .. rule' - 1 : Rules[i].pre \subseteq mask' => Rules[i].result \in mask'
      BY <2>4
    <3>2. rank \in [mask' -> 0 .. Cardinality(mask') - 1] /\ Ranks(rank, seed', mask', der')
      BY <2>1, <2>3, <2>4
    <3>3. QED
      BY <2>1, <2>2, <2>4, <3>1, <3>2 DEF FixpointSoFar
  <2>5. CASE /\ pc' = "backchain" /\ cur' = ROOT /\ edges' = << >>
             /\ ROOT \in mask /\ UNCHANGED <<seed, changed, rule>>
    <3>1. Walked(rank, seed', mask', cur', edges')
      <4>1. Len(<< >>) = 0
        OBVIOUS
      <4>2. rank[ROOT] \in Int
        BY <2>3, <2>5
      <4>3. QED
        BY <2>1, <2>5, <4>1, <4>2 DEF Walked
    <3>2. rank \in [mask' -> 0 .. Cardinality(mask') - 1] /\ Ranks(rank, seed', mask', der')
      BY <2>1, <2>3, <2>5
    <3>3. QED
      BY <2>1, <2>2, <2>5, <3>1, <3>2 DEF FixpointSoFar
  <2>6. QED
    BY <1>1, <2>1, <2>4, <2>5
<1>5. CASE StepBack
  <2>1. /\ pc = "backchain" /\ pc' = "backchain"
        /\ cur # seed /\ der[cur] # NoRule
        /\ UNCHANGED <<seed, mask, der, initial, changed, rule>>
    BY <1>5 DEF StepBack, WalksOn
  <2> DEFINE pre == Min(Rules[der[cur]].pre)
             e == [from |-> pre, to |-> cur, rule |-> der[cur]]
  <2>2. edges' = <<e>> \o edges /\ cur' = pre
    BY <1>5 DEF StepBack
  <2>3. /\ seed \in initial /\ seed \in mask /\ mask \subseteq Reachable[seed]
        /\ \A t \in Token : der[t] # NoRule => Rules[der[t]].result = t
        /\ \A t \in Token \ mask : der[t] = NoRule
        /\ ~changed => \A i \in 1 .. rule - 1 :
                         Rules[i].pre \subseteq mask => Rules[i].result \in mask
    BY <2>1 DEF FixpointSoFar
  <2>4. PICK rank \in [mask -> 0 .. Cardinality(mask) - 1] :
          Ranks(rank, seed, mask, der) /\ Walked(rank, seed, mask, cur, edges)
    BY <2>1 DEF FixpointSoFar
  <2>5. /\ mask \in SUBSET Token /\ der \in [Token -> 0 .. Len(Rules)]
        /\ cur \in Token /\ edges \in Seq(Edge)
        /\ pre \in Rules[der[cur]].pre
    BY <2>1, StepsToPrecondition DEF Typed
  <2>6. Walked(rank, seed, mask, pre, <<e>> \o edges)
    <3> HIDE DEF pre
    <3>1. QED
      BY <2>1, <2>3, <2>4, <2>5, WalkBack
  <2> HIDE DEF pre, e
  <2>7. /\ rank \in [mask' -> 0 .. Cardinality(mask') - 1]
        /\ Ranks(rank, seed', mask', der')
        /\ Walked(rank, seed', mask', cur', edges')
    BY <2>1, <2>2, <2>4, <2>6
  <2>8. QED
    BY <2>1, <2>3, <2>7 DEF FixpointSoFar
<1>6. CASE Gather
  BY <1>1, <1>6 DEF Gather
<1>7. CASE Gathered
  BY <1>1, <1>7 DEF Gathered
<1>8. CASE SkipToken
  BY <1>1, <1>8 DEF SkipToken
<1>9. CASE EmitPath
  BY <1>1, <1>9 DEF EmitPath
<1>10. CASE Finish
  BY <1>1, <1>10 DEF Finish
<1>11. CASE UNCHANGED vars
  BY <1>11 DEF vars, FixpointSoFar
<1>12. QED
  BY <1>2, <1>3, <1>4, <1>5, <1>6, <1>7, <1>8, <1>9, <1>10, <1>11 DEF Next

(* A pass that went through all rules and changed nothing has found all    *)
(* there is.                                                               *)
LEMMA SettledIsComplete ==
  ASSUME Typed, FixpointSoFar, pc = "fixpoint", rule > Len(Rules), ~changed
  PROVE  Reachable[seed] \subseteq mask
<1>1. /\ Len(Rules) \in Nat /\ rule = Len(Rules) + 1
      /\ seed \in Token /\ mask \in SUBSET Token /\ seed \in mask
  <2>1. Len(Rules) \in Nat
    BY RulesAssumption DEF RulesAssumption
  <2>2. /\ rule \in 1 .. Len(Rules) + 1
        /\ seed \in Token /\ mask \in SUBSET Token /\ seed \in mask
    BY DEF Typed, FixpointSoFar
  <2>3. QED
    BY <2>1, <2>2
<1>2. ClosedUnder(Rules, mask)
  BY <1>1 DEF FixpointSoFar, ClosedUnder
<1>3. QED
  BY <1>1, <1>2, ReachableLeast

(* What the walk back leaves when it ends is a sound path.                 *)
LEMMA WalkIsSound ==
  ASSUME Typed, GatheredSoFar, FixpointSoFar, pc = "backchain", ~WalksOn
  PROVE  /\ SoundPath([token |-> seed, steps |-> edges, finding |-> FindingOf(seed)])
         /\ ROOT \in Reachable[seed]
<1> DEFINE p == [token |-> seed, steps |-> edges, finding |-> FindingOf(seed)]
<1>1. /\ seed \in Token /\ seed \in initial /\ seed \in mask
      /\ mask \in SUBSET Token /\ mask \subseteq Reachable[seed]
      /\ der \in [Token -> 0 .. Len(Rules)]
      /\ cur \in Token /\ edges \in Seq(Edge)
  BY DEF Typed, FixpointSoFar
<1>2. PICK rank \in [mask -> 0 .. Cardinality(mask) - 1] :
        Ranks(rank, seed, mask, der) /\ Walked(rank, seed, mask, cur, edges)
  BY DEF FixpointSoFar
<1>3. cur = seed
  BY <1>1, <1>2, WalkEndsAtSeed DEF WalksOn
<1>4. ROOT \in Reachable[seed]
  BY <1>1, <1>2 DEF Walked
<1>5. p.token = seed /\ p.steps = edges /\ p.finding = FindingOf(seed)
  OBVIOUS
<1> HIDE DEF p
<1>6. Granting(seed) # {}
  BY <1>1 DEF GatheredSoFar
<1>7. FindingOf(seed) # NoFinding => FindingOf(seed) \in Granting(seed)
  BY <1>1, FindingRemembered DEF GatheredSoFar
<1>8. /\ edges = << >> => seed = ROOT
      /\ edges # << >> => seed # ROOT /\ edges[1].from = seed /\ edges[Len(edges)].to = ROOT
      /\ \A k \in 1 .. Len(edges) :
           /\ edges[k].from \in Rules[edges[k].rule].pre
           /\ edges[k].to = Rules[edges[k].rule].result
           /\ k < Len(edges) => edges[k].to = edges[k + 1].from
  BY <1>2, <1>3 DEF Walked
<1>9. edges = << >> <=> Len(edges) = 0
  BY <1>1
<1>10. ASSUME NEW k \in 1 .. Len(edges), NEW m \in 1 .. Len(edges), edges[k].to = edges[m].to
       PROVE  k = m
  <2>1. edges[k].to \in mask /\ rank[edges[k].to] \in Int
    BY <1>2 DEF Walked
  <2>2. /\ k < m => rank[edges[k].to] < rank[edges[m].to]
        /\ m < k => rank[edges[m].to] < rank[edges[k].to]
    BY <1>2 DEF Walked
  <2>3. ~(k < m) /\ ~(m < k)
    BY <1>10, <2>1, <2>2
  <2>4. QED
    BY <1>1, <2>3
<1>11. Len(edges) > 0 => edges # << >>
  BY <1>9
<1>12. SoundPath(p)
  BY <1>5, <1>6, <1>7, <1>8, <1>9, <1>10, <1>11 DEF SoundPath
<1>13. QED
  BY <1>4, <1>12 DEF p

(***************************************************************************)
(* Every step keeps the paths sound, and one for each token passed.        *)
(***************************************************************************)
LEMMA EmittedStep ==
  ASSUME IInv, [Next]_vars
  PROVE  EmittedSoFar'
<1> USE DEF IInv
<1> DEFINE Done(n) == {t \in initial : t < n /\ ROOT \in Reachable[t]}
           Seen == {paths[i].token : i \in 1 .. Len(paths)}
<1>1. /\ seed \in 0 .. 13 /\ initial \in SUBSET (0 .. 12)
      /\ \A n \in 0 .. 12 : Done(n + 1) = IF n \in initial /\ ROOT \in Reachable[n]
                                      THEN Done(n) \cup {n} ELSE Done(n)
  <2>1. seed \in 0 .. 13 /\ initial \in SUBSET (0 .. 12)
    BY DEF Typed, Token
  <2>2. ASSUME NEW n \in 0 .. 12
        PROVE  Done(n + 1) = IF n \in initial /\ ROOT \in Reachable[n]
                             THEN Done(n) \cup {n} ELSE Done(n)
    <3>1. \A t \in 0 .. 12 : t < n + 1 <=> t < n \/ t = n
      OBVIOUS
    <3>2. QED
      BY <2>1, <3>1
  <2>3. QED
    BY <2>1, <2>2
<1>2. /\ PathsSound /\ Seen = Done(seed)
      /\ \A i, j \in 1 .. Len(paths) : paths[i].token = paths[j].token => i = j
  BY DEF EmittedSoFar
<1>3. ASSUME UNCHANGED <<evidence, paths>> PROVE PathsSound'
  <2>1. ASSUME NEW i \in 1 .. Len(paths') PROVE SoundPath(paths[i])'
    <3>1. PICK q : paths'[i] = q /\ SoundPath(q)
      BY <1>2, <1>3 DEF PathsSound
    <3>2. QED
      BY <1>3, <3>1 DEF SoundPath, Granting
  <2>2. QED
    BY <2>1 DEF PathsSound
<1>4. ASSUME UNCHANGED <<evidence, paths, seed, initial>>,
             pc' = pc \/ pc' \notin {"gather", "done"}
      PROVE  EmittedSoFar'
  BY <1>3, <1>4 DEF EmittedSoFar
<1>5. ASSUME UNCHANGED <<evidence, paths, initial>>, pc' = "seed", seed' = seed + 1,
             seed \in Token, ~(seed \in initial /\ ROOT \in Reachable[seed])
      PROVE  EmittedSoFar'
  <2>1. Done(seed + 1) = Done(seed)
    BY <1>1, <1>5 DEF Token
  <2>2. {paths'[i].token : i \in 1 .. Len(paths')} =
          {t \in initial' : t < seed' /\ ROOT \in Reachable[t]}
    BY <1>2, <1>5, <2>1
  <2>3. QED
    BY <1>2, <1>3, <1>5, <2>2 DEF EmittedSoFar
<1>6. CASE Gather
  <2>1. /\ paths = << >> /\ seed = 0 /\ pc' = "gather"
        /\ UNCHANGED <<evidence, paths, seed>>
    BY <1>6 DEF Gather, EmittedSoFar
  <2>2. initial' \in SUBSET (0 .. 12)
    BY TypedStep DEF Typed, Token
  <2>3. {t \in initial' : t < seed' /\ ROOT \in Reachable[t]} = {}
    <3>1. \A t \in initial' : ~(t < 0)
      BY <2>2
    <3>2. QED
      BY <2>1, <3>1
  <2>4. {paths'[i].token : i \in 1 .. Len(paths')} = {}
    BY <2>1
  <2>5. QED
    BY <1>2, <1>3, <2>1, <2>3, <2>4 DEF EmittedSoFar
<1>7. CASE Gathered
  BY <1>4, <1>7 DEF Gathered
<1>8. CASE SkipToken
  BY <1>5, <1>8 DEF SkipToken
<1>9. CASE StartFixpoint
  BY <1>4, <1>9 DEF StartFixpoint
<1>10. CASE ApplyRule
  BY <1>4, <1>10 DEF ApplyRule
<1>11. CASE EndPass
  <2>1. CASE UNCHANGED seed /\ pc' \in {"fixpoint", "backchain"}
    BY <1>4, <1>11, <2>1 DEF EndPass
  <2>2. CASE Settled /\ ROOT \notin mask /\ pc' = "seed" /\ seed' = seed + 1
    <3>1. pc = "fixpoint" /\ rule > Len(Rules) /\ ~changed /\ seed \in Token
      BY <1>11, <2>2 DEF EndPass, Settled, Typed
    <3>2. ROOT \notin Reachable[seed]
      BY <2>2, <3>1, SettledIsComplete
    <3>3. QED
      BY <1>5, <1>11, <2>2, <3>1, <3>2 DEF EndPass
  <2>3. QED
    BY <1>11, <2>1, <2>2 DEF EndPass
<1>12. CASE StepBack
  BY <1>4, <1>12 DEF StepBack
<1>13. CASE EmitPath
  <2> DEFINE p == [token |-> seed, steps |-> edges, finding |-> FindingOf(seed)]
             n == Len(paths)
  <2>1. /\ pc = "backchain" /\ ~WalksOn /\ pc' = "seed" /\ seed' = seed + 1
        /\ paths' = Append(paths, p)
        /\ UNCHANGED <<evidence, initial>>
    BY <1>13 DEF EmitPath
  <2>2. SoundPath(p) /\ ROOT \in Reachable[seed]
    BY <2>1, WalkIsSound
  <2>3. seed \in initial /\ seed \in 0 .. 12
    BY <1>1, <2>1 DEF FixpointSoFar
  <2>4. p.token = seed
    OBVIOUS
  <2> HIDE DEF p
  <2>5. /\ n \in Nat /\ Len(paths') = n + 1
        /\ paths'[n + 1] = p
        /\ \A i \in 1 .. n : paths'[i] = paths[i]
    BY <2>1 DEF Typed
  <2> HIDE DEF n
  <2>6. \A i \in 1 .. n : paths[i].token \in Done(seed)
    BY <1>2 DEF n
  <2>7. \A i \in 1 .. n : paths[i].token # seed
    BY <1>1, <2>6
  <2>8. {paths'[i].token : i \in 1 .. Len(paths')} = Seen \cup {seed}
    <3>1. 1 .. Len(paths') = 1 .. n \cup {n + 1}
      BY <2>5
    <3>2. {paths'[i].token : i \in 1 .. Len(paths')} =
            {paths'[i].token : i \in 1 .. n} \cup {paths'[n + 1].token}
      BY <3>1
    <3>3. {paths'[i].token : i \in 1 .. n} = Seen
      BY <2>5 DEF n
    <3>4. QED
      BY <2>4, <2>5, <3>2, <3>3
  <2>9. {paths'[i].token : i \in 1 .. Len(paths')} =
          {t \in initial' : t < seed' /\ ROOT \in Reachable[t]}
    <3>1. Done(seed + 1) = Done(seed) \cup {seed}
      BY <1>1, <2>2, <2>3
    <3>2. Done(seed + 1) = {t \in initial' : t < seed' /\ ROOT \in Reachable[t]}
      BY <2>1
    <3>3. QED
      BY <1>2, <2>8, <3>1, <3>2
  <2>10. \A i, j \in 1 .. Len(paths') : paths'[i].token = paths'[j].token => i = j
    <3>1. \A i \in 1 .. Len(paths') :
            \/ i \in 1 .. n /\ paths'[i].token = paths[i].token /\ paths[i].token # seed
            \/ i = n + 1 /\ paths'[i].token = seed
      BY <2>4, <2>5, <2>7
    <3>2. QED
      BY <1>2, <3>1 DEF n
  <2>11. PathsSound'
    <3>1. \A i \in 1 .. Len(paths') : \E q : paths'[i] = q /\ SoundPath(q)
      BY <1>2, <2>2, <2>5 DEF PathsSound, n
    <3>2. ASSUME NEW i \in 1 .. Len(paths') PROVE SoundPath(paths[i])'
      <4>1. PICK q : paths'[i] = q /\ SoundPath(q)
        BY <3>1
      <4>2. QED
        BY <2>1, <4>1 DEF SoundPath, Granting
    <3>3. QED
      BY <3>2 DEF PathsSound
  <2>12. QED
    BY <2>1, <2>9, <2>10, <2>11 DEF EmittedSoFar
<1>14. CASE Finish
  <2>1. seed = 13
    <3>1. Len(paths) <= seed /\ Len(paths) \in Nat
      BY DEF Typed
    <3>2. MaxPaths \in Nat /\ MaxPaths > 12
      BY BoundsAssumption DEF BoundsAssumption, Token
    <3>3. seed \notin Token \/ Len(paths) >= MaxPaths
      BY <1>14 DEF Finish
    <3>4. QED
      BY <1>1, <3>1, <3>2, <3>3 DEF Token
  <2>2. pc' = "done" /\ UNCHANGED <<evidence, paths, seed, initial>>
    BY <1>14 DEF Finish
  <2>3. QED
    BY <1>3, <2>1, <2>2 DEF EmittedSoFar
<1>15. CASE UNCHANGED vars
  BY <1>4, <1>15 DEF vars
<1>16. QED
  BY <1>6, <1>7, <1>8, <1>9, <1>10, <1>11, <1>12, <1>13, <1>14, <1>15 DEF Next

-----------------------------------------------------------------------------

(* The composer starts with the invariant.                                 *)
LEMMA Initially == Init => IInv
<1> SUFFICES ASSUME Init PROVE IInv
  OBVIOUS
<1>1. Len(evidence) \in Nat
  BY EvidencesAssumption DEF Init, EvidencesAssumption
<1>2. Typed
  <2>1. MaxRefs \in Nat /\ MaxEdges \in Nat /\ Len(Rules) \in Nat
    BY BoundsAssumption, RulesAssumption DEF BoundsAssumption, RulesAssumption
  <2>2. der \in [Token -> 0 .. Len(Rules)] /\ rule \in 1 .. Len(Rules) + 1
    BY <2>1 DEF Init, Underived, NoRule
  <2>3. /\ refs \in Seq([token : Token, finding : 1 .. Len(evidence)]) /\ Len(refs) <= MaxRefs
        /\ edges \in Seq(Edge) /\ Len(edges) <= MaxEdges
        /\ paths \in Seq(Path) /\ Len(paths) <= seed
    BY <2>1 DEF Init
  <2>4. cur \in Token /\ next \in 1 .. Len(evidence) + 1 /\ seed \in 0 .. 13
    BY <1>1 DEF Init, Token, ROOT
  <2>5. QED
    BY <2>2, <2>3, <2>4 DEF Init, Typed
<1>3. GatheredSoFar
  <2>1. \A t \in Token : \A q \in Granting(t) : ~(q < next)
    BY <1>1 DEF Init, Granting
  <2>2. QED
    BY <2>1 DEF Init, GatheredSoFar
<1>4. FixpointSoFar
  BY DEF Init, FixpointSoFar
<1>5. EmittedSoFar
  BY DEF Init, EmittedSoFar, PathsSound
<1>6. QED
  BY <1>2, <1>3, <1>4, <1>5 DEF IInv

(***************************************************************************)
(* The invariant is inductive.                                             *)
(***************************************************************************)
THEOREM Invariant == Spec => []IInv
<1>1. Init => IInv
  BY Initially
<1>2. IInv /\ [Next]_vars => IInv'
  BY TypedStep, GatheredStep, FixpointStep, EmittedStep DEF IInv
<1>3. QED
  BY <1>1, <1>2, PTL DEF Spec

(***************************************************************************)
(* For any evidence and any rules, the composer's locals keep their types, *)
(* and refs, edges and the paths their bounds.                             *)
(***************************************************************************)
THEOREM TypeCorrect == Spec => []TypeOK
<1>1. IInv => TypeOK
  <2> SUFFICES ASSUME IInv PROVE TypeOK
    OBVIOUS
  <2>1. Len(paths) <= MaxPaths
    <3>1. Len(paths) <= seed /\ Len(paths) \in Nat /\ seed \in 0 .. 13
      BY DEF IInv, Typed
    <3>2. MaxPaths \in Nat /\ MaxPaths >= 13
      BY BoundsAssumption DEF BoundsAssumption, Token
    <3>3. QED
      BY <3>1, <3>2
  <2>2. \A q \in 1 .. Len(refs) : refs[q] \in [token : Token, finding : 1 .. Len(evidence)]
    <3> DEFINE Ref == [token : Token, finding : 1 .. Len(evidence)]
    <3>1. refs \in Seq(Ref)
      BY DEF IInv, Typed
    <3> HIDE DEF Ref
    <3>2. \A q \in 1 .. Len(refs) : refs[q] \in Ref
      BY <3>1
    <3>3. QED
      BY <3>2 DEF Ref
  <2>3. QED
    BY <2>1, <2>2 DEF IInv, Typed, TypeOK
<1>2. QED
  BY <1>1, Invariant, PTL

(***************************************************************************)
(* For any evidence and any rules, cyclic ones too, a derivation rests on  *)
(* tokens derived before it, all of them reachable from the seed.          *)
(***************************************************************************)
THEOREM Grounded == Spec => []DerivationsGrounded
<1>1. IInv => DerivationsGrounded
  <2> SUFFICES ASSUME IInv, pc \in {"fixpoint", "backchain"}
               PROVE  /\ mask \subseteq Reachable[seed]
                      /\ \E rank \in [mask -> 0 .. Cardinality(mask)] :
                           /\ rank[seed] = 0
                           /\ \A t \in mask \ {seed} :
                                /\ der[t] # NoRule
                                /\ \A u \in Rules[der[t]].pre : u \in mask /\ rank[u] < rank[t]
    BY DEF DerivationsGrounded
  <2>1. PICK rank \in [mask -> 0 .. Cardinality(mask) - 1] : Ranks(rank, seed, mask, der)
    BY DEF IInv, FixpointSoFar
  <2>2. Cardinality(mask) \in 0 .. 13
    BY MaskFinite DEF IInv, Typed
  <2>3. rank \in [mask -> 0 .. Cardinality(mask)]
    BY <2>1, <2>2
  <2>4. QED
    BY <2>1, <2>3 DEF IInv, FixpointSoFar, Ranks
<1>2. QED
  BY <1>1, Invariant, PTL

(***************************************************************************)
(* For any evidence and any rules, every path reported is borne out by the *)
(* evidence and by the rules, from its token up to ROOT.                   *)
(***************************************************************************)
THEOREM Sound == Spec => []PathsSound
<1>1. IInv => PathsSound
  BY DEF IInv, EmittedSoFar
<1>2. QED
  BY <1>1, Invariant, PTL

(***************************************************************************)
(* For any evidence and any rules, the composer reports one path for each  *)
(* granted token from which the rules lead to ROOT, and misses none.       *)
(***************************************************************************)
THEOREM Complete == Spec => []PathsComplete
<1>1. IInv => PathsComplete
  <2> SUFFICES ASSUME IInv, pc = "done"
               PROVE  /\ {paths[i].token : i \in 1 .. Len(paths)} =
                           {t \in Token : Granting(t) # {} /\ ROOT \in Reachable[t]}
                      /\ \A i, j \in 1 .. Len(paths) : paths[i].token = paths[j].token => i = j
    BY DEF PathsComplete
  <2>1. Len(evidence) \in Nat /\ next = Len(evidence) + 1
    BY EvidenceFinite DEF IInv, GatheredSoFar
  <2>2. \A t \in Token : \A q \in Granting(t) : q < next
    BY <2>1 DEF Granting
  <2>3. initial = {t \in Token : Granting(t) # {}}
    BY <2>2 DEF IInv, GatheredSoFar
  <2>4. {paths[i].token : i \in 1 .. Len(paths)} =
          {t \in initial : t < 13 /\ ROOT \in Reachable[t]}
    BY DEF IInv, EmittedSoFar
  <2>5. \A t \in Token : t < 13
    BY DEF Token
  <2>6. QED
    BY <2>3, <2>4, <2>5 DEF IInv, EmittedSoFar
<1>2. QED
  BY <1>1, Invariant, PTL
=============================================================================
