------------------------------- MODULE Compose -------------------------------
(***************************************************************************)
(* zp_compose_json (src/compose.c): from the evidence of the finished      *)
(* probes to the escalation paths of the report.                           *)
(*                                                                         *)
(* The composer gathers the tokens the evidence grants, remembering for    *)
(* each grant the finding it came from while there is room.  Then, for     *)
(* each granted token, it runs the rules from that token alone to a        *)
(* fixpoint, noting the rule that first derived each token, and if ROOT    *)
(* was reached walks those notes back to the seed.                         *)
(***************************************************************************)
EXTENDS Escalation, FiniteSetsExt

CONSTANTS
  Evidences,   \* the evidence a run can end with: sequences of links, each
               \* with its probe and the verdict of its probe's chain
  Rules,       \* the production rules
  MaxRefs,     \* the size of refs[]: 256
  MaxPaths,    \* paths emitted at most: 24
  MaxEdges     \* edges of a path at most: 63

(* There is room for a path from each token, and in a path for a step to   *)
(* each token but the first.                                               *)
ASSUME BoundsAssumption ==
  MaxRefs \in Nat /\ MaxPaths \in Nat \ Token /\ MaxEdges \in Nat \ (0 .. 11)
ASSUME EvidencesAssumption ==
  \A e \in Evidences :
    e \in Seq([probe : STRING, chain : Verdict, weight : Weight, verdict : Verdict,
               severity : Severity, text : SUBSET Keyword, target : SUBSET Keyword])
ASSUME RulesAssumption ==
  Rules \in Seq([pre : (SUBSET Token) \ {{}}, result : Token, p : 0 .. 1000])

VARIABLES
  pc,          \* "gather", "seed", "fixpoint", "backchain" or "done"
  evidence,    \* what the probes found
  next,        \* the link map_link takes next
  initial,     \* the granted tokens
  refs,        \* source findings: token and position in the evidence
  seed,        \* the token t of the enumeration
  mask, der, changed, rule,    \* the locals of fixpoint_from
  cur, edges,  \* the walk back from ROOT
  paths        \* the paths emitted

vars == <<pc, evidence, next, initial, refs, seed, mask, der, changed, rule,
          cur, edges, paths>>

NoRule == 0
NoFinding == 0
Underived == [t \in Token |-> NoRule]

Init ==
  /\ pc = "gather"
  /\ evidence \in Evidences
  /\ next = 1
  /\ initial = {}
  /\ refs = << >>
  /\ seed = 0
  /\ mask = {} /\ der = Underived /\ changed = FALSE /\ rule = 1
  /\ cur = ROOT /\ edges = << >>
  /\ paths = << >>

(* Whether refs[] takes one more, with the bound one too high.             *)
RoomForOneMore == Len(refs) <= MaxRefs

(* Whether refs[] takes one more.                                          *)
Room == Len(refs) < MaxRefs

(* One turn of the gathering loop, map_link included: a grant beyond the   *)
(* room in refs still sets its bit.                                        *)
Gather ==
  /\ pc = "gather"
  /\ next <= Len(evidence)
  /\ next' = next + 1
  /\ LET l == evidence[next]
         t == TokenOf(l.probe, l)
         grants == Counts(l.chain, l) /\ t # NoToken
     IN /\ initial' = IF grants THEN initial \cup {t} ELSE initial
        /\ refs' = IF grants /\ Room
                   THEN Append(refs, [token |-> t, finding |-> next])
                   ELSE refs
  /\ UNCHANGED <<pc, evidence, seed, mask, der, changed, rule, cur, edges, paths>>

Gathered ==
  /\ pc = "gather"
  /\ next > Len(evidence)
  /\ pc' = "seed"
  /\ UNCHANGED <<evidence, next, initial, refs, seed, mask, der, changed, rule,
                 cur, edges, paths>>

(* The enumeration passes over a token nothing granted.                    *)
SkipToken ==
  /\ pc = "seed"
  /\ seed \in Token /\ Len(paths) < MaxPaths
  /\ seed \notin initial
  /\ seed' = seed + 1
  /\ UNCHANGED <<pc, evidence, next, initial, refs, mask, der, changed, rule,
                 cur, edges, paths>>

(* One fixpoint from all that was granted, which the code decides against. *)
AllGranted == initial

(* fixpoint_from starts with the seed alone.                               *)
StartMask == {seed}

StartFixpoint ==
  /\ pc = "seed"
  /\ seed \in Token /\ Len(paths) < MaxPaths
  /\ seed \in initial
  /\ pc' = "fixpoint"
  /\ mask' = StartMask
  /\ der' = Underived
  /\ changed' = FALSE
  /\ rule' = 1
  /\ UNCHANGED <<evidence, next, initial, refs, seed, cur, edges, paths>>

Enabled(r) == r.pre \subseteq mask

(* Counting as new a token that is known already.                          *)
AlwaysNew(t) == TRUE
New(t) == t \notin mask

(* The rule noted for token t when rule i yields it: the last one to, ...  *)
NoteLast(t, i) == [der EXCEPT ![t] = i]

(* ... and, as in the code, the first.                                     *)
NoteFirst(t, i) == IF der[t] = NoRule THEN [der EXCEPT ![t] = i] ELSE der

(* One rule of a pass: the first rule to yield a token is noted as its     *)
(* derivation, whether or not the token was new.                           *)
ApplyRule ==
  /\ pc = "fixpoint"
  /\ rule <= Len(Rules)
  /\ rule' = rule + 1
  /\ LET r == Rules[rule] IN
     IF Enabled(r)
     THEN /\ mask' = mask \cup {r.result}
          /\ changed' = (changed \/ New(r.result))
          /\ der' = NoteFirst(r.result, rule)
     ELSE UNCHANGED <<mask, changed, der>>
  /\ UNCHANGED <<pc, evidence, next, initial, refs, seed, cur, edges, paths>>

(* Ending the fixpoint after one pass.                                     *)
SettledAtOnce == TRUE

(* A pass that changed nothing is the last.                                *)
Settled == ~changed

(* The end of a pass: another one, a walk back from ROOT, or no path.      *)
EndPass ==
  /\ pc = "fixpoint"
  /\ rule > Len(Rules)
  /\ \/ /\ ~Settled
        /\ changed' = FALSE
        /\ rule' = 1
        /\ UNCHANGED <<pc, seed, cur, edges>>
     \/ /\ Settled /\ ROOT \in mask
        /\ pc' = "backchain"
        /\ cur' = ROOT
        /\ edges' = << >>
        /\ UNCHANGED <<seed, changed, rule>>
     \/ /\ Settled /\ ROOT \notin mask
        /\ pc' = "seed"
        /\ seed' = seed + 1
        /\ UNCHANGED <<changed, rule, cur, edges>>
  /\ UNCHANGED <<evidence, next, initial, refs, mask, der, paths>>

WalksOn == cur # seed /\ der[cur] # NoRule /\ Len(edges) < MaxEdges

(* One step back, to the lowest token the deriving rule needs.             *)
StepBack ==
  /\ pc = "backchain"
  /\ WalksOn
  /\ LET pre == Min(Rules[der[cur]].pre) IN
     /\ edges' = <<[from |-> pre, to |-> cur, rule |-> der[cur]]>> \o edges
     /\ cur' = pre
  /\ UNCHANGED <<pc, evidence, next, initial, refs, seed, mask, der, changed,
                 rule, paths>>

(* The first finding remembered, whatever it grants.                       *)
FirstFinding(t) == IF refs = << >> THEN NoFinding ELSE refs[1].finding

(* The finding shown for a token: the first one remembered, if any.        *)
FindingOf(t) ==
  LET rs == {q \in 1 .. Len(refs) : refs[q].token = t}
  IN IF rs = {} THEN NoFinding ELSE refs[Min(rs)].finding

EmitPath ==
  /\ pc = "backchain"
  /\ ~WalksOn
  /\ paths' = Append(paths, [token |-> seed, steps |-> edges, finding |-> FindingOf(seed)])
  /\ pc' = "seed"
  /\ seed' = seed + 1
  /\ UNCHANGED <<evidence, next, initial, refs, mask, der, changed, rule, cur, edges>>

Finish ==
  /\ pc = "seed"
  /\ seed \notin Token \/ Len(paths) >= MaxPaths
  /\ pc' = "done"
  /\ UNCHANGED <<evidence, next, initial, refs, seed, mask, der, changed, rule,
                 cur, edges, paths>>

Next ==
  \/ Gather \/ Gathered
  \/ SkipToken \/ StartFixpoint \/ ApplyRule \/ EndPass
  \/ StepBack \/ EmitPath \/ Finish

Spec == Init /\ [][Next]_vars

(* The composer runs on the tool's only thread and waits for nothing.      *)
FairSpec == Spec /\ WF_vars(Next)

-----------------------------------------------------------------------------

(* Type correctness of the composer's locals and its output.               *)
TypeOK ==
  /\ pc \in {"gather", "seed", "fixpoint", "backchain", "done"}
  /\ evidence \in Evidences
  /\ next \in 1 .. Len(evidence) + 1
  /\ initial \subseteq Token /\ mask \subseteq Token
  /\ Len(refs) <= MaxRefs
  /\ \A q \in 1 .. Len(refs) : refs[q] \in [token : Token, finding : 1 .. Len(evidence)]
  /\ seed \in 0 .. 13 /\ cur \in Token
  /\ der \in [Token -> 0 .. Len(Rules)]
  /\ changed \in BOOLEAN
  /\ rule \in 1 .. Len(Rules) + 1
  /\ Len(edges) <= MaxEdges /\ Len(paths) <= MaxPaths

(* The links the composer may act on.                                      *)
Granting(t) ==
  {q \in 1 .. Len(evidence) :
     Counts(evidence[q].chain, evidence[q]) /\ TokenOf(evidence[q].probe, evidence[q]) = t}

(* What the rules make of each token.                                      *)
Reachable == Closure(Rules)

(***************************************************************************)
(* The fixpoint run from a seed stays within what the rules make of it,    *)
(* and a derivation noted for a token other than the seed rests on tokens  *)
(* that were derived before: walking back can neither loop nor dead-end.   *)
(***************************************************************************)
DerivationsGrounded ==
  pc \in {"fixpoint", "backchain"} =>
    /\ mask \subseteq Reachable[seed]
    /\ \E rank \in [mask -> 0 .. Cardinality(mask)] :
         /\ rank[seed] = 0
         /\ \A t \in mask \ {seed} :
              der[t] # NoRule /\ \A u \in Rules[der[t]].pre : u \in mask /\ rank[u] < rank[t]

(* Path p starts at a token some finding grants, names such a finding if   *)
(* any, and is joined end to end, rule by rule, up to ROOT.                *)
SoundPath(p) ==
  LET n == Len(p.steps)
  IN /\ Granting(p.token) # {}
     /\ p.finding # NoFinding => p.finding \in Granting(p.token)
     /\ n = 0 <=> p.token = ROOT
     /\ n > 0 => p.steps[1].from = p.token /\ p.steps[n].to = ROOT
     /\ \A k \in 1 .. n :
          /\ p.steps[k].from \in Rules[p.steps[k].rule].pre
          /\ p.steps[k].to = Rules[p.steps[k].rule].result
          /\ k < n => p.steps[k].to = p.steps[k + 1].from
     /\ \A k, m \in 1 .. n : p.steps[k].to = p.steps[m].to => k = m

(***************************************************************************)
(* Every path reported is real: its token was granted by a finding that is *)
(* neither rejected nor informational, of a probe that was not rejected;   *)
(* its steps are rules of the table, joined end to end from that token to  *)
(* ROOT, and none is repeated.                                             *)
(***************************************************************************)
PathsSound == \A i \in 1 .. Len(paths) : SoundPath(paths[i])

(***************************************************************************)
(* Nothing is missed: when the composer is done there is one path, and one *)
(* only, for each granted token from which the rules reach ROOT.           *)
(***************************************************************************)
PathsComplete ==
  pc = "done" =>
    /\ {paths[i].token : i \in 1 .. Len(paths)} =
         {t \in Token : Granting(t) # {} /\ ROOT \in Reachable[t]}
    /\ \A i, j \in 1 .. Len(paths) : paths[i].token = paths[j].token => i = j

(***************************************************************************)
(* The composer ends, whatever the evidence.                               *)
(***************************************************************************)
Terminates == <>(pc = "done")

(***************************************************************************)
(* docs/COMPOSITION.md:161-162: "the first step carries the source finding *)
(* id and target (the concrete evidence)".                                 *)
(***************************************************************************)
EveryPathNamesItsFinding ==
  \A i \in 1 .. Len(paths) : paths[i].finding # NoFinding
=============================================================================
