------------------------------ MODULE MCClaims ------------------------------
(***************************************************************************)
(* The hosts of MCProbes, and file systems on which what is claimed of the *)
(* probes can be told from what they do.                                   *)
(***************************************************************************)
EXTENDS MCProbes, ProbeClaims

MCClaimTrees ==
  [MCTrees EXCEPT
    !.cron    = Tree("etc/cron.daily" :> "D1", "a" :> "f1", << >>),
    !.service = Tree("lib/systemd/system" :> "D1" @@ "opt/d" :> "f1" @@ "opt/e" :> "f3",
                     "a.service" :> "f2" @@ "c.service" :> "f3", << >>),
    !.process = Tree("proc" :> "D1" @@ "opt/d" :> "f2" @@ "opt/e (deleted)" :> "f1"
                       @@ "gone" :> "f3",
                     "11" :> "x1" @@ "12" :> "x2" @@ "13" :> "x3", << >>)]

(* Of the units one starts what anybody can write; it does not belong to   *)
(* root, but the link L leads to it.                                       *)
MCClaimUnit ==
  [f \in MCFile |->
     CASE f = "f1" -> <<AsRoot, Starts(<<"opt/d">>)>>
       [] f = "f2" -> <<AsRoot, Starts(<<"opt/e">>)>>
       [] OTHER -> << >>]

(* One process runs a file that is called "gone", with all that is said.   *)
MCClaimImage == [f \in MCFile |-> CASE f = "x1" -> "f2" [] f = "x3" -> "f3" [] OTHER -> "f4"]

MCClaimClass ==
  [n \in UNION {DOMAIN t[d] : t \in Range(MCClaimTrees), d \in MCDir} \cup DOMAIN MCClassOf |->
     CASE n \in {"a.service", "c.service"} -> "service" [] n = "gone" -> "other"
       [] OTHER -> MCClassOf[n]]
MCClaimDeleted == [n \in DOMAIN MCClaimClass |-> IF n = "opt/e" THEN "opt/e (deleted)" ELSE "gone"]
=============================================================================
