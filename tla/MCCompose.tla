------------------------------ MODULE MCCompose ------------------------------
(***************************************************************************)
(* Evidence of six probes, in registry order, each with the chains it can *)
(* leave behind.  Together they reach every token: directly ROOT (nfs), in *)
(* one rule (groups, suid) and in two (cron, writable_etc); two sources of *)
(* one token (suid, sudoers); links that grant nothing; CLEAN chains.      *)
(***************************************************************************)
EXTENDS Compose

Found(w, s) == [weight |-> w, verdict |-> "DETERMINISTIC", severity |-> s,
                text |-> {}, target |-> {}]
Clean == [Found(10, INFO) EXCEPT !.verdict = "REJECT"]

Chains ==
  << [probe |-> "suid",
      chains |-> { << >>, <<Found(50, 2)>>, <<Found(50, 2), Found(95, 4)>> }],
     [probe |-> "writable_etc",
      chains |-> { << >>, <<[Found(99, 4) EXCEPT !.target = {"sudoers"}]>>,
                   <<[Found(99, 4) EXCEPT !.target = {"cron", "systemd"}],
                     [Found(95, 4) EXCEPT !.target = {"ld.so"}]>> }],
     [probe |-> "cron", chains |-> { <<Clean>>, <<Found(90, 3)>> }],
     [probe |-> "sudoers", chains |-> { <<Clean>>, <<Found(95, 4)>> }],
     [probe |-> "groups",
      chains |-> { <<Clean>>, <<[Found(95, 4) EXCEPT !.text = {"docker"}],
                                [Found(90, 4) EXCEPT !.text = {"disk"}],
                                Found(30, 1)>> }],
     [probe |-> "nfs", chains |-> { <<Clean>>, <<Found(60, 3)>> }] >>

(* The verdict of the chains above: none mixes REJECT with other links.    *)
VerdictOf(c) ==
  IF c = << >> THEN "UNCERTAIN" ELSE IF c = <<Clean>> THEN "REJECT" ELSE "DETERMINISTIC"

Stamp(probe, c) ==
  [k \in 1 .. Len(c) |->
     [probe |-> probe, chain |-> VerdictOf(c), weight |-> c[k].weight,
      verdict |-> c[k].verdict, severity |-> c[k].severity,
      text |-> c[k].text, target |-> c[k].target]]

MCEvidences ==
  {Stamp("suid", a) \o Stamp("writable_etc", b) \o Stamp("cron", c) \o
   Stamp("sudoers", d) \o Stamp("groups", e) \o Stamp("nfs", f) :
     a \in Chains[1].chains, b \in Chains[2].chains, c \in Chains[3].chains,
     d \in Chains[4].chains, e \in Chains[5].chains, f \in Chains[6].chains}

(* A table unlike RULES[]: its order asks for several passes, two tokens   *)
(* yield each other, one rule needs both of them, and WRITE_CRON and       *)
(* WRITE_SUDOERS lead nowhere.                                             *)
TwistedRules ==
  << Rule({EXEC_AS_ROOT},                 ROOT,             857),
     Rule({WRITE_DISK, CONTAINER_ESCAPE}, EXEC_AS_ROOT,     750),
     Rule({CONTAINER_ESCAPE},             WRITE_DISK,       900),
     Rule({WRITE_DISK},                   CONTAINER_ESCAPE, 667),
     Rule({EXEC_AS_ROOT},                 WRITE_DISK,       667),
     Rule({WRITE_CRON},                   WRITE_SUDOERS,    667) >>
=============================================================================
