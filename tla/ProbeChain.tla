----------------------------- MODULE ProbeChain -----------------------------
(***************************************************************************)
(* What the probes share: the links each adds to its evidence chain, the   *)
(* counter it keeps of them, and the CLEAN link that most of them add when *)
(* that counter is still zero at the end.                                  *)
(*                                                                         *)
(* A link is a record of its kind (the id without its number), the path it *)
(* names as its target, its weight and severity, and the composer's        *)
(* keywords in its id and description.  All links but CLEAN have the       *)
(* verdict DETERMINISTIC.                                                  *)
(***************************************************************************)
EXTENDS Escalation, SequencesExt, FiniteSetsExt

VARIABLES
  probe,  \* which probe runs
  pc,     \* where it is; "done" when it has returned
  total,  \* its counter of findings
  chain   \* its evidence

(* The probes that add a CLEAN link when they have counted nothing.        *)
HasClean == {"cron", "service", "ld_preload", "ssh_keys", "process",
             "kernel_vuln", "kernel_hardening", "groups", "sudoers", "nfs"}

Finding(kind, path, weight, severity, words) ==
  [kind |-> kind, path |-> path, weight |-> weight, severity |-> severity, words |-> words]

Clean == Finding("CLEAN", << >>, 10, INFO, {})

(* The findings are added and counted.                                     *)
Report(found) ==
  /\ chain' = chain \o found
  /\ total' = total + Len(found)

(* Before it returns, a probe that has counted nothing says so; the test   *)
(* left out, ...                                                           *)
CloseAlways == IF probe \in HasClean THEN Append(chain, Clean) ELSE chain

(* ... and as it is.                                                       *)
Close == IF probe \in HasClean /\ total = 0 THEN Append(chain, Clean) ELSE chain

Finish ==
  /\ chain' = Close
  /\ pc' = "done"
  /\ UNCHANGED <<probe, total>>

-----------------------------------------------------------------------------

(* What the engine and the composer make of the chain of a finished probe. *)
VerdictOf(e) == IF e.kind = "CLEAN" THEN "REJECT" ELSE "DETERMINISTIC"

ChainVerdict ==
  Plurality([v \in Verdict |->
    Total([k \in 1 .. Len(chain) |-> IF VerdictOf(chain[k]) = v THEN chain[k].weight ELSE 0])])

(* The composer's keywords in the names along the path of a link.          *)
WordsIn(name) ==
  CASE name \in {"sudoers", "etc/sudoers", "etc/sudoers.d"} -> {"sudoers"}
    [] name = "systemd" -> {"systemd"}
    [] name \in {"cron.d", "cronies"} -> {"cron"}
    [] name = "ld.so.conf.d" -> {"ld.so"}
    [] OTHER -> {}

TargetWords(path) ==
  IF probe \in {"writable_etc", "world_writable"} THEN UNION {WordsIn(path[k]) : k \in 1 .. Len(path)}
  ELSE {}

LinkOf(e) ==
  [weight |-> e.weight, verdict |-> VerdictOf(e), severity |-> e.severity,
   text |-> e.words, target |-> TargetWords(e.path)]

Granted ==
  {TokenOf(probe, LinkOf(chain[k])) :
     k \in {j \in 1 .. Len(chain) : Counts(ChainVerdict, LinkOf(chain[j]))}} \ {NoToken}

(***************************************************************************)
(* A chain tells findings from their absence.  A CLEAN link never stands   *)
(* next to a finding; the verdict is DETERMINISTIC exactly if something    *)
(* was found, REJECT exactly if the probe says that nothing was, and       *)
(* UNCERTAIN if it says neither.                                           *)
(***************************************************************************)
CleanStandsAlone ==
  pc = "done" =>
    LET found == \E k \in 1 .. Len(chain) : chain[k].kind # "CLEAN" IN
    /\ ChainVerdict = "REJECT" <=> chain = <<Clean>>
    /\ ChainVerdict = "DETERMINISTIC" <=> found
    /\ ChainVerdict = "UNCERTAIN" <=> chain = << >>
    /\ found => Clean \notin Range(chain)
=============================================================================
