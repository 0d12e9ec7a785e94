------------------------------ MODULE AuditRun ------------------------------
(***************************************************************************)
(* One run of the tool: main and zp_cli_parse (src/main.c), the runtime    *)
(* and the probe loop (src/probe_runner.c), the audit context and the two  *)
(* emitters (src/audit.c).                                                 *)
(*                                                                         *)
(* A probe is what it can leave behind: a return code and the links of its *)
(* chain, in the order it added them; or it never comes back, or takes the *)
(* program with it.  Its verdict is the plurality, which EvidenceChain     *)
(* shows the engine to decide; the paths of the report are the tokens that *)
(* Compose shows the composer to report.                                   *)
(***************************************************************************)
EXTENDS Risk, Escalation

CONSTANTS
  Registry,       \* the names of REGISTRY[], in order
  Unknown,        \* names a user may give that are not in it
  Outcomes,       \* per probe: the [rc, links] it can end with
  Waiting,        \* the probes that others can hold up for ever
  Mortal,         \* those in which a signal can end the program
  MaxProbes,      \* ZP_MAX_PROBES: 32
  ProbeCapacity,  \* the room of a fresh audit context: 16
  MaxFindings     \* findings per probe in the audit context: 4096

Registered == {Registry[i] : i \in 1 .. Len(Registry)}

ASSUME RegistryAssumption ==
  /\ Registry \in Seq(STRING)
  /\ MaxProbes \in Nat /\ Len(Registry) <= MaxProbes
  /\ \A i, j \in 1 .. Len(Registry) : Registry[i] = Registry[j] => i = j
  /\ Unknown \cap Registered = {}
ASSUME CapacityAssumption ==
  ProbeCapacity \in Nat \ {0} /\ MaxFindings \in Nat \ {0}

(* The weights that the probes give to a link, by its severity.            *)
GradeWeights ==
  [s \in Severity |->
    << {10}, {20, 30, 40, 50}, {50, 60, 70}, {60, 70, 75, 80, 85, 90}, {90, 95, 98, 99} >>[s + 1]]

ASSUME OutcomesAssumption ==
  /\ \A name \in Registered : \A o \in Outcomes[name] :
       /\ o.links \in Seq([weight : Weight, verdict : Verdict, severity : Severity,
                          text : SUBSET Keyword, target : SUBSET Keyword])
       /\ \A k \in 1 .. Len(o.links) : o.links[k].weight \in GradeWeights[o.links[k].severity]
  /\ Waiting \subseteq Registered /\ Mortal \subseteq Registered

VARIABLES
  pc,        \* "parse", "init", "probe", "score", "json", "html", "finish",
             \* "exited", "aborted" or "killed"
  args,      \* struct zp_cli_args
  looked,    \* entries of REGISTRY[] that zp_runtime_init has looked at
  probes,    \* rt->probes: the names selected
  chains,    \* rt->chains: the links of each
  verdicts,  \* the verdict field of each chain
  ran,       \* probes run so far
  worst,     \* the local of zp_run_probes, and its result
  audit,     \* struct audit_ctx: its probe records and their capacity
  risk,      \* rt->max_risk_x10 and rt->risk_label
  json, html,\* the documents on stdout, or NoDocument
  exit,      \* the exit status, or NoExit
  failed     \* history: the probes that returned an error

vars == <<pc, args, looked, probes, chains, verdicts, ran, worst, audit, risk, json,
          html, exit, failed>>

EXIT_OK    == 0
EXIT_PROBE == 1
EXIT_VULN  == 2

NoExit     == -1
NoDocument == [rows |-> << >>, findings |-> << >>, paths |-> {},
               overall |-> -1, label |-> "none"]

DefaultArgs ==
  [runAll |-> TRUE, probes |-> << >>, json |-> FALSE, html |-> FALSE, info |-> FALSE]

Init ==
  /\ pc = "parse"
  /\ args = DefaultArgs
  /\ looked = 0
  /\ probes = << >> /\ chains = << >> /\ verdicts = << >>
  /\ ran = 0
  /\ worst = EXIT_OK
  /\ audit = [records |-> << >>, capacity |-> ProbeCapacity]
  /\ risk = [x10 |-> 0, label |-> ""]
  /\ json = NoDocument /\ html = NoDocument
  /\ exit = NoExit
  /\ failed = {}

Exit(status) ==
  /\ pc' = "exited"
  /\ exit' = status

-----------------------------------------------------------------------------

(* One option that zp_cli_parse takes.  --help and --version are "info";   *)
(* --all after --probe selects every probe again, and --probe after --all  *)
(* only those named.                                                       *)
ParseOption ==
  /\ pc = "parse"
  /\ \/ args' = [args EXCEPT !.runAll = TRUE]
     \/ \E name \in Registered \cup Unknown :
          /\ Len(args.probes) < MaxProbes
          /\ args' = [args EXCEPT !.probes = Append(@, name), !.runAll = FALSE]
     \/ args' = [args EXCEPT !.json = TRUE]
     \/ args' = [args EXCEPT !.html = TRUE]
     \/ args' = [args EXCEPT !.info = TRUE]
  /\ UNCHANGED <<pc, looked, probes, chains, verdicts, ran, worst, audit, risk, json,
                 html, exit, failed>>

(* An unknown option, a name or root that is too long, one --probe too many. *)
UsageError ==
  /\ pc = "parse"
  /\ Exit(EXIT_PROBE)
  /\ UNCHANGED <<args, looked, probes, chains, verdicts, ran, worst, audit, risk, json,
                 html, failed>>

(* No option is left: usage or version is printed, or the run begins.      *)
EndOptions ==
  /\ pc = "parse"
  /\ \/ /\ args.info
        /\ Exit(EXIT_OK)
        /\ UNCHANGED args
     \/ /\ ~args.info
        /\ args' = [args EXCEPT !.json = @ \/ ~args.html]
        /\ pc' = "init"
        /\ UNCHANGED exit
  /\ UNCHANGED <<looked, probes, chains, verdicts, ran, worst, audit, risk, json, html,
                 failed>>

-----------------------------------------------------------------------------

(* probe_selected with --all forgotten.                                    *)
SelectedByNameOnly(name) == \E i \in 1 .. Len(args.probes) : args.probes[i] = name

(* probe_selected *)
Selected(name) == args.runAll \/ \E i \in 1 .. Len(args.probes) : args.probes[i] = name

(* One turn of the loop of zp_runtime_init.  When probes[] is full the code *)
(* leaves the loop: to go on would add nothing.                            *)
SelectProbe ==
  /\ pc = "init"
  /\ looked < Len(Registry)
  /\ looked' = looked + 1
  /\ LET name == Registry[looked + 1] IN
     IF Selected(name) /\ Len(probes) < MaxProbes
     THEN /\ probes' = Append(probes, name)
          /\ chains' = Append(chains, << >>)
          /\ verdicts' = Append(verdicts, "UNCERTAIN")
     ELSE UNCHANGED <<probes, chains, verdicts>>
  /\ UNCHANGED <<pc, args, ran, worst, audit, risk, json, html, exit, failed>>

(* The end of zp_runtime_init, and audit_ctx_init.                         *)
RuntimeInit ==
  /\ pc = "init"
  /\ looked = Len(Registry)
  /\ audit' = [records |-> << >>, capacity |-> ProbeCapacity]
  /\ pc' = "probe"
  /\ UNCHANGED <<args, looked, probes, chains, verdicts, ran, worst, risk, json,
                 html, exit, failed>>

(* What the links of each verdict weigh.                                   *)
Sums(links) ==
  [v \in Verdict |-> MapThenSumSet(LAMBDA i : links[i].weight,
                                  {i \in 1 .. Len(links) : links[i].verdict = v})]

(* What zp_engine_decide says of a chain with these links.                 *)
VerdictOf(links) == IF links = << >> THEN "UNCERTAIN" ELSE Plurality(Sums(links))

(* audit_ctx_add_finding with its bound one too low.                       *)
KeptOneShort(links) ==
  IF Len(links) < MaxFindings THEN links ELSE SubSeq(links, 1, MaxFindings - 1)

(* The findings of a chain that audit_ctx_add_finding accepts.             *)
Kept(links) ==
  IF Len(links) <= MaxFindings THEN links ELSE SubSeq(links, 1, MaxFindings)

(* audit_ctx_add_probe, then its findings: the records double their room.  *)
Recorded(name, verdict, links) ==
  [records |-> Append(audit.records,
                      [name |-> name, verdict |-> verdict, count |-> Len(links),
                       risk |-> ProbeRisk(links), findings |-> Kept(links)]),
   capacity |-> IF Len(audit.records) >= audit.capacity
                THEN 2 * audit.capacity ELSE audit.capacity]

(* The status of the loop after one more probe: the last one to fail or to *)
(* be DETERMINISTIC decides.                                               *)
Worsened(rc, verdict) ==
  IF verdict = "DETERMINISTIC" THEN EXIT_VULN
  ELSE IF rc # "OK" THEN EXIT_PROBE
  ELSE worst

(* The body of the loop of zp_run_probes, for probe i and what it leaves.  *)
Take(i, o) ==
  LET verdict == VerdictOf(o.links) IN
  /\ chains' = [chains EXCEPT ![i] = o.links]
  /\ verdicts' = [verdicts EXCEPT ![i] = verdict]
  /\ audit' = Recorded(probes[i], verdict, o.links)
  /\ worst' = Worsened(o.rc, verdict)
  /\ failed' = IF o.rc = "OK" THEN failed ELSE failed \cup {probes[i]}

(* The loop with its bound one too low.                                    *)
RunProbeButLast ==
  /\ pc = "probe"
  /\ ran + 1 < Len(probes)
  /\ \E o \in Outcomes[probes[ran + 1]] : Take(ran + 1, o)
  /\ ran' = ran + 1
  /\ UNCHANGED <<pc, args, looked, probes, risk, json, html, exit>>

(* One turn of the loop of zp_run_probes.                                  *)
RunProbe ==
  /\ pc = "probe"
  /\ ran < Len(probes)
  /\ \E o \in Outcomes[probes[ran + 1]] : Take(ran + 1, o)
  /\ ran' = ran + 1
  /\ UNCHANGED <<pc, args, looked, probes, risk, json, html, exit>>

(* A probe writes to a peer that has hung up: SIGPIPE, and no report.      *)
Killed ==
  /\ pc = "probe"
  /\ ran < Len(probes) /\ probes[ran + 1] \in Mortal
  /\ pc' = "killed"
  /\ UNCHANGED <<args, looked, probes, chains, verdicts, ran, worst, audit, risk, json,
                 html, exit, failed>>

(* rt->max_risk_x10 from an overall score that is not held to 10.          *)
HighestUncapped(scores) == Times10(Worst(scores) + Bonus(scores))

(* rt->max_risk_x10: the rounded scores raise it in turn, then the overall *)
(* one if it is above them.                                                *)
Highest(scores) ==
  IF Times10(OverallRisk(scores)) > Times10(Worst(scores))
  THEN Times10(OverallRisk(scores)) ELSE Times10(Worst(scores))

(* The array scores[] at the end of zp_run_probes.                         *)
Scores == [i \in 1 .. Len(probes) |-> ProbeRisk(chains[i])]

(* The end of zp_run_probes: the scores.                                   *)
Aggregate ==
  /\ pc = "probe"
  /\ ran = Len(probes)
  /\ risk' = [x10 |-> Highest(Scores), label |-> LabelOf(OverallRisk(Scores))]
  /\ pc' = "json"
  /\ UNCHANGED <<args, looked, probes, chains, verdicts, ran, worst, audit, json, html,
                 exit, failed>>

-----------------------------------------------------------------------------

(* The entry of a probe in either document.                                *)
Row(i) == [name |-> probes[i], verdict |-> verdicts[i], count |-> Len(chains[i]),
           risk |-> ProbeRisk(chains[i])]

Rows == [i \in 1 .. Len(probes) |-> Row(i)]

(* zp_compose_json without its check of the chain's verdict and the link.  *)
PathsUnfiltered ==
  UNION {{TokenOf(probes[i], chains[i][k]) : k \in 1 .. Len(chains[i])} : i \in 1 .. Len(probes)}
    \ {NoToken}

(* The tokens from which the rules reach ROOT.                             *)
Rootward == {t \in Token : ROOT \in Closure(RuleTable)[t]}

(* zp_compose_json: the tokens it reports a path for.                      *)
Paths ==
  {t \in Rootward :
     \E i \in 1 .. Len(probes) : \E k \in 1 .. Len(chains[i]) :
       Counts(verdicts[i], chains[i][k]) /\ TokenOf(probes[i], chains[i][k]) = t}

(* What audit_emit_json writes.                                            *)
JsonDocument ==
  [rows |-> Rows, findings |-> chains, paths |-> Paths,
   overall |-> risk.x10, label |-> risk.label]

(* What audit_emit_html writes: neither findings nor paths.                *)
HtmlDocument ==
  [rows |-> Rows, findings |-> << >>, paths |-> {},
   overall |-> risk.x10, label |-> risk.label]

(* audit_emit_json, if asked for.                                          *)
EmitJson ==
  /\ pc = "json"
  /\ json' = IF args.json THEN JsonDocument ELSE json
  /\ pc' = "html"
  /\ UNCHANGED <<args, looked, probes, chains, verdicts, ran, worst, audit, risk, html,
                 exit, failed>>

(* audit_emit_html, if asked for.                                          *)
EmitHtml ==
  /\ pc = "html"
  /\ html' = IF args.html THEN HtmlDocument ELSE html
  /\ pc' = "finish"
  /\ UNCHANGED <<args, looked, probes, chains, verdicts, ran, worst, audit, risk, json,
                 exit, failed>>

(* The exit status without the look at the risk.                           *)
StatusOfProbesOnly == worst

(* A run that went well still counts as vulnerable if any risk was found.  *)
Status == IF worst = EXIT_OK /\ risk.x10 > 0 THEN EXIT_VULN ELSE worst

(* The end of main: the status is fixed, then everything is released.      *)
Finish ==
  /\ pc = "finish"
  /\ Exit(Status)
  /\ probes' = << >> /\ chains' = << >> /\ verdicts' = << >>
  /\ audit' = [records |-> << >>, capacity |-> 0]
  /\ UNCHANGED <<args, looked, ran, worst, risk, json, html, failed>>

(* Any of the allocations finds no memory: abort().                        *)
OutOfMemory ==
  /\ pc \in {"init", "probe", "json"}
  /\ pc' = "aborted"
  /\ UNCHANGED <<args, looked, probes, chains, verdicts, ran, worst, audit, risk, json,
                 html, exit, failed>>

Next ==
  \/ ParseOption \/ UsageError \/ EndOptions
  \/ SelectProbe \/ RuntimeInit \/ RunProbe \/ Aggregate
  \/ EmitJson \/ EmitHtml \/ Finish
  \/ Killed \/ OutOfMemory

(* The probe that runs may wait for others for ever: for the answer of a   *)
(* daemon, or for somebody to write to a FIFO.                             *)
Held == pc = "probe" /\ ran < Len(probes) /\ probes[ran + 1] \in Waiting

(* A command line ends, and a probe that waits for nobody comes back;      *)
(* whether one that waits does, an option is wrong, a signal comes or      *)
(* memory runs out is nobody's promise.                                    *)
Progress ==
  \/ EndOptions
  \/ SelectProbe \/ RuntimeInit \/ (~Held /\ RunProbe) \/ Aggregate
  \/ EmitJson \/ EmitHtml \/ Finish

Fairness == WF_vars(Progress)

Spec == Init /\ [][Next]_vars
FairSpec == Spec /\ Fairness

-----------------------------------------------------------------------------

Printed == {d \in {json, html} : d # NoDocument}
Started == pc \in {"probe", "json", "html", "finish"}

(* Type correctness of the run's state and of what it prints.              *)
TypeOK ==
  /\ pc \in {"parse", "init", "probe", "json", "html", "finish", "exited", "aborted",
            "killed"}
  /\ args \in [runAll : BOOLEAN, probes : Seq(Registered \cup Unknown),
               json : BOOLEAN, html : BOOLEAN, info : BOOLEAN]
  /\ Len(args.probes) <= MaxProbes
  /\ probes \in Seq(Registered) /\ Len(probes) <= MaxProbes
  /\ Len(chains) = Len(probes) /\ verdicts \in Seq(Verdict) /\ Len(verdicts) = Len(probes)
  /\ looked \in 0 .. Len(Registry) /\ ran \in 0 .. MaxProbes
  /\ {worst, exit} \subseteq {NoExit, EXIT_OK, EXIT_PROBE, EXIT_VULN}
  /\ risk.x10 \in 0 .. 100 /\ risk.label \in Label \cup {""}
  /\ failed \subseteq Registered
  /\ exit # NoExit <=> pc = "exited"

(***************************************************************************)
(* The probes that run are the ones asked for, each once and in registry   *)
(* order, however the options were repeated or mixed: a name outside the   *)
(* registry, or one given twice, adds nothing.                             *)
(***************************************************************************)
SelectionHonoured ==
  Started =>
    /\ {probes[i] : i \in 1 .. Len(probes)} =
         IF args.runAll THEN Registered
         ELSE Registered \cap {args.probes[i] : i \in 1 .. Len(args.probes)}
    /\ \A i, j \in 1 .. Len(probes) : i < j =>
         \E k, m \in 1 .. Len(Registry) :
           k < m /\ Registry[k] = probes[i] /\ Registry[m] = probes[j]

(***************************************************************************)
(* The audit context mirrors the chains of the probes that have run: one   *)
(* record each, in order, with the verdict and the number of links, and    *)
(* its findings are the links themselves, up to the limit; it never runs   *)
(* out of its own room.                                                    *)
(***************************************************************************)
AuditMirrorsChains ==
  Started =>
    /\ Len(audit.records) = ran /\ ran <= audit.capacity
    /\ \A i \in 1 .. ran :
         LET r == audit.records[i] IN
         /\ r.name = probes[i] /\ r.verdict = verdicts[i] /\ r.count = Len(chains[i])
         /\ IsPrefix(r.findings, chains[i])
         /\ Len(r.findings) = r.count \/ Len(r.findings) = MaxFindings

(***************************************************************************)
(* The risk printed covers everything printed under it: rounded to a tenth *)
(* as it is, it is no lower than the score of any probe and of any finding *)
(* of the same document, which are printed without that rounding, and its  *)
(* label no lower than that of any probe.  This is so because no grade     *)
(* that the probes give has a score that is rounded down.                  *)
(***************************************************************************)
RiskCovers ==
  \A d \in Printed :
    /\ d.overall <= 100
    /\ \A i \in 1 .. Len(d.rows) :
         /\ 100 * d.overall >= d.rows[i].risk
         /\ LabelToInt[d.label] >= LabelToInt[LabelOf(d.rows[i].risk)]
         /\ d = json => \A k \in 1 .. Len(d.findings[i]) :
              100 * d.overall >= FindingRisk(d.findings[i][k].severity, d.findings[i][k].weight)

(***************************************************************************)
(* An escalation path in the report is borne out by the report: a probe it *)
(* lists as not rejected has a finding above INFO that grants the path,    *)
(* and the audit as a whole is labelled above INFO.                        *)
(***************************************************************************)
PathsBorneOut ==
  \A t \in json.paths :
    /\ json.label # "INFO" /\ json.overall > 0
    /\ \E i \in 1 .. Len(json.rows) : \E k \in 1 .. Len(json.findings[i]) :
         /\ json.rows[i].verdict # "REJECT"
         /\ json.findings[i][k].severity > INFO
         /\ TokenOf(json.rows[i].name, json.findings[i][k]) = t

(***************************************************************************)
(* The exit status of a run that printed a report is explained by it.      *)
(* With 0, no probe failed and no document lists any evidence; with 1, a   *)
(* probe failed; with 2, every document lists evidence, and, if a probe    *)
(* failed, one that was DETERMINISTIC all the same.  A run whose report    *)
(* shows a path therefore never exits with 0, and a failure is never       *)
(* passed over for a risk that merely rounds to more than zero.            *)
(***************************************************************************)
ExitExplained ==
  LET Evident(d) == \E i \in 1 .. Len(d.rows) : d.rows[i].count > 0
      Certain(d) == \E i \in 1 .. Len(d.rows) : d.rows[i].verdict = "DETERMINISTIC"
  IN /\ exit = EXIT_OK => failed = {} /\ \A d \in Printed : ~Evident(d)
     /\ exit = EXIT_PROBE /\ Printed # {} => failed # {}
     /\ exit = EXIT_VULN =>
          /\ Printed # {}
          /\ \A d \in Printed : Evident(d) /\ (failed # {} => Certain(d))

(***************************************************************************)
(* Every run comes to an end, unless others hold up a probe that waits for *)
(* them for ever.                                                          *)
(***************************************************************************)
EndsOrHeld == <>(pc \in {"exited", "aborted", "killed"}) \/ <>[]Held

(***************************************************************************)
(* man/z_privesc.1:71-72 and src/main.c:52, exit status 2: "At least one   *)
(* probe reported a DETERMINISTIC finding."                                *)
(***************************************************************************)
DeterministicExitsTwo ==
  pc = "exited" /\ (\E d \in Printed : \E i \in 1 .. Len(d.rows) :
                     d.rows[i].verdict = "DETERMINISTIC")
    => exit = EXIT_VULN
=============================================================================
