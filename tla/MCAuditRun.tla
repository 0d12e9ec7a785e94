----------------------------- MODULE MCAuditRun -----------------------------
(***************************************************************************)
(* Three probes that differ in what they can leave behind: docker_socket,  *)
(* which says nothing when it finds nothing, waits for a daemon and may be *)
(* killed by it; cron, which leaves a CLEAN link, and here reads only      *)
(* files; groups, which can fail, and wait where /etc/passwd is a FIFO.    *)
(* Two records fit a fresh audit context and two findings a record, so     *)
(* both limits are passed.                                                 *)
(***************************************************************************)
EXTENDS AuditRun

Found(w, s) == [weight |-> w, verdict |-> "DETERMINISTIC", severity |-> s,
                text |-> {}, target |-> {}]
Clean == [Found(10, INFO) EXCEPT !.verdict = "REJECT"]
In(group, w, s) == [Found(w, s) EXCEPT !.text = {group}]

Outcome(rc, links) == [rc |-> rc, links |-> links]

MCRegistry == <<"docker_socket", "cron", "groups">>
MCUnknown  == {"sudo"}
MCOutcomes ==
  [docker_socket |-> {Outcome("OK", << >>),
                      Outcome("OK", <<In("docker", 40, 1)>>),
                      Outcome("OK", <<In("docker", 85, 3), In("docker", 99, 4), In("docker", 40, 1)>>)},
   cron   |-> {Outcome("OK", <<Clean>>),
               Outcome("OK", <<Found(70, 3)>>),
               Outcome("OK", <<Found(99, 4), Found(70, 3)>>)},
   groups |-> {Outcome("ERR_IO", << >>),
               Outcome("OK", <<Clean>>),
               Outcome("OK", <<In("docker", 95, 4), Found(30, 1)>>)}]
=============================================================================
