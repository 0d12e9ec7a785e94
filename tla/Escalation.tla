----------------------------- MODULE Escalation -----------------------------
(***************************************************************************)
(* The static part of src/compose.c: the privilege tokens, the production  *)
(* rules, and the token an evidence link grants.                           *)
(*                                                                         *)
(* A link here is what the composer tells apart of one: its weight,        *)
(* verdict and severity, and which of the composer's keywords occur in its *)
(* target and in its id or description ("text").                           *)
(***************************************************************************)
EXTENDS Truthimatics

ROOT              == 0
EXEC_AS_ROOT      == 1
WRITE_SUDOERS     == 2
WRITE_SYSTEMD     == 3
WRITE_CRON        == 4
INJECT_PRELOAD    == 5
CONTAINER_ESCAPE  == 6
READ_ROOT_KEY     == 7
WRITE_DISK        == 8
SETUID_CAP        == 9
KERNEL_LPE        == 10
POLKIT_LPE        == 11
WRITE_PATH_TROJAN == 12

Token   == 0 .. 12
NoToken == -1

Rule(pre, result, p) == [pre |-> pre, result |-> result, p |-> p]

(* RULES[], the reliability p in thousandths.                              *)
RuleTable ==
  << Rule({EXEC_AS_ROOT},      ROOT,         857),
     Rule({WRITE_SUDOERS},     EXEC_AS_ROOT, 750),
     Rule({WRITE_SYSTEMD},     EXEC_AS_ROOT, 667),
     Rule({WRITE_CRON},        EXEC_AS_ROOT, 667),
     Rule({INJECT_PRELOAD},    EXEC_AS_ROOT, 667),
     Rule({WRITE_PATH_TROJAN}, EXEC_AS_ROOT, 667),
     Rule({CONTAINER_ESCAPE},  ROOT,         750),
     Rule({READ_ROOT_KEY},     ROOT,         667),
     Rule({WRITE_DISK},        ROOT,         900),
     Rule({SETUID_CAP},        EXEC_AS_ROOT, 667),
     Rule({KERNEL_LPE},        ROOT,         900),
     Rule({POLKIT_LPE},        ROOT,         333) >>

Keyword == {"docker", "lxd", "disk", "setuid", "dac_override", "sudoers",
            "systemd", "cron", "ld.so", "preload", "writable"}

(* The probes every link of which grants the same token.                   *)
ProbeToken ==
  [sudoers       |-> EXEC_AS_ROOT,
   service       |-> WRITE_SYSTEMD,
   cron          |-> WRITE_CRON,
   ld_preload    |-> INJECT_PRELOAD,
   ssh_keys      |-> READ_ROOT_KEY,
   kernel_vuln   |-> KERNEL_LPE,
   polkit        |-> POLKIT_LPE,
   docker_socket |-> CONTAINER_ESCAPE,
   writable_path |-> WRITE_PATH_TROJAN,
   nfs           |-> ROOT]

(* map_link: the token that link l of a probe grants, or NoToken.          *)
TokenOf(probe, l) ==
  CASE probe \in DOMAIN ProbeToken -> ProbeToken[probe]
    [] probe = "suid" /\ l.weight >= 80 -> EXEC_AS_ROOT
    [] probe = "groups" /\ l.text \cap {"docker", "lxd"} # {} -> CONTAINER_ESCAPE
    [] probe = "groups" /\ l.text \cap {"docker", "lxd"} = {} /\ "disk" \in l.text -> WRITE_DISK
    [] probe = "capabilities" /\ l.text \cap {"setuid", "dac_override"} # {} -> SETUID_CAP
    [] probe = "process" /\ "writable" \in l.text \cup l.target -> EXEC_AS_ROOT
    [] probe \in {"writable_etc", "world_writable"} ->
         ( CASE "sudoers" \in l.target -> WRITE_SUDOERS
             [] "sudoers" \notin l.target /\ "systemd" \in l.target -> WRITE_SYSTEMD
             [] l.target \cap {"sudoers", "systemd"} = {} /\ "cron" \in l.target -> WRITE_CRON
             [] /\ l.target \cap {"sudoers", "systemd", "cron"} = {}
                /\ l.target \cap {"ld.so", "preload"} # {} -> INJECT_PRELOAD
             [] OTHER -> NoToken )
    [] OTHER -> NoToken

(* Whether zp_compose_json lets link l of a chain so judged grant anything. *)
Counts(verdict, l) ==
  verdict # "REJECT" /\ l.verdict # "REJECT" /\ l.severity # INFO

(* The sets of tokens that applying the rules leaves alone.                *)
ClosedUnder(rules, S) ==
  \A i \in 1 .. Len(rules) : rules[i].pre \subseteq S => rules[i].result \in S

(* For each token, what the rules make of it: the least closed set with it. *)
Closure(rules) ==
  LET closed == {S \in SUBSET Token : ClosedUnder(rules, S)}
  IN [t \in Token |-> {u \in Token : \A S \in closed : t \in S => u \in S}]
=============================================================================
