----------------------------- MODULE FactProbes -----------------------------
(***************************************************************************)
(* The probes that compare facts of the host with a table or a rule:       *)
(* kernel_vuln, kernel_hardening, polkit, groups (with the readers of      *)
(* /etc/passwd and /etc/group it shares with sudoers), sudoers, nfs,       *)
(* writable_path, and what suid, world_writable and capabilities make of   *)
(* the files that their walks (DirScan) come by.                           *)
(*                                                                         *)
(* Each takes one item after the other: a row of its table, or a line, a   *)
(* directory or a file of the host.  Text is abstracted to the words the   *)
(* code searches it for.                                                   *)
(***************************************************************************)
EXTENDS ProbeChain

CONSTANTS
  Hosts,    \* the hosts considered, by probe
  LineMax,  \* members of a group that fit in the buffer of a line
  Stub,     \* what is left of a name that the end of the buffer cuts in two
  Blocking  \* the probes one of whose files is a FIFO that nobody writes to

VARIABLES
  host,     \* the facts the probe reads
  item      \* the item it is at

FactProbe == {"kernel_vuln", "kernel_hardening", "polkit", "groups", "sudoers", "nfs",
              "writable_path", "suid", "world_writable", "capabilities"}

Unread == << >>     \* a version that cannot be read

(* A line of /etc/passwd or /etc/group, a word of a rule of sudoers, ...   *)
PasswdLine == [name : STRING, uid : Nat, gid : Nat]
GroupLine  == [name : STRING, gid : Nat, members : Seq(STRING)]
AWord      == [is : STRING, has : SUBSET STRING]
AnExport   == [host : STRING, last : BOOLEAN, options : SUBSET STRING]
SuidFile   == [mode : SUBSET {"suid", "sgid", "exec"}, roots : BOOLEAN, ends : STRING]
CapFile    == [revision : Nat, size : Nat, permitted : SUBSET Nat, inheritable : SUBSET Nat]

(* The probes that open a file at their start, and those that open one, or *)
(* another one, for an item.                                               *)
OpensFirst == {"kernel_vuln", "polkit", "groups", "sudoers", "nfs"}
OpensMore  == {"kernel_hardening", "groups", "sudoers"}

ASSUME FactProbesAssumption ==
  /\ LineMax \in Nat
  /\ Blocking \subseteq OpensFirst \cup OpensMore
  /\ \A h \in Hosts["kernel_vuln"] : h.version = Unread \/ h.version \in Nat \X Nat \X Nat
  /\ \A h \in Hosts["kernel_hardening"] : \A k \in DOMAIN h.values : h.values[k] \in Int
  /\ \A h \in Hosts["polkit"] : h.version \in Seq(Nat) /\ h.rules \subseteq 1 .. 3
  /\ \A h \in Hosts["groups"] \cup Hosts["sudoers"] :
       h.uid \in Nat /\ h.passwd \in Seq(PasswdLine) /\ h.group \in Seq(GroupLine)
  /\ \A h \in Hosts["sudoers"] : h.rules \in Seq(AWord \X AWord \X AWord)
  /\ \A h \in Hosts["nfs"] : h.exists \in BOOLEAN /\ h.exports \in Seq(AnExport)
  /\ \A h \in Hosts["writable_path"] :
       h.path \in Seq(STRING) /\ h.writable \subseteq STRING \ {""}
  /\ \A h \in Hosts["suid"] : h.files \in Seq(SuidFile)
  /\ \A h \in Hosts["world_writable"] : h.files \in Seq(Seq(STRING))
  /\ \A h \in Hosts["capabilities"] : h.files \in Seq(CapFile)

FoundIf(condition, kind, path, weight, severity, words) ==
  IF condition THEN <<Finding(kind, path, weight, severity, words)>> ELSE << >>

-----------------------------------------------------------------------------

(* kernel_vuln.                                                            *)
Cve(name, min, max, severity, weight) ==
  [cve |-> name, min |-> min, max |-> max, severity |-> severity, weight |-> weight]

CVES ==
  << Cve("CVE-2016-5195",  <<2, 0, 0>>, <<4, 8, 3>>,   4, 95),
     Cve("CVE-2022-0847",  <<3, 0, 0>>, <<5, 16, 11>>, 4, 95),
     Cve("CVE-2022-2588",  <<0, 0, 0>>, <<5, 19, 0>>,  3, 75),
     Cve("CVE-2023-0386",  <<0, 0, 0>>, <<6, 2, 0>>,   3, 70),
     Cve("CVE-2023-32233", <<0, 0, 0>>, <<6, 3, 0>>,   3, 70),
     Cve("CVE-2023-2640",  <<0, 0, 0>>, <<6, 3, 0>>,   3, 70),
     Cve("CVE-2024-1086",  <<0, 0, 0>>, <<6, 6, 0>>,   3, 60) >>

(* version_less_eq comparing the parts on their own, ...                   *)
PartsLessEq(a, b) == \A k \in 1 .. 3 : a[k] <= b[k]

(* ... and as it is.                                                       *)
VersionLessEq(a, b) ==
  \/ a[1] < b[1]
  \/ a[1] = b[1] /\ a[2] < b[2]
  \/ a[1] = b[1] /\ a[2] = b[2] /\ a[3] <= b[3]

KernelFindings(k) ==
  LET c == CVES[k]
      vulnerable == VersionLessEq(host.version, c.max) /\ VersionLessEq(c.min, host.version)
  IN FoundIf(vulnerable, c.cve, << >>, c.weight, c.severity, {})

(* kernel_hardening: the value wanted of each setting, and the grade.      *)
Check(want, weight, severity) == [want |-> want, weight |-> weight, severity |-> severity]
CHECKS ==
  << Check(2, 85, 3), Check(1, 70, 2), Check(1, 70, 2), Check(2, 60, 2), Check(1, 85, 3),
     Check(3, 50, 1), Check(1, 60, 2), Check(1, 70, 2), Check(1, 70, 2), Check(0, 70, 2) >>

(* read_int: -1 stands for a file that cannot be read, and for itself.     *)
ReadInt(k) == IF k \in DOMAIN host.values THEN host.values[k] ELSE -1

HardeningFindings(k) ==
  LET got == ReadInt(k)
  IN FoundIf(got >= 0 /\ got < CHECKS[k].want, "KHARD", <<k>>, CHECKS[k].weight, CHECKS[k].severity, {})

(* polkit: the numbers of the version that could be read; the others are   *)
(* zero.  No version is both below 122 and above 119.                      *)
Part(version, k) == IF k <= Len(version) THEN version[k] ELSE 0

PolkitFindings(k) ==
  LET maj == Part(host.version, 1)
      old == maj = 120 \/ (maj = 121 /\ Part(host.version, 2) < 4)
  IN IF k = 1
     THEN FoundIf(host.suid /\ maj < 122, "PKEXEC-CVE-2021-4034", << >>, 99, 4, {})
          \o FoundIf(host.suid /\ maj >= 122 /\ old, "PKEXEC-OLD", << >>, 70, 3, {})
     ELSE FoundIf(k - 1 \in host.rules, "POLKIT-RULES", <<k - 1>>, 95, 4, {})

-----------------------------------------------------------------------------

(* The user database.  A line of /etc/passwd is a name with its user and   *)
(* primary group id, a line of /etc/group a name with its id and members.  *)
NoUser == ""
NoGid  == -1

(* zp_username_for_uid.                                                    *)
UserName ==
  LET lines == {k \in 1 .. Len(host.passwd) : host.passwd[k].uid = host.uid}
  IN IF lines = {} THEN NoUser ELSE host.passwd[Min(lines)].name

(* The list of members as a whole, ...                                     *)
WholeLine(members) == Range(members)

(* ... and what fgets leaves of it: the rest of a long line is a line of   *)
(* its own, without a colon, and the name at the cut loses its end.        *)
FirstPiece(members) ==
  {members[k] : k \in 1 .. Min({Len(members), LineMax})}
    \cup IF Len(members) > LineMax THEN {Stub[members[LineMax + 1]]} ELSE {}

(* zp_user_in_group: whether there is such a group, its id, and whether    *)
(* the user is listed.                                                     *)
InGroup(user, group) ==
  LET lines == {k \in 1 .. Len(host.group) : host.group[k].name = group}
  IN IF lines = {} THEN [exists |-> FALSE, gid |-> NoGid, member |-> FALSE]
     ELSE LET l == host.group[Min(lines)]
          IN [exists |-> TRUE, gid |-> l.gid, member |-> user \in FirstPiece(l.members)]

(* zp_primary_gid_for_uid compares the user id with the text after it,     *)
(* which has just been cut off and counts as zero; for root, whom that     *)
(* finds in the first line, the search for the group id then fails.        *)
PrimaryGid == NoGid

Group(name, severity, weight) == [name |-> name, severity |-> severity, weight |-> weight]
PRIV_GROUPS ==
  << Group("docker", 4, 95), Group("lxd", 4, 95), Group("disk", 4, 90), Group("kmem", 3, 90),
     Group("mem", 3, 90), Group("shadow", 3, 80), Group("root", 4, 99), Group("sudo", 3, 85),
     Group("wheel", 3, 85), Group("adm", 2, 50), Group("video", 1, 30), Group("netdev", 1, 30),
     Group("input", 1, 30), Group("ssl-cert", 1, 20) >>

GroupFindings(k) ==
  LET g   == PRIV_GROUPS[k]
      res == InGroup(UserName, g.name)
      member == res.exists /\ (res.member \/ (PrimaryGid # NoGid /\ res.gid = PrimaryGid))
  IN FoundIf(member, "GRP", <<g.name>>, g.weight, g.severity, {g.name} \cap Keyword)

-----------------------------------------------------------------------------

(* sudoers.  A rule is its first three words, the third one missing in a   *)
(* rule of two; a word is what it is, but for a '%' before it, and what    *)
(* the code finds in it.                                                   *)
Word(is, has) == [is |-> is, has |-> has]
NoWord == Word("", {})

(* current_user_matches.                                                   *)
MatchesUser(spec) ==
  \/ "%" \notin spec.has /\ spec.is = "ALL"
  \/ "%" \notin spec.has /\ UserName # NoUser /\ spec.is = UserName
  \/ "%" \in spec.has /\ UserName # NoUser /\ InGroup(UserName, spec.is).member

SudoersFindings(k) ==
  LET rule == host.rules[k]
      spec == IF rule[3] = NoWord THEN rule[2] ELSE rule[3]
      nopasswd == "NOPASSWD" \in rule[1].has
      all == "ALL" \in rule[1].has \cup spec.has
      counts == /\ rule[2].is = "=" \/ "(" \in rule[2].has
                /\ MatchesUser(rule[1]) \/ all
                /\ nopasswd \/ all
  IN IF nopasswd /\ all
     THEN FoundIf(counts, "SUDO", <<k>>, 95, 4, {})
     ELSE FoundIf(counts, "SUDO", <<k>>, 60, 3, {})

(* nfs.  An export is the first host of the line, its options, and whether *)
(* the line ends with the host: the newline is then part of it.            *)
World(e) == e.host = "*" /\ ~e.last

NfsFindings(k) ==
  LET e == host.exports[k]
      noRoot == "no_root_squash" \in e.options
      counts == World(e) \/ noRoot \/ "insecure" \in e.options
  IN IF noRoot /\ World(e)
     THEN FoundIf(counts, "NFS", <<k>>, 99, 4, {})
     ELSE FoundIf(counts, "NFS", <<k>>, 60, 3, {})

(* writable_path.  PATH as strtok_r cuts it up; empty parts are skipped.   *)
DefaultPath == <<"/usr/local/bin", "/usr/bin", "/bin">>
PathDirs == IF host.path = << >> THEN DefaultPath ELSE host.path

PathFindings(k) ==
  LET d == PathDirs[k]
      system == {"/bin", "/sbin", "/usr/local/bin", "/usr/bin"}
  IN CASE d = "." -> FoundIf(TRUE, "WPATH", <<k>>, 98, 4, {})
       [] d = ""  -> << >>
       [] OTHER   -> FoundIf(d \in host.writable, "WPATH", <<k>>, IF d \in system THEN 90 ELSE 75, 3, {})

-----------------------------------------------------------------------------

(* suid.  A file is its mode bits, whether it is root's, and its name from *)
(* the last '-' or '.' on: the names in the list have neither.             *)
DANGEROUS == {"find", "bash", "sh", "python3", "vim"}

IsDangerous(f) == f.ends \in DANGEROUS

SuidFindings(k) ==
  LET f == host.files[k]
      counts == f.mode \cap {"suid", "sgid"} # {} /\ "exec" \in f.mode
      of(weight, severity) == FoundIf(counts, "SUID", <<k>>, weight, severity, {})
  IN CASE IsDangerous(f) /\ f.roots  -> of(95, 4)
       [] IsDangerous(f) /\ ~f.roots -> of(85, 3)
       [] ~IsDangerous(f) /\ f.roots -> of(50, 2)
       [] OTHER                      -> of(30, 1)

(* world_writable: the files with that bit, and then the directories that  *)
(* ought to have the sticky bit.                                           *)
STICKY_DIRS == << <<"tmp">>, <<"dev", "shm">>, <<"var", "tmp">>, <<"var", "spool">>, <<"var", "lock">> >>

IsUnder(path, parent) == IsPrefix(parent, path)

WorldFindings(k) ==
  IF k > Len(host.files)
  THEN LET i == k - Len(host.files)
       IN FoundIf(i \in host.lacking, "STICKY", STICKY_DIRS[i], 85, 3, {})
  ELSE LET p == host.files[k] IN
       CASE IsUnder(p, <<"etc">>)  -> FoundIf(TRUE, "WW", p, 95, 4, {})
         [] IsUnder(p, <<"root">>) -> FoundIf(TRUE, "WW", p, 85, 3, {})
         [] IsUnder(p, <<"usr", "local">>) \/ IsUnder(p, <<"opt">>) -> FoundIf(TRUE, "WW", p, 70, 2, {})
         [] OTHER -> FoundIf(TRUE, "WW", p, 50, 1, {})

(* capabilities.  The attribute of a file is a revision and two sets of    *)
(* capability numbers.  The numbers from 32 on are read from where the     *)
(* lower half of the inheritable set is.  A decoder that asks for more     *)
(* bytes than it needs, ...                                                *)
SETUID == 7
DAC_OVERRIDE == 1
CapName == 0 .. 40
Critical == {21, DAC_OVERRIDE, SETUID, 6, 19, 13, 2, 16, 17, 9, 22, 12}

DecodeCapsLonger(x) ==
  IF x.revision \in {2, 3} /\ x.size > 20 THEN x.permitted ELSE {}

(* ... and as it is.                                                       *)
DecodeCaps(x) ==
  LET low == x.permitted \cap 0 .. 31
      high == {c + 32 : c \in x.inheritable \cap 0 .. 31}
  IN CASE x.revision = 1 /\ x.size >= 12 -> low
       [] x.revision \in {2, 3} /\ x.size >= 20 -> (low \cup high) \cap CapName
       [] OTHER -> {}

(* The names the composer looks for among those listed.                    *)
CapWords(caps) ==
  (IF SETUID \in caps THEN {"setuid"} ELSE {})
    \cup (IF DAC_OVERRIDE \in caps THEN {"dac_override"} ELSE {})

(* The bounding set, read last, is a number in the status file; the names  *)
(* of capabilities are looked for in its digits.                           *)
NamesInDigits == {}

CapFindings(k) ==
  IF k > Len(host.files)
  THEN FoundIf(Critical \cap NamesInDigits # {}, "CAP-PROC-BND", << >>, 60, 2, {})
  ELSE LET caps == DecodeCaps(host.files[k]) IN
       IF caps \cap Critical # {}
       THEN FoundIf(TRUE, "CAP", <<k>>, 90, 3, CapWords(caps))
       ELSE FoundIf(TRUE, "CAP", <<k>>, 50, 2, CapWords(caps))

-----------------------------------------------------------------------------

FactInit ==
  /\ probe \in FactProbe
  /\ host \in Hosts[probe]
  /\ pc = "open" /\ item = 1
  /\ total = 0 /\ chain = << >>

Items ==
  CASE probe = "kernel_vuln"      -> Len(CVES)
    [] probe = "kernel_hardening" -> Len(CHECKS)
    [] probe = "polkit"           -> 4
    [] probe = "groups"           -> Len(PRIV_GROUPS)
    [] probe = "sudoers"          -> Len(host.rules)
    [] probe = "nfs"              -> Len(host.exports)
    [] probe = "writable_path"    -> Len(PathDirs)
    [] probe = "suid"             -> Len(host.files)
    [] probe = "world_writable"   -> Len(host.files) + Len(STICKY_DIRS)
    [] probe = "capabilities"     -> Len(host.files) + 1

Readable ==
  /\ probe = "kernel_vuln" => host.version # Unread
  /\ probe = "groups" => UserName # NoUser
  /\ probe = "nfs" => host.exists

(* A probe that cannot read what it needs returns without a link, but nfs  *)
(* takes that for a clean host.                                            *)
GiveUp ==
  /\ pc = "open" /\ ~Readable
  /\ chain' = IF probe = "nfs" THEN Append(chain, Clean) ELSE chain
  /\ pc' = "done"
  /\ UNCHANGED <<probe, total, host, item>>

Open ==
  /\ pc = "open" /\ Readable
  /\ pc' = "item"
  /\ UNCHANGED <<probe, total, chain, host, item>>

(* What is found of an item.                                               *)
Findings(k) ==
  CASE probe = "kernel_vuln"      -> KernelFindings(k)
    [] probe = "kernel_hardening" -> HardeningFindings(k)
    [] probe = "polkit"           -> PolkitFindings(k)
    [] probe = "groups"           -> GroupFindings(k)
    [] probe = "sudoers"          -> SudoersFindings(k)
    [] probe = "nfs"              -> NfsFindings(k)
    [] probe = "writable_path"    -> PathFindings(k)
    [] probe = "suid"             -> SuidFindings(k)
    [] probe = "world_writable"   -> WorldFindings(k)
    [] probe = "capabilities"     -> CapFindings(k)

Examine ==
  /\ pc = "item" /\ item <= Items
  /\ Report(Findings(item))
  /\ item' = item + 1
  /\ UNCHANGED <<probe, pc, host>>

Conclude ==
  /\ pc = "item" /\ item > Items
  /\ Finish
  /\ UNCHANGED <<host, item>>

(* fopen of a FIFO that nobody writes to does not return.                  *)
Wait ==
  /\ probe \in Blocking
  /\ (pc = "open" /\ probe \in OpensFirst) \/ (pc = "item" /\ probe \in OpensMore)
  /\ pc' = "held"
  /\ UNCHANGED <<probe, total, chain, host, item>>

FactStep == GiveUp \/ Open \/ Examine \/ Conclude \/ Wait

-----------------------------------------------------------------------------

(* Type correctness: at most two links an item, none of them unknown.      *)
FactTypeOK ==
  /\ pc \in {"open", "item", "held", "done"}
  /\ item \in 1 .. Items + 1
  /\ total <= item - 1
  /\ \A k \in 1 .. Len(chain) : chain[k].weight \in Weight /\ chain[k].severity \in Severity

Reported == Range(chain) \ {Clean}

(* A version as one number, to a base above all parts of it and the table. *)
Number(v, base) == (v[1] * base + v[2]) * base + v[3]
KnownFor(v) ==
  LET N(x) == Number(x, 100 + v[2] + v[3])
  IN {k \in 1 .. Len(CVES) : N(CVES[k].min) <= N(v) /\ N(v) <= N(CVES[k].max)}

Listed(line)  == UserName \in Range(line.members)
Primary(line) ==
  \E k \in 1 .. Len(host.passwd) :
    /\ host.passwd[k].uid = host.uid /\ host.passwd[k].gid = line.gid
    /\ \A j \in 1 .. k - 1 : host.passwd[j].uid # host.uid
Member(line)  == Listed(line) \/ Primary(line)
Beyond(line)  == Len(line.members) > LineMax

(* The line of /etc/group that counts for a name, if there is one.         *)
First(name) ==
  {i \in 1 .. Len(host.group) :
     /\ host.group[i].name = name
     /\ \A j \in 1 .. i - 1 : host.group[j].name # name}

Said(name) == \E e \in Reported : e.path = <<name>>

(* Who is reported as a member of a group is, by the list or as his        *)
(* primary group, and who is not is not, with two exceptions.  In a line   *)
(* too long for the buffer a member may be missed, and another be taken    *)
(* for a member whose name the cut has left; and who has the group only as *)
(* his primary one is never reported.                                      *)
MembershipExact ==
  \A k \in 1 .. Len(PRIV_GROUPS) :
    LET name == PRIV_GROUPS[k].name IN
    /\ Said(name) => First(name) # {}
    /\ \A i \in First(name) :
         LET l == host.group[i] IN
         /\ Said(name) /\ ~Member(l) => Beyond(l) /\ Stub[l.members[LineMax + 1]] = UserName
         /\ ~Said(name) /\ Member(l) =>
              \/ Beyond(l) /\ \A j \in 1 .. LineMax : l.members[j] # UserName
              \/ Primary(l) /\ ~Listed(l)

(* The attributes the kernel writes.                                       *)
Wellformed(x) == <<x.revision, x.size>> \in {<<1, 12>>, <<2, 20>>, <<3, 24>>}

(* Whether a file that has capabilities is graded as dangerous does not    *)
(* depend on the wrong half being read: no capability that counts is there. *)
CapabilitiesExact ==
  \A k \in 1 .. Len(host.files) :
    LET x == host.files[k]
        dangerous == x.permitted \cap Critical # {}
    IN Wellformed(x) => \E e \in Reported : e.path = <<k>> /\ (e.severity = 3 <=> dangerous)

(* A setting that is reported falls short, and of those that can be read   *)
(* and are not negative each that falls short is reported.                 *)
FallsShort(k) == k \in DOMAIN host.values /\ host.values[k] < CHECKS[k].want
HardeningExact ==
  \A k \in 1 .. Len(CHECKS) :
    LET said == \E e \in Reported : e.path = <<k>> IN
    /\ said => FallsShort(k)
    /\ FallsShort(k) /\ host.values[k] >= 0 => said

(***************************************************************************)
(* What the finished probes report is what there is: the vulnerabilities   *)
(* whose interval of versions, each taken as one number, holds the         *)
(* kernel's; the groups the user is in, but for the exceptions named; the  *)
(* settings that fall short, but for those that are negative or cannot be  *)
(* read; the grade that the permitted capabilities of a file deserve.      *)
(***************************************************************************)
FactsExact ==
  pc = "done" =>
    /\ probe = "kernel_vuln" /\ host.version # Unread =>
         {e.kind : e \in Reported} = {CVES[k].cve : k \in KnownFor(host.version)}
    /\ probe = "groups" /\ UserName # NoUser => MembershipExact
    /\ probe = "kernel_hardening" => HardeningExact
    /\ probe = "capabilities" => CapabilitiesExact

(* The word that decides among those in a path, and what it grants.        *)
Words == <<"sudoers", "systemd", "cron", "ld.so">>
FirstWord(path) ==
  LET has == {k \in 1 .. 4 : Words[k] \in TargetWords(path)}
  IN IF has = {} THEN "" ELSE Words[Min(has)]
GrantOf(word) ==
  CASE word = "sudoers" -> WRITE_SUDOERS [] word = "systemd" -> WRITE_SYSTEMD
    [] word = "cron" -> WRITE_CRON [] word = "ld.so" -> INJECT_PRELOAD

(* polkit was numbered 0.105 to 0.120, and then 121, 122 and so on.        *)
Before122(version) ==
  IF Part(version, 1) = 0 THEN Part(version, 2) < 122 ELSE Part(version, 1) < 122

(* A rule that gives everything to everybody, or to the user by name.      *)
GivesAll(rule) ==
  /\ "%" \notin rule[1].has /\ rule[1].is \in {"ALL", UserName} \ {NoUser}
  /\ rule[2].is = "=" \/ "(" \in rule[2].has
  /\ "ALL" \in (IF rule[3] = NoWord THEN rule[2] ELSE rule[3]).has

(***************************************************************************)
(* The composer is not misled: a probe yields its token on each host that  *)
(* calls for it and, but for three of them, on no other.  For sudoers,     *)
(* polkit and nfs the documentation asks for less than the code reports:   *)
(* there the token is never missing, and for the last two never without    *)
(* something amiss; that it may be too much is so.                         *)
(***************************************************************************)
TokensMeant ==
  pc = "done" =>
    CASE probe = "kernel_vuln" ->
           KERNEL_LPE \in Granted <=> host.version # Unread /\ KnownFor(host.version) # {}
      [] probe = "polkit" ->
           /\ host.rules # {} \/ (host.suid /\ Before122(host.version)) => POLKIT_LPE \in Granted
           /\ POLKIT_LPE \in Granted => host.rules # {} \/ host.suid
      [] probe = "groups" ->
           \A t \in {WRITE_DISK, CONTAINER_ESCAPE} :
             t \in Granted <=> \E e \in Reported :
               e.path[1] \in IF t = WRITE_DISK THEN {"disk"} ELSE {"docker", "lxd"}
      [] probe = "capabilities" ->
           (\A k \in 1 .. Len(host.files) : Wellformed(host.files[k])) =>
             (SETUID_CAP \in Granted <=> \E k \in 1 .. Len(host.files) :
                host.files[k].permitted \cap {SETUID, DAC_OVERRIDE} # {})
      [] probe = "writable_path" ->
           WRITE_PATH_TROJAN \in Granted <=> Range(PathDirs) \cap (host.writable \cup {"."}) # {}
      [] probe = "nfs" ->
           LET options == UNION {host.exports[k].options : k \in 1 .. Len(host.exports)} IN
           /\ host.exists /\ "no_root_squash" \in options => ROOT \in Granted
           /\ ROOT \in Granted =>
                host.exists /\ \E k \in 1 .. Len(host.exports) :
                  World(host.exports[k]) \/ host.exports[k].options \cap {"no_root_squash", "insecure"} # {}
      [] probe = "sudoers" ->
           (\E k \in 1 .. Len(host.rules) : GivesAll(host.rules[k])) => EXEC_AS_ROOT \in Granted
      [] probe = "suid" ->
           EXEC_AS_ROOT \in Granted <=> \E k \in 1 .. Len(host.files) :
             /\ IsDangerous(host.files[k])
             /\ "exec" \in host.files[k].mode /\ host.files[k].mode # {"exec"}
      [] probe = "world_writable" ->
           \A w \in Range(Words) :
             GrantOf(w) \in Granted <=> \E k \in 1 .. Len(host.files) : FirstWord(host.files[k]) = w
      [] probe = "kernel_hardening" -> Granted = {}
=============================================================================
