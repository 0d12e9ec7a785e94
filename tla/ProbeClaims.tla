---------------------------- MODULE ProbeClaims ----------------------------
(***************************************************************************)
(* What docs/PROBES.md, docs/adr, the manual, or a probe itself says of the *)
(* probes, part by part, and taken together for those that look at files   *)
(* and for those that go by facts.  Each part, and so each whole, is       *)
(* refuted; what does hold in its place is in FileProbes, FactProbes and   *)
(* Probes.                                                                 *)
(***************************************************************************)
EXTENDS Probes

Done(p) == probe = p /\ pc = "done"

(* docs/adr/002-probe-design.md: a probe caps its work with a findings     *)
(* cap.  The process probe tests it once for two findings.                 *)
CapHolds == probe = "process" => total <= ProcMaxScan

(* docs/PROBES.md on ssh_keys: private keys that group or others can read  *)
(* are looked for in /home/*/.ssh.                                         *)
HomesSearched ==
  Done("ssh_keys") /\ changes = 0 =>
    \A p \in PathsOf(Trees[probe]) :
      /\ Len(p) = 4 /\ p[1] = "home" /\ p[3] = ".ssh" /\ ClassOf[p[4]] = "key"
      /\ Lstat(p) \in Lax
      => \E k \in 1 .. Len(chain) : chain[k].path = p

(* What a path led to at each moment, of the executables of processes that *)
(* run as root.                                                            *)
Executable(t, path) == StatAt(Moment[t], path) \in {Image[p] : p \in Owned}

(* docs/PROBES.md on process: it looks for processes of root whose         *)
(* executable is world-writable.  The file looked up for a deleted one     *)
(* need never have been an executable; ...                                 *)
WritableIsExecutable ==
  \A k \in 1 .. Len(chain) :
    chain[k].kind = "PROC-WW" => \E t \in 1 .. Len(Moment) : Executable(t, chain[k].path)

(* ... nor need one have been writable as long as it had that name.        *)
ExecutableIsWritable ==
  \A k \in 1 .. Len(chain) :
    LET path == chain[k].path
        running == {t \in 1 .. Len(Moment) : Executable(t, path)}
    IN chain[k].kind = "PROC-WW" /\ running # {} /\ ~offline =>
         \E t \in running : StatAt(Moment[t], path) \in Moment[t].bits

(* What a unit found to be root's must have said for SVC-E.                *)
UnitAt(t, u, path) ==
  LET f == LstatAt(Moment[t], path)
  IN /\ f \in Owned /\ RunsAsRoot(Unit[f])
     /\ StatAt(Moment[u], ExecOf(Unit[f])) \in Moment[u].bits

(* docs/PROBES.md on service: a root-owned unit whose ExecStart= binary is *)
(* world-writable.  The unit that was root's need not be the one read.     *)
UnitIsRoots ==
  \A k \in 1 .. Len(chain) :
    chain[k].kind = "SVC-E" /\ ~offline =>
      \E t, u \in 1 .. Len(Moment) : UnitAt(t, u, chain[k].path)

(* man/z_privesc.1: --root=DIR treats DIR as the filesystem root.  The     *)
(* binary is looked up on the host all the same.                           *)
UnitBelowRoot ==
  \A k \in 1 .. Len(chain) :
    chain[k].kind = "SVC-E" /\ changes = 0 =>
      \E t, u \in 1 .. Len(Moment) : UnitAt(t, u, chain[k].path)

(* docs/PROBES.md on cron: world-writable files, and symlinks that resolve *)
(* to world-writable targets, are flagged.  An entry that has always led   *)
(* to one is missed if it is replaced between two looks.                   *)
CronEntriesFlagged ==
  Done("cron") =>
    \A p \in {q \in PathsOf(Trees[probe]) : Len(q) = 2 /\ q[1] \in Range(Places[probe])} :
      (\A t \in 1 .. Len(Moment) : StatAt(Moment[t], p) \in Moment[t].bits)
        => \E k \in 1 .. Len(chain) : chain[k].path = p

(***************************************************************************)
(* The probes that look at files do what is documented of them: what they  *)
(* flag is what is said to be flagged, at some one moment while they ran,  *)
(* and not merely piece by piece; cron and ssh_keys miss nothing that was  *)
(* there all the time; and the cap on findings holds.                      *)
(***************************************************************************)
FileProbesAsDocumented ==
  probe \in FileProbe =>
    /\ UnitIsRoots /\ UnitBelowRoot
    /\ WritableIsExecutable /\ ExecutableIsWritable
    /\ CronEntriesFlagged /\ HomesSearched
    /\ CapHolds

(* docs/PROBES.md on groups: whether the current user is a member of any   *)
(* privilege-granting group.  The primary group is meant to be looked at   *)
(* and never is; ...                                                       *)
PrimaryGroupCounts ==
  Done("groups") /\ UserName # NoUser =>
    \A g \in Range(PRIV_GROUPS) :
      \A i \in First(g.name) : Primary(host.group[i]) => Said(g.name)

(* ... and who is listed is found only within the first piece of a line.   *)
ListedCounts ==
  Done("groups") /\ UserName # NoUser =>
    \A g \in Range(PRIV_GROUPS) :
      \A i \in First(g.name) : Listed(host.group[i]) => Said(g.name)

(* docs/PROBES.md on kernel_hardening: each value below its threshold adds *)
(* a link.  A negative one does not.                                       *)
ShortfallsReported ==
  Done("kernel_hardening") =>
    \A k \in 1 .. Len(CHECKS) : FallsShort(k) => \E e \in Reported : e.path = <<k>>

(* The probe's own words for a clean host: all checks pass.  Those that    *)
(* could not be made count as passed.                                      *)
CleanMeansChecked ==
  Done("kernel_hardening") /\ Clean \in Range(chain) =>
    \A k \in 1 .. Len(CHECKS) : k \in DOMAIN host.values

(* docs/PROBES.md on capabilities: a scan in the style of getcap.  The     *)
(* upper half of the permitted set is read from the wrong bytes.           *)
CapabilitiesDecoded ==
  Done("capabilities") =>
    \A k \in 1 .. Len(host.files) :
      LET x == host.files[k]
      IN Wellformed(x) /\ x.revision > 1 => DecodeCaps(x) = x.permitted \cap CapName

(* docs/PROBES.md on polkit: CVE-2021-4034 before 0.122.  Of a version     *)
(* that starts with zero only the zero is looked at.                       *)
CveBefore122 ==
  Done("polkit") =>
    ((\E e \in Reported : e.kind = "PKEXEC-CVE-2021-4034") => Before122(host.version))

(***************************************************************************)
(* The probes that go by facts do what is documented of them: groups finds *)
(* every member; kernel_hardening reports every shortfall, and calls clean *)
(* only what it could check; capabilities reads the sets it is to read;    *)
(* polkit calls vulnerable only what is.                                   *)
(***************************************************************************)
FactProbesAsDocumented ==
  probe \in FactProbe =>
    /\ PrimaryGroupCounts /\ ListedCounts
    /\ ShortfallsReported /\ CleanMeansChecked
    /\ CapabilitiesDecoded
    /\ CveBefore122
=============================================================================
