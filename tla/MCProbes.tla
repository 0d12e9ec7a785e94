------------------------------ MODULE MCProbes ------------------------------
(***************************************************************************)
(* A small file system for each probe that looks at files, and hosts for   *)
(* the probes that go by facts, most of them at the edge of some rule.     *)
(***************************************************************************)
EXTENDS Probes

MCDir == {"D/", "D1", "D2", "D3", "D4", "D5"}
MCFile == {"f1", "f2", "f3", "f4", "x1", "x2", "x3", "fifo"}
MCLink == {"L", "M"}
MCTarget == [L |-> "f1", M |-> "fifo"]

Tree(top, d1, d2) == "D/" :> top @@ "D1" :> d1 @@ "D2" :> d2 @@ [d \in MCDir |-> << >>]

MCTrees ==
  [cron         |-> Tree("etc/crontab" :> "f2" @@ "etc/cron.d" :> "D1" @@ "etc/anacrontab" :> "fifo",
                         "a" :> "f1" @@ "b" :> "L", << >>),
   service      |-> Tree("lib/systemd/system" :> "D1" @@ "usr/lib/systemd/system" :> "D1"
                           @@ "etc/init.d" :> "D2" @@ "opt/d" :> "f1",
                         "a.service" :> "f2" @@ "b" :> "f3", "c" :> "f4" @@ ".d" :> "f1"),
   ld_preload   |-> Tree("etc/ld.so.conf" :> "f2" @@ "etc/ld.so.conf.d" :> "D1"
                           @@ "etc/environment" :> "f3",
                         "a" :> "f1" @@ "b" :> "L", << >>),
   writable_etc |-> Tree("etc/passwd" :> "f2" @@ "etc/shadow" :> "L" @@ "etc/sudoers.d" :> "D1",
                         "a" :> "f1" @@ "b" :> "L", << >>),
   ssh_keys     |-> "D3" :> (".ssh" :> "D4") @@ "D4" :> ("id_rsa" :> "f2") @@ "D5" :> ("id_rsa" :> "f2")
                    @@ Tree("root/.ssh" :> "D1" @@ "home" :> "D2" @@ ".ssh" :> "D5",
                            "id_rsa" :> "f1" @@ "b" :> "f4", "al" :> "D3"),
   process      |-> Tree("proc" :> "D1" @@ "opt/d" :> "f1" @@ "opt/e (deleted)" :> "f2",
                         "11" :> "x1" @@ "12" :> "x2" @@ "13" :> "x3", << >>)]

MCMarked == {"f1", "fifo"}
MCClassOf ==
  [n \in {"opt/e"} \cup UNION {DOMAIN MCTrees[p][d] : p \in DOMAIN MCTrees, d \in MCDir} |->
     CASE n = "a.service" -> "service" [] n = "id_rsa" -> "key"
       [] n \in {"11", "12", "13"} -> "pid" [] n \in {".d", ".ssh"} -> "hidden" [] OTHER -> "other"]
MCOwned == {"f2", "f3", "f4", "x1", "x2", "x3"}
AsRoot == <<"User", "root">>
Starts(path) == <<"ExecStart", path>>
MCUnit ==
  [f \in MCFile |->
     CASE f = "f1" -> <<AsRoot, Starts(<<"opt/d">>)>>
       [] f = "f2" -> <<Starts(<<"opt/e">>), AsRoot, Starts(<<"opt/d">>)>>
       [] f = "f3" -> <<Starts(<<"opt/d">>)>>
       [] OTHER -> << >>]
MCProne == [f \in MCFile |-> IF f \in {"f2", "fifo"} THEN 1 ELSE IF f = "f3" THEN 2 ELSE 0]
MCLax == {"f2"}

(* One process runs /opt/d, two the same file, which has been deleted.     *)
MCImage == [f \in MCFile |-> IF f \in {"x2", "x3"} THEN "f4" ELSE "f1"]
MCOrigin == [f \in MCFile |-> <<"opt/e">>]
MCDeleted == [n \in DOMAIN MCClassOf |-> IF n = "opt/e" THEN "opt/e (deleted)" ELSE "gone"]

-----------------------------------------------------------------------------

KernelHosts ==
  [version : {<< >>, <<1, 9, 9>>, <<2, 0, 0>>, <<2, 6, 32>>, <<3, 0, 0>>, <<3, 99, 99>>, <<4, 8, 3>>,
              <<4, 8, 4>>, <<4, 9, 0>>, <<5, 10, 230>>, <<5, 16, 11>>, <<5, 16, 12>>, <<5, 19, 0>>,
              <<5, 19, 1>>, <<6, 2, 0>>, <<6, 2, 1>>, <<6, 3, 0>>, <<6, 6, 0>>, <<6, 6, 1>>, <<6, 12, 1>>}]

(* All settings at one value, or one of them missing or otherwise set.     *)
HardeningHosts ==
  {[values |-> [k \in 1 .. 10 |-> v]] : v \in {0, 2, 3}}
    \cup {[values |-> [k \in 1 .. 10 |-> IF k = x THEN v ELSE 3]] : x \in 1 .. 10, v \in {-1, 0, 1, 2}}
    \cup {[values |-> [k \in 1 .. n |-> 3]] : n \in {0, 9}}

PolkitHosts ==
  [version : {<< >>, <<0, 96>>, <<0, 105, 31>>, <<121>>, <<121, 3, 0>>, <<122>>, <<123, 1, 0>>,
              <<0, 122, 0>>},
   suid : BOOLEAN, rules : {{}, {1}, {2, 3}}]

Line(name, gid, members) == [name |-> name, gid |-> gid, members |-> members]
GroupHosts ==
  [uid : {0, 1000, 7},
   passwd : {<<[name |-> "root", uid |-> 0, gid |-> 0], [name |-> "al", uid |-> 1000, gid |-> 9]>>},
   group : {<<Line("root", 0, << >>), Line("disk", 9, <<"bo">>), Line("docker", 8, <<"bo", "al">>)>>,
            <<Line("lxd", 8, <<"bo", "root", "al">>), Line("lxd", 9, <<"al">>), Line("disk", 7, <<"al">>)>>,
            <<Line("docker", 8, <<"bo", "cy", "alice", "al">>), Line("adm", 4, <<"al", "root">>)>>,
            << >>}]
MCStub == [bo |-> "b", cy |-> "c", al |-> "a", root |-> "roo", alice |-> "al"]

FirstWords == {Word("ALL", {"ALL"}), Word("al", {}), Word("bo", {}), Word("docker", {"%"}),
              Word("NOPASSWD_ALL", {"ALL", "NOPASSWD"})}
Rules ==
  {<<first, op, spec>> : first \in FirstWords,
     op \in {Word("=", {}), Word("ALL=(ALL)", {"ALL", "("}), Word("ALL=ALL", {"ALL"})},
     spec \in {NoWord, Word("ALL", {"ALL"}), Word("NOPASSWD:", {"NOPASSWD"})}}
SudoersHosts ==
  {h @@ [rules |-> r] : h \in {x \in GroupHosts : Len(x.group) # 2},
     r \in {<< >>} \cup {<<x>> : x \in Rules}
           \cup {<<x, <<Word("al", {}), Word("ALL=(ALL)", {"ALL", "("}), Word("ALL", {"ALL"})>> >> : x \in Rules}}

Exports ==
  {e \in [host : {"*", "10.0.0.0/8"}, last : BOOLEAN,
          options : SUBSET {"insecure", "no_root_squash"}] : e.last => e.options = {}}
NfsHosts ==
  {[exists |-> FALSE, exports |-> << >>]}
    \cup [exists : {TRUE}, exports : {<< >>} \cup {<<e>> : e \in Exports}
                                      \cup {<<[host |-> "*", last |-> TRUE, options |-> {}], e>> : e \in Exports}]

PathHosts ==
  [path : {<< >>, <<".">>, <<"/home/al/bin", "", "/usr/bin">>, <<"/bin", "/opt", ".">>, <<"", "">>},
   writable : SUBSET {"/home/al/bin", "/bin", "/usr/bin"}]

Files == [mode : SUBSET {"suid", "sgid", "exec"}, roots : BOOLEAN, ends : {"bash", "passwd", "sh"}]
SuidHosts == [files : {<< >>} \cup {<<x>> : x \in Files}
                     \cup {<<x, [mode |-> {"suid", "exec"}, roots |-> TRUE, ends |-> "passwd"]>> : x \in Files}]

Writable == {<<"etc", "cron.d", "a">>, <<"etc", "systemd", "cron.d", "a">>, <<"root", "a">>,
             <<"etc", "ld.so.conf.d", "a">>, <<"opt", "a">>, <<"home", "cronies">>,
             <<"usr", "local", "etc", "sudoers">>, <<"srv", "etc">>}
WorldHosts ==
  [files : {<<x, y>> : x, y \in Writable} \cup {<< >>}, lacking : {{}, {1, 4}, {2, 3, 5}}]

Attribute ==
  {[revision |-> f[1], size |-> f[2], permitted |-> p, inheritable |-> i] :
     f \in {<<1, 8>>, <<1, 12>>, <<2, 20>>, <<3, 24>>, <<4, 24>>},
     p \in SUBSET {0, 1, 7, 12, 33}, i \in {{}, {0, 1}, {7, 10}}}
CapHosts == {[files |-> << >>]} \cup {[files |-> <<x>>] : x \in Attribute}

MCHosts ==
  [kernel_vuln |-> KernelHosts, kernel_hardening |-> HardeningHosts, polkit |-> PolkitHosts,
   groups |-> GroupHosts, sudoers |-> SudoersHosts, nfs |-> NfsHosts, writable_path |-> PathHosts,
   suid |-> SuidHosts, world_writable |-> WorldHosts, capabilities |-> CapHosts]
=============================================================================
