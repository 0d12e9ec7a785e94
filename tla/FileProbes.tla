----------------------------- MODULE FileProbes -----------------------------
(***************************************************************************)
(* The probes that look at files one by one: cron, service, ld_preload,    *)
(* writable_etc, ssh_keys and process, over a file system that others      *)
(* change meanwhile.                                                       *)
(*                                                                         *)
(* Each goes through a list of places.  A place is a file or a directory   *)
(* whose entries are looked at; most findings rest on several calls about  *)
(* the same path, which need not find the same file.                       *)
(*                                                                         *)
(* "bits" of the file tree are the world-writable files and directories; a *)
(* symbolic link has all mode bits set.  fopen of a FIFO returns when      *)
(* somebody opens it for writing, which nobody need ever do.               *)
(***************************************************************************)
EXTENDS FileTree, ProbeChain

CONSTANTS
  Trees,        \* the entries at the start, by probe
  Marked,       \* the files world-writable at the start
  ClassOf,      \* the names: "service", "key", "pid", "hidden" or "other"
  Fifo,         \* the files that are FIFOs
  Owned,        \* the regular files that belong to root, the processes that run as it
  Unit,         \* the lines of a unit file that count
  Prone,        \* how many lines of a crontab, or of /etc/environment, are reported
  Lax,          \* the regular files that group or others can read
  Image,        \* the executable each process was started from
  Origin,       \* the path each executable was started by
  Deleted,      \* each name with " (deleted)" after it
  ProcMaxScan   \* PROC_MAX_SCAN

VARIABLES
  offline,  \* --root names another directory than "/"
  at,       \* the index of the place
  stack,    \* the open directories
  child,    \* the path under inspection
  exec,     \* the executable it led to
  past      \* history: the file system before each change

inspecting == <<probe, pc, total, chain, offline, at, stack, child, exec>>

NoPath == << >>

(* A value of User= that starts with root, once, is enough; of several     *)
(* ExecStart= lines the last counts.                                       *)
RunsAsRoot(lines) == <<"User", "root">> \in Range(lines)
ExecOf(lines) ==
  LET execs == SelectSeq(lines, LAMBDA l : l[1] = "ExecStart")
  IN IF execs = << >> THEN NoPath ELSE Last(execs)[2]

Places ==
  [cron         |-> <<"etc/crontab", "etc/cron.d", "etc/cron.daily", "etc/cron.hourly",
                      "etc/cron.weekly", "etc/cron.monthly", "var/spool/cron",
                      "etc/anacrontab", "etc/cron.d", "var/spool/cron/crontabs">>,
   service      |-> <<"etc/systemd/system", "lib/systemd/system", "usr/lib/systemd/system",
                      "etc/init.d", "etc/rc.d">>,
   ld_preload   |-> <<"etc/ld.so.conf", "etc/ld.so.conf.d", "etc/environment">>,
   writable_etc |-> <<"etc/passwd", "etc/shadow", "etc/sudoers", "etc/group",
                      "etc/gshadow", "etc/sudoers.d">>,
   ssh_keys     |-> <<"root/.ssh", "home">>,
   process      |-> <<"proc">>]

FileProbe == DOMAIN Places

ASSUME FileProbesAssumption ==
  /\ DOMAIN ClassOf \subseteq STRING
  /\ \A p \in FileProbe : /\ DOMAIN Trees[p] = Dir
                          /\ \A d \in Dir : DOMAIN Trees[p][d] \subseteq DOMAIN ClassOf
  /\ Marked \subseteq File \cup Dir
  /\ Fifo \subseteq File /\ Owned \subseteq File \ Fifo /\ Lax \subseteq File \ Fifo
  /\ DOMAIN Deleted = DOMAIN ClassOf
  /\ \A f \in File : Prone[f] \in Nat /\ ExecOf(Unit[f]) \in Seq(STRING)
  /\ ProcMaxScan \in Nat

Place == <<Places[probe][at]>>

Graded(weight, severity) == [weight |-> weight, severity |-> severity]
Grade(kind) ==
  CASE kind \in {"CRON", "SVC-W", "SVC-E", "SVC-SYSV", "LDP-W", "WETC"} -> Graded(99, 4)
    [] kind \in {"CRON-SYM", "WETC-D", "SSH-W", "PROC-WW"} -> Graded(95, 4)
    [] kind \in {"CRON-WILD", "LDP-ENV"} -> Graded(70, 3)
    [] kind = "SSH-R"    -> Graded(60, 3)
    [] kind = "PROC-DEL" -> Graded(70, 2)

(* The kinds of findings each probe has.                                   *)
Kinds ==
  [cron       |-> {"CRON", "CRON-SYM", "CRON-WILD"}, service      |-> {"SVC-W", "SVC-E", "SVC-SYSV"},
   ld_preload |-> {"LDP-W", "LDP-ENV"},              writable_etc |-> {"WETC", "WETC-D"},
   ssh_keys   |-> {"SSH-W", "SSH-R"},                process      |-> {"PROC-DEL", "PROC-WW"}]

Found(kind, path) ==
  Finding(kind, path, Grade(kind).weight, Grade(kind).severity,
          IF kind = "PROC-WW" THEN {"writable"} ELSE {})

ReportIf(condition, kind, path) ==
  Report(IF condition THEN <<Found(kind, path)>> ELSE << >>)

ReportLines(n, kind, path) == Report([k \in 1 .. n |-> Found(kind, path)])

Silent == UNCHANGED <<total, chain>>

-----------------------------------------------------------------------------

(* The file system at each moment since the probe began, and what a path   *)
(* named then.                                                             *)
Moment == Append(past, [entries |-> entries, bits |-> bits])
LstatAt(m, path) == LstatIn(m.entries, path)
StatAt(m, path)  == StatIn(m.entries, path)

(* The path an executable has, if any, and the last it had; and what one   *)
(* that is unlinked becomes.                                               *)
PathsAt(m, i) == {q \in PathsOf(m.entries) : LstatAt(m, q) = i}
LastPaths(i) ==
  LET had == {k \in 1 .. Len(past) : PathsAt(past[k], i) # {}}
  IN IF had = {} THEN {Origin[i]} ELSE PathsAt(past[Max(had)], i)
Ghost(q) == Append(Front(q), Deleted[Last(q)])
SaysDeleted(q) == \E k \in 1 .. Len(q) : q[k] \in Range(Deleted)

-----------------------------------------------------------------------------

FileInit ==
  /\ probe \in FileProbe
  /\ pc = "place" /\ total = 0 /\ chain = << >>
  /\ offline \in IF probe \in {"service", "process"} THEN BOOLEAN ELSE {FALSE}
  /\ at = 1 /\ stack = << >> /\ child = NoPath /\ exec = NoPath
  /\ TreeInit(Trees[probe], Marked)
  /\ past = << >>

-----------------------------------------------------------------------------

Frame(path) ==
  [path |-> path, dir |-> Stat(path), seen |-> {}, listed |-> Names(Stat(path))]

(* Done with a path: on to the next entry, or to the next place.           *)
Back ==
  IF stack = << >>
  THEN pc' = "place" /\ at' = at + 1
  ELSE pc' = "readdir" /\ UNCHANGED at

GoOn(next) == pc' = next /\ UNCHANGED at

(* The places that are looked at before they are opened, and the file that *)
(* is read without a look.                                                 *)
LooksFirst == probe \in {"cron", "writable_etc"} \/ (probe = "ld_preload" /\ at = 1)
ReadsOnly  == probe = "ld_preload" /\ at = 3

AtPlace == pc = "place" /\ at <= Len(Places[probe])

(* lstat of a place, which may be a file, a directory or missing.          *)
LookAtPlace ==
  /\ AtPlace /\ LooksFirst
  /\ LET i == Lstat(Place) IN
     \/ /\ i = Nothing \/ (i \in Link /\ probe = "writable_etc")
        /\ Back /\ Silent
        /\ UNCHANGED child
     \/ /\ probe # "writable_etc" /\ i \in Dir
        /\ GoOn("opendir") /\ Silent
        /\ UNCHANGED child
     \/ /\ probe # "writable_etc" /\ i \in File \cup Link
        /\ child' = Place
        /\ GoOn("file") /\ Silent
     \/ /\ probe = "writable_etc" /\ i \in File \cup Dir
        /\ ReportIf(i \in bits, "WETC", Place)
        /\ IF i \in Dir THEN GoOn("opendir") ELSE Back
        /\ UNCHANGED child
  /\ UNCHANGED <<probe, offline, stack, exec, files, past>>

(* opendir, by name.  Without /proc the process probe returns at once.     *)
OpenPlace ==
  /\ pc = "opendir" \/ (AtPlace /\ ~LooksFirst /\ ~ReadsOnly)
  /\ IF Opens(Place)
     THEN stack' = <<Frame(Place)>> /\ GoOn("readdir")
     ELSE /\ IF probe = "process" THEN GoOn("done") ELSE (pc' = "place" /\ at' = at + 1)
          /\ UNCHANGED stack
  /\ UNCHANGED <<probe, total, chain, offline, child, exec, files, past>>

(* The names a probe goes into, the hidden ones of init.d among them, ...  *)
WantedAll(n) ==
  CASE probe = "service" /\ at <= 3 -> ClassOf[n] = "service"
    [] probe = "ssh_keys" -> Last(stack).path = <<"home">> \/ ClassOf[n] = "key"
    [] probe = "process"  -> ClassOf[n] = "pid"
    [] OTHER -> TRUE

(* ... and as it is.                                                       *)
Wanted(n) ==
  CASE probe = "service" /\ at <= 3 -> ClassOf[n] = "service"
    [] probe = "service" /\ at > 3  -> ClassOf[n] # "hidden"
    [] probe = "ssh_keys" -> Last(stack).path = <<"home">> \/ ClassOf[n] = "key"
    [] probe = "process"  -> ClassOf[n] = "pid"
    [] OTHER -> TRUE

(* The cap on what the process probe finds, and one too weak.              *)
FullLate == probe = "process" /\ total > ProcMaxScan
Full == probe = "process" /\ total >= ProcMaxScan

(* The end of a directory: entries that come or go while it is read may be *)
(* returned or not.  Waiting for all that are there to be read, ...        *)
AllRead(f) == f.seen = Names(f.dir)

(* ... and what readdir does.                                              *)
Exhausted(f) == f.listed \cap Names(f.dir) \subseteq f.seen

ReadEntry ==
  /\ pc = "readdir" /\ ~Full
  /\ LET f == Last(stack) IN
     \E n \in (f.listed \cup Names(f.dir)) \ f.seen :
       /\ stack' = Append(Front(stack), [f EXCEPT !.seen = @ \cup {n}])
       /\ child' = Append(f.path, n)
       /\ GoOn(IF ~Wanted(n) THEN "readdir" ELSE IF f.path = <<"home">> THEN "join" ELSE "lstat")
  /\ UNCHANGED <<probe, total, chain, offline, exec, files, past>>

CloseDir ==
  /\ pc = "readdir"
  /\ Full \/ Exhausted(Last(stack))
  /\ stack' = Front(stack)
  /\ IF Len(stack) = 1 THEN pc' = "place" /\ at' = at + 1 ELSE UNCHANGED <<pc, at>>
  /\ UNCHANGED <<probe, total, chain, offline, child, exec, files, past>>

(* The directory of a user is joined with ".ssh" in place: the path is     *)
(* both what snprintf reads and what it writes, which is undefined.  In    *)
(* practice the user's part is gone before it is read.                     *)
JoinedInPlace(path) == {<<".ssh">>, Append(path, ".ssh")}

OpenHome ==
  /\ pc = "join"
  /\ \E p \in JoinedInPlace(child) :
       stack' = IF Opens(p) THEN Append(stack, Frame(p)) ELSE stack
  /\ GoOn("readdir")
  /\ UNCHANGED <<probe, total, chain, offline, child, exec, files, past>>

-----------------------------------------------------------------------------

(* inspect_dir of cron: what lstat sees decides who looks next.            *)
LookCron ==
  /\ probe = "cron"
  /\ LET i == Lstat(child) IN
     CASE i \in Link -> GoOn("follow")
       [] i \in File -> GoOn("file")
       [] OTHER      -> Back
  /\ Silent

(* inspect of service, up to the file it reads.                            *)
LookUnit ==
  /\ probe = "service" /\ at <= 3
  /\ LET i == Lstat(child) IN
     /\ ReportIf(i \in bits, "SVC-W", child)
     /\ IF i \in Owned THEN GoOn("text") ELSE Back

(* The looks that end with lstat, and what each reports.                   *)
LookOnce ==
  /\ \/ probe = "service" /\ at > 3
     \/ probe \in {"ld_preload", "writable_etc", "ssh_keys"}
  /\ LET i == Lstat(child) IN
     CASE probe = "service"      -> ReportIf(i \in bits, "SVC-SYSV", child)
       [] probe = "ld_preload"   -> ReportIf(i \in bits \cup Link, "LDP-W", child)
       [] probe = "writable_etc" -> ReportIf(i \in bits \cup Link, "WETC-D", child)
       [] probe = "ssh_keys"     -> IF i \in bits \cap (File \ Fifo)
                                    THEN ReportIf(TRUE, "SSH-W", child)
                                    ELSE ReportIf(i \in Lax, "SSH-R", child)
  /\ Back

(* read_status_field: the user of whatever process has the number now.     *)
ReadStatus ==
  /\ probe = "process"
  /\ IF Stat(child) \in Owned THEN GoOn("exe") ELSE Back
  /\ Silent

Look ==
  /\ pc = "lstat"
  /\ LookCron \/ LookUnit \/ LookOnce \/ ReadStatus
  /\ UNCHANGED <<probe, offline, stack, child, exec, files, past>>

(* stat of what lstat found to be a link.                                  *)
FollowLink ==
  /\ pc = "follow"
  /\ ReportIf(Stat(child) \in bits, "CRON-SYM", child)
  /\ Back
  /\ UNCHANGED <<probe, offline, stack, child, exec, files, past>>

(* The second look of inspect_file, following links, ...                   *)
RelookFollows(path) == Stat(path)

(* ... and with lstat, as the code does it.                                *)
Relook(path) == Lstat(path)

(* inspect_file of cron and of ld_preload; only /etc/crontab is read.      *)
InspectFile ==
  /\ pc = "file"
  /\ LET i == Relook(child) IN
     IF probe = "cron"
     THEN ReportIf(i \in bits, "CRON", child)
     ELSE ReportIf(i \in bits \cup Link, "LDP-W", child)
  /\ IF probe = "cron" /\ at = 1 /\ stack = << >> THEN GoOn("text") ELSE Back
  /\ UNCHANGED <<probe, offline, stack, child, exec, files, past>>

Reads(path) == Stat(path) \in File \ Unreadable

(* inspect_wildcards, and the loop over the lines of /etc/environment.     *)
ReadLines ==
  /\ probe # "service"
  /\ pc = "text" \/ (AtPlace /\ ReadsOnly)
  /\ LET path == IF pc = "text" THEN child ELSE Place IN
     ReportLines(IF Reads(path) THEN Prone[Stat(path)] ELSE 0,
                 IF probe = "cron" THEN "CRON-WILD" ELSE "LDP-ENV", path)
  /\ Back
  /\ UNCHANGED <<probe, offline, stack, child, exec, files, past>>

(* The rest of inspect of service: the unit is opened by name.             *)
ReadUnit ==
  /\ pc = "text" /\ probe = "service"
  /\ LET lines == IF Reads(child) THEN Unit[Stat(child)] ELSE << >> IN
     IF RunsAsRoot(lines) /\ ExecOf(lines) # NoPath
     THEN exec' = ExecOf(lines) /\ GoOn("exec")
     ELSE Back /\ UNCHANGED exec
  /\ Silent
  /\ UNCHANGED <<probe, offline, stack, child, files, past>>

(* readlink of exe: the path of the executable, of which there is one at a *)
(* time; if it has none, the last it had, with " (deleted)" after it.  In  *)
(* either case the code goes on to look up the name it was given.  Links   *)
(* for deleted executables are told apart by their process here.           *)
ReadExe ==
  /\ pc = "exe"
  /\ LET i   == Image[Stat(child)]
         now == {q \in PathsOf(entries) : Lstat(q) = i}
     IN \/ ~Reads(child) /\ Back /\ Silent /\ UNCHANGED exec
        \/ /\ Reads(child)
           /\ \/ \E q \in now : exec' = q /\ ReportIf(SaysDeleted(q), "PROC-DEL", child)
              \/ /\ now = {}
                 /\ \E q \in LastPaths(i) : exec' = Ghost(q)
                 /\ ReportIf(TRUE, "PROC-DEL", child)
           /\ GoOn("exec")
  /\ UNCHANGED <<probe, offline, stack, child, files, past>>

(* stat of the executable, by the name just read.  Under --root that name  *)
(* belongs to the tree, but is looked up on the host.                      *)
StatExec ==
  /\ pc = "exec"
  /\ \E writable \in IF offline THEN BOOLEAN ELSE {Stat(exec) \in bits} :
       IF probe = "service"
       THEN ReportIf(writable, "SVC-E", child)
       ELSE ReportIf(writable, "PROC-WW", exec)
  /\ Back
  /\ UNCHANGED <<probe, offline, stack, child, exec, files, past>>

(* What the next step opens with fopen: a place, a unit, the status of a   *)
(* process.                                                                *)
Opening ==
  CASE pc = "text" \/ (pc = "lstat" /\ probe = "process") -> child
    [] AtPlace /\ ReadsOnly -> Place
    [] OTHER -> NoPath

(* It is a FIFO, and nobody ever writes to it.  If somebody does, be it    *)
(* later, it is read as any other file.                                    *)
Block ==
  /\ Stat(Opening) \in Fifo \ Unreadable
  /\ pc' = "held"
  /\ UNCHANGED <<probe, total, chain, offline, at, stack, child, exec, files, past>>

CloseProbe ==
  /\ pc = "place" /\ at > Len(Places[probe])
  /\ Finish
  /\ UNCHANGED <<offline, at, stack, child, exec, files, past>>

FileStep ==
  \/ LookAtPlace \/ OpenPlace \/ ReadEntry \/ CloseDir \/ OpenHome \/ Look
  \/ FollowLink \/ InspectFile \/ ReadLines \/ ReadUnit \/ ReadExe \/ StatExec
  \/ Block \/ CloseProbe

(* What others do meanwhile, with the names there are.                     *)
Others ==
  /\ pc \notin {"held", "done"}
  /\ Change(UNION {DOMAIN Trees[probe][d] : d \in Dir})
  /\ past' = Append(past, [entries |-> entries, bits |-> bits])
  /\ UNCHANGED inspecting

-----------------------------------------------------------------------------

Path == Seq(STRING)

(* Type correctness of the probes, with the two open directories ssh_keys  *)
(* may hold and the cap of the process probe, which is tested before each  *)
(* process and not before each finding: the last process may have two.     *)
FileTypeOK ==
  /\ pc \in {"place", "opendir", "readdir", "join", "lstat", "follow", "file", "text",
             "exe", "exec", "held", "done"}
  /\ at \in 1 .. Len(Places[probe]) + 1
  /\ Len(stack) <= IF probe = "ssh_keys" THEN 2 ELSE 1
  /\ \A k \in 1 .. Len(stack) :
       /\ stack[k].dir \in Dir
       /\ stack[k].path = Place \/ (probe = "ssh_keys" /\ k = 2)
  /\ pc = "done" => stack = << >>
  /\ \A k \in 1 .. Len(chain) : chain[k].kind \in Kinds[probe] \cup {"CLEAN"}
  /\ probe = "process" => total <= ProcMaxScan + 1

(* The names readlink can have given for an executable at m: its path, or, *)
(* without one, some path it had ever, as that of a deleted file.          *)
ExeNames(history, m, i) ==
  IF PathsAt(m, i) # {} THEN PathsAt(m, i)
  ELSE {Ghost(q) : q \in {Origin[i]} \cup
                         UNION {PathsAt(history[k], i) : k \in 1 .. Len(history)}}

(* What a finding of a kind says of a path, at the moments l, m and n of   *)
(* the calls it rests on.                                                  *)
BorneOutBy(e, l, m, n) ==
  LET i == LstatAt(l, e.path) IN
  CASE e.kind \in {"CRON", "SVC-W", "SVC-SYSV", "WETC"} -> i \in l.bits
    [] e.kind = "SSH-W"    -> i \in l.bits \cap (File \ Fifo)
    [] e.kind \in {"LDP-W", "WETC-D"} -> i \in l.bits \cup Link
    [] e.kind = "SSH-R"    -> i \in Lax
    [] e.kind = "CRON-SYM" -> i \in Link /\ StatAt(m, e.path) \in m.bits
    [] e.kind \in {"CRON-WILD", "LDP-ENV"} ->
         StatAt(l, e.path) \in File /\ Prone[StatAt(l, e.path)] > 0
    [] e.kind = "SVC-E" ->
         /\ i \in Owned
         /\ StatAt(m, e.path) \in File
         /\ LET lines == Unit[StatAt(m, e.path)] IN
            RunsAsRoot(lines) /\ (offline \/ StatAt(n, ExecOf(lines)) \in n.bits)
    [] e.kind = "PROC-DEL" ->
         /\ StatAt(l, e.path) \in Owned
         /\ LET now == PathsAt(m, Image[StatAt(m, e.path)])
            IN now = {} \/ \E q \in now : SaysDeleted(q)
    [] e.kind = "PROC-WW" ->
         \E name \in DOMAIN ClassOf :
           LET p == <<"proc", name>> IN
           /\ StatAt(l, p) \in Owned
           /\ StatAt(m, p) \in File /\ e.path \in ExeNames(past, m, Image[StatAt(m, p)])
           /\ offline \/ StatAt(n, e.path) \in n.bits
    [] OTHER -> TRUE

(***************************************************************************)
(* No finding is made up.  Each is borne out piece by piece by the file    *)
(* system as it was, in the order of the calls: a unit that was root's,    *)
(* then a unit of that name that named an executable, then a file of that  *)
(* name that anybody could write; a process of root, then the name of its  *)
(* executable, then a file of that name that anybody could write.  That it *)
(* was so all at once, or that the file was the executable, is not true.   *)
(***************************************************************************)
FindingsBorneOut ==
  \A k \in 1 .. Len(chain) :
    \E t, u, v \in 1 .. Len(Moment) :
      t <= u /\ u <= v /\ BorneOutBy(chain[k], Moment[t], Moment[u], Moment[v])

Once(condition) == IF condition THEN 1 ELSE 0

(* How many findings of a kind what a path names now deserves, each time   *)
(* the path is come by at place k.                                         *)
Due(kind, k, p) ==
  LET i     == Lstat(p)
      top   == Len(p) = 1
      class == IF top THEN "other" ELSE ClassOf[Last(p)]
      lines == IF kind = "SVC-E" /\ i \in Owned \ Unreadable THEN Unit[i] ELSE << >>
      text  == IF top /\ Stat(p) \in File \ Unreadable THEN Prone[Stat(p)] ELSE 0
  IN CASE kind = "CRON"      -> Once(i \in File \cap bits)
       [] kind = "CRON-SYM"  -> Once(~top /\ i \in Link /\ Follow(i) \in bits)
       [] kind = "CRON-WILD" -> IF k = 1 THEN text ELSE 0
       [] kind = "SVC-W"     -> Once(k <= 3 /\ class = "service" /\ i \in bits)
       [] kind = "SVC-SYSV"  -> Once(k > 3 /\ ~top /\ class # "hidden" /\ i \in bits)
       [] kind = "SVC-E"     -> Once(/\ k <= 3 /\ class = "service" /\ RunsAsRoot(lines)
                                    /\ ExecOf(lines) # NoPath /\ Stat(ExecOf(lines)) \in bits)
       [] kind = "LDP-W"     -> Once(k < 3 /\ (top => k = 1 /\ i \notin Dir) /\ i \in bits \cup Link)
       [] kind = "LDP-ENV"   -> IF k = 3 THEN text ELSE 0
       [] kind = "WETC"      -> Once(top /\ i \in bits)
       [] kind = "WETC-D"    -> Once(~top /\ i \in bits \cup Link)
       [] kind = "SSH-W"     -> Once(k = 1 /\ class = "key" /\ i \in bits \cap (File \ Fifo))
       [] kind = "SSH-R"     -> Once(k = 1 /\ class = "key" /\ i \in Lax \ bits)
       [] kind = "PROC-DEL"  -> Once(/\ class = "pid" /\ Stat(p) \in Owned \ Unreadable
                                    /\ \A q \in PathsOf(entries) : Lstat(q) # Image[Stat(p)])
       [] OTHER -> 0

(* Nothing a finding of a kind about a path rests on was touched.          *)
Untouched(kind, p) ==
  /\ Steady(p) /\ Stat(p) \notin modified
  /\ kind = "SVC-E" =>
       ~offline /\ (Lstat(p) \in File => LET e == ExecOf(Unit[Lstat(p)])
                                        IN Steady(e) /\ Stat(e) \notin modified)
  /\ kind = "PROC-DEL" =>
       /\ moved = {}
       /\ Stat(p) \in Owned =>
            \A q \in PathsOf(entries) : SaysDeleted(q) => Lstat(q) # Image[Stat(p)]

(* The findings of a kind about a path.                                    *)
Of(kind, p) == {k \in 1 .. Len(chain) : chain[k].kind = kind /\ chain[k].path = p}

(***************************************************************************)
(* Whatever others change, what they leave alone is judged as if they had  *)
(* changed nothing: once for each time its place is listed, and neither    *)
(* more nor less often, as long as the process probe has room.  So what is *)
(* in /etc/cron.d counts twice.                                            *)
(***************************************************************************)
ExactWhereSteady ==
  pc = "done" /\ ~Full =>
    \A p \in {q \in PathsOf(Trees[probe]) : Len(q) \in 1 .. 2 /\ q[1] \in Range(Places[probe])},
       kind \in Kinds[probe] \ {"PROC-WW"} :
      LET due == Total([k \in 1 .. Len(Places[probe]) |->
                         IF Places[probe][k] = p[1] THEN Due(kind, k, p) ELSE 0])
      IN Lstat(p) \in Inode /\ Untouched(kind, p) => Cardinality(Of(kind, p)) = due
=============================================================================
