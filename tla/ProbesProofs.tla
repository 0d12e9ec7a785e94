---------------------------- MODULE ProbesProofs ----------------------------
(***************************************************************************)
(* What TLC finds of Probes on one small file system for each probe and    *)
(* one change, and on a few hundred hosts, proved for any file system, any *)
(* number of changes and any host.                                         *)
(*                                                                         *)
(* Of the probes that look at files: none makes up a finding, and what     *)
(* others leave alone is reported exactly as often as it deserves.  Of     *)
(* those that go by facts: they report what is so, and yield the tokens    *)
(* that the host calls for.  And of all: the types, and that CLEAN is said *)
(* of nothing else.                                                        *)
(***************************************************************************)
EXTENDS Probes, FileTreeProofs

(* A sequence, whatever is in it, and that.                                *)
Sequence(s) == \E S : s \in Seq(S)
Elements(s) == {s[k] : k \in 1 .. Len(s)}

AName == DOMAIN ClassOf

(* The names that paths are put together from.                             *)
PathName == AName \cup {".ssh"} \cup UNION {Elements(Places[p]) : p \in FileProbe}
Frames == [path : Seq(PathName), dir : Dir, seen : SUBSET AName, listed : SUBSET AName]

(* The file tree has entries for the directories, with names that occur.   *)
TreeNamed ==
  /\ DOMAIN entries = Dir
  /\ \A d \in Dir : Names(d) \subseteq AName

-----------------------------------------------------------------------------

(* The open directories.                                                   *)
StackOK ==
  /\ stack \in Seq(Frames) /\ Len(stack) <= 2
  /\ stack # << >> => stack[1].path = Place
  /\ Len(stack) = 2 => probe = "ssh_keys" /\ stack[2].path # <<"home">>

(* Where the probe may be, and with what at hand.                          *)
WhereOK ==
  /\ pc \in {"place", "opendir", "done"} => stack = << >>
  /\ pc \in {"readdir", "join", "lstat", "follow", "exe", "exec"} => stack # << >>
  /\ pc = "opendir" => probe \notin {"service", "ssh_keys"}
  /\ pc = "join" => probe = "ssh_keys" /\ Len(stack) = 1 /\ \E n \in AName : child = <<"home", n>>
  /\ pc = "follow" => probe = "cron"
  /\ pc = "file" => probe \in {"cron", "ld_preload"}
  /\ pc = "text" => probe = "cron" \/ (probe = "service" /\ stack # << >>)
  /\ pc = "exe" => probe = "process"
  /\ pc = "exec" => probe \in {"service", "process"}
  /\ probe = "process" /\ pc \in {"lstat", "exe", "exec"} =>
       /\ \E n \in AName : child = <<"proc", n>>
       /\ total <= ProcMaxScan /\ (pc # "exec" => total < ProcMaxScan)

FileShape ==
  /\ pc \in {"place", "opendir", "readdir", "join", "lstat", "follow", "file", "text",
             "exe", "exec", "held", "done"}
  /\ at \in 1 .. Len(Places[probe]) + 1
  /\ pc \notin {"place", "done"} => at <= Len(Places[probe])
  /\ child \in Seq(PathName)
  /\ Sequence(past)

-----------------------------------------------------------------------------

(* The number of moments so far.                                           *)
Now == Len(past) + 1

(* What a unit said when it was read.                                      *)
UnitSaid(m) ==
  /\ StatAt(m, child) \in File
  /\ RunsAsRoot(Unit[StatAt(m, child)])
  /\ exec = ExecOf(Unit[StatAt(m, child)])

(* What the executable of a process was called when that was asked for.    *)
ImageWas(m) ==
  StatAt(m, child) \in File /\ exec \in ExeNames(past, m, Image[StatAt(m, child)])

(* What the calls made so far for a path show, in their order.             *)
Shows(l, m) ==
  /\ pc = "follow" => LstatAt(l, child) \in Link
  /\ probe = "service" /\ pc \in {"text", "exec"} => LstatAt(l, child) \in Owned
  /\ probe = "process" /\ pc \in {"exe", "exec"} => StatAt(l, child) \in Owned
  /\ probe = "service" /\ pc = "exec" => UnitSaid(m)
  /\ probe = "process" /\ pc = "exec" => ImageWas(m)

Support == \E t, u \in 1 .. Now : t <= u /\ Shows(Moment[t], Moment[u])

(* There are moments that bear out what is found.                          *)
Borne(e) ==
  \E t, u, v \in 1 .. Now :
    t <= u /\ u <= v /\ BorneOutBy(e, Moment[t], Moment[u], Moment[v])

(* The evidence so far.                                                    *)
ChainOK ==
  /\ Sequence(chain)
  /\ total \in Nat /\ total <= Len(chain)
  /\ probe = "process" => total <= ProcMaxScan + 1
  /\ \A e \in Elements(chain) : e.kind \in Kinds[probe] \cup {"CLEAN"} /\ Borne(e)

FileInv == FileShape /\ TreeNamed /\ StackOK /\ WhereOK /\ Support /\ ChainOK

(***************************************************************************)
(* The inductive invariant.                                                *)
(***************************************************************************)
IInv == probe \in FileProbe \cup FactProbe /\ (probe \in FileProbe => FileInv)

-----------------------------------------------------------------------------

(* A longer sequence.                                                      *)
LEMMA Appended ==
  ASSUME NEW s, NEW x, Sequence(s)
  PROVE  /\ Sequence(Append(s, x)) /\ Len(s) \in Nat
         /\ Len(Append(s, x)) = Len(s) + 1
         /\ \A k \in 1 .. Len(s) : Append(s, x)[k] = s[k]
         /\ Append(s, x)[Len(s) + 1] = x
<1>1. PICK S : s \in Seq(S)
  BY DEF Sequence
<1>2. s \in Seq(S \cup {x})
  BY <1>1
<1>3. Append(s, x) \in Seq(S \cup {x})
  BY <1>2
<1>4. QED
  BY <1>1, <1>2, <1>3 DEF Sequence

LEMMA Joined ==
  ASSUME NEW s, NEW t, Sequence(s), Sequence(t)
  PROVE  /\ Sequence(s \o t) /\ Len(s) \in Nat /\ Len(t) \in Nat
         /\ Len(s \o t) = Len(s) + Len(t)
         /\ Elements(s \o t) \subseteq Elements(s) \cup Elements(t)
<1>1. PICK S, T : s \in Seq(S) /\ t \in Seq(T)
  BY DEF Sequence
<1>2. s \in Seq(S \cup T) /\ t \in Seq(S \cup T)
  BY <1>1
<1>3. s \o t \in Seq(S \cup T) /\ Len(s) \in Nat /\ Len(t) \in Nat
  BY <1>2
<1>4. /\ Len(s \o t) = Len(s) + Len(t)
      /\ \A k \in 1 .. Len(s) + Len(t) :
           (s \o t)[k] = IF k <= Len(s) THEN s[k] ELSE t[k - Len(s)]
  BY <1>2, ConcatProperties
<1>5. ASSUME NEW k \in 1 .. Len(s \o t)
      PROVE  (s \o t)[k] \in Elements(s) \cup Elements(t)
  <2>1. CASE k <= Len(s)
    BY <1>3, <1>4, <2>1 DEF Elements
  <2>2. CASE k > Len(s)
    <3>1. k - Len(s) \in 1 .. Len(t) /\ (s \o t)[k] = t[k - Len(s)]
      BY <1>3, <1>4, <2>2
    <3>2. QED
      BY <3>1 DEF Elements
  <2>3. QED
    BY <1>3, <2>1, <2>2
<1>6. QED
  BY <1>3, <1>4, <1>5 DEF Sequence, Elements

(* A sequence of the same element.                                         *)
LEMMA Repeated ==
  ASSUME NEW n \in Nat, NEW x
  PROVE  LET s == [k \in 1 .. n |-> x] IN
         Sequence(s) /\ Len(s) = n /\ \A e \in Elements(s) : n > 0 /\ e = x
<1> DEFINE s == [k \in 1 .. n |-> x]
<1>1. s \in [1 .. n -> {x}]
  OBVIOUS
<1>2. s \in Seq({x})
  BY <1>1, SeqDef
<1>3. DOMAIN s = 1 .. n /\ \A k \in 1 .. n : s[k] = x
  OBVIOUS
<1> HIDE DEF s
<1>4. Len(s) = n
  BY <1>2, <1>3, LenProperties
<1>5. QED
  BY <1>2, <1>3, <1>4 DEF Sequence, Elements, s

(* No finding, or one.                                                     *)
LEMMA AtMostOne ==
  ASSUME NEW x, NEW c \in BOOLEAN, NEW s, s = IF c THEN <<x>> ELSE << >>
  PROVE  /\ Sequence(s) /\ Len(s) \in Nat /\ Len(s) <= 1
         /\ \A e \in Elements(s) : c /\ e = x
<1>1. << >> \in Seq({x}) /\ <<x>> \in Seq({x}) /\ <<x>>[1] = x
      /\ Len(<<x>>) = 1 /\ Len(<< >>) = 0
  OBVIOUS
<1>2. CASE c
  <2>1. s = <<x>>
    BY <1>2
  <2>2. Sequence(s) /\ Len(s) = 1 /\ s[1] = x
    BY <1>1, <2>1 DEF Sequence
  <2>3. Len(s) \in Nat /\ Len(s) <= 1 /\ \A e \in Elements(s) : e = x
    BY <2>2 DEF Elements
  <2>4. QED
    BY <1>2, <2>2, <2>3, Zenon
<1>3. CASE ~c
  <2>1. s = << >>
    BY <1>3
  <2>2. QED
    BY <1>1, <2>1 DEF Sequence, Elements
<1>4. QED
  BY <1>2, <1>3, Zenon

-----------------------------------------------------------------------------

(* The present is the last of the moments.                                 *)
LEMMA Present ==
  ASSUME Sequence(past)
  PROVE  /\ Now \in Nat \ {0} /\ Now \in 1 .. Now /\ Len(Moment) = Now
         /\ Moment[Now].entries = entries /\ Moment[Now].bits = bits
         /\ \A p : LstatAt(Moment[Now], p) = Lstat(p) /\ StatAt(Moment[Now], p) = Stat(p)
<1>1. /\ Len(past) \in Nat /\ Len(Moment) = Len(past) + 1
      /\ Moment[Len(past) + 1] = [entries |-> entries, bits |-> bits]
  BY Appended DEF Moment
<1>2. QED
  BY <1>1 DEF Now, LstatAt, StatAt, Lstat, Stat

(* What others do makes it past, and leaves the past alone.                *)
LEMMA PastStays ==
  ASSUME Sequence(past), past' = Append(past, [entries |-> entries, bits |-> bits])
  PROVE  /\ Sequence(past') /\ Now' = Now + 1
         /\ \A t \in 1 .. Now : t \in 1 .. Now' /\ Moment'[t] = Moment[t]
<1>1. /\ Sequence(past') /\ Len(past') = Len(past) + 1 /\ Len(past) \in Nat
      /\ past' = Moment
  BY Appended DEF Moment
<1>2. \A t \in 1 .. Len(past') : Moment'[t] = past'[t]
  BY <1>1, Appended DEF Moment
<1>3. QED
  BY <1>1, <1>2 DEF Now

-----------------------------------------------------------------------------

(* What is borne out stays so.                                             *)
LEMMA Same == ASSUME UNCHANGED <<files, past>> PROVE Moment' = Moment /\ Now' = Now
  BY DEF files, Moment, Now

LEMMA BorneOutSame ==
  ASSUME UNCHANGED <<offline, past>>, NEW e, NEW l, NEW m, NEW n
  PROVE  BorneOutBy(e, l, m, n)' <=> BorneOutBy(e, l, m, n)
  BY DEF BorneOutBy

(* What an executable had been called, it still has.                       *)
LEMMA NamesStay ==
  ASSUME Sequence(past), past' = Append(past, [entries |-> entries, bits |-> bits]),
         NEW m, NEW i
  PROVE  ExeNames(past, m, i) \subseteq ExeNames(past', m, i)
<1>1. /\ Len(past') = Len(past) + 1 /\ Len(past) \in Nat
      /\ \A k \in 1 .. Len(past) : past'[k] = past[k]
  BY Appended
<1>2. \A k \in 1 .. Len(past) : k \in 1 .. Len(past')
  BY <1>1
<1>3. UNION {PathsAt(past[k], i) : k \in 1 .. Len(past)}
        \subseteq UNION {PathsAt(past'[k], i) : k \in 1 .. Len(past')}
  BY <1>1, <1>2
<1>4. QED
  BY <1>3 DEF ExeNames, PathsAt

LEMMA BorneOutStays ==
  ASSUME UNCHANGED offline, Sequence(past),
         past' = Append(past, [entries |-> entries, bits |-> bits]),
         NEW e, NEW l, NEW m, NEW n, BorneOutBy(e, l, m, n)
  PROVE  BorneOutBy(e, l, m, n)'
<1>1. \A i : ExeNames(past, m, i) \subseteq ExeNames(past', m, i)
  BY NamesStay
<1>2. QED
  BY <1>1 DEF BorneOutBy

(* The name readlink gives now is one of those.                            *)
LEMMA NameGiven ==
  ASSUME Sequence(past), NEW i, NEW q,
         \/ q \in PathsAt(Moment[Now], i)
         \/ /\ PathsAt(Moment[Now], i) = {}
            /\ \E z \in LastPaths(i) : q = Ghost(z)
  PROVE  q \in ExeNames(past, Moment[Now], i)
<1> DEFINE had == {k \in 1 .. Len(past) : PathsAt(past[k], i) # {}}
<1>1. had = {} \/ Max(had) \in 1 .. Len(past)
  <2>1. Len(past) \in Nat
    BY DEF Sequence
  <2>2. had \in SUBSET (0 .. Len(past)) /\ \A k \in had : k \in 1 .. Len(past)
    BY <2>1
  <2> HIDE DEF had
  <2>3. QED
    BY <2>1, <2>2, GreatestOfBounded
<1>2. LastPaths(i) = IF had = {} THEN {Origin[i]} ELSE PathsAt(past[Max(had)], i)
  BY DEF LastPaths
<1> HIDE DEF had
<1>3. LastPaths(i) \subseteq {Origin[i]} \cup UNION {PathsAt(past[k], i) : k \in 1 .. Len(past)}
  BY <1>1, <1>2
<1>4. QED
  BY <1>3 DEF ExeNames

LEMMA BorneStays ==
  ASSUME UNCHANGED <<files, past, offline>>, NEW e, Borne(e)
  PROVE  Borne(e)'
<1>1. PICK t, u, v \in 1 .. Now :
        t <= u /\ u <= v /\ BorneOutBy(e, Moment[t], Moment[u], Moment[v])
  BY DEF Borne
<1>2. Moment' = Moment /\ Now' = Now
  BY Same
<1>3. BorneOutBy(e, Moment[t], Moment[u], Moment[v])'
  <2>1. \A l, m, n : BorneOutBy(e, l, m, n)' <=> BorneOutBy(e, l, m, n)
    BY BorneOutSame
  <2>2. QED
    BY <1>1, <1>2, <2>1 DEF BorneOutBy, LstatAt, StatAt
<1>4. QED
  BY <1>1, <1>2, <1>3 DEF Borne

(* What is found now is borne out, and so is what rests on earlier calls.  *)
LEMMA BorneNow ==
  ASSUME Sequence(past), NEW e, NEW t \in 1 .. Now, NEW u \in 1 .. Now, t <= u,
         BorneOutBy(e, Moment[t], Moment[u], Moment[Now])
  PROVE  Borne(e)
<1>1. Now \in Nat \ {0} /\ Now \in 1 .. Now /\ u <= Now
  BY Present
<1>2. QED
  BY <1>1 DEF Borne

LEMMA LookBears ==
  ASSUME Sequence(past), NEW kind, NEW path,
         \/ /\ kind \in {"CRON", "SVC-W", "SVC-SYSV", "WETC"}
            /\ Lstat(path) \in bits
         \/ kind = "SSH-W" /\ Lstat(path) \in bits \cap (File \ Fifo)
         \/ /\ kind \in {"LDP-W", "WETC-D"}
            /\ Lstat(path) \in bits \cup Link
         \/ kind = "SSH-R" /\ Lstat(path) \in Lax
         \/ /\ kind \in {"CRON-WILD", "LDP-ENV"}
            /\ Stat(path) \in File /\ Prone[Stat(path)] > 0
  PROVE  Borne(Found(kind, path))
<1> DEFINE e == Found(kind, path)
           m == Moment[Now]
<1>1. Now \in 1 .. Now /\ Now <= Now
  BY Present
<1>2. m.bits = bits /\ LstatAt(m, path) = Lstat(path) /\ StatAt(m, path) = Stat(path)
  BY Present
<1>3. e.kind = kind /\ e.path = path
  BY DEF Found, Finding
<1> HIDE DEF e, m
<1>4. BorneOutBy(e, m, m, m)
  BY <1>2, <1>3 DEF BorneOutBy
<1>5. QED
  BY <1>1, <1>4, BorneNow DEF e, m

(***************************************************************************)
(* Findings that are borne out are added to others.                        *)
(***************************************************************************)
LEMMA Added ==
  ASSUME ChainOK, NEW found, Sequence(found), Report(found),
         UNCHANGED <<probe, files, past, offline>>,
         probe = "process" => total + Len(found) <= ProcMaxScan + 1,
         \A e \in Elements(found) : e.kind \in Kinds[probe] /\ Borne(e)
  PROVE  ChainOK'
<1>1. chain' = chain \o found /\ total' = total + Len(found)
  BY DEF Report
<1>2. /\ Sequence(chain') /\ Len(chain) \in Nat /\ Len(found) \in Nat
      /\ Len(chain') = Len(chain) + Len(found)
      /\ Elements(chain') \subseteq Elements(chain) \cup Elements(found)
  BY <1>1, Joined DEF ChainOK
<1>3. total' \in Nat /\ total' <= Len(chain')
  BY <1>1, <1>2 DEF ChainOK
<1>4. \A e \in Elements(chain) \cup Elements(found) :
        e.kind \in Kinds[probe] \cup {"CLEAN"} /\ Borne(e)'
  BY BorneStays DEF ChainOK
<1>5. probe' = "process" => total' <= ProcMaxScan + 1
  BY <1>1
<1>6. QED
  BY <1>2, <1>3, <1>4, <1>5 DEF ChainOK, Elements

LEMMA AddedIf ==
  ASSUME ChainOK, NEW c \in BOOLEAN, NEW kind \in Kinds[probe], NEW path,
         ReportIf(c, kind, path), UNCHANGED <<probe, files, past, offline>>,
         probe = "process" => total <= ProcMaxScan,
         c => Borne(Found(kind, path))
  PROVE  ChainOK'
<1> DEFINE found == IF c THEN <<Found(kind, path)>> ELSE << >>
<1>1. /\ Sequence(found) /\ Len(found) \in Nat /\ Len(found) <= 1
      /\ \A e \in Elements(found) : c /\ e = Found(kind, path)
  BY AtMostOne
<1>2. Report(found)
  BY DEF ReportIf
<1> HIDE DEF found
<1>3. probe = "process" => total + Len(found) <= ProcMaxScan + 1
  BY <1>1, FileProbesAssumption DEF ChainOK, FileProbesAssumption
<1>4. Found(kind, path).kind = kind
  BY DEF Found, Finding
<1>5. QED
  BY <1>1, <1>2, <1>3, <1>4, Added

LEMMA AddedLines ==
  ASSUME ChainOK, NEW n \in Nat, NEW kind \in Kinds[probe], NEW path,
         ReportLines(n, kind, path), UNCHANGED <<probe, files, past, offline>>,
         probe # "process", n > 0 => Borne(Found(kind, path))
  PROVE  ChainOK'
<1> DEFINE found == [k \in 1 .. n |-> Found(kind, path)]
<1>1. Sequence(found) /\ Len(found) = n /\ \A e \in Elements(found) : n > 0 /\ e = Found(kind, path)
  BY Repeated
<1>2. Report(found)
  BY DEF ReportLines
<1> HIDE DEF found
<1>3. Found(kind, path).kind = kind
  BY DEF Found, Finding
<1>4. QED
  BY <1>1, <1>2, <1>3, Added

LEMMA NoneAdded ==
  ASSUME ChainOK, Silent, UNCHANGED <<probe, files, past, offline>>
  PROVE  ChainOK'
  BY BorneStays DEF ChainOK, Silent, Elements

-----------------------------------------------------------------------------

(* The lists of places.                                                    *)
LEMMA PlacesType ==
  ASSUME probe \in FileProbe
  PROVE  /\ Len(Places[probe]) \in Nat
         /\ \A k \in 1 .. Len(Places[probe]) :
              /\ Places[probe][k] = "home" => probe = "ssh_keys"
              /\ probe = "process" => Places[probe][k] = "proc"
<1>1. probe \in {"cron", "service", "ld_preload", "writable_etc", "ssh_keys", "process"}
  BY DEF FileProbe, Places
<1>2. CASE probe = "cron"
  <2>1. Len(Places["cron"]) = 10 /\ \A k \in 1 .. 10 : Places["cron"][k] # "home"
    BY DEF Places
  <2>2. QED
    BY <1>2, <2>1
<1>3. CASE probe = "service"
  <2>1. Len(Places["service"]) = 5 /\ \A k \in 1 .. 5 : Places["service"][k] # "home"
    BY DEF Places
  <2>2. QED
    BY <1>3, <2>1
<1>4. CASE probe = "ld_preload"
  <2>1. Len(Places["ld_preload"]) = 3 /\ \A k \in 1 .. 3 : Places["ld_preload"][k] # "home"
    BY DEF Places
  <2>2. QED
    BY <1>4, <2>1
<1>5. CASE probe = "writable_etc"
  <2>1. /\ Len(Places["writable_etc"]) = 6
        /\ \A k \in 1 .. 6 : Places["writable_etc"][k] # "home"
    BY DEF Places
  <2>2. QED
    BY <1>5, <2>1
<1>6. CASE probe = "ssh_keys"
  <2>1. Len(Places["ssh_keys"]) = 2
    BY DEF Places
  <2>2. QED
    BY <1>6, <2>1
<1>7. CASE probe = "process"
  <2>1. Len(Places["process"]) = 1 /\ Places["process"][1] = "proc"
    BY DEF Places
  <2>2. QED
    BY <1>7, <2>1
<1>8. QED
  BY <1>1, <1>2, <1>3, <1>4, <1>5, <1>6, <1>7

LEMMA PlaceType ==
  ASSUME probe \in FileProbe, FileShape, at <= Len(Places[probe])
  PROVE  /\ Place \in Seq(PathName)
         /\ Place = <<"home">> => probe = "ssh_keys"
         /\ probe = "process" => Place = <<"proc">>
<1> DEFINE name == Places[probe][at]
<1>1. at \in 1 .. Len(Places[probe])
  BY PlacesType DEF FileShape
<1>2. /\ name = "home" => probe = "ssh_keys"
      /\ probe = "process" => name = "proc"
  BY <1>1, PlacesType
<1>3. name \in PathName
  BY <1>1 DEF PathName, Elements
<1>4. Place = <<name>>
  BY DEF Place
<1> HIDE DEF name
<1>5. <<name>> \in Seq(PathName) /\ (<<name>> = <<"home">> => name = "home")
  BY <1>3
<1>6. QED
  BY <1>2, <1>4, <1>5

(* The kinds of findings.                                                  *)
LEMMA KindsType ==
  /\ Kinds["cron"] = {"CRON", "CRON-SYM", "CRON-WILD"}
  /\ Kinds["service"] = {"SVC-W", "SVC-E", "SVC-SYSV"}
  /\ Kinds["ld_preload"] = {"LDP-W", "LDP-ENV"}
  /\ Kinds["writable_etc"] = {"WETC", "WETC-D"}
  /\ Kinds["ssh_keys"] = {"SSH-W", "SSH-R"}
  /\ Kinds["process"] = {"PROC-DEL", "PROC-WW"}
  BY DEF Kinds

(* The calls that bear out nothing yet.                                    *)
LEMMA NowIsNow == Sequence(past) => Now \in 1 .. Now
  BY Present

LEMMA NothingToShow ==
  ASSUME Sequence(past'), \/ pc' \in {"place", "opendir", "readdir", "join", "lstat", "file", "held", "done"}
                          \/ pc' = "text" /\ probe' # "service"
  PROVE  Support'
<1>0. Sequence(past)'
  OBVIOUS
<1>1. (Now \in 1 .. Now)'
  BY <1>0, NowIsNow, PTL
<1>2. Now' <= Now'
  BY <1>1 DEF Now
<1>3. QED
  BY <1>1, <1>2 DEF Support, Shows

-----------------------------------------------------------------------------

(* The innermost open directory, ...                                       *)
LEMMA StackTop ==
  ASSUME StackOK, stack # << >>
  PROVE  /\ (Len(stack) = 1 \/ Len(stack) = 2) /\ Last(stack) = stack[Len(stack)]
         /\ Last(stack) \in Frames /\ stack[1] \in Frames
         /\ stack \in Seq(Frames)
<1>1. stack \in Seq(Frames) /\ Len(stack) <= 2
  BY DEF StackOK
<1>2. Len(stack) \in Nat \ {0}
  BY <1>1
<1> DEFINE n == Len(stack)
<1>3. n \in Nat \ {0} /\ n <= 2
  BY <1>1, <1>2
<1> HIDE DEF n
<1>4. n = 1 \/ n = 2
  BY <1>3
<1>5. QED
  BY <1>1, <1>4 DEF Last, n

(* ... and those around it.                                                *)
LEMMA StackRest ==
  ASSUME StackOK, stack # << >>
  PROVE  /\ Front(stack) \in Seq(Frames) /\ Len(Front(stack)) = Len(stack) - 1
         /\ Len(stack) = 2 => Front(stack)[1] = stack[1]
<1> DEFINE n == Len(stack) - 1
<1>1. n \in 0 .. 1 /\ stack \in Seq(Frames) /\ n <= Len(stack) /\ (Len(stack) = 2 => n = 1)
  BY StackTop
<1>2. Front(stack) = SubSeq(stack, 1, n)
  BY DEF Front
<1>3. \A i \in 1 .. n : stack[i] \in Frames
  BY <1>1
<1> HIDE DEF n
<1>4. /\ SubSeq(stack, 1, n) \in Seq(Frames)
      /\ Len(SubSeq(stack, 1, n)) = IF 1 <= n THEN n - 1 + 1 ELSE 0
      /\ \A i \in 1 .. n - 1 + 1 : SubSeq(stack, 1, n)[i] = stack[1 + i - 1]
  BY <1>1, <1>3, SubSeqProperties
<1>5. Len(SubSeq(stack, 1, n)) = n /\ (n = 1 => SubSeq(stack, 1, n)[1] = stack[1])
  BY <1>1, <1>4
<1>6. QED
  BY <1>1, <1>2, <1>4, <1>5 DEF n

(* A directory that is opened.                                             *)
LEMMA FrameType ==
  ASSUME TreeNamed, NEW path \in Seq(PathName), Opens(path)
  PROVE  Frame(path) \in Frames /\ Frame(path).path = path
<1>1. Stat(path) \in Dir
  BY DEF Opens
<1>2. QED
  BY <1>1 DEF TreeNamed, Frame, Frames

LEMMA TreeKept == ASSUME TreeNamed, UNCHANGED files PROVE TreeNamed'
  BY DEF TreeNamed, Names, files

(***************************************************************************)
(* The steps, one by one.                                                  *)
(***************************************************************************)
LEMMA LookAtPlaceStep ==
  ASSUME probe \in FileProbe, FileInv, LookAtPlace PROVE FileInv'
<1>1. /\ pc = "place" /\ at <= Len(Places[probe]) /\ LooksFirst /\ stack = << >>
      /\ UNCHANGED <<probe, offline, stack, exec, files, past>>
  BY DEF LookAtPlace, AtPlace, FileInv, WhereOK
<1>2. \/ pc' = "place" /\ at' = at + 1 /\ UNCHANGED child
      \/ pc' = "opendir" /\ UNCHANGED <<at, child>> /\ probe \notin {"service", "ssh_keys"}
      \/ pc' = "file" /\ UNCHANGED at /\ child' = Place /\ probe \in {"cron", "ld_preload"}
  BY <1>1 DEF LookAtPlace, Back, GoOn, LooksFirst
<1>3. FileShape'
  BY <1>1, <1>2, PlaceType, PlacesType DEF FileInv, FileShape
<1>4. StackOK' /\ WhereOK'
  BY <1>1, <1>2 DEF FileInv, StackOK, WhereOK
<1>5. ChainOK'
  <2>1. CASE Silent
    BY <1>1, <2>1, NoneAdded DEF FileInv
  <2>2. CASE probe = "writable_etc" /\ ReportIf(Lstat(Place) \in bits, "WETC", Place)
    <3> DEFINE writable == Lstat(Place) \in bits
    <3>1. "WETC" \in Kinds[probe]
      BY <2>2, KindsType
    <3>2. writable \in BOOLEAN /\ (writable => Borne(Found("WETC", Place)))
      BY LookBears DEF FileInv, FileShape
    <3>3. ReportIf(writable, "WETC", Place)
      BY <2>2
    <3> HIDE DEF writable
    <3>4. QED
      BY <1>1, <2>2, <3>1, <3>2, <3>3, AddedIf DEF FileInv
  <2>3. Silent \/ (probe = "writable_etc" /\ ReportIf(Lstat(Place) \in bits, "WETC", Place))
    BY Zenon DEF LookAtPlace
  <2>4. QED
    BY <2>1, <2>2, <2>3
<1>6. Support'
  BY <1>2, <1>3, NothingToShow DEF FileShape
<1>7. QED
  BY <1>1, <1>3, <1>4, <1>5, <1>6, TreeKept DEF FileInv

LEMMA OpenPlaceStep ==
  ASSUME probe \in FileProbe, FileInv, OpenPlace PROVE FileInv'
<1>1. /\ pc \in {"place", "opendir"} /\ at <= Len(Places[probe]) /\ stack = << >>
      /\ UNCHANGED <<probe, total, chain, offline, child, exec, files, past>>
  BY DEF OpenPlace, AtPlace, FileInv, FileShape, WhereOK
<1>2. \/ /\ pc' = "readdir" /\ UNCHANGED at
         /\ Opens(Place) /\ stack' = <<Frame(Place)>>
      \/ pc' = "done" /\ UNCHANGED <<at, stack>>
      \/ pc' = "place" /\ at' = at + 1 /\ UNCHANGED stack
  BY DEF OpenPlace, GoOn
<1>3. FileShape'
  BY <1>1, <1>2, PlacesType DEF FileInv, FileShape
<1>4. StackOK' /\ WhereOK'
  <2>1. CASE stack' = stack /\ pc' \in {"done", "place"}
    BY <1>1, <2>1 DEF StackOK, WhereOK, FileInv
  <2>2. CASE pc' = "readdir" /\ UNCHANGED at /\ Opens(Place) /\ stack' = <<Frame(Place)>>
    <3>1. Frame(Place) \in Frames /\ Frame(Place).path = Place
      BY <1>1, <2>2, PlaceType, FrameType DEF FileInv
    <3>2. /\ stack' \in Seq(Frames) /\ Len(stack') = 1 /\ stack' # << >>
          /\ stack'[1] = Frame(Place)
      BY <2>2, <3>1
    <3>3. Place' = Place
      BY <1>1, <2>2 DEF Place
    <3>4. QED
      BY <1>1, <2>2, <3>1, <3>2, <3>3 DEF StackOK, WhereOK
  <2>3. QED
    BY <1>2, <2>1, <2>2
<1>5. Support'
  BY <1>2, <1>3, NothingToShow DEF FileShape
<1>6. ChainOK'
  BY <1>1, NoneAdded DEF FileInv, Silent
<1>7. QED
  BY <1>1, <1>3, <1>4, <1>5, <1>6, TreeKept DEF FileInv

(* A name after another.                                                   *)
LEMMA Pair == ASSUME NEW a, NEW b PROVE Append(<<a>>, b) = <<a, b>>
<1> DEFINE S == {a, b}
           s == <<a>>
           t == <<a, b>>
<1>1. s \in Seq(S) /\ Len(s) = 1 /\ s[1] = a
  OBVIOUS
<1>2. t \in Seq(S) /\ Len(t) = 2 /\ t[1] = a /\ t[2] = b
  OBVIOUS
<1>3. b \in S
  OBVIOUS
<1> HIDE DEF S, s, t
<1>9. Sequence(s)
  BY <1>1 DEF Sequence
<1> DEFINE r == Append(s, b)
<1>4. /\ Len(r) = Len(s) + 1 /\ r[Len(s) + 1] = b
      /\ \A k \in 1 .. Len(s) : r[k] = s[k]
  BY <1>9, Appended
<1>8. r \in Seq(S)
  BY <1>1, <1>3
<1> HIDE DEF r
<1>5. Len(r) = Len(t) /\ \A i \in 1 .. Len(r) : r[i] = t[i]
  BY <1>1, <1>2, <1>4
<1>6. r = t
  BY <1>2, <1>5, <1>8, SeqEqual
<1>7. QED
  BY <1>6 DEF r, s, t

LEMMA Triple == ASSUME NEW a, NEW b, NEW c PROVE Append(<<a, b>>, c) = <<a, b, c>>
<1> DEFINE S == {a, b, c}
           s == <<a, b>>
           t == <<a, b, c>>
<1>1. s \in Seq(S) /\ Len(s) = 2 /\ s[1] = a /\ s[2] = b
  OBVIOUS
<1>2. t \in Seq(S) /\ Len(t) = 3 /\ t[1] = a /\ t[2] = b /\ t[3] = c
  OBVIOUS
<1>3. c \in S
  OBVIOUS
<1> HIDE DEF S, s, t
<1>9. Sequence(s)
  BY <1>1 DEF Sequence
<1> DEFINE r == Append(s, c)
<1>4. /\ Len(r) = Len(s) + 1 /\ r[Len(s) + 1] = c
      /\ \A k \in 1 .. Len(s) : r[k] = s[k]
  BY <1>9, Appended
<1>8. r \in Seq(S)
  BY <1>1, <1>3
<1> HIDE DEF r
<1>5. Len(r) = Len(t) /\ \A i \in 1 .. Len(r) : r[i] = t[i]
  BY <1>1, <1>2, <1>4
<1>6. r = t
  BY <1>2, <1>5, <1>8, SeqEqual
<1>7. QED
  BY <1>6 DEF r, s, t

LEMMA ReadEntryStep ==
  ASSUME probe \in FileProbe, FileInv, ReadEntry PROVE FileInv'
<1> DEFINE f == Last(stack)
<1>1. /\ pc = "readdir" /\ ~Full /\ stack # << >> /\ UNCHANGED at
      /\ UNCHANGED <<probe, total, chain, offline, exec, files, past>>
  BY Zenon DEF ReadEntry, GoOn, FileInv, WhereOK
<1>2. PICK n \in (f.listed \cup Names(f.dir)) \ f.seen :
        /\ stack' = Append(Front(stack), [f EXCEPT !.seen = @ \cup {n}])
        /\ child' = Append(f.path, n)
        /\ pc' = IF ~Wanted(n) THEN "readdir"
                 ELSE IF f.path = <<"home">> THEN "join" ELSE "lstat"
  BY DEF ReadEntry, GoOn
<1>3. at <= Len(Places[probe]) /\ at \in 1 .. Len(Places[probe])
  BY <1>1, PlacesType DEF FileInv, FileShape
<1>4. /\ Len(stack) = 1 \/ Len(stack) = 2
      /\ f = stack[Len(stack)] /\ f \in Frames /\ stack[1] \in Frames
  BY <1>1, StackTop DEF FileInv
<1> DEFINE g == [f EXCEPT !.seen = @ \cup {n}]
<1>5. n \in AName /\ f.path \in Seq(PathName)
  BY <1>4 DEF Frames, FileInv, TreeNamed
<1>6. g \in Frames /\ g.path = f.path
  BY <1>4, <1>5 DEF Frames
<1>7. /\ Front(stack) \in Seq(Frames) /\ Len(Front(stack)) = Len(stack) - 1
      /\ Len(stack) = 2 => Front(stack)[1] = stack[1]
  BY <1>1, StackRest DEF FileInv
<1> HIDE DEF f, g
<1> DEFINE rest == Front(stack)
<1> HIDE DEF rest
<1>8. /\ stack' = Append(rest, g) /\ rest \in Seq(Frames)
      /\ Len(rest) = Len(stack) - 1 /\ (Len(stack) = 2 => rest[1] = stack[1])
  BY <1>2, <1>7 DEF rest, g
<1>9. /\ stack' \in Seq(Frames) /\ Len(stack') = Len(stack) /\ stack' # << >>
      /\ Len(stack) = 1 => stack'[1] = g
      /\ Len(stack) = 2 => stack'[1] = stack[1] /\ stack'[2] = g
  BY <1>4, <1>6, <1>8
<1>10. Place' = Place
  BY <1>1 DEF Place
<1>11. /\ stack[1].path = Place
       /\ Len(stack) = 2 => probe = "ssh_keys" /\ f.path # <<"home">>
  BY <1>1, <1>4 DEF FileInv, StackOK
<1>12. StackOK'
  BY <1>1, <1>4, <1>6, <1>9, <1>10, <1>11 DEF StackOK
<1>13. child' \in Seq(PathName)
  BY <1>2, <1>5 DEF PathName
<1>14. FileShape'
  BY <1>1, <1>2, <1>3, <1>13 DEF FileInv, FileShape
<1>15. /\ Place = <<"home">> => probe = "ssh_keys"
       /\ probe = "process" => Place = <<"proc">>
  BY <1>3, PlaceType DEF FileInv
<1>16. ASSUME pc' = "join"
       PROVE  probe = "ssh_keys" /\ Len(stack) = 1 /\ child' = <<"home", n>>
  <2>1. f.path = <<"home">> /\ Len(stack) = 1 /\ f.path = Place
    BY <1>2, <1>4, <1>11, <1>16
  <2>2. QED
    BY <1>2, <1>15, <2>1, Pair
<1>17. ASSUME probe = "process" PROVE child' = <<"proc", n>>
  <2>1. f.path = <<"proc">>
    BY <1>4, <1>11, <1>15, <1>17
  <2>2. QED
    BY <1>2, <2>1, Pair
<1>18. probe = "process" => total < ProcMaxScan /\ total <= ProcMaxScan
  BY <1>1, FileProbesAssumption DEF Full, FileInv, ChainOK, FileProbesAssumption
<1>19. WhereOK'
  BY <1>1, <1>2, <1>5, <1>9, <1>16, <1>17, <1>18 DEF WhereOK
<1>20. ChainOK'
  BY <1>1, NoneAdded DEF FileInv, Silent
<1>21. Support'
  BY <1>2, <1>14, NothingToShow DEF FileShape
<1>22. QED
  BY <1>1, <1>12, <1>14, <1>19, <1>20, <1>21, TreeKept DEF FileInv

LEMMA CloseDirStep ==
  ASSUME probe \in FileProbe, FileInv, CloseDir PROVE FileInv'
<1>1. /\ pc = "readdir" /\ stack' = Front(stack) /\ stack # << >>
      /\ UNCHANGED <<probe, total, chain, offline, child, exec, files, past>>
      /\ IF Len(stack) = 1 THEN pc' = "place" /\ at' = at + 1 ELSE UNCHANGED <<pc, at>>
  BY Zenon DEF CloseDir, FileInv, WhereOK
<1>2. Len(stack) = 1 \/ Len(stack) = 2
  BY <1>1, StackTop DEF FileInv
<1>3. /\ stack' \in Seq(Frames) /\ Len(stack') = Len(stack) - 1
      /\ Len(stack) = 2 => stack'[1] = stack[1]
  BY <1>1, StackRest DEF FileInv
<1>4. at <= Len(Places[probe]) /\ at \in 1 .. Len(Places[probe])
  BY <1>1, PlacesType DEF FileInv, FileShape
<1>5. FileShape'
  BY <1>1, <1>2, <1>4, PlacesType DEF FileInv, FileShape
<1>6. StackOK' /\ WhereOK'
  <2>1. CASE Len(stack) = 1
    <3>1. stack' = << >> /\ pc' = "place"
      BY <1>1, <1>3, <2>1
    <3>2. QED
      BY <1>3, <3>1 DEF StackOK, WhereOK
  <2>2. CASE Len(stack) = 2
    <3>1. Len(stack') = 1 /\ pc' = "readdir" /\ UNCHANGED at
      BY <1>1, <1>3, <2>2
    <3>0. stack' # << >>
      BY <3>1
    <3>2. Place' = Place
      BY <1>1, <3>1 DEF Place
    <3>3. stack'[1].path = Place
      BY <1>1, <1>3, <2>2 DEF FileInv, StackOK
    <3>7. stack' \in Seq(Frames)
      BY <1>3
    <3>4. StackOK'
      BY <3>1, <3>2, <3>3, <3>7 DEF StackOK
    <3>5. WhereOK'
      BY <3>0, <3>1 DEF WhereOK
    <3>6. QED
      BY <3>4, <3>5
  <2>3. QED
    BY <1>2, <2>1, <2>2
<1>7. ChainOK'
  BY <1>1, NoneAdded DEF FileInv, Silent
<1>8. Support'
  <2>1. pc' \in {"place", "readdir"}
    BY <1>1
  <2>2. QED
    BY <1>5, <2>1, NothingToShow DEF FileShape
<1>9. QED
  BY <1>1, <1>5, <1>6, <1>7, <1>8, TreeKept DEF FileInv

LEMMA OpenHomeStep ==
  ASSUME probe \in FileProbe, FileInv, OpenHome PROVE FileInv'
<1>1. /\ pc = "join" /\ pc' = "readdir" /\ UNCHANGED at
      /\ UNCHANGED <<probe, total, chain, offline, child, exec, files, past>>
  BY DEF OpenHome, GoOn
<1>2. PICK p \in JoinedInPlace(child) :
        stack' = IF Opens(p) THEN Append(stack, Frame(p)) ELSE stack
  BY DEF OpenHome
<1>3. /\ probe = "ssh_keys" /\ Len(stack) = 1 /\ stack # << >>
      /\ stack \in Seq(Frames) /\ stack[1].path = Place
  BY <1>1 DEF FileInv, StackOK, WhereOK
<1>4. PICK n \in AName : child = <<"home", n>>
  BY <1>1 DEF FileInv, WhereOK
<1>5. p \in Seq(PathName) /\ p # <<"home">>
  <2>1. "home" \in PathName
    <3>1. Place = <<"home">> \/ Place # <<"home">>
      OBVIOUS
    <3>2. "home" \in Elements(Places["ssh_keys"])
      BY DEF Places, Elements
    <3>3. "ssh_keys" \in FileProbe
      BY <1>3
    <3>4. QED
      BY <3>2, <3>3 DEF PathName
  <2>2. n \in PathName /\ ".ssh" \in PathName
    BY <1>4 DEF PathName
  <2>3. p = <<".ssh">> \/ p = <<"home", n, ".ssh">>
    BY <1>2, <1>4, Triple DEF JoinedInPlace
  <2>4. CASE p = <<".ssh">>
    BY <2>2, <2>4
  <2>5. CASE p = <<"home", n, ".ssh">>
    <3>1. p \in Seq(PathName)
      BY <2>1, <2>2, <2>5
    <3>2. Len(p) = 3 /\ Len(<<"home">>) = 1
      BY <2>5
    <3>3. QED
      BY <3>1, <3>2
  <2>6. QED
    BY <2>3, <2>4, <2>5
<1>6. Place' = Place
  BY <1>1 DEF Place
<1>7. StackOK' /\ stack' # << >>
  <2>1. CASE Opens(p)
    <3> DEFINE g == Frame(p)
    <3>1. g \in Frames /\ g.path = p /\ stack' = Append(stack, g)
      BY <1>2, <1>5, <2>1, FrameType DEF FileInv
    <3> HIDE DEF g
    <3>2. stack' \in Seq(Frames) /\ stack' # << >>
      BY <1>3, <3>1
    <3>4. Sequence(stack)
      BY <1>3 DEF Sequence
    <3>3. /\ Len(stack') = Len(stack) + 1 /\ stack'[Len(stack) + 1] = g
          /\ \A k \in 1 .. Len(stack) : stack'[k] = stack[k]
      BY <3>1, <3>4, Appended
    <3>5. Len(stack') = 2 /\ stack'[1] = stack[1] /\ stack'[2] = g
      BY <1>3, <3>3
    <3>6. /\ stack'[1].path = Place' /\ stack'[2].path # <<"home">>
          /\ probe' = "ssh_keys" /\ Len(stack') <= 2
      BY <1>1, <1>3, <1>5, <1>6, <3>1, <3>5
    <3>7. QED
      BY <3>2, <3>6 DEF StackOK
  <2>2. CASE ~Opens(p)
    <3>1. stack' = stack /\ probe' = probe
      BY <1>1, <1>2, <2>2
    <3>2. QED
      BY <1>3, <1>6, <3>1 DEF FileInv, StackOK
  <2>3. QED
    BY <2>1, <2>2
<1>8. FileShape' /\ WhereOK'
  BY <1>1, <1>3, <1>7 DEF FileInv, FileShape, WhereOK
<1>9. ChainOK'
  BY <1>1, NoneAdded DEF FileInv, Silent
<1>10. Support'
  BY <1>1, <1>8, NothingToShow DEF FileShape
<1>11. QED
  BY <1>1, <1>7, <1>8, <1>9, <1>10, TreeKept DEF FileInv

-----------------------------------------------------------------------------

(* Done with a path, or on to the next call about it.                      *)
LEMMA BackShape ==
  ASSUME probe \in FileProbe, FileInv, Back, at <= Len(Places[probe]),
         UNCHANGED <<probe, stack, child, past>>
  PROVE  FileShape' /\ StackOK' /\ WhereOK' /\ Support'
<1>1. at \in 1 .. Len(Places[probe]) /\ Len(Places[probe]) \in Nat
  BY PlacesType DEF FileInv, FileShape
<1>2. \/ stack = << >> /\ pc' = "place" /\ at' = at + 1
      \/ stack # << >> /\ pc' = "readdir" /\ at' = at
  BY DEF Back
<1>3. FileShape'
  BY <1>1, <1>2 DEF FileInv, FileShape
<1>4. StackOK' /\ WhereOK'
  <2>1. CASE stack = << >> /\ pc' = "place"
    BY <2>1 DEF FileInv, StackOK, WhereOK
  <2>2. CASE stack # << >> /\ pc' = "readdir" /\ at' = at
    <3>1. Place' = Place
      BY <2>2 DEF Place
    <3>2. QED
      BY <2>2, <3>1 DEF FileInv, StackOK, WhereOK
  <2>3. QED
    BY <1>2, <2>1, <2>2
<1>5. Support'
  BY <1>2, <1>3, NothingToShow DEF FileShape
<1>6. QED
  BY <1>3, <1>4, <1>5

LEMMA OnShape ==
  ASSUME FileInv, pc \notin {"place", "done"},
         pc' \in {"follow", "file", "text", "exe", "exec", "held"},
         UNCHANGED <<probe, at, stack, child, past>>
  PROVE  FileShape' /\ StackOK'
<1>1. Place' = Place
  BY DEF Place
<1>2. QED
  BY <1>1 DEF FileInv, FileShape, StackOK

(* What the calls have shown, the last of them just now.                   *)
LEMMA NowShown ==
  ASSUME Sequence(past), UNCHANGED <<files, past>>,
         NEW t \in 1 .. Now, NEW l, NEW m, l = Moment[t], m = Moment[Now],
         Shows(l, m)'
  PROVE  Support'
<1>1. Moment' = Moment /\ Now' = Now
  BY Same
<1>2. Now \in 1 .. Now /\ t <= Now /\ t \in 1 .. Now'
  BY <1>1, Present
<1>3. QED
  BY <1>1, <1>2 DEF Support, Shows, UnitSaid, ImageWas

LEMMA LookCronStep ==
  ASSUME probe \in FileProbe, FileInv, pc = "lstat", LookCron,
         UNCHANGED <<probe, offline, stack, child, exec, files, past>>
  PROVE  FileInv'
<1>1. \/ Lstat(child) \in Link /\ pc' = "follow" /\ UNCHANGED at
      \/ pc' = "file" /\ UNCHANGED at
      \/ Back
  BY DEF LookCron, GoOn
<1>2. probe = "cron" /\ Silent /\ stack # << >> /\ at <= Len(Places[probe])
  BY DEF LookCron, FileInv, FileShape, WhereOK
<1>3. ChainOK'
  BY <1>2, NoneAdded DEF FileInv
<1>4. FileShape' /\ StackOK' /\ WhereOK' /\ Support'
  <2>1. CASE Back
    BY <1>2, <2>1, BackShape
  <2>2. CASE pc' \in {"follow", "file"} /\ UNCHANGED at /\ (pc' = "follow" => Lstat(child) \in Link)
    <3>1. FileShape' /\ StackOK'
      BY <2>2, OnShape
    <3>2. WhereOK'
      BY <1>2, <2>2 DEF WhereOK
    <3>3. Support'
      <4>0. PICK m : m = Moment[Now]
        OBVIOUS
      <4>1. Sequence(past) /\ Now \in 1 .. Now /\ LstatAt(m, child) = Lstat(child)
        BY <4>0, Present DEF FileInv, FileShape
      <4>2. Shows(m, m)'
        BY <1>2, <2>2, <4>1 DEF Shows, LstatAt
      <4>3. QED
        BY <4>1, <4>2, <4>0, NowShown
    <3>4. QED
      BY <3>1, <3>2, <3>3
  <2>3. QED
    BY <1>1, <2>1, <2>2
<1>5. QED
  BY <1>3, <1>4, TreeKept DEF FileInv

LEMMA LookUnitStep ==
  ASSUME probe \in FileProbe, FileInv, pc = "lstat", LookUnit,
         UNCHANGED <<probe, offline, stack, child, exec, files, past>>
  PROVE  FileInv'
<1> DEFINE writable == Lstat(child) \in bits
<1>1. /\ probe = "service" /\ ReportIf(writable, "SVC-W", child)
      /\ IF Lstat(child) \in Owned THEN pc' = "text" /\ UNCHANGED at ELSE Back
  BY DEF LookUnit, GoOn
<1>2. stack # << >> /\ at <= Len(Places[probe]) /\ Sequence(past)
  BY DEF FileInv, FileShape, WhereOK
<1>3. ChainOK'
  <2>1. writable \in BOOLEAN /\ (writable => Borne(Found("SVC-W", child)))
    BY <1>2, LookBears
  <2>2. "SVC-W" \in Kinds[probe]
    BY <1>1, KindsType
  <2> HIDE DEF writable
  <2>3. QED
    BY <1>1, <2>1, <2>2, AddedIf DEF FileInv
<1>4. FileShape' /\ StackOK' /\ WhereOK' /\ Support'
  <2>1. CASE Back
    BY <1>2, <2>1, BackShape
  <2>2. CASE pc' = "text" /\ UNCHANGED at /\ Lstat(child) \in Owned
    <3>1. FileShape' /\ StackOK'
      BY <2>2, OnShape
    <3>2. WhereOK'
      BY <1>1, <1>2, <2>2 DEF WhereOK
    <3>3. Support'
      <4>0. PICK m : m = Moment[Now]
        OBVIOUS
      <4>1. Now \in 1 .. Now /\ LstatAt(m, child) = Lstat(child)
        BY <1>2, <4>0, Present
      <4>2. Shows(m, m)'
        BY <1>1, <2>2, <4>1 DEF Shows, LstatAt
      <4>3. QED
        BY <1>2, <4>1, <4>2, <4>0, NowShown
    <3>4. QED
      BY <3>1, <3>2, <3>3
  <2>3. QED
    BY <1>1, <2>1, <2>2
<1>5. QED
  BY <1>3, <1>4, TreeKept DEF FileInv

LEMMA ReadStatusStep ==
  ASSUME probe \in FileProbe, FileInv, pc = "lstat", ReadStatus,
         UNCHANGED <<probe, offline, stack, child, exec, files, past>>
  PROVE  FileInv'
<1>1. /\ probe = "process" /\ Silent
      /\ IF Stat(child) \in Owned THEN pc' = "exe" /\ UNCHANGED at ELSE Back
  BY DEF ReadStatus, GoOn
<1>2. stack # << >> /\ at <= Len(Places[probe]) /\ Sequence(past)
  BY DEF FileInv, FileShape, WhereOK
<1>3. ChainOK'
  BY <1>1, NoneAdded DEF FileInv
<1>4. FileShape' /\ StackOK' /\ WhereOK' /\ Support'
  <2>1. CASE Back
    BY <1>2, <2>1, BackShape
  <2>2. CASE pc' = "exe" /\ UNCHANGED at /\ Stat(child) \in Owned
    <3>1. FileShape' /\ StackOK'
      BY <2>2, OnShape
    <3>2. WhereOK'
      BY <1>1, <1>2, <2>2 DEF WhereOK, FileInv, Silent
    <3>3. Support'
      <4>0. PICK m : m = Moment[Now]
        OBVIOUS
      <4>1. Now \in 1 .. Now /\ StatAt(m, child) = Stat(child)
        BY <1>2, <4>0, Present
      <4>2. Shows(m, m)'
        BY <1>1, <2>2, <4>1 DEF Shows, StatAt
      <4>3. QED
        BY <1>2, <4>1, <4>2, <4>0, NowShown
    <3>4. QED
      BY <3>1, <3>2, <3>3
  <2>3. QED
    BY <1>1, <2>1, <2>2
<1>5. QED
  BY <1>3, <1>4, TreeKept DEF FileInv

LEMMA LookOnceStep ==
  ASSUME probe \in FileProbe, FileInv, pc = "lstat", LookOnce,
         UNCHANGED <<probe, offline, stack, child, exec, files, past>>
  PROVE  FileInv'
<1> DEFINE i == Lstat(child)
<1>1. /\ probe \in {"service", "ld_preload", "writable_etc", "ssh_keys"}
      /\ Back /\ at <= Len(Places[probe]) /\ Sequence(past)
  BY DEF LookOnce, FileInv, FileShape
<1>2. \E c \in BOOLEAN, kind \in Kinds[probe] :
        ReportIf(c, kind, child) /\ (c => Borne(Found(kind, child)))
  <2>1. CASE probe = "service"
    <3>1. "SVC-SYSV" \in Kinds[probe]
      BY <2>1, KindsType
    <3> DEFINE c == i \in bits
    <3>2. c \in BOOLEAN /\ ReportIf(c, "SVC-SYSV", child)
      BY <2>1 DEF LookOnce
    <3>3. c => Borne(Found("SVC-SYSV", child))
      BY <1>1, LookBears
    <3> HIDE DEF c
    <3>4. QED
      BY <3>1, <3>2, <3>3
  <2>2. CASE probe = "ld_preload"
    <3>1. "LDP-W" \in Kinds[probe]
      BY <2>2, KindsType
    <3> DEFINE c == i \in bits \cup Link
    <3>2. c \in BOOLEAN /\ ReportIf(c, "LDP-W", child)
      BY <2>2 DEF LookOnce
    <3>3. c => Borne(Found("LDP-W", child))
      BY <1>1, LookBears
    <3> HIDE DEF c
    <3>4. QED
      BY <3>1, <3>2, <3>3
  <2>3. CASE probe = "writable_etc"
    <3>1. "WETC-D" \in Kinds[probe]
      BY <2>3, KindsType
    <3> DEFINE c == i \in bits \cup Link
    <3>2. c \in BOOLEAN /\ ReportIf(c, "WETC-D", child)
      BY <2>3 DEF LookOnce
    <3>3. c => Borne(Found("WETC-D", child))
      BY <1>1, LookBears
    <3> HIDE DEF c
    <3>4. QED
      BY <3>1, <3>2, <3>3
  <2>4. CASE probe = "ssh_keys" /\ i \in bits \cap (File \ Fifo)
    <3>1. "SSH-W" \in Kinds[probe]
      BY <2>4, KindsType
    <3>2. ReportIf(TRUE, "SSH-W", child)
      BY <2>4 DEF LookOnce
    <3>3. Borne(Found("SSH-W", child))
      BY <1>1, <2>4, LookBears
    <3>4. QED
      BY <3>1, <3>2, <3>3, Zenon
  <2>5. CASE probe = "ssh_keys" /\ i \notin bits \cap (File \ Fifo)
    <3>1. "SSH-R" \in Kinds[probe]
      BY <2>5, KindsType
    <3> DEFINE c == i \in Lax
    <3>0. IF i \in bits \cap (File \ Fifo) THEN ReportIf(TRUE, "SSH-W", child)
                                 ELSE ReportIf(c, "SSH-R", child)
      BY <2>5 DEF LookOnce
    <3>5. c \in BOOLEAN
      OBVIOUS
    <3>6. ReportIf(c, "SSH-R", child)
      BY <2>5, <3>0, Zenon
    <3>2. c \in BOOLEAN /\ ReportIf(c, "SSH-R", child)
      BY <3>5, <3>6
    <3>3. c => Borne(Found("SSH-R", child))
      BY <1>1, LookBears
    <3> HIDE DEF c
    <3>4. QED
      BY <3>1, <3>2, <3>3
  <2>6. QED
    BY <1>1, <2>1, <2>2, <2>3, <2>4, <2>5
<1>3. ChainOK'
  <2>1. probe # "process"
    BY <1>1
  <2>2. PICK c \in BOOLEAN, kind \in Kinds[probe] :
          ReportIf(c, kind, child) /\ (c => Borne(Found(kind, child)))
    BY <1>2
  <2>3. QED
    BY <2>1, <2>2, AddedIf DEF FileInv
<1>4. FileShape' /\ StackOK' /\ WhereOK' /\ Support'
  BY <1>1, BackShape
<1>5. QED
  BY <1>3, <1>4, TreeKept DEF FileInv

LEMMA LookStep ==
  ASSUME probe \in FileProbe, FileInv, Look PROVE FileInv'
  BY LookCronStep, LookUnitStep, LookOnceStep, ReadStatusStep DEF Look

LEMMA FollowLinkStep ==
  ASSUME probe \in FileProbe, FileInv, FollowLink PROVE FileInv'
<1>1. /\ pc = "follow" /\ Back
      /\ UNCHANGED <<probe, offline, stack, child, exec, files, past>>
  BY DEF FollowLink
<1>2. probe = "cron" /\ at <= Len(Places[probe]) /\ Sequence(past)
  BY <1>1 DEF FileInv, FileShape, WhereOK
<1> DEFINE writable == Stat(child) \in bits
<1>3. writable \in BOOLEAN /\ ReportIf(writable, "CRON-SYM", child)
  BY DEF FollowLink
<1>4. "CRON-SYM" \in Kinds[probe]
  BY <1>2, KindsType
<1>5. writable => Borne(Found("CRON-SYM", child))
  <2> SUFFICES ASSUME writable PROVE Borne(Found("CRON-SYM", child))
    OBVIOUS
  <2> DEFINE e == Found("CRON-SYM", child)
             m == Moment[Now]
  <2>1. PICK t \in 1 .. Now : LstatAt(Moment[t], child) \in Link
    BY <1>1 DEF FileInv, Support, Shows
  <2>2. m.bits = bits /\ StatAt(m, child) = Stat(child) /\ Now \in 1 .. Now /\ t <= Now
    BY <1>2, Present
  <2>3. e.kind = "CRON-SYM" /\ e.path = child
    BY DEF Found, Finding
  <2> HIDE DEF e, m
  <2>4. BorneOutBy(e, Moment[t], m, m)
    BY <2>1, <2>2, <2>3 DEF BorneOutBy
  <2>5. QED
    BY <1>2, <2>2, <2>4, BorneNow DEF e, m
<1> HIDE DEF writable
<1>6. ChainOK'
  BY <1>1, <1>2, <1>3, <1>4, <1>5, AddedIf DEF FileInv
<1>7. FileShape' /\ StackOK' /\ WhereOK' /\ Support'
  BY <1>1, <1>2, BackShape
<1>8. QED
  BY <1>1, <1>6, <1>7, TreeKept DEF FileInv

LEMMA InspectFileStep ==
  ASSUME probe \in FileProbe, FileInv, InspectFile PROVE FileInv'
<1>1. /\ pc = "file" /\ UNCHANGED <<probe, offline, stack, child, exec, files, past>>
      /\ \/ pc' = "text" /\ UNCHANGED at /\ probe = "cron"
         \/ Back
  BY DEF InspectFile, GoOn
<1>2. probe \in {"cron", "ld_preload"} /\ at <= Len(Places[probe]) /\ Sequence(past)
  BY <1>1 DEF FileInv, FileShape, WhereOK
<1> DEFINE i == Lstat(child)
<1>3. ChainOK'
  <2>1. CASE probe = "cron"
    <3> DEFINE writable == i \in bits
    <3>1. writable \in BOOLEAN /\ ReportIf(writable, "CRON", child)
      BY <2>1 DEF InspectFile, Relook
    <3>2. "CRON" \in Kinds[probe]
      BY <2>1, KindsType
    <3>3. writable => Borne(Found("CRON", child))
      BY <1>2, LookBears
    <3> HIDE DEF writable
    <3>4. QED
      BY <1>1, <2>1, <3>1, <3>2, <3>3, AddedIf DEF FileInv
  <2>2. CASE probe = "ld_preload"
    <3> DEFINE writable == i \in bits \cup Link
    <3>1. writable \in BOOLEAN /\ ReportIf(writable, "LDP-W", child)
      BY <2>2 DEF InspectFile, Relook
    <3>2. "LDP-W" \in Kinds[probe]
      BY <2>2, KindsType
    <3>3. writable => Borne(Found("LDP-W", child))
      BY <1>2, LookBears
    <3> HIDE DEF writable
    <3>4. QED
      BY <1>1, <2>2, <3>1, <3>2, <3>3, AddedIf DEF FileInv
  <2>3. QED
    BY <1>2, <2>1, <2>2
<1>4. FileShape' /\ StackOK' /\ WhereOK' /\ Support'
  <2>1. CASE Back
    BY <1>1, <1>2, <2>1, BackShape
  <2>2. CASE pc' = "text" /\ UNCHANGED at /\ probe = "cron"
    <3>1. FileShape' /\ StackOK'
      BY <1>1, <2>2, OnShape
    <3>2. WhereOK'
      BY <1>1, <2>2 DEF WhereOK
    <3>3. Support'
      BY <1>1, <2>2, <3>1, NothingToShow DEF FileShape
    <3>4. QED
      BY <3>1, <3>2, <3>3
  <2>3. QED
    BY <1>1, <2>1, <2>2
<1>5. QED
  BY <1>1, <1>3, <1>4, TreeKept DEF FileInv

LEMMA ReadLinesStep ==
  ASSUME probe \in FileProbe, FileInv, ReadLines PROVE FileInv'
<1>1. /\ Back /\ UNCHANGED <<probe, offline, stack, child, exec, files, past>>
      /\ probe # "service" /\ (pc = "text" \/ (AtPlace /\ ReadsOnly))
  BY DEF ReadLines
<1>2. probe \in {"cron", "ld_preload"} /\ at <= Len(Places[probe]) /\ Sequence(past)
  BY <1>1 DEF FileInv, FileShape, WhereOK, AtPlace, ReadsOnly
<1> DEFINE path == IF pc = "text" THEN child ELSE Place
           kind == IF probe = "cron" THEN "CRON-WILD" ELSE "LDP-ENV"
           n    == IF Reads(path) THEN Prone[Stat(path)] ELSE 0
<1>3. ReportLines(n, kind, path)
  BY DEF ReadLines
<1>4. kind \in Kinds[probe] /\ kind \in {"CRON-WILD", "LDP-ENV"}
  BY <1>2, KindsType
<1>5. Reads(path) => Stat(path) \in File
  BY DEF Reads
<1> HIDE DEF path, kind
<1>6. n \in Nat
  BY <1>5, FileProbesAssumption DEF FileProbesAssumption
<1>7. n > 0 => Borne(Found(kind, path))
  <2> SUFFICES ASSUME n > 0 PROVE Borne(Found(kind, path))
    OBVIOUS
  <2>1. Stat(path) \in File /\ Prone[Stat(path)] > 0
    BY <1>5
  <2>2. QED
    BY <1>2, <1>4, <2>1, LookBears
<1> HIDE DEF n
<1>8. ChainOK'
  BY <1>1, <1>2, <1>3, <1>4, <1>6, <1>7, AddedLines DEF FileInv
<1>9. FileShape' /\ StackOK' /\ WhereOK' /\ Support'
  BY <1>1, <1>2, BackShape
<1>10. QED
  BY <1>1, <1>8, <1>9, TreeKept DEF FileInv

(* A file without lines is nobody's unit.                                  *)
LEMMA NothingRuns == ~ RunsAsRoot(<< >>)
  BY DEF RunsAsRoot, Range

LEMMA ReadUnitStep ==
  ASSUME probe \in FileProbe, FileInv, ReadUnit PROVE FileInv'
<1>1. /\ pc = "text" /\ probe = "service" /\ Silent
      /\ UNCHANGED <<probe, offline, stack, child, files, past>>
  BY DEF ReadUnit
<1>2. at <= Len(Places[probe]) /\ Sequence(past)
  BY <1>1 DEF FileInv, FileShape
<1> DEFINE lines == IF Reads(child) THEN Unit[Stat(child)] ELSE << >>
<1>3. \/ /\ RunsAsRoot(lines) /\ exec' = ExecOf(lines)
         /\ pc' = "exec" /\ UNCHANGED at
      \/ Back
  BY DEF ReadUnit, GoOn
<1>4. ChainOK'
  BY <1>1, NoneAdded DEF FileInv
<1>5. FileShape' /\ StackOK' /\ WhereOK' /\ Support'
  <2>1. CASE Back
    BY <1>1, <1>2, <2>1, BackShape
  <2>2. CASE RunsAsRoot(lines) /\ exec' = ExecOf(lines) /\ pc' = "exec" /\ UNCHANGED at
    <3>1. FileShape' /\ StackOK'
      BY <1>1, <2>2, OnShape
    <3>2. stack # << >>
      BY <1>1, <1>2 DEF FileInv, WhereOK
    <3>3. WhereOK'
      BY <1>1, <2>2, <3>2 DEF WhereOK
    <3>4. Stat(child) \in File /\ lines = Unit[Stat(child)]
      BY <2>2, NothingRuns DEF Reads
    <3>5. Support'
      <4>1. PICK t \in 1 .. Now : LstatAt(Moment[t], child) \in Owned
        BY <1>1 DEF FileInv, Support, Shows
      <4>2. PICK l, m : l = Moment[t] /\ m = Moment[Now]
        OBVIOUS
      <4>3. StatAt(m, child) = Stat(child)
        BY <1>2, <4>2, Present
      <4>4. /\ StatAt(m, child) \in File /\ RunsAsRoot(Unit[StatAt(m, child)])
            /\ exec' = ExecOf(Unit[StatAt(m, child)])
        BY <2>2, <3>4, <4>3
      <4>5. UnitSaid(m)'
        BY <1>1, <4>4 DEF UnitSaid, StatAt
      <4>6. Shows(l, m)'
        BY <1>1, <2>2, <4>1, <4>2, <4>5 DEF Shows, LstatAt
      <4>7. QED
        BY <1>1, <1>2, <4>2, <4>6, NowShown
    <3>6. QED
      BY <3>1, <3>3, <3>5
  <2>3. QED
    BY <1>3, <2>1, <2>2
<1>6. QED
  BY <1>1, <1>4, <1>5, TreeKept DEF FileInv

LEMMA ReadExeStep ==
  ASSUME probe \in FileProbe, FileInv, ReadExe PROVE FileInv'
<1> DEFINE i    == Image[Stat(child)]
           now  == {q \in PathsOf(entries) : Lstat(q) = i}
           m    == Moment[Now]
<1>1. /\ pc = "exe" /\ UNCHANGED <<probe, offline, stack, child, files, past>>
      /\ \/ Back /\ Silent
         \/ /\ Reads(child) /\ pc' = "exec" /\ UNCHANGED at
            /\ \/ \E q \in now : exec' = q /\ ReportIf(SaysDeleted(q), "PROC-DEL", child)
               \/ /\ now = {}
                  /\ \E q \in LastPaths(i) : exec' = Ghost(q)
                  /\ ReportIf(TRUE, "PROC-DEL", child)
  BY DEF ReadExe, GoOn
<1>2. /\ probe = "process" /\ stack # << >> /\ at <= Len(Places[probe]) /\ Sequence(past)
      /\ total < ProcMaxScan /\ \E n \in AName : child = <<"proc", n>>
  BY <1>1 DEF FileInv, FileShape, WhereOK
<1>3. PICK t \in 1 .. Now : StatAt(Moment[t], child) \in Owned
  BY <1>1, <1>2 DEF FileInv, Support, Shows
<1>4. CASE Back /\ Silent
  <2>1. ChainOK'
    BY <1>1, <1>4, NoneAdded DEF FileInv
  <2>2. FileShape' /\ StackOK' /\ WhereOK' /\ Support'
    BY <1>1, <1>2, <1>4, BackShape
  <2>3. QED
    BY <1>1, <2>1, <2>2, TreeKept DEF FileInv
<1>5. CASE /\ Reads(child) /\ pc' = "exec" /\ UNCHANGED at
           /\ \/ \E q \in now : exec' = q /\ ReportIf(SaysDeleted(q), "PROC-DEL", child)
              \/ /\ now = {}
                 /\ \E q \in LastPaths(i) : exec' = Ghost(q)
                 /\ ReportIf(TRUE, "PROC-DEL", child)
  <2>1. FileShape' /\ StackOK'
    BY <1>1, <1>5, OnShape
  <2>2. /\ StatAt(m, child) = Stat(child) /\ Now \in 1 .. Now /\ t <= Now
        /\ PathsAt(m, i) = now
    BY <1>2, Present DEF PathsAt
  <2>3. Stat(child) \in File
    BY <1>5 DEF Reads
  <2>4. exec' \in ExeNames(past, m, i)
    BY <1>2, <1>5, <2>2, NameGiven
  <2>5. PICK gone \in BOOLEAN :
          /\ ReportIf(gone, "PROC-DEL", child)
          /\ gone => now = {} \/ \E q \in now : SaysDeleted(q)
    <3>1. CASE \E q \in now : ReportIf(SaysDeleted(q), "PROC-DEL", child)
      <4>1. PICK q \in now : ReportIf(SaysDeleted(q), "PROC-DEL", child)
        BY <3>1
      <4>2. SaysDeleted(q) \in BOOLEAN
        BY DEF SaysDeleted
      <4> HIDE DEF now
      <4>3. QED
        BY <4>1, <4>2, Zenon
    <3>2. CASE now = {} /\ ReportIf(TRUE, "PROC-DEL", child)
      BY <3>2, Zenon
    <3>3. QED
      BY <1>5, <3>1, <3>2
  <2>6. Support'
    <3>1. PICK l, n : l = Moment[t] /\ n = m
      OBVIOUS
    <3>2. StatAt(n, child) \in File /\ exec' \in ExeNames(past, n, Image[StatAt(n, child)])
      BY <2>2, <2>3, <2>4, <3>1
    <3>3. ImageWas(n)'
      BY <1>1, <3>2 DEF ImageWas, StatAt, LstatAt
    <3>4. Shows(l, n)'
      BY <1>1, <1>2, <1>3, <1>5, <3>1, <3>3 DEF Shows, StatAt
    <3>5. QED
      BY <1>1, <1>2, <3>1, <3>4, NowShown
  <2>7. gone => Borne(Found("PROC-DEL", child))
    <3> SUFFICES ASSUME gone PROVE Borne(Found("PROC-DEL", child))
      OBVIOUS
    <3> DEFINE e == Found("PROC-DEL", child)
    <3>1. e.kind = "PROC-DEL" /\ e.path = child
      BY DEF Found, Finding
    <3>2. PathsAt(m, Image[StatAt(m, child)]) = now
      BY <2>2
    <3> HIDE DEF e, m, now
    <3>3. BorneOutBy(e, Moment[t], m, m)
      BY <1>3, <2>5, <3>1, <3>2 DEF BorneOutBy
    <3>4. QED
      BY <1>2, <2>2, <3>3, BorneNow DEF e, m
  <2>8. "PROC-DEL" \in Kinds[probe]
    BY <1>2, KindsType
  <2>9. ChainOK'
    <3>1. probe = "process" => total <= ProcMaxScan
      BY <1>2, FileProbesAssumption DEF FileInv, ChainOK, FileProbesAssumption
    <3>2. QED
      BY <1>1, <2>5, <2>7, <2>8, <3>1, AddedIf DEF FileInv
  <2>10. total' \in {total, total + 1}
    <3>1. total' = total + Len(IF gone THEN <<Found("PROC-DEL", child)>> ELSE << >>)
      BY <2>5 DEF ReportIf, Report
    <3>2. Len(<<Found("PROC-DEL", child)>>) = 1 /\ Len(<< >>) = 0 /\ total \in Nat
      BY DEF FileInv, ChainOK
    <3>3. CASE gone
      BY <3>1, <3>2, <3>3
    <3>4. CASE ~gone
      BY <3>1, <3>2, <3>4
    <3>5. QED
      BY <3>3, <3>4
  <2>11. total' <= ProcMaxScan
    BY <1>2, <2>10, FileProbesAssumption DEF FileInv, ChainOK, FileProbesAssumption
  <2>12. WhereOK'
    BY <1>1, <1>2, <1>5, <2>11 DEF WhereOK
  <2>13. QED
    BY <1>1, <2>1, <2>6, <2>9, <2>12, TreeKept DEF FileInv
<1>6. QED
  BY <1>1, <1>4, <1>5

LEMMA StatExecStep ==
  ASSUME probe \in FileProbe, FileInv, StatExec PROVE FileInv'
<1>1. /\ pc = "exec" /\ Back
      /\ UNCHANGED <<probe, offline, stack, child, exec, files, past>>
  BY DEF StatExec
<1>2. /\ probe \in {"service", "process"} /\ at <= Len(Places[probe]) /\ Sequence(past)
      /\ probe = "process" => total <= ProcMaxScan /\ \E name \in AName : child = <<"proc", name>>
  BY <1>1 DEF FileInv, FileShape, WhereOK
<1>3. PICK writable \in BOOLEAN :
        /\ writable => offline \/ Stat(exec) \in bits
        /\ IF probe = "service" THEN ReportIf(writable, "SVC-E", child)
                                ELSE ReportIf(writable, "PROC-WW", exec)
  <2>1. PICK w \in IF offline THEN BOOLEAN ELSE {Stat(exec) \in bits} :
          IF probe = "service" THEN ReportIf(w, "SVC-E", child)
                               ELSE ReportIf(w, "PROC-WW", exec)
    BY Zenon DEF StatExec
  <2>2. w \in BOOLEAN /\ (w => offline \/ Stat(exec) \in bits)
    <3>1. CASE offline
      BY <3>1, Zenon
    <3>2. CASE ~offline
      <4>1. w = (Stat(exec) \in bits)
        BY <3>2
      <4>2. w \in BOOLEAN
        BY <4>1
      <4>3. w => Stat(exec) \in bits
        BY <4>1, Zenon
      <4>4. QED
        BY <4>2, <4>3, Zenon
    <3>3. QED
      BY <3>1, <3>2
  <2>3. QED
    BY <2>1, <2>2, Zenon
<1> DEFINE n == Moment[Now]
<1>4. n.bits = bits /\ StatAt(n, exec) = Stat(exec)
  BY <1>2, Present
<1>5. ChainOK'
  <2>1. CASE probe = "service"
    <3>1. PICK t, u \in 1 .. Now :
            t <= u /\ LstatAt(Moment[t], child) \in Owned /\ UnitSaid(Moment[u])
      BY <1>1, <2>1 DEF FileInv, Support, Shows
    <3> DEFINE e == Found("SVC-E", child)
    <3>2. e.kind = "SVC-E" /\ e.path = child
      BY DEF Found, Finding
    <3> HIDE DEF e, n
    <3>3. ASSUME writable PROVE BorneOutBy(e, Moment[t], Moment[u], n)
      BY <1>3, <1>4, <3>1, <3>2, <3>3 DEF BorneOutBy, UnitSaid
    <3>4. writable => Borne(Found("SVC-E", child))
      BY <1>2, <3>1, <3>3, BorneNow DEF e, n
    <3>5. "SVC-E" \in Kinds[probe]
      BY <2>1, KindsType
    <3>6. QED
      BY <1>1, <1>2, <1>3, <2>1, <3>4, <3>5, AddedIf DEF FileInv
  <2>2. CASE probe = "process"
    <3>1. PICK t, u \in 1 .. Now :
            t <= u /\ StatAt(Moment[t], child) \in Owned /\ ImageWas(Moment[u])
      BY <1>1, <2>2 DEF FileInv, Support, Shows
    <3>2. PICK name \in DOMAIN ClassOf : child = <<"proc", name>>
      BY <1>2, <2>2 DEF AName
    <3> DEFINE e == Found("PROC-WW", exec)
    <3>3. e.kind = "PROC-WW" /\ e.path = exec
      BY DEF Found, Finding
    <3> HIDE DEF e, n
    <3>4. ASSUME writable PROVE BorneOutBy(e, Moment[t], Moment[u], n)
      BY <1>3, <1>4, <3>1, <3>2, <3>3, <3>4 DEF BorneOutBy, ImageWas
    <3>5. writable => Borne(Found("PROC-WW", exec))
      BY <1>2, <3>1, <3>4, BorneNow DEF e, n
    <3>6. "PROC-WW" \in Kinds[probe]
      BY <2>2, KindsType
    <3>7. QED
      BY <1>1, <1>2, <1>3, <2>2, <3>5, <3>6, AddedIf DEF FileInv
  <2>3. QED
    BY <1>2, <2>1, <2>2
<1>6. FileShape' /\ StackOK' /\ WhereOK' /\ Support'
  BY <1>1, <1>2, BackShape
<1>7. QED
  BY <1>1, <1>5, <1>6, TreeKept DEF FileInv

(* There is a path to be opened only where there is one in hand.           *)
LEMMA OpensSomething ==
  ASSUME FileInv, Stat(Opening) \in Fifo
  PROVE  at <= Len(Places[probe]) /\ pc # "done"
<1>1. Opening # << >>
  <2> SUFFICES ASSUME Opening = << >> PROVE FALSE
    OBVIOUS
  <2>1. << >> \in Seq(AName) /\ SubSeq(<< >>, 1, 0) = << >>
    BY WholePath
  <2>2. Stat(<< >>) = Top
    BY <2>1, StatBy DEF Stat
  <2>3. QED
    BY <2>2, TreeAssumption, FileProbesAssumption DEF TreeAssumption, FileProbesAssumption
<1>2. pc \notin {"place", "done"} \/ AtPlace
  BY <1>1 DEF Opening, NoPath
<1>3. QED
  BY <1>2 DEF AtPlace, FileInv, FileShape

(* Whatever it waits for, it is where it was, and adds nothing.            *)
LEMMA BlockStep ==
  ASSUME probe \in FileProbe, FileInv, Block PROVE FileInv'
<1>1. /\ pc' = "held" /\ Stat(Opening) \in Fifo
      /\ UNCHANGED <<probe, total, chain, offline, at, stack, child, exec, files, past>>
  BY DEF Block
<1>2. at <= Len(Places[probe])
  BY <1>1, OpensSomething DEF FileInv, FileShape
<1>3. Place' = Place
  BY <1>1 DEF Place
<1>4. FileShape' /\ StackOK' /\ WhereOK'
  BY <1>1, <1>2, <1>3 DEF FileInv, FileShape, StackOK, WhereOK
<1>5. Support'
  BY <1>1, <1>4, NothingToShow DEF FileShape
<1>6. ChainOK'
  BY <1>1, NoneAdded DEF FileInv, Silent
<1>7. QED
  BY <1>1, <1>4, <1>5, <1>6, TreeKept DEF FileInv

LEMMA CloseProbeStep ==
  ASSUME probe \in FileProbe, FileInv, CloseProbe PROVE FileInv'
<1>1. /\ pc = "place" /\ pc' = "done" /\ chain' = Close
      /\ UNCHANGED <<probe, total, offline, at, stack, child, exec, files, past>>
  BY DEF CloseProbe, Finish
<1>2. stack = << >> /\ Sequence(past)
  BY <1>1 DEF FileInv, FileShape, WhereOK
<1>3. FileShape' /\ StackOK' /\ WhereOK'
  BY <1>1, <1>2 DEF FileInv, FileShape, StackOK, WhereOK
<1>4. Support'
  BY <1>1, <1>3, NothingToShow DEF FileShape
<1>5. Clean.kind = "CLEAN" /\ Borne(Clean)
  <2> DEFINE m == Moment[Now]
  <2>1. Clean.kind = "CLEAN" /\ Now \in 1 .. Now /\ Now <= Now
    BY <1>2, Present DEF Clean, Finding
  <2> HIDE DEF m
  <2>2. BorneOutBy(Clean, m, m, m)
    BY <2>1 DEF BorneOutBy
  <2>3. QED
    BY <1>2, <2>1, <2>2, BorneNow DEF m
<1>6. ChainOK'
  <2>1. CASE chain' = chain
    BY <1>1, <2>1, NoneAdded DEF FileInv, Silent
  <2>2. CASE chain' = Append(chain, Clean)
    <3>1. /\ Sequence(chain') /\ Len(chain) \in Nat /\ Len(chain') = Len(chain) + 1
          /\ \A k \in 1 .. Len(chain) : chain'[k] = chain[k]
          /\ chain'[Len(chain) + 1] = Clean
      BY <2>2, Appended DEF FileInv, ChainOK
    <3>2. ASSUME NEW e \in Elements(chain') PROVE e \in Elements(chain) \/ e = Clean
      <4>1. PICK k \in 1 .. Len(chain') : e = chain'[k]
        BY DEF Elements
      <4>2. k \in 1 .. Len(chain) \/ k = Len(chain) + 1
        BY <3>1
      <4>3. QED
        BY <3>1, <4>1, <4>2 DEF Elements
    <3>3. \A e \in Elements(chain') :
            e.kind \in Kinds[probe] \cup {"CLEAN"} /\ Borne(e)'
      BY <1>1, <1>5, <3>2, BorneStays DEF FileInv, ChainOK
    <3>4. total \in Nat /\ total <= Len(chain')
         /\ (probe = "process" => total <= ProcMaxScan + 1)
      BY <3>1 DEF FileInv, ChainOK
    <3>5. QED
      BY <1>1, <3>1, <3>3, <3>4 DEF ChainOK, Elements
  <2>3. QED
    BY <1>1, <2>1, <2>2 DEF Close
<1>7. QED
  BY <1>1, <1>3, <1>4, <1>6, TreeKept DEF FileInv

(***************************************************************************)
(* One step of a probe, and what others do between two of them.            *)
(***************************************************************************)
LEMMA FileStepKeeps ==
  ASSUME probe \in FileProbe, FileInv, FileStep PROVE FileInv'
  BY LookAtPlaceStep, OpenPlaceStep, ReadEntryStep, CloseDirStep, OpenHomeStep, LookStep,
     FollowLinkStep, InspectFileStep, ReadLinesStep, ReadUnitStep, ReadExeStep,
     StatExecStep, BlockStep, CloseProbeStep
  DEF FileStep

(* The names that occur are still those of the start.                      *)
LEMMA TreeStaysNamed ==
  ASSUME TreeNamed, NEW names \in SUBSET AName, Change(names)
  PROVE  TreeNamed'
<1>2. CASE Chmod
  BY <1>2 DEF Chmod, TreeNamed, Names
<1>3. ASSUME NEW t, NEW d, NEW n, DOMAIN t = Dir, \A x \in Dir : DOMAIN t[x] \subseteq AName
      PROVE  /\ DOMAIN Without(t, d, n) = Dir
             /\ \A x \in Dir : DOMAIN Without(t, d, n)[x] \subseteq AName
  BY <1>3 DEF Without
<1>4. ASSUME NEW t, NEW d, NEW n \in AName, NEW i,
             DOMAIN t = Dir, \A x \in Dir : DOMAIN t[x] \subseteq AName
      PROVE  /\ DOMAIN With(t, d, n, i) = Dir
             /\ \A x \in Dir : DOMAIN With(t, d, n, i)[x] \subseteq AName
  BY <1>4 DEF With
<1>5. DOMAIN entries = Dir /\ \A x \in Dir : DOMAIN entries[x] \subseteq AName
  BY DEF TreeNamed, Names
<1>6. CASE Unlink
  <2>1. PICK d, n : entries' = Without(entries, d, n)
    BY <1>6 DEF Unlink
  <2>2. QED
    BY <1>3, <1>5, <2>1 DEF TreeNamed, Names
<1>7. CASE Symlink(names)
  <2>1. PICK d \in Reached, n \in names, l \in Link : entries' = With(entries, d, n, l)
    BY <1>7 DEF Symlink
  <2>2. QED
    BY <1>4, <1>5, <2>1 DEF TreeNamed, Names
<1>8. CASE Rename(names)
  <2>1. PICK d \in Reached, e \in Reached, m \in names :
          \E n \in Names(d) : entries' = With(Without(entries, d, n), e, m, Entry(d, n))
    BY <1>8 DEF Rename
  <2>0. PICK n \in Names(d) : entries' = With(Without(entries, d, n), e, m, Entry(d, n))
    BY <2>1
  <2> DEFINE t == Without(entries, d, n)
  <2>2. DOMAIN t = Dir /\ \A x \in Dir : DOMAIN t[x] \subseteq AName
    BY <1>3, <1>5
  <2> HIDE DEF t
  <2>3. QED
    BY <1>4, <2>0, <2>2 DEF TreeNamed, Names, t
<1>9. QED
  BY <1>2, <1>6, <1>7, <1>8 DEF Change

LEMMA OthersKeep ==
  ASSUME probe \in FileProbe, FileInv, Others PROVE FileInv'
<1>1. /\ UNCHANGED <<probe, pc, total, chain, offline, at, stack, child, exec>>
      /\ past' = Append(past, [entries |-> entries, bits |-> bits])
      /\ Change(UNION {DOMAIN Trees[probe][d] : d \in Dir})
  BY DEF Others, inspecting
<1>2. /\ Sequence(past') /\ Now' = Now + 1
      /\ \A t \in 1 .. Now : t \in 1 .. Now' /\ Moment'[t] = Moment[t]
  BY <1>1, PastStays DEF FileInv, FileShape
<1>3. TreeNamed'
  <2>1. UNION {DOMAIN Trees[probe][d] : d \in Dir} \in SUBSET AName
    BY FileProbesAssumption DEF FileProbesAssumption, AName
  <2>2. QED
    BY <1>1, <2>1, TreeStaysNamed DEF FileInv
<1>4. FileShape' /\ StackOK' /\ WhereOK'
  <2>1. Place' = Place
    BY <1>1 DEF Place
  <2>2. QED
    BY <1>1, <1>2, <2>1 DEF FileInv, FileShape, StackOK, WhereOK
<1>5. Support'
  <2>1. PICK t, u \in 1 .. Now : t <= u /\ Shows(Moment[t], Moment[u])
    BY DEF FileInv, Support
  <2>2. PICK l, m : l = Moment[t] /\ m = Moment[u]
    OBVIOUS
  <2>3. Shows(l, m)'
    <3>1. \A i : ExeNames(past, m, i) \subseteq ExeNames(past', m, i)
      BY <1>1, NamesStay DEF FileInv, FileShape
    <3>2. QED
      BY <1>1, <2>1, <2>2, <3>1 DEF Shows, UnitSaid, ImageWas, StatAt, LstatAt
  <2>4. /\ t \in 1 .. Now' /\ u \in 1 .. Now'
        /\ l = Moment'[t] /\ m = Moment'[u]
    BY <1>2, <2>2
  <2>5. QED
    BY <2>1, <2>3, <2>4 DEF Support, Shows, UnitSaid, ImageWas
<1>6. \A e : Borne(e) => Borne(e)'
  <2> SUFFICES ASSUME NEW e, Borne(e) PROVE Borne(e)'
    OBVIOUS
  <2>1. PICK t, u, v \in 1 .. Now :
          t <= u /\ u <= v /\ BorneOutBy(e, Moment[t], Moment[u], Moment[v])
    BY DEF Borne
  <2>2. PICK l, m, n : l = Moment[t] /\ m = Moment[u] /\ n = Moment[v]
    OBVIOUS
  <2>3. BorneOutBy(e, l, m, n)'
    BY <1>1, <2>1, <2>2, BorneOutStays DEF FileInv, FileShape
  <2>4. /\ t \in 1 .. Now' /\ u \in 1 .. Now' /\ v \in 1 .. Now'
        /\ l = Moment'[t] /\ m = Moment'[u] /\ n = Moment'[v]
    BY <1>2, <2>2
  <2>5. BorneOutBy(e, Moment[t], Moment[u], Moment[v])'
    BY Zenon, <2>3, <2>4 DEF BorneOutBy, StatAt, LstatAt
  <2>6. QED
    BY <2>1, <2>4, <2>5 DEF Borne
<1>7. ChainOK'
  BY <1>1, <1>6 DEF FileInv, ChainOK, Elements
<1>8. QED
  BY <1>3, <1>4, <1>5, <1>7 DEF FileInv

LEMMA StutterKeeps ==
  ASSUME FileInv, UNCHANGED vars PROVE FileInv'
<1>1. /\ UNCHANGED <<probe, pc, total, chain, offline, at, stack, child, exec, past>>
      /\ UNCHANGED files
  BY DEF vars, looking
<1>2. Place' = Place /\ Moment' = Moment /\ Now' = Now
  BY <1>1, Same DEF Place
<1>3. FileShape' /\ StackOK' /\ WhereOK'
  BY <1>1, <1>2 DEF FileInv, FileShape, StackOK, WhereOK
<1>4. Support'
  BY <1>1, <1>2 DEF FileInv, Support, Shows, UnitSaid, ImageWas, StatAt, LstatAt
<1>5. ChainOK'
  BY <1>1, NoneAdded DEF FileInv, Silent
<1>6. QED
  BY <1>1, <1>3, <1>4, <1>5, TreeKept DEF FileInv

(* No probe is of both sorts.                                              *)
LEMMA Sorts == FileProbe \cap FactProbe = {}
  BY DEF FileProbe, FactProbe, Places

(* A probe starts with nothing found.                                      *)
LEMMA FileInitially == ASSUME FileInit PROVE FileInv
<1>1. /\ probe \in FileProbe /\ pc = "place" /\ total = 0 /\ chain = << >> /\ at = 1
      /\ stack = << >> /\ child = << >> /\ past = << >> /\ entries = Trees[probe]
  BY DEF FileInit, TreeInit, NoPath
<1>2. \A S : << >> \in Seq(S) /\ Len(<< >>) = 0
  OBVIOUS
<1>3. Sequence(<< >>) /\ Elements(<< >>) = {}
  BY <1>2 DEF Sequence, Elements
<1>4. FileShape
  BY <1>1, <1>2, <1>3, PlacesType DEF FileShape
<1>5. TreeNamed
  BY <1>1, FileProbesAssumption DEF TreeNamed, Names, AName, FileProbesAssumption
<1>6. StackOK /\ WhereOK
  BY <1>1, <1>2 DEF StackOK, WhereOK
<1>7. Support
  <2>1. Now \in 1 .. Now /\ Now <= Now
    BY <1>1, <1>3, Present
  <2>2. QED
    BY <1>1, <2>1 DEF Support, Shows
<1>8. ChainOK
  BY <1>1, <1>2, <1>3, FileProbesAssumption DEF ChainOK, FileProbesAssumption
<1>9. QED
  BY <1>4, <1>5, <1>6, <1>7, <1>8 DEF FileInv

(***************************************************************************)
(* The invariant holds.                                                    *)
(***************************************************************************)
THEOREM Invariant == Spec => []IInv
<1>1. Init => IInv
  BY FileInitially, Sorts DEF Init, IInv, FileInit, FactInit
<1>2. IInv /\ [Next]_vars => IInv'
  <2> SUFFICES ASSUME IInv, [Next]_vars PROVE IInv'
    OBVIOUS
  <2>1. probe' = probe
    BY Zenon DEF Next, Step, OthersStep, FileStep, FactStep, Others, inspecting, vars,
       LookAtPlace, OpenPlace, ReadEntry, CloseDir, OpenHome, Look, FollowLink, InspectFile,
       ReadLines, ReadUnit, ReadExe, StatExec, Block, CloseProbe, Finish, GiveUp, Open, Wait,
       Examine, Conclude
  <2>2. CASE probe \in FileProbe
    <3>1. probe \notin FactProbe
      BY <2>2, Sorts
    <3>2. FileInv'
      BY <2>2, <3>1, FileStepKeeps, OthersKeep, StutterKeeps DEF IInv, Next, Step, OthersStep
    <3>3. QED
      BY <2>1, <3>2 DEF IInv
  <2>3. CASE probe \notin FileProbe
    BY <2>1, <2>3 DEF IInv
  <2>4. QED
    BY <2>2, <2>3
<1>3. QED
  BY <1>1, <1>2, PTL DEF Spec

(***************************************************************************)
(* For any file system and however often others change it meanwhile,       *)
(* whatever cron, service, ld_preload, writable_etc, ssh_keys and process  *)
(* report was so, piece by piece, in the order of the calls.               *)
(***************************************************************************)
THEOREM NothingMadeUp == Spec => []BorneOut
<1>1. IInv => BorneOut
  <2> SUFFICES ASSUME IInv, probe \in FileProbe PROVE FindingsBorneOut
    BY DEF BorneOut
  <2>1. Len(Moment) = Now /\ ChainOK
    BY Present DEF IInv, FileInv, FileShape
  <2>2. \A k \in 1 .. Len(chain) : Borne(chain[k])
    BY <2>1 DEF ChainOK, Elements
  <2>3. QED
    BY <2>1, <2>2 DEF FindingsBorneOut, Borne
<1>2. QED
  BY <1>1, Invariant, PTL

-----------------------------------------------------------------------------

(***************************************************************************)
(* Exactness.  The findings there are, kind by kind and path by path, are  *)
(* counted against what is due.                                            *)
(***************************************************************************)

(* The findings of a kind about a path in a chain.                         *)
Matches(s, kind, p) == {k \in 1 .. Len(s) : s[k].kind = kind /\ s[k].path = p}

LEMMA MatchesFinite ==
  ASSUME NEW s, Sequence(s), NEW kind, NEW p
  PROVE  IsFiniteSet(Matches(s, kind, p)) /\ Cardinality(Matches(s, kind, p)) \in Nat
<1>1. Len(s) \in Nat
  BY DEF Sequence
<1>2. IsFiniteSet(1 .. Len(s))
  BY <1>1, FS_Interval
<1>3. Matches(s, kind, p) \in SUBSET (1 .. Len(s))
  BY DEF Matches
<1>4. IsFiniteSet(Matches(s, kind, p))
  BY <1>2, <1>3, FS_Subset
<1>5. QED
  BY <1>4, FS_CardinalityType

(* A chain that is added to, element by element.                           *)
LEMMA JoinedAt ==
  ASSUME NEW s, NEW t, Sequence(s), Sequence(t)
  PROVE  /\ Len(s) \in Nat /\ Len(t) \in Nat /\ Len(s \o t) = Len(s) + Len(t)
         /\ \A k \in 1 .. Len(s) : (s \o t)[k] = s[k]
         /\ \A k \in Len(s) + 1 .. Len(s) + Len(t) :
              k - Len(s) \in 1 .. Len(t) /\ (s \o t)[k] = t[k - Len(s)]
<1>1. PICK S, T : s \in Seq(S) /\ t \in Seq(T)
  BY DEF Sequence
<1>2. s \in Seq(S \cup T) /\ t \in Seq(S \cup T)
  BY <1>1
<1>3. Len(s) \in Nat /\ Len(t) \in Nat
  BY <1>2
<1>4. /\ Len(s \o t) = Len(s) + Len(t)
      /\ \A k \in 1 .. Len(s) + Len(t) :
           (s \o t)[k] = IF k <= Len(s) THEN s[k] ELSE t[k - Len(s)]
  BY <1>2, ConcatProperties
<1> DEFINE m == Len(s)
           n == Len(t)
<1>5. m \in Nat /\ n \in Nat
  BY <1>3
<1> HIDE DEF m, n
<1>6. \A k \in 1 .. m : k \in 1 .. m + n /\ k <= m
  BY <1>5
<1>7. \A k \in m + 1 .. m + n : k \in 1 .. m + n /\ ~ (k <= m) /\ k - m \in 1 .. n
  BY <1>5
<1>8. QED
  BY <1>3, <1>4, <1>6, <1>7 DEF m, n

(* Of what is added nothing is meant, or everything.                       *)
LEMMA MatchesNone ==
  ASSUME NEW s, NEW t, Sequence(s), Sequence(t), NEW kind, NEW p,
         \A e \in Elements(t) : ~ (e.kind = kind /\ e.path = p)
  PROVE  Matches(s \o t, kind, p) = Matches(s, kind, p)
<1>1. /\ Len(s) \in Nat /\ Len(t) \in Nat /\ Len(s \o t) = Len(s) + Len(t)
      /\ \A k \in 1 .. Len(s) : (s \o t)[k] = s[k]
      /\ \A k \in Len(s) + 1 .. Len(s) + Len(t) :
           k - Len(s) \in 1 .. Len(t) /\ (s \o t)[k] = t[k - Len(s)]
  BY JoinedAt
<1> DEFINE r == s \o t
<1>2. ASSUME NEW k \in 1 .. Len(r) PROVE k \in 1 .. Len(s) \/ k \in Len(s) + 1 .. Len(s) + Len(t)
  BY <1>1
<1>3. ASSUME NEW k \in Len(s) + 1 .. Len(s) + Len(t) PROVE ~ (r[k].kind = kind /\ r[k].path = p)
  <2>1. r[k] \in Elements(t)
    BY <1>1 DEF Elements
  <2>2. QED
    BY <2>1
<1>4. \A k \in 1 .. Len(s) : k \in 1 .. Len(r) /\ r[k] = s[k]
  BY <1>1
<1> HIDE DEF r
<1>5. Matches(r, kind, p) = Matches(s, kind, p)
  BY <1>2, <1>3, <1>4 DEF Matches
<1>6. QED
  BY <1>5 DEF r

LEMMA MatchesAll ==
  ASSUME NEW s, NEW t, Sequence(s), Sequence(t), NEW kind, NEW p,
         \A e \in Elements(t) : e.kind = kind /\ e.path = p
  PROVE  Cardinality(Matches(s \o t, kind, p)) = Cardinality(Matches(s, kind, p)) + Len(t)
<1>1. /\ Len(s) \in Nat /\ Len(t) \in Nat /\ Len(s \o t) = Len(s) + Len(t)
      /\ \A k \in 1 .. Len(s) : (s \o t)[k] = s[k]
      /\ \A k \in Len(s) + 1 .. Len(s) + Len(t) :
           k - Len(s) \in 1 .. Len(t) /\ (s \o t)[k] = t[k - Len(s)]
  BY JoinedAt
<1> DEFINE r == s \o t
           m == Len(s)
           n == Len(t)
           more == m + 1 .. m + n
<1>2. ASSUME NEW k \in 1 .. Len(r) PROVE k \in 1 .. m \/ k \in more
  BY <1>1
<1>3. ASSUME NEW k \in more PROVE k \in 1 .. Len(r) /\ r[k].kind = kind /\ r[k].path = p
  <2>1. r[k] \in Elements(t)
    BY <1>1 DEF Elements
  <2>2. QED
    BY <1>1, <2>1
<1>4. \A k \in 1 .. m : k \in 1 .. Len(r) /\ r[k] = s[k]
  BY <1>1
<1>5. m \in Nat /\ n \in Nat
  BY <1>1
<1> HIDE DEF r
<1>6. Matches(r, kind, p) = Matches(s, kind, p) \cup more
  BY <1>2, <1>3, <1>4 DEF Matches
<1>7. Matches(s, kind, p) \cap more = {}
  <2>1. Matches(s, kind, p) \subseteq 1 .. m
    BY DEF Matches
  <2> HIDE DEF m, n
  <2>2. \A k \in 1 .. m : k \notin more
    BY <1>5
  <2>3. QED
    BY <2>1, <2>2
<1> HIDE DEF m, n
<1>8. IsFiniteSet(more) /\ Cardinality(more) = n
  <2>1. m + 1 \in Int /\ m + n \in Int
    BY <1>5
  <2>2. \A a, b \in Int : IsFiniteSet(a .. b) /\ Cardinality(a .. b) = IF a > b THEN 0 ELSE b - a + 1
    BY FS_Interval
  <2>3. QED
    BY <1>5, <2>1, <2>2
<1>9. /\ IsFiniteSet(Matches(s, kind, p)) /\ Cardinality(Matches(s, kind, p)) \in Nat
  BY MatchesFinite
<1> HIDE DEF more
<1>10. Cardinality(Matches(r, kind, p))
         = Cardinality(Matches(s, kind, p)) + n - Cardinality({})
  BY <1>6, <1>7, <1>8, <1>9, FS_Union
<1>11. QED
  BY <1>5, <1>9, <1>10, FS_EmptySet DEF r, n

LEMMA OfMatches == \A kind, p : Of(kind, p) = Matches(chain, kind, p)
  BY DEF Of, Matches

(* What a report adds to the findings of a kind about a path.              *)
LEMMA CountIf ==
  ASSUME Sequence(chain), NEW c \in BOOLEAN, NEW K, NEW path, ReportIf(c, K, path),
         NEW kind, NEW p
  PROVE  /\ Cardinality(Of(kind, p)) \in Nat
         /\ Cardinality(Of(kind, p)') = Cardinality(Of(kind, p)) + Once(c /\ K = kind /\ path = p)
<1> DEFINE t == IF c THEN <<Found(K, path)>> ELSE << >>
<1>1. /\ Sequence(t) /\ Len(t) \in Nat /\ Len(t) <= 1
      /\ \A e \in Elements(t) : c /\ e = Found(K, path)
  BY AtMostOne
<1>2. chain' = chain \o t
  BY DEF ReportIf, Report
<1>3. Len(t) = Once(c)
  BY DEF Once
<1>4. Found(K, path).kind = K /\ Found(K, path).path = path
  BY DEF Found, Finding
<1> HIDE DEF t
<1>5. Of(kind, p)' = Matches(chain \o t, kind, p) /\ Of(kind, p) = Matches(chain, kind, p)
  BY <1>2 DEF Of, Matches
<1>6. Cardinality(Matches(chain, kind, p)) \in Nat
  BY MatchesFinite
<1>7. CASE K = kind /\ path = p
  <2>1. \A e \in Elements(t) : e.kind = kind /\ e.path = p
    BY <1>1, <1>4, <1>7
  <2>2. Cardinality(Matches(chain \o t, kind, p)) = Cardinality(Matches(chain, kind, p)) + Len(t)
    BY <1>1, <2>1, MatchesAll
  <2>3. QED
    BY <1>3, <1>5, <1>6, <1>7, <2>2 DEF Once
<1>8. CASE ~ (K = kind /\ path = p)
  <2>1. \A e \in Elements(t) : ~ (e.kind = kind /\ e.path = p)
    BY <1>1, <1>4, <1>8
  <2>2. Matches(chain \o t, kind, p) = Matches(chain, kind, p)
    BY <1>1, <2>1, MatchesNone
  <2>3. QED
    BY <1>5, <1>6, <1>8, <2>2 DEF Once
<1>9. QED
  BY <1>7, <1>8

LEMMA CountLines ==
  ASSUME Sequence(chain), NEW n \in Nat, NEW K, NEW path, ReportLines(n, K, path),
         NEW kind, NEW p
  PROVE  /\ Cardinality(Of(kind, p)) \in Nat
         /\ Cardinality(Of(kind, p)')
              = Cardinality(Of(kind, p)) + (IF K = kind /\ path = p THEN n ELSE 0)
<1> DEFINE t == [k \in 1 .. n |-> Found(K, path)]
<1>1. Sequence(t) /\ Len(t) = n /\ \A e \in Elements(t) : n > 0 /\ e = Found(K, path)
  BY Repeated
<1>2. chain' = chain \o t
  BY DEF ReportLines, Report
<1>3. Found(K, path).kind = K /\ Found(K, path).path = path
  BY DEF Found, Finding
<1> HIDE DEF t
<1>4. Of(kind, p)' = Matches(chain \o t, kind, p) /\ Of(kind, p) = Matches(chain, kind, p)
  BY <1>2 DEF Of, Matches
<1>5. Cardinality(Matches(chain, kind, p)) \in Nat
  BY MatchesFinite
<1>6. CASE K = kind /\ path = p
  <2>1. \A e \in Elements(t) : e.kind = kind /\ e.path = p
    BY <1>1, <1>3, <1>6
  <2>2. Cardinality(Matches(chain \o t, kind, p)) = Cardinality(Matches(chain, kind, p)) + Len(t)
    BY <1>1, <2>1, MatchesAll
  <2>3. QED
    BY <1>1, <1>4, <1>5, <1>6, <2>2
<1>7. CASE ~ (K = kind /\ path = p)
  <2>1. \A e \in Elements(t) : ~ (e.kind = kind /\ e.path = p)
    BY <1>1, <1>3, <1>7
  <2>2. Matches(chain \o t, kind, p) = Matches(chain, kind, p)
    BY <1>1, <2>1, MatchesNone
  <2>3. QED
    BY <1>4, <1>5, <1>7, <2>2
<1>8. QED
  BY <1>6, <1>7

LEMMA CountSilent ==
  ASSUME Sequence(chain), Silent, NEW kind, NEW p
  PROVE  /\ Cardinality(Of(kind, p)) \in Nat
         /\ Cardinality(Of(kind, p)') = Cardinality(Of(kind, p))
<1>1. Of(kind, p)' = Matches(chain, kind, p) /\ Of(kind, p) = Matches(chain, kind, p)
  BY DEF Of, Matches, Silent
<1>2. QED
  BY <1>1, MatchesFinite

(* The last step adds a link that is not a finding.                        *)
LEMMA CountFinish ==
  ASSUME Sequence(chain), chain' = Close, NEW kind, kind # "CLEAN", NEW p
  PROVE  Of(kind, p)' = Of(kind, p)
<1>1. CASE chain' = chain
  BY <1>1 DEF Of
<1>2. CASE chain' = Append(chain, Clean)
  <2>1. /\ Len(chain) \in Nat /\ Len(chain') = Len(chain) + 1
        /\ \A k \in 1 .. Len(chain) : chain'[k] = chain[k]
        /\ chain'[Len(chain) + 1] = Clean
    BY <1>2, Appended
  <2>2. Clean.kind # kind
    BY DEF Clean, Finding
  <2>3. /\ \A k \in 1 .. Len(chain') : k \in 1 .. Len(chain) \/ k = Len(chain) + 1
        /\ \A k \in 1 .. Len(chain) : k \in 1 .. Len(chain')
    BY <2>1
  <2>4. QED
    BY <2>1, <2>2, <2>3 DEF Of
<1>3. QED
  BY <1>1, <1>2 DEF Close

-----------------------------------------------------------------------------

(* Where a path is under inspection.                                       *)
Inspecting == {"lstat", "follow", "file", "text", "exe", "exec"}

(* The names a probe goes into; the homes apart, that is Wanted.           *)
Sought(n) ==
  CASE probe = "service" /\ at <= 3 -> ClassOf[n] = "service"
    [] probe = "service" /\ at > 3  -> ClassOf[n] # "hidden"
    [] probe = "ssh_keys" -> ClassOf[n] = "key"
    [] probe = "process"  -> ClassOf[n] = "pid"
    [] OTHER -> TRUE

(* The path under inspection is the place or one of its entries, or, in    *)
(* what is taken for a home, neither.                                      *)
ChildOK ==
  \/ /\ stack = << >> /\ child = Place /\ pc \in {"file", "text"}
  \/ /\ Len(stack) = 1 /\ Places[probe][at] # "home"
     /\ \E n \in AName : child = <<Places[probe][at], n>> /\ n \in stack[1].seen /\ Sought(n)
  \/ Len(stack) = 2 /\ pc = "lstat" /\ (Len(child) > 2 \/ child[1] = ".ssh")

CourseOK ==
  /\ pc \in Inspecting => ChildOK
  /\ pc = "opendir" => LooksFirst
  /\ pc = "join" \/ Len(stack) = 2 => probe = "ssh_keys" /\ at = 2
  /\ Len(stack) = 2 => Len(stack[2].path) > 1 \/ stack[2].path = <<".ssh">>
  /\ pc = "file" /\ stack # << >> => probe = "cron"
  /\ pc = "file" /\ probe = "ld_preload" => at = 1
  /\ pc = "text" /\ probe = "cron" => stack = << >> /\ at = 1
  /\ pc \in {"text", "exec"} /\ probe = "service" => at <= 3
  /\ stack # << >> => ~ReadsOnly
  /\ bits \subseteq File \cup Dir

(* A path that others leave alone, at a place of the probe.  Of a probe    *)
(* that is held nothing is claimed: it reports nothing more.               *)
Subject(p) ==
  /\ p \in Seq(PathName) /\ (Len(p) = 1 \/ Len(p) = 2)
  /\ p[1] \in Elements(Places[probe])
  /\ Lstat(p) \in Inode /\ Steady(p)

Concerns(kind, p) ==
  /\ kind \in Kinds[probe] \ {"PROC-WW"}
  /\ Subject(p) /\ Untouched(kind, p) /\ ~Full /\ pc # "held"

(* Its directory is open, and it is there to be read.                      *)
Inside(p) ==
  /\ pc \notin {"place", "done"} /\ at <= Len(Places[probe])
  /\ Len(p) = 2 /\ Places[probe][at] = p[1]
  => /\ stack # << >> => stack[1].dir = Stat(Place) /\ p[2] \in stack[1].listed
     /\ pc \in {"file", "text"} => stack # << >>

(* No path has the image of the process.                                   *)
Gone(p) == \A q \in PathsOf(entries) : Lstat(q) # Image[Stat(p)]

(* What the calls made so far about it have shown is still so.             *)
Known(p) ==
  child = p =>
    /\ pc = "follow" => Lstat(p) \in Link
    /\ pc = "file" => Lstat(p) \notin Dir /\ (stack # << >> => Lstat(p) \notin Link)
    /\ probe = "service" /\ pc \in {"text", "exec"} => Lstat(p) \in Owned
    /\ probe = "service" /\ pc = "exec" =>
         /\ Lstat(p) \notin Unreadable /\ RunsAsRoot(Unit[Lstat(p)])
         /\ exec = ExecOf(Unit[Lstat(p)]) /\ exec # NoPath
    /\ pc = "exe" => Stat(p) \in Owned

(* Whether, of a path under inspection, what is due of a kind has been     *)
(* reported.                                                               *)
Told(kind, where) ==
  \/ where \notin Inspecting
  \/ kind = "CRON" /\ where = "text"
  \/ kind = "SVC-W" /\ where \in {"text", "exec"}
  \/ kind = "PROC-DEL" /\ where = "exec"

(* Whether it has of a path at the present place, ...                      *)
Judged(kind, p) ==
  IF child = p /\ pc \in Inspecting THEN Told(kind, pc)
  ELSE IF Len(p) = 1 THEN stack # << >> \/ pc = "opendir"
  ELSE stack # << >> /\ p[2] \in stack[1].seen

(* ... and at the others.                                                  *)
ComeBy(kind, k, p) == pc = "done" \/ k < at \/ (k = at /\ Judged(kind, p))

Tally(kind, p) ==
  [k \in 1 .. Len(Places[probe]) |->
     IF Places[probe][k] = p[1] /\ ComeBy(kind, k, p) THEN Due(kind, k, p) ELSE 0]

(* As much has been reported of a path as was due so far.                  *)
Counted(kind, p) == Cardinality(Of(kind, p)) = Total(Tally(kind, p))

Fits(kind, p) == Inside(p) /\ Known(p) /\ Counted(kind, p)

(***************************************************************************)
(* What the exactness of the reports adds to the inductive invariant.      *)
(***************************************************************************)
ExactInv == CourseOK /\ \A kind, p : Concerns(kind, p) => Fits(kind, p)

-----------------------------------------------------------------------------

(* What is due of each kind.                                               *)
Class(p) == IF Len(p) = 1 THEN "other" ELSE ClassOf[Last(p)]
Text(p) == IF Len(p) = 1 /\ Stat(p) \in File \ Unreadable THEN Prone[Stat(p)] ELSE 0
Lines(p) == IF Lstat(p) \in Owned \ Unreadable THEN Unit[Lstat(p)] ELSE << >>

LEMMA DueCron ==
  ASSUME NEW k, NEW p
  PROVE  /\ Due("CRON", k, p) = Once(Lstat(p) \in File \cap bits)
         /\ Due("CRON-SYM", k, p) = Once(Len(p) # 1 /\ Lstat(p) \in Link /\ Follow(Lstat(p)) \in bits)
         /\ Due("CRON-WILD", k, p) = IF k = 1 THEN Text(p) ELSE 0
  BY DEF Due, Text

LEMMA DueService ==
  ASSUME NEW k, NEW p
  PROVE  /\ Due("SVC-W", k, p) = Once(k <= 3 /\ Class(p) = "service" /\ Lstat(p) \in bits)
         /\ Due("SVC-SYSV", k, p) = Once(k > 3 /\ Len(p) # 1 /\ Class(p) # "hidden" /\ Lstat(p) \in bits)
         /\ Due("SVC-E", k, p) =
              Once(/\ k <= 3 /\ Class(p) = "service" /\ RunsAsRoot(Lines(p))
                   /\ ExecOf(Lines(p)) # NoPath /\ Stat(ExecOf(Lines(p))) \in bits)
<1>1. /\ Due("SVC-W", k, p) = Once(k <= 3 /\ Class(p) = "service" /\ Lstat(p) \in bits)
      /\ Due("SVC-SYSV", k, p) = Once(k > 3 /\ Len(p) # 1 /\ Class(p) # "hidden" /\ Lstat(p) \in bits)
  BY DEF Due, Class
<1>2. Due("SVC-E", k, p) =
              Once(/\ k <= 3 /\ Class(p) = "service" /\ RunsAsRoot(Lines(p))
                   /\ ExecOf(Lines(p)) # NoPath /\ Stat(ExecOf(Lines(p))) \in bits)
  BY DEF Due, Class, Lines
<1>3. QED
  BY <1>1, <1>2

LEMMA DueOther ==
  ASSUME NEW k, NEW p
  PROVE  /\ Due("LDP-W", k, p)
              = Once(k < 3 /\ (Len(p) = 1 => k = 1 /\ Lstat(p) \notin Dir) /\ Lstat(p) \in bits \cup Link)
         /\ Due("LDP-ENV", k, p) = IF k = 3 THEN Text(p) ELSE 0
         /\ Due("WETC", k, p) = Once(Len(p) = 1 /\ Lstat(p) \in bits)
         /\ Due("WETC-D", k, p) = Once(Len(p) # 1 /\ Lstat(p) \in bits \cup Link)
         /\ Due("SSH-W", k, p) = Once(k = 1 /\ Class(p) = "key" /\ Lstat(p) \in bits \cap (File \ Fifo))
         /\ Due("SSH-R", k, p) = Once(k = 1 /\ Class(p) = "key" /\ Lstat(p) \in Lax \ bits)
         /\ Due("PROC-DEL", k, p) = Once(Class(p) = "pid" /\ Stat(p) \in Owned \ Unreadable /\ Gone(p))
<1>1. /\ Due("LDP-W", k, p)
              = Once(k < 3 /\ (Len(p) = 1 => k = 1 /\ Lstat(p) \notin Dir) /\ Lstat(p) \in bits \cup Link)
      /\ Due("LDP-ENV", k, p) = IF k = 3 THEN Text(p) ELSE 0
  BY DEF Due, Class, Text
<1>2. /\ Due("WETC", k, p) = Once(Len(p) = 1 /\ Lstat(p) \in bits)
      /\ Due("WETC-D", k, p) = Once(Len(p) # 1 /\ Lstat(p) \in bits \cup Link)
  BY DEF Due, Class
<1>3. /\ Due("SSH-W", k, p) = Once(k = 1 /\ Class(p) = "key" /\ Lstat(p) \in bits \cap (File \ Fifo))
      /\ Due("SSH-R", k, p) = Once(k = 1 /\ Class(p) = "key" /\ Lstat(p) \in Lax \ bits)
  BY DEF Due, Class
<1>4. Due("PROC-DEL", k, p) = Once(Class(p) = "pid" /\ Stat(p) \in Owned \ Unreadable /\ Gone(p))
  BY DEF Due, Class, Gone
<1>5. QED
  BY <1>1, <1>2, <1>3, <1>4

(* The kinds a path can be judged for.                                     *)
LEMMA KindOf ==
  ASSUME probe \in FileProbe, NEW kind \in Kinds[probe] \ {"PROC-WW"}
  PROVE  /\ probe = "cron" => kind \in {"CRON", "CRON-SYM", "CRON-WILD"}
         /\ probe = "service" => kind \in {"SVC-W", "SVC-E", "SVC-SYSV"}
         /\ probe = "ld_preload" => kind \in {"LDP-W", "LDP-ENV"}
         /\ probe = "writable_etc" => kind \in {"WETC", "WETC-D"}
         /\ probe = "ssh_keys" => kind \in {"SSH-W", "SSH-R"}
         /\ probe = "process" => kind = "PROC-DEL"
         /\ probe \in {"cron", "service", "ld_preload", "writable_etc", "ssh_keys", "process"}
<1>1. probe \in {"cron", "service", "ld_preload", "writable_etc", "ssh_keys", "process"}
  BY DEF FileProbe, Places
<1>2. QED
  BY <1>1, KindsType

LEMMA DueType ==
  ASSUME probe \in FileProbe, NEW kind \in Kinds[probe] \ {"PROC-WW"}, NEW k, NEW p
  PROVE  Due(kind, k, p) \in Nat
<1>1. Text(p) \in Nat
  BY FileProbesAssumption DEF Text, FileProbesAssumption
<1>2. \A c : Once(c) \in Nat
  BY DEF Once
<1>3. kind \in {"CRON", "CRON-SYM", "CRON-WILD", "SVC-W", "SVC-E", "SVC-SYSV", "LDP-W", "LDP-ENV",
                "WETC", "WETC-D", "SSH-W", "SSH-R", "PROC-DEL"}
  BY KindOf
<1>4. CASE kind \in {"CRON", "CRON-SYM", "CRON-WILD"}
  BY <1>1, <1>2, <1>4, DueCron
<1>5. CASE kind \in {"SVC-W", "SVC-E", "SVC-SYSV"}
  <2>1. /\ Due("SVC-W", k, p) \in Nat /\ Due("SVC-SYSV", k, p) \in Nat
        /\ Due("SVC-E", k, p) \in Nat
    BY DueService DEF Once
  <2>2. QED
    BY <1>5, <2>1
<1>6. CASE kind \in {"LDP-W", "LDP-ENV", "WETC", "WETC-D", "SSH-W", "SSH-R", "PROC-DEL"}
  BY <1>1, <1>2, <1>6, DueOther
<1>7. QED
  BY <1>3, <1>4, <1>5, <1>6

(* It depends on nothing but the file system.                              *)
LEMMA DueSame ==
  ASSUME UNCHANGED files, NEW kind, NEW k, NEW p
  PROVE  Due(kind, k, p)' = Due(kind, k, p)
<1>1. entries' = entries /\ bits' = bits
  BY DEF files
<1>2. QED
  BY <1>1 DEF Due, Lstat, Stat

-----------------------------------------------------------------------------

(* stat goes on where lstat stops.                                         *)
LEMMA StatFollows == ASSUME NEW S, NEW p \in Seq(S) PROVE Stat(p) = Follow(Lstat(p))
<1> DEFINE n == Len(p)
<1>1. n \in Nat /\ SubSeq(p, 1, n) = p
  BY WholePath
<1>2. CASE n = 0
  <2>1. SubSeq(p, 1, 0) = p
    BY <1>1, <1>2
  <2>2. StatIn(entries, SubSeq(p, 1, 0)) = Top /\ LstatIn(entries, SubSeq(p, 1, 0)) = Top
    BY StatBy, LstatBy
  <2>3. Stat(p) = Top /\ Lstat(p) = Top
    BY <2>1, <2>2 DEF Stat, Lstat
  <2>4. Top \notin Link
    BY TreeAssumption DEF TreeAssumption
  <2>5. QED
    BY <2>3, <2>4 DEF Follow
<1>3. CASE n # 0
  <2>1. n \in 1 .. Len(p)
    BY <1>1, <1>3
  <2> HIDE DEF n
  <2>2. StatIn(entries, SubSeq(p, 1, n)) = Follow(EntryIn(entries, StatIn(entries, SubSeq(p, 1, n - 1)), p[n]))
    BY <2>1, StatBy
  <2>3. LstatIn(entries, SubSeq(p, 1, n)) = EntryIn(entries, StatIn(entries, SubSeq(p, 1, n - 1)), p[n])
    BY <2>1, LstatBy
  <2>4. QED
    BY <1>1, <2>2, <2>3 DEF Stat, Lstat
<1>4. QED
  BY <1>2, <1>3

(* Only what others do to the tree itself leaves no entry on record.       *)
LEMMA NoneMoved ==
  ASSUME NEW STATE names, Change(names), moved' = {}
  PROVE  entries' = entries
<1>1. CASE Chmod
  BY <1>1, Zenon DEF Chmod
<1>2. CASE Unlink
  <2>1. PICK d, n : moved' = moved \cup {<<d, n>>}
    BY <1>2, Zenon DEF Unlink
  <2>2. QED
    BY <2>1
<1>3. CASE Symlink(names)
  <2>1. PICK d, n : moved' = moved \cup {<<d, n>>}
    BY <1>3, Zenon DEF Symlink
  <2>2. QED
    BY <2>1
<1>4. CASE Rename(names)
  <2>1. PICK d, n, e, m : moved' = moved \cup {<<d, n>>, <<e, m>>}
    BY <1>4, Zenon DEF Rename
  <2>2. QED
    BY <2>1
<1>5. QED
  BY <1>1, <1>2, <1>3, <1>4, Zenon DEF Change

(***************************************************************************)
(* What is due of a path that others have left alone is what was due.      *)
(***************************************************************************)
LEMMA DueKept ==
  ASSUME probe \in FileProbe, NEW kind \in Kinds[probe] \ {"PROC-WW"}, NEW S, NEW p \in Seq(S),
         Leaves, moved' = {} => entries' = entries, offline' = offline, Untouched(kind, p)'
  PROVE  /\ Untouched(kind, p)
         /\ Lstat(p)' = Lstat(p) /\ Stat(p)' = Stat(p)
         /\ \A k : Due(kind, k, p)' = Due(kind, k, p)
<1>1. Steady(p)' /\ Stat(p)' \notin modified'
  BY DEF Untouched
<1>2. /\ Steady(p) /\ Lstat(p)' = Lstat(p) /\ Stat(p)' = Stat(p)
      /\ Lstat(p) \in bits' <=> Lstat(p) \in bits
  <2>1. /\ Steady(p) /\ Lstat(p)' = Lstat(p) /\ Stat(p)' = Stat(p)
        /\ (Lstat(p) \in bits)' <=> Lstat(p) \in bits
    BY <1>1, SteadyBack
  <2>2. QED
    BY <2>1
<1>3. /\ Stat(p) \notin modified /\ modified \subseteq modified' /\ moved \subseteq moved'
      /\ Stat(p) \in bits' <=> Stat(p) \in bits
  BY <1>1, <1>2 DEF Leaves
<1>4. Follow(Lstat(p)) = Stat(p)
  BY StatFollows
<1> DEFINE e == ExecOf(Unit[Lstat(p)])
<1>5. ASSUME kind = "SVC-E", Lstat(p) \in File
      PROVE  /\ Steady(e) /\ Stat(e) \notin modified /\ Stat(e)' = Stat(e)
             /\ Stat(e) \in bits' <=> Stat(e) \in bits
  <2>1. Steady(e)' /\ Stat(e)' \notin modified'
    BY <1>2, <1>5 DEF Untouched
  <2>2. e \in Seq(STRING)
    BY <1>5, FileProbesAssumption DEF FileProbesAssumption
  <2>3. PICK q : q = e
    OBVIOUS
  <2>4. e' = e
    BY <1>2
  <2>5. Steady(q)' /\ Stat(q)' \notin modified' /\ q \in Seq(STRING)
    BY <2>1, <2>2, <2>3, <2>4 DEF Steady, Stat, Lstat
  <2>6. Steady(q) /\ Stat(q)' = Stat(q)
    BY <2>5, SteadyBack
  <2>7. Stat(q) \notin modified /\ (Stat(q) \in bits' <=> Stat(q) \in bits)
    BY <2>5, <2>6 DEF Leaves
  <2>8. QED
    BY <2>3, <2>4, <2>6, <2>7 DEF Stat
<1>6. Untouched(kind, p)
  <2>1. kind = "SVC-E" => ~offline
    BY DEF Untouched
  <2>2. ASSUME kind = "PROC-DEL"
        PROVE  /\ moved = {}
               /\ Stat(p) \in Owned =>
                    \A q \in PathsOf(entries) : SaysDeleted(q) => Lstat(q) # Image[Stat(p)]
    <3>1. moved = {} /\ entries' = entries
      BY <1>3, <2>2 DEF Untouched
    <3>2. \A q : Lstat(q)' = Lstat(q) /\ Stat(q)' = Stat(q)
      BY <3>1 DEF Lstat, Stat
    <3>3. QED
      BY <2>2, <3>1, <3>2 DEF Untouched, Lstat, Stat
  <2>3. QED
    BY <1>2, <1>3, <1>5, <2>1, <2>2 DEF Untouched
<1>7. ASSUME NEW k PROVE Due(kind, k, p)' = Due(kind, k, p)
  <2>1. Text(p)' = Text(p) /\ Lines(p)' = Lines(p)
    BY <1>2 DEF Text, Lines
  <2>2. kind = "PROC-DEL" => Gone(p)' = Gone(p)
    <3>1. kind = "PROC-DEL" => entries' = entries
      BY DEF Untouched
    <3>2. QED
      BY <3>1 DEF Gone, Stat, Lstat
  <2>3. CASE kind \in {"CRON", "CRON-SYM", "CRON-WILD"}
    <3>1. /\ Due("CRON", k, p)' = Once(Lstat(p)' \in File \cap bits')
          /\ Due("CRON-SYM", k, p)' = Once(Len(p) # 1 /\ Lstat(p)' \in Link /\ Follow(Lstat(p)') \in bits')
          /\ Due("CRON-WILD", k, p)' = IF k = 1 THEN Text(p)' ELSE 0
      BY DEF Due, Text
    <3>2. QED
      BY <1>2, <1>3, <1>4, <2>1, <2>3, <3>1, DueCron DEF Once
  <2>4. CASE kind \in {"SVC-W", "SVC-SYSV"}
    <3>1. /\ Due("SVC-W", k, p)' = Once(k <= 3 /\ Class(p) = "service" /\ Lstat(p)' \in bits')
          /\ Due("SVC-SYSV", k, p)' = Once(k > 3 /\ Len(p) # 1 /\ Class(p) # "hidden" /\ Lstat(p)' \in bits')
      BY DEF Due, Class
    <3>2. QED
      BY <1>2, <2>4, <3>1, DueService DEF Once
  <2>5. CASE kind = "SVC-E"
    <3>1. Due("SVC-E", k, p)' =
              Once(/\ k <= 3 /\ Class(p) = "service" /\ RunsAsRoot(Lines(p))'
                   /\ ExecOf(Lines(p))' # NoPath /\ Stat(ExecOf(Lines(p)))' \in bits')
      BY DEF Due, Class, Lines
    <3>2. ExecOf(Lines(p))' = ExecOf(Lines(p)) /\ RunsAsRoot(Lines(p))' = RunsAsRoot(Lines(p))
      BY <2>1
    <3>3. CASE Lstat(p) \in Owned \ Unreadable
      <4>1. Lstat(p) \in File /\ Lines(p) = Unit[Lstat(p)]
        BY <3>3, FileProbesAssumption DEF FileProbesAssumption, Lines
      <4>2. Stat(ExecOf(Lines(p)))' \in bits' <=> Stat(ExecOf(Lines(p))) \in bits
        BY <1>2, <1>5, <2>1, <2>5, <4>1 DEF Stat
      <4>3. QED
        BY <2>5, <3>1, <3>2, <4>2, DueService DEF Once
    <3>4. CASE Lstat(p) \notin Owned \ Unreadable
      <4>1. Lines(p) = << >>
        BY <3>4 DEF Lines
      <4>2. ~ RunsAsRoot(Lines(p))
        BY <4>1, NothingRuns
      <4>3. Due("SVC-E", k, p)' = 0 /\ Due("SVC-E", k, p) = 0
        BY <3>1, <3>2, <4>2, DueService DEF Once
      <4>4. QED
        BY <2>5, <4>3
    <3>5. QED
      BY <3>3, <3>4
  <2>6. CASE kind \in {"LDP-W", "LDP-ENV", "WETC", "WETC-D"}
    <3>1. /\ Due("LDP-W", k, p)'
              = Once(k < 3 /\ (Len(p) = 1 => k = 1 /\ Lstat(p)' \notin Dir) /\ Lstat(p)' \in bits' \cup Link)
          /\ Due("LDP-ENV", k, p)' = IF k = 3 THEN Text(p)' ELSE 0
          /\ Due("WETC", k, p)' = Once(Len(p) = 1 /\ Lstat(p)' \in bits')
          /\ Due("WETC-D", k, p)' = Once(Len(p) # 1 /\ Lstat(p)' \in bits' \cup Link)
      BY DEF Due, Text
    <3>2. Lstat(p) \in bits' \cup Link <=> Lstat(p) \in bits \cup Link
      BY <1>2
    <3>3. QED
      BY <1>2, <2>1, <2>6, <3>1, <3>2, DueOther DEF Once
  <2>7. CASE kind \in {"SSH-W", "SSH-R"}
    <3>1. /\ Due("SSH-W", k, p)' = Once(k = 1 /\ Class(p) = "key" /\ Lstat(p)' \in bits' \cap (File \ Fifo))
          /\ Due("SSH-R", k, p)' = Once(k = 1 /\ Class(p) = "key" /\ Lstat(p)' \in Lax \ bits')
      BY DEF Due, Class
    <3>2. QED
      BY <1>2, <2>7, <3>1, DueOther DEF Once
  <2>8. CASE kind = "PROC-DEL"
    <3>1. Due("PROC-DEL", k, p)' = Once(Class(p) = "pid" /\ Stat(p)' \in Owned \ Unreadable /\ Gone(p)')
      BY DEF Due, Class, Gone
    <3>2. QED
      BY <1>2, <2>2, <2>8, <3>1, DueOther
  <2>9. QED
    BY <2>3, <2>4, <2>5, <2>6, <2>7, <2>8, KindOf
<1>8. QED
  BY <1>2, <1>6, <1>7

-----------------------------------------------------------------------------

(* The numbers of places.                                                  *)
LEMMA PlaceNames ==
  ASSUME probe \in FileProbe
  PROVE  /\ Len(Places[probe]) \in Nat \ {0}
         /\ ".ssh" \notin Elements(Places[probe])
         /\ probe = "ld_preload" => Len(Places[probe]) = 3
         /\ probe = "process" => Len(Places[probe]) = 1
         /\ probe = "ssh_keys" => /\ Len(Places[probe]) = 2
                                  /\ Places[probe][1] = "root/.ssh" /\ Places[probe][2] = "home"
<1>1. probe \in {"cron", "service", "ld_preload", "writable_etc", "ssh_keys", "process"}
  BY DEF FileProbe, Places
<1>2. CASE probe = "cron"
  <2>1. Len(Places["cron"]) = 10 /\ \A k \in 1 .. 10 : Places["cron"][k] # ".ssh"
    BY DEF Places
  <2>2. QED
    BY <1>2, <2>1 DEF Elements
<1>3. CASE probe = "service"
  <2>1. Len(Places["service"]) = 5 /\ \A k \in 1 .. 5 : Places["service"][k] # ".ssh"
    BY DEF Places
  <2>2. QED
    BY <1>3, <2>1 DEF Elements
<1>4. CASE probe = "ld_preload"
  <2>1. Len(Places["ld_preload"]) = 3 /\ \A k \in 1 .. 3 : Places["ld_preload"][k] # ".ssh"
    BY DEF Places
  <2>2. QED
    BY <1>4, <2>1 DEF Elements
<1>5. CASE probe = "writable_etc"
  <2>1. Len(Places["writable_etc"]) = 6 /\ \A k \in 1 .. 6 : Places["writable_etc"][k] # ".ssh"
    BY DEF Places
  <2>2. QED
    BY <1>5, <2>1 DEF Elements
<1>6. CASE probe = "ssh_keys"
  <2>1. /\ Len(Places["ssh_keys"]) = 2
        /\ Places["ssh_keys"][1] = "root/.ssh" /\ Places["ssh_keys"][2] = "home"
    BY DEF Places
  <2>2. \A k \in 1 .. 2 : Places["ssh_keys"][k] # ".ssh"
    BY <2>1
  <2>3. QED
    BY <1>6, <2>1, <2>2 DEF Elements
<1>7. CASE probe = "process"
  <2>1. Len(Places["process"]) = 1 /\ Places["process"][1] = "proc"
    BY DEF Places
  <2>2. QED
    BY <1>7, <2>1 DEF Elements
<1>8. QED
  BY <1>1, <1>2, <1>3, <1>4, <1>5, <1>6, <1>7

(* Paths of one and of two names.                                          *)
LEMMA OneName ==
  ASSUME NEW S, NEW p \in Seq(S), Len(p) = 1
  PROVE  p = <<p[1]>> /\ p[1] \in S
<1>1. p[1] \in S
  OBVIOUS
<1> DEFINE q == <<p[1]>>
<1>2. q \in Seq(S) /\ Len(q) = 1 /\ q[1] = p[1]
  BY <1>1
<1> HIDE DEF q
<1>3. \A i \in 1 .. Len(p) : p[i] = q[i]
  BY <1>2
<1>4. p = q
  BY <1>2, <1>3, SeqEqual
<1>5. QED
  BY <1>1, <1>4 DEF q

LEMMA TwoNames ==
  ASSUME NEW S, NEW p \in Seq(S), Len(p) = 2
  PROVE  p = <<p[1], p[2]>> /\ p[1] \in S /\ p[2] \in S /\ Last(p) = p[2] /\ SubSeq(p, 1, 1) = <<p[1]>>
<1>1. p[1] \in S /\ p[2] \in S
  OBVIOUS
<1> DEFINE q == <<p[1], p[2]>>
<1>2. q \in Seq(S) /\ Len(q) = 2 /\ q[1] = p[1] /\ q[2] = p[2]
  BY <1>1
<1> HIDE DEF q
<1>3. \A i \in 1 .. Len(p) : p[i] = q[i]
  BY <1>2
<1>4. p = q
  BY <1>2, <1>3, SeqEqual
<1>5. 1 \in 0 .. Len(p)
  OBVIOUS
<1> DEFINE r == SubSeq(p, 1, 1)
<1>6. r \in Seq(S) /\ Len(r) = 1 /\ r[1] = p[1]
  BY <1>5, Beginning
<1> HIDE DEF r
<1>7. r = <<p[1]>>
  BY <1>6, OneName
<1>8. QED
  BY <1>1, <1>4, <1>7 DEF q, r, Last

(* The place that a path is at, and the way to it.                         *)
LEMMA SubjectWay ==
  ASSUME NEW p, Subject(p), Places[probe][at] = p[1]
  PROVE  /\ Len(p) = 1 => p = Place
         /\ Len(p) = 2 => /\ p = <<Places[probe][at], p[2]>>
                          /\ Lstat(Place) \in Dir /\ Stat(Place) = Lstat(Place)
                          /\ Opens(Place) /\ p[2] \in Names(Stat(Place))
<1>1. p \in Seq(PathName)
  BY DEF Subject
<1>2. CASE Len(p) = 1
  BY <1>1, <1>2, OneName DEF Place
<1>3. CASE Len(p) = 2
  <2>1. p = <<p[1], p[2]>> /\ SubSeq(p, 1, 1) = <<p[1]>>
    BY <1>1, <1>3, TwoNames
  <2>2. 1 \in 0 .. Len(p) - 1 /\ 1 + 1 = 2
    BY <1>3
  <2>3. /\ Lstat(SubSeq(p, 1, 1)) \in Dir
        /\ Stat(SubSeq(p, 1, 1)) = Lstat(SubSeq(p, 1, 1))
        /\ Opens(SubSeq(p, 1, 1))
        /\ Lstat(p) \in Inode => p[1 + 1] \in Names(Stat(SubSeq(p, 1, 1)))
    BY <1>1, <2>2, SteadyWay DEF Subject
  <2>4. SubSeq(p, 1, 1) = Place
    BY <2>1 DEF Place
  <2>5. p[2] \in Names(Stat(Place))
    BY <2>2, <2>3, <2>4 DEF Subject
  <2>6. p = <<Places[probe][at], p[2]>>
    BY <2>1, Zenon
  <2>7. Lstat(Place) \in Dir /\ Stat(Place) = Lstat(Place) /\ Opens(Place)
    BY <2>3, <2>4
  <2>8. Len(p) # 1
    BY <1>3
  <2>9. QED
    BY <2>5, <2>6, <2>7, <2>8, Zenon
<1>4. Len(p) = 1 \/ Len(p) = 2
  BY DEF Subject
<1>5. QED
  BY <1>2, <1>3, <1>4

LEMMA TallyType ==
  ASSUME probe \in FileProbe, NEW kind \in Kinds[probe] \ {"PROC-WW"}, NEW p
  PROVE  /\ Len(Tally(kind, p)) = Len(Places[probe])
         /\ \A k \in 1 .. Len(Places[probe]) : Tally(kind, p)[k] \in Nat
<1> DEFINE n == Len(Places[probe])
<1>1. n \in Nat
  BY PlaceNames
<1>2. \A k : Due(kind, k, p) \in Nat
  BY DueType
<1>3. Tally(kind, p) \in [1 .. n -> Nat]
  BY <1>2 DEF Tally
<1> HIDE DEF n
<1>4. Len(Tally(kind, p)) = n
  BY <1>1, <1>3, LenOfFunction
<1>5. QED
  BY <1>3, <1>4 DEF n

(***************************************************************************)
(* A step at a place settles there what it reports.                        *)
(***************************************************************************)
LEMMA Settled ==
  ASSUME probe \in FileProbe, FileShape, NEW kind \in Kinds[probe] \ {"PROC-WW"}, NEW p,
         Counted(kind, p), at <= Len(Places[probe]), pc # "done", pc' # "done",
         UNCHANGED <<probe, files>>,
         at' = at \/ (at' = at + 1 /\ pc' = "place" /\ stack' = << >>),
         NEW d \in Nat, Cardinality(Of(kind, p)') = Cardinality(Of(kind, p)) + d,
         IF Places[probe][at] = p[1]
         THEN (IF Judged(kind, p) THEN Due(kind, at, p) ELSE 0) + d
                = IF at' = at + 1 \/ Judged(kind, p)' THEN Due(kind, at, p) ELSE 0
         ELSE d = 0
  PROVE  Counted(kind, p)'
<1> DEFINE n == Len(Places[probe])
           w == Tally(kind, p)
           z == Tally(kind, p)'
<1>1. n \in Nat /\ at \in 1 .. n
  BY PlaceNames DEF FileShape
<1>2. /\ Len(w) = n /\ \A k \in 1 .. n : w[k] \in Nat
  BY TallyType
<1>3. Len(z) = n
  <2>1. (probe \in FileProbe /\ kind \in Kinds[probe] \ {"PROC-WW"}
           => Len(Tally(kind, p)) = Len(Places[probe]))'
    BY TallyType, PTL
  <2>2. QED
    BY <2>1
<1>4. \A k : Due(kind, k, p)' = Due(kind, k, p)
  BY DueSame
<1>5. \A k \in 1 .. n : z[k] = IF Places[probe][k] = p[1] /\ ComeBy(kind, k, p)' THEN Due(kind, k, p) ELSE 0
  BY <1>4 DEF Tally
<1>6. \A k \in 1 .. n : w[k] = IF Places[probe][k] = p[1] /\ ComeBy(kind, k, p) THEN Due(kind, k, p) ELSE 0
  BY DEF Tally
<1>7. at' = at + 1 => ~ Judged(kind, p)'
  BY <1>1 DEF Judged, Inspecting
<1>8. \A k \in 1 .. n : k # at => (ComeBy(kind, k, p)' <=> ComeBy(kind, k, p))
  BY <1>1, <1>7 DEF ComeBy
<1>9. Counted(kind, p)' <=> Cardinality(Of(kind, p)') = Total(z)
  BY DEF Counted
<1> HIDE DEF n, w, z
<1>10. \A k \in 1 .. n : k # at => z[k] = w[k]
  BY <1>5, <1>6, <1>8
<1>11. z[at] = w[at] + d
  <2>1. PICK k \in 1 .. n : k = at
    BY <1>1
  <2>2. ComeBy(kind, k, p) <=> Judged(kind, p)
    BY <1>1, <2>1 DEF ComeBy
  <2>3. ComeBy(kind, k, p)' <=> (at' = at + 1 \/ Judged(kind, p)')
    BY <1>1, <2>1 DEF ComeBy
  <2>4. Due(kind, k, p) = Due(kind, at, p)
    BY <2>1
  <2>5. Due(kind, k, p) \in Nat
    BY DueType
  <2>6. CASE Places[probe][k] # p[1]
    <3>1. w[k] = 0 /\ z[k] = 0
      BY <1>5, <1>6, <2>6
    <3>2. Places[probe][at] # p[1]
      BY <2>1, <2>6
    <3>3. d = 0
      BY <3>2
    <3>4. QED
      BY <2>1, <3>1, <3>3
  <2>7. CASE Places[probe][k] = p[1]
    <3>1. w[k] = IF Judged(kind, p) THEN Due(kind, k, p) ELSE 0
      BY <1>6, <2>2, <2>7
    <3>2. z[k] = IF at' = at + 1 \/ Judged(kind, p)' THEN Due(kind, k, p) ELSE 0
      BY <1>5, <2>3, <2>7
    <3>3. (IF Judged(kind, p) THEN Due(kind, k, p) ELSE 0) + d
            = IF at' = at + 1 \/ Judged(kind, p)' THEN Due(kind, k, p) ELSE 0
      BY <2>1, <2>4, <2>7
    <3>4. QED
      BY <2>1, <3>1, <3>2, <3>3
  <2>8. QED
    BY <2>6, <2>7
<1>12. Total(w) \in Nat /\ Total(z) = Total(w) + d
  BY <1>1, <1>2, <1>3, <1>10, <1>11, TotalChanged
<1>13. Cardinality(Of(kind, p)) = Total(w)
  BY DEF Counted, w
<1>14. QED
  BY <1>9, <1>12, <1>13

(* Of the path under inspection, the place where it is.                    *)
LEMMA ChildPlace ==
  ASSUME probe \in FileProbe, FileInv, CourseOK, pc \in Inspecting, Subject(child)
  PROVE  /\ Places[probe][at] = child[1]
         /\ Len(child) = 1 <=> stack = << >>
         /\ stack # << >> => /\ Len(stack) = 1 /\ child[2] \in stack[1].seen /\ Sought(child[2])
                            /\ child[1] # "home"
<1>1. ChildOK
  BY DEF CourseOK
<1>2. CASE stack = << >> /\ child = Place
  <2>1. Len(child) = 1 /\ child[1] = Places[probe][at]
    BY <1>2 DEF Place
  <2>2. QED
    BY <1>2, <2>1
<1>3. CASE /\ Len(stack) = 1 /\ Places[probe][at] # "home"
           /\ \E n \in AName : child = <<Places[probe][at], n>> /\ n \in stack[1].seen /\ Sought(n)
  <2>1. PICK n \in AName : child = <<Places[probe][at], n>> /\ n \in stack[1].seen /\ Sought(n)
    BY <1>3
  <2>2. Len(child) = 2 /\ child[1] = Places[probe][at] /\ child[2] = n
    BY <2>1
  <2>3. stack # << >>
    <3>1. Len(<< >>) # 1
      OBVIOUS
    <3>2. QED
      BY <1>3, <3>1, Zenon
  <2>4. child[1] # "home"
    BY <1>3, <2>2
  <2>5. child[2] \in stack[1].seen /\ Sought(child[2])
    BY <2>1, <2>2
  <2>6. QED
    BY <1>3, <2>2, <2>3, <2>4, <2>5
<1>4. ~ (Len(child) > 2 \/ child[1] = ".ssh")
  <2>1. child[1] # ".ssh"
    BY PlaceNames DEF Subject
  <2>2. Len(child) = 1 \/ Len(child) = 2
    BY DEF Subject
  <2> DEFINE n == Len(child)
  <2>3. n = 1 \/ n = 2
    BY <2>2
  <2> HIDE DEF n
  <2>4. ~ (n > 2)
    BY <2>3
  <2>5. QED
    BY <2>1, <2>4 DEF n
<1>5. QED
  BY <1>1, <1>2, <1>3, <1>4 DEF ChildOK

(***************************************************************************)
(* A call about the path under inspection settles that path, of the kinds  *)
(* it is then told of, and no other.                                       *)
(***************************************************************************)
LEMMA Inspected ==
  ASSUME probe \in FileProbe, FileInv, CourseOK, pc \in Inspecting,
         NEW kind, NEW p, Concerns(kind, p), Fits(kind, p),
         UNCHANGED <<probe, stack, child, files>>,
         Back \/ (pc' \in Inspecting /\ at' = at),
         NEW d \in Nat, Cardinality(Of(kind, p)') = Cardinality(Of(kind, p)) + d,
         child # p => d = 0,
         child = p => (IF Told(kind, pc) THEN Due(kind, at, p) ELSE 0) + d
                        = IF Told(kind, pc') THEN Due(kind, at, p) ELSE 0
  PROVE  Counted(kind, p)' /\ Inside(p)'
<1>1. /\ kind \in Kinds[probe] \ {"PROC-WW"} /\ Subject(p)
      /\ Inside(p) /\ Counted(kind, p)
  BY DEF Concerns, Fits
<1>2. /\ FileShape /\ at \in 1 .. Len(Places[probe]) /\ at <= Len(Places[probe])
      /\ Len(Places[probe]) \in Nat
  BY PlaceNames DEF FileInv, FileShape, Inspecting
<1>3. \/ stack = << >> /\ pc' = "place" /\ at' = at + 1 /\ stack' = << >>
      \/ stack # << >> /\ pc' = "readdir" /\ at' = at
      \/ pc' \in Inspecting /\ at' = at
  BY DEF Back
<1>4. pc # "done" /\ pc' # "done"
  BY <1>3 DEF Inspecting
<1>5. ChildOK
  BY DEF CourseOK
<1>6. Inside(p)'
  <2>1. CASE pc' = "place"
    BY <2>1 DEF Inside
  <2>2. CASE pc' # "place" /\ at' = at
    <3>1. Place' = Place /\ Stat(Place)' = Stat(Place)
      BY <2>2 DEF Place, Stat, files
    <3>2. stack = << >> => pc \in {"file", "text"}
      BY <1>5 DEF ChildOK
    <3>3. pc # "place"
      BY DEF Inspecting
    <3>4. QED
      BY <1>1, <1>4, <2>2, <3>1, <3>2, <3>3 DEF Inside
  <2>3. QED
    BY <1>3, <2>1, <2>2 DEF Inspecting
<1>7. CASE child = p
  <2>1. /\ Places[probe][at] = p[1]
        /\ Len(p) = 1 <=> stack = << >>
        /\ stack # << >> => p[2] \in stack[1].seen
    BY <1>1, <1>7, ChildPlace
  <2>2. Judged(kind, p) <=> Told(kind, pc)
    BY <1>7 DEF Judged
  <2>3. (at' = at + 1 \/ Judged(kind, p)') <=> Told(kind, pc')
    <3>1. CASE pc' \in Inspecting /\ at' = at
      BY <1>2, <1>7, <3>1 DEF Judged
    <3>2. CASE stack # << >> /\ pc' = "readdir" /\ at' = at
      BY <1>7, <2>1, <3>2 DEF Judged, Told, Inspecting
    <3>3. CASE pc' = "place" /\ at' = at + 1
      BY <3>3 DEF Told, Inspecting
    <3>4. QED
      BY <1>3, <3>1, <3>2, <3>3
  <2>4. (IF Judged(kind, p) THEN Due(kind, at, p) ELSE 0) + d
          = IF at' = at + 1 \/ Judged(kind, p)' THEN Due(kind, at, p) ELSE 0
    BY <1>7, <2>2, <2>3
  <2>5. Counted(kind, p)'
    BY <1>1, <1>2, <1>3, <1>4, <2>1, <2>4, Settled
  <2>6. QED
    BY <1>6, <2>5
<1>8. CASE child # p
  <2>1. d = 0
    BY <1>8
  <2>2. ASSUME Places[probe][at] = p[1]
        PROVE  (IF Judged(kind, p) THEN Due(kind, at, p) ELSE 0) + d
                 = IF at' = at + 1 \/ Judged(kind, p)' THEN Due(kind, at, p) ELSE 0
    <3>1. stack # << >>
      <4> SUFFICES ASSUME stack = << >> PROVE FALSE
        OBVIOUS
      <4>1. child = Place /\ pc \in {"file", "text"}
        BY <1>5 DEF ChildOK
      <4>2. Len(p) # 1
        BY <1>1, <1>8, <2>2, <4>1, SubjectWay
      <4>3. Len(p) = 2
        BY <1>1, <4>2 DEF Subject
      <4>4. QED
        BY <1>1, <1>2, <2>2, <4>1, <4>3 DEF Inside
    <3>2. at' = at
      BY <1>3, <3>1
    <3>3. Judged(kind, p)' <=> Judged(kind, p)
      BY <1>3, <1>8, <3>1 DEF Judged, Inspecting
    <3>4. Due(kind, at, p) \in Nat
      BY <1>1, DueType
    <3>5. at' # at + 1
      BY <1>2, <3>2
    <3>6. QED
      BY <2>1, <3>3, <3>4, <3>5
  <2>3. Counted(kind, p)'
    BY <1>1, <1>2, <1>3, <1>4, <2>1, <2>2, Settled
  <2>4. QED
    BY <1>6, <2>3
<1>9. QED
  BY <1>7, <1>8

-----------------------------------------------------------------------------

(* A path that is followed through the probe.                              *)
Watched(kind, p) ==
  /\ probe \in FileProbe /\ FileInv /\ CourseOK
  /\ Concerns(kind, p) /\ Fits(kind, p)

(* What the place of the path under inspection says of it.                 *)
LEMMA Subjected ==
  ASSUME probe \in FileProbe, FileInv, CourseOK, pc \in Inspecting, Subject(child)
  PROVE  /\ at \in 1 .. Len(Places[probe])
         /\ Lstat(child) \in Inode /\ Stat(child) = Follow(Lstat(child))
         /\ Lstat(child) \notin Link => Stat(child) = Lstat(child)
         /\ Len(child) = 1 <=> stack = << >>
         /\ stack # << >> =>
              /\ probe = "service" /\ at <= 3 => Class(child) = "service"
              /\ probe = "service" /\ at > 3 => Class(child) # "hidden"
              /\ probe = "ssh_keys" => Class(child) = "key" /\ at = 1
              /\ probe = "process" => Class(child) = "pid"
<1>1. at \in 1 .. Len(Places[probe])
  BY PlaceNames DEF FileInv, FileShape, Inspecting
<1>2. child \in Seq(PathName) /\ Lstat(child) \in Inode /\ (Len(child) = 1 \/ Len(child) = 2)
  BY DEF Subject
<1>3. Stat(child) = Follow(Lstat(child)) /\ (Lstat(child) \notin Link => Stat(child) = Lstat(child))
  BY <1>2, StatFollows DEF Follow
<1>4. /\ Places[probe][at] = child[1] /\ (Len(child) = 1 <=> stack = << >>)
      /\ stack # << >> => Sought(child[2]) /\ child[1] # "home"
  BY ChildPlace
<1>5. ASSUME stack # << >> PROVE Class(child) = ClassOf[child[2]]
  <2>1. Len(child) = 2 /\ Len(child) # 1
    BY <1>2, <1>4, <1>5
  <2>2. Last(child) = child[2]
    BY <1>2, <2>1, TwoNames
  <2>3. QED
    BY <2>1, <2>2 DEF Class
<1>6. ASSUME stack # << >>, probe = "ssh_keys" PROVE at = 1
  <2>1. Len(Places[probe]) = 2 /\ Places[probe][2] = "home"
    BY <1>6, PlaceNames
  <2>2. at = 1 \/ at = 2
    BY <1>1, <2>1
  <2>3. QED
    BY <1>4, <1>6, <2>1, <2>2
<1>7. QED
  BY <1>1, <1>2, <1>3, <1>4, <1>5, <1>6 DEF Sought

(* Done with the path under inspection, ...                                *)
LEMMA JudgedAndBack ==
  ASSUME NEW kind, NEW p, Watched(kind, p), pc \in Inspecting,
         UNCHANGED <<probe, stack, child, files>>, Back,
         NEW d \in Nat, Cardinality(Of(kind, p)') = Cardinality(Of(kind, p)) + d,
         child # p => d = 0,
         child = p => (IF Told(kind, pc) THEN Due(kind, at, p) ELSE 0) + d = Due(kind, at, p)
  PROVE  Fits(kind, p)'
<1>1. pc' = "place" \/ pc' = "readdir"
  BY DEF Back
<1>2. Told(kind, pc')
  BY <1>1 DEF Told, Inspecting
<1>3. Counted(kind, p)' /\ Inside(p)'
  BY <1>2, Inspected DEF Watched
<1>4. Known(p)'
  BY <1>1 DEF Known
<1>5. QED
  BY <1>3, <1>4 DEF Fits

(* ... or on to the next call about it.                                    *)
LEMMA JudgedAndOn ==
  ASSUME NEW kind, NEW p, Watched(kind, p), pc \in Inspecting,
         UNCHANGED <<probe, stack, child, files, at>>, pc' \in Inspecting,
         NEW d \in Nat, Cardinality(Of(kind, p)') = Cardinality(Of(kind, p)) + d,
         child # p => d = 0,
         child = p => (IF Told(kind, pc) THEN Due(kind, at, p) ELSE 0) + d
                        = IF Told(kind, pc') THEN Due(kind, at, p) ELSE 0,
         child = p => Known(p)'
  PROVE  Fits(kind, p)'
<1>1. Counted(kind, p)' /\ Inside(p)'
  BY Inspected DEF Watched
<1>2. Known(p)'
  BY DEF Known
<1>3. QED
  BY <1>1, <1>2 DEF Fits

LEMMA CourseBack ==
  ASSUME FileInv, CourseOK, pc \in Inspecting, Back, UNCHANGED <<probe, stack, child, files>>
  PROVE  CourseOK'
<1>1. \/ stack = << >> /\ pc' = "place"
      \/ stack # << >> /\ pc' = "readdir" /\ at' = at
  BY DEF Back
<1>2. Len(<< >>) # 2
  OBVIOUS
<1>3. bits' = bits
  BY DEF files
<1>4. CASE stack = << >> /\ pc' = "place"
  BY <1>2, <1>3, <1>4 DEF CourseOK, Inspecting
<1>5. CASE stack # << >> /\ pc' = "readdir" /\ at' = at
  BY <1>3, <1>5 DEF CourseOK, Inspecting, ReadsOnly
<1>6. QED
  BY <1>1, <1>4, <1>5

LEMMA CourseOn ==
  ASSUME FileInv, CourseOK, pc \in Inspecting, UNCHANGED <<probe, stack, child, files, at>>,
         pc' \in Inspecting, probe # "ssh_keys", stack = << >> => pc' \in {"file", "text"},
         pc' = "file" => probe = "cron",
         pc' = "text" /\ probe = "cron" => stack = << >> /\ at = 1,
         pc' \in {"text", "exec"} /\ probe = "service" => at <= 3
  PROVE  CourseOK'
<1>1. Len(stack) # 2
  BY DEF CourseOK
<1>2. ChildOK'
  <2>1. ChildOK
    BY DEF CourseOK
  <2>2. Place' = Place /\ \A n : Sought(n)' <=> Sought(n)
    BY DEF Place, Sought
  <2>3. CASE stack = << >> /\ child = Place
    BY <2>2, <2>3 DEF ChildOK
  <2>4. CASE /\ Len(stack) = 1 /\ Places[probe][at] # "home"
             /\ \E n \in AName : child = <<Places[probe][at], n>> /\ n \in stack[1].seen /\ Sought(n)
    BY <2>2, <2>4 DEF ChildOK
  <2>5. QED
    BY <1>1, <2>1, <2>3, <2>4 DEF ChildOK
<1>3. bits' = bits
  BY DEF files
<1>4. QED
  BY <1>1, <1>2, <1>3 DEF CourseOK, Inspecting, ReadsOnly

(***************************************************************************)
(* The steps again, one by one, for what they make of the path under       *)
(* inspection.                                                             *)
(***************************************************************************)
LEMMA LookCronJudges ==
  ASSUME probe \in FileProbe, FileInv, CourseOK, pc = "lstat", LookCron,
         UNCHANGED <<probe, offline, stack, child, exec, files, past>>
  PROVE  CourseOK' /\ \A kind, p : Watched(kind, p) => Fits(kind, p)'
<1>1. /\ probe = "cron" /\ Silent /\ pc \in Inspecting /\ stack # << >> /\ Sequence(chain)
      /\ UNCHANGED <<probe, stack, child, files>>
  BY DEF LookCron, Inspecting, FileInv, WhereOK, ChainOK
<1>2. \/ Lstat(child) \in Link /\ pc' = "follow" /\ UNCHANGED at
      \/ Lstat(child) \in File \ Link /\ pc' = "file" /\ UNCHANGED at
      \/ Lstat(child) \notin File \cup Link /\ Back
  BY TreeAssumption DEF LookCron, GoOn, TreeAssumption
<1>3. CASE Lstat(child) \notin File \cup Link /\ Back
  <2>1. CourseOK'
    BY <1>1, <1>3, CourseBack
  <2>2. ASSUME NEW kind, NEW p, Watched(kind, p) PROVE Fits(kind, p)'
    <3>1. kind \in {"CRON", "CRON-SYM", "CRON-WILD"} /\ Subject(p)
      BY <1>1, <2>2, KindOf DEF Watched, Concerns
    <3>2. ASSUME child = p PROVE ~ Told(kind, pc) /\ Due(kind, at, p) = 0
      <4>1. Len(p) # 1 /\ Text(p) = 0
        BY <1>1, <3>1, <3>2, Subjected DEF Text
      <4>2. Due(kind, at, p) = 0
        BY <1>3, <3>1, <3>2, <4>1, DueCron DEF Once
      <4>3. QED
        BY <4>2 DEF Told, Inspecting
    <3>3. Cardinality(Of(kind, p)) \in Nat /\ Cardinality(Of(kind, p)') = Cardinality(Of(kind, p)) + 0
      BY <1>1, CountSilent
    <3>4. QED
      BY <1>1, <1>3, <2>2, <3>2, <3>3, JudgedAndBack
  <2>3. QED
    BY <2>1, <2>2
<1>4. CASE /\ pc' \in {"follow", "file"} /\ UNCHANGED at
           /\ pc' = "follow" => Lstat(child) \in Link
           /\ pc' = "file" => Lstat(child) \in File \ Link
  <2>1. CourseOK'
    BY <1>1, <1>4, CourseOn DEF Inspecting
  <2>2. ASSUME NEW kind, NEW p, Watched(kind, p) PROVE Fits(kind, p)'
    <3>1. ~ Told(kind, pc) /\ ~ Told(kind, pc') /\ pc' \in Inspecting
      BY <1>4 DEF Told, Inspecting
    <3>2. Cardinality(Of(kind, p)) \in Nat /\ Cardinality(Of(kind, p)') = Cardinality(Of(kind, p)) + 0
      BY <1>1, CountSilent
    <3>3. ASSUME child = p PROVE Known(p)'
      <4>1. Lstat(p)' = Lstat(p)
        BY DEF Lstat, files
      <4>2. File \cap Dir = {}
        BY TreeAssumption DEF TreeAssumption
      <4>3. QED
        BY <1>1, <1>4, <3>3, <4>1, <4>2 DEF Known
    <3>4. QED
      BY <1>1, <1>4, <2>2, <3>1, <3>2, <3>3, JudgedAndOn
  <2>3. QED
    BY <2>1, <2>2
<1>5. QED
  BY <1>2, <1>3, <1>4

LEMMA FollowLinkJudges ==
  ASSUME probe \in FileProbe, FileInv, CourseOK, FollowLink
  PROVE  CourseOK' /\ \A kind, p : Watched(kind, p) => Fits(kind, p)'
<1> DEFINE writable == Stat(child) \in bits
<1>1. /\ pc = "follow" /\ Back /\ ReportIf(writable, "CRON-SYM", child) /\ writable \in BOOLEAN
      /\ UNCHANGED <<probe, stack, child, files>>
  BY DEF FollowLink
<1>2. probe = "cron" /\ pc \in Inspecting /\ stack # << >> /\ Sequence(chain)
  BY <1>1 DEF Inspecting, FileInv, WhereOK, ChainOK
<1>3. CourseOK'
  BY <1>1, <1>2, CourseBack
<1>4. ASSUME NEW kind, NEW p, Watched(kind, p) PROVE Fits(kind, p)'
  <2>1. /\ kind \in {"CRON", "CRON-SYM", "CRON-WILD"}
        /\ Subject(p) /\ Known(p)
    BY <1>2, <1>4, KindOf DEF Watched, Concerns, Fits
  <2> DEFINE d == Once(writable /\ "CRON-SYM" = kind /\ child = p)
  <2>2. ASSUME child = p PROVE ~ Told(kind, pc) /\ Due(kind, at, p) = d
    <3>1. Len(p) # 1 /\ Text(p) = 0 /\ Lstat(p) \in Link /\ Follow(Lstat(p)) = Stat(p)
      BY <1>1, <1>2, <2>1, <2>2, Subjected DEF Text, Known
    <3>2. Lstat(p) \notin File
      BY <3>1, TreeAssumption DEF TreeAssumption
    <3>3. Due(kind, at, p) = d
      BY <2>1, <2>2, <3>1, <3>2, DueCron DEF Once
    <3>4. QED
      BY <1>1, <3>3 DEF Told, Inspecting
  <2>3. Cardinality(Of(kind, p)) \in Nat /\ Cardinality(Of(kind, p)') = Cardinality(Of(kind, p)) + d
    <3> HIDE DEF writable
    <3>1. QED
      BY <1>1, <1>2, CountIf
  <2>4. d \in Nat /\ (child # p => d = 0)
    BY DEF Once
  <2> HIDE DEF d
  <2>5. QED
    BY <1>1, <1>2, <1>4, <2>2, <2>3, <2>4, JudgedAndBack
<1>5. QED
  BY <1>3, <1>4

LEMMA InspectFileJudges ==
  ASSUME probe \in FileProbe, FileInv, CourseOK, InspectFile
  PROVE  CourseOK' /\ \A kind, p : Watched(kind, p) => Fits(kind, p)'
<1>1. /\ pc = "file" /\ UNCHANGED <<probe, stack, child, files>>
      /\ \/ probe = "cron" /\ at = 1 /\ stack = << >> /\ pc' = "text" /\ UNCHANGED at
         \/ ~(probe = "cron" /\ at = 1 /\ stack = << >>) /\ Back
  BY DEF InspectFile, GoOn
<1>2. pc \in Inspecting /\ Sequence(chain) /\ probe \in {"cron", "ld_preload"}
  BY <1>1 DEF Inspecting, FileInv, WhereOK, ChainOK
<1>3. CourseOK'
  <2>1. CASE Back
    BY <1>1, <1>2, <2>1, CourseBack
  <2>2. CASE probe = "cron" /\ at = 1 /\ stack = << >> /\ pc' = "text" /\ UNCHANGED at
    BY <1>1, <1>2, <2>2, CourseOn DEF Inspecting
  <2>3. QED
    BY <1>1, <2>1, <2>2
<1>4. ASSUME NEW kind, NEW p, Watched(kind, p) PROVE Fits(kind, p)'
  <2> DEFINE K == IF probe = "cron" THEN "CRON" ELSE "LDP-W"
             c == Lstat(child) \in IF probe = "cron" THEN bits ELSE bits \cup Link
             d == Once(c /\ K = kind /\ child = p)
  <2>1. Subject(p) /\ Known(p) /\ ~ Told(kind, pc)
    BY <1>1, <1>4 DEF Watched, Concerns, Fits, Told, Inspecting
  <2>2. /\ Cardinality(Of(kind, p)) \in Nat
        /\ Cardinality(Of(kind, p)') = Cardinality(Of(kind, p)) + d
    <3>1. ReportIf(c, K, child) /\ c \in BOOLEAN
      BY <1>2 DEF InspectFile, Relook
    <3> HIDE DEF c, K
    <3>2. QED
      BY <1>2, <3>1, CountIf
  <2>3. d \in Nat /\ (child # p => d = 0)
    BY DEF Once
  <2>4. ASSUME child = p
        PROVE  /\ Lstat(p) \in Inode \ Dir /\ bits \subseteq File \cup Dir
               /\ Len(p) # 1 => Lstat(p) \notin Link
               /\ Len(p) = 1 <=> stack = << >>
               /\ at \in 1 .. Len(Places[probe])
    BY <1>1, <1>2, <2>1, <2>4, Subjected DEF Known, CourseOK
  <2>5. CASE probe = "cron"
    <3>1. kind \in {"CRON", "CRON-SYM", "CRON-WILD"}
      BY <1>4, <2>5, KindOf DEF Watched, Concerns
    <3>2. ASSUME child = p, kind = "CRON" PROVE Due(kind, at, p) = d
      BY <2>4, <2>5, <3>2, DueCron DEF Once
    <3>3. ASSUME child = p, kind = "CRON-SYM" PROVE Due(kind, at, p) = 0 /\ d = 0
      BY <2>4, <2>5, <3>3, DueCron DEF Once
    <3>4. ASSUME child = p, kind = "CRON-WILD" PROVE d = 0 /\ (Back => Due(kind, at, p) = 0)
      <4>1. Back => at # 1 \/ stack # << >>
        <5>1. CASE pc' = "text"
          BY <5>1 DEF Back
        <5>2. CASE pc' # "text"
          BY <1>1, <2>5, <5>2
        <5>3. QED
          BY <5>1, <5>2
      <4>2. stack # << >> => Text(p) = 0
        BY <2>4, <3>4 DEF Text
      <4>3. QED
        BY <2>5, <3>4, <4>1, <4>2, DueCron DEF Once
    <3> HIDE DEF d
    <3>5. CASE Back
      <4>1. child = p => Due(kind, at, p) = d
        BY <3>1, <3>2, <3>3, <3>4, <3>5
      <4>2. QED
        BY <1>1, <1>2, <1>4, <2>1, <2>2, <2>3, <3>5, <4>1, JudgedAndBack
    <3>6. CASE pc' = "text" /\ UNCHANGED at
      <4>1. Told(kind, pc') <=> kind = "CRON"
        BY <3>1, <3>6 DEF Told, Inspecting
      <4>2. child = p => 0 + d = IF Told(kind, pc') THEN Due(kind, at, p) ELSE 0
        BY <2>3, <3>1, <3>2, <3>3, <3>4, <4>1
      <4>3. Known(p)'
        BY <1>1, <2>5, <3>6 DEF Known
      <4>4. pc' \in Inspecting
        BY <3>6 DEF Inspecting
      <4>5. QED
        BY <1>1, <1>2, <1>4, <2>1, <2>2, <2>3, <3>6, <4>2, <4>3, <4>4, JudgedAndOn
    <3>7. QED
      BY <1>1, <3>5, <3>6
  <2>6. CASE probe = "ld_preload"
    <3>1. kind \in {"LDP-W", "LDP-ENV"} /\ at = 1 /\ Back
      BY <1>1, <1>4, <2>6, KindOf DEF Watched, Concerns, CourseOK
    <3>2. ASSUME child = p PROVE Due(kind, at, p) = d
      BY <2>4, <2>6, <3>1, <3>2, DueOther DEF Once
    <3> HIDE DEF d
    <3>3. QED
      BY <1>1, <1>2, <1>4, <2>1, <2>2, <2>3, <3>1, <3>2, JudgedAndBack
  <2>7. QED
    BY <1>2, <2>5, <2>6
<1>5. QED
  BY <1>3, <1>4

LEMMA ReadLinesJudges ==
  ASSUME probe \in FileProbe, FileInv, CourseOK, ReadLines, pc = "text"
  PROVE  CourseOK' /\ \A kind, p : Watched(kind, p) => Fits(kind, p)'
<1> DEFINE n == IF Reads(child) THEN Prone[Stat(child)] ELSE 0
<1>1. /\ probe = "cron" /\ pc \in Inspecting /\ Back /\ Sequence(chain)
      /\ ReportLines(n, "CRON-WILD", child)
      /\ UNCHANGED <<probe, stack, child, files>>
  BY DEF ReadLines, Inspecting, FileInv, WhereOK, ChainOK
<1>2. stack = << >> /\ at = 1 /\ n \in Nat
  BY <1>1, FileProbesAssumption DEF CourseOK, FileProbesAssumption, Reads
<1>3. CourseOK'
  BY <1>1, CourseBack
<1>4. ASSUME NEW kind, NEW p, Watched(kind, p) PROVE Fits(kind, p)'
  <2>1. kind \in {"CRON", "CRON-SYM", "CRON-WILD"} /\ Subject(p)
    BY <1>1, <1>4, KindOf DEF Watched, Concerns
  <2> DEFINE d == IF "CRON-WILD" = kind /\ child = p THEN n ELSE 0
  <2>2. ASSUME child = p PROVE (IF Told(kind, pc) THEN Due(kind, at, p) ELSE 0) + d = Due(kind, at, p)
    <3>1. Len(p) = 1 /\ Text(p) = n
      BY <1>1, <1>2, <2>1, <2>2, Subjected DEF Text, Reads
    <3>2. Due(kind, at, p) \in Nat
      BY <1>4, DueType DEF Watched, Concerns
    <3>3. kind = "CRON" => Told(kind, pc) /\ d = 0
      BY DEF Told
    <3>4. kind = "CRON-SYM" => ~ Told(kind, pc) /\ d = 0 /\ Due(kind, at, p) = 0
      BY <1>1, <3>1, DueCron DEF Told, Once
    <3>5. kind = "CRON-WILD" => ~ Told(kind, pc) /\ d = n /\ Due(kind, at, p) = n
      BY <1>1, <1>2, <2>2, <3>1, DueCron DEF Told
    <3> HIDE DEF d, n
    <3>6. QED
      BY <1>2, <2>1, <3>2, <3>3, <3>4, <3>5
  <2>3. Cardinality(Of(kind, p)) \in Nat /\ Cardinality(Of(kind, p)') = Cardinality(Of(kind, p)) + d
    <3> HIDE DEF n
    <3>1. QED
      BY <1>1, <1>2, CountLines
  <2>4. d \in Nat /\ (child # p => d = 0)
    BY <1>2
  <2> HIDE DEF d
  <2>5. QED
    BY <1>1, <1>4, <2>2, <2>3, <2>4, JudgedAndBack
<1>5. QED
  BY <1>3, <1>4

LEMMA LookUnitJudges ==
  ASSUME probe \in FileProbe, FileInv, CourseOK, pc = "lstat", LookUnit,
         UNCHANGED <<probe, offline, stack, child, exec, files, past>>
  PROVE  CourseOK' /\ \A kind, p : Watched(kind, p) => Fits(kind, p)'
<1> DEFINE writable == Lstat(child) \in bits
<1>1. /\ probe = "service" /\ at <= 3 /\ ReportIf(writable, "SVC-W", child) /\ writable \in BOOLEAN
      /\ UNCHANGED <<probe, stack, child, files>>
      /\ \/ Lstat(child) \in Owned /\ pc' = "text" /\ UNCHANGED at
         \/ Lstat(child) \notin Owned /\ Back
  BY DEF LookUnit, GoOn
<1>2. pc \in Inspecting /\ stack # << >> /\ Sequence(chain)
  BY DEF Inspecting, FileInv, WhereOK, ChainOK
<1>3. CourseOK'
  <2>1. CASE Back
    BY <1>1, <1>2, <2>1, CourseBack
  <2>2. CASE pc' = "text" /\ UNCHANGED at
    BY <1>1, <1>2, <2>2, CourseOn DEF Inspecting
  <2>3. QED
    BY <1>1, <2>1, <2>2
<1>4. ASSUME NEW kind, NEW p, Watched(kind, p) PROVE Fits(kind, p)'
  <2>1. kind \in {"SVC-W", "SVC-E", "SVC-SYSV"} /\ Subject(p)
    BY <1>1, <1>4, KindOf DEF Watched, Concerns
  <2> DEFINE d == Once(writable /\ "SVC-W" = kind /\ child = p)
  <2>2. ~ Told(kind, pc)
    BY DEF Told, Inspecting
  <2>3. ASSUME child = p
        PROVE  /\ kind = "SVC-W" => Due(kind, at, p) = d
               /\ kind = "SVC-E" => d = 0 /\ (Lstat(p) \notin Owned => Due(kind, at, p) = 0)
               /\ kind = "SVC-SYSV" => d = 0 /\ Due(kind, at, p) = 0
    <3>1. Class(p) = "service" /\ at \in 1 .. Len(Places[probe])
      BY <1>1, <1>2, <2>1, <2>3, Subjected
    <3>2. kind = "SVC-W" => Due(kind, at, p) = d
      BY <1>1, <2>3, <3>1, DueService DEF Once
    <3>3. Lstat(p) \notin Owned => ~ RunsAsRoot(Lines(p))
      BY NothingRuns DEF Lines
    <3>4. kind = "SVC-E" => d = 0 /\ (Lstat(p) \notin Owned => Due(kind, at, p) = 0)
      BY <3>3, DueService DEF Once
    <3>5. kind = "SVC-SYSV" => d = 0 /\ Due(kind, at, p) = 0
      BY <1>1, <3>1, DueService DEF Once
    <3>6. QED
      BY <3>2, <3>4, <3>5
  <2>4. Cardinality(Of(kind, p)) \in Nat /\ Cardinality(Of(kind, p)') = Cardinality(Of(kind, p)) + d
    <3> HIDE DEF writable
    <3>1. QED
      BY <1>1, <1>2, CountIf
  <2>5. d \in Nat /\ (child # p => d = 0)
    BY DEF Once
  <2> HIDE DEF d
  <2>6. CASE Lstat(child) \notin Owned /\ Back
    <3>1. child = p => Due(kind, at, p) = d
      BY <2>1, <2>3, <2>6
    <3>2. QED
      BY <1>1, <1>2, <1>4, <2>2, <2>4, <2>5, <2>6, <3>1, JudgedAndBack
  <2>7. CASE Lstat(child) \in Owned /\ pc' = "text" /\ UNCHANGED at
    <3>1. (Told(kind, pc') <=> kind = "SVC-W") /\ pc' \in Inspecting
      BY <2>1, <2>7 DEF Told, Inspecting
    <3>2. child = p => 0 + d = IF Told(kind, pc') THEN Due(kind, at, p) ELSE 0
      BY <2>1, <2>3, <2>5, <3>1
    <3>3. child = p => Known(p)'
      <4>1. Lstat(p)' = Lstat(p)
        BY <1>1 DEF Lstat, files
      <4>2. QED
        BY <1>1, <2>7, <4>1 DEF Known
    <3>4. QED
      BY <1>1, <1>2, <1>4, <2>2, <2>4, <2>5, <2>7, <3>1, <3>2, <3>3, JudgedAndOn
  <2>8. QED
    BY <1>1, <2>6, <2>7
<1>5. QED
  BY <1>3, <1>4

LEMMA ReadStatusJudges ==
  ASSUME probe \in FileProbe, FileInv, CourseOK, pc = "lstat", ReadStatus,
         UNCHANGED <<probe, offline, stack, child, exec, files, past>>
  PROVE  CourseOK' /\ \A kind, p : Watched(kind, p) => Fits(kind, p)'
<1>1. /\ probe = "process" /\ Silent /\ UNCHANGED <<probe, stack, child, files>>
      /\ \/ Stat(child) \in Owned /\ pc' = "exe" /\ UNCHANGED at
         \/ Stat(child) \notin Owned /\ Back
  BY DEF ReadStatus, GoOn
<1>2. pc \in Inspecting /\ stack # << >> /\ Sequence(chain)
  BY DEF Inspecting, FileInv, WhereOK, ChainOK
<1>3. CourseOK'
  <2>1. CASE Back
    BY <1>1, <1>2, <2>1, CourseBack
  <2>2. CASE pc' = "exe" /\ UNCHANGED at
    BY <1>1, <1>2, <2>2, CourseOn DEF Inspecting
  <2>3. QED
    BY <1>1, <2>1, <2>2
<1>4. ASSUME NEW kind, NEW p, Watched(kind, p) PROVE Fits(kind, p)'
  <2>1. kind = "PROC-DEL" /\ ~ Told(kind, pc)
    BY <1>1, <1>4, KindOf DEF Watched, Concerns, Told, Inspecting
  <2>2. Cardinality(Of(kind, p)) \in Nat /\ Cardinality(Of(kind, p)') = Cardinality(Of(kind, p)) + 0
    BY <1>1, <1>2, CountSilent
  <2>3. CASE Stat(child) \notin Owned /\ Back
    <3>1. child = p => Due(kind, at, p) = 0
      BY <2>1, <2>3, DueOther DEF Once
    <3>2. QED
      BY <1>1, <1>2, <1>4, <2>1, <2>2, <2>3, <3>1, JudgedAndBack
  <2>4. CASE Stat(child) \in Owned /\ pc' = "exe" /\ UNCHANGED at
    <3>1. ~ Told(kind, pc') /\ pc' \in Inspecting
      BY <2>1, <2>4 DEF Told, Inspecting
    <3>2. child = p => Known(p)'
      <4>1. Stat(p)' = Stat(p)
        BY <1>1 DEF Stat, files
      <4>2. QED
        BY <1>1, <2>4, <4>1 DEF Known
    <3>3. QED
      BY <1>1, <1>2, <1>4, <2>1, <2>2, <2>4, <3>1, <3>2, JudgedAndOn
  <2>5. QED
    BY <1>1, <2>3, <2>4
<1>5. QED
  BY <1>3, <1>4

LEMMA LookOnceJudges ==
  ASSUME probe \in FileProbe, FileInv, CourseOK, pc = "lstat", LookOnce,
         UNCHANGED <<probe, offline, stack, child, exec, files, past>>
  PROVE  CourseOK' /\ \A kind, p : Watched(kind, p) => Fits(kind, p)'
<1>1. /\ Back /\ pc \in Inspecting /\ stack # << >> /\ Sequence(chain)
      /\ UNCHANGED <<probe, stack, child, files>>
  BY DEF LookOnce, Inspecting, FileInv, WhereOK, ChainOK
<1>2. CourseOK'
  BY <1>1, CourseBack
<1> DEFINE i == Lstat(child)
<1>3. ASSUME NEW kind, NEW p, Watched(kind, p), NEW c \in BOOLEAN, NEW K, ReportIf(c, K, child),
             child = p => Due(kind, at, p) = Once(c /\ K = kind /\ child = p)
      PROVE  Fits(kind, p)'
  <2> DEFINE d == Once(c /\ K = kind /\ child = p)
  <2>1. Cardinality(Of(kind, p)) \in Nat /\ Cardinality(Of(kind, p)') = Cardinality(Of(kind, p)) + d
    BY <1>1, <1>3, CountIf
  <2>2. kind \in Kinds[probe] \ {"PROC-WW"} /\ probe \in FileProbe
    BY <1>3 DEF Watched, Concerns
  <2>3. ~ Told(kind, pc)
    BY DEF Told, Inspecting
  <2>4. d \in Nat /\ (child # p => d = 0) /\ (child = p => Due(kind, at, p) = d)
    BY <1>3 DEF Once
  <2> HIDE DEF d
  <2>5. child = p => (IF Told(kind, pc) THEN Due(kind, at, p) ELSE 0) + d = Due(kind, at, p)
    BY <2>3, <2>4
  <2>6. QED
    BY <1>1, <1>3, <2>1, <2>4, <2>5, JudgedAndBack
<1>4. ASSUME NEW kind, NEW p, Watched(kind, p) PROVE Fits(kind, p)'
  <2>1. Subject(p) /\ kind \in Kinds[probe] \ {"PROC-WW"}
    BY <1>4 DEF Watched, Concerns
  <2>2. child = p => Len(p) # 1 /\ at \in 1 .. Len(Places[probe])
    BY <1>1, <2>1, Subjected
  <2>3. CASE probe = "service" /\ at > 3
    <3>1. ReportIf(i \in bits, "SVC-SYSV", child) /\ (i \in bits) \in BOOLEAN
      BY <2>3 DEF LookOnce
    <3>2. kind \in {"SVC-W", "SVC-E", "SVC-SYSV"}
      BY <2>1, <2>3, KindOf
    <3>3. child = p => Class(p) # "hidden"
      BY <1>1, <2>1, <2>3, Subjected
    <3>4. child = p => Due(kind, at, p) = Once((i \in bits) /\ "SVC-SYSV" = kind /\ child = p)
      BY <2>2, <2>3, <3>2, <3>3, DueService DEF Once
    <3>5. PICK c \in BOOLEAN : c = (i \in bits)
      BY <3>1
    <3>6. ReportIf(c, "SVC-SYSV", child) /\ (child = p => Due(kind, at, p) = Once(c /\ "SVC-SYSV" = kind /\ child = p))
      BY <3>1, <3>4, <3>5
    <3>7. QED
      BY <1>3, <1>4, <3>6
  <2>4. CASE probe = "ld_preload"
    <3>1. ReportIf(i \in bits \cup Link, "LDP-W", child) /\ (i \in bits \cup Link) \in BOOLEAN
      BY <2>4 DEF LookOnce
    <3>2. kind \in {"LDP-W", "LDP-ENV"}
      BY <2>1, <2>4, KindOf
    <3>3. child = p => at < 3
      <4>1. at # 3
        BY <1>1, <2>4 DEF CourseOK, ReadsOnly
      <4>2. Len(Places[probe]) = 3
        BY <2>4, PlaceNames
      <4>3. at \in 1 .. 3 => at < 3
        BY <4>1
      <4>4. QED
        BY <2>2, <4>2, <4>3
    <3>4. child = p => Text(p) = 0
      BY <2>2 DEF Text
    <3>5. child = p => Due(kind, at, p) = Once((i \in bits \cup Link) /\ "LDP-W" = kind /\ child = p)
      BY <2>2, <3>2, <3>3, <3>4, DueOther DEF Once
    <3>6. PICK c \in BOOLEAN : c = (i \in bits \cup Link)
      BY <3>1
    <3>7. ReportIf(c, "LDP-W", child) /\ (child = p => Due(kind, at, p) = Once(c /\ "LDP-W" = kind /\ child = p))
      BY <3>1, <3>5, <3>6
    <3>8. QED
      BY <1>3, <1>4, <3>7
  <2>5. CASE probe = "writable_etc"
    <3>1. ReportIf(i \in bits \cup Link, "WETC-D", child) /\ (i \in bits \cup Link) \in BOOLEAN
      BY <2>5 DEF LookOnce
    <3>2. kind \in {"WETC", "WETC-D"}
      BY <2>1, <2>5, KindOf
    <3>3. child = p => Due(kind, at, p) = Once((i \in bits \cup Link) /\ "WETC-D" = kind /\ child = p)
      BY <2>2, <3>2, DueOther DEF Once
    <3>4. PICK c \in BOOLEAN : c = (i \in bits \cup Link)
      BY <3>1
    <3>5. ReportIf(c, "WETC-D", child) /\ (child = p => Due(kind, at, p) = Once(c /\ "WETC-D" = kind /\ child = p))
      BY <3>1, <3>3, <3>4
    <3>6. QED
      BY <1>3, <1>4, <3>5
  <2>6. CASE probe = "ssh_keys"
    <3>1. kind \in {"SSH-W", "SSH-R"} /\ Lax \subseteq File \ Fifo
      BY <2>1, <2>6, KindOf, FileProbesAssumption DEF FileProbesAssumption
    <3>2. child = p => Class(p) = "key" /\ at = 1
      BY <1>1, <2>1, <2>6, Subjected
    <3>3. CASE i \in bits \cap (File \ Fifo)
      <4>1. ReportIf(TRUE, "SSH-W", child)
        BY <2>6, <3>3 DEF LookOnce
      <4>2. child = p => Due(kind, at, p) = Once(TRUE /\ "SSH-W" = kind /\ child = p)
        BY <3>1, <3>2, <3>3, DueOther DEF Once
      <4>3. PICK c \in BOOLEAN : c = TRUE
        OBVIOUS
      <4>4. ReportIf(c, "SSH-W", child) /\ (child = p => Due(kind, at, p) = Once(c /\ "SSH-W" = kind /\ child = p))
        BY <4>1, <4>2, <4>3
      <4>5. QED
        BY <1>3, <1>4, <4>4
    <3>4. CASE i \notin bits \cap (File \ Fifo)
      <4>1. ReportIf(i \in Lax, "SSH-R", child) /\ (i \in Lax) \in BOOLEAN
        <5>1. IF i \in bits \cap (File \ Fifo) THEN ReportIf(TRUE, "SSH-W", child)
                                      ELSE ReportIf(i \in Lax, "SSH-R", child)
          BY <2>6 DEF LookOnce
        <5> HIDE DEF i
        <5>2. (i \in Lax) \in BOOLEAN
          OBVIOUS
        <5>3. ReportIf(i \in Lax, "SSH-R", child)
          BY <3>4, <5>1, Zenon
        <5>4. QED
          BY <5>2, <5>3
      <4>2. child = p => Due(kind, at, p) = Once((i \in Lax) /\ "SSH-R" = kind /\ child = p)
        BY <3>1, <3>2, <3>4, DueOther DEF Once
      <4>3. PICK c \in BOOLEAN : c = (i \in Lax)
        BY <4>1
      <4>4. ReportIf(c, "SSH-R", child) /\ (child = p => Due(kind, at, p) = Once(c /\ "SSH-R" = kind /\ child = p))
        BY <4>1, <4>2, <4>3
      <4>5. QED
        BY <1>3, <1>4, <4>4
    <3>5. QED
      BY <3>3, <3>4
  <2>7. QED
    BY <2>3, <2>4, <2>5, <2>6 DEF LookOnce
<1>5. QED
  BY <1>2, <1>4

LEMMA ReadUnitJudges ==
  ASSUME probe \in FileProbe, FileInv, CourseOK, ReadUnit
  PROVE  CourseOK' /\ \A kind, p : Watched(kind, p) => Fits(kind, p)'
<1> DEFINE lines == IF Reads(child) THEN Unit[Stat(child)] ELSE << >>
<1>1. /\ pc = "text" /\ probe = "service" /\ Silent /\ UNCHANGED <<probe, stack, child, files>>
      /\ \/ /\ RunsAsRoot(lines) /\ ExecOf(lines) # NoPath
            /\ exec' = ExecOf(lines) /\ pc' = "exec" /\ UNCHANGED at
         \/ ~(RunsAsRoot(lines) /\ ExecOf(lines) # NoPath) /\ Back
  BY DEF ReadUnit, GoOn
<1>2. pc \in Inspecting /\ stack # << >> /\ Sequence(chain) /\ at <= 3
  BY <1>1 DEF Inspecting, FileInv, WhereOK, ChainOK, CourseOK
<1>3. CourseOK'
  <2>1. CASE Back
    BY <1>1, <1>2, <2>1, CourseBack
  <2>2. CASE pc' = "exec" /\ UNCHANGED at
    BY <1>1, <1>2, <2>2, CourseOn DEF Inspecting
  <2>3. QED
    BY <1>1, <2>1, <2>2
<1>4. ASSUME NEW kind, NEW p, Watched(kind, p) PROVE Fits(kind, p)'
  <2>1. kind \in {"SVC-W", "SVC-E", "SVC-SYSV"} /\ Subject(p) /\ Known(p)
    BY <1>1, <1>4, KindOf DEF Watched, Concerns, Fits
  <2>2. Cardinality(Of(kind, p)) \in Nat /\ Cardinality(Of(kind, p)') = Cardinality(Of(kind, p)) + 0
    BY <1>1, <1>2, CountSilent
  <2>3. Due(kind, at, p) \in Nat
    BY <1>4, DueType DEF Watched, Concerns
  <2>4. ASSUME child = p
        PROVE  /\ at \in 1 .. Len(Places[probe])
               /\ lines = Lines(p) /\ Lstat(p) \in Owned
               /\ RunsAsRoot(lines) => Lstat(p) \notin Unreadable /\ lines = Unit[Lstat(p)]
    <3>1. Lstat(p) \in Owned /\ Owned \subseteq File
      BY <1>1, <2>1, <2>4, FileProbesAssumption DEF Known, FileProbesAssumption
    <3>2. Lstat(p) \notin Link /\ at \in 1 .. Len(Places[probe])
      BY <1>2, <2>1, <2>4, <3>1, Subjected, TreeAssumption DEF TreeAssumption
    <3>3. Stat(p) = Lstat(p)
      BY <1>2, <2>1, <2>4, <3>2, Subjected
    <3>4. Reads(p) <=> Lstat(p) \notin Unreadable
      BY <3>1, <3>3 DEF Reads
    <3>5. lines = Lines(p)
      BY <2>4, <3>1, <3>3, <3>4 DEF Lines
    <3>6. RunsAsRoot(lines) => Lstat(p) \notin Unreadable /\ lines = Unit[Lstat(p)]
      BY <2>4, <3>3, <3>4, NothingRuns
    <3>7. QED
      BY <3>1, <3>2, <3>5, <3>6
  <2>5. (Told(kind, pc) <=> kind = "SVC-W")
    BY <1>1, <2>1 DEF Told, Inspecting
  <2> HIDE DEF lines
  <2>6. CASE ~(RunsAsRoot(lines) /\ ExecOf(lines) # NoPath) /\ Back
    <3>1. child = p /\ kind = "SVC-E" => Due(kind, at, p) = 0
      BY <2>4, <2>6, DueService DEF Once
    <3>2. child = p /\ kind = "SVC-SYSV" => Due(kind, at, p) = 0
      BY <1>2, <2>4, DueService DEF Once
    <3>3. child = p => (IF Told(kind, pc) THEN Due(kind, at, p) ELSE 0) + 0 = Due(kind, at, p)
      BY <2>1, <2>3, <2>5, <3>1, <3>2
    <3>4. QED
      BY <1>1, <1>2, <1>4, <2>2, <2>6, <3>3, JudgedAndBack
  <2>7. CASE /\ RunsAsRoot(lines) /\ ExecOf(lines) # NoPath
             /\ exec' = ExecOf(lines) /\ pc' = "exec" /\ UNCHANGED at
    <3>1. (Told(kind, pc') <=> kind = "SVC-W") /\ pc' \in Inspecting
      BY <2>1, <2>7 DEF Told, Inspecting
    <3>2. (IF Told(kind, pc) THEN Due(kind, at, p) ELSE 0) + 0
            = IF Told(kind, pc') THEN Due(kind, at, p) ELSE 0
      BY <2>3, <2>5, <3>1
    <3>3. child = p => Known(p)'
      <4>1. Lstat(p)' = Lstat(p)
        BY <1>1 DEF Lstat, files
      <4>2. QED
        BY <1>1, <2>4, <2>7, <4>1 DEF Known
    <3>4. QED
      BY <1>1, <1>2, <1>4, <2>2, <2>7, <3>1, <3>2, <3>3, JudgedAndOn
  <2>8. QED
    BY <1>1, <2>6, <2>7
<1>5. QED
  BY <1>3, <1>4

LEMMA ReadExeJudges ==
  ASSUME probe \in FileProbe, FileInv, CourseOK, ReadExe
  PROVE  CourseOK' /\ \A kind, p : Watched(kind, p) => Fits(kind, p)'
<1> DEFINE now == {q \in PathsOf(entries) : Lstat(q) = Image[Stat(child)]}
<1>1. /\ pc = "exe" /\ UNCHANGED <<probe, stack, child, files>>
      /\ \/ ~Reads(child) /\ Back /\ Silent
         \/ /\ Reads(child) /\ pc' = "exec" /\ UNCHANGED at
            /\ \/ \E q \in now : ReportIf(SaysDeleted(q), "PROC-DEL", child)
               \/ now = {} /\ ReportIf(TRUE, "PROC-DEL", child)
  BY DEF ReadExe, GoOn
<1>2. probe = "process" /\ pc \in Inspecting /\ stack # << >> /\ Sequence(chain)
  BY <1>1 DEF Inspecting, FileInv, WhereOK, ChainOK
<1>3. CourseOK'
  <2>1. CASE Back
    BY <1>1, <1>2, <2>1, CourseBack
  <2>2. CASE pc' = "exec" /\ UNCHANGED at
    BY <1>1, <1>2, <2>2, CourseOn DEF Inspecting
  <2>3. QED
    BY <1>1, <2>1, <2>2
<1>4. ASSUME NEW kind, NEW p, Watched(kind, p) PROVE Fits(kind, p)'
  <2>1. /\ kind = "PROC-DEL" /\ ~ Told(kind, pc) /\ Subject(p) /\ Known(p) /\ Untouched(kind, p)
        /\ kind \in Kinds[probe] \ {"PROC-WW"}
    BY <1>1, <1>2, <1>4, KindOf DEF Watched, Concerns, Fits, Told, Inspecting
  <2>2. Due(kind, at, p) \in Nat
    BY <2>1, DueType
  <2>3. ASSUME child = p
        PROVE  Class(p) = "pid" /\ Stat(p) \in Owned /\ (Reads(child) <=> Stat(p) \notin Unreadable)
    BY <1>1, <1>2, <2>1, <2>3, Subjected, FileProbesAssumption DEF Known, FileProbesAssumption, Reads
  <2>4. child = p => \A q \in now : ~ SaysDeleted(q)
    BY <2>1, <2>3 DEF Untouched
  <2>5. Gone(child) <=> now = {}
    BY DEF Gone
  <2>6. ASSUME ~Reads(child), Back, Silent PROVE Fits(kind, p)'
    <3>1. Cardinality(Of(kind, p)) \in Nat /\ Cardinality(Of(kind, p)') = Cardinality(Of(kind, p)) + 0
      BY <1>2, <2>6, CountSilent
    <3>2. child = p => Due(kind, at, p) = 0
      BY <2>1, <2>3, <2>6, DueOther DEF Once
    <3>3. QED
      BY <1>1, <1>2, <1>4, <2>1, <2>6, <3>1, <3>2, JudgedAndBack
  <2>7. ASSUME Reads(child), pc' = "exec", UNCHANGED at, NEW c \in BOOLEAN,
               ReportIf(c, "PROC-DEL", child), child = p => (c <=> now = {})
        PROVE  Fits(kind, p)'
    <3> DEFINE d == Once(c /\ "PROC-DEL" = kind /\ child = p)
    <3>1. Cardinality(Of(kind, p)) \in Nat /\ Cardinality(Of(kind, p)') = Cardinality(Of(kind, p)) + d
      BY <1>2, <2>7, CountIf
    <3>2. d \in Nat /\ (child # p => d = 0)
      BY DEF Once
    <3>3. child = p => Due(kind, at, p) = d
      <4> HIDE DEF now
      <4>1. QED
        BY <2>1, <2>3, <2>5, <2>7, DueOther DEF Once
    <3>4. Told(kind, pc') /\ pc' \in Inspecting
      BY <2>1, <2>7 DEF Told, Inspecting
    <3>5. Known(p)'
      BY <1>1, <1>2, <2>7 DEF Known
    <3> HIDE DEF d
    <3>6. child = p => (IF Told(kind, pc) THEN Due(kind, at, p) ELSE 0) + d
                         = IF Told(kind, pc') THEN Due(kind, at, p) ELSE 0
      BY <2>1, <2>2, <3>2, <3>3, <3>4
    <3>7. QED
      BY <1>1, <1>2, <1>4, <2>7, <3>1, <3>2, <3>4, <3>5, <3>6, JudgedAndOn
  <2> HIDE DEF now
  <2>8. CASE /\ Reads(child) /\ pc' = "exec" /\ UNCHANGED at
             /\ \E q \in now : ReportIf(SaysDeleted(q), "PROC-DEL", child)
    <3>1. PICK q \in now : ReportIf(SaysDeleted(q), "PROC-DEL", child)
      BY <2>8
    <3>2. SaysDeleted(q) \in BOOLEAN
      BY DEF SaysDeleted
    <3>3. PICK c \in BOOLEAN : c = SaysDeleted(q)
      BY <3>2
    <3>4. ReportIf(c, "PROC-DEL", child) /\ (child = p => (c <=> now = {}))
      BY <2>4, <3>1, <3>3
    <3>5. QED
      BY <2>7, <2>8, <3>4
  <2>9. CASE /\ Reads(child) /\ pc' = "exec" /\ UNCHANGED at
             /\ now = {} /\ ReportIf(TRUE, "PROC-DEL", child)
    <3>1. PICK c \in BOOLEAN : c = TRUE
      OBVIOUS
    <3>2. ReportIf(c, "PROC-DEL", child) /\ (child = p => (c <=> now = {}))
      BY <2>9, <3>1
    <3>3. QED
      BY <2>7, <2>9, <3>2
  <2>10. QED
    BY <1>1, <2>6, <2>8, <2>9
<1>5. QED
  BY <1>3, <1>4

LEMMA StatExecJudges ==
  ASSUME probe \in FileProbe, FileInv, CourseOK, StatExec
  PROVE  CourseOK' /\ \A kind, p : Watched(kind, p) => Fits(kind, p)'
<1>1. pc = "exec" /\ Back /\ UNCHANGED <<probe, stack, child, files>>
  BY DEF StatExec
<1>2. probe \in {"service", "process"} /\ pc \in Inspecting /\ stack # << >> /\ Sequence(chain)
  BY <1>1 DEF Inspecting, FileInv, WhereOK, ChainOK
<1>3. PICK writable \in BOOLEAN :
        /\ ~offline => (writable <=> Stat(exec) \in bits)
        /\ IF probe = "service" THEN ReportIf(writable, "SVC-E", child)
                                ELSE ReportIf(writable, "PROC-WW", exec)
  <2>1. PICK w \in IF offline THEN BOOLEAN ELSE {Stat(exec) \in bits} :
          IF probe = "service" THEN ReportIf(w, "SVC-E", child)
                               ELSE ReportIf(w, "PROC-WW", exec)
    BY Zenon DEF StatExec
  <2>2. w \in BOOLEAN /\ (~offline => (w <=> Stat(exec) \in bits))
    <3>1. CASE offline
      BY <3>1, Zenon
    <3>2. CASE ~offline
      <4>1. w = (Stat(exec) \in bits)
        BY <3>2
      <4>2. w \in BOOLEAN
        BY <4>1
      <4>3. w <=> Stat(exec) \in bits
        BY <4>1, Zenon
      <4>4. QED
        BY <4>2, <4>3, Zenon
    <3>3. QED
      BY <3>1, <3>2
  <2>3. QED
    BY <2>1, <2>2, Zenon
<1>4. CourseOK'
  BY <1>1, <1>2, CourseBack
<1>5. ASSUME NEW kind, NEW p, Watched(kind, p) PROVE Fits(kind, p)'
  <2>1. kind \in Kinds[probe] \ {"PROC-WW"} /\ Subject(p) /\ Known(p) /\ Untouched(kind, p)
    BY <1>5 DEF Watched, Concerns, Fits
  <2>2. Due(kind, at, p) \in Nat
    BY <1>5, <2>1, DueType
  <2>3. CASE probe = "service"
    <3> DEFINE d == Once(writable /\ "SVC-E" = kind /\ child = p)
    <3>1. kind \in {"SVC-W", "SVC-E", "SVC-SYSV"}
      BY <1>5, <2>1, <2>3, KindOf
    <3>2. Cardinality(Of(kind, p)) \in Nat /\ Cardinality(Of(kind, p)') = Cardinality(Of(kind, p)) + d
      BY <1>2, <1>3, <2>3, CountIf
    <3>3. d \in Nat /\ (child # p => d = 0)
      BY DEF Once
    <3>4. ASSUME child = p
          PROVE  /\ at \in 1 .. Len(Places[probe]) /\ at <= 3 /\ Class(p) = "service"
                 /\ Lines(p) = Unit[Lstat(p)] /\ RunsAsRoot(Lines(p))
                 /\ exec = ExecOf(Lines(p)) /\ exec # NoPath
      <4>1. at <= 3
        BY <1>1, <2>3 DEF CourseOK
      <4>2. at \in 1 .. Len(Places[probe]) /\ Class(p) = "service"
        BY <1>2, <2>1, <2>3, <3>4, <4>1, Subjected
      <4>3. /\ Lstat(p) \in Owned \ Unreadable /\ RunsAsRoot(Unit[Lstat(p)])
            /\ exec = ExecOf(Unit[Lstat(p)]) /\ exec # NoPath
        BY <1>1, <2>1, <2>3, <3>4 DEF Known
      <4>4. Lines(p) = Unit[Lstat(p)]
        BY <4>3 DEF Lines
      <4>5. QED
        BY <4>1, <4>2, <4>3, <4>4
    <3>5. ASSUME child = p, kind = "SVC-E" PROVE Due(kind, at, p) = d
      <4>1. writable <=> Stat(exec) \in bits
        BY <1>3, <2>1, <3>5 DEF Untouched
      <4>2. Due(kind, at, p) = Once(Stat(exec) \in bits)
        BY <3>4, <3>5, DueService DEF Once
      <4>3. QED
        BY <3>5, <4>1, <4>2 DEF Once
    <3>6. ASSUME child = p, kind = "SVC-SYSV" PROVE Due(kind, at, p) = 0
      BY <3>4, <3>6, DueService DEF Once
    <3>7. Told(kind, pc) <=> kind = "SVC-W"
      BY <1>1, <3>1 DEF Told, Inspecting
    <3>8. kind # "SVC-E" => d = 0
      BY DEF Once
    <3> HIDE DEF d
    <3>9. child = p => (IF Told(kind, pc) THEN Due(kind, at, p) ELSE 0) + d = Due(kind, at, p)
      BY <2>2, <3>1, <3>3, <3>5, <3>6, <3>7, <3>8
    <3>10. QED
      BY <1>1, <1>2, <1>5, <3>2, <3>3, <3>9, JudgedAndBack
  <2>4. CASE probe = "process"
    <3>1. kind = "PROC-DEL" /\ Told(kind, pc)
      BY <1>1, <1>5, <2>1, <2>4, KindOf DEF Told, Inspecting
    <3>2. Cardinality(Of(kind, p)) \in Nat /\ Cardinality(Of(kind, p)') = Cardinality(Of(kind, p)) + 0
      <4>1. Once(writable /\ "PROC-WW" = kind /\ exec = p) = 0
        BY <3>1 DEF Once
      <4>2. ReportIf(writable, "PROC-WW", exec)
        BY <1>3, <2>4
      <4>3. /\ Cardinality(Of(kind, p)) \in Nat
            /\ Cardinality(Of(kind, p)')
                 = Cardinality(Of(kind, p)) + Once(writable /\ "PROC-WW" = kind /\ exec = p)
        BY <1>2, <4>2, CountIf
      <4>4. QED
        BY <4>1, <4>3
    <3>3. (IF Told(kind, pc) THEN Due(kind, at, p) ELSE 0) + 0 = Due(kind, at, p)
      BY <2>2, <3>1
    <3>4. QED
      BY <1>1, <1>2, <1>5, <3>2, <3>3, JudgedAndBack
  <2>5. QED
    BY <1>2, <2>3, <2>4
<1>6. QED
  BY <1>4, <1>5

-----------------------------------------------------------------------------

(* A step from place to place, or from entry to entry.                     *)
LEMMA SettledAndOn ==
  ASSUME NEW kind, NEW p, Watched(kind, p), at <= Len(Places[probe]), pc # "done", pc' # "done",
         UNCHANGED <<probe, files>>,
         at' = at \/ (at' = at + 1 /\ pc' = "place" /\ stack' = << >>),
         NEW d \in Nat, Cardinality(Of(kind, p)') = Cardinality(Of(kind, p)) + d,
         IF Places[probe][at] = p[1]
         THEN (IF Judged(kind, p) THEN Due(kind, at, p) ELSE 0) + d
                = IF at' = at + 1 \/ Judged(kind, p)' THEN Due(kind, at, p) ELSE 0
         ELSE d = 0,
         Inside(p)', Known(p)'
  PROVE  Fits(kind, p)'
<1>1. Counted(kind, p)'
  BY Settled DEF Watched, Concerns, FileInv, Fits
<1>2. QED
  BY <1>1 DEF Fits

(* Of a place that is opened without a look nothing is due itself.         *)
LEMMA TopSilent ==
  ASSUME NEW kind, NEW p, Watched(kind, p), Len(p) = 1, ~LooksFirst, ~ReadsOnly
  PROVE  Due(kind, at, p) = 0
<1>1. /\ probe \in {"service", "ld_preload", "ssh_keys", "process"}
      /\ probe = "ld_preload" => at # 1 /\ at # 3
      /\ kind \in Kinds[probe] \ {"PROC-WW"}
  BY KindOf DEF Watched, Concerns, LooksFirst, ReadsOnly
<1>2. Class(p) = "other"
  BY DEF Class
<1>3. CASE probe = "service"
  <2>1. kind \in {"SVC-W", "SVC-E", "SVC-SYSV"}
    BY <1>1, <1>3, KindOf DEF Watched
  <2>2. QED
    BY <1>2, <2>1, DueService DEF Once
<1>4. CASE probe \in {"ld_preload", "ssh_keys", "process"}
  <2>1. \/ kind \in {"LDP-W", "LDP-ENV"} /\ at # 1 /\ at # 3
        \/ kind \in {"SSH-W", "SSH-R", "PROC-DEL"}
    BY <1>1, <1>4, KindOf DEF Watched
  <2>2. QED
    BY <1>2, <2>1, DueOther DEF Once
<1>5. QED
  BY <1>1, <1>3, <1>4

(* Before the place is looked at nothing there is judged.                  *)
LEMMA JudgedNotYet ==
  ASSUME NEW kind, NEW p, Subject(p), stack = << >>, pc \in {"place", "opendir"}
  PROVE  Judged(kind, p) <=> Len(p) = 1 /\ pc = "opendir"
  BY DEF Judged, Inspecting, Subject

LEMMA LookAtPlaceSettles ==
  ASSUME probe \in FileProbe, FileInv, CourseOK, LookAtPlace
  PROVE  CourseOK' /\ \A kind, p : Watched(kind, p) => Fits(kind, p)'
<1> DEFINE i == Lstat(Place)
<1>1. /\ pc = "place" /\ at <= Len(Places[probe]) /\ at \in 1 .. Len(Places[probe])
      /\ LooksFirst /\ stack = << >> /\ stack' = << >> /\ Sequence(chain)
      /\ UNCHANGED <<probe, stack, files>>
  BY PlaceNames DEF LookAtPlace, AtPlace, FileInv, FileShape, WhereOK, ChainOK
<1>2. /\ File \cap Dir = {} /\ Link \cap Dir = {} /\ Link \cap File = {} /\ Nothing \notin Inode
      /\ bits \subseteq File \cup Dir
  BY TreeAssumption DEF TreeAssumption, CourseOK
<1> DEFINE unseen == (i = Nothing \/ (i \in Link /\ probe = "writable_etc")) /\ pc' = "place" /\ at' = at + 1
           listed == probe # "writable_etc" /\ i \in Dir /\ pc' = "opendir" /\ at' = at
           single == /\ probe # "writable_etc" /\ i \in File \cup Link
                     /\ child' = Place /\ pc' = "file" /\ at' = at
           shown  == /\ probe = "writable_etc" /\ ReportIf(i \in bits, "WETC", Place)
                     /\ \/ i \in Dir /\ pc' = "opendir" /\ at' = at
                        \/ i \in File /\ pc' = "place" /\ at' = at + 1
<1>3. (Silent /\ (unseen \/ listed \/ single)) \/ shown
  BY <1>1, <1>2 DEF LookAtPlace, Back, GoOn
<1>4. CourseOK'
  <2>1. Len(<< >>) # 2 /\ bits' = bits
    BY <1>1 DEF files
  <2>2. pc' = "file" => at' = at /\ child' = Place' /\ (probe = "ld_preload" => at = 1)
    BY <1>1, <1>3 DEF Place, LooksFirst
  <2>3. pc' = "opendir" => LooksFirst'
    BY <1>1, <1>3 DEF LooksFirst
  <2>4. pc' \in {"place", "opendir", "file"}
    BY <1>3
  <2>5. QED
    BY <1>1, <2>1, <2>2, <2>3, <2>4 DEF CourseOK, ChildOK, Inspecting
<1>5. ASSUME NEW kind, NEW p, Watched(kind, p) PROVE Fits(kind, p)'
  <2>1. /\ kind \in Kinds[probe] \ {"PROC-WW"} /\ Subject(p) /\ Lstat(p) \in Inode /\ p \in Seq(PathName)
        /\ Len(p) = 1 \/ Len(p) = 2
    BY <1>5 DEF Watched, Concerns, Subject
  <2>2. ASSUME Places[probe][at] = p[1]
        PROVE  /\ Len(p) = 1 => p = Place
               /\ Len(p) = 2 => i \in Dir /\ p # Place
    <3>1. Len(Place) = 1
      BY DEF Place
    <3>2. QED
      BY <2>1, <2>2, <3>1, SubjectWay
  <2>3. ~ Judged(kind, p)
    BY <1>1, <2>1, JudgedNotYet
  <2>4. Known(p)'
    <3>1. Lstat(p)' = Lstat(p)
      BY <1>1 DEF Lstat, files
    <3>2. pc' = "file" /\ child' = p => Lstat(p) \notin Dir
      BY <1>2, <1>3
    <3>3. pc' \in {"place", "opendir", "file"}
      BY <1>3
    <3>4. QED
      BY <1>1, <3>1, <3>2, <3>3 DEF Known
  <2>5. Inside(p)'
    <3>1. pc' = "file" /\ Len(p) = 2 /\ Places[probe][at] = p[1] => FALSE
      BY <1>2, <1>3, <2>2
    <3>2. QED
      BY <1>1, <1>3, <3>1 DEF Inside
  <2>6. CASE Silent /\ (unseen \/ listed \/ single)
    <3>1. /\ Cardinality(Of(kind, p)) \in Nat
          /\ Cardinality(Of(kind, p)') = Cardinality(Of(kind, p)) + 0
      BY <1>1, <2>6, CountSilent
    <3>2. ASSUME Places[probe][at] = p[1], at' = at + 1 \/ Judged(kind, p)'
          PROVE  Due(kind, at, p) = 0
      <4>1. CASE i = Nothing /\ unseen
        BY <1>2, <2>1, <2>2, <3>2, <4>1 DEF Inode
      <4>2. CASE i \in Link /\ probe = "writable_etc" /\ unseen
        <5>1. Len(p) = 1 /\ p = Place /\ Lstat(p) \notin bits /\ kind \in {"WETC", "WETC-D"}
          BY <1>2, <2>1, <2>2, <3>2, <4>2, KindOf
        <5>2. QED
          BY <5>1, DueOther DEF Once
      <4>3. CASE listed
        <5>1. Len(p) = 1 /\ p = Place
          BY <1>1, <2>1, <2>2, <3>2, <4>3 DEF Judged, Inspecting
        <5>2. Text(p) = 0
          BY <1>2, <2>1, <4>3, <5>1, WholeUnlinked DEF Text
        <5>3. CASE probe = "cron"
          <6>1. kind \in {"CRON", "CRON-SYM", "CRON-WILD"}
            BY <2>1, <5>3, KindOf
          <6>2. QED
            BY <1>2, <4>3, <5>1, <5>2, <6>1, DueCron DEF Once
        <5>4. CASE probe = "ld_preload"
          <6>1. kind \in {"LDP-W", "LDP-ENV"}
            BY <2>1, <5>4, KindOf
          <6>2. QED
            BY <4>3, <5>1, <5>2, <6>1, DueOther DEF Once
        <5>5. QED
          BY <1>1, <4>3, <5>3, <5>4 DEF LooksFirst
      <4>4. CASE single
        <5>1. ~ Judged(kind, p)'
          <6>1. p = Place
            BY <1>2, <2>1, <2>2, <3>2, <4>4
          <6>2. ~ Told(kind, pc')
            BY <4>4 DEF Told, Inspecting
          <6>3. QED
            BY <4>4, <6>1, <6>2 DEF Judged, Inspecting
        <5>2. QED
          BY <1>1, <3>2, <4>4, <5>1
      <4>5. QED
        BY <2>6, <4>1, <4>2, <4>3, <4>4
    <3>3. IF Places[probe][at] = p[1]
          THEN (IF Judged(kind, p) THEN Due(kind, at, p) ELSE 0) + 0
                 = IF at' = at + 1 \/ Judged(kind, p)' THEN Due(kind, at, p) ELSE 0
          ELSE 0 = 0
      BY <2>3, <3>2
    <3>4. QED
      BY <1>1, <1>3, <1>5, <2>4, <2>5, <3>1, <3>3, SettledAndOn
  <2>7. CASE shown
    <3> DEFINE c == i \in bits
               d == Once(c /\ "WETC" = kind /\ Place = p)
    <3>1. c \in BOOLEAN /\ ReportIf(c, "WETC", Place)
      BY <2>7
    <3>2. kind \in {"WETC", "WETC-D"}
      BY <2>1, <2>7, KindOf
    <3>3. d \in Nat /\ (Places[probe][at] # p[1] => d = 0)
      BY DEF Once, Place
    <3>4. ASSUME Places[probe][at] = p[1], Len(p) = 1
          PROVE  Due(kind, at, p) = d /\ (at' = at + 1 \/ Judged(kind, p)')
      <4>1. p = Place
        BY <2>2, <3>4
      <4>2. Due(kind, at, p) = d
        BY <3>2, <3>4, <4>1, DueOther DEF Once
      <4>3. at' = at + 1 \/ Judged(kind, p)'
        BY <2>7, <3>4 DEF Judged, Inspecting
      <4>4. QED
        BY <4>2, <4>3
    <3>5. ASSUME Places[probe][at] = p[1], Len(p) = 2
          PROVE  d = 0 /\ ~ (at' = at + 1 \/ Judged(kind, p)')
      <4>1. i \in Dir /\ p # Place
        BY <2>2, <3>5
      <4>2. d = 0
        BY <4>1 DEF Once
      <4>3. pc' = "opendir" /\ at' = at
        BY <1>2, <2>7, <4>1
      <4>4. ~ Judged(kind, p)'
        BY <1>1, <3>5, <4>3 DEF Judged, Inspecting
      <4>5. at' # at + 1
        BY <1>1, <4>3
      <4>6. QED
        BY <4>2, <4>4, <4>5
    <3> HIDE DEF c
    <3>6. Cardinality(Of(kind, p)) \in Nat /\ Cardinality(Of(kind, p)') = Cardinality(Of(kind, p)) + d
      BY <1>1, <3>1, CountIf
    <3> HIDE DEF d
    <3>7. IF Places[probe][at] = p[1]
          THEN (IF Judged(kind, p) THEN Due(kind, at, p) ELSE 0) + d
                 = IF at' = at + 1 \/ Judged(kind, p)' THEN Due(kind, at, p) ELSE 0
          ELSE d = 0
      BY <2>1, <2>3, <3>3, <3>4, <3>5
    <3>8. QED
      BY <1>1, <1>5, <2>4, <2>5, <2>7, <3>3, <3>6, <3>7, SettledAndOn
  <2> HIDE DEF unseen, listed, single, shown
  <2>8. QED
    BY <1>3, <2>6, <2>7
<1>6. QED
  BY <1>4, <1>5

LEMMA OpenPlaceSettles ==
  ASSUME probe \in FileProbe, FileInv, CourseOK, OpenPlace
  PROVE  CourseOK' /\ \A kind, p : Watched(kind, p) => Fits(kind, p)'
<1>1. /\ pc \in {"place", "opendir"} /\ stack = << >> /\ Sequence(chain)
      /\ at <= Len(Places[probe]) /\ at \in 1 .. Len(Places[probe])
      /\ pc = "place" => ~LooksFirst
      /\ ~ReadsOnly
      /\ UNCHANGED <<probe, total, chain, files>>
  <2>1. pc = "opendir" => ~ReadsOnly
    BY DEF CourseOK, LooksFirst, ReadsOnly
  <2>2. QED
    BY <2>1, PlaceNames DEF OpenPlace, AtPlace, FileInv, FileShape, WhereOK, ChainOK
<1> DEFINE opened == Opens(Place) /\ stack' = <<Frame(Place)>> /\ pc' = "readdir" /\ at' = at
           missed == ~Opens(Place) /\ stack' = << >> /\ pc' = "place" /\ at' = at + 1
           ended  == ~Opens(Place) /\ stack' = << >> /\ pc' = "done" /\ probe = "process"
<1>2. opened \/ missed \/ ended
  BY <1>1 DEF OpenPlace, GoOn
<1>3. CourseOK'
  <2>1. Len(<< >>) # 2 /\ bits' = bits /\ Len(<<Frame(Place)>>) # 2
    BY <1>1 DEF files
  <2>2. CASE opened
    <3>1. Len(stack') # 2 /\ ~ReadsOnly'
      BY <1>1, <2>1, <2>2 DEF ReadsOnly
    <3>2. QED
      BY <1>1, <2>1, <2>2, <3>1 DEF CourseOK, Inspecting
  <2>3. CASE missed \/ ended
    <3>1. Len(stack') # 2 /\ stack' = << >>
      BY <2>1, <2>3
    <3>2. QED
      BY <1>1, <2>1, <2>3, <3>1 DEF CourseOK, Inspecting
  <2>4. QED
    BY <1>2, <2>2, <2>3
<1>4. ASSUME NEW kind, NEW p, Watched(kind, p) PROVE Fits(kind, p)'
  <2>1. /\ kind \in Kinds[probe] \ {"PROC-WW"} /\ Subject(p) /\ p \in Seq(PathName)
        /\ Len(p) = 1 \/ Len(p) = 2
        /\ Counted(kind, p)
    BY <1>4 DEF Watched, Concerns, Subject, Fits
  <2>2. ASSUME Places[probe][at] = p[1], Len(p) = 2
        PROVE  Opens(Place) /\ p[2] \in Names(Stat(Place))
    BY <2>1, <2>2, SubjectWay
  <2>3. Judged(kind, p) <=> Len(p) = 1 /\ pc = "opendir"
    BY <1>1, <2>1, JudgedNotYet
  <2>4. Len(p) = 1 /\ pc = "place" => Due(kind, at, p) = 0
    BY <1>1, <1>4, TopSilent
  <2>5. Due(kind, at, p) \in Nat
    BY <1>4, <2>1, DueType DEF Watched
  <2>6. Cardinality(Of(kind, p)) \in Nat /\ Cardinality(Of(kind, p)') = Cardinality(Of(kind, p)) + 0
    BY <1>1, CountSilent DEF Silent
  <2>7. CASE opened
    <3>1. /\ stack' # << >> /\ stack'[1] = Frame(Place)
      BY <2>7
    <3>2. stack'[1].seen = {} /\ stack'[1].dir = Stat(Place) /\ stack'[1].listed = Names(Stat(Place))
      BY <3>1 DEF Frame
    <3>3. Place' = Place /\ Stat(Place)' = Stat(Place)
      BY <1>1, <2>7 DEF Place, Stat, files
    <3>4. Judged(kind, p)' <=> Len(p) = 1
      BY <2>7, <3>1, <3>2 DEF Judged, Inspecting
    <3>5. Inside(p)'
      BY <1>1, <2>2, <2>7, <3>1, <3>2, <3>3 DEF Inside
    <3>6. Known(p)'
      BY <2>7 DEF Known
    <3>7. at' # at + 1
      BY <1>1, <2>7
    <3>8. IF Places[probe][at] = p[1]
          THEN (IF Judged(kind, p) THEN Due(kind, at, p) ELSE 0) + 0
                 = IF at' = at + 1 \/ Judged(kind, p)' THEN Due(kind, at, p) ELSE 0
          ELSE 0 = 0
      BY <1>1, <2>3, <2>4, <2>5, <3>4, <3>7
    <3>9. pc # "done" /\ pc' # "done" /\ at' = at
      BY <1>1, <2>7
    <3>10. QED
      BY <1>1, <1>4, <2>6, <3>5, <3>6, <3>8, <3>9, SettledAndOn
  <2>8. CASE missed
    <3>1. Places[probe][at] = p[1] => Len(p) = 1
      BY <2>1, <2>2, <2>8
    <3>2. IF Places[probe][at] = p[1]
          THEN (IF Judged(kind, p) THEN Due(kind, at, p) ELSE 0) + 0
                 = IF at' = at + 1 \/ Judged(kind, p)' THEN Due(kind, at, p) ELSE 0
          ELSE 0 = 0
      BY <1>1, <2>3, <2>4, <2>5, <2>8, <3>1
    <3>3. Inside(p)' /\ Known(p)'
      BY <2>8 DEF Inside, Known
    <3>4. pc # "done" /\ pc' # "done"
      BY <1>1, <2>8
    <3>5. QED
      BY <1>1, <1>4, <2>6, <2>8, <3>2, <3>3, <3>4, SettledAndOn
  <2>9. CASE ended
    <3> DEFINE n == Len(Places[probe])
    <3>1. n = 1 /\ at = 1 /\ Places[probe]' = Places[probe]
      <4>1. n = 1
        BY <2>9, PlaceNames
      <4>2. at \in 1 .. n
        BY <1>1
      <4> HIDE DEF n
      <4>3. QED
        BY <1>1, <4>1, <4>2
    <3>2. pc = "place"
      BY <1>1, <2>9 DEF CourseOK, LooksFirst
    <3>3. Places[probe][1] = p[1] => Due(kind, 1, p) = 0 /\ Len(p) = 1
      BY <2>1, <2>2, <2>4, <2>9, <3>1, <3>2
    <3>4. \A k : Due(kind, k, p)' = Due(kind, k, p)
      BY <1>1, DueSame
    <3>5. \A k \in 1 .. n : k = 1
      BY <3>1
    <3>6. Tally(kind, p)' = [k \in 1 .. n |-> 0]
      BY <1>1, <3>3, <3>4, <3>5 DEF Tally
    <3>7. Tally(kind, p) = [k \in 1 .. n |-> 0]
      BY <3>3, <3>5 DEF Tally
    <3>8. Of(kind, p)' = Of(kind, p)
      BY <1>1 DEF Of
    <3>9. Counted(kind, p)'
      BY <2>1, <3>6, <3>7, <3>8 DEF Counted
    <3>10. Inside(p)' /\ Known(p)'
      BY <2>9 DEF Inside, Known
    <3>11. QED
      BY <3>9, <3>10 DEF Fits
  <2>10. QED
    BY <1>2, <2>7, <2>8, <2>9
<1>5. QED
  BY <1>3, <1>4

(* /etc/environment, which is read without a look.                         *)
LEMMA ReadLinesSettles ==
  ASSUME probe \in FileProbe, FileInv, CourseOK, ReadLines, pc # "text"
  PROVE  CourseOK' /\ \A kind, p : Watched(kind, p) => Fits(kind, p)'
<1> DEFINE n == IF Reads(Place) THEN Prone[Stat(Place)] ELSE 0
<1>1. /\ pc = "place" /\ at <= Len(Places[probe]) /\ probe = "ld_preload" /\ at = 3
      /\ ReportLines(n, "LDP-ENV", Place) /\ Back
      /\ UNCHANGED <<probe, stack, files>>
  BY DEF ReadLines, AtPlace, ReadsOnly
<1>2. stack = << >> /\ Sequence(chain) /\ pc' = "place" /\ at' = at + 1
  BY <1>1 DEF Back, FileInv, WhereOK, ChainOK
<1>3. n \in Nat
  BY FileProbesAssumption DEF FileProbesAssumption, Reads
<1>4. CourseOK'
  <2>1. Len(<< >>) # 2 /\ bits' = bits
    BY <1>1 DEF files
  <2>2. QED
    BY <1>1, <1>2, <2>1 DEF CourseOK, Inspecting
<1>5. ASSUME NEW kind, NEW p, Watched(kind, p) PROVE Fits(kind, p)'
  <2>1. /\ kind \in {"LDP-W", "LDP-ENV"} /\ Subject(p) /\ (Len(p) = 1 \/ Len(p) = 2)
    BY <1>1, <1>5, KindOf DEF Watched, Concerns, Subject
  <2> DEFINE d == IF "LDP-ENV" = kind /\ Place = p THEN n ELSE 0
  <2>2. d \in Nat /\ (Places[probe][at] # p[1] => d = 0)
    BY <1>3 DEF Place
  <2>3. ~ Judged(kind, p)
    BY <1>1, <1>2, <2>1, JudgedNotYet
  <2>4. ASSUME Places[probe][at] = p[1] PROVE Due(kind, at, p) = d
    <3>1. Len(p) = 1 => p = Place
      BY <2>1, <2>4, SubjectWay
    <3>2. Len(Place) = 1
      BY DEF Place
    <3>3. Len(p) = 2 => p # Place /\ Text(p) = 0
      BY <3>2 DEF Text
    <3>4. Len(p) = 1 => Text(p) = n
      BY <3>1 DEF Text, Reads
    <3> HIDE DEF n
    <3>5. Due(kind, at, p) = IF "LDP-ENV" = kind THEN Text(p) ELSE 0
      BY <1>1, <2>1, DueOther DEF Once
    <3>6. QED
      BY <2>1, <3>1, <3>3, <3>4, <3>5
  <2>5. Cardinality(Of(kind, p)) \in Nat /\ Cardinality(Of(kind, p)') = Cardinality(Of(kind, p)) + d
    <3> HIDE DEF n
    <3>1. QED
      BY <1>1, <1>2, <1>3, CountLines
  <2>6. Inside(p)' /\ Known(p)'
    BY <1>2 DEF Inside, Known
  <2> HIDE DEF d
  <2>7. IF Places[probe][at] = p[1]
        THEN (IF Judged(kind, p) THEN Due(kind, at, p) ELSE 0) + d
               = IF at' = at + 1 \/ Judged(kind, p)' THEN Due(kind, at, p) ELSE 0
        ELSE d = 0
    BY <1>2, <2>2, <2>3, <2>4
  <2>8. pc # "done" /\ pc' # "done" /\ stack' = << >>
    BY <1>1, <1>2
  <2>9. QED
    BY <1>1, <1>2, <1>5, <2>2, <2>5, <2>6, <2>7, <2>8, SettledAndOn
<1>6. QED
  BY <1>4, <1>5

LEMMA CloseProbeSettles ==
  ASSUME probe \in FileProbe, FileInv, CourseOK, CloseProbe
  PROVE  CourseOK' /\ \A kind, p : Watched(kind, p) => Fits(kind, p)'
<1>1. /\ pc = "place" /\ at > Len(Places[probe]) /\ pc' = "done" /\ chain' = Close
      /\ UNCHANGED <<probe, at, stack, files>> /\ Sequence(chain) /\ stack = << >>
      /\ at \in Int /\ Len(Places[probe]) \in Nat
  BY PlaceNames DEF CloseProbe, Finish, FileInv, FileShape, WhereOK, ChainOK
<1>2. CourseOK'
  <2>1. Len(<< >>) # 2 /\ bits' = bits
    BY <1>1 DEF files
  <2>2. QED
    BY <1>1, <2>1 DEF CourseOK, Inspecting
<1>3. ASSUME NEW kind, NEW p, Watched(kind, p) PROVE Fits(kind, p)'
  <2>1. kind \in Kinds[probe] \ {"PROC-WW"} /\ Counted(kind, p)
    BY <1>3 DEF Watched, Concerns, Fits
  <2>2. kind # "CLEAN"
    BY <1>3, <2>1, KindOf
  <2>3. Of(kind, p)' = Of(kind, p)
    BY <1>1, <2>2, CountFinish
  <2>4. \A k \in 1 .. Len(Places[probe]) : ComeBy(kind, k, p)' /\ ComeBy(kind, k, p)
    BY <1>1 DEF ComeBy
  <2>5. \A k : Due(kind, k, p)' = Due(kind, k, p)
    BY <1>1, DueSame
  <2>6. Tally(kind, p)' = Tally(kind, p)
    BY <1>1, <2>4, <2>5 DEF Tally
  <2>7. Counted(kind, p)'
    BY <2>1, <2>3, <2>6 DEF Counted
  <2>8. Inside(p)' /\ Known(p)'
    BY <1>1 DEF Inside, Known
  <2>9. QED
    BY <2>7, <2>8 DEF Fits
<1>4. QED
  BY <1>2, <1>3

LEMMA OpenHomeSettles ==
  ASSUME probe \in FileProbe, FileInv, CourseOK, OpenHome
  PROVE  CourseOK' /\ \A kind, p : Watched(kind, p) => Fits(kind, p)'
<1>1. /\ pc = "join" /\ pc' = "readdir" /\ at' = at
      /\ UNCHANGED <<probe, total, chain, child, files>>
  BY DEF OpenHome, GoOn
<1>2. PICK q \in JoinedInPlace(child) :
        stack' = IF Opens(q) THEN Append(stack, Frame(q)) ELSE stack
  BY DEF OpenHome
<1>3. /\ probe = "ssh_keys" /\ Len(stack) = 1 /\ stack # << >> /\ at = 2 /\ stack \in Seq(Frames)
      /\ Sequence(chain) /\ at \in 1 .. Len(Places[probe]) /\ at <= Len(Places[probe])
  BY <1>1, PlaceNames DEF FileInv, FileShape, WhereOK, StackOK, ChainOK, CourseOK
<1>4. PICK n \in AName : child = <<"home", n>>
  BY <1>1 DEF FileInv, WhereOK
<1>5. q = <<".ssh">> \/ Len(q) > 1
  <2>1. q = <<".ssh">> \/ q = <<"home", n, ".ssh">>
    BY <1>2, <1>4, Triple DEF JoinedInPlace
  <2>2. Len(<<"home", n, ".ssh">>) > 1
    OBVIOUS
  <2>3. QED
    BY <2>1, <2>2
<1>6. /\ stack' # << >> /\ stack'[1] = stack[1]
      /\ Len(stack') = 2 => stack'[2].path = q
  <2>1. CASE Opens(q)
    <3>1. Sequence(stack) /\ stack' = Append(stack, Frame(q))
      BY <1>2, <1>3, <2>1 DEF Sequence
    <3>2. /\ Len(stack') = Len(stack) + 1 /\ stack'[Len(stack) + 1] = Frame(q)
          /\ \A k \in 1 .. Len(stack) : stack'[k] = stack[k]
      BY <3>1, Appended
    <3>3. Len(stack') = 2 /\ stack'[1] = stack[1] /\ stack'[2] = Frame(q)
      BY <1>3, <3>2
    <3>4. Len(<< >>) # 2
      OBVIOUS
    <3>5. stack' # << >>
      BY <3>3, <3>4, Zenon
    <3>6. QED
      BY <3>3, <3>5 DEF Frame
  <2>2. CASE ~Opens(q)
    BY <1>2, <1>3, <2>2
  <2>3. QED
    BY <2>1, <2>2
<1>7. CourseOK'
  <2>1. bits' = bits /\ ~ReadsOnly'
    BY <1>1, <1>3 DEF files, ReadsOnly
  <2>2. Len(stack') = 2 => Len(stack'[2].path) > 1 \/ stack'[2].path = <<".ssh">>
    BY <1>5, <1>6
  <2>3. QED
    BY <1>1, <1>3, <2>1, <2>2 DEF CourseOK, Inspecting
<1>8. ASSUME NEW kind, NEW p, Watched(kind, p) PROVE Fits(kind, p)'
  <2>1. kind \in Kinds[probe] \ {"PROC-WW"} /\ Inside(p)
    BY <1>8 DEF Watched, Concerns, Fits
  <2>2. Judged(kind, p)' <=> Judged(kind, p)
    BY <1>1, <1>3, <1>6 DEF Judged, Inspecting
  <2>3. Inside(p)'
    <3>1. Place' = Place /\ Stat(Place)' = Stat(Place)
      BY <1>1 DEF Place, Stat, files
    <3>2. QED
      BY <1>1, <1>3, <1>6, <2>1, <3>1 DEF Inside
  <2>4. Known(p)'
    BY <1>1 DEF Known
  <2>5. Cardinality(Of(kind, p)) \in Nat /\ Cardinality(Of(kind, p)') = Cardinality(Of(kind, p)) + 0
    BY <1>1, <1>3, CountSilent DEF Silent
  <2>6. Due(kind, at, p) \in Nat /\ at' # at + 1
    BY <1>1, <1>3, <2>1, DueType
  <2>7. IF Places[probe][at] = p[1]
        THEN (IF Judged(kind, p) THEN Due(kind, at, p) ELSE 0) + 0
               = IF at' = at + 1 \/ Judged(kind, p)' THEN Due(kind, at, p) ELSE 0
        ELSE 0 = 0
    BY <2>2, <2>6
  <2>8. pc # "done" /\ pc' # "done"
    BY <1>1
  <2>9. QED
    BY <1>1, <1>3, <1>8, <2>3, <2>4, <2>5, <2>7, <2>8, SettledAndOn
<1>9. QED
  BY <1>7, <1>8

(* What reading an entry does to the open directories.                     *)
LEMMA EntryRead ==
  ASSUME FileInv, ReadEntry
  PROVE  \E n \in AName :
           /\ n \notin Last(stack).seen /\ child' = Append(Last(stack).path, n)
           /\ pc' = IF ~Wanted(n) THEN "readdir"
                    ELSE IF Last(stack).path = <<"home">> THEN "join" ELSE "lstat"
           /\ stack' # << >> /\ Len(stack') = Len(stack)
           /\ stack'[1].dir = stack[1].dir /\ stack'[1].listed = stack[1].listed
           /\ Len(stack) = 1 => stack'[1].seen = stack[1].seen \cup {n}
           /\ Len(stack) = 2 => /\ stack'[1] = stack[1]
                                /\ stack'[2].path = stack[2].path
<1> DEFINE f == Last(stack)
<1>1. stack # << >>
  BY Zenon DEF ReadEntry, FileInv, WhereOK
<1>2. PICK n \in (f.listed \cup Names(f.dir)) \ f.seen :
        /\ stack' = Append(Front(stack), [f EXCEPT !.seen = @ \cup {n}])
        /\ child' = Append(f.path, n)
        /\ pc' = IF ~Wanted(n) THEN "readdir"
                 ELSE IF f.path = <<"home">> THEN "join" ELSE "lstat"
  BY DEF ReadEntry, GoOn
<1>3. /\ Len(stack) = 1 \/ Len(stack) = 2
      /\ f = stack[Len(stack)] /\ f \in Frames /\ stack[1] \in Frames
  BY <1>1, StackTop DEF FileInv
<1> DEFINE g == [f EXCEPT !.seen = @ \cup {n}]
<1>4. n \in AName
  BY <1>3 DEF Frames, FileInv, TreeNamed
<1>5. g \in Frames /\ g.path = f.path /\ g.dir = f.dir /\ g.listed = f.listed /\ g.seen = f.seen \cup {n}
  BY <1>3, <1>4 DEF Frames
<1> DEFINE rest == Front(stack)
<1>6. /\ rest \in Seq(Frames) /\ Len(rest) = Len(stack) - 1
      /\ Len(stack) = 2 => rest[1] = stack[1]
  BY <1>1, StackRest DEF FileInv
<1>7. stack' = Append(rest, g)
  BY <1>2
<1> HIDE DEF f, g, rest
<1>8. /\ Len(stack') = Len(stack) /\ stack' # << >>
      /\ Len(stack) = 1 => stack'[1] = g
      /\ Len(stack) = 2 => stack'[1] = stack[1] /\ stack'[2] = g
  BY <1>3, <1>5, <1>6, <1>7
<1>9. /\ stack'[1].dir = stack[1].dir /\ stack'[1].listed = stack[1].listed
      /\ Len(stack) = 1 => stack'[1].seen = stack[1].seen \cup {n}
      /\ Len(stack) = 2 => stack'[1] = stack[1] /\ stack'[2].path = stack[2].path
  BY <1>3, <1>5, <1>8
<1>10. QED
  BY <1>2, <1>4, <1>8, <1>9 DEF f

(* Of an entry that is not gone into nothing is due.                       *)
LEMMA UnwantedSilent ==
  ASSUME NEW kind, NEW p, Watched(kind, p), at \in 1 .. Len(Places[probe]), Len(p) = 2,
         stack[1].path = Place, Len(stack) = 1, stack # << >>,
         ~ Wanted(p[2]) \/ Place = <<"home">>
  PROVE  Due(kind, at, p) = 0
<1>1. /\ probe \in FileProbe /\ kind \in Kinds[probe] \ {"PROC-WW"} /\ p \in Seq(PathName)
      /\ Last(stack) = stack[1]
  BY StackTop DEF Watched, Concerns, Subject, FileInv
<1>2. Class(p) = ClassOf[p[2]]
  BY <1>1, TwoNames DEF Class
<1>3. CASE Place = <<"home">>
  <2>1. probe = "ssh_keys"
    BY <1>1, <1>3, PlaceType DEF Watched, FileInv
  <2>2. Places[probe][at] = "home"
    BY <1>3 DEF Place
  <2>3. at # 1
    BY <1>1, <2>1, <2>2, PlaceNames
  <2>4. kind \in {"SSH-W", "SSH-R"}
    BY <1>1, <2>1, KindOf
  <2>5. QED
    BY <2>3, <2>4, DueOther DEF Once
<1>4. CASE ~ Wanted(p[2]) /\ Place # <<"home">>
  <2>1. \/ probe = "service" /\ at <= 3 /\ Class(p) # "service"
        \/ probe = "service" /\ at > 3 /\ Class(p) = "hidden"
        \/ probe = "ssh_keys" /\ Class(p) # "key"
        \/ probe = "process" /\ Class(p) # "pid"
    BY <1>1, <1>2, <1>4 DEF Wanted
  <2>2. CASE probe = "service"
    <3>1. kind \in {"SVC-W", "SVC-E", "SVC-SYSV"}
      BY <1>1, <2>2, KindOf
    <3>2. QED
      BY <2>1, <2>2, <3>1, DueService DEF Once
  <2>3. CASE probe \in {"ssh_keys", "process"}
    <3>1. /\ probe = "ssh_keys" => kind \in {"SSH-W", "SSH-R"}
          /\ probe = "process" => kind = "PROC-DEL"
      BY <1>1, KindOf
    <3>2. QED
      BY <2>1, <2>3, <3>1, DueOther DEF Once
  <2>4. QED
    BY <2>1, <2>2, <2>3
<1>5. QED
  BY <1>3, <1>4

LEMMA ReadEntrySettles ==
  ASSUME probe \in FileProbe, FileInv, CourseOK, ReadEntry
  PROVE  CourseOK' /\ \A kind, p : Watched(kind, p) => Fits(kind, p)'
<1> DEFINE f == Last(stack)
<1>1. /\ pc = "readdir" /\ at' = at /\ stack # << >> /\ Sequence(chain)
      /\ UNCHANGED <<probe, total, chain, files>>
      /\ at \in 1 .. Len(Places[probe]) /\ at <= Len(Places[probe])
  <2>1. /\ pc = "readdir" /\ at' = at /\ stack # << >> /\ Sequence(chain) /\ FileShape
        /\ UNCHANGED <<probe, total, chain, files>>
    BY Zenon DEF ReadEntry, GoOn, FileInv, WhereOK, ChainOK
  <2>2. QED
    BY <2>1, PlaceNames DEF FileShape
<1>2. PICK n \in AName :
        /\ n \notin f.seen /\ child' = Append(f.path, n)
        /\ pc' = IF ~Wanted(n) THEN "readdir"
                 ELSE IF f.path = <<"home">> THEN "join" ELSE "lstat"
        /\ stack' # << >> /\ Len(stack') = Len(stack)
        /\ stack'[1].dir = stack[1].dir /\ stack'[1].listed = stack[1].listed
        /\ Len(stack) = 1 => stack'[1].seen = stack[1].seen \cup {n}
        /\ Len(stack) = 2 => /\ stack'[1] = stack[1]
                             /\ stack'[2].path = stack[2].path
  BY EntryRead
<1>3. /\ Len(stack) = 1 \/ Len(stack) = 2
      /\ f = stack[Len(stack)] /\ f.path \in Seq(PathName) /\ stack[1].path = Place
      /\ Len(stack) = 2 => f.path # <<"home">>
  BY <1>1, StackTop DEF FileInv, StackOK, Frames
<1>4. Place' = Place /\ Stat(Place)' = Stat(Place) /\ Place = <<Places[probe][at]>>
  BY <1>1 DEF Place, Stat, files
<1>5. Len(stack) = 1 => f = stack[1] /\ f.path = Place /\ child' = <<Places[probe][at], n>>
  BY <1>2, <1>3, <1>4, Pair
<1>6. Len(stack) = 2 => Len(child') > 2 \/ child'[1] = ".ssh"
  <2> SUFFICES ASSUME Len(stack) = 2 PROVE Len(child') > 2 \/ child'[1] = ".ssh"
    OBVIOUS
  <2>1. f = stack[2]
    BY <1>3
  <2>2. Len(f.path) > 1 \/ f.path = <<".ssh">>
    BY <2>1 DEF CourseOK
  <2>3. CASE f.path = <<".ssh">>
    <3>1. child' = <<".ssh", n>>
      BY <1>2, <2>3, Pair
    <3>2. QED
      BY <3>1
  <2>4. CASE Len(f.path) > 1
    <3>1. Sequence(f.path)
      BY <1>3 DEF Sequence
    <3>2. Len(child') = Len(f.path) + 1 /\ Len(f.path) \in Nat
      BY <1>2, <3>1, Appended
    <3>3. QED
      BY <2>4, <3>2
  <2>5. QED
    BY <2>2, <2>3, <2>4
<1>7. Place = <<"home">> <=> Places[probe][at] = "home"
  <2>1. \A a, b : <<a>> = <<b>> => a = b
    OBVIOUS
  <2>2. QED
    BY <1>4, <2>1
<1>8. pc' \in {"readdir", "join", "lstat"}
  BY <1>2
<1> HIDE DEF f
<1>9. CourseOK'
  <2>1. ASSUME pc' = "lstat" PROVE ChildOK'
    <3>1. Wanted(n) /\ f.path # <<"home">>
      BY <1>2, <2>1
    <3>2. CASE Len(stack) = 2
      BY <1>2, <1>6, <2>1, <3>2 DEF ChildOK
    <3>3. CASE Len(stack) = 1
      <4>1. Sought(n)
        BY <3>1 DEF Wanted, Sought, f
      <4>2. Sought(n)'
        BY <1>1, <4>1 DEF Sought
      <4>3. Places[probe][at] # "home" /\ child' = <<Places[probe][at], n>> /\ n \in stack'[1].seen
        BY <1>2, <1>5, <1>7, <3>1, <3>3
      <4>4. Places[probe]'[at'] = Places[probe][at]
        BY <1>1
      <4>5. QED
        BY <1>2, <3>3, <4>2, <4>3, <4>4 DEF ChildOK
    <3>4. QED
      BY <1>3, <3>2, <3>3
  <2>2. ASSUME pc' = "join" PROVE probe = "ssh_keys" /\ at = 2
    <3>1. f.path = <<"home">> /\ Len(stack) = 1
      BY <1>2, <1>3, <2>2
    <3>2. Place = <<"home">>
      BY <1>5, <3>1
    <3>3. probe = "ssh_keys"
      BY <1>1, <3>2, PlaceType DEF FileInv
    <3>4. Len(Places[probe]) = 2 /\ Places[probe][1] = "root/.ssh"
      BY <3>3, PlaceNames
    <3>5. at = 1 \/ at = 2
      BY <1>1, <3>4
    <3>6. QED
      BY <1>7, <3>2, <3>3, <3>4, <3>5
  <2>3. bits' = bits /\ ~ReadsOnly'
    BY <1>1 DEF files, ReadsOnly, CourseOK
  <2>4. Len(stack') = 2 => probe = "ssh_keys" /\ at = 2 /\ (Len(stack'[2].path) > 1 \/ stack'[2].path = <<".ssh">>)
    BY <1>2 DEF CourseOK
  <2>5. QED
    BY <1>1, <1>8, <2>1, <2>2, <2>3, <2>4 DEF CourseOK, Inspecting
<1>10. ASSUME NEW kind, NEW p, Watched(kind, p) PROVE Fits(kind, p)'
  <2>1. /\ kind \in Kinds[probe] \ {"PROC-WW"} /\ Inside(p) /\ Subject(p) /\ p \in Seq(PathName)
        /\ p[1] \in Elements(Places[probe])
        /\ Len(p) = 1 \/ Len(p) = 2
    BY <1>10 DEF Watched, Concerns, Fits, Subject
  <2>2. Inside(p)'
    BY <1>1, <1>2, <1>4, <1>8, <2>1 DEF Inside
  <2>3. Known(p)'
    BY <1>8 DEF Known
  <2>4. Cardinality(Of(kind, p)) \in Nat /\ Cardinality(Of(kind, p)') = Cardinality(Of(kind, p)) + 0
    BY <1>1, CountSilent DEF Silent
  <2>5. Due(kind, at, p) \in Nat /\ at' # at + 1
    BY <1>1, <2>1, DueType
  <2>6. Judged(kind, p) <=> Len(p) = 1 \/ p[2] \in stack[1].seen
    BY <1>1, <2>1 DEF Judged, Inspecting
  <2>7. ASSUME Places[probe][at] = p[1]
        PROVE  (Judged(kind, p)' <=> Judged(kind, p)) \/ (~ Judged(kind, p) /\ Due(kind, at, p) = 0)
    <3>1. CASE Len(stack) = 2
      <4>1. child' # p
        <5>1. p[1] # ".ssh"
          BY <1>1, <2>1, PlaceNames
        <5> DEFINE m == Len(p)
        <5>2. m = 1 \/ m = 2
          BY <2>1
        <5> HIDE DEF m
        <5>3. ~ (m > 2)
          BY <5>2
        <5>4. QED
          BY <1>6, <3>1, <5>1, <5>3 DEF m
      <4>2. Judged(kind, p)' <=> Len(p) = 1 \/ p[2] \in stack[1].seen
        BY <1>2, <2>1, <3>1, <4>1 DEF Judged
      <4>3. QED
        BY <2>6, <4>2
    <3>2. CASE Len(stack) = 1 /\ Len(p) = 1
      <4>1. Len(child') = 2
        BY <1>5, <3>2
      <4>2. child' # p
        BY <3>2, <4>1
      <4>3. QED
        BY <1>2, <2>6, <3>2, <4>2 DEF Judged
    <3>3. CASE Len(stack) = 1 /\ Len(p) = 2
      <4>1. p = <<Places[probe][at], p[2]>>
        BY <2>1, <2>7, <3>3, SubjectWay
      <4>2. child'[2] = n
        BY <1>5, <3>3
      <4>3. CASE p[2] # n
        <5>1. child' # p
          BY <4>2, <4>3
        <5>2. Judged(kind, p)' <=> p[2] \in stack[1].seen
          BY <1>2, <3>3, <4>3, <5>1 DEF Judged
        <5>3. QED
          BY <2>6, <3>3, <5>2
      <4>4. CASE p[2] = n
        <5>1. child' = p
          BY <1>5, <3>3, <4>1, <4>4
        <5>2. ~ Judged(kind, p)
          BY <1>2, <1>5, <2>6, <3>3, <4>4
        <5>3. CASE pc' = "lstat"
          <6>1. ~ Judged(kind, p)'
            BY <5>1, <5>3 DEF Judged, Told, Inspecting
          <6>2. QED
            BY <5>2, <6>1
        <5>4. CASE pc' # "lstat"
          <6>1. ~ Wanted(p[2]) \/ Place = <<"home">>
            BY <1>2, <1>5, <3>3, <4>4, <5>4
          <6>2. Due(kind, at, p) = 0
            BY <1>1, <1>3, <1>10, <3>3, <6>1, UnwantedSilent
          <6>3. QED
            BY <5>2, <6>2
        <5>5. QED
          BY <5>3, <5>4
      <4>5. QED
        BY <4>3, <4>4
    <3>4. QED
      BY <1>3, <2>1, <3>1, <3>2, <3>3
  <2>8. IF Places[probe][at] = p[1]
        THEN (IF Judged(kind, p) THEN Due(kind, at, p) ELSE 0) + 0
               = IF at' = at + 1 \/ Judged(kind, p)' THEN Due(kind, at, p) ELSE 0
        ELSE 0 = 0
    BY <2>5, <2>7
  <2>9. pc # "done" /\ pc' # "done"
    BY <1>1, <1>8
  <2>10. QED
    BY <1>1, <1>10, <2>2, <2>3, <2>4, <2>8, <2>9, SettledAndOn
<1>11. QED
  BY <1>9, <1>10

LEMMA CloseDirSettles ==
  ASSUME probe \in FileProbe, FileInv, CourseOK, CloseDir
  PROVE  CourseOK' /\ \A kind, p : Watched(kind, p) => Fits(kind, p)'
<1>1. /\ pc = "readdir" /\ stack' = Front(stack) /\ stack # << >> /\ Sequence(chain)
      /\ Full \/ Exhausted(Last(stack))
      /\ UNCHANGED <<probe, total, chain, child, files>>
      /\ IF Len(stack) = 1 THEN pc' = "place" /\ at' = at + 1 ELSE UNCHANGED <<pc, at>>
      /\ at \in 1 .. Len(Places[probe]) /\ at <= Len(Places[probe])
  <2>1. /\ pc = "readdir" /\ stack' = Front(stack) /\ stack # << >> /\ Sequence(chain) /\ FileShape
        /\ Full \/ Exhausted(Last(stack))
        /\ UNCHANGED <<probe, total, chain, child, files>>
        /\ IF Len(stack) = 1 THEN pc' = "place" /\ at' = at + 1 ELSE UNCHANGED <<pc, at>>
    BY Zenon DEF CloseDir, FileInv, WhereOK, ChainOK
  <2>2. at \in 1 .. Len(Places[probe]) /\ at <= Len(Places[probe])
    BY <2>1, PlaceNames DEF FileShape
  <2>3. QED
    BY <2>1, <2>2
<1>2. /\ Len(stack) = 1 \/ Len(stack) = 2
      /\ Len(stack) = 1 => Last(stack) = stack[1]
  BY <1>1, StackTop DEF FileInv
<1>3. /\ stack' \in Seq(Frames) /\ Len(stack') = Len(stack) - 1
      /\ Len(stack) = 2 => stack'[1] = stack[1]
  BY <1>1, StackRest DEF FileInv
<1>4. /\ Len(stack) = 1 => stack' = << >> /\ pc' = "place" /\ at' = at + 1
      /\ Len(stack) = 2 => stack' # << >> /\ Len(stack') = 1 /\ pc' = "readdir" /\ at' = at
  <2>1. Len(stack) = 1 => stack' = << >>
    BY <1>3
  <2>2. Len(stack) = 2 => Len(stack') = 1
    BY <1>3
  <2>3. Len(<< >>) # 1
    OBVIOUS
  <2>4. Len(stack') = 1 => stack' # << >>
    BY <2>3, Zenon
  <2>5. QED
    BY <1>1, <2>1, <2>2, <2>4
<1>5. CourseOK'
  <2>1. bits' = bits /\ Len(<< >>) # 2
    BY <1>1 DEF files
  <2>2. CASE Len(stack) = 1
    BY <1>4, <2>1, <2>2 DEF CourseOK, Inspecting
  <2>3. CASE Len(stack) = 2
    <3>1. ~ReadsOnly' /\ Len(stack') # 2
      BY <1>1, <1>4, <2>3 DEF CourseOK, ReadsOnly
    <3>2. QED
      BY <1>4, <2>1, <2>3, <3>1 DEF CourseOK, Inspecting
  <2>4. QED
    BY <1>2, <2>2, <2>3
<1>6. ASSUME NEW kind, NEW p, Watched(kind, p) PROVE Fits(kind, p)'
  <2>1. /\ kind \in Kinds[probe] \ {"PROC-WW"} /\ Inside(p) /\ Subject(p) /\ ~Full
        /\ Len(p) = 1 \/ Len(p) = 2
    BY <1>6 DEF Watched, Concerns, Fits, Subject
  <2>2. Cardinality(Of(kind, p)) \in Nat /\ Cardinality(Of(kind, p)') = Cardinality(Of(kind, p)) + 0
    BY <1>1, CountSilent DEF Silent
  <2>3. Known(p)'
    BY <1>2, <1>4 DEF Known
  <2>4. Inside(p)'
    <3>1. CASE Len(stack) = 1
      BY <1>4, <3>1 DEF Inside
    <3>2. CASE Len(stack) = 2
      <4>1. Place' = Place /\ Stat(Place)' = Stat(Place)
        BY <1>1, <1>4, <3>2 DEF Place, Stat, files
      <4>2. QED
        BY <1>1, <1>3, <1>4, <2>1, <3>2, <4>1 DEF Inside
    <3>3. QED
      BY <1>2, <3>1, <3>2
  <2>5. ASSUME Places[probe][at] = p[1]
        PROVE  (at' = at + 1 \/ Judged(kind, p)') <=> Judged(kind, p)
    <3>1. CASE Len(stack) = 1
      <4>1. ASSUME Len(p) = 2 PROVE p[2] \in stack[1].seen
        <5>1. stack[1].dir = Stat(Place) /\ p[2] \in stack[1].listed
          BY <1>1, <2>1, <2>5, <4>1 DEF Inside
        <5>2. p[2] \in Names(Stat(Place))
          BY <2>1, <2>5, <4>1, SubjectWay
        <5>3. Exhausted(stack[1])
          BY <1>1, <1>2, <2>1, <3>1
        <5>4. QED
          BY <5>1, <5>2, <5>3 DEF Exhausted
      <4>2. Judged(kind, p)
        BY <1>1, <2>1, <4>1 DEF Judged, Inspecting
      <4>3. QED
        BY <1>4, <3>1, <4>2
    <3>2. CASE Len(stack) = 2
      <4>1. Judged(kind, p)' <=> Judged(kind, p)
        BY <1>1, <1>3, <1>4, <3>2 DEF Judged, Inspecting
      <4>2. at' # at + 1
        BY <1>1, <1>4, <3>2
      <4>3. QED
        BY <4>1, <4>2
    <3>3. QED
      BY <1>2, <3>1, <3>2
  <2>6. Due(kind, at, p) \in Nat
    BY <2>1, DueType
  <2>7. IF Places[probe][at] = p[1]
        THEN (IF Judged(kind, p) THEN Due(kind, at, p) ELSE 0) + 0
               = IF at' = at + 1 \/ Judged(kind, p)' THEN Due(kind, at, p) ELSE 0
        ELSE 0 = 0
    BY <2>5, <2>6
  <2>8. pc # "done" /\ pc' # "done" /\ (at' = at \/ (at' = at + 1 /\ pc' = "place" /\ stack' = << >>))
    BY <1>1, <1>2, <1>4
  <2>9. QED
    BY <1>1, <1>6, <2>2, <2>3, <2>4, <2>7, <2>8, SettledAndOn
<1>7. QED
  BY <1>5, <1>6

(***************************************************************************)
(* The counter of findings only grows.                                     *)
(***************************************************************************)
LEMMA Grown ==
  ASSUME total \in Nat, NEW K, NEW path,
         \/ \E c \in BOOLEAN : ReportIf(c, K, path)
         \/ \E n \in Nat : ReportLines(n, K, path)
  PROVE  total' \in Nat /\ total' >= total
<1>1. ASSUME NEW c \in BOOLEAN, ReportIf(c, K, path) PROVE total' \in Nat /\ total' >= total
  <2> DEFINE t == IF c THEN <<Found(K, path)>> ELSE << >>
  <2>1. Len(t) \in Nat
    BY AtMostOne
  <2>2. total' = total + Len(t)
    BY <1>1 DEF ReportIf, Report
  <2> HIDE DEF t
  <2>3. QED
    BY <2>1, <2>2
<1>2. ASSUME NEW n \in Nat, ReportLines(n, K, path) PROVE total' \in Nat /\ total' >= total
  <2> DEFINE t == [k \in 1 .. n |-> Found(K, path)]
  <2>1. Len(t) = n
    BY Repeated
  <2>2. total' = total + Len(t)
    BY <1>2 DEF ReportLines, Report
  <2> HIDE DEF t
  <2>3. QED
    BY <2>1, <2>2
<1>3. QED
  BY <1>1, <1>2

LEMMA StepGrows ==
  ASSUME probe \in FileProbe, FileInv, FileStep
  PROVE  /\ total' \in Nat /\ total' >= total
         /\ UNCHANGED <<probe, offline, files>>
<1>1. UNCHANGED <<probe, offline, files>>
  BY Zenon DEF FileStep, LookAtPlace, OpenPlace, ReadEntry, CloseDir, OpenHome, Look, FollowLink,
     InspectFile, ReadLines, ReadUnit, ReadExe, StatExec, Block, CloseProbe, Finish
<1> DEFINE grows == total' \in Nat /\ total' >= total
<1>2. total \in Nat
  BY DEF FileInv, ChainOK
<1>3. total' = total => grows
  BY <1>2
<1>4. ASSUME NEW K, NEW path, NEW c \in BOOLEAN, ReportIf(c, K, path) PROVE grows
  BY <1>2, <1>4, Grown
<1>5. ASSUME NEW K, NEW path, NEW n \in Nat, ReportLines(n, K, path) PROVE grows
  BY <1>2, <1>5, Grown
<1> HIDE DEF grows
<1>6. ASSUME LookAtPlace \/ FollowLink PROVE grows
  <2>1. /\ (Lstat(Place) \in bits) \in BOOLEAN
        /\ (Stat(child) \in bits) \in BOOLEAN
    OBVIOUS
  <2>2. \/ total' = total
        \/ ReportIf(Lstat(Place) \in bits, "WETC", Place)
        \/ ReportIf(Stat(child) \in bits, "CRON-SYM", child)
    BY <1>6, Zenon DEF LookAtPlace, FollowLink, Silent
  <2>3. QED
    BY <1>3, <1>4, <2>1, <2>2
<1>7. ASSUME OpenPlace \/ ReadEntry \/ CloseDir \/ OpenHome \/ Block \/ CloseProbe \/ ReadUnit PROVE grows
  BY <1>3, <1>7, Zenon DEF OpenPlace, ReadEntry, CloseDir, OpenHome, Block, CloseProbe, Finish,
     ReadUnit, Silent
<1>8. ASSUME Look PROVE grows
  <2> DEFINE i == Lstat(child)
  <2>1. /\ (i \in bits) \in BOOLEAN /\ (i \in bits \cup Link) \in BOOLEAN
    OBVIOUS
  <2>2. CASE LookCron \/ ReadStatus
    BY <1>3, <2>2 DEF LookCron, ReadStatus, Silent
  <2>3. CASE LookUnit
    <3>1. ReportIf(i \in bits, "SVC-W", child)
      BY <2>3 DEF LookUnit
    <3>2. QED
      BY <1>4, <2>1, <3>1
  <2>4. CASE LookOnce
    <3>1. CASE probe = "service"
      <4>1. ReportIf(i \in bits, "SVC-SYSV", child)
        BY <2>4, <3>1 DEF LookOnce
      <4>2. QED
        BY <1>4, <2>1, <4>1
    <3>2. CASE probe = "ld_preload"
      <4>1. ReportIf(i \in bits \cup Link, "LDP-W", child)
        BY <2>4, <3>2 DEF LookOnce
      <4>2. QED
        BY <1>4, <2>1, <4>1
    <3>3. CASE probe = "writable_etc"
      <4>1. ReportIf(i \in bits \cup Link, "WETC-D", child)
        BY <2>4, <3>3 DEF LookOnce
      <4>2. QED
        BY <1>4, <2>1, <4>1
    <3>4. CASE probe = "ssh_keys"
      <4>1. IF i \in bits \cap (File \ Fifo) THEN ReportIf(TRUE, "SSH-W", child) ELSE ReportIf(i \in Lax, "SSH-R", child)
        BY <2>4, <3>4 DEF LookOnce
      <4>2. (i \in Lax) \in BOOLEAN /\ TRUE \in BOOLEAN
        OBVIOUS
      <4> HIDE DEF i
      <4>3. CASE i \in bits \cap (File \ Fifo)
        BY <1>4, <4>1, <4>2, <4>3, Zenon
      <4>4. CASE i \notin bits \cap (File \ Fifo)
        BY <1>4, <4>1, <4>2, <4>4, Zenon
      <4>5. QED
        BY <4>3, <4>4
    <3>5. QED
      BY <2>4, <3>1, <3>2, <3>3, <3>4 DEF LookOnce
  <2>5. QED
    BY <1>8, <2>2, <2>3, <2>4 DEF Look
<1>9. ASSUME InspectFile PROVE grows
  <2>1. /\ (Lstat(child) \in bits) \in BOOLEAN
        /\ (Lstat(child) \in bits \cup Link) \in BOOLEAN
    OBVIOUS
  <2>2. \/ ReportIf(Lstat(child) \in bits, "CRON", child)
        \/ ReportIf(Lstat(child) \in bits \cup Link, "LDP-W", child)
    BY <1>9 DEF InspectFile, Relook
  <2>3. QED
    BY <1>4, <2>1, <2>2
<1>10. ASSUME ReadLines PROVE grows
  <2> DEFINE path == IF pc = "text" THEN child ELSE Place
             n == IF Reads(path) THEN Prone[Stat(path)] ELSE 0
  <2>1. n \in Nat
    BY FileProbesAssumption DEF FileProbesAssumption, Reads
  <2>2. ReportLines(n, IF probe = "cron" THEN "CRON-WILD" ELSE "LDP-ENV", path)
    BY <1>10 DEF ReadLines
  <2> HIDE DEF n, path
  <2>3. QED
    BY <1>5, <2>1, <2>2
<1>11. ASSUME ReadExe PROVE grows
  <2>1. \/ total' = total
        \/ \E q : ReportIf(SaysDeleted(q), "PROC-DEL", child)
        \/ ReportIf(TRUE, "PROC-DEL", child)
    BY <1>11, Zenon DEF ReadExe, Silent
  <2>2. (\A q : SaysDeleted(q) \in BOOLEAN) /\ TRUE \in BOOLEAN
    BY DEF SaysDeleted
  <2>3. QED
    BY <1>3, <1>4, <2>1, <2>2
<1>12. ASSUME StatExec PROVE grows
  <2>1. PICK w \in IF offline THEN BOOLEAN ELSE {Stat(exec) \in bits} :
          ReportIf(w, "SVC-E", child) \/ ReportIf(w, "PROC-WW", exec)
    BY <1>12, Zenon DEF StatExec
  <2>2. w \in BOOLEAN
    <3>1. CASE offline
      BY <3>1, Zenon
    <3>2. CASE ~offline
      BY <3>2
    <3>3. QED
      BY <3>1, <3>2
  <2>3. QED
    BY <1>4, <2>1, <2>2, Zenon
<1>13. grows
  BY <1>6, <1>7, <1>8, <1>9, <1>10, <1>11, <1>12 DEF FileStep
<1>14. QED
  BY <1>1, <1>13 DEF grows

(* A path that matters afterwards mattered before.                         *)
LEMMA ConcernsBack ==
  ASSUME UNCHANGED <<probe, offline, files>>, total \in Nat, total' \in Nat, total' >= total,
         pc' # "held" => pc # "held", NEW kind, NEW p, Concerns(kind, p)'
  PROVE  Concerns(kind, p)
<1>1. /\ Lstat(p)' = Lstat(p) /\ Steady(p)' = Steady(p)
      /\ Subject(p) /\ kind \in Kinds[probe] \ {"PROC-WW"}
  BY DEF Concerns, Subject, Lstat, Stat, Steady, files
<1>2. Untouched(kind, p)
  BY DEF Concerns, Untouched, Steady, Stat, Lstat, files
<1>3. ~Full
  BY FileProbesAssumption DEF Concerns, Full, FileProbesAssumption
<1>4. QED
  BY <1>1, <1>2, <1>3 DEF Concerns

(* A probe that is held takes no step, and one that comes to be held has   *)
(* nothing to account for.                                                 *)
LEMMA HeldStays == ASSUME FileStep, pc' # "held" PROVE pc # "held"
  BY DEF FileStep, LookAtPlace, OpenPlace, ReadEntry, CloseDir, OpenHome, Look, FollowLink,
     InspectFile, ReadLines, ReadUnit, ReadExe, StatExec, Block, CloseProbe, AtPlace

LEMMA BlockJudges == ASSUME FileInv, CourseOK, Block PROVE CourseOK' /\ pc' = "held"
<1>1. /\ pc' = "held" /\ bits' = bits
      /\ UNCHANGED <<probe, at, stack, child>>
  BY DEF Block, files
<1>2. ReadsOnly' = ReadsOnly
  BY <1>1 DEF ReadsOnly
<1>3. QED
  BY <1>1, <1>2 DEF CourseOK, Inspecting

(***************************************************************************)
(* One step of the probe, whatever it looks at.                            *)
(***************************************************************************)
LEMMA StepJudges ==
  ASSUME probe \in FileProbe, FileInv, ExactInv, FileStep
  PROVE  ExactInv'
<1>1. CourseOK
  BY DEF ExactInv
<1>2. CourseOK' /\ \A kind, p : pc' # "held" /\ Watched(kind, p) => Fits(kind, p)'
  <2>1. CASE Look
    <3>1. /\ pc = "lstat" /\ UNCHANGED <<probe, offline, stack, child, exec, files, past>>
          /\ LookCron \/ LookUnit \/ LookOnce \/ ReadStatus
      BY <2>1, Zenon DEF Look
    <3>2. QED
      BY <1>1, <3>1, LookCronJudges, LookUnitJudges, LookOnceJudges, ReadStatusJudges
  <2>2. CASE ReadLines
    BY <1>1, <2>2, ReadLinesJudges, ReadLinesSettles
  <2>3. CASE LookAtPlace \/ OpenPlace \/ ReadEntry \/ CloseDir \/ OpenHome \/ CloseProbe
    BY <1>1, <2>3, LookAtPlaceSettles, OpenPlaceSettles, ReadEntrySettles, CloseDirSettles,
       OpenHomeSettles, CloseProbeSettles
  <2>4. CASE FollowLink \/ InspectFile \/ ReadUnit \/ ReadExe \/ StatExec
    BY <1>1, <2>4, FollowLinkJudges, InspectFileJudges, ReadUnitJudges, ReadExeJudges, StatExecJudges
  <2>5. CASE Block
    BY <1>1, <2>5, BlockJudges
  <2>6. QED
    BY <2>1, <2>2, <2>3, <2>4, <2>5 DEF FileStep
<1>3. ASSUME NEW kind, NEW p, Concerns(kind, p)' PROVE Fits(kind, p)'
  <2>1. total \in Nat /\ total' \in Nat /\ total' >= total /\ UNCHANGED <<probe, offline, files>>
    BY StepGrows DEF FileInv, ChainOK
  <2>2. pc' # "held" => pc # "held"
    BY HeldStays
  <2>3. Concerns(kind, p)
    BY <1>3, <2>1, <2>2, ConcernsBack
  <2>4. Watched(kind, p)
    BY <1>1, <2>3 DEF Watched, ExactInv
  <2>5. QED
    BY <1>2, <1>3, <2>4 DEF Concerns
<1>4. QED
  BY <1>2, <1>3 DEF ExactInv

-----------------------------------------------------------------------------

(***************************************************************************)
(* What others do to other files changes neither what is due of a path     *)
(* they leave alone nor what has been reported of it.                      *)
(***************************************************************************)
LEMMA LeftAlone ==
  ASSUME probe \in FileProbe, FileInv, ExactInv,
         UNCHANGED inspecting, Leaves, moved' = {} => entries' = entries,
         bits' \subseteq File \cup Dir
  PROVE  ExactInv'
<1>1. UNCHANGED <<probe, pc, total, chain, offline, at, stack, child, exec>>
  BY DEF inspecting
<1>2. /\ Place' = Place /\ Full' = Full /\ LooksFirst' = LooksFirst /\ ReadsOnly' = ReadsOnly
      /\ \A n : Sought(n)' = Sought(n)
  BY <1>1 DEF Place, Full, LooksFirst, ReadsOnly, Sought
<1>3. CourseOK'
  <2>1. CourseOK
    BY DEF ExactInv
  <2>2. ChildOK => ChildOK'
    BY <1>1, <1>2 DEF ChildOK
  <2>3. QED
    BY <1>1, <1>2, <2>1, <2>2 DEF CourseOK
<1>4. ASSUME NEW kind, NEW p, Concerns(kind, p)' PROVE Fits(kind, p)'
  <2>1. /\ kind \in Kinds[probe] \ {"PROC-WW"}
        /\ p \in Seq(PathName) /\ (Len(p) = 1 \/ Len(p) = 2)
        /\ p[1] \in Elements(Places[probe]) /\ Lstat(p)' \in Inode
        /\ Steady(p)' /\ Untouched(kind, p)' /\ ~Full /\ pc # "held"
    BY <1>1, <1>2, <1>4 DEF Concerns, Subject
  <2>2. /\ Untouched(kind, p) /\ Lstat(p)' = Lstat(p) /\ Stat(p)' = Stat(p)
        /\ \A k : Due(kind, k, p)' = Due(kind, k, p)
    BY <1>1, <2>1, DueKept
  <2>3. Fits(kind, p)
    <3>1. Steady(p)
      BY <2>2 DEF Untouched
    <3>2. Concerns(kind, p)
      BY <2>1, <2>2, <3>1 DEF Concerns, Subject
    <3>3. QED
      BY <3>2 DEF ExactInv
  <2>4. Inside(p)'
    <3>1. ASSUME Len(p) = 2, Places[probe][at] = p[1] PROVE Stat(Place)' = Stat(Place)
      <4>1. SubSeq(p, 1, 1) = Place
        BY <2>1, <3>1, TwoNames DEF Place
      <4>2. 1 \in 0 .. Len(p)
        BY <3>1
      <4>3. Stat(SubSeq(p, 1, 1))' = Stat(SubSeq(p, 1, 1))
        BY <2>1, <4>2, SteadyBack
      <4>4. PICK q : q = Place
        OBVIOUS
      <4>5. StatIn(entries', q) = StatIn(entries, q)
        BY <4>1, <4>3, <4>4 DEF Stat
      <4>6. QED
        BY <1>2, <4>4, <4>5 DEF Stat
    <3>2. Inside(p)
      BY <2>3 DEF Fits
    <3>3. QED
      BY <1>1, <3>1, <3>2 DEF Inside
  <2>5. Known(p)'
    <3>1. Known(p)
      BY <2>3 DEF Fits
    <3>2. QED
      BY <1>1, <2>2, <3>1 DEF Known
  <2>6. Counted(kind, p)'
    <3>1. Of(kind, p)' = Of(kind, p)
      BY <1>1 DEF Of
    <3>2. \A k : ComeBy(kind, k, p)' = ComeBy(kind, k, p)
      BY <1>1 DEF ComeBy, Judged, Told
    <3>3. Tally(kind, p)' = Tally(kind, p)
      BY <1>1, <2>2, <3>2 DEF Tally
    <3>4. QED
      BY <2>3, <3>1, <3>3 DEF Fits, Counted
  <2>7. QED
    BY <2>4, <2>5, <2>6 DEF Fits
<1>5. QED
  BY <1>3, <1>4 DEF ExactInv

LEMMA OthersLeave ==
  ASSUME probe \in FileProbe, FileInv, ExactInv, Others PROVE ExactInv'
<1> DEFINE names == UNION {DOMAIN Trees[probe][d] : d \in Dir}
<1>1. UNCHANGED inspecting /\ Change(names)
  BY DEF Others
<1> HIDE DEF names
<1>2. Leaves
  BY <1>1, ChangeLeaves DEF FileInv, TreeNamed
<1>3. moved' = {} => entries' = entries
  BY <1>1, NoneMoved
<1>4. bits' \subseteq File \cup Dir
  <2>1. bits \subseteq File \cup Dir
    BY DEF ExactInv, CourseOK
  <2>2. CASE Chmod
    <3>1. PICK f \in File : bits' = SymDiff(bits, {f})
      BY <2>2, Zenon DEF Chmod
    <3>2. QED
      BY <2>1, <3>1 DEF SymDiff
  <2>3. CASE Unlink \/ Symlink(names) \/ Rename(names)
    BY <2>1, <2>3, Zenon DEF Unlink, Symlink, Rename
  <2>4. QED
    BY <1>1, <2>2, <2>3 DEF Change
<1>5. QED
  BY <1>1, <1>2, <1>3, <1>4, LeftAlone

LEMMA StutterLeaves ==
  ASSUME probe \in FileProbe, FileInv, ExactInv, UNCHANGED vars PROVE ExactInv'
<1>1. UNCHANGED inspecting /\ UNCHANGED files
  BY DEF vars, looking, inspecting
<1>2. Leaves /\ entries' = entries /\ bits' = bits
  BY <1>1 DEF Leaves, files
<1>3. QED
  BY <1>1, <1>2, LeftAlone DEF ExactInv, CourseOK

(* At the start nothing is due yet and nothing is reported.                *)
LEMMA ExactInitially == ASSUME FileInit PROVE ExactInv
<1>1. /\ probe \in FileProbe /\ pc = "place" /\ chain = << >> /\ at = 1
      /\ stack = << >> /\ bits = Marked
  BY DEF FileInit, TreeInit
<1>2. CourseOK
  <2>1. Len(<< >>) # 2
    OBVIOUS
  <2>2. QED
    BY <1>1, <2>1, FileProbesAssumption DEF CourseOK, Inspecting, FileProbesAssumption
<1>3. ASSUME NEW kind, NEW p, Concerns(kind, p) PROVE Fits(kind, p)
  <2>1. Inside(p) /\ Known(p)
    BY <1>1 DEF Inside, Known
  <2>2. Of(kind, p) = {}
    BY <1>1 DEF Of
  <2>3. /\ Len(Tally(kind, p)) = Len(Places[probe]) /\ Len(Places[probe]) \in Nat
        /\ ~ Judged(kind, p)
    BY <1>1, <1>3, TallyType, PlaceNames, JudgedNotYet DEF Concerns
  <2>4. \A k \in 1 .. Len(Places[probe]) : Tally(kind, p)[k] = 0
    BY <1>1, <2>3 DEF Tally, ComeBy
  <2>5. Total(Tally(kind, p)) = 0
    BY <2>3, <2>4, TotalOfZeros
  <2>6. QED
    BY <2>1, <2>2, <2>5, FS_EmptySet DEF Fits, Counted
<1>4. QED
  BY <1>2, <1>3 DEF ExactInv

(***************************************************************************)
(* For any file system and however often others change it meanwhile, what  *)
(* they leave alone is reported as often as it deserves: once for each     *)
(* time its place is listed.                                               *)
(***************************************************************************)
THEOREM JudgedExactly == Spec => []Exact
<1> DEFINE Exactly == probe \in FileProbe => ExactInv
<1>1. Init => Exactly
  BY ExactInitially, Sorts DEF Init, FactInit
<1>2. IInv /\ Exactly /\ [Next]_vars => Exactly'
  <2> SUFFICES ASSUME IInv, Exactly, [Next]_vars, probe' \in FileProbe PROVE ExactInv'
    OBVIOUS
  <2>1. probe' = probe
    BY Zenon DEF Next, Step, OthersStep, FileStep, FactStep, Others, inspecting, vars,
       LookAtPlace, OpenPlace, ReadEntry, CloseDir, OpenHome, Look, FollowLink, InspectFile,
       ReadLines, ReadUnit, ReadExe, StatExec, Block, CloseProbe, Finish, GiveUp, Open, Wait,
       Examine, Conclude
  <2>2. probe \in FileProbe /\ probe \notin FactProbe /\ FileInv /\ ExactInv
    BY <2>1, Sorts DEF IInv
  <2>3. FileStep \/ Others \/ UNCHANGED vars
    BY <2>2 DEF Next, Step, OthersStep
  <2>4. QED
    BY <2>2, <2>3, StepJudges, OthersLeave, StutterLeaves
<1>3. IInv /\ Exactly => Exact
  <2> SUFFICES ASSUME probe \in FileProbe, FileInv, ExactInv, pc = "done", ~Full,
                      NEW p \in PathsOf(Trees[probe]), Len(p) \in 1 .. 2,
                      p[1] \in Range(Places[probe]),
                      NEW kind \in Kinds[probe] \ {"PROC-WW"},
                      Lstat(p) \in Inode, Untouched(kind, p)
               PROVE  Cardinality(Of(kind, p))
                        = Total([k \in 1 .. Len(Places[probe]) |->
                                   IF Places[probe][k] = p[1] THEN Due(kind, k, p) ELSE 0])
    BY DEF IInv, Exact, ExactWhereSteady
  <2>1. p \in Seq(PathName)
    <3>1. \A d \in Dir : DOMAIN Trees[probe][d] \subseteq PathName
      BY FileProbesAssumption DEF FileProbesAssumption, AName, PathName
    <3>2. QED
      BY <3>1, PathsType
  <2>2. p[1] \in Elements(Places[probe])
    BY PlacesType DEF Range, Elements
  <2>3. Concerns(kind, p)
    <3>1. Len(p) = 1 \/ Len(p) = 2
      OBVIOUS
    <3>2. QED
      BY <2>1, <2>2, <3>1 DEF Concerns, Subject, Untouched
  <2>4. Counted(kind, p)
    BY <2>3 DEF ExactInv, Fits
  <2>5. \A k : ComeBy(kind, k, p)
    BY DEF ComeBy
  <2>6. QED
    BY <2>4, <2>5 DEF Counted, Tally
<1> HIDE DEF Exactly
<1>4. QED
  BY <1>1, <1>2, <1>3, Invariant, PTL DEF Spec

-----------------------------------------------------------------------------

(***************************************************************************)
(* The types, CLEAN, and the probes that go by facts.                      *)
(***************************************************************************)

(* A link that stands for something found.                                 *)
Good(e) == e.kind # "CLEAN" /\ e.weight \in 1 .. 99 /\ e.severity \in 1 .. 4

(* What is found of an item.                                               *)
AtMost1(s) == s = << >> \/ \E f : Good(f) /\ s = <<f>>

-----------------------------------------------------------------------------

(* What is assumed of the hosts: the types of what the probes read.        *)
LEMMA HostTypes ==
  ASSUME host \in Hosts[probe]
  PROVE  /\ probe = "kernel_vuln" => host.version = Unread \/ host.version \in Nat \X Nat \X Nat
         /\ probe = "kernel_hardening" => \A k \in DOMAIN host.values : host.values[k] \in Int
         /\ probe = "polkit" => host.version \in Seq(Nat) /\ host.rules \subseteq 1 .. 3
         /\ probe = "groups" => host.group \in Seq(GroupLine)
         /\ probe = "sudoers" => host.rules \in Seq(AWord \X AWord \X AWord)
         /\ probe = "nfs" => host.exists \in BOOLEAN /\ host.exports \in Seq(AnExport)
         /\ probe = "writable_path" => host.path \in Seq(STRING) /\ host.writable \subseteq STRING \ {""}
         /\ probe = "suid" => host.files \in Seq(SuidFile)
         /\ probe = "world_writable" => host.files \in Seq(Seq(STRING))
         /\ probe = "capabilities" => host.files \in Seq(CapFile)
  BY FactProbesAssumption, Zenon DEF FactProbesAssumption

LEMMA GoodFinding ==
  ASSUME NEW kind, kind # "CLEAN", NEW path, NEW w \in 1 .. 99, NEW v \in 1 .. 4, NEW words
  PROVE  LET f == Finding(kind, path, w, v, words) IN
         /\ Good(f) /\ f.kind = kind /\ f.path = path
         /\ f.weight = w /\ f.severity = v /\ f.words = words
  BY DEF Finding, Good

(* The tables.                                                             *)
LEMMA CvesType ==
  /\ Len(CVES) = 7
  /\ \A k \in 1 .. 7 :
       CVES[k].cve # "CLEAN" /\ CVES[k].weight \in 1 .. 99 /\ CVES[k].severity \in 1 .. 4
  BY SMTT(30) DEF CVES, Cve

LEMMA ChecksType ==
  /\ Len(CHECKS) = 10
  /\ \A k \in 1 .. 10 :
       CHECKS[k].want \in 0 .. 3 /\ CHECKS[k].weight \in 1 .. 99 /\ CHECKS[k].severity \in 1 .. 4
  BY SMTT(30) DEF CHECKS, Check

LEMMA GroupsType ==
  /\ Len(PRIV_GROUPS) = 14
  /\ \A k \in 1 .. 14 : PRIV_GROUPS[k].weight \in 1 .. 99 /\ PRIV_GROUPS[k].severity \in 1 .. 4
  BY SMTT(30) DEF PRIV_GROUPS, Group

LEMMA KernelShape == ASSUME NEW k \in 1 .. 7 PROVE AtMost1(KernelFindings(k))
<1> DEFINE c == CVES[k]
<1>1. c.cve # "CLEAN" /\ c.weight \in 1 .. 99 /\ c.severity \in 1 .. 4
  BY CvesType
<1>2. \/ KernelFindings(k) = << >>
      \/ KernelFindings(k) = <<Finding(c.cve, << >>, c.weight, c.severity, {})>>
  BY SMTT(30) DEF KernelFindings, FoundIf
<1> HIDE DEF c
<1>3. Good(Finding(c.cve, << >>, c.weight, c.severity, {}))
  BY <1>1, GoodFinding
<1>4. QED
  BY <1>2, <1>3 DEF AtMost1

LEMMA HardeningShape == ASSUME NEW k \in 1 .. 10 PROVE AtMost1(HardeningFindings(k))
<1> DEFINE c == CHECKS[k]
<1>1. c.weight \in 1 .. 99 /\ c.severity \in 1 .. 4
  BY ChecksType
<1>2. \/ HardeningFindings(k) = << >>
      \/ HardeningFindings(k) = <<Finding("KHARD", <<k>>, c.weight, c.severity, {})>>
  BY SMTT(30) DEF HardeningFindings, FoundIf
<1> HIDE DEF c
<1>3. Good(Finding("KHARD", <<k>>, c.weight, c.severity, {}))
  BY <1>1, GoodFinding
<1>4. QED
  BY <1>2, <1>3 DEF AtMost1

LEMMA GroupShape == ASSUME NEW k \in 1 .. 14 PROVE AtMost1(GroupFindings(k))
<1> DEFINE g == PRIV_GROUPS[k]
<1>1. g.weight \in 1 .. 99 /\ g.severity \in 1 .. 4
  BY GroupsType
<1>2. \/ GroupFindings(k) = << >>
      \/ GroupFindings(k) = <<Finding("GRP", <<g.name>>, g.weight, g.severity, {g.name} \cap Keyword)>>
  BY SMTT(30) DEF GroupFindings, FoundIf
<1> HIDE DEF g
<1>3. Good(Finding("GRP", <<g.name>>, g.weight, g.severity, {g.name} \cap Keyword))
  BY <1>1, GoodFinding
<1>4. QED
  BY <1>2, <1>3 DEF AtMost1

(* The first finding of polkit on a host, and its second, which no version *)
(* leads to.                                                               *)
LEMMA PolkitShape ==
  ASSUME host.version \in Seq(Nat), NEW k \in 1 .. 4 PROVE AtMost1(PolkitFindings(k))
<1> DEFINE maj == Part(host.version, 1)
           old == maj = 120 \/ (maj = 121 /\ Part(host.version, 2) < 4)
           first == Finding("PKEXEC-CVE-2021-4034", << >>, 99, 4, {})
<1>1. maj \in Nat
  BY DEF Part
<1>2. CASE k = 1
  <2>1. FoundIf(host.suid /\ maj >= 122 /\ old, "PKEXEC-OLD", << >>, 70, 3, {}) = << >>
    BY <1>1 DEF FoundIf
  <2>2. FoundIf(host.suid /\ maj < 122, "PKEXEC-CVE-2021-4034", << >>, 99, 4, {}) \in {<< >>, <<first>>}
    BY DEF FoundIf
  <2>3. PolkitFindings(k) =
          FoundIf(host.suid /\ maj < 122, "PKEXEC-CVE-2021-4034", << >>, 99, 4, {})
            \o FoundIf(host.suid /\ maj >= 122 /\ old, "PKEXEC-OLD", << >>, 70, 3, {})
    BY <1>2 DEF PolkitFindings
  <2> DEFINE a == FoundIf(host.suid /\ maj < 122, "PKEXEC-CVE-2021-4034", << >>, 99, 4, {})
             b == FoundIf(host.suid /\ maj >= 122 /\ old, "PKEXEC-OLD", << >>, 70, 3, {})
  <2>4. b = << >> /\ a \in {<< >>, <<first>>} /\ PolkitFindings(k) = a \o b
    BY <2>1, <2>2, <2>3, Zenon
  <2> HIDE DEF a, b, first
  <2>5. << >> \o << >> = << >> /\ <<first>> \o << >> = <<first>>
    OBVIOUS
  <2>6. PolkitFindings(k) = << >> \/ PolkitFindings(k) = <<first>>
    BY <2>4, <2>5
  <2>7. Good(first)
    BY DEF Good, Finding, first
  <2>8. QED
    BY <2>6, <2>7 DEF AtMost1
<1>3. CASE k # 1
  <2>1. \/ PolkitFindings(k) = << >>
        \/ PolkitFindings(k) = <<Finding("POLKIT-RULES", <<k - 1>>, 95, 4, {})>>
    BY <1>3 DEF PolkitFindings, FoundIf
  <2>2. Good(Finding("POLKIT-RULES", <<k - 1>>, 95, 4, {}))
    BY DEF Good, Finding
  <2>3. QED
    BY <2>1, <2>2 DEF AtMost1
<1>4. QED
  BY <1>2, <1>3

(* Of the others, the links an item may yield are few.                     *)
LEMMA SudoersShape == ASSUME NEW k PROVE AtMost1(SudoersFindings(k))
<1> DEFINE a == Finding("SUDO", <<k>>, 95, 4, {})
           b == Finding("SUDO", <<k>>, 60, 3, {})
<1>1. SudoersFindings(k) = << >> \/ SudoersFindings(k) = <<a>> \/ SudoersFindings(k) = <<b>>
  BY Zenon DEF SudoersFindings, FoundIf
<1>2. Good(a) /\ Good(b)
  BY DEF Good, Finding
<1> HIDE DEF a, b
<1>3. QED
  BY <1>1, <1>2 DEF AtMost1

LEMMA NfsShape == ASSUME NEW k PROVE AtMost1(NfsFindings(k))
<1> DEFINE a == Finding("NFS", <<k>>, 99, 4, {})
           b == Finding("NFS", <<k>>, 60, 3, {})
<1>1. NfsFindings(k) = << >> \/ NfsFindings(k) = <<a>> \/ NfsFindings(k) = <<b>>
  BY Zenon DEF NfsFindings, FoundIf
<1>2. Good(a) /\ Good(b)
  BY DEF Good, Finding
<1> HIDE DEF a, b
<1>3. QED
  BY <1>1, <1>2 DEF AtMost1

LEMMA PathShape == ASSUME NEW k PROVE AtMost1(PathFindings(k))
<1> DEFINE f(w, v) == Finding("WPATH", <<k>>, w, v, {})
<1>1. \/ PathFindings(k) = << >> \/ PathFindings(k) = <<f(98, 4)>>
      \/ PathFindings(k) = <<f(90, 3)>> \/ PathFindings(k) = <<f(75, 3)>>
  BY DEF PathFindings, FoundIf
<1>2. Good(f(98, 4)) /\ Good(f(90, 3)) /\ Good(f(75, 3))
  BY DEF Good, Finding
<1> HIDE DEF f
<1>3. QED
  BY <1>1, <1>2 DEF AtMost1

LEMMA SuidShape == ASSUME NEW k PROVE AtMost1(SuidFindings(k))
<1> DEFINE f(w, v) == Finding("SUID", <<k>>, w, v, {})
<1>1. \/ SuidFindings(k) = << >>
      \/ SuidFindings(k) = <<f(95, 4)>> \/ SuidFindings(k) = <<f(85, 3)>>
      \/ SuidFindings(k) = <<f(50, 2)>> \/ SuidFindings(k) = <<f(30, 1)>>
  BY DEF SuidFindings, FoundIf
<1>2. Good(f(95, 4)) /\ Good(f(85, 3)) /\ Good(f(50, 2)) /\ Good(f(30, 1))
  BY DEF Good, Finding
<1> HIDE DEF f
<1>3. QED
  BY <1>1, <1>2 DEF AtMost1

LEMMA WorldShape == ASSUME NEW k PROVE AtMost1(WorldFindings(k))
<1> DEFINE i == k - Len(host.files)
           f(w, v) == Finding("WW", host.files[k], w, v, {})
           g == Finding("STICKY", STICKY_DIRS[i], 85, 3, {})
<1>1. CASE k > Len(host.files)
  <2>1. WorldFindings(k) = << >> \/ WorldFindings(k) = <<g>>
    BY <1>1 DEF WorldFindings, FoundIf
  <2>2. Good(g)
    BY DEF Good, Finding
  <2> HIDE DEF g
  <2>3. QED
    BY <2>1, <2>2 DEF AtMost1
<1>2. CASE ~ (k > Len(host.files))
  <2>1. \/ WorldFindings(k) = <<f(95, 4)>> \/ WorldFindings(k) = <<f(85, 3)>>
        \/ WorldFindings(k) = <<f(70, 2)>> \/ WorldFindings(k) = <<f(50, 1)>>
    BY <1>2 DEF WorldFindings, FoundIf
  <2>2. Good(f(95, 4)) /\ Good(f(85, 3)) /\ Good(f(70, 2)) /\ Good(f(50, 1))
    BY DEF Good, Finding
  <2> HIDE DEF f
  <2>3. QED
    BY <2>1, <2>2 DEF AtMost1
<1>3. QED
  BY <1>1, <1>2

LEMMA CapShape == ASSUME NEW k PROVE AtMost1(CapFindings(k))
<1> DEFINE words == CapWords(DecodeCaps(host.files[k]))
           a == Finding("CAP", <<k>>, 90, 3, words)
           b == Finding("CAP", <<k>>, 50, 2, words)
           c == Finding("CAP-PROC-BND", << >>, 60, 2, {})
<1>1. \/ CapFindings(k) = << >> \/ CapFindings(k) = <<c>>
      \/ CapFindings(k) = <<a>> \/ CapFindings(k) = <<b>>
  BY Zenon DEF CapFindings, FoundIf
<1> HIDE DEF words
<1>2. Good(a) /\ Good(b) /\ Good(c)
  BY DEF Good, Finding
<1> HIDE DEF a, b, c
<1>3. QED
  BY <1>1, <1>2 DEF AtMost1

(***************************************************************************)
(* Every item yields one good link or none.                                *)
(***************************************************************************)
LEMMA FindingsShape ==
  ASSUME probe \in FactProbe, host \in Hosts[probe], NEW k \in 1 .. Items
  PROVE  AtMost1(Findings(k))
<1>1. CASE probe = "kernel_vuln"
  BY <1>1, KernelShape, CvesType DEF Findings, Items
<1>2. CASE probe = "kernel_hardening"
  BY <1>2, HardeningShape, ChecksType DEF Findings, Items
<1>3. CASE probe = "polkit"
  <2>1. host.version \in Seq(Nat)
    BY <1>3, HostTypes
  <2>2. QED
    BY <1>3, <2>1, PolkitShape DEF Findings, Items
<1>4. CASE probe = "groups"
  BY <1>4, GroupShape, GroupsType DEF Findings, Items
<1>5. CASE probe = "sudoers"
  BY <1>5, SudoersShape DEF Findings
<1>6. CASE probe = "nfs"
  BY <1>6, NfsShape DEF Findings
<1>7. CASE probe = "writable_path"
  BY <1>7, PathShape DEF Findings
<1>8. CASE probe = "suid"
  BY <1>8, SuidShape DEF Findings
<1>9. CASE probe = "world_writable"
  BY <1>9, WorldShape DEF Findings
<1>10. CASE probe = "capabilities"
  BY <1>10, CapShape DEF Findings
<1>11. QED
  BY <1>1, <1>2, <1>3, <1>4, <1>5, <1>6, <1>7, <1>8, <1>9, <1>10 DEF FactProbe

-----------------------------------------------------------------------------

(* The verdict on a chain of good links, ...                               *)
LEMMA VerdictOfFindings ==
  ASSUME Sequence(chain), \A e \in Elements(chain) : Good(e)
  PROVE  ChainVerdict = IF chain = << >> THEN "UNCERTAIN" ELSE "DETERMINISTIC"
<1> DEFINE n == Len(chain)
           w(v) == [k \in 1 .. n |-> IF VerdictOf(chain[k]) = v THEN chain[k].weight ELSE 0]
<1>1. n \in Nat /\ (chain = << >> <=> n = 0)
  BY DEF Sequence
<1>2. \A k \in 1 .. n : VerdictOf(chain[k]) = "DETERMINISTIC" /\ chain[k].weight \in Nat \ {0}
  <2>1. \A k \in 1 .. n : chain[k] \in Elements(chain)
    BY DEF Elements
  <2>2. \A e : Good(e) => VerdictOf(e) = "DETERMINISTIC" /\ e.weight \in Nat \ {0}
    BY DEF Good, VerdictOf
  <2>3. QED
    BY <2>1, <2>2
<1>3. \A v \in {"REJECT", "UNCERTAIN"} : \A k \in 1 .. n : w(v)[k] = 0
  BY <1>2
<1>4. \A k \in 1 .. n : w("DETERMINISTIC")[k] \in Nat \ {0}
  BY <1>2
<1>5. \A v : w(v) \in [1 .. n -> Nat]
  BY <1>2
<1>6. \A v : DOMAIN w(v) = 1 .. n
  OBVIOUS
<1>7. ChainVerdict = Plurality([v \in Verdict |-> Total(w(v))])
  BY DEF ChainVerdict
<1> HIDE DEF w
<1>8. \A v : Len(w(v)) = n
  BY <1>1, <1>5, <1>6, SeqDef, LenProperties
<1>9. Total(w("REJECT")) = 0 /\ Total(w("UNCERTAIN")) = 0
  BY <1>1, <1>3, <1>8, TotalOfZeros
<1>10. CASE chain = << >>
  <2>1. Total(w("DETERMINISTIC")) = 0
    BY <1>1, <1>8, <1>10, TotalOfZeros
  <2>2. QED
    BY <1>7, <1>9, <1>10, <2>1 DEF Plurality, Verdict
<1>11. CASE chain # << >>
  <2>1. Total(w("DETERMINISTIC")) \in Nat /\ Total(w("DETERMINISTIC")) > 0
    BY <1>1, <1>4, <1>8, <1>11, TotalOfPositive
  <2>2. QED
    BY <1>7, <1>9, <1>11, <2>1 DEF Plurality, Verdict
<1>12. QED
  BY <1>10, <1>11

(* ... and on CLEAN alone.                                                 *)
LEMMA VerdictOfClean == ASSUME chain = <<Clean>> PROVE ChainVerdict = "REJECT"
<1> DEFINE w(v) == [k \in 1 .. 1 |-> IF VerdictOf(Clean) = v THEN 10 ELSE 0]
<1>1. Len(chain) = 1 /\ chain[1] = Clean /\ Clean.weight = 10 /\ VerdictOf(Clean) = "REJECT"
  BY DEF Clean, Finding, VerdictOf
<1> DEFINE z(v) == [k \in 1 .. Len(chain) |-> IF VerdictOf(chain[k]) = v THEN chain[k].weight ELSE 0]
<1>2. \A v : z(v) = w(v)
  BY <1>1
<1>3. ChainVerdict = Plurality([v \in Verdict |-> Total(w(v))])
  <2>1. ChainVerdict = Plurality([v \in Verdict |-> Total(z(v))])
    BY DEF ChainVerdict
  <2> HIDE DEF z, w
  <2>2. QED
    BY <1>2, <2>1
<1>4. \A v : w(v) \in [1 .. 1 -> Nat] /\ DOMAIN w(v) = 1 .. 1
  OBVIOUS
<1>5. /\ w("REJECT")[1] = 10
      /\ \A v \in {"DETERMINISTIC", "UNCERTAIN"} : w(v)[1] = 0
  BY <1>1
<1> HIDE DEF w
<1>6. \A v : Len(w(v)) = 1
  BY <1>4, SeqDef, LenProperties
<1>7. Total(w("DETERMINISTIC")) = 0 /\ Total(w("UNCERTAIN")) = 0
  BY <1>5, <1>6, TotalOfZeros
<1>8. Total(w("REJECT")) \in Nat /\ Total(w("REJECT")) > 0
  BY <1>5, <1>6, TotalOfPositive
<1>9. QED
  BY <1>3, <1>7, <1>8 DEF Plurality, Verdict

-----------------------------------------------------------------------------

(***************************************************************************)
(* What the chain of a probe of either sort is made of.                    *)
(***************************************************************************)
AloneInv ==
  /\ Sequence(chain) /\ total \in Nat /\ total <= Len(chain)
  /\ pc # "done" => total = Len(chain) /\ \A e \in Elements(chain) : Good(e)
  /\ pc = "done" => chain = <<Clean>> \/ \A e \in Elements(chain) : Good(e)
  /\ pc = "open" => chain = << >>

(* Nothing, or something good, is added on the way.                        *)
Grows == \E s : Sequence(s) /\ (\A e \in Elements(s) : Good(e)) /\ Report(s)

LEMMA GrowsAlone ==
  ASSUME AloneInv, pc # "done", pc' \notin {"done", "open"}, Grows \/ UNCHANGED <<chain, total>>
  PROVE  AloneInv'
<1>1. CASE Grows
  <2>1. PICK s : Sequence(s) /\ (\A e \in Elements(s) : Good(e)) /\ Report(s)
    BY <1>1 DEF Grows
  <2>2. /\ Sequence(chain') /\ Len(chain') = Len(chain) + Len(s)
        /\ Elements(chain') \subseteq Elements(chain) \cup Elements(s)
        /\ Len(chain) \in Nat /\ Len(s) \in Nat /\ total' = total + Len(s)
    BY <2>1, Joined DEF Report, AloneInv
  <2>3. \A e \in Elements(chain') : Good(e)
    BY <2>1, <2>2 DEF AloneInv
  <2>4. QED
    BY <2>2, <2>3 DEF AloneInv, Elements
<1>2. CASE UNCHANGED <<chain, total>>
  BY <1>2 DEF AloneInv, Elements
<1>3. QED
  BY <1>1, <1>2

LEMMA FinishAlone == ASSUME AloneInv, pc # "done", Finish PROVE AloneInv'
<1>1. pc' = "done" /\ total' = total /\ chain' = Close
  BY DEF Finish
<1>2. CASE probe \in HasClean /\ total = 0
  <2>1. chain = << >>
    BY <1>2 DEF AloneInv, Sequence
  <2>2. chain' = <<Clean>>
    BY <1>1, <1>2, <2>1 DEF Close
  <2>3. Sequence(<<Clean>>)
    <3>1. \A x : <<x>> \in Seq({x})
      OBVIOUS
    <3>2. QED
      BY <3>1 DEF Sequence
  <2>4. Len(<<Clean>>) = 1
    OBVIOUS
  <2>5. QED
    BY <1>1, <1>2, <2>2, <2>3, <2>4 DEF AloneInv
<1>3. CASE ~ (probe \in HasClean /\ total = 0)
  BY <1>1, <1>3 DEF Close, AloneInv, Elements
<1>4. QED
  BY <1>2, <1>3

(***************************************************************************)
(* A chain so made tells findings from their absence.                      *)
(***************************************************************************)
LEMMA AloneTells == ASSUME AloneInv PROVE CleanStandsAlone
<1> SUFFICES ASSUME pc = "done" PROVE CleanStandsAlone
  BY DEF CleanStandsAlone
<1> DEFINE found == \E k \in 1 .. Len(chain) : chain[k].kind # "CLEAN"
<1>1. Clean.kind = "CLEAN"
  BY DEF Clean, Finding
<1>2. CASE chain = <<Clean>>
  <2>1. ~ found /\ chain # << >>
    BY <1>1, <1>2
  <2>2. QED
    BY <1>2, <2>1, VerdictOfClean DEF CleanStandsAlone
<1>3. CASE chain # <<Clean>>
  <2>1. Sequence(chain) /\ \A e \in Elements(chain) : Good(e)
    BY <1>3 DEF AloneInv
  <2>2. DOMAIN chain = 1 .. Len(chain) /\ Len(chain) \in Nat /\ (chain = << >> <=> Len(chain) = 0)
    BY <2>1 DEF Sequence
  <2>3. \A k \in 1 .. Len(chain) : chain[k].kind # "CLEAN"
    BY <2>1 DEF Elements, Good
  <2>4. found <=> chain # << >>
    BY <2>2, <2>3
  <2>5. Clean \notin Range(chain)
    BY <1>1, <2>2, <2>3 DEF Range
  <2>6. ChainVerdict = IF chain = << >> THEN "UNCERTAIN" ELSE "DETERMINISTIC"
    BY <2>1, VerdictOfFindings
  <2> HIDE DEF found
  <2>7. /\ ChainVerdict = "REJECT" <=> chain = <<Clean>>
        /\ ChainVerdict = "DETERMINISTIC" <=> found
        /\ ChainVerdict = "UNCERTAIN" <=> chain = << >>
        /\ found => Clean \notin Range(chain)
    BY <1>3, <2>4, <2>5, <2>6
  <2>8. QED
    BY <2>7, Zenon DEF CleanStandsAlone, found
<1>4. QED
  BY <1>2, <1>3

-----------------------------------------------------------------------------

(* All that the probes which look at files find is good.                   *)
FileKinds ==
  {"CRON", "CRON-SYM", "CRON-WILD", "SVC-W", "SVC-E", "SVC-SYSV", "LDP-W", "LDP-ENV",
   "WETC", "WETC-D", "SSH-W", "SSH-R", "PROC-DEL", "PROC-WW"}

LEMMA FoundGood == ASSUME NEW kind \in FileKinds, NEW path PROVE Good(Found(kind, path))
<1>1. Grade(kind).weight \in 1 .. 99 /\ Grade(kind).severity \in 1 .. 4 /\ kind # "CLEAN"
  BY DEF Grade, Graded, FileKinds
<1>2. QED
  BY <1>1 DEF Found, Finding, Good

LEMMA ReportGrows ==
  /\ Report(<< >>) => Grows
  /\ \A kind \in FileKinds : \A path : Report(<<Found(kind, path)>>) => Grows
<1>1. Sequence(<< >>) /\ Elements(<< >>) = {}
  <2>1. << >> \in Seq({}) /\ Len(<< >>) = 0
    OBVIOUS
  <2>2. QED
    BY <2>1 DEF Sequence, Elements
<1>2. ASSUME NEW kind \in FileKinds, NEW path PROVE Report(<<Found(kind, path)>>) => Grows
  <2> DEFINE f == Found(kind, path)
  <2>1. Good(f)
    BY FoundGood
  <2> HIDE DEF f
  <2> DEFINE s == <<f>>
  <2>2. s \in Seq({f}) /\ Len(s) = 1 /\ s[1] = f
    OBVIOUS
  <2>3. Report(<<f>>) => Report(s)
    OBVIOUS
  <2> HIDE DEF s
  <2>4. Sequence(s) /\ \A e \in Elements(s) : Good(e)
    BY <2>1, <2>2 DEF Sequence, Elements
  <2>5. Report(s) => Grows
    BY <2>4 DEF Grows
  <2>6. QED
    BY <2>3, <2>5 DEF f
<1>3. QED
  BY <1>1, <1>2 DEF Grows

LEMMA LinesGrow ==
  ASSUME NEW n \in Nat, NEW kind \in FileKinds, NEW path, ReportLines(n, kind, path)
  PROVE  Grows
<1> DEFINE s == [k \in 1 .. n |-> Found(kind, path)]
<1>1. Sequence(s) /\ \A e \in Elements(s) : e = Found(kind, path)
  BY Repeated
<1>2. Report(s)
  BY DEF ReportLines
<1> HIDE DEF s
<1>3. QED
  BY <1>1, <1>2, FoundGood DEF Grows

(* A step of a probe that looks at files.                                  *)
LEMMA FileStepAlone ==
  ASSUME probe \in FileProbe, FileInv, AloneInv, FileStep
  PROVE  AloneInv'
<1> DEFINE Fine == pc # "done" /\ pc' \notin {"done", "open"} /\ (Grows \/ UNCHANGED <<chain, total>>)
<1>1. ASSUME Fine PROVE AloneInv'
  BY <1>1, GrowsAlone
<1>2. CASE LookAtPlace
  <2>1. pc = "place" /\ pc' \notin {"done", "open"}
    BY <1>2 DEF LookAtPlace, AtPlace, Back, GoOn
  <2>2. Silent \/ Report(<< >>) \/ Report(<<Found("WETC", Place)>>)
    BY <1>2 DEF LookAtPlace, ReportIf
  <2>3. QED
    BY <1>1, <2>1, <2>2, ReportGrows DEF Silent, FileKinds
<1>3. CASE OpenPlace
  <2>1. pc # "done" /\ pc' # "open" /\ UNCHANGED <<chain, total>>
    BY <1>3 DEF OpenPlace, AtPlace, GoOn
  <2>2. CASE pc' = "done"
    BY <2>1, <2>2 DEF AloneInv, Elements
  <2>3. CASE pc' # "done"
    BY <1>1, <2>1, <2>3
  <2>4. QED
    BY <2>2, <2>3
<1>4. CASE ReadEntry
  BY <1>1, <1>4 DEF ReadEntry, GoOn
<1>5. CASE CloseDir
  BY <1>1, <1>5 DEF CloseDir
<1>6. CASE OpenHome
  BY <1>1, <1>6 DEF OpenHome, GoOn
<1>7. CASE Look
  <2>1. pc = "lstat"
    BY <1>7 DEF Look
  <2>2. CASE LookCron
    BY <1>1, <2>1, <2>2 DEF LookCron, GoOn, Back, Silent
  <2>3. CASE LookUnit
    BY <1>1, <2>1, <2>3, ReportGrows DEF LookUnit, GoOn, Back, ReportIf, FileKinds
  <2>4. CASE LookOnce
    BY <1>1, <2>1, <2>4, ReportGrows DEF LookOnce, Back, ReportIf, FileKinds
  <2>5. CASE ReadStatus
    BY <1>1, <2>1, <2>5 DEF ReadStatus, GoOn, Back, Silent
  <2>6. QED
    BY <1>7, <2>2, <2>3, <2>4, <2>5 DEF Look
<1>8. CASE FollowLink
  BY <1>1, <1>8, ReportGrows DEF FollowLink, Back, ReportIf, FileKinds
<1>9. CASE InspectFile
  BY <1>1, <1>9, ReportGrows DEF InspectFile, GoOn, Back, ReportIf, FileKinds
<1>10. CASE ReadLines
  <2> DEFINE path == IF pc = "text" THEN child ELSE Place
             n == IF Reads(path) THEN Prone[Stat(path)] ELSE 0
             kind == IF probe = "cron" THEN "CRON-WILD" ELSE "LDP-ENV"
  <2>1. ReportLines(n, kind, path)
    BY <1>10 DEF ReadLines
  <2>2. n \in Nat
    BY FileProbesAssumption DEF FileProbesAssumption, Reads
  <2>3. kind \in FileKinds
    BY DEF FileKinds
  <2>4. pc # "done" /\ pc' \notin {"done", "open"}
    BY <1>10 DEF ReadLines, AtPlace, Back
  <2> HIDE DEF n, kind, path
  <2>5. QED
    BY <1>1, <2>1, <2>2, <2>3, <2>4, LinesGrow
<1>11. CASE ReadUnit
  BY <1>1, <1>11 DEF ReadUnit, GoOn, Back, Silent
<1>12. CASE ReadExe
  <2>1. pc = "exe" /\ pc' \notin {"done", "open"}
    BY <1>12 DEF ReadExe, GoOn, Back
  <2>2. Silent \/ Report(<< >>) \/ Report(<<Found("PROC-DEL", child)>>)
    BY <1>12 DEF ReadExe, ReportIf
  <2>3. QED
    BY <1>1, <2>1, <2>2, ReportGrows DEF Silent, FileKinds
<1>13. CASE StatExec
  <2>1. pc = "exec" /\ pc' \notin {"done", "open"}
    BY <1>13 DEF StatExec, Back
  <2>2. \/ Report(<< >>)
        \/ Report(<<Found("SVC-E", child)>>) \/ Report(<<Found("PROC-WW", exec)>>)
    BY <1>13 DEF StatExec, ReportIf
  <2>3. QED
    BY <1>1, <2>1, <2>2, ReportGrows DEF FileKinds
<1>14. CASE CloseProbe
  BY <1>14, FinishAlone DEF CloseProbe
<1>15. CASE Block
  BY <1>1, <1>15, OpensSomething DEF Block
<1>16. QED
  BY <1>2, <1>3, <1>4, <1>5, <1>6, <1>7, <1>8, <1>9, <1>10, <1>11, <1>12, <1>13, <1>14, <1>15
  DEF FileStep

-----------------------------------------------------------------------------

(***************************************************************************)
(* What the chain of a probe that goes by facts holds: each finding of the *)
(* first n items, and nothing else.                                        *)
(***************************************************************************)
Gathered(n) == \A e : e \in Elements(chain) <=> \E j \in 1 .. n : Findings(j) = <<e>>

(* What the probe has returned: all there is to find, ...                  *)
Complete ==
  /\ Readable /\ Gathered(Items)
  /\ probe \in HasClean => chain # << >>

(* ... or that there was nothing, ...                                      *)
FoundClean ==
  /\ chain = <<Clean>> /\ probe \in HasClean
  /\ Readable => \A j \in 1 .. Items : Findings(j) = << >>
  /\ ~Readable => probe = "nfs"

(* ... or neither.                                                         *)
GaveUp == chain = << >> /\ ~Readable /\ probe # "nfs"

FactInv ==
  /\ host \in Hosts[probe]
  /\ pc \in {"open", "item", "held", "done"}
  /\ item \in 1 .. Items + 1 /\ total <= item - 1
  /\ pc = "open" => item = 1
  /\ pc = "item" => Readable
  /\ pc # "done" => Gathered(item - 1)
  /\ pc = "done" => Complete \/ FoundClean \/ GaveUp

(* Who the user is, of the user database.                                  *)
LEMMA SameUser == ASSUME UNCHANGED <<probe, host>> PROVE UserName' = UserName
<1> DEFINE lines == {k \in 1 .. Len(host.passwd) : host.passwd[k].uid = host.uid}
<1>1. lines' = lines
  OBVIOUS
<1>2. UserName = IF lines = {} THEN NoUser ELSE host.passwd[Min(lines)].name
  BY DEF UserName
<1>3. UserName' = IF lines' = {} THEN NoUser' ELSE host'.passwd[Min(lines')].name
  BY DEF UserName
<1> HIDE DEF lines
<1>4. QED
  BY <1>1, <1>2, <1>3 DEF NoUser

LEMMA SameGroup ==
  ASSUME UNCHANGED <<probe, host>>
  PROVE  \A user, group : InGroup(user, group)' = InGroup(user, group)
<1> SUFFICES ASSUME NEW user, NEW group PROVE InGroup(user, group)' = InGroup(user, group)
  OBVIOUS
<1> DEFINE lines == {k \in 1 .. Len(host.group) : host.group[k].name = group}
           l == host.group[Min(lines)]
<1>1. lines' = lines
  OBVIOUS
<1>2. InGroup(user, group) =
        IF lines = {} THEN [exists |-> FALSE, gid |-> NoGid, member |-> FALSE]
        ELSE [exists |-> TRUE, gid |-> l.gid, member |-> user \in FirstPiece(l.members)]
  BY DEF InGroup
<1>3. InGroup(user, group)' =
        IF lines' = {} THEN [exists |-> FALSE, gid |-> NoGid, member |-> FALSE]
        ELSE [exists |-> TRUE, gid |-> l'.gid, member |-> user \in FirstPiece(l'.members)]
  BY DEF InGroup
<1> HIDE DEF lines
<1>4. l' = l
  BY <1>1
<1>5. QED
  BY <1>1, <1>2, <1>3, <1>4, Zenon

(* What there is to read, the items and what is found of them, are the     *)
(* same as long as the host is.                                            *)
LEMMA SameFacts ==
  ASSUME UNCHANGED <<probe, host>>
  PROVE  /\ Readable' = Readable /\ Items' = Items
         /\ \A k : Findings(k)' = Findings(k)
<1>1. Readable' = Readable
  BY SameUser DEF Readable, Unread
<1>2. Items' = Items
  BY DEF Items, PathDirs, CVES, CHECKS, PRIV_GROUPS, STICKY_DIRS, DefaultPath
<1>3. ASSUME NEW k PROVE Findings(k)' = Findings(k)
  <2>1. KernelFindings(k)' = KernelFindings(k)
    BY DEF KernelFindings
  <2>2. HardeningFindings(k)' = HardeningFindings(k)
    BY DEF HardeningFindings, ReadInt
  <2>3. PolkitFindings(k)' = PolkitFindings(k)
    BY DEF PolkitFindings
  <2>4. GroupFindings(k)' = GroupFindings(k)
    BY SameUser, SameGroup, SMTT(30) DEF GroupFindings
  <2>5. SudoersFindings(k)' = SudoersFindings(k)
    BY SameUser, SameGroup, ZenonT(30) DEF SudoersFindings, MatchesUser
  <2>6. NfsFindings(k)' = NfsFindings(k)
    BY DEF NfsFindings
  <2>7. PathFindings(k)' = PathFindings(k)
    BY DEF PathFindings, PathDirs
  <2>8. SuidFindings(k)' = SuidFindings(k)
    BY DEF SuidFindings
  <2>9. WorldFindings(k)' = WorldFindings(k)
    BY DEF WorldFindings
  <2>10. CapFindings(k)' = CapFindings(k)
    BY DEF CapFindings
  <2> QED
    BY <2>1, <2>2, <2>3, <2>4, <2>5, <2>6, <2>7, <2>8, <2>9, <2>10 DEF Findings
<1>4. QED
  BY <1>1, <1>2, <1>3

(* The number of items.                                                    *)
LEMMA ItemsType == ASSUME probe \in FactProbe, host \in Hosts[probe] PROVE Items \in Nat
<1>1. CASE probe = "kernel_vuln"
  BY <1>1, CvesType DEF Items
<1>2. CASE probe = "sudoers"
  BY <1>2, HostTypes DEF Items
<1>3. CASE probe = "nfs"
  BY <1>3, HostTypes DEF Items
<1>4. CASE probe = "writable_path"
  <2>1. host.path \in Seq(STRING)
    BY <1>4, HostTypes
  <2>2. Len(DefaultPath) = 3
    BY DEF DefaultPath
  <2>3. QED
    BY <1>4, <2>1, <2>2 DEF Items, PathDirs
<1>5. CASE probe = "suid"
  BY <1>5, HostTypes DEF Items
<1>6. CASE probe = "world_writable"
  <2>1. host.files \in Seq(Seq(STRING))
    BY <1>6, HostTypes
  <2>2. Len(host.files) \in Nat
    BY <2>1
  <2>3. Len(STICKY_DIRS) = 5
    BY DEF STICKY_DIRS
  <2>4. QED
    BY <1>6, <2>2, <2>3 DEF Items
<1>7. CASE probe = "capabilities"
  <2>1. host.files \in Seq(CapFile)
    BY <1>7, HostTypes
  <2>2. QED
    BY <1>7, <2>1 DEF Items
<1>8. CASE probe = "kernel_hardening"
  BY <1>8, ChecksType DEF Items
<1>9. CASE probe = "polkit"
  BY <1>9 DEF Items
<1>10. CASE probe = "groups"
  BY <1>10, GroupsType DEF Items
<1>11. QED
  BY <1>1, <1>2, <1>3, <1>4, <1>5, <1>6, <1>7, <1>8, <1>9, <1>10 DEF FactProbe

-----------------------------------------------------------------------------

(* The chain one finding makes, and none.                                  *)
LEMMA Short ==
  /\ Sequence(<< >>) /\ Elements(<< >>) = {} /\ Len(<< >>) = 0
  /\ \A x : Sequence(<<x>>) /\ Elements(<<x>>) = {x} /\ Len(<<x>>) = 1
<1>1. Sequence(<< >>) /\ Elements(<< >>) = {} /\ Len(<< >>) = 0
  <2>1. << >> \in Seq({}) /\ Len(<< >>) = 0
    OBVIOUS
  <2>2. QED
    BY <2>1 DEF Sequence, Elements
<1>2. ASSUME NEW x PROVE Sequence(<<x>>) /\ Elements(<<x>>) = {x} /\ Len(<<x>>) = 1
  <2> DEFINE s == <<x>>
  <2>1. s \in Seq({x}) /\ Len(s) = 1 /\ s[1] = x
    OBVIOUS
  <2> HIDE DEF s
  <2>2. Sequence(s) /\ Elements(s) = {x}
    BY <2>1 DEF Sequence, Elements
  <2>3. QED
    BY <2>1, <2>2
<1>3. QED
  BY <1>1, <1>2

(* A step of a probe that goes by facts, and its chain.                    *)
LEMMA FactStepAlone ==
  ASSUME probe \in FactProbe, FactInv, AloneInv, FactStep PROVE AloneInv'
<1>1. CASE GiveUp
  <2>1. chain = << >> /\ total = 0 /\ pc' = "done" /\ total' = total
    BY <1>1 DEF GiveUp, AloneInv
  <2>2. chain' = << >> \/ chain' = <<Clean>>
    BY <1>1, <2>1 DEF GiveUp
  <2>4. Sequence(<< >>) /\ Sequence(<<Clean>>) /\ Elements(<< >>) = {}
    BY Short
  <2>5. QED
    BY <2>1, <2>2, <2>4 DEF AloneInv
<1>2. CASE Open
  BY <1>2, GrowsAlone DEF Open
<1>3. CASE Examine
  <2>1. item \in 1 .. Items
    BY <1>3, ItemsType DEF Examine, FactInv
  <2>2. AtMost1(Findings(item))
    BY <2>1, FindingsShape DEF FactInv
  <2> DEFINE s == Findings(item)
  <2>3. Sequence(s) /\ \A e \in Elements(s) : Good(e)
    <3>1. AtMost1(s)
      BY <2>2
    <3> HIDE DEF s
    <3>2. QED
      BY <3>1, Short DEF AtMost1
  <2>4. Grows
    BY <1>3, <2>3 DEF Grows, Examine
  <2>5. pc = "item" /\ pc' = "item"
    BY <1>3 DEF Examine
  <2>6. QED
    BY <2>4, <2>5, GrowsAlone
<1>4. CASE Conclude
  BY <1>4, FinishAlone DEF Conclude
<1>5. CASE Wait
  BY <1>5 DEF Wait, AloneInv, Elements
<1>6. QED
  BY <1>1, <1>2, <1>3, <1>4, <1>5 DEF FactStep

(* One item more.                                                          *)
LEMMA OneMore ==
  ASSUME NEW n \in Nat, Gathered(n), AloneInv, AtMost1(Findings(n + 1)),
         Report(Findings(n + 1)), UNCHANGED <<probe, host>>
  PROVE  Gathered(n + 1)' /\ total' <= total + 1 /\ total' \in Nat
<1> DEFINE s == Findings(n + 1)
           F(k) == Findings(k)
<1>1. \A k : Findings(k)' = Findings(k)
  BY SameFacts
<1>2. Sequence(chain) /\ total \in Nat /\ \A e : e \in Elements(chain) <=> \E j \in 1 .. n : F(j) = <<e>>
  BY DEF AloneInv, Gathered
<1>3. chain' = chain \o s /\ total' = total + Len(s)
  BY DEF Report
<1>4. AtMost1(s)
  OBVIOUS
<1>5. s = F(n + 1)
  OBVIOUS
<1>6. SUFFICES (\A e : e \in Elements(chain') <=> \E j \in 1 .. n + 1 : F(j) = <<e>>)
               /\ total' <= total + 1 /\ total' \in Nat
  BY <1>1 DEF Gathered, Elements
<1> HIDE DEF s, F
<1>7. CASE s = << >>
  <2>1. chain' = chain
    <3>1. PICK S : chain \in Seq(S)
      BY <1>2 DEF Sequence
    <3>2. QED
      BY <1>3, <1>7, <3>1
  <2>2. \A e : F(n + 1) # <<e>>
    BY <1>5, <1>7
  <2>3. QED
    BY <1>2, <1>3, <1>7, <2>1, <2>2
<1>8. CASE \E f : Good(f) /\ s = <<f>>
  <2>1. PICK f : s = <<f>>
    BY <1>8
  <2>2. \A e : F(n + 1) = <<e>> <=> e = f
    BY <1>5, <2>1
  <2>3. \A e : e \in Elements(chain') <=> e \in Elements(chain) \/ e = f
    <3>1. PICK S : chain \in Seq(S)
      BY <1>2 DEF Sequence
    <3>2. chain \in Seq(S \cup {f}) /\ <<f>> \in Seq(S \cup {f})
      BY <3>1
    <3>3. /\ Len(chain') = Len(chain) + 1 /\ Len(chain) \in Nat
          /\ \A k \in 1 .. Len(chain) : chain'[k] = chain[k]
          /\ chain'[Len(chain) + 1] = f
      BY <1>3, <2>1, <3>2
    <3>4. QED
      BY <3>3 DEF Elements
  <2>4. Len(s) = 1
    BY <2>1
  <2>5. Len(s) \in Nat /\ total' = total + 1
    BY <1>3, <2>4
  <2>6. ASSUME NEW e PROVE e \in Elements(chain') <=> \E j \in 1 .. n + 1 : F(j) = <<e>>
    <3>1. (\E j \in 1 .. n + 1 : F(j) = <<e>>) <=> (\E j \in 1 .. n : F(j) = <<e>>) \/ F(n + 1) = <<e>>
      OBVIOUS
    <3>2. QED
      BY <1>2, <2>2, <2>3, <3>1, Zenon
  <2>7. QED
    BY <1>2, <2>5, <2>6
<1>9. QED
  BY <1>4, <1>7, <1>8 DEF AtMost1

(* A step of a probe that goes by facts, and what its chain holds.         *)
LEMMA FactStepKeeps ==
  ASSUME probe \in FactProbe, FactInv, AloneInv, FactStep PROVE FactInv' /\ probe' = probe
<1>1. probe' = probe /\ host' = host
  BY DEF FactStep, GiveUp, Open, Examine, Conclude, Wait, Finish
<1>2. Items \in Nat
  BY ItemsType DEF FactInv
<1>3. Readable' = Readable /\ Items' = Items /\ \A k : Findings(k)' = Findings(k)
  BY <1>1, SameFacts
<1>4. host' \in Hosts[probe']
  BY <1>1 DEF FactInv
<1>5. \A n : chain' = chain /\ Gathered(n) => Gathered(n)'
  BY <1>3 DEF Gathered, Elements
<1>6. item \in 1 .. Items + 1 /\ total <= item - 1 /\ total \in Nat
  BY DEF FactInv, AloneInv
<1>7. CASE GiveUp
  <2>1. pc = "open" /\ ~ Readable /\ pc' = "done" /\ UNCHANGED <<total, item>>
        /\ chain' = IF probe = "nfs" THEN Append(chain, Clean) ELSE chain
    BY <1>7 DEF GiveUp
  <2>2. chain = << >>
    BY <2>1 DEF AloneInv
  <2>3. FoundClean' \/ GaveUp'
    <3>1. CASE probe = "nfs"
      <4>1. chain' = <<Clean>>
        BY <2>1, <2>2, <3>1
      <4>2. probe \in HasClean
        BY <3>1 DEF HasClean
      <4>3. QED
        BY <1>1, <1>3, <2>1, <3>1, <4>1, <4>2 DEF FoundClean, HasClean, Clean, Finding
    <3>2. CASE probe # "nfs"
      BY <1>1, <1>3, <2>1, <2>2, <3>2 DEF GaveUp
    <3>3. QED
      BY <3>1, <3>2
  <2>4. QED
    BY <1>1, <1>3, <1>4, <1>6, <2>1, <2>3 DEF FactInv
<1>8. CASE Open
  <2>1. pc = "open" /\ Readable /\ pc' = "item" /\ UNCHANGED <<total, item, chain>>
    BY <1>8 DEF Open
  <2>2. Gathered(item - 1)'
    BY <1>5, <2>1 DEF FactInv
  <2>3. QED
    BY <1>1, <1>3, <1>4, <1>6, <2>1, <2>2 DEF FactInv
<1>9. CASE Examine
  <2>1. pc = "item" /\ pc' = "item" /\ item <= Items /\ item' = item + 1 /\ Report(Findings(item))
    BY <1>9 DEF Examine
  <2>2. item \in 1 .. Items /\ item - 1 \in Nat /\ (item - 1) + 1 = item
    BY <1>2, <1>6, <2>1
  <2>3. AtMost1(Findings(item))
    BY <2>2, FindingsShape DEF FactInv
  <2> DEFINE n == item - 1
  <2>4. Gathered(n) /\ Readable
    BY <2>1 DEF FactInv
  <2>5. PICK m : m = n
    OBVIOUS
  <2>6. m \in Nat /\ Gathered(m) /\ AtMost1(Findings(m + 1)) /\ Report(Findings(m + 1))
    BY <2>1, <2>2, <2>3, <2>4, <2>5
  <2>7. Gathered(m + 1)' /\ total' <= total + 1 /\ total' \in Nat
    BY <1>1, <2>6, OneMore
  <2>8. item' \in 1 .. Items + 1 /\ total' <= item' - 1
    BY <1>2, <1>6, <2>1, <2>2, <2>7
  <2>9. Gathered(item - 1)'
    <3>1. m + 1 = item' - 1
      BY <2>1, <2>2, <2>5
    <3>2. QED
      BY <2>7, <3>1 DEF Gathered
  <2>10. QED
    BY <1>1, <1>3, <1>4, <2>1, <2>4, <2>8, <2>9 DEF FactInv
<1>10. CASE Conclude
  <2>1. pc = "item" /\ item > Items /\ pc' = "done" /\ UNCHANGED <<total, item>> /\ chain' = Close
    BY <1>10 DEF Conclude, Finish
  <2>2. item - 1 = Items
    BY <1>2, <1>6, <2>1
  <2>3. Gathered(Items) /\ Readable /\ total = Len(chain)
    BY <2>1, <2>2 DEF FactInv, AloneInv
  <2>4. chain = << >> <=> total = 0
    BY <2>3 DEF AloneInv, Sequence
  <2>5. CASE probe \in HasClean /\ total = 0
    <3>1. chain' = <<Clean>> /\ Elements(chain) = {}
      <4>1. Len(<< >>) = 0
        OBVIOUS
      <4>2. QED
        BY <2>1, <2>4, <2>5, <4>1 DEF Close, Elements
    <3>2. \A j \in 1 .. Items : Findings(j) = << >>
      <4>1. \A j \in 1 .. Items : AtMost1(Findings(j))
        BY FindingsShape DEF FactInv
      <4>2. \A j \in 1 .. Items : ~ \E f : Findings(j) = <<f>>
        BY <2>3, <3>1 DEF Gathered
      <4>3. QED
        BY <4>1, <4>2 DEF AtMost1
    <3>3. FoundClean'
      BY <1>1, <1>3, <2>3, <2>5, <3>1, <3>2 DEF FoundClean, Clean, Finding
    <3>4. QED
      BY <1>1, <1>3, <1>4, <1>6, <2>1, <3>3 DEF FactInv
  <2>6. CASE ~ (probe \in HasClean /\ total = 0)
    <3>1. chain' = chain
      BY <2>1, <2>6 DEF Close
    <3>2. Gathered(Items)'
      BY <1>3, <2>3, <3>1 DEF Gathered, Elements
    <3>3. Complete'
      BY <1>1, <1>3, <2>3, <2>4, <2>6, <3>1, <3>2 DEF Complete
    <3>4. QED
      BY <1>1, <1>3, <1>4, <1>6, <2>1, <3>3 DEF FactInv
  <2>7. QED
    BY <2>5, <2>6
<1>11. CASE Wait
  <2>1. pc # "done" /\ pc' = "held" /\ UNCHANGED <<total, item, chain>>
    BY <1>11 DEF Wait
  <2>2. Gathered(item - 1)'
    BY <1>5, <2>1 DEF FactInv
  <2>3. QED
    BY <1>1, <1>3, <1>4, <1>6, <2>1, <2>2 DEF FactInv
<1>12. QED
  BY <1>1, <1>7, <1>8, <1>9, <1>10, <1>11 DEF FactStep

(***************************************************************************)
(* The inductive invariant of either sort of probe.                        *)
(***************************************************************************)
Inv == IInv /\ AloneInv /\ (probe \in FactProbe => FactInv)

LEMMA Initially == ASSUME Init PROVE AloneInv /\ (probe \in FactProbe => FactInv)
<1>1. chain = << >> /\ total = 0 /\ pc # "done"
  BY DEF Init, FileInit, FactInit
<1>2. AloneInv
  BY <1>1, Short DEF AloneInv
<1>3. ASSUME probe \in FactProbe PROVE FactInv
  <2>1. FactInit
    BY <1>3, Sorts DEF Init, FileInit
  <2>2. Items \in Nat
    BY <2>1, ItemsType DEF FactInit
  <2>3. Gathered(0)
    BY <1>1, Short DEF Gathered
  <2>4. QED
    BY <2>1, <2>2, <2>3 DEF FactInit, FactInv
<1>4. QED
  BY <1>2, <1>3

LEMMA RestKeeps ==
  ASSUME AloneInv, probe \in FactProbe => FactInv, UNCHANGED <<probe, pc, total, chain, knowing>>
  PROVE  AloneInv' /\ (probe' \in FactProbe => FactInv')
<1>1. AloneInv'
  BY DEF AloneInv, Elements
<1>2. ASSUME probe' \in FactProbe PROVE FactInv'
  <2>1. FactInv /\ host' = host /\ item' = item
    BY <1>2 DEF knowing
  <2>2. Readable' = Readable /\ Items' = Items /\ \A k : Findings(k)' = Findings(k)
    BY <2>1, SameFacts
  <2>3. Complete' <=> Complete
    BY <2>2 DEF Complete, Gathered, Elements
  <2>4. FoundClean' <=> FoundClean
    BY <2>2 DEF FoundClean, Clean, Finding
  <2>5. GaveUp' <=> GaveUp
    BY <2>2 DEF GaveUp
  <2>6. pc # "done" => Gathered(item - 1)'
    BY <2>1, <2>2 DEF Gathered, Elements, FactInv
  <2>7. QED
    BY <2>1, <2>2, <2>3, <2>4, <2>5, <2>6 DEF FactInv
<1>3. QED
  BY <1>1, <1>2

THEOREM InvariantHolds == Spec => []Inv
<1>1. Init => AloneInv /\ (probe \in FactProbe => FactInv)
  BY Initially
<1> DEFINE I == AloneInv /\ (probe \in FactProbe => FactInv)
<1>2. IInv /\ I /\ [Next]_vars => I'
  <2> SUFFICES ASSUME IInv, I, [Next]_vars PROVE I'
    OBVIOUS
  <2>1. CASE probe \in FileProbe /\ FileStep /\ UNCHANGED knowing
    <3>1. AloneInv'
      BY <2>1, FileStepAlone DEF IInv
    <3>2. probe' = probe
      BY <2>1, Zenon DEF FileStep, LookAtPlace, OpenPlace, ReadEntry, CloseDir, OpenHome, Look, FollowLink,
         InspectFile, ReadLines, ReadUnit, ReadExe, StatExec, Block, CloseProbe, Finish
    <3>3. QED
      BY <2>1, <3>1, <3>2, Sorts
  <2>2. CASE probe \in FactProbe /\ FactStep
    BY <2>2, FactStepAlone, FactStepKeeps
  <2>3. CASE OthersStep
    BY <2>3, RestKeeps, Zenon DEF OthersStep, Others, inspecting
  <2>4. CASE UNCHANGED vars
    BY <2>4, RestKeeps, Zenon DEF vars
  <2>5. QED
    BY <2>1, <2>2, <2>3, <2>4 DEF Next, Step
<1>3. QED
  BY <1>1, <1>2, Invariant, PTL DEF Spec, Inv

(***************************************************************************)
(* For any host and any file system, CLEAN is said where nothing was found *)
(* and nowhere else, and the verdict on the chain tells which.             *)
(***************************************************************************)
THEOREM AloneTrue == Spec => []CleanStandsAlone
<1>1. Inv => CleanStandsAlone
  BY AloneTells DEF Inv
<1>2. QED
  BY <1>1, InvariantHolds, PTL

(***************************************************************************)
(* The types of both sorts of probes.                                      *)
(***************************************************************************)
LEMMA FileTypes == ASSUME FileInv, probe \in FileProbe PROVE FileTypeOK
<1>1. FileShape /\ StackOK /\ WhereOK /\ ChainOK
  BY DEF FileInv
<1>2. Len(stack) <= (IF probe = "ssh_keys" THEN 2 ELSE 1) /\ Len(stack) \in 0 .. 2
  <2> DEFINE n == Len(stack)
  <2>1. n \in Nat /\ n <= 2 /\ (n = 2 => probe = "ssh_keys")
    BY <1>1 DEF StackOK
  <2> HIDE DEF n
  <2>2. n <= (IF probe = "ssh_keys" THEN 2 ELSE 1) /\ n \in 0 .. 2
    BY <2>1
  <2>3. QED
    BY <2>2 DEF n
<1>3. ASSUME NEW k \in 1 .. Len(stack)
      PROVE  /\ stack[k].dir \in Dir
             /\ stack[k].path = Place \/ (probe = "ssh_keys" /\ k = 2)
  <2>1. stack[k] \in Frames /\ Len(stack) \in 0 .. 2 /\ stack # << >>
    <3>1. stack \in Seq(Frames) /\ Len(stack) <= 2
      BY <1>1 DEF StackOK
    <3>2. stack[k] \in Frames
      BY <3>1
    <3>3. stack # << >>
      <4>1. Len(<< >>) = 0
        OBVIOUS
      <4>2. QED
        BY <1>2, <4>1
    <3>4. QED
      BY <1>2, <3>2, <3>3
  <2>2. k = 1 \/ (k = 2 /\ Len(stack) = 2)
    BY <2>1
  <2>3. QED
    BY <1>1, <2>1, <2>2 DEF StackOK, Frames
<1>4. \A k \in 1 .. Len(chain) : chain[k].kind \in Kinds[probe] \cup {"CLEAN"}
  BY <1>1 DEF ChainOK, Elements
<1>5. QED
  BY <1>1, <1>2, <1>3, <1>4 DEF FileTypeOK, FileShape, WhereOK, ChainOK

LEMMA FactTypes == ASSUME FactInv, AloneInv, probe \in FactProbe PROVE FactTypeOK
<1>1. \A e \in Elements(chain) : e.weight \in Weight /\ e.severity \in Severity
  <2>1. \A e : Good(e) => e.weight \in Weight /\ e.severity \in Severity
    BY DEF Good, Weight, Severity, WeightOne
  <2>2. Clean.weight \in Weight /\ Clean.severity \in Severity
    BY DEF Clean, Finding, Weight, Severity, INFO, WeightOne
  <2>3. CASE chain = <<Clean>>
    BY <2>2, <2>3, Short
  <2>4. CASE chain # <<Clean>>
    BY <2>1, <2>4 DEF AloneInv
  <2>5. QED
    BY <2>3, <2>4
<1>2. QED
  BY <1>1 DEF FactInv, FactTypeOK, Elements

THEOREM TypeCorrect == Spec => []TypeOK
<1>1. Inv => TypeOK
  <2> SUFFICES ASSUME Inv PROVE TypeOK
    OBVIOUS
  <2>1. total <= Len(chain)
    BY DEF Inv, AloneInv
  <2>2. QED
    BY <2>1, FileTypes, FactTypes DEF Inv, IInv, TypeOK
<1>2. QED
  BY <1>1, InvariantHolds, PTL

-----------------------------------------------------------------------------

(* What a finished probe that could read what it needs has reported.       *)
LEMMA ReportedIs ==
  ASSUME probe \in FactProbe, FactInv, AloneInv, pc = "done", Readable
  PROVE  \A e : e \in Reported <=> \E j \in 1 .. Items : Findings(j) = <<e>>
<1>1. \A j \in 1 .. Items : AtMost1(Findings(j))
  BY FindingsShape DEF FactInv
<1>2. Range(chain) = Elements(chain)
  BY DEF AloneInv, Sequence, Range, Elements
<1>3. \A e : e \in Reported <=> e \in Elements(chain) /\ e # Clean
  BY <1>2 DEF Reported
<1>4. CASE FoundClean
  <2>1. Elements(chain) = {Clean}
    BY <1>4, Short DEF FoundClean
  <2>2. \A j \in 1 .. Items : Findings(j) = << >>
    BY <1>4 DEF FoundClean
  <2>3. QED
    BY <1>3, <2>1, <2>2
<1>5. CASE Complete
  <2>1. \A e : e \in Elements(chain) <=> \E j \in 1 .. Items : Findings(j) = <<e>>
    BY <1>5 DEF Complete, Gathered
  <2>2. ~ Good(Clean)
    BY DEF Good, Clean, Finding
  <2>3. ASSUME NEW j \in 1 .. Items PROVE Findings(j) # <<Clean>>
    BY <1>1, <2>2 DEF AtMost1
  <2>4. QED
    BY <1>3, <2>1, <2>3
<1>6. QED
  BY <1>4, <1>5 DEF FactInv, GaveUp

-----------------------------------------------------------------------------

(* Two numerals are ordered as their leading parts are, and by the last    *)
(* digits where those are equal.                                           *)
LEMMA Positional ==
  ASSUME NEW base \in Nat, NEW p \in Nat, NEW q \in Nat, NEW r \in Nat, NEW s \in Nat,
         r < base, s < base
  PROVE  p * base + r <= q * base + s <=> p < q \/ (p = q /\ r <= s)
<1>1. \A x \in Nat, y \in Nat : x < y => x * base + base <= y * base
  <2>1. SUFFICES ASSUME NEW x \in Nat, NEW y \in Nat, x < y PROVE x * base + base <= y * base
    OBVIOUS
  <2>2. PICK d \in Nat : y = x + 1 + d
    <3>1. y - x - 1 \in Nat /\ y = x + 1 + (y - x - 1)
      BY <2>1
    <3>2. QED
      BY <3>1
  <2>3. y * base = x * base + base + d * base
    BY <2>2
  <2>4. d * base \in Nat /\ x * base \in Nat
    OBVIOUS
  <2>5. QED
    BY <2>3, <2>4
<1> DEFINE P == p * base
           Q == q * base
<1>2. P \in Nat /\ Q \in Nat
  OBVIOUS
<1>3. CASE p < q
  <2>1. P + base <= Q
    BY <1>1, <1>3
  <2> HIDE DEF P, Q
  <2>2. P + r <= Q + s
    BY <1>2, <2>1
  <2>3. QED
    BY <1>3, <2>2 DEF P, Q
<1>4. CASE q < p
  <2>1. Q + base <= P
    BY <1>1, <1>4
  <2> HIDE DEF P, Q
  <2>2. ~ (P + r <= Q + s)
    BY <1>2, <2>1
  <2>3. ~ (p * base + r <= q * base + s)
    BY <2>2 DEF P, Q
  <2>4. ~ (p < q) /\ p # q
    BY <1>4
  <2>5. QED
    BY <2>3, <2>4
<1>5. CASE p = q
  <2> HIDE DEF P
  <2>1. P + r <= P + s <=> r <= s
    BY <1>2
  <2>2. QED
    BY <1>5, <2>1 DEF P
<1>6. QED
  BY <1>3, <1>4, <1>5

(***************************************************************************)
(* version_less_eq orders versions as the numbers they make to any base    *)
(* above their parts.                                                      *)
(***************************************************************************)
LEMMA VersionOrder ==
  ASSUME NEW base \in Nat, NEW a \in Nat \X Nat \X Nat, NEW b \in Nat \X Nat \X Nat,
         a[2] < base, a[3] < base, b[2] < base, b[3] < base
  PROVE  VersionLessEq(a, b) <=> Number(a, base) <= Number(b, base)
<1> DEFINE x == a[1] * base + a[2]
           y == b[1] * base + b[2]
<1>1. /\ a[1] \in Nat /\ a[2] \in Nat /\ a[3] \in Nat
      /\ b[1] \in Nat /\ b[2] \in Nat /\ b[3] \in Nat
  OBVIOUS
<1>2. x \in Nat /\ y \in Nat
  BY <1>1
<1> DEFINE p == a[1]
           q == b[1]
           r == a[2]
           s == b[2]
<1>3. /\ x <= y <=> p < q \/ (p = q /\ r <= s)
      /\ y <= x <=> q < p \/ (q = p /\ s <= r)
  <2>1. p \in Nat /\ q \in Nat /\ r \in Nat /\ s \in Nat /\ r < base /\ s < base
    BY <1>1
  <2> HIDE DEF p, q, r, s
  <2>2. p * base + r <= q * base + s <=> p < q \/ (p = q /\ r <= s)
    BY <2>1, Positional
  <2>3. q * base + s <= p * base + r <=> q < p \/ (q = p /\ s <= r)
    BY <2>1, Positional
  <2>4. QED
    BY <2>2, <2>3 DEF p, q, r, s
<1>5. Number(a, base) = x * base + a[3] /\ Number(b, base) = y * base + b[3]
  BY DEF Number
<1> HIDE DEF x, y
<1>6. Number(a, base) <= Number(b, base) <=> x < y \/ (x = y /\ a[3] <= b[3])
  BY <1>1, <1>2, <1>5, Positional
<1>7. /\ x < y <=> a[1] < b[1] \/ (a[1] = b[1] /\ a[2] < b[2])
      /\ x = y <=> a[1] = b[1] /\ a[2] = b[2]
  BY <1>1, <1>2, <1>3
<1>8. QED
  BY <1>6, <1>7 DEF VersionLessEq

(* kernel_vuln.                                                            *)
LEMMA CveBounds ==
  \A k \in 1 .. 7 :
    /\ CVES[k].min \in Nat \X Nat \X Nat /\ CVES[k].max \in Nat \X Nat \X Nat
    /\ CVES[k].min[2] < 100 /\ CVES[k].min[3] < 100
    /\ CVES[k].max[2] < 100 /\ CVES[k].max[3] < 100
<1>1. ASSUME NEW k \in 1 .. 7
      PROVE  /\ CVES[k].min \in Nat \X Nat \X Nat
             /\ CVES[k].min[2] < 100 /\ CVES[k].min[3] < 100
  BY SMTT(30) DEF CVES, Cve
<1>2. ASSUME NEW k \in 1 .. 7
      PROVE  /\ CVES[k].max \in Nat \X Nat \X Nat
             /\ CVES[k].max[2] < 100 /\ CVES[k].max[3] < 100
  BY SMTT(30) DEF CVES, Cve
<1>3. QED
  BY <1>1, <1>2

LEMMA KernelExact ==
  ASSUME probe = "kernel_vuln", FactInv, AloneInv, pc = "done", host.version # Unread
  PROVE  {e.kind : e \in Reported} = {CVES[k].cve : k \in KnownFor(host.version)}
<1> DEFINE v == host.version
           base == 100 + v[2] + v[3]
           f(k) == Finding(CVES[k].cve, << >>, CVES[k].weight, CVES[k].severity, {})
<1>1. probe \in FactProbe /\ Readable /\ host \in Hosts["kernel_vuln"]
  BY DEF Readable, FactProbe, FactInv
<1>2. v \in Nat \X Nat \X Nat
  BY <1>1, HostTypes
<1>3. base \in Nat /\ base >= 100 /\ v[2] < base /\ v[3] < base
  BY <1>2
<1>4. Len(CVES) = 7 /\ Items = 7
  BY CvesType DEF Items
<1>5. ASSUME NEW k \in 1 .. 7
      PROVE  VersionLessEq(v, CVES[k].max) /\ VersionLessEq(CVES[k].min, v) <=> k \in KnownFor(v)
  <2> DEFINE lo == CVES[k].min
             hi == CVES[k].max
  <2>1. /\ lo \in Nat \X Nat \X Nat /\ lo[2] < base /\ lo[3] < base
        /\ hi \in Nat \X Nat \X Nat /\ hi[2] < base /\ hi[3] < base
    <3>1. /\ lo \in Nat \X Nat \X Nat /\ lo[2] < 100 /\ lo[3] < 100
          /\ hi \in Nat \X Nat \X Nat /\ hi[2] < 100 /\ hi[3] < 100
      BY CveBounds
    <3> HIDE DEF lo, hi, base
    <3>2. QED
      BY <1>3, <3>1
  <2>2. k \in KnownFor(v) <=> Number(lo, base) <= Number(v, base) /\ Number(v, base) <= Number(hi, base)
    BY <1>4 DEF KnownFor
  <2> HIDE DEF lo, hi, base, v
  <2>3. VersionLessEq(lo, v) <=> Number(lo, base) <= Number(v, base)
    BY <1>2, <1>3, <2>1, VersionOrder
  <2>4. VersionLessEq(v, hi) <=> Number(v, base) <= Number(hi, base)
    BY <1>2, <1>3, <2>1, VersionOrder
  <2>5. VersionLessEq(v, hi) /\ VersionLessEq(lo, v) <=> k \in KnownFor(v)
    BY <2>2, <2>3, <2>4
  <2>6. QED
    BY <2>5 DEF lo, hi, v
<1>6. ASSUME NEW k \in 1 .. 7
      PROVE  Findings(k) = IF k \in KnownFor(v) THEN <<f(k)>> ELSE << >>
  <2>1. Findings(k) = KernelFindings(k)
    BY DEF Findings
  <2>2. KernelFindings(k) = IF VersionLessEq(v, CVES[k].max) /\ VersionLessEq(CVES[k].min, v)
                            THEN <<f(k)>> ELSE << >>
    BY DEF KernelFindings, FoundIf
  <2> HIDE DEF f, v
  <2>3. QED
    BY <1>5, <2>1, <2>2, Zenon
<1>7. KnownFor(v) \subseteq 1 .. 7
  BY <1>4 DEF KnownFor
<1>8. \A e : e \in Reported <=> \E j \in 1 .. 7 : Findings(j) = <<e>>
  BY <1>1, <1>4, ReportedIs
<1>9. \A k : f(k).kind = CVES[k].cve
  BY DEF Finding
<1> HIDE DEF f, v
<1>10. ASSUME NEW e \in Reported PROVE \E k \in KnownFor(v) : e.kind = CVES[k].cve
  <2>1. PICK j \in 1 .. 7 : Findings(j) = <<e>>
    BY <1>8
  <2>2. j \in KnownFor(v) /\ <<f(j)>> = <<e>>
    BY <1>6, <2>1
  <2>3. f(j) = e
    BY <2>2
  <2>4. QED
    BY <1>9, <2>2, <2>3
<1>11. ASSUME NEW k \in KnownFor(v) PROVE \E e \in Reported : e.kind = CVES[k].cve
  <2>1. k \in 1 .. 7 /\ Findings(k) = <<f(k)>>
    BY <1>6, <1>7
  <2>2. f(k) \in Reported
    BY <1>8, <2>1
  <2>3. QED
    BY <1>9, <2>2
<1>12. {e.kind : e \in Reported} = {CVES[k].cve : k \in KnownFor(v)}
  BY <1>10, <1>11
<1>13. QED
  BY <1>12 DEF v

(* kernel_hardening.                                                       *)
LEMMA HardeningIsExact ==
  ASSUME probe = "kernel_hardening", FactInv, AloneInv, pc = "done" PROVE HardeningExact
<1> DEFINE f(k) == Finding("KHARD", <<k>>, CHECKS[k].weight, CHECKS[k].severity, {})
           short(k) == ReadInt(k) >= 0 /\ ReadInt(k) < CHECKS[k].want
<1>1. probe \in FactProbe /\ Readable /\ host \in Hosts["kernel_hardening"]
  BY DEF Readable, FactProbe, FactInv
<1>2. Len(CHECKS) = 10 /\ Items = 10
  BY ChecksType DEF Items
<1>3. \A e : e \in Reported <=> \E j \in 1 .. 10 : Findings(j) = <<e>>
  BY <1>1, <1>2, ReportedIs
<1>4. \A k : Findings(k) = IF short(k) THEN <<f(k)>> ELSE << >>
  BY DEF Findings, HardeningFindings, FoundIf
<1>5. \A k : f(k).path = <<k>>
  BY DEF Finding
<1>6. ASSUME NEW k \in 1 .. 10
      PROVE  /\ short(k) => FallsShort(k)
             /\ FallsShort(k) /\ host.values[k] >= 0 => short(k)
  <2>1. ReadInt(k) = IF k \in DOMAIN host.values THEN host.values[k] ELSE -1
    BY DEF ReadInt
  <2>2. QED
    BY <2>1 DEF FallsShort
<1> HIDE DEF f, short
<1>7. ASSUME NEW k \in 1 .. 10 PROVE (\E e \in Reported : e.path = <<k>>) <=> short(k)
  <2>1. ASSUME NEW e \in Reported, e.path = <<k>> PROVE short(k)
    <3>1. PICK j \in 1 .. 10 : Findings(j) = <<e>>
      BY <1>3
    <3>2. short(j) /\ <<f(j)>> = <<e>>
      BY <1>4, <3>1
    <3>3. f(j) = e
      BY <3>2
    <3>4. <<j>> = <<k>>
      BY <1>5, <2>1, <3>3
    <3>5. j = k
      BY <3>4
    <3>6. QED
      BY <3>2, <3>5
  <2>2. ASSUME short(k) PROVE \E e \in Reported : e.path = <<k>>
    <3>1. f(k) \in Reported
      BY <1>3, <1>4, <2>2
    <3>2. QED
      BY <1>5, <3>1
  <2>3. QED
    BY <2>1, <2>2
<1>8. QED
  BY <1>2, <1>6, <1>7 DEF HardeningExact

(* groups: what fgets leaves of a line of members.                         *)
LEMMA PieceOf ==
  ASSUME NEW members \in Seq(STRING), NEW user
  PROVE  /\ user \in FirstPiece(members) /\ user \notin Range(members) =>
              Len(members) > LineMax /\ Stub[members[LineMax + 1]] = user
         /\ user \notin FirstPiece(members) /\ user \in Range(members) =>
              Len(members) > LineMax /\ \A j \in 1 .. LineMax : members[j] # user
<1> DEFINE n == Len(members)
           cut == Min({n, LineMax})
<1>1. n \in Nat /\ LineMax \in Nat
  <2>1. LineMax \in Nat
    BY FactProbesAssumption, Zenon DEF FactProbesAssumption
  <2>2. QED
    BY <2>1
<1>2. cut \in {n, LineMax} /\ cut <= n /\ cut <= LineMax
  <2> DEFINE S == {n, LineMax}
  <2>1. S \in SUBSET Nat /\ S # {}
    BY <1>1
  <2> HIDE DEF n
  <2>2. Min(S) \in S /\ \A m \in S : Min(S) <= m
    BY <2>1, LeastOfNats
  <2>3. QED
    BY <2>2
<1>3. Range(members) = {members[k] : k \in 1 .. n}
  BY DEF Range
<1>4. FirstPiece(members) = {members[k] : k \in 1 .. cut}
                              \cup IF n > LineMax THEN {Stub[members[LineMax + 1]]} ELSE {}
  BY DEF FirstPiece
<1> HIDE DEF n, cut
<1>5. ASSUME user \in FirstPiece(members), user \notin Range(members)
      PROVE  n > LineMax /\ Stub[members[LineMax + 1]] = user
  <2>1. user \notin {members[k] : k \in 1 .. cut}
    BY <1>1, <1>2, <1>3, <1>5
  <2>2. QED
    BY <1>4, <1>5, <2>1
<1>6. ASSUME user \notin FirstPiece(members), user \in Range(members)
      PROVE  n > LineMax /\ \A j \in 1 .. LineMax : members[j] # user
  <2>1. user \notin {members[k] : k \in 1 .. cut}
    BY <1>4, <1>6
  <2>2. PICK k \in 1 .. n : user = members[k]
    BY <1>3, <1>6
  <2>3. cut # n
    BY <2>1, <2>2
  <2>4. QED
    BY <1>1, <1>2, <2>1, <2>3
<1>7. QED
  BY <1>5, <1>6 DEF n

(* The first line of a name is where the search ends.                      *)
LEMMA FirstLine ==
  ASSUME NEW name, host.group \in Seq(GroupLine)
  PROVE  LET lines == {k \in 1 .. Len(host.group) : host.group[k].name = name}
             first == {i \in 1 .. Len(host.group) :
                         /\ host.group[i].name = name
                         /\ \A j \in 1 .. i - 1 : host.group[j].name # name}
         IN /\ lines = {} => first = {}
            /\ lines # {} => first = {Min(lines)} /\ Min(lines) \in 1 .. Len(host.group)
<1> DEFINE n == Len(host.group)
           lines == {k \in 1 .. n : host.group[k].name = name}
           first == {i \in 1 .. n : /\ host.group[i].name = name
                                    /\ \A j \in 1 .. i - 1 : host.group[j].name # name}
<1>1. n \in Nat
  OBVIOUS
<1>2. lines = {} => first = {}
  OBVIOUS
<1>3. ASSUME lines # {} PROVE first = {Min(lines)} /\ Min(lines) \in 1 .. n
  <2>1. lines \in SUBSET Nat
    BY <1>1
  <2> DEFINE m == Min(lines)
  <2>2. m \in lines /\ \A k \in lines : m <= k
    <3> HIDE DEF lines
    <3>1. QED
      BY <1>3, <2>1, LeastOfNats
  <2> HIDE DEF m
  <2>3. m \in 1 .. n /\ host.group[m].name = name
    BY <2>2
  <2>4. \A j \in 1 .. m - 1 : host.group[j].name # name
    <3>1. SUFFICES ASSUME NEW j \in 1 .. m - 1, host.group[j].name = name PROVE FALSE
      OBVIOUS
    <3>2. j \in 1 .. n /\ j < m
      BY <1>1, <2>3
    <3>3. j \in lines
      BY <3>1, <3>2
    <3>4. m <= j
      BY <2>2, <3>3
    <3> HIDE DEF lines
    <3>5. QED
      BY <2>3, <3>2, <3>4
  <2>5. m \in first
    BY <2>3, <2>4
  <2>6. ASSUME NEW i \in first PROVE i = m
    <3>1. i \in lines /\ i \in 1 .. n /\ \A j \in 1 .. i - 1 : host.group[j].name # name
      OBVIOUS
    <3>2. m <= i
      BY <2>2, <3>1
    <3>3. ~ (m \in 1 .. i - 1)
      BY <2>3, <3>1
    <3> HIDE DEF first, lines
    <3>4. QED
      BY <1>1, <2>3, <3>1, <3>2, <3>3
  <2>7. first = {m}
    BY <2>5, <2>6
  <2>8. QED
    BY <2>3, <2>7 DEF m
<1>4. QED
  BY <1>2, <1>3, Zenon

LEMMA MembersExact ==
  ASSUME probe = "groups", FactInv, AloneInv, pc = "done", UserName # NoUser
  PROVE  MembershipExact
<1> DEFINE name(k) == PRIV_GROUPS[k].name
           said(k) == Said(name(k))
           f(k) == Finding("GRP", <<name(k)>>, PRIV_GROUPS[k].weight, PRIV_GROUPS[k].severity,
                           {name(k)} \cap Keyword)
           member(k) == InGroup(UserName, name(k)).exists /\ InGroup(UserName, name(k)).member
<1>1. probe \in FactProbe /\ Readable /\ host \in Hosts["groups"]
  BY DEF Readable, FactProbe, FactInv
<1>2. Len(PRIV_GROUPS) = 14 /\ Items = 14
  BY GroupsType DEF Items
<1>3. \A e : e \in Reported <=> \E j \in 1 .. 14 : Findings(j) = <<e>>
  BY <1>1, <1>2, ReportedIs
<1>4. \A k : Findings(k) = IF member(k) THEN <<f(k)>> ELSE << >>
  BY DEF Findings, GroupFindings, FoundIf, PrimaryGid
<1>5. \A k : f(k).path = <<name(k)>>
  BY DEF Finding
<1>6. \A j, k : name(j) = name(k) => (member(j) <=> member(k))
  OBVIOUS
<1>7. host.group \in Seq(GroupLine)
  BY <1>1, HostTypes
<1>8. ASSUME NEW k \in 1 .. 14 PROVE said(k) <=> member(k)
  <2> HIDE DEF f, member
  <2>1. ASSUME said(k) PROVE member(k)
    <3>1. PICK e \in Reported : e.path = <<name(k)>>
      BY <2>1 DEF Said
    <3>2. PICK j \in 1 .. 14 : Findings(j) = <<e>>
      BY <1>3, <3>1
    <3>3. member(j) /\ <<f(j)>> = <<e>>
      BY <1>4, <3>2
    <3>4. f(j) = e
      BY <3>3
    <3>5. <<name(j)>> = <<name(k)>>
      BY <1>5, <3>1, <3>4
    <3> HIDE DEF name
    <3>6. name(j) = name(k)
      BY <3>5
    <3>7. QED
      BY <1>6, <3>3, <3>6
  <2>2. ASSUME member(k) PROVE said(k)
    <3>1. f(k) \in Reported
      BY <1>3, <1>4, <2>2
    <3>2. QED
      BY <1>5, <3>1 DEF Said
  <2>3. QED
    BY <2>1, <2>2
<1> HIDE DEF f, name
<1>9. ASSUME NEW k \in 1 .. 14
      PROVE  /\ said(k) => First(name(k)) # {}
             /\ \A i \in First(name(k)) :
                  LET l == host.group[i] IN
                  /\ said(k) /\ ~Listed(l) => Beyond(l) /\ Stub[l.members[LineMax + 1]] = UserName
                  /\ ~said(k) /\ Listed(l) =>
                       Beyond(l) /\ \A j \in 1 .. LineMax : l.members[j] # UserName
  <2> DEFINE lines == {i \in 1 .. Len(host.group) : host.group[i].name = name(k)}
             first == {i \in 1 .. Len(host.group) :
                         /\ host.group[i].name = name(k)
                         /\ \A j \in 1 .. i - 1 : host.group[j].name # name(k)}
             m == Min(lines)
  <2>1. /\ lines = {} => first = {}
        /\ lines # {} => first = {m} /\ m \in 1 .. Len(host.group)
    BY <1>7, FirstLine
  <2>2. member(k) <=> lines # {} /\ UserName \in FirstPiece(host.group[m].members)
    BY DEF InGroup
  <2>3. said(k) <=> lines # {} /\ UserName \in FirstPiece(host.group[m].members)
    BY <1>8, <2>2
  <2> HIDE DEF said, member, lines, first, m
  <2>4. said(k) => first # {}
    BY <2>1, <2>3
  <2>5. ASSUME NEW i \in first
        PROVE  LET l == host.group[i] IN
               /\ said(k) /\ ~Listed(l) => Beyond(l) /\ Stub[l.members[LineMax + 1]] = UserName
               /\ ~said(k) /\ Listed(l) =>
                    Beyond(l) /\ \A j \in 1 .. LineMax : l.members[j] # UserName
    <3> DEFINE members == host.group[i].members
    <3>1. lines # {} /\ i = m /\ i \in 1 .. Len(host.group)
      BY <2>1, <2>5
    <3>2. members \in Seq(STRING)
      <4>1. host.group[i] \in GroupLine
        BY <1>7, <3>1
      <4>2. QED
        BY <4>1 DEF GroupLine
    <3>3. said(k) <=> UserName \in FirstPiece(members)
      BY <2>3, <3>1
    <3> HIDE DEF members
    <3>4. /\ said(k) /\ UserName \notin Range(members) =>
               Len(members) > LineMax /\ Stub[members[LineMax + 1]] = UserName
          /\ ~said(k) /\ UserName \in Range(members) =>
               Len(members) > LineMax /\ \A j \in 1 .. LineMax : members[j] # UserName
      BY <3>2, <3>3, PieceOf
    <3>5. QED
      BY <3>4, Zenon DEF members, Listed, Beyond
  <2>6. QED
    BY <2>4, <2>5 DEF first, First
<1>10. ASSUME NEW k \in 1 .. 14
       PROVE  /\ said(k) => First(name(k)) # {}
              /\ \A i \in First(name(k)) :
                   LET l == host.group[i] IN
                   /\ said(k) /\ ~Member(l) => Beyond(l) /\ Stub[l.members[LineMax + 1]] = UserName
                   /\ ~said(k) /\ Member(l) =>
                        \/ Beyond(l) /\ \A j \in 1 .. LineMax : l.members[j] # UserName
                        \/ Primary(l) /\ ~Listed(l)
  <2> HIDE DEF said
  <2>1. QED
    BY <1>9, Zenon DEF Member
<1>11. QED
  BY <1>2, <1>10, Zenon DEF MembershipExact, name, said

(* capabilities.                                                           *)
LEMMA CapsExact ==
  ASSUME probe = "capabilities", FactInv, AloneInv, pc = "done" PROVE CapabilitiesExact
<1>1. probe \in FactProbe /\ Readable /\ host \in Hosts["capabilities"]
  BY DEF Readable, FactProbe, FactInv
<1>2. host.files \in Seq(CapFile)
  BY <1>1, HostTypes
<1>3. \A e : e \in Reported <=> \E j \in 1 .. Items : Findings(j) = <<e>>
  BY <1>1, ReportedIs
<1>4. Critical \subseteq 0 .. 31 /\ Critical \subseteq CapName
  BY DEF Critical, DAC_OVERRIDE, SETUID, CapName
<1>5. ASSUME NEW k \in 1 .. Len(host.files), Wellformed(host.files[k])
      PROVE  \E e \in Reported :
               e.path = <<k>> /\ (e.severity = 3 <=> host.files[k].permitted \cap Critical # {})
  <2> DEFINE x == host.files[k]
             caps == DecodeCaps(x)
             words == CapWords(caps)
             dangerous == caps \cap Critical # {}
             e == IF dangerous THEN Finding("CAP", <<k>>, 90, 3, words)
                  ELSE Finding("CAP", <<k>>, 50, 2, words)
  <2>1. x \in CapFile
    BY <1>2
  <2>2. x.permitted \in SUBSET Nat /\ x.inheritable \in SUBSET Nat
    BY <2>1 DEF CapFile
  <2>3. <<x.revision, x.size>> \in {<<1, 12>>, <<2, 20>>, <<3, 24>>}
    BY <1>5 DEF Wellformed
  <2> HIDE DEF x
  <2>4. \/ x.revision = 1 /\ x.size = 12
        \/ x.revision = 2 /\ x.size = 20
        \/ x.revision = 3 /\ x.size = 24
    BY <2>3
  <2> DEFINE low == x.permitted \cap 0 .. 31
             high == {c + 32 : c \in x.inheritable \cap 0 .. 31}
  <2>5. caps = low \/ caps = (low \cup high) \cap CapName
    BY <2>4 DEF DecodeCaps
  <2>6. high \cap Critical = {}
    BY <1>4, <2>2
  <2>7. low \cap Critical = x.permitted \cap Critical
    BY <1>4
  <2> HIDE DEF caps, low, high
  <2>8. caps \cap Critical = x.permitted \cap Critical
    BY <1>4, <2>5, <2>6, <2>7
  <2>9. Findings(k) = <<e>>
    <3>1. ~ (k > Len(host.files)) /\ Findings(k) = CapFindings(k)
      BY <1>2 DEF Findings
    <3>2. QED
      BY <3>1, Zenon DEF CapFindings, FoundIf, caps, x
  <2>10. e.path = <<k>> /\ (e.severity = 3 <=> dangerous)
    BY DEF Finding
  <2>11. k \in 1 .. Items
    BY <1>2 DEF Items
  <2>12. e \in Reported
    BY <1>3, <2>9, <2>11
  <2> HIDE DEF e
  <2>13. e.severity = 3 <=> host.files[k].permitted \cap Critical # {}
    BY <2>8, <2>10 DEF x
  <2>14. QED
    BY <2>10, <2>12, <2>13
<1>6. QED
  BY <1>5 DEF CapabilitiesExact

(***************************************************************************)
(* For any kernel, any user database, any settings and any files with      *)
(* capabilities, the finished probe has reported what is so.               *)
(***************************************************************************)
THEOREM FactsTrue == Spec => []Facts
<1>1. Inv => Facts
  <2> SUFFICES ASSUME Inv, probe \in FactProbe, pc = "done" PROVE FactsExact
    BY DEF Facts, FactsExact
  <2>1. FactInv /\ AloneInv
    BY DEF Inv
  <2>2. QED
    BY <2>1, KernelExact, MembersExact, HardeningIsExact, CapsExact DEF FactsExact
<1>2. QED
  BY <1>1, InvariantHolds, PTL

-----------------------------------------------------------------------------

(* What a finding is worth to the composer.                                *)
Worth(e) == TokenOf(probe, LinkOf(e))

(***************************************************************************)
(* A finished probe grants what its findings are worth, each of them.      *)
(***************************************************************************)
LEMMA GrantedIs ==
  ASSUME AloneInv, pc = "done"
  PROVE  \A t : t \in Granted <=> t # NoToken /\ \E e \in Reported : Worth(e) = t
<1>1. Sequence(chain) /\ (chain = <<Clean>> \/ \A e \in Elements(chain) : Good(e))
  BY DEF AloneInv
<1>2. Range(chain) = Elements(chain)
  BY <1>1 DEF Sequence, Range, Elements
<1>3. \A t : t \in Granted <=>
        t # NoToken /\ \E e \in Elements(chain) : Counts(ChainVerdict, LinkOf(e)) /\ Worth(e) = t
  BY Zenon DEF Granted, Elements, Worth
<1>4. CASE chain = <<Clean>>
  <2>1. Reported = {}
    BY <1>2, <1>4, Short DEF Reported
  <2>2. ~ Counts(ChainVerdict, LinkOf(Clean))
    BY <1>4, VerdictOfClean DEF Counts
  <2>3. Elements(chain) = {Clean}
    BY <1>4, Short
  <2>4. QED
    BY <1>3, <2>1, <2>2, <2>3
<1>5. CASE chain # <<Clean>>
  <2>1. \A e \in Elements(chain) : Good(e)
    BY <1>1, <1>5
  <2>2. Reported = Elements(chain)
    <3>1. ~ Good(Clean)
      BY DEF Good, Clean, Finding
    <3>2. QED
      BY <1>2, <2>1, <3>1 DEF Reported
  <2>3. ChainVerdict # "REJECT"
    BY <1>1, <2>1, VerdictOfFindings
  <2>4. ASSUME NEW e \in Elements(chain) PROVE Counts(ChainVerdict, LinkOf(e))
    <3>1. e.kind # "CLEAN" /\ e.severity \in 1 .. 4
      BY <2>1 DEF Good
    <3>2. LinkOf(e).verdict = VerdictOf(e) /\ LinkOf(e).severity = e.severity
      BY DEF LinkOf
    <3>3. VerdictOf(e) # "REJECT"
      BY <3>1 DEF VerdictOf
    <3>4. QED
      BY <2>3, <3>1, <3>2, <3>3 DEF Counts, INFO
  <2>5. QED
    BY <1>3, <2>2, <2>4, Zenon
<1>6. QED
  BY <1>4, <1>5

(* A probe that could not read what it needs has reported nothing.         *)
LEMMA NothingReported ==
  ASSUME FactInv, pc = "done", ~ Readable PROVE Reported = {}
<1>1. chain = << >> \/ chain = <<Clean>>
  BY DEF FactInv, Complete, FoundClean, GaveUp
<1>2. Range(<< >>) = {} /\ Range(<<Clean>>) = {Clean}
  BY DEF Range
<1>3. QED
  BY <1>1, <1>2 DEF Reported

(* The findings of which a probe is worth the same each.                   *)
LEMMA SameWorth ==
  ASSUME probe \in {"sudoers", "kernel_vuln", "polkit", "writable_path", "nfs"}
  PROVE  \A e : Worth(e) = ProbeToken[probe] /\ ProbeToken[probe] # NoToken
  BY DEF Worth, TokenOf, ProbeToken, EXEC_AS_ROOT, KERNEL_LPE, POLKIT_LPE, WRITE_PATH_TROJAN, ROOT,
     NoToken

(* Then a token is granted if anything is found.                           *)
LEMMA GrantedIfAny ==
  ASSUME probe \in {"sudoers", "kernel_vuln", "polkit", "writable_path", "nfs"},
         FactInv, AloneInv, pc = "done"
  PROVE  /\ ProbeToken[probe] \in Granted <=> Reported # {}
         /\ Reported # {} <=> Readable /\ \E j \in 1 .. Items : Findings(j) # << >>
<1>1. probe \in FactProbe
  BY DEF FactProbe
<1>2. ProbeToken[probe] \in Granted <=> Reported # {}
  BY GrantedIs, SameWorth
<1>3. CASE Readable
  <2>1. \A e : e \in Reported <=> \E j \in 1 .. Items : Findings(j) = <<e>>
    BY <1>1, <1>3, ReportedIs
  <2>2. \A j \in 1 .. Items : Findings(j) # << >> <=> \E e : Findings(j) = <<e>>
    <3>1. SUFFICES ASSUME NEW j \in 1 .. Items
                   PROVE  Findings(j) # << >> <=> \E e : Findings(j) = <<e>>
      OBVIOUS
    <3>2. AtMost1(Findings(j))
      BY <1>1, FindingsShape DEF FactInv
    <3>3. \A e : <<e>> # << >>
      OBVIOUS
    <3>4. QED
      BY <3>2, <3>3 DEF AtMost1
  <2>3. QED
    BY <1>2, <1>3, <2>1, <2>2
<1>4. CASE ~ Readable
  BY <1>2, <1>4, NothingReported
<1>5. QED
  BY <1>3, <1>4

LEMMA KernelToken ==
  ASSUME probe = "kernel_vuln", FactInv, AloneInv, pc = "done"
  PROVE  KERNEL_LPE \in Granted <=> host.version # Unread /\ KnownFor(host.version) # {}
<1>1. KERNEL_LPE \in Granted <=> Reported # {}
  BY GrantedIfAny DEF ProbeToken
<1>2. CASE host.version # Unread
  <2>1. {e.kind : e \in Reported} = {CVES[k].cve : k \in KnownFor(host.version)}
    BY <1>2, KernelExact
  <2>2. Reported # {} <=> KnownFor(host.version) # {}
    BY <2>1
  <2>3. QED
    BY <1>1, <1>2, <2>2
<1>3. CASE host.version = Unread
  BY <1>1, <1>3, NothingReported DEF Readable
<1>4. QED
  BY <1>2, <1>3

LEMMA PolkitToken ==
  ASSUME probe = "polkit", FactInv, AloneInv, pc = "done"
  PROVE  POLKIT_LPE \in Granted <=> host.rules # {} \/ (host.suid /\ Part(host.version, 1) < 122)
<1>1. Readable /\ Items = 4
  BY DEF Readable, Items
<1>2. POLKIT_LPE \in Granted <=> \E j \in 1 .. 4 : PolkitFindings(j) # << >>
  BY <1>1, GrantedIfAny DEF ProbeToken, Findings
<1>3. host.version \in Seq(Nat) /\ host.rules \subseteq 1 .. 3
  BY HostTypes DEF FactInv
<1>4. PolkitFindings(1) # << >> <=> host.suid /\ Part(host.version, 1) < 122
  <2> DEFINE maj == Part(host.version, 1)
             old == maj = 120 \/ (maj = 121 /\ Part(host.version, 2) < 4)
             first == Finding("PKEXEC-CVE-2021-4034", << >>, 99, 4, {})
             a == FoundIf(host.suid /\ maj < 122, "PKEXEC-CVE-2021-4034", << >>, 99, 4, {})
             b == FoundIf(host.suid /\ maj >= 122 /\ old, "PKEXEC-OLD", << >>, 70, 3, {})
  <2>1. maj \in Nat
    BY <1>3 DEF Part
  <2>2. b = << >>
    BY <2>1 DEF FoundIf
  <2>3. a = IF host.suid /\ maj < 122 THEN <<first>> ELSE << >>
    BY DEF FoundIf
  <2>4. PolkitFindings(1) = a \o b
    BY DEF PolkitFindings
  <2> HIDE DEF first
  <2>5. << >> \o << >> = << >> /\ <<first>> \o << >> = <<first>> /\ <<first>> # << >>
    OBVIOUS
  <2> HIDE DEF a, b, maj
  <2>6. QED
    BY <2>2, <2>3, <2>4, <2>5 DEF maj
<1>5. ASSUME NEW k \in 2 .. 4 PROVE PolkitFindings(k) # << >> <=> k - 1 \in host.rules
  <2> DEFINE g == Finding("POLKIT-RULES", <<k - 1>>, 95, 4, {})
  <2>1. k # 1
    OBVIOUS
  <2>2. PolkitFindings(k) = IF k - 1 \in host.rules THEN <<g>> ELSE << >>
    BY <2>1 DEF PolkitFindings, FoundIf
  <2> HIDE DEF g
  <2>3. <<g>> # << >>
    OBVIOUS
  <2>4. QED
    BY <2>2, <2>3
<1>6. (\E k \in 2 .. 4 : k - 1 \in host.rules) <=> host.rules # {}
  <2>1. ASSUME NEW r \in host.rules PROVE \E k \in 2 .. 4 : k - 1 \in host.rules
    <3>1. r \in 1 .. 3
      BY <1>3
    <3>2. r + 1 \in 2 .. 4 /\ (r + 1) - 1 = r
      BY <3>1
    <3>3. QED
      BY <3>2
  <2>2. QED
    BY <2>1
<1>7. (\E j \in 1 .. 4 : PolkitFindings(j) # << >>) <=>
        PolkitFindings(1) # << >> \/ \E k \in 2 .. 4 : PolkitFindings(k) # << >>
  <2>1. \A j : j \in 1 .. 4 <=> j = 1 \/ j \in 2 .. 4
    OBVIOUS
  <2>2. QED
    BY <2>1
<1>8. QED
  BY <1>2, <1>4, <1>5, <1>6, <1>7, Zenon

LEMMA PathToken ==
  ASSUME probe = "writable_path", FactInv, AloneInv, pc = "done"
  PROVE  WRITE_PATH_TROJAN \in Granted <=> Range(PathDirs) \cap (host.writable \cup {"."}) # {}
<1> DEFINE n == Len(PathDirs)
<1>1. Readable /\ Items = n
  BY DEF Readable, Items
<1>2. WRITE_PATH_TROJAN \in Granted <=> \E j \in 1 .. n : PathFindings(j) # << >>
  BY <1>1, GrantedIfAny DEF ProbeToken, Findings
<1>3. host.path \in Seq(STRING) /\ host.writable \subseteq STRING \ {""}
  BY HostTypes DEF FactInv
<1>4. Range(PathDirs) = {PathDirs[j] : j \in 1 .. n}
  <2>1. DOMAIN PathDirs = 1 .. n
    <3>1. PathDirs = DefaultPath \/ PathDirs = host.path
      BY DEF PathDirs
    <3>2. DOMAIN DefaultPath = 1 .. Len(DefaultPath)
      BY DEF DefaultPath
    <3>3. DOMAIN host.path = 1 .. Len(host.path)
      <4>1. PICK S : host.path \in Seq(S)
        BY <1>3
      <4>2. QED
        BY <4>1
    <3>4. QED
      BY <3>1, <3>2, <3>3
  <2>2. QED
    BY <2>1 DEF Range
<1>5. ASSUME NEW j \in 1 .. n PROVE PathFindings(j) # << >> <=> PathDirs[j] \in host.writable \cup {"."}
  <2> DEFINE d == PathDirs[j]
             f(w, v) == Finding("WPATH", <<j>>, w, v, {})
  <2>1. CASE d = "."
    <3>1. PathFindings(j) = <<f(98, 4)>>
      BY <2>1 DEF PathFindings, FoundIf
    <3> HIDE DEF f
    <3>2. QED
      BY <2>1, <3>1
  <2>2. CASE d = ""
    <3>1. PathFindings(j) = << >>
      BY <2>2 DEF PathFindings
    <3>2. d \notin host.writable \cup {"."}
      BY <1>3, <2>2
    <3>3. QED
      BY <3>1, <3>2
  <2>3. CASE d \notin {".", ""}
    <3>1. /\ d \in host.writable => PathFindings(j) = <<f(90, 3)>> \/ PathFindings(j) = <<f(75, 3)>>
          /\ d \notin host.writable => PathFindings(j) = << >>
      BY <2>3 DEF PathFindings, FoundIf
    <3> HIDE DEF f
    <3>2. \A x : <<x>> # << >>
      OBVIOUS
    <3>3. PathFindings(j) # << >> <=> d \in host.writable
      BY <3>1, <3>2, Zenon
    <3>4. QED
      BY <2>3, <3>3
  <2>4. d = "." \/ d = "" \/ d \notin {".", ""}
    OBVIOUS
  <2>5. QED
    BY <2>1, <2>2, <2>3, <2>4, Zenon
<1>6. QED
  BY <1>2, <1>4, <1>5

LEMMA NfsToken ==
  ASSUME probe = "nfs", FactInv, AloneInv, pc = "done"
  PROVE  ROOT \in Granted <=> host.exists /\ \E k \in 1 .. Len(host.exports) :
           World(host.exports[k]) \/ host.exports[k].options \cap {"no_root_squash", "insecure"} # {}
<1>1. (Readable <=> host.exists) /\ Items = Len(host.exports)
  BY DEF Readable, Items
<1>2. ROOT \in Granted <=> Readable /\ \E j \in 1 .. Items : NfsFindings(j) # << >>
  BY GrantedIfAny DEF ProbeToken, Findings
<1>3. ASSUME NEW k
      PROVE  NfsFindings(k) # << >> <=>
               World(host.exports[k]) \/ host.exports[k].options \cap {"no_root_squash", "insecure"} # {}
  <2> DEFINE e == host.exports[k]
             a == Finding("NFS", <<k>>, 99, 4, {})
             b == Finding("NFS", <<k>>, 60, 3, {})
             counts == World(e) \/ "no_root_squash" \in e.options \/ "insecure" \in e.options
  <2>1. /\ counts => NfsFindings(k) = <<a>> \/ NfsFindings(k) = <<b>>
        /\ ~ counts => NfsFindings(k) = << >>
    BY Zenon DEF NfsFindings, FoundIf
  <2> HIDE DEF a, b
  <2>2. <<a>> # << >> /\ <<b>> # << >>
    OBVIOUS
  <2>3. counts <=> World(e) \/ e.options \cap {"no_root_squash", "insecure"} # {}
    OBVIOUS
  <2> HIDE DEF counts
  <2>4. QED
    BY <2>1, <2>2, <2>3, Zenon DEF e
<1>4. QED
  BY <1>1, <1>2, <1>3, Zenon

(* A rule that gives everything is reported.                               *)
LEMMA SudoersToken ==
  ASSUME probe = "sudoers", FactInv, AloneInv, pc = "done",
         NEW k \in 1 .. Len(host.rules), GivesAll(host.rules[k])
  PROVE  EXEC_AS_ROOT \in Granted
<1> DEFINE rule == host.rules[k]
           spec == IF rule[3] = NoWord THEN rule[2] ELSE rule[3]
           all  == "ALL" \in rule[1].has \cup spec.has
           nopasswd == "NOPASSWD" \in rule[1].has
           counts == /\ rule[2].is = "=" \/ "(" \in rule[2].has
                     /\ MatchesUser(rule[1]) \/ all
                     /\ nopasswd \/ all
           a == Finding("SUDO", <<k>>, 95, 4, {})
           b == Finding("SUDO", <<k>>, 60, 3, {})
<1>1. Readable /\ Items = Len(host.rules)
  BY DEF Readable, Items
<1>2. EXEC_AS_ROOT \in Granted <=> \E j \in 1 .. Len(host.rules) : SudoersFindings(j) # << >>
  BY <1>1, GrantedIfAny DEF ProbeToken, Findings
<1>3. all /\ counts
  BY DEF GivesAll
<1>4. counts => SudoersFindings(k) = <<a>> \/ SudoersFindings(k) = <<b>>
  BY Zenon DEF SudoersFindings, FoundIf
<1> HIDE DEF counts, a, b
<1>5. <<a>> # << >> /\ <<b>> # << >>
  OBVIOUS
<1>6. SudoersFindings(k) # << >>
  BY <1>3, <1>4, <1>5, Zenon
<1>7. QED
  BY <1>2, <1>6

(* suid.                                                                   *)
LEMMA SuidToken ==
  ASSUME probe = "suid", FactInv, AloneInv, pc = "done"
  PROVE  EXEC_AS_ROOT \in Granted <=> \E k \in 1 .. Len(host.files) :
           /\ IsDangerous(host.files[k])
           /\ "exec" \in host.files[k].mode /\ host.files[k].mode # {"exec"}
<1> DEFINE n == Len(host.files)
           Serves(k) == /\ IsDangerous(host.files[k])
                        /\ "exec" \in host.files[k].mode /\ host.files[k].mode # {"exec"}
<1>1. probe \in FactProbe /\ Readable /\ Items = n
  BY DEF Readable, Items, FactProbe
<1>2. host.files \in Seq(SuidFile)
  BY HostTypes DEF FactInv
<1>3. \A e : Worth(e) = IF e.weight >= 80 THEN EXEC_AS_ROOT ELSE NoToken
  <2>1. "suid" \notin DOMAIN ProbeToken
    BY DEF ProbeToken
  <2>2. QED
    BY <2>1 DEF Worth, TokenOf, LinkOf
<1>4. \A e : e \in Reported <=> \E j \in 1 .. n : SuidFindings(j) = <<e>>
  <2>1. \A j : Findings(j) = SuidFindings(j)
    BY DEF Findings
  <2>2. QED
    BY <1>1, <2>1, ReportedIs
<1>5. EXEC_AS_ROOT \in Granted <=> \E e \in Reported : e.weight >= 80
  BY <1>3, GrantedIs DEF EXEC_AS_ROOT, NoToken
<1>6. ASSUME NEW k \in 1 .. n
      PROVE  (\E e : SuidFindings(k) = <<e>> /\ e.weight >= 80) <=> Serves(k)
  <2> DEFINE f == host.files[k]
             of(w, v) == Finding("SUID", <<k>>, w, v, {})
             counts == f.mode \cap {"suid", "sgid"} # {} /\ "exec" \in f.mode
  <2>1. f \in SuidFile
    BY <1>2
  <2>2. f.mode \in SUBSET {"suid", "sgid", "exec"}
    BY <2>1 DEF SuidFile
  <2>3. counts <=> "exec" \in f.mode /\ f.mode # {"exec"}
    <3> DEFINE m == f.mode
    <3> HIDE DEF m
    <3>1. m \in SUBSET {"suid", "sgid", "exec"} =>
            (m \cap {"suid", "sgid"} # {} /\ "exec" \in m <=> "exec" \in m /\ m # {"exec"})
      OBVIOUS
    <3>2. QED
      BY <2>2, <3>1 DEF m
  <2>4. /\ counts /\ IsDangerous(f) => SuidFindings(k) \in {<<of(95, 4)>>, <<of(85, 3)>>}
        /\ counts /\ ~ IsDangerous(f) => SuidFindings(k) \in {<<of(50, 2)>>, <<of(30, 1)>>}
        /\ ~ counts => SuidFindings(k) = << >>
    BY DEF SuidFindings, FoundIf
  <2>5. /\ of(95, 4).weight >= 80 /\ of(85, 3).weight >= 80
        /\ ~ (of(50, 2).weight >= 80) /\ ~ (of(30, 1).weight >= 80)
    BY DEF Finding
  <2> HIDE DEF of, counts
  <2>6. CASE counts /\ IsDangerous(f)
    <3>1. PICK e : SuidFindings(k) = <<e>> /\ e.weight >= 80
      BY <2>4, <2>5, <2>6
    <3>2. QED
      BY <2>3, <2>6, <3>1
  <2>7. CASE counts /\ ~ IsDangerous(f)
    <3>1. PICK a : SuidFindings(k) = <<a>> /\ ~ (a.weight >= 80)
      BY <2>4, <2>5, <2>7
    <3>2. \A e : SuidFindings(k) = <<e>> => e = a
      BY <3>1
    <3>3. QED
      BY <2>7, <3>1, <3>2
  <2>8. CASE ~ counts
    <3>1. \A e : SuidFindings(k) # <<e>>
      BY <2>4, <2>8
    <3>2. QED
      BY <2>3, <2>8, <3>1
  <2>9. QED
    BY <2>6, <2>7, <2>8
<1> HIDE DEF Serves
<1>7. EXEC_AS_ROOT \in Granted <=> \E k \in 1 .. n : Serves(k)
  BY <1>4, <1>5, <1>6
<1>8. QED
  BY <1>7, Zenon DEF Serves

(* groups.                                                                 *)
LEMMA GroupsTokens ==
  ASSUME probe = "groups", FactInv, AloneInv, pc = "done"
  PROVE  \A t \in {WRITE_DISK, CONTAINER_ESCAPE} :
           t \in Granted <=> \E e \in Reported :
             e.path[1] \in IF t = WRITE_DISK THEN {"disk"} ELSE {"docker", "lxd"}
<1>1. ASSUME NEW e \in Reported
      PROVE  /\ Worth(e) = WRITE_DISK <=> e.path[1] \in {"disk"}
             /\ Worth(e) = CONTAINER_ESCAPE <=> e.path[1] \in {"docker", "lxd"}
  <2>1. Readable
    BY <1>1, NothingReported
  <2>2. PICK j \in 1 .. Items : GroupFindings(j) = <<e>>
    <3>1. probe \in FactProbe /\ \A j : Findings(j) = GroupFindings(j)
      BY DEF FactProbe, Findings
    <3>2. QED
      BY <1>1, <2>1, <3>1, ReportedIs
  <2> DEFINE name == PRIV_GROUPS[j].name
             words == {name} \cap Keyword
  <2>3. PICK w, v : e = Finding("GRP", <<name>>, w, v, words)
    <3> DEFINE f == Finding("GRP", <<name>>, PRIV_GROUPS[j].weight, PRIV_GROUPS[j].severity, words)
    <3>1. GroupFindings(j) \in {<< >>, <<f>>}
      BY DEF GroupFindings, FoundIf
    <3> HIDE DEF f
    <3>2. e = f
      BY <2>2, <3>1
    <3>3. QED
      BY <3>2 DEF f
  <2> HIDE DEF name
  <2>4. e.path[1] = name /\ LinkOf(e).text = words
    BY <2>3 DEF Finding, LinkOf
  <2>5. "groups" \notin DOMAIN ProbeToken
    BY DEF ProbeToken
  <2>6. Worth(e) = CASE words \cap {"docker", "lxd"} # {} -> CONTAINER_ESCAPE
                     [] words \cap {"docker", "lxd"} = {} /\ "disk" \in words -> WRITE_DISK
                     [] OTHER -> NoToken
    BY <2>4, <2>5 DEF Worth, TokenOf
  <2>7. /\ words \cap {"docker", "lxd"} # {} <=> name \in {"docker", "lxd"}
        /\ "disk" \in words <=> name = "disk"
    BY DEF Keyword
  <2> HIDE DEF words
  <2>8. QED
    BY <2>4, <2>6, <2>7 DEF CONTAINER_ESCAPE, WRITE_DISK, NoToken
<1>2. WRITE_DISK # NoToken /\ CONTAINER_ESCAPE # NoToken /\ WRITE_DISK # CONTAINER_ESCAPE
  BY DEF CONTAINER_ESCAPE, WRITE_DISK, NoToken
<1>3. QED
  BY <1>1, <1>2, GrantedIs

(* kernel_hardening.                                                       *)
LEMMA HardeningToken ==
  ASSUME probe = "kernel_hardening", FactInv, AloneInv, pc = "done" PROVE Granted = {}
<1>1. "kernel_hardening" \notin DOMAIN ProbeToken
  BY DEF ProbeToken
<1>2. \A e : Worth(e) = NoToken
  BY <1>1 DEF Worth, TokenOf
<1>3. QED
  BY <1>2, GrantedIs

(* capabilities.                                                           *)
LEMMA CapsToken ==
  ASSUME probe = "capabilities", FactInv, AloneInv, pc = "done",
         \A k \in 1 .. Len(host.files) : Wellformed(host.files[k])
  PROVE  SETUID_CAP \in Granted <=> \E k \in 1 .. Len(host.files) :
           host.files[k].permitted \cap {SETUID, DAC_OVERRIDE} # {}
<1> DEFINE n == Len(host.files)
           Serves(k) == host.files[k].permitted \cap {SETUID, DAC_OVERRIDE} # {}
<1>1. probe \in FactProbe /\ Readable /\ Items = n + 1
  BY DEF Readable, Items, FactProbe
<1>2. host.files \in Seq(CapFile) /\ n \in Nat
  BY HostTypes DEF FactInv
<1>3. \A e : e \in Reported <=> \E j \in 1 .. n + 1 : CapFindings(j) = <<e>>
  <2>1. \A j : Findings(j) = CapFindings(j)
    BY DEF Findings
  <2>2. QED
    BY <1>1, <2>1, ReportedIs
<1>4. \A e : Worth(e) = IF e.words \cap {"setuid", "dac_override"} # {} THEN SETUID_CAP ELSE NoToken
  <2>1. "capabilities" \notin DOMAIN ProbeToken
    BY DEF ProbeToken
  <2>2. \A e : LinkOf(e).text = e.words
    BY DEF LinkOf
  <2>3. QED
    BY <2>1, <2>2 DEF Worth, TokenOf
<1>5. SETUID_CAP \in Granted <=> \E e \in Reported : e.words \cap {"setuid", "dac_override"} # {}
  BY <1>4, GrantedIs DEF SETUID_CAP, NoToken
<1>6. CapFindings(n + 1) = << >>
  BY <1>2 DEF CapFindings, FoundIf, NamesInDigits
<1>7. ASSUME NEW k \in 1 .. n
      PROVE  (\E e : CapFindings(k) = <<e>> /\ e.words \cap {"setuid", "dac_override"} # {}) <=> Serves(k)
  <2> DEFINE x == host.files[k]
             caps == DecodeCaps(x)
             words == CapWords(caps)
             a == Finding("CAP", <<k>>, 90, 3, words)
             b == Finding("CAP", <<k>>, 50, 2, words)
  <2>1. caps \cap {SETUID, DAC_OVERRIDE} = x.permitted \cap {SETUID, DAC_OVERRIDE}
    <3> HIDE DEF x
    <3>1. x \in CapFile
      BY <1>2 DEF x
    <3>2. x.permitted \in SUBSET Nat /\ x.inheritable \in SUBSET Nat
      BY <3>1 DEF CapFile
    <3>3. <<x.revision, x.size>> \in {<<1, 12>>, <<2, 20>>, <<3, 24>>}
      BY DEF Wellformed, x
    <3>4. \/ x.revision = 1 /\ x.size = 12
          \/ x.revision = 2 /\ x.size = 20
          \/ x.revision = 3 /\ x.size = 24
      BY <3>3
    <3> DEFINE low == x.permitted \cap 0 .. 31
               high == {c + 32 : c \in x.inheritable \cap 0 .. 31}
               both == {SETUID, DAC_OVERRIDE}
    <3>5. caps = low \/ caps = (low \cup high) \cap CapName
      BY <3>4 DEF DecodeCaps
    <3>6. high \cap both = {} /\ low \cap both = x.permitted \cap both /\ both \subseteq CapName
      BY <3>2 DEF SETUID, DAC_OVERRIDE, CapName
    <3> HIDE DEF caps, low, high, both
    <3>7. caps \cap both = x.permitted \cap both
      BY <3>5, <3>6
    <3>8. QED
      BY <3>7 DEF both
  <2>2. words \cap {"setuid", "dac_override"} # {} <=> caps \cap {SETUID, DAC_OVERRIDE} # {}
    <3> HIDE DEF caps
    <3>1. /\ "setuid" \in words <=> SETUID \in caps
          /\ "dac_override" \in words <=> DAC_OVERRIDE \in caps
      BY DEF CapWords
    <3>2. QED
      BY <3>1
  <2>3. CapFindings(k) \in {<<a>>, <<b>>}
    <3>1. ~ (k > n)
      BY <1>2
    <3>2. QED
      BY <3>1, Zenon DEF CapFindings, FoundIf
  <2>4. a.words = words /\ b.words = words
    BY DEF Finding
  <2> HIDE DEF a, b
  <2>5. PICK f : CapFindings(k) = <<f>> /\ f.words = words
    BY <2>3, <2>4
  <2>6. \A e : CapFindings(k) = <<e>> <=> e = f
    BY <2>5
  <2> HIDE DEF words, caps
  <2>7. QED
    BY <2>1, <2>2, <2>5, <2>6
<1> HIDE DEF Serves
<1>8. (\E e \in Reported : e.words \cap {"setuid", "dac_override"} # {}) <=> \E k \in 1 .. n : Serves(k)
  <2>1. \A e : e \in Reported <=> \E j \in 1 .. n : CapFindings(j) = <<e>>
    <3>1. \A j : j \in 1 .. n + 1 <=> j \in 1 .. n \/ j = n + 1
      BY <1>2
    <3>2. \A e : << >> # <<e>>
      OBVIOUS
    <3>3. QED
      BY <1>3, <1>6, <3>1, <3>2
  <2>2. QED
    BY <1>7, <2>1
<1>9. QED
  BY <1>5, <1>8, Zenon DEF Serves

(* world_writable.                                                         *)
LEMMA WorldTokens ==
  ASSUME probe = "world_writable", FactInv, AloneInv, pc = "done"
  PROVE  \A w \in Range(Words) :
           GrantOf(w) \in Granted <=> \E k \in 1 .. Len(host.files) : FirstWord(host.files[k]) = w
<1> DEFINE n == Len(host.files)
<1>1. probe \in FactProbe /\ Readable /\ Items = n + 5
  BY DEF Readable, Items, FactProbe, STICKY_DIRS
<1>2. n \in Nat
  BY HostTypes DEF FactInv
<1>3. \A e : e \in Reported <=> \E j \in 1 .. n + 5 : WorldFindings(j) = <<e>>
  <2>1. \A j : Findings(j) = WorldFindings(j)
    BY DEF Findings
  <2>2. QED
    BY <1>1, <2>1, ReportedIs
<1>4. Range(Words) = {"sudoers", "systemd", "cron", "ld.so"}
  BY DEF Range, Words
<1>5. ASSUME NEW path
      PROVE  LET T == TargetWords(path) IN
             /\ "sudoers" \in T => FirstWord(path) = "sudoers"
             /\ "sudoers" \notin T /\ "systemd" \in T => FirstWord(path) = "systemd"
             /\ "sudoers" \notin T /\ "systemd" \notin T /\ "cron" \in T => FirstWord(path) = "cron"
             /\ "sudoers" \notin T /\ "systemd" \notin T /\ "cron" \notin T
                  /\ "ld.so" \in T => FirstWord(path) = "ld.so"
             /\ "sudoers" \notin T /\ "systemd" \notin T /\ "cron" \notin T
                  /\ "ld.so" \notin T => FirstWord(path) = ""
  <2> DEFINE T == TargetWords(path)
             has == {k \in 1 .. 4 : Words[k] \in T}
             m == Min(has)
  <2>1. /\ 1 \in has <=> "sudoers" \in T
        /\ 2 \in has <=> "systemd" \in T
        /\ 3 \in has <=> "cron" \in T
        /\ 4 \in has <=> "ld.so" \in T
    BY DEF Words
  <2>2. has \in SUBSET Nat /\ has \subseteq 1 .. 4
    OBVIOUS
  <2>3. FirstWord(path) = IF has = {} THEN "" ELSE Words[m]
    BY DEF FirstWord
  <2> HIDE DEF has, T
  <2>4. has # {} => m \in has /\ \A k \in has : m <= k
    BY <2>2, LeastOfNats
  <2> HIDE DEF m
  <2>5. Words[1] = "sudoers" /\ Words[2] = "systemd" /\ Words[3] = "cron" /\ Words[4] = "ld.so"
    BY DEF Words
  <2>6. has = {} <=> 1 \notin has /\ 2 \notin has /\ 3 \notin has /\ 4 \notin has
    BY <2>2
  <2>7. m \in has => m = 1 \/ m = 2 \/ m = 3 \/ m = 4
    BY <2>2
  <2>8. /\ "sudoers" \in T => FirstWord(path) = "sudoers"
        /\ "sudoers" \notin T /\ "systemd" \in T => FirstWord(path) = "systemd"
        /\ "sudoers" \notin T /\ "systemd" \notin T /\ "cron" \in T => FirstWord(path) = "cron"
        /\ "sudoers" \notin T /\ "systemd" \notin T /\ "cron" \notin T
             /\ "ld.so" \in T => FirstWord(path) = "ld.so"
        /\ "sudoers" \notin T /\ "systemd" \notin T /\ "cron" \notin T
             /\ "ld.so" \notin T => FirstWord(path) = ""
    <3>1. ASSUME 1 \in has PROVE FirstWord(path) = "sudoers"
      <4>1. has # {} /\ m \in has /\ m <= 1
        BY <2>4, <3>1
      <4>2. m = 1
        BY <2>7, <3>1, <4>1
      <4>3. QED
        BY <2>3, <2>5, <4>1, <4>2
    <3>2. ASSUME 1 \notin has /\ 2 \in has PROVE FirstWord(path) = "systemd"
      <4>1. has # {} /\ m \in has /\ m <= 2
        BY <2>4, <3>2
      <4>2. m = 2
        BY <2>7, <3>2, <4>1
      <4>3. QED
        BY <2>3, <2>5, <4>1, <4>2
    <3>3. ASSUME 1 \notin has /\ 2 \notin has /\ 3 \in has PROVE FirstWord(path) = "cron"
      <4>1. has # {} /\ m \in has /\ m <= 3
        BY <2>4, <3>3
      <4>2. m = 3
        BY <2>7, <3>3, <4>1
      <4>3. QED
        BY <2>3, <2>5, <4>1, <4>2
    <3>4. ASSUME 1 \notin has /\ 2 \notin has /\ 3 \notin has /\ 4 \in has PROVE FirstWord(path) = "ld.so"
      <4>1. has # {} /\ m \in has /\ m <= 4
        BY <2>4, <3>4
      <4>2. m = 4
        BY <2>7, <3>4, <4>1
      <4>3. QED
        BY <2>3, <2>5, <4>1, <4>2
    <3>5. has = {} => FirstWord(path) = ""
      BY <2>3
    <3>6. QED
      BY <2>1, <2>6, <3>1, <3>2, <3>3, <3>4, <3>5, Zenon
  <2>9. QED
    BY <2>8 DEF T
<1>6. ASSUME NEW e
      PROVE  \A w \in Range(Words) : Worth(e) = GrantOf(w) <=> FirstWord(e.path) = w
  <2> DEFINE T == TargetWords(e.path)
  <2>1. "world_writable" \notin DOMAIN ProbeToken /\ LinkOf(e).target = T
    BY DEF ProbeToken, LinkOf
  <2>2. "preload" \notin T
    BY DEF TargetWords, WordsIn
  <2>3. /\ "sudoers" \in T => Worth(e) = WRITE_SUDOERS
        /\ "sudoers" \notin T /\ "systemd" \in T => Worth(e) = WRITE_SYSTEMD
        /\ "sudoers" \notin T /\ "systemd" \notin T /\ "cron" \in T => Worth(e) = WRITE_CRON
        /\ "sudoers" \notin T /\ "systemd" \notin T /\ "cron" \notin T
             /\ "ld.so" \in T => Worth(e) = INJECT_PRELOAD
        /\ "sudoers" \notin T /\ "systemd" \notin T /\ "cron" \notin T
             /\ "ld.so" \notin T => Worth(e) = NoToken
    <3> DEFINE l == LinkOf(e)
    <3>1. Worth(e) = TokenOf("world_writable", l) /\ l.target = T
      BY <2>1 DEF Worth
    <3> HIDE DEF l, T
    <3>2. TokenOf("world_writable", l) =
            CASE "sudoers" \in T -> WRITE_SUDOERS
              [] "sudoers" \notin T /\ "systemd" \in T -> WRITE_SYSTEMD
              [] T \cap {"sudoers", "systemd"} = {} /\ "cron" \in T -> WRITE_CRON
              [] /\ T \cap {"sudoers", "systemd", "cron"} = {}
                 /\ T \cap {"ld.so", "preload"} # {} -> INJECT_PRELOAD
              [] OTHER -> NoToken
      BY <2>1, <3>1 DEF TokenOf
    <3>3. ASSUME "sudoers" \in T PROVE Worth(e) = WRITE_SUDOERS
      BY <3>1, <3>2, <3>3
    <3>4. ASSUME "sudoers" \notin T /\ "systemd" \in T PROVE Worth(e) = WRITE_SYSTEMD
      BY <3>1, <3>2, <3>4
    <3>5. ASSUME "sudoers" \notin T /\ "systemd" \notin T /\ "cron" \in T PROVE Worth(e) = WRITE_CRON
      BY <3>1, <3>2, <3>5
    <3>6. ASSUME "sudoers" \notin T /\ "systemd" \notin T /\ "cron" \notin T /\ "ld.so" \in T
          PROVE  Worth(e) = INJECT_PRELOAD
      BY <3>1, <3>2, <3>6
    <3>7. ASSUME "sudoers" \notin T /\ "systemd" \notin T /\ "cron" \notin T /\ "ld.so" \notin T
          PROVE  Worth(e) = NoToken
      <4>1. T \cap {"ld.so", "preload"} = {}
        BY <2>2, <3>7
      <4>2. QED
        BY <3>1, <3>2, <3>7, <4>1
    <3>8. QED
      BY <3>3, <3>4, <3>5, <3>6, <3>7, Zenon
  <2>4. /\ GrantOf("sudoers") = WRITE_SUDOERS /\ GrantOf("systemd") = WRITE_SYSTEMD
        /\ GrantOf("cron") = WRITE_CRON /\ GrantOf("ld.so") = INJECT_PRELOAD
    BY DEF GrantOf
  <2> DEFINE first == FirstWord(e.path)
  <2>5. /\ "sudoers" \in T => first = "sudoers"
        /\ "sudoers" \notin T /\ "systemd" \in T => first = "systemd"
        /\ "sudoers" \notin T /\ "systemd" \notin T /\ "cron" \in T => first = "cron"
        /\ "sudoers" \notin T /\ "systemd" \notin T /\ "cron" \notin T
             /\ "ld.so" \in T => first = "ld.so"
        /\ "sudoers" \notin T /\ "systemd" \notin T /\ "cron" \notin T
             /\ "ld.so" \notin T => first = ""
    BY <1>5
  <2> HIDE DEF T, first
  <2>6. \/ Worth(e) = WRITE_SUDOERS /\ first = "sudoers"
        \/ Worth(e) = WRITE_SYSTEMD /\ first = "systemd"
        \/ Worth(e) = WRITE_CRON /\ first = "cron"
        \/ Worth(e) = INJECT_PRELOAD /\ first = "ld.so"
        \/ Worth(e) = NoToken /\ first = ""
    BY <2>3, <2>5, Zenon
  <2>7. \A w \in Range(Words) : Worth(e) = GrantOf(w) <=> first = w
    <3>1. SUFFICES ASSUME NEW w \in {"sudoers", "systemd", "cron", "ld.so"}
                   PROVE  Worth(e) = GrantOf(w) <=> first = w
      BY <1>4
    <3>2. /\ GrantOf(w) \in {WRITE_SUDOERS, WRITE_SYSTEMD, WRITE_CRON, INJECT_PRELOAD}
          /\ GrantOf(w) = WRITE_SUDOERS <=> w = "sudoers"
          /\ GrantOf(w) = WRITE_SYSTEMD <=> w = "systemd"
          /\ GrantOf(w) = WRITE_CRON <=> w = "cron"
          /\ GrantOf(w) = INJECT_PRELOAD <=> w = "ld.so"
      BY <2>4 DEF WRITE_SUDOERS, WRITE_SYSTEMD, WRITE_CRON, INJECT_PRELOAD
    <3>3. NoToken \notin {WRITE_SUDOERS, WRITE_SYSTEMD, WRITE_CRON, INJECT_PRELOAD}
      BY DEF WRITE_SUDOERS, WRITE_SYSTEMD, WRITE_CRON, INJECT_PRELOAD, NoToken
    <3>4. QED
      BY <2>6, <3>2, <3>3
  <2>8. QED
    BY <2>7 DEF first
<1>7. \A w \in Range(Words) : GrantOf(w) # NoToken
  BY <1>4 DEF GrantOf, WRITE_SUDOERS, WRITE_SYSTEMD, WRITE_CRON, INJECT_PRELOAD, NoToken
<1>8. ASSUME NEW k \in 1 .. n
      PROVE  \E f : WorldFindings(k) = <<f>> /\ f.path = host.files[k]
  <2> DEFINE f(w, v) == Finding("WW", host.files[k], w, v, {})
  <2>1. ~ (k > n)
    BY <1>2
  <2>2. \/ WorldFindings(k) = <<f(95, 4)>> \/ WorldFindings(k) = <<f(85, 3)>>
        \/ WorldFindings(k) = <<f(70, 2)>> \/ WorldFindings(k) = <<f(50, 1)>>
    BY <2>1 DEF WorldFindings, FoundIf
  <2>3. \A w, v : f(w, v).path = host.files[k]
    BY DEF Finding
  <2> HIDE DEF f
  <2>4. QED
    BY <2>2, <2>3
<1>9. ASSUME NEW j \in n + 1 .. n + 5, NEW e, WorldFindings(j) = <<e>>
      PROVE  FirstWord(e.path) = ""
  <2> DEFINE i == j - n
             g == Finding("STICKY", STICKY_DIRS[i], 85, 3, {})
  <2>1. j > n /\ i \in 1 .. 5
    BY <1>2
  <2>2. WorldFindings(j) \in {<< >>, <<g>>}
    BY <2>1 DEF WorldFindings, FoundIf
  <2>3. g.path = STICKY_DIRS[i]
    BY DEF Finding
  <2> HIDE DEF g
  <2>4. e.path = STICKY_DIRS[i]
    BY <1>9, <2>2, <2>3
  <2> HIDE DEF i
  <2>5. TargetWords(STICKY_DIRS[i]) = {}
    <3>1. \A name \in {"tmp", "dev", "shm", "var", "spool", "lock"} : WordsIn(name) = {}
      BY DEF WordsIn
    <3>2. \A m \in 1 .. Len(STICKY_DIRS[i]) :
            STICKY_DIRS[i][m] \in {"tmp", "dev", "shm", "var", "spool", "lock"}
      <4>1. STICKY_DIRS[i] \in {<<"tmp">>, <<"dev", "shm">>, <<"var", "tmp">>, <<"var", "spool">>,
                               <<"var", "lock">>}
        BY <2>1 DEF STICKY_DIRS
      <4> DEFINE d == STICKY_DIRS[i]
      <4> HIDE DEF d
      <4>2. d \in {<<"tmp">>, <<"dev", "shm">>, <<"var", "tmp">>, <<"var", "spool">>, <<"var", "lock">>}
              => \A m \in 1 .. Len(d) : d[m] \in {"tmp", "dev", "shm", "var", "spool", "lock"}
        OBVIOUS
      <4>3. QED
        BY <4>1, <4>2 DEF d
    <3>3. QED
      BY <3>1, <3>2 DEF TargetWords
  <2>6. QED
    BY <1>5, <2>4, <2>5
<1>10. ASSUME NEW w \in Range(Words)
       PROVE  (\E e \in Reported : FirstWord(e.path) = w) <=> \E k \in 1 .. n : FirstWord(host.files[k]) = w
  <2>1. w # ""
    BY <1>4
  <2>2. ASSUME NEW e \in Reported, FirstWord(e.path) = w
        PROVE  \E k \in 1 .. n : FirstWord(host.files[k]) = w
    <3>1. PICK j \in 1 .. n + 5 : WorldFindings(j) = <<e>>
      BY <1>3
    <3>2. j \in 1 .. n
      <4>1. j \notin n + 1 .. n + 5
        BY <1>9, <2>1, <2>2, <3>1
      <4>2. QED
        BY <1>2, <4>1
    <3>3. PICK f : WorldFindings(j) = <<f>> /\ f.path = host.files[j]
      BY <1>8, <3>2
    <3>4. f = e
      BY <3>1, <3>3
    <3>5. QED
      BY <2>2, <3>2, <3>3, <3>4
  <2>3. ASSUME NEW k \in 1 .. n, FirstWord(host.files[k]) = w
        PROVE  \E e \in Reported : FirstWord(e.path) = w
    <3>1. PICK f : WorldFindings(k) = <<f>> /\ f.path = host.files[k]
      BY <1>8
    <3>2. k \in 1 .. n + 5
      BY <1>2
    <3>3. f \in Reported
      BY <1>3, <3>1, <3>2
    <3>4. QED
      BY <2>3, <3>1, <3>3
  <2>4. QED
    BY <2>2, <2>3
<1>11. QED
  BY <1>6, <1>7, <1>10, GrantedIs

(***************************************************************************)
(* For any host, a finished probe that goes by facts grants the composer   *)
(* the tokens that the host calls for, and no others.                      *)
(***************************************************************************)
THEOREM TokensTrue == Spec => []Tokens
<1>1. Inv => Tokens
  <2> SUFFICES ASSUME Inv, probe \in FactProbe, pc = "done" PROVE TokensMeant
    BY DEF Tokens, TokensMeant
  <2>1. FactInv /\ AloneInv
    BY DEF Inv
  <2>2. CASE probe = "kernel_vuln"
    BY <2>1, <2>2, KernelToken DEF TokensMeant
  <2>3. CASE probe = "polkit"
    <3>1. Before122(host.version) => Part(host.version, 1) < 122
      BY DEF Before122
    <3>2. QED
      BY <2>1, <2>3, <3>1, PolkitToken DEF TokensMeant
  <2>4. CASE probe = "groups"
    BY <2>1, <2>4, GroupsTokens DEF TokensMeant
  <2>5. CASE probe = "capabilities"
    BY <2>1, <2>5, CapsToken DEF TokensMeant
  <2>6. CASE probe = "writable_path"
    BY <2>1, <2>6, PathToken DEF TokensMeant
  <2>7. CASE probe = "nfs"
    <3> DEFINE options == UNION {host.exports[k].options : k \in 1 .. Len(host.exports)}
    <3>1. ROOT \in Granted <=> host.exists /\ \E k \in 1 .. Len(host.exports) :
            World(host.exports[k]) \/ host.exports[k].options \cap {"no_root_squash", "insecure"} # {}
      BY <2>1, <2>7, NfsToken
    <3>2. "no_root_squash" \in options =>
            \E k \in 1 .. Len(host.exports) : host.exports[k].options \cap {"no_root_squash", "insecure"} # {}
      OBVIOUS
    <3>3. QED
      BY <2>7, <3>1, <3>2 DEF TokensMeant
  <2>8. CASE probe = "sudoers"
    BY <2>1, <2>8, SudoersToken DEF TokensMeant
  <2>9. CASE probe = "suid"
    BY <2>1, <2>9, SuidToken DEF TokensMeant
  <2>10. CASE probe = "world_writable"
    BY <2>1, <2>10, WorldTokens DEF TokensMeant
  <2>11. CASE probe = "kernel_hardening"
    BY <2>1, <2>11, HardeningToken DEF TokensMeant
  <2>12. QED
    BY <2>2, <2>3, <2>4, <2>5, <2>6, <2>7, <2>8, <2>9, <2>10, <2>11 DEF FactProbe
<1>2. QED
  BY <1>1, InvariantHolds, PTL
=============================================================================
