------------------------------ MODULE DirScan ------------------------------
(***************************************************************************)
(* The recursive directory walk of the suid, world_writable and            *)
(* capabilities probes (scan_dir, scan_dir_caps), over a file system that  *)
(* other processes change while the walk is under way.                     *)
(*                                                                         *)
(* What lstat saw of a path need not be what opendir or getxattr then      *)
(* finds.  An open directory, in contrast, stays the directory that was    *)
(* opened.                                                                 *)
(***************************************************************************)
EXTENDS FileTree

CONSTANTS
  Name,             \* the names of entries
  Contents,         \* the entries at the start, by directory and name
  Interesting,      \* the files with the bits, or the attribute, looked for
  Walks             \* the walks of the probes: starts, skip, maxDepth,
                    \* maxFindings, and twice: a second call has to look
                    \* at a file, as getxattr does in scan_dir_caps

ASSUME ContentsAssumption ==
  /\ Name \subseteq STRING /\ Interesting \subseteq File
  /\ DOMAIN Contents = Dir
  /\ \A d \in Dir : DOMAIN Contents[d] \subseteq Name /\ Range(Contents[d]) \subseteq Inode
ASSUME WalksAssumption ==
  \A w \in Walks :
    w.starts \in Seq(Seq(STRING)) /\ w.maxDepth \in Nat \ {0} /\ w.maxFindings \in Nat

VARIABLES
  walk,      \* which of Walks
  pc,        \* "start", "read", "lstat", "opendir", "getxattr" or "done"
  start,     \* the index of the start the walk is at
  stack,     \* the active calls: path, directory, names seen, names at opening
  child,     \* the local variable child
  findings   \* the paths reported

walking == <<walk, pc, start, stack, child, findings>>
vars == <<walking, files>>

Init ==
  /\ walk \in Walks
  /\ pc = "start" /\ start = 1
  /\ stack = << >> /\ child = << >>
  /\ findings = << >>
  /\ TreeInit(Contents, Interesting)

-----------------------------------------------------------------------------

(* The cap on findings with its comparison one too weak.                   *)
FullLate == Len(findings) > walk.maxFindings
Full == Len(findings) >= walk.maxFindings

(* The bound on the depth with its comparison one too weak.                *)
MayDescendLate == Len(stack) <= walk.maxDepth

(* depth + 1 < MAX_DEPTH, the depth of the first call being 0.             *)
MayDescend == Len(stack) < walk.maxDepth

Frame(path, d) == [path |-> path, dir |-> d, seen |-> {}, listed |-> Names(d)]

Report(path) == findings' = Append(findings, path)

(* The next start when one cannot be opened: the same one, ...             *)
SameStart == start

(* ... and, as in the code, the one after it.                              *)
NextStart == start + 1

(* The probe calls scan_dir on its next start, which may not open.         *)
Start ==
  /\ pc = "start"
  /\ start <= Len(walk.starts)
  /\ LET path == walk.starts[start] IN
     IF Opens(path)
     THEN /\ stack' = <<Frame(path, Stat(path))>>
          /\ pc' = "read"
          /\ UNCHANGED start
     ELSE /\ start' = NextStart
          /\ UNCHANGED <<stack, pc>>
  /\ UNCHANGED <<walk, child, findings, files>>

Done ==
  /\ pc = "start"
  /\ start > Len(walk.starts)
  /\ pc' = "done"
  /\ UNCHANGED <<walk, start, stack, child, findings, files>>

(* readdir yields a name: one that is there, or one that was when the      *)
(* directory was opened.                                                   *)
ReadEntry ==
  /\ pc = "read"
  /\ ~Full
  /\ LET f == Last(stack) IN
     \E n \in (f.listed \cup Names(f.dir)) \ f.seen :
       /\ child' = Append(f.path, n)
       /\ stack' = Append(Front(stack), [f EXCEPT !.seen = @ \cup {n}])
  /\ pc' = "lstat"
  /\ UNCHANGED <<walk, start, findings, files>>

(* The loop ends, at the cap or when readdir has nothing left that has     *)
(* been there all the time; the directory is closed and the call returns.  *)
CloseDir ==
  /\ pc = "read"
  /\ Full \/ LET f == Last(stack) IN f.listed \cap Names(f.dir) \subseteq f.seen
  /\ stack' = Front(stack)
  /\ IF Len(stack) = 1
     THEN pc' = "start" /\ start' = start + 1
     ELSE UNCHANGED <<pc, start>>
  /\ UNCHANGED <<walk, child, findings, files>>

(* lstat, and what the loop makes of the answer.                           *)
Look ==
  /\ pc = "lstat"
  /\ LET i == Lstat(child) IN
     \/ /\ i \in Dir /\ Last(child) \notin walk.skip /\ MayDescend
        /\ pc' = "opendir"
        /\ UNCHANGED findings
     \/ /\ i \in File /\ walk.twice
        /\ pc' = "getxattr"
        /\ UNCHANGED findings
     \/ /\ i \in bits /\ ~walk.twice
        /\ Report(child)
        /\ pc' = "read"
     \/ /\ i \notin bits
        /\ i \in File => ~walk.twice
        /\ i \in Dir => Last(child) \in walk.skip \/ ~MayDescend
        /\ pc' = "read"
        /\ UNCHANGED findings
  /\ UNCHANGED <<walk, start, stack, child, files>>

(* The recursive call, on whatever the path leads to by now.               *)
Descend ==
  /\ pc = "opendir"
  /\ stack' = IF Opens(child) THEN Append(stack, Frame(child, Stat(child))) ELSE stack
  /\ pc' = "read"
  /\ UNCHANGED <<walk, start, child, findings, files>>

(* read_cap_xattr, on whatever the path leads to by now.                   *)
GetXattr ==
  /\ pc = "getxattr"
  /\ IF Stat(child) \in bits THEN Report(child) ELSE UNCHANGED findings
  /\ pc' = "read"
  /\ UNCHANGED <<walk, start, stack, child, files>>

Step == Start \/ Done \/ ReadEntry \/ CloseDir \/ Look \/ Descend \/ GetXattr

-----------------------------------------------------------------------------

(* What other processes do meanwhile.                                      *)
Others ==
  /\ pc # "done"
  /\ Change(Name)
  /\ UNCHANGED walking

Next == Step \/ Others

(* The walk waits for nobody; others may do nothing at all.                *)
Spec == Init /\ [][Next]_vars
FairSpec == Spec /\ WF_vars(Step)

-----------------------------------------------------------------------------

Path == Seq(STRING)

(* Type correctness of the walk, with the caps on findings.                *)
TypeOK ==
  /\ pc \in {"start", "read", "lstat", "opendir", "getxattr", "done"}
  /\ start \in 1 .. Len(walk.starts) + 1
  /\ stack \in Seq([path : Path, dir : Dir, seen : SUBSET Name, listed : SUBSET Name])
  /\ child \in Path
  /\ findings \in Seq(Path) /\ Len(findings) <= walk.maxFindings
  /\ \A d \in Dir : Names(d) \subseteq Name /\ Range(entries[d]) \subseteq Inode
  /\ bits \subseteq File

(***************************************************************************)
(* The recursion is bounded whatever the tree is turned into meanwhile:    *)
(* no more directories are open than the depth limit allows, each is one   *)
(* name below the one before, and none is left open at the end.            *)
(***************************************************************************)
StackIsPath ==
  /\ Len(stack) <= walk.maxDepth
  /\ stack = << >> <=> pc \in {"start", "done"}
  /\ stack # << >> => stack[1].path = walk.starts[start]
  /\ \A k \in 2 .. Len(stack) : Front(stack[k].path) = stack[k - 1].path
  /\ pc \in {"lstat", "opendir", "getxattr"} =>
       Front(child) = Last(stack).path /\ Last(child) \in Last(stack).seen

(* The paths of the files at the start.                                    *)
FilePaths == {p \in PathsOf(Contents) : LstatIn(Contents, p) \in File}

(* A walk from s is meant to get to p: no directory in between is skipped, *)
(* and the limit on the depth is far enough.                               *)
Covers(s, p) ==
  /\ IsStrictPrefix(s, p)
  /\ Len(p) - Len(s) <= walk.maxDepth
  /\ \A k \in Len(s) + 1 .. Len(p) - 1 : p[k] \notin walk.skip

(* No entry between s and the end of p, that one included, is a link.      *)
Straight(s, p) ==
  \A j \in Len(s) + 1 .. Len(p) : Entry(Stat(SubSeq(p, 1, j - 1)), p[j]) \notin Link

(***************************************************************************)
(* Whatever others change, the report is exact on what they leave alone.   *)
(* A file that is steady all through the walk is reported, if it is        *)
(* interesting, once for each start that covers it, and otherwise never;   *)
(* only the cap on findings can cut that short.  Without any change, all   *)
(* that is reported is interesting, and below a start that covers it no    *)
(* link was followed.                                                      *)
(***************************************************************************)
ExactWhereSteady ==
  /\ \A p \in FilePaths : Steady(p) =>
       LET reports == Cardinality({k \in 1 .. Len(findings) : findings[k] = p})
           due == IF Lstat(p) \in bits
                  THEN Cardinality({i \in 1 .. Len(walk.starts) : Covers(walk.starts[i], p)})
                  ELSE 0
       IN reports <= due /\ (pc = "done" /\ ~Full => reports = due)
  /\ changes = 0 =>
       \A k \in 1 .. Len(findings) :
         /\ Stat(findings[k]) \in bits
         /\ \E i \in 1 .. Len(walk.starts) :
              Covers(walk.starts[i], findings[k]) /\ Straight(walk.starts[i], findings[k])

(***************************************************************************)
(* The walk ends, once others stop changing the tree, even if links they   *)
(* made lead it back up.                                                   *)
(***************************************************************************)
Terminates == <>(pc = "done")
=============================================================================
