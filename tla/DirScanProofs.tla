---------------------------- MODULE DirScanProofs ----------------------------
(***************************************************************************)
(* What TLC finds of DirScan for one small tree and one change, proved for *)
(* any tree, any walks and any number of changes: the types with the cap   *)
(* on findings, the bound on the recursion, and that what others leave     *)
(* alone is reported once for each start that covers it.                   *)
(***************************************************************************)
EXTENDS DirScan, FileTreeProofs

Frames == [path : Path, dir : Dir, seen : SUBSET Name, listed : SUBSET Name]

(* The tree that others make of the one at the start is still a tree.      *)
TreeTyped ==
  /\ DOMAIN entries = Dir
  /\ \A d \in Dir : Names(d) \subseteq Name /\ Range(entries[d]) \subseteq Inode
  /\ bits \subseteq File

WalkTyped ==
  /\ walk \in Walks
  /\ pc \in {"start", "read", "lstat", "opendir", "getxattr", "done"}
  /\ start \in 1 .. Len(walk.starts) + 1
  /\ stack \in Seq(Frames)
  /\ child \in Path
  /\ findings \in Seq(Path) /\ Len(findings) <= walk.maxFindings

(* What a call is about to do was allowed when it was decided on.          *)
Allowed ==
  /\ pc \in {"lstat", "opendir", "getxattr"} => Len(findings) < walk.maxFindings
  /\ pc = "opendir" => Len(stack) < walk.maxDepth
  /\ stack # << >> => start <= Len(walk.starts)

(***************************************************************************)
(* The inductive invariant.                                                *)
(***************************************************************************)
IInv == TreeTyped /\ WalkTyped /\ Allowed /\ StackIsPath

-----------------------------------------------------------------------------

(* A sequence without its last element.                                    *)
LEMMA FrontOf ==
  ASSUME NEW S, NEW s \in Seq(S), s # << >>
  PROVE  /\ Front(s) \in Seq(S)
         /\ Len(s) \in Nat \ {0} /\ Len(Front(s)) = Len(s) - 1
         /\ \A i \in 1 .. Len(s) - 1 : Front(s)[i] = s[i]
         /\ Last(s) \in S
<1>1. Len(s) \in Nat \ {0}
  OBVIOUS
<1>2. Last(s) \in S
  BY <1>1 DEF Last
<1> DEFINE n == Len(s) - 1
<1>3. n \in Nat /\ \A i \in 1 .. n : s[i] \in S
  BY <1>1
<1>4. Front(s) = SubSeq(s, 1, n)
  BY DEF Front
<1> HIDE DEF n
<1>5. /\ SubSeq(s, 1, n) \in Seq(S)
      /\ Len(SubSeq(s, 1, n)) = IF 1 <= n THEN n - 1 + 1 ELSE 0
      /\ \A i \in 1 .. n - 1 + 1 : SubSeq(s, 1, n)[i] = s[1 + i - 1]
  BY <1>3, SubSeqProperties
<1>6. /\ Len(SubSeq(s, 1, n)) = n
      /\ \A i \in 1 .. n : SubSeq(s, 1, n)[i] = s[i]
  BY <1>3, <1>5
<1>7. QED
  BY <1>1, <1>2, <1>4, <1>5, <1>6 DEF n

LEMMA FrontOfAppend ==
  ASSUME NEW S, NEW s \in Seq(S), NEW x \in S
  PROVE  /\ Front(Append(s, x)) = s /\ Last(Append(s, x)) = x
         /\ Append(s, x) \in Seq(S) /\ Append(s, x) # << >>
<1> DEFINE t == Append(s, x)
<1>1. /\ t \in Seq(S) /\ Len(t) = Len(s) + 1 /\ t[Len(s) + 1] = x
      /\ \A i \in 1 .. Len(s) : t[i] = s[i]
      /\ Len(s) \in Nat
  OBVIOUS
<1> HIDE DEF t
<1>2. t # << >>
  BY <1>1
<1>3. /\ Front(t) \in Seq(S) /\ Len(Front(t)) = Len(s)
      /\ \A i \in 1 .. Len(s) : Front(t)[i] = s[i]
  BY <1>1, <1>2, FrontOf
<1>4. Front(t) = s
  BY <1>3, SeqEqual
<1>5. Last(t) = x
  BY <1>1 DEF Last
<1>6. QED
  BY <1>1, <1>2, <1>4, <1>5 DEF t

-----------------------------------------------------------------------------

(* What an entry leads to is an inode.                                     *)
LEMMA EntryType ==
  ASSUME TreeTyped, NEW d \in Dir, NEW n \in Names(d)
  PROVE  Entry(d, n) \in Inode
<1>1. Entry(d, n) = entries[d][n]
  BY DEF Entry, EntryIn, Names
<1>2. entries[d][n] \in Range(entries[d])
  BY DEF Range, Names
<1>3. QED
  BY <1>1, <1>2 DEF TreeTyped

(* Trees stay trees when an entry is taken out or put in.                  *)
IsTree(t) ==
  /\ DOMAIN t = Dir
  /\ \A d \in Dir : DOMAIN t[d] \subseteq Name /\ Range(t[d]) \subseteq Inode

LEMMA WithoutTree ==
  ASSUME NEW t, IsTree(t), NEW d \in Dir, NEW n
  PROVE  IsTree(Without(t, d, n))
<1> DEFINE e == [m \in DOMAIN t[d] \ {n} |-> t[d][m]]
<1>1. Without(t, d, n) = [t EXCEPT ![d] = e]
  BY DEF Without
<1>2. DOMAIN e \subseteq DOMAIN t[d] /\ Range(e) \subseteq Range(t[d])
  BY DEF Range
<1> HIDE DEF e
<1>3. QED
  BY <1>1, <1>2 DEF IsTree

LEMMA WithTree ==
  ASSUME NEW t, IsTree(t), NEW d \in Dir, NEW n \in Name, NEW i \in Inode
  PROVE  IsTree(With(t, d, n, i))
<1> DEFINE e == [m \in DOMAIN t[d] \cup {n} |-> IF m = n THEN i ELSE t[d][m]]
<1>1. With(t, d, n, i) = [t EXCEPT ![d] = e]
  BY DEF With
<1>2. /\ DOMAIN e = {n} \cup DOMAIN t[d]
      /\ \A m \in DOMAIN e : e[m] = i \/ (m \in DOMAIN t[d] /\ e[m] = t[d][m])
  OBVIOUS
<1> HIDE DEF e
<1>3. Range(e) \subseteq {i} \cup Range(t[d])
  BY <1>2 DEF Range
<1>4. QED
  BY <1>1, <1>2, <1>3 DEF IsTree

(* Others change the tree into a tree.                                     *)
LEMMA OthersKeepTree == TreeTyped /\ Others => TreeTyped'
<1> SUFFICES ASSUME TreeTyped, Others PROVE TreeTyped'
  OBVIOUS
<1>1. IsTree(entries) /\ bits \subseteq File
  BY DEF TreeTyped, IsTree, Names
<1>2. SUFFICES IsTree(entries') /\ bits' \subseteq File
  BY DEF TreeTyped, IsTree, Names
<1>3. Reached \subseteq Dir
  BY DEF Reached
<1>4. CASE Chmod
  <2>1. PICK f \in File : bits' = SymDiff(bits, {f})
    BY <1>4 DEF Chmod
  <2>2. bits' \subseteq File
    BY <1>1, <2>1 DEF SymDiff
  <2>3. entries' = entries
    BY <1>4 DEF Chmod
  <2>4. QED
    BY <1>1, <2>2, <2>3
<1>5. CASE Unlink
  <2>1. bits' = bits /\ \E d \in Reached : \E n \in Names(d) : entries' = Without(entries, d, n)
    BY <1>5, Zenon DEF Unlink
  <2>2. QED
    BY <1>1, <1>3, <2>1, WithoutTree
<1>6. CASE Symlink(Name)
  <2>1. bits' = bits
    BY <1>6, Zenon DEF Symlink
  <2>2. PICK d \in Reached, n \in Name, l \in Link : entries' = With(entries, d, n, l)
    BY <1>6, Zenon DEF Symlink
  <2>3. IsTree(With(entries, d, n, l))
    BY <1>1, <1>3, WithTree DEF Inode
  <2>4. QED
    BY <1>1, <2>1, <2>2, <2>3
<1>7. CASE Rename(Name)
  <2>1. bits' = bits
    BY <1>7, Zenon DEF Rename
  <2>2. PICK d \in Reached, e \in Reached : \E n \in Names(d), m \in Name \ Names(e) :
          entries' = With(Without(entries, d, n), e, m, Entry(d, n))
    BY <1>7, Zenon DEF Rename
  <2>3. PICK n \in Names(d), m \in Name :
          entries' = With(Without(entries, d, n), e, m, Entry(d, n))
    BY <2>2
  <2>4. Entry(d, n) \in Inode
    BY <1>3, EntryType
  <2>5. IsTree(Without(entries, d, n))
    BY <1>1, <1>3, WithoutTree
  <2>6. IsTree(With(Without(entries, d, n), e, m, Entry(d, n)))
    BY <1>3, <2>4, <2>5, WithTree
  <2>7. QED
    BY <1>1, <2>1, <2>3, <2>6
<1>8. QED
  BY <1>4, <1>5, <1>6, <1>7, Zenon DEF Others, Change

(* The tool changes nothing.                                               *)
LEMMA StepLeavesTree == Step => UNCHANGED files
  BY Zenon DEF Step, Start, Done, ReadEntry, CloseDir, Look, Descend, GetXattr

LEMMA TreeStep == TreeTyped /\ [Next]_vars => TreeTyped'
<1> SUFFICES ASSUME TreeTyped, [Next]_vars PROVE TreeTyped'
  OBVIOUS
<1>1. CASE Others
  BY <1>1, OthersKeepTree
<1>2. CASE Step \/ UNCHANGED vars
  <2>1. entries' = entries /\ bits' = bits
    BY <1>2, StepLeavesTree, Zenon DEF vars, files
  <2>2. QED
    BY <2>1 DEF TreeTyped, Names
<1>3. QED
  BY <1>1, <1>2, Zenon DEF Next

-----------------------------------------------------------------------------

(* An open directory is one, and lists names.                              *)
LEMMA FrameType ==
  ASSUME TreeTyped, NEW path \in Path, Opens(path)
  PROVE  Frame(path, Stat(path)) \in Frames /\ Frame(path, Stat(path)).path = path
<1>1. Stat(path) \in Dir
  BY DEF Opens
<1>2. Names(Stat(path)) \subseteq Name
  BY <1>1 DEF TreeTyped
<1>3. QED
  BY <1>1, <1>2 DEF Frame, Frames

(* The walk's parameters.                                                  *)
LEMMA WalkType ==
  ASSUME WalkTyped
  PROVE  /\ walk.starts \in Seq(Path) /\ Len(walk.starts) \in Nat
         /\ walk.maxDepth \in Nat \ {0} /\ walk.maxFindings \in Nat
         /\ \A i \in 1 .. Len(walk.starts) : walk.starts[i] \in Path
<1>1. walk.starts \in Seq(Path)
  BY WalksAssumption DEF WalksAssumption, WalkTyped, Path
<1>2. walk.maxDepth \in Nat \ {0} /\ walk.maxFindings \in Nat
  BY WalksAssumption DEF WalksAssumption, WalkTyped
<1>3. QED
  BY <1>1, <1>2

(***************************************************************************)
(* The paths of a stack of open directories, from s on.                    *)
(***************************************************************************)
Chained(st, s) ==
  /\ st[1].path = s
  /\ \A k \in 2 .. Len(st) : Front(st[k].path) = st[k - 1].path

(* A stack of open directories as long as the limit allows.                *)
StackOK(st, s, limit) ==
  st \in Seq(Frames) /\ st # << >> /\ Len(st) <= limit /\ Chained(st, s)

LEMMA PushOK ==
  ASSUME NEW st, NEW s, NEW limit \in Nat, StackOK(st, s, limit), Len(st) < limit,
         NEW f \in Frames, Front(f.path) = Last(st).path
  PROVE  StackOK(Append(st, f), s, limit)
<1> DEFINE t == Append(st, f)
<1>1. st \in Seq(Frames) /\ Len(st) \in Nat \ {0} /\ Last(st) = st[Len(st)]
  BY FrontOf DEF StackOK, Last
<1>2. /\ t \in Seq(Frames) /\ Len(t) = Len(st) + 1 /\ t[Len(st) + 1] = f
      /\ \A k \in 1 .. Len(st) : t[k] = st[k]
  BY <1>1
<1> HIDE DEF t
<1>3. t # << >> /\ Len(t) <= limit
  BY <1>1, <1>2
<1>4. t[1].path = s
  BY <1>1, <1>2 DEF StackOK, Chained
<1>5. ASSUME NEW k \in 2 .. Len(t) PROVE Front(t[k].path) = t[k - 1].path
  <2>1. k - 1 \in 1 .. Len(st) /\ (k \in 2 .. Len(st) \/ k = Len(st) + 1)
    BY <1>1, <1>2
  <2>2. CASE k \in 2 .. Len(st)
    <3>1. k \in 1 .. Len(st)
      BY <2>2
    <3>2. Front(st[k].path) = st[k - 1].path
      BY <2>2 DEF StackOK, Chained
    <3>3. QED
      BY <1>2, <2>1, <3>1, <3>2
  <2>3. CASE k = Len(st) + 1
    <3>1. t[k] = f /\ t[k - 1] = st[Len(st)]
      BY <1>1, <1>2, <2>1, <2>3
    <3>2. QED
      BY <1>1, <3>1
  <2>4. QED
    BY <2>1, <2>2, <2>3
<1>6. QED
  BY <1>2, <1>3, <1>4, <1>5 DEF StackOK, Chained, t

(* The last frame may be replaced by one of the same path.                 *)
LEMMA ReplaceOK ==
  ASSUME NEW st, NEW s, NEW limit \in Nat, StackOK(st, s, limit),
         NEW f \in Frames, f.path = Last(st).path
  PROVE  StackOK(Append(Front(st), f), s, limit)
<1> DEFINE u == Front(st)
           t == Append(u, f)
<1>1. /\ st \in Seq(Frames) /\ Len(st) \in Nat \ {0} /\ Last(st) = st[Len(st)]
      /\ u \in Seq(Frames) /\ Len(u) = Len(st) - 1
      /\ \A k \in 1 .. Len(st) - 1 : u[k] = st[k]
  BY FrontOf DEF StackOK, Last
<1> HIDE DEF u
<1>2. /\ t \in Seq(Frames) /\ Len(t) = Len(st) /\ t[Len(st)] = f
      /\ \A k \in 1 .. Len(st) - 1 : t[k] = st[k]
  BY <1>1
<1> HIDE DEF t
<1>3. \A k \in 1 .. Len(st) : t[k].path = st[k].path
  <2>1. ASSUME NEW k \in 1 .. Len(st) PROVE k \in 1 .. Len(st) - 1 \/ k = Len(st)
    BY <1>1
  <2>2. QED
    BY <1>1, <1>2, <2>1
<1>4. \A k \in 2 .. Len(st) : k \in 1 .. Len(st) /\ k - 1 \in 1 .. Len(st)
  BY <1>1
<1>5. 1 \in 1 .. Len(st)
  BY <1>1
<1>6. Chained(t, s)
  BY <1>2, <1>3, <1>4, <1>5 DEF StackOK, Chained
<1>7. t # << >> /\ Len(t) <= limit
  BY <1>1, <1>2 DEF StackOK
<1>8. QED
  BY <1>2, <1>6, <1>7 DEF StackOK, t, u

(* What is left when the last frame is closed.                             *)
LEMMA PopOK ==
  ASSUME NEW st, NEW s, NEW limit \in Nat, StackOK(st, s, limit), Len(st) # 1
  PROVE  StackOK(Front(st), s, limit)
<1> DEFINE u == Front(st)
<1>1. /\ st \in Seq(Frames) /\ Len(st) \in Nat \ {0}
      /\ u \in Seq(Frames) /\ Len(u) = Len(st) - 1
      /\ \A k \in 1 .. Len(st) - 1 : u[k] = st[k]
  BY FrontOf DEF StackOK
<1> HIDE DEF u
<1>2. u # << >> /\ Len(u) <= limit
  BY <1>1 DEF StackOK
<1>3. u[1].path = s
  <2>1. 1 \in 1 .. Len(st) - 1
    BY <1>1
  <2>2. QED
    BY <1>1, <2>1 DEF StackOK, Chained
<1>4. ASSUME NEW k \in 2 .. Len(u) PROVE Front(u[k].path) = u[k - 1].path
  <2>1. k \in 2 .. Len(st) /\ k \in 1 .. Len(st) - 1 /\ k - 1 \in 1 .. Len(st) - 1
    BY <1>1
  <2>2. QED
    BY <1>1, <2>1 DEF StackOK, Chained
<1>5. QED
  BY <1>1, <1>2, <1>3, <1>4 DEF StackOK, Chained, u

(* StackIsPath in these terms.                                             *)
Opened ==
  /\ stack = << >> <=> pc \in {"start", "done"}
  /\ stack # << >> => StackOK(stack, walk.starts[start], walk.maxDepth)
  /\ pc \in {"lstat", "opendir", "getxattr"} =>
       Front(child) = Last(stack).path /\ Last(child) \in Last(stack).seen

LEMMA StackParts == WalkTyped => (StackIsPath <=> Opened)
<1> SUFFICES ASSUME WalkTyped PROVE StackIsPath <=> Opened
  OBVIOUS
<1>1. stack \in Seq(Frames) /\ walk.maxDepth \in Nat \ {0}
  BY WalkType DEF WalkTyped
<1>2. CASE stack = << >>
  <2>1. Len(stack) = 0 /\ 2 .. Len(stack) = {} /\ Len(stack) <= walk.maxDepth
    BY <1>1, <1>2
  <2>2. QED
    BY <1>2, <2>1, Zenon DEF StackIsPath, Opened
<1>3. CASE stack # << >>
  BY <1>1, <1>3, Zenon DEF StackIsPath, Opened, StackOK, Chained
<1>4. QED
  BY <1>2, <1>3

-----------------------------------------------------------------------------

Inv == TreeTyped /\ WalkTyped /\ Allowed /\ Opened

(* opendir of a start.                                                     *)
LEMMA StartStep == Inv /\ Start => WalkTyped' /\ Allowed' /\ Opened'
<1> SUFFICES ASSUME Inv, Start PROVE WalkTyped' /\ Allowed' /\ Opened'
  OBVIOUS
<1> DEFINE path == walk.starts[start]
<1>1. /\ pc = "start" /\ start <= Len(walk.starts)
      /\ UNCHANGED <<walk, child, findings>>
  BY Zenon DEF Start
<1>2. /\ walk.starts \in Seq(Path) /\ Len(walk.starts) \in Nat
      /\ walk.maxDepth \in Nat \ {0}
      /\ \A i \in 1 .. Len(walk.starts) : walk.starts[i] \in Path
  BY WalkType DEF Inv
<1>3. start \in 1 .. Len(walk.starts) /\ start + 1 \in 1 .. Len(walk.starts) + 1
  BY <1>1, <1>2 DEF Inv, WalkTyped
<1>4. path \in Path
  BY <1>2, <1>3
<1>5. CASE Opens(path)
  <2> DEFINE f == Frame(path, Stat(path))
  <2>1. stack' = <<f>> /\ pc' = "read" /\ start' = start
    BY <1>5, Zenon DEF Start
  <2>2. f \in Frames /\ f.path = path
    BY <1>4, <1>5, FrameType DEF Inv
  <2> HIDE DEF f, path
  <2>3. stack' \in Seq(Frames) /\ stack' # << >> /\ Len(stack') = 1 /\ stack'[1] = f
    BY <2>1, <2>2
  <2>4. Chained(stack', path)
    BY <2>2, <2>3 DEF Chained
  <2>5. StackOK(stack', path, walk.maxDepth)
    BY <1>2, <2>3, <2>4 DEF StackOK
  <2>6. WalkTyped'
    BY <1>1, <2>1, <2>3 DEF Inv, WalkTyped
  <2>7. Allowed'
    BY <1>1, <2>1 DEF Allowed
  <2>8. Opened'
    <3>1. path = walk'.starts[start']
      BY <1>1, <2>1 DEF path
    <3>2. QED
      BY <1>1, <2>1, <2>3, <2>5, <3>1 DEF Opened
  <2>9. QED
    BY <2>6, <2>7, <2>8
<1>6. CASE ~ Opens(path)
  <2>1. start' = start + 1 /\ stack' = stack /\ pc' = pc
    BY <1>6, Zenon DEF Start, NextStart
  <2>2. stack = << >>
    BY <1>1 DEF Inv, Opened
  <2>3. WalkTyped'
    BY <1>1, <1>3, <2>1 DEF Inv, WalkTyped
  <2>4. Allowed' /\ Opened'
    BY <1>1, <2>1, <2>2 DEF Allowed, Opened
  <2>5. QED
    BY <2>3, <2>4
<1>7. QED
  BY <1>5, <1>6

LEMMA DoneStep == Inv /\ Done => WalkTyped' /\ Allowed' /\ Opened'
<1> SUFFICES ASSUME Inv, Done PROVE WalkTyped' /\ Allowed' /\ Opened'
  OBVIOUS
<1>1. pc = "start" /\ pc' = "done" /\ UNCHANGED <<walk, start, stack, child, findings>>
  BY Zenon DEF Done
<1>2. QED
  BY <1>1 DEF Inv, WalkTyped, Allowed, Opened

(* readdir: the frame on top has seen one name more.                       *)
LEMMA ReadEntryStep == Inv /\ ReadEntry => WalkTyped' /\ Allowed' /\ Opened'
<1> SUFFICES ASSUME Inv, ReadEntry PROVE WalkTyped' /\ Allowed' /\ Opened'
  OBVIOUS
<1> DEFINE f == Last(stack)
<1>1. /\ pc = "read" /\ ~ Full /\ pc' = "lstat"
      /\ UNCHANGED <<walk, start, findings>>
  BY Zenon DEF ReadEntry
<1>2. PICK n \in (f.listed \cup Names(f.dir)) \ f.seen :
        /\ child' = Append(f.path, n)
        /\ stack' = Append(Front(stack), [f EXCEPT !.seen = @ \cup {n}])
  BY Zenon DEF ReadEntry
<1>3. /\ stack # << >> /\ StackOK(stack, walk.starts[start], walk.maxDepth)
      /\ walk.maxDepth \in Nat /\ walk.maxFindings \in Nat
  BY <1>1, WalkType DEF Inv, Opened
<1>4. f \in Frames /\ Front(stack) \in Seq(Frames)
  BY <1>3, FrontOf DEF StackOK
<1> DEFINE g == [f EXCEPT !.seen = @ \cup {n}]
<1>5. n \in Name /\ f.path \in Path
  BY <1>2, <1>4 DEF Inv, TreeTyped, Frames
<1>6. g \in Frames /\ g.path = f.path /\ n \in g.seen
  <2> HIDE DEF f
  <2>1. QED
    BY <1>4, <1>5 DEF Frames
<1> HIDE DEF g
<1>7. StackOK(stack', walk.starts[start], walk.maxDepth)
  BY <1>2, <1>3, <1>6, ReplaceOK DEF g
<1>8. Last(stack') = g /\ stack' # << >>
  BY <1>2, <1>4, <1>6, FrontOfAppend DEF g
<1>9. Front(child') = f.path /\ Last(child') = n /\ child' \in Path
  <2>1. n \in STRING
    BY <1>5, ContentsAssumption DEF ContentsAssumption
  <2> HIDE DEF f
  <2>2. QED
    BY <1>2, <1>5, <2>1, FrontOfAppend DEF Path
<1>10. Len(findings) < walk.maxFindings
  BY <1>1, <1>3 DEF Full, Inv, WalkTyped
<1>11. WalkTyped'
  <2>1. stack' \in Seq(Frames)
    BY <1>7 DEF StackOK
  <2>2. QED
    BY <1>1, <1>9, <2>1 DEF Inv, WalkTyped
<1>12. Allowed'
  BY <1>1, <1>3, <1>10 DEF Inv, Allowed
<1>13. Opened'
  BY <1>1, <1>6, <1>7, <1>8, <1>9 DEF Opened
<1>14. QED
  BY <1>11, <1>12, <1>13

(* closedir and the return of the call.                                    *)
LEMMA CloseDirStep == Inv /\ CloseDir => WalkTyped' /\ Allowed' /\ Opened'
<1> SUFFICES ASSUME Inv, CloseDir PROVE WalkTyped' /\ Allowed' /\ Opened'
  OBVIOUS
<1>1. pc = "read" /\ stack' = Front(stack) /\ UNCHANGED <<walk, child, findings>>
  BY Zenon DEF CloseDir
<1>2. /\ stack # << >> /\ StackOK(stack, walk.starts[start], walk.maxDepth)
      /\ walk.maxDepth \in Nat /\ Len(walk.starts) \in Nat
  BY <1>1, WalkType DEF Inv, Opened
<1>3. stack' \in Seq(Frames) /\ Len(stack) \in Nat \ {0} /\ Len(stack') = Len(stack) - 1
  BY <1>1, <1>2, FrontOf DEF StackOK
<1>4. start \in 1 .. Len(walk.starts)
  BY <1>2 DEF Inv, WalkTyped, Allowed
<1>5. CASE Len(stack) = 1
  <2>1. pc' = "start" /\ start' = start + 1
    BY <1>5, Zenon DEF CloseDir
  <2>2. stack' = << >>
    BY <1>3, <1>5
  <2>3. start' \in 1 .. Len(walk.starts) + 1
    BY <1>2, <1>4, <2>1
  <2>4. WalkTyped'
    BY <1>1, <1>3, <2>1, <2>3 DEF Inv, WalkTyped
  <2>5. Allowed' /\ Opened'
    BY <2>1, <2>2 DEF Allowed, Opened
  <2>6. QED
    BY <2>4, <2>5
<1>6. CASE Len(stack) # 1
  <2>1. pc' = pc /\ start' = start
    BY <1>6, Zenon DEF CloseDir
  <2>2. StackOK(stack', walk.starts[start], walk.maxDepth)
    BY <1>1, <1>2, <1>6, PopOK
  <2>3. stack' # << >>
    BY <2>2 DEF StackOK
  <2>4. WalkTyped'
    BY <1>1, <1>3, <2>1 DEF Inv, WalkTyped
  <2>5. Allowed' /\ Opened'
    BY <1>1, <1>2, <2>1, <2>2, <2>3 DEF Inv, Allowed, Opened
  <2>6. QED
    BY <2>4, <2>5
<1>7. QED
  BY <1>5, <1>6

(* A path may be reported as long as there is room.                        *)
LEMMA ReportOK ==
  ASSUME WalkTyped, child \in Path, Len(findings) < walk.maxFindings,
         findings' = findings \/ Report(child)
  PROVE  findings' \in Seq(Path) /\ Len(findings') <= walk.maxFindings
<1>1. findings \in Seq(Path) /\ walk.maxFindings \in Nat /\ Len(findings) \in Nat
  BY WalkType DEF WalkTyped
<1>2. CASE findings' = findings
  BY <1>1, <1>2
<1>3. CASE Report(child)
  BY <1>1, <1>3 DEF Report
<1>4. QED
  BY <1>2, <1>3

(* lstat, and getxattr on a path that lstat found to be a file.            *)
LEMMA LookStep == Inv /\ (Look \/ GetXattr) => WalkTyped' /\ Allowed' /\ Opened'
<1> SUFFICES ASSUME Inv, Look \/ GetXattr PROVE WalkTyped' /\ Allowed' /\ Opened'
  OBVIOUS
<1>1. /\ pc \in {"lstat", "getxattr"} /\ pc' \in {"read", "opendir", "getxattr"}
      /\ UNCHANGED <<walk, start, stack, child>>
      /\ findings' = findings \/ Report(child)
      /\ pc' = "opendir" => MayDescend
      /\ pc' # "read" => findings' = findings
  <2>1. CASE Look
    BY <2>1 DEF Look
  <2>2. CASE GetXattr
    BY <2>2 DEF GetXattr
  <2>3. QED
    BY <2>1, <2>2
<1>2. Len(findings) < walk.maxFindings /\ WalkTyped /\ child \in Path
  BY <1>1 DEF Inv, Allowed, WalkTyped
<1>3. findings' \in Seq(Path) /\ Len(findings') <= walk.maxFindings
  BY <1>1, <1>2, ReportOK
<1>4. WalkTyped'
  BY <1>1, <1>3 DEF Inv, WalkTyped
<1>5. Allowed'
  BY <1>1, <1>2 DEF Inv, Allowed, MayDescend
<1>6. Opened'
  BY <1>1 DEF Inv, Opened
<1>7. QED
  BY <1>4, <1>5, <1>6

(* The recursive call.                                                     *)
LEMMA DescendStep == Inv /\ Descend => WalkTyped' /\ Allowed' /\ Opened'
<1> SUFFICES ASSUME Inv, Descend PROVE WalkTyped' /\ Allowed' /\ Opened'
  OBVIOUS
<1> DEFINE f == Frame(child, Stat(child))
<1>1. /\ pc = "opendir" /\ pc' = "read" /\ UNCHANGED <<walk, start, child, findings>>
      /\ stack' = IF Opens(child) THEN Append(stack, f) ELSE stack
  BY Zenon DEF Descend
<1>2. /\ stack # << >> /\ StackOK(stack, walk.starts[start], walk.maxDepth)
      /\ Front(child) = Last(stack).path
      /\ walk.maxDepth \in Nat /\ Len(stack) < walk.maxDepth
  BY <1>1, WalkType DEF Inv, Opened, Allowed
<1>3. StackOK(stack', walk.starts[start], walk.maxDepth)
  <2>1. CASE Opens(child)
    <3>1. f \in Frames /\ f.path = child
      BY <2>1, FrameType DEF Inv, WalkTyped
    <3> HIDE DEF f
    <3>2. QED
      BY <1>1, <1>2, <2>1, <3>1, PushOK
  <2>2. CASE ~ Opens(child)
    BY <1>1, <1>2, <2>2
  <2>3. QED
    BY <2>1, <2>2
<1>4. stack' \in Seq(Frames) /\ stack' # << >>
  BY <1>3 DEF StackOK
<1> HIDE DEF f
<1>5. WalkTyped'
  BY <1>1, <1>4 DEF Inv, WalkTyped
<1>6. Allowed' /\ Opened'
  BY <1>1, <1>2, <1>3, <1>4 DEF Inv, Allowed, Opened
<1>7. QED
  BY <1>5, <1>6

-----------------------------------------------------------------------------

(***************************************************************************)
(* The inductive invariant, for every walk over every tree.                *)
(***************************************************************************)
THEOREM Invariant == Spec => []IInv
<1>1. Init => IInv
  <2> SUFFICES ASSUME Init PROVE IInv
    OBVIOUS
  <2>1. TreeTyped
    BY ContentsAssumption DEF Init, TreeInit, TreeTyped, ContentsAssumption, Names
  <2>2. /\ walk \in Walks /\ pc = "start" /\ start = 1
        /\ stack = << >> /\ child = << >> /\ findings = << >>
    BY Zenon DEF Init
  <2>3. Len(walk.starts) \in Nat /\ walk.maxFindings \in Nat
    BY <2>2, WalksAssumption DEF WalksAssumption
  <2>4. start \in 1 .. Len(walk.starts) + 1
    BY <2>2, <2>3
  <2>5. stack \in Seq(Frames) /\ child \in Path /\ findings \in Seq(Path)
        /\ Len(findings) <= walk.maxFindings
    BY <2>2, <2>3 DEF Path
  <2>6. WalkTyped
    BY <2>2, <2>4, <2>5, Zenon DEF WalkTyped
  <2>7. Allowed /\ Opened
    BY <2>2 DEF Allowed, Opened
  <2>8. QED
    BY <2>1, <2>6, <2>7, StackParts DEF IInv
<1>2. IInv /\ [Next]_vars => Inv /\ TreeTyped' /\ WalkTyped' /\ Allowed' /\ Opened'
  <2> SUFFICES ASSUME IInv, [Next]_vars
               PROVE  Inv /\ TreeTyped' /\ WalkTyped' /\ Allowed' /\ Opened'
    OBVIOUS
  <2>1. Inv
    BY StackParts DEF IInv, Inv
  <2>2. TreeTyped'
    BY <2>1, TreeStep DEF Inv
  <2>3. WalkTyped' /\ Allowed' /\ Opened'
    <3>1. CASE Step
      <4>1. Start \/ Done \/ ReadEntry \/ CloseDir \/ Look \/ GetXattr \/ Descend
        BY <3>1, Zenon DEF Step
      <4>2. QED
        BY <2>1, <4>1, StartStep, DoneStep, ReadEntryStep, CloseDirStep, LookStep,
           DescendStep, Zenon
    <3>2. CASE Others \/ UNCHANGED vars
      <4>1. UNCHANGED walking
        BY <3>2, Zenon DEF Others, vars
      <4>2. QED
        BY <2>1, <4>1 DEF Inv, WalkTyped, Allowed, Opened, walking
    <3>3. QED
      BY <3>1, <3>2, Zenon DEF Next
  <2>4. QED
    BY <2>1, <2>2, <2>3
<1>3. IInv /\ [Next]_vars => IInv'
  <2>1. WalkTyped' => (StackIsPath' <=> Opened')
    BY StackParts, PTL
  <2>2. QED
    BY <1>2, <2>1 DEF IInv
<1>4. QED
  BY <1>1, <1>3, PTL DEF Spec

(***************************************************************************)
(* scan_dir and scan_dir_caps keep their types whatever others do, and     *)
(* never report more than the cap allows.                                  *)
(***************************************************************************)
THEOREM TypeCorrect == Spec => []TypeOK
<1>1. IInv => TypeOK
  BY Zenon DEF IInv, TreeTyped, WalkTyped, TypeOK, Frames
<1>2. QED
  BY <1>1, Invariant, PTL

(***************************************************************************)
(* The recursion of scan_dir stays within the limit on the depth, and on   *)
(* one path down the tree, whatever the tree is turned into meanwhile.     *)
(***************************************************************************)
THEOREM RecursionBounded == Spec => []StackIsPath
<1>1. IInv => StackIsPath
  BY DEF IInv
<1>2. QED
  BY <1>1, Invariant, PTL
-----------------------------------------------------------------------------

(***************************************************************************)
(* The names on the way to a path.                                         *)
(***************************************************************************)
Along(q, p) == Len(q) <= Len(p) /\ \A i \in 1 .. Len(q) : q[i] = p[i]

LEMMA AlongIs ==
  ASSUME NEW S, NEW q \in Seq(S), NEW p \in Seq(S)
  PROVE  /\ IsPrefix(q, p) <=> Along(q, p)
         /\ IsStrictPrefix(q, p) <=> Along(q, p) /\ Len(q) < Len(p)
         /\ Along(q, p) => q = SubSeq(p, 1, Len(q)) /\ Len(q) \in 0 .. Len(p)
         /\ Along(q, p) /\ Len(q) = Len(p) => q = p
<1> DEFINE n == Len(q)
<1>1. n \in Nat /\ Len(p) \in Nat /\ n \in 0 .. Len(q)
  OBVIOUS
<1>2. SubSeq(q, 1, n) = q
  <2>1. /\ SubSeq(q, 1, n) \in Seq(S) /\ Len(SubSeq(q, 1, n)) = n
        /\ \A i \in 1 .. n : SubSeq(q, 1, n)[i] = q[i]
    BY <1>1, Beginning
  <2>2. QED
    BY <2>1, SeqEqual
<1>3. ASSUME n <= Len(p)
      PROVE  /\ SubSeq(p, 1, n) \in Seq(S) /\ Len(SubSeq(p, 1, n)) = n
             /\ \A i \in 1 .. n : SubSeq(p, 1, n)[i] = p[i]
  <2>1. n \in 0 .. Len(p)
    BY <1>1, <1>3
  <2>2. QED
    BY <2>1, Beginning
<1>4. ASSUME Along(q, p) PROVE q = SubSeq(p, 1, n) /\ n \in 0 .. Len(p)
  <2>1. n <= Len(p) /\ \A i \in 1 .. n : q[i] = p[i]
    BY <1>4 DEF Along
  <2>2. n \in 0 .. Len(p)
    BY <1>1, <2>1
  <2>3. \A i \in 1 .. n : SubSeq(p, 1, n)[i] = q[i]
    BY <1>3, <2>1
  <2>4. QED
    BY <1>3, <2>1, <2>2, <2>3, SeqEqual
<1>5. ASSUME n <= Len(p), q = SubSeq(p, 1, n) PROVE Along(q, p)
  <2>1. \A i \in 1 .. n : q[i] = p[i]
    BY <1>3, <1>5
  <2>2. QED
    BY <1>5, <2>1 DEF Along
<1>6. IsPrefix(q, p) <=> Along(q, p)
  <2>1. IsPrefix(q, p) <=> n <= Len(p) /\ q = SubSeq(p, 1, n)
    BY <1>2 DEF IsPrefix
  <2>2. QED
    BY <1>4, <1>5, <2>1 DEF Along
<1>7. Along(q, p) /\ n = Len(p) => q = p
  <2>1. SUFFICES ASSUME Along(q, p), n = Len(p) PROVE q = p
    OBVIOUS
  <2>2. QED
    BY <2>1, SeqEqual DEF Along
<1>8. Along(q, p) /\ q # p => n < Len(p)
  BY <1>1, <1>7 DEF Along
<1>9. QED
  BY <1>4, <1>6, <1>7, <1>8 DEF IsStrictPrefix

LEMMA AlongTrans ==
  ASSUME NEW p, NEW q, NEW r, Len(p) \in Nat, Len(q) \in Nat, Len(r) \in Nat,
         Along(p, q), Along(q, r)
  PROVE  Along(p, r)
<1>1. \A i \in 1 .. Len(p) : i \in 1 .. Len(q)
  BY DEF Along
<1>2. QED
  BY <1>1 DEF Along

(***************************************************************************)
(* A stack of open directories, each one name below the one before; the    *)
(* name has been seen there, and is not one to skip.                       *)
(***************************************************************************)
Trail(st, s, skip) ==
  /\ \A k \in 1 .. Len(st) :
       /\ Len(st[k].path) = Len(s) + k - 1
       /\ \A j \in k .. Len(st) : Along(st[k].path, st[j].path)
  /\ \A k \in 2 .. Len(st) :
       Last(st[k].path) \in st[k - 1].seen /\ Last(st[k].path) \notin skip

(* q is one name longer than p.                                            *)
OneBelow(q, p) == Len(q) = Len(p) + 1 /\ Along(p, q)

LEMMA AppendBelow ==
  ASSUME NEW S, NEW p \in Seq(S), NEW x \in S
  PROVE  OneBelow(Append(p, x), p) /\ Last(Append(p, x)) = x
<1> DEFINE q == Append(p, x)
<1>1. /\ Len(p) \in Nat /\ Len(q) = Len(p) + 1 /\ q[Len(p) + 1] = x
      /\ \A i \in 1 .. Len(p) : q[i] = p[i]
  OBVIOUS
<1> HIDE DEF q
<1>2. QED
  BY <1>1 DEF OneBelow, Along, Last, q

LEMMA TrailPush ==
  ASSUME NEW st \in Seq(Frames), st # << >>, NEW s \in Path, NEW skip, Trail(st, s, skip),
         NEW f \in Frames, OneBelow(f.path, Last(st).path),
         Last(f.path) \in Last(st).seen, Last(f.path) \notin skip
  PROVE  Trail(Append(st, f), s, skip)
<1> DEFINE t == Append(st, f)
           n == Len(st)
<1>1. /\ n \in Nat \ {0} /\ Last(st) = st[n] /\ Len(s) \in Nat
      /\ Len(t) = n + 1 /\ t[n + 1] = f
      /\ \A k \in 1 .. n : t[k] = st[k] /\ st[k] \in Frames
  BY DEF Last, Path
<1>2. \A k \in 1 .. n : Len(st[k].path) \in Nat
  BY <1>1 DEF Frames, Path
<1>3. Len(f.path) \in Nat
  BY DEF Frames, Path
<1>4. /\ \A k \in 1 .. n : /\ Len(st[k].path) = Len(s) + k - 1
                           /\ \A j \in k .. n : Along(st[k].path, st[j].path)
      /\ \A k \in 2 .. n : Last(st[k].path) \in st[k - 1].seen /\ Last(st[k].path) \notin skip
  BY DEF Trail
<1>5. Along(f.path, f.path)
  BY <1>3 DEF Along
<1> HIDE DEF t, n
<1>6. \A k \in 1 .. Len(t) : k \in 1 .. n \/ k = n + 1
  BY <1>1
<1>7. \A k \in 1 .. n : Along(st[k].path, f.path)
  <2>1. ASSUME NEW k \in 1 .. n PROVE Along(st[k].path, f.path)
    <3>1. n \in k .. n /\ n \in 1 .. n
      BY <1>1
    <3>2. Along(st[k].path, st[n].path) /\ Along(st[n].path, f.path)
      BY <1>1, <1>4, <3>1 DEF OneBelow
    <3>3. QED
      BY <1>2, <1>3, <3>1, <3>2, AlongTrans
  <2>2. QED
    BY <2>1
<1>8. ASSUME NEW k \in 1 .. Len(t)
      PROVE  /\ Len(t[k].path) = Len(s) + k - 1
             /\ \A j \in k .. Len(t) : Along(t[k].path, t[j].path)
  <2>1. CASE k \in 1 .. n
    <3>1. \A j \in k .. Len(t) : j \in k .. n \/ j = n + 1
      BY <1>1
    <3>2. \A j \in k .. n : j \in 1 .. n
      BY <1>1, <2>1
    <3>3. QED
      BY <1>1, <1>4, <1>7, <2>1, <3>1, <3>2
  <2>2. CASE k = n + 1
    <3>1. n \in 1 .. n /\ Len(st[n].path) = Len(s) + n - 1
      BY <1>1, <1>4
    <3>2. Len(f.path) = Len(s) + k - 1
      BY <1>1, <2>2, <3>1 DEF OneBelow
    <3>3. \A j \in k .. Len(t) : j = n + 1
      BY <1>1, <2>2
    <3>4. QED
      BY <1>1, <1>5, <2>2, <3>2, <3>3
  <2>3. QED
    BY <1>6, <2>1, <2>2
<1>9. ASSUME NEW k \in 2 .. Len(t)
      PROVE  Last(t[k].path) \in t[k - 1].seen /\ Last(t[k].path) \notin skip
  <2>1. CASE k \in 2 .. n
    <3>1. k \in 1 .. n /\ k - 1 \in 1 .. n
      BY <1>1, <2>1
    <3>2. QED
      BY <1>1, <1>4, <2>1, <3>1
  <2>2. CASE k = n + 1
    <3>1. k - 1 \in 1 .. n /\ k - 1 = n
      BY <1>1, <2>2
    <3>2. QED
      BY <1>1, <2>2, <3>1
  <2>3. k \in 2 .. n \/ k = n + 1
    BY <1>1
  <2>4. QED
    BY <2>1, <2>2, <2>3
<1>10. QED
  BY <1>8, <1>9 DEF Trail, t

LEMMA TrailReplace ==
  ASSUME NEW st \in Seq(Frames), st # << >>, NEW s \in Path, NEW skip, Trail(st, s, skip),
         NEW f \in Frames, f.path = Last(st).path
  PROVE  Trail(Append(Front(st), f), s, skip)
<1> DEFINE u == Front(st)
           t == Append(u, f)
           n == Len(st)
<1>1. /\ n \in Nat \ {0} /\ Last(st) = st[n]
      /\ u \in Seq(Frames) /\ Len(u) = n - 1 /\ \A k \in 1 .. n - 1 : u[k] = st[k]
  BY FrontOf DEF Last
<1> HIDE DEF u
<1>2. Len(t) = n /\ t[n] = f /\ \A k \in 1 .. n - 1 : t[k] = st[k]
  BY <1>1
<1> HIDE DEF t, n
<1>3. \A k \in 1 .. n : t[k].path = st[k].path
  <2>1. \A k \in 1 .. n : k \in 1 .. n - 1 \/ k = n
    BY <1>1
  <2>2. QED
    BY <1>1, <1>2, <2>1
<1>4. \A k \in 2 .. n : k \in 1 .. n /\ k - 1 \in 1 .. n - 1
  BY <1>1
<1>5. \A k \in 1 .. n : \A j \in k .. n : j \in 1 .. n
  BY <1>1
<1>6. /\ \A k \in 1 .. n : /\ Len(st[k].path) = Len(s) + k - 1
                           /\ \A j \in k .. n : Along(st[k].path, st[j].path)
      /\ \A k \in 2 .. n : Last(st[k].path) \in st[k - 1].seen /\ Last(st[k].path) \notin skip
  BY DEF Trail, n
<1>7. \A k \in 1 .. n : /\ Len(t[k].path) = Len(s) + k - 1
                        /\ \A j \in k .. n : Along(t[k].path, t[j].path)
  BY <1>3, <1>5, <1>6
<1>8. \A k \in 2 .. n : Last(t[k].path) \in t[k - 1].seen /\ Last(t[k].path) \notin skip
  BY <1>2, <1>3, <1>4, <1>6
<1>9. QED
  BY <1>2, <1>7, <1>8 DEF Trail, t, u

LEMMA TrailPop ==
  ASSUME NEW st \in Seq(Frames), st # << >>, NEW s, NEW skip, Trail(st, s, skip)
  PROVE  Trail(Front(st), s, skip)
<1> DEFINE u == Front(st)
           n == Len(st)
<1>1. n \in Nat \ {0} /\ Len(u) = n - 1 /\ \A k \in 1 .. n - 1 : u[k] = st[k]
  BY FrontOf
<1> HIDE DEF u, n
<1>2. /\ \A k \in 1 .. n : /\ Len(st[k].path) = Len(s) + k - 1
                           /\ \A j \in k .. n : Along(st[k].path, st[j].path)
      /\ \A k \in 2 .. n : Last(st[k].path) \in st[k - 1].seen /\ Last(st[k].path) \notin skip
  BY DEF Trail, n
<1>3. \A k \in 1 .. n - 1 : k \in 1 .. n /\ \A j \in k .. n - 1 : j \in k .. n /\ j \in 1 .. n - 1
  BY <1>1
<1>4. \A k \in 2 .. n - 1 : k \in 2 .. n /\ k \in 1 .. n - 1 /\ k - 1 \in 1 .. n - 1
  BY <1>1
<1>5. \A k \in 1 .. n - 1 : /\ Len(u[k].path) = Len(s) + k - 1
                            /\ \A j \in k .. n - 1 : Along(u[k].path, u[j].path)
  BY <1>1, <1>2, <1>3
<1>6. \A k \in 2 .. n - 1 : Last(u[k].path) \in u[k - 1].seen /\ Last(u[k].path) \notin skip
  BY <1>1, <1>2, <1>4
<1>7. QED
  BY <1>1, <1>5, <1>6 DEF Trail, u

-----------------------------------------------------------------------------

from == walk.starts[start]
Looking == pc \in {"lstat", "opendir", "getxattr"}

(***************************************************************************)
(* The walk is where its path says it is.                                  *)
(***************************************************************************)
OnTrail ==
  /\ stack # << >> => Trail(stack, from, walk.skip)
  /\ Looking => OneBelow(child, Last(stack).path)
  /\ pc = "opendir" => Last(child) \notin walk.skip
  /\ pc = "done" => start > Len(walk.starts)

LEMMA FromType == Inv /\ stack # << >> => from \in Path /\ start \in 1 .. Len(walk.starts)
<1> SUFFICES ASSUME Inv, stack # << >> PROVE from \in Path /\ start \in 1 .. Len(walk.starts)
  OBVIOUS
<1>1. /\ Len(walk.starts) \in Nat
      /\ \A i \in 1 .. Len(walk.starts) : walk.starts[i] \in Path
  BY WalkType DEF Inv
<1>2. start \in 1 .. Len(walk.starts)
  BY <1>1 DEF Inv, WalkTyped, Allowed
<1>3. QED
  BY <1>1, <1>2 DEF from

LEMMA TrailStep == Inv /\ OnTrail /\ Step => OnTrail'
<1> SUFFICES ASSUME Inv, OnTrail, Step PROVE OnTrail'
  OBVIOUS
<1>1. CASE Start
  <2>1. pc = "start" /\ start <= Len(walk.starts) /\ UNCHANGED <<walk, child, findings>>
    BY <1>1, Zenon DEF Start
  <2>2. stack = << >>
    BY <2>1 DEF Inv, Opened
  <2> DEFINE path == walk.starts[start]
  <2>3. CASE Opens(path)
    <3>1. pc' = "read" /\ start' = start /\ stack' = <<Frame(path, Stat(path))>>
      BY <1>1, <2>3, Zenon DEF Start
    <3>2. Frame(path, Stat(path)).path = path
      BY DEF Frame
    <3>3. path \in Path
      <4>1. /\ Len(walk.starts) \in Nat
            /\ \A i \in 1 .. Len(walk.starts) : walk.starts[i] \in Path
        BY WalkType DEF Inv
      <4>2. QED
        BY <2>1, <4>1 DEF Inv, WalkTyped
    <3>4. Len(path) \in Nat
      BY <3>3 DEF Path
    <3> DEFINE f == Frame(path, Stat(path))
    <3> HIDE DEF f, path
    <3>5. Len(stack') = 1 /\ stack'[1] = f
      BY <3>1 DEF f
    <3>6. Along(path, path)
      BY <3>4 DEF Along
    <3>7. Trail(stack', path, walk'.skip)
      BY <3>2, <3>4, <3>5, <3>6 DEF Trail, f
    <3>8. from' = path
      BY <2>1, <3>1 DEF from, path
    <3>9. QED
      BY <3>1, <3>7, <3>8 DEF OnTrail, Looking
  <2>4. CASE ~ Opens(path)
    <3>1. pc' = pc /\ stack' = stack
      BY <1>1, <2>4, Zenon DEF Start
    <3>2. QED
      BY <2>1, <2>2, <3>1 DEF OnTrail, Looking
  <2>5. QED
    BY <2>3, <2>4
<1>2. CASE Done
  <2>1. /\ pc = "start" /\ pc' = "done" /\ start > Len(walk.starts)
        /\ UNCHANGED <<walk, start, stack, child, findings>>
    BY <1>2, Zenon DEF Done
  <2>2. stack = << >>
    BY <2>1 DEF Inv, Opened
  <2>3. QED
    BY <2>1, <2>2 DEF OnTrail, Looking
<1>3. CASE ReadEntry
  <2> DEFINE f == Last(stack)
  <2>1. pc = "read" /\ pc' = "lstat" /\ UNCHANGED <<walk, start, findings>>
    BY <1>3, Zenon DEF ReadEntry
  <2>2. PICK n \in (f.listed \cup Names(f.dir)) \ f.seen :
          /\ child' = Append(f.path, n)
          /\ stack' = Append(Front(stack), [f EXCEPT !.seen = @ \cup {n}])
    BY <1>3, Zenon DEF ReadEntry
  <2>3. stack # << >> /\ stack \in Seq(Frames)
    BY <2>1 DEF Inv, Opened, WalkTyped
  <2>4. f \in Frames /\ Front(stack) \in Seq(Frames)
    BY <2>3, FrontOf
  <2> DEFINE g == [f EXCEPT !.seen = @ \cup {n}]
  <2>5. n \in Name /\ f.path \in Path
    BY <2>2, <2>4 DEF Inv, TreeTyped, Frames
  <2>6. g \in Frames /\ g.path = f.path
    <3> HIDE DEF f
    <3>1. QED
      BY <2>4, <2>5 DEF Frames
  <2>7. from \in Path
    BY <2>3, FromType
  <2> HIDE DEF g
  <2>8. Trail(stack', from, walk.skip)
    <3>1. Trail(stack, from, walk.skip)
      BY <2>3 DEF OnTrail
    <3>2. stack' = Append(Front(stack), g)
      BY <2>2 DEF g
    <3>3. QED
      BY <2>3, <2>6, <2>7, <3>1, <3>2, TrailReplace
  <2>9. Last(stack') = g
    BY <2>2, <2>4, <2>6, FrontOfAppend DEF g
  <2>10. OneBelow(child', f.path)
    <3>1. n \in STRING
      BY <2>5, ContentsAssumption DEF ContentsAssumption
    <3> HIDE DEF f
    <3>2. QED
      BY <2>2, <2>5, <3>1, AppendBelow DEF Path
  <2>11. from' = from
    BY <2>1 DEF from
  <2>12. QED
    BY <2>1, <2>6, <2>8, <2>9, <2>10, <2>11 DEF OnTrail, Looking
<1>4. CASE CloseDir
  <2>1. /\ pc = "read" /\ stack' = Front(stack) /\ UNCHANGED <<walk, child, findings>>
        /\ pc' = "start" \/ (pc' = pc /\ start' = start)
        /\ Len(stack) # 1 => start' = start
    BY <1>4 DEF CloseDir
  <2>2. stack # << >> /\ stack \in Seq(Frames)
    BY <2>1 DEF Inv, Opened, WalkTyped
  <2>3. Trail(stack', from, walk.skip)
    BY <2>1, <2>2, TrailPop DEF OnTrail
  <2>4. stack' # << >> => from' = from
    <3>1. Len(stack) = 1 => stack' = << >>
      BY <2>1, <2>2, FrontOf
    <3>2. QED
      BY <2>1, <3>1 DEF from
  <2>5. QED
    BY <2>1, <2>3, <2>4 DEF OnTrail, Looking
<1>5. CASE Look
  <2>1. /\ pc = "lstat" /\ pc' \in {"read", "opendir", "getxattr"}
        /\ UNCHANGED <<walk, start, stack, child>>
        /\ pc' = "opendir" => Last(child) \notin walk.skip
    BY <1>5 DEF Look
  <2>2. QED
    BY <2>1 DEF OnTrail, Looking, from
<1>6. CASE Descend
  <2> DEFINE f == Frame(child, Stat(child))
  <2>1. /\ pc = "opendir" /\ pc' = "read" /\ UNCHANGED <<walk, start, child, findings>>
        /\ stack' = IF Opens(child) THEN Append(stack, f) ELSE stack
    BY <1>6, Zenon DEF Descend
  <2>2. /\ stack # << >> /\ stack \in Seq(Frames) /\ child \in Path
        /\ Last(child) \in Last(stack).seen
    BY <2>1 DEF Inv, Opened, WalkTyped
  <2>3. from \in Path
    BY <2>2, FromType
  <2>4. Trail(stack', from, walk.skip)
    <3>1. /\ Trail(stack, from, walk.skip) /\ OneBelow(child, Last(stack).path)
          /\ Last(child) \notin walk.skip
      BY <2>1, <2>2 DEF OnTrail, Looking
    <3>2. CASE Opens(child)
      <4>1. f \in Frames /\ f.path = child
        BY <2>2, <3>2, FrameType DEF Inv
      <4> HIDE DEF f
      <4>2. QED
        BY <2>1, <2>2, <2>3, <3>1, <3>2, <4>1, TrailPush
    <3>3. CASE ~ Opens(child)
      BY <2>1, <3>1, <3>3
    <3>4. QED
      BY <3>2, <3>3
  <2>5. from' = from
    BY <2>1 DEF from
  <2>6. QED
    BY <2>1, <2>4, <2>5 DEF OnTrail, Looking
<1>7. CASE GetXattr
  <2>1. pc' = "read" /\ UNCHANGED <<walk, start, stack, child>>
    BY <1>7, Zenon DEF GetXattr
  <2>2. QED
    BY <2>1 DEF OnTrail, Looking, from
<1>8. QED
  BY <1>1, <1>2, <1>3, <1>4, <1>5, <1>6, <1>7, Zenon DEF Step

(* The directories that lead to p, and the names of p that were seen.      *)
LEMMA TrailNames ==
  ASSUME NEW st \in Seq(Frames), st # << >>, NEW s \in Path, NEW skip, Trail(st, s, skip),
         NEW p, Len(p) \in Nat, Along(Last(st).path, p)
  PROVE  /\ \A k \in 1 .. Len(st) : Along(st[k].path, p) /\ Len(st[k].path) = Len(s) + k - 1
         /\ \A k \in 1 .. Len(st) - 1 :
              p[Len(s) + k] \in st[k].seen /\ p[Len(s) + k] \notin skip
<1> DEFINE n == Len(st)
<1>1. n \in Nat \ {0} /\ Last(st) = st[n] /\ Len(s) \in Nat
  BY DEF Last, Path
<1>2. /\ \A k \in 1 .. n : /\ Len(st[k].path) = Len(s) + k - 1
                           /\ \A j \in k .. n : Along(st[k].path, st[j].path)
      /\ \A k \in 2 .. n : Last(st[k].path) \in st[k - 1].seen /\ Last(st[k].path) \notin skip
  BY DEF Trail
<1> HIDE DEF n
<1>3. \A k \in 1 .. n : Len(st[k].path) \in Nat
  BY <1>1, <1>2
<1>4. ASSUME NEW k \in 1 .. n PROVE Along(st[k].path, p)
  <2>1. n \in k .. n /\ n \in 1 .. n
    BY <1>1
  <2>2. Along(st[k].path, st[n].path) /\ Along(st[n].path, p)
    BY <1>1, <1>2, <2>1
  <2>3. QED
    BY <1>3, <2>1, <2>2, AlongTrans
<1>5. ASSUME NEW k \in 1 .. n - 1
      PROVE  p[Len(s) + k] \in st[k].seen /\ p[Len(s) + k] \notin skip
  <2>1. k + 1 \in 2 .. n /\ k + 1 \in 1 .. n /\ k + 1 - 1 = k
    BY <1>1
  <2>2. Len(st[k + 1].path) = Len(s) + k /\ Along(st[k + 1].path, p)
    <3>1. Len(st[k + 1].path) = Len(s) + (k + 1) - 1
      BY <1>2, <2>1
    <3>2. Along(st[k + 1].path, p)
      BY <1>4, <2>1
    <3>3. QED
      BY <1>1, <3>1, <3>2
  <2>3. Last(st[k + 1].path) = st[k + 1].path[Len(s) + k]
    BY <2>2 DEF Last
  <2>4. Len(s) + k \in 1 .. Len(st[k + 1].path)
    BY <1>1, <2>2
  <2>5. p[Len(s) + k] = Last(st[k + 1].path)
    BY <2>2, <2>3, <2>4 DEF Along
  <2>6. QED
    BY <1>2, <2>1, <2>5
<1>6. QED
  BY <1>2, <1>4, <1>5 DEF n

(* What is known of the path under inspection.                             *)
LEMMA ChildType ==
  Inv /\ OnTrail /\ Looking =>
    /\ stack # << >> /\ stack \in Seq(Frames) /\ Len(stack) \in Nat \ {0}
    /\ Len(stack) <= walk.maxDepth /\ walk.maxDepth \in Nat
    /\ from \in Path /\ Len(from) \in Nat /\ stack[1].path = from
    /\ Trail(stack, from, walk.skip)
    /\ child \in Path /\ Len(child) = Len(from) + Len(stack)
    /\ Along(Last(stack).path, child) /\ Last(child) \in Last(stack).seen
<1> SUFFICES ASSUME Inv, OnTrail, Looking
             PROVE  /\ stack # << >> /\ stack \in Seq(Frames) /\ Len(stack) \in Nat \ {0}
                    /\ Len(stack) <= walk.maxDepth /\ walk.maxDepth \in Nat
                    /\ from \in Path /\ Len(from) \in Nat /\ stack[1].path = from
                    /\ Trail(stack, from, walk.skip)
                    /\ child \in Path /\ Len(child) = Len(from) + Len(stack)
                    /\ Along(Last(stack).path, child) /\ Last(child) \in Last(stack).seen
  OBVIOUS
<1>1. stack # << >> /\ stack \in Seq(Frames) /\ child \in Path
  BY DEF Inv, Opened, WalkTyped, Looking
<1>2. Len(stack) <= walk.maxDepth /\ stack[1].path = from
  BY <1>1 DEF Inv, Opened, StackOK, Chained, from
<1>3. walk.maxDepth \in Nat
  BY WalkType DEF Inv
<1>4. from \in Path /\ Len(from) \in Nat
  BY <1>1, FromType DEF Path
<1>5. Trail(stack, from, walk.skip) /\ OneBelow(child, Last(stack).path)
  BY <1>1 DEF OnTrail
<1>6. Last(child) \in Last(stack).seen
  BY DEF Inv, Opened, Looking
<1>7. Len(stack) \in Nat \ {0}
  BY <1>1
<1>8. Len(child) = Len(from) + Len(stack)
  <2>1. Len(stack) \in 1 .. Len(stack)
    BY <1>7
  <2>2. Len(stack[Len(stack)].path) = Len(from) + Len(stack) - 1
    BY <1>5, <2>1 DEF Trail
  <2>3. QED
    BY <1>4, <1>5, <1>7, <2>2 DEF OneBelow, Last
<1>9. QED
  BY <1>1, <1>2, <1>3, <1>4, <1>5, <1>6, <1>7, <1>8 DEF OneBelow

(***************************************************************************)
(* The walk goes nowhere but where its start is meant to lead.             *)
(***************************************************************************)
LEMMA ChildCovered == Inv /\ OnTrail /\ Looking => Covers(from, child)
<1> SUFFICES ASSUME Inv, OnTrail, Looking PROVE Covers(from, child)
  OBVIOUS
<1> DEFINE n == Len(stack)
<1>1. /\ stack # << >> /\ stack \in Seq(Frames) /\ n \in Nat \ {0}
      /\ n <= walk.maxDepth /\ walk.maxDepth \in Nat
      /\ from \in Path /\ Len(from) \in Nat /\ stack[1].path = from
      /\ Trail(stack, from, walk.skip)
      /\ child \in Path /\ Len(child) = Len(from) + n
      /\ Along(Last(stack).path, child)
  BY ChildType
<1>2. /\ \A k \in 1 .. n : Along(stack[k].path, child)
      /\ \A k \in 1 .. n - 1 : child[Len(from) + k] \notin walk.skip
  BY <1>1, TrailNames
<1> HIDE DEF n
<1>3. Along(from, child) /\ Len(from) < Len(child)
  <2>1. 1 \in 1 .. n
    BY <1>1
  <2>2. QED
    BY <1>1, <1>2, <2>1
<1>4. IsStrictPrefix(from, child)
  BY <1>1, <1>3, AlongIs DEF Path
<1>5. Len(child) - Len(from) <= walk.maxDepth
  BY <1>1
<1>6. ASSUME NEW j \in Len(from) + 1 .. Len(child) - 1 PROVE child[j] \notin walk.skip
  <2>1. j - Len(from) \in 1 .. n - 1 /\ Len(from) + (j - Len(from)) = j
    BY <1>1
  <2>2. QED
    BY <1>2, <2>1
<1>7. QED
  BY <1>4, <1>5, <1>6 DEF Covers

(* On the way to a path under inspection, every name has been seen.        *)
LEMMA SeenOnTheWay ==
  ASSUME Inv, OnTrail, Looking, NEW p \in Path, Along(child, p), NEW k \in 1 .. Len(stack)
  PROVE  /\ Along(stack[k].path, p) /\ Len(stack[k].path) < Len(p)
         /\ p[Len(stack[k].path) + 1] \in stack[k].seen
<1> DEFINE n == Len(stack)
<1>1. /\ stack # << >> /\ stack \in Seq(Frames) /\ n \in Nat \ {0}
      /\ from \in Path /\ Len(from) \in Nat
      /\ Trail(stack, from, walk.skip)
      /\ child \in Path /\ Len(child) = Len(from) + n
      /\ Along(Last(stack).path, child) /\ Last(child) \in Last(stack).seen
  BY ChildType
<1>2. Len(p) \in Nat /\ Len(child) \in Nat
  BY <1>1 DEF Path
<1>3. Last(stack) \in Frames /\ Last(stack) = stack[n]
  BY <1>1, FrontOf DEF Last
<1>4. Len(Last(stack).path) \in Nat
  BY <1>3 DEF Frames, Path
<1>5. Along(Last(stack).path, p)
  BY <1>1, <1>2, <1>4, AlongTrans
<1>6. /\ \A i \in 1 .. n : Along(stack[i].path, p) /\ Len(stack[i].path) = Len(from) + i - 1
      /\ \A i \in 1 .. n - 1 : p[Len(from) + i] \in stack[i].seen
  BY <1>1, <1>2, <1>5, TrailNames
<1> HIDE DEF n
<1>7. k \in 1 .. n
  BY DEF n
<1>8. Len(stack[k].path) = Len(from) + k - 1 /\ Len(child) <= Len(p)
  BY <1>6, <1>7 DEF Along
<1>9. Len(stack[k].path) + 1 = Len(from) + k /\ Len(stack[k].path) < Len(p)
  BY <1>1, <1>2, <1>7, <1>8
<1>10. p[Len(from) + k] \in stack[k].seen
  <2>1. CASE k = n
    <3>1. Len(child) \in 1 .. Len(child) /\ Last(child) = child[Len(child)]
      BY <1>1, <1>2 DEF Last
    <3>2. p[Len(child)] = Last(child)
      BY <3>1 DEF Along
    <3>3. QED
      BY <1>1, <1>3, <2>1, <3>2
  <2>2. CASE k # n
    <3>1. k \in 1 .. n - 1
      BY <1>1, <1>7, <2>2
    <3>2. QED
      BY <1>6, <3>1
  <2>3. QED
    BY <2>1, <2>2
<1>11. QED
  BY <1>6, <1>7, <1>9, <1>10

-----------------------------------------------------------------------------

(***************************************************************************)
(* The part of the walk from its start that has still to come by p: an     *)
(* open directory on the way where the next name has not been seen, or the *)
(* path under inspection.                                                  *)
(***************************************************************************)
Awaits(f, p) ==
  Len(f.path) < Len(p) /\ Along(f.path, p) /\ p[Len(f.path) + 1] \notin f.seen

Ahead(p) ==
  (\E k \in 1 .. Len(stack) : Awaits(stack[k], p)) \/ (Looking /\ Along(child, p))

(* Covers, and how many of the first n starts cover p, for any walk.       *)
CoversIn(w, s, p) ==
  /\ IsStrictPrefix(s, p)
  /\ Len(p) - Len(s) <= w.maxDepth
  /\ \A k \in Len(s) + 1 .. Len(p) - 1 : p[k] \notin w.skip

Covering(w, n, p) == Cardinality({i \in 1 .. n : CoversIn(w, w.starts[i], p)})

(* How often p has been come by, from the starts that are done with, ...   *)
Past(p) == Covering(walk, start - 1, p)

(* ... and with the present one.                                           *)
Through(p) == stack # << >> /\ CoversIn(walk, from, p) /\ ~ Ahead(p)
Had(p) == Past(p) + (IF Through(p) THEN 1 ELSE 0)

Reports(p) == Cardinality({k \in 1 .. Len(findings) : findings[k] = p})

(* An open directory on the way to p is the one its names lead to, and the *)
(* next name was there when it was opened.                                 *)
InPlace(tree, f, p) ==
  Len(f.path) < Len(p) /\ Along(f.path, p) =>
    f.dir = StatIn(tree, f.path) /\ p[Len(f.path) + 1] \in f.listed

OnWay(p) ==
  /\ \A k \in 1 .. Len(stack) : InPlace(entries, stack[k], p)
  /\ pc = "opendir" /\ Along(child, p) => child # p
  /\ pc = "getxattr" /\ Along(child, p) => child = p

(* What the walk has made of a steady path, interesting ...                *)
Tallied(p) ==
  OnWay(p) /\ Reports(p) <= Had(p) /\ (~ Full => Reports(p) = Had(p))

(* ... or not.                                                             *)
Ignored(p) ==
  /\ pc = "getxattr" /\ child = p => Lstat(p) \notin Link
  /\ Lstat(p) \notin bits => Reports(p) = 0

(***************************************************************************)
(* A steady path is reported as often as it was come by, or never.         *)
(***************************************************************************)
Counted(p) == Ignored(p) /\ (Lstat(p) \in bits => Tallied(p))

LEMMA ReportsMore ==
  ASSUME findings \in Seq(Path), NEW c \in Path, findings' = Append(findings, c), NEW p
  PROVE  Reports(p) \in Nat /\ Reports(p)' = Reports(p) + (IF c = p THEN 1 ELSE 0)
<1> DEFINE n == Len(findings)
           S == {k \in 1 .. n + 1 : findings'[k] = p}
<1>1. /\ n \in Nat /\ Len(findings') = n + 1 /\ findings'[n + 1] = c
      /\ \A k \in 1 .. n : findings'[k] = findings[k]
  OBVIOUS
<1>2. Reports(p) = Cardinality({k \in 1 .. n : k \in S})
  <2>1. {k \in 1 .. n : findings[k] = p} = {k \in 1 .. n : k \in S}
    BY <1>1
  <2>2. QED
    BY <2>1 DEF Reports
<1>3. Reports(p)' = Cardinality({k \in 1 .. n + 1 : k \in S})
  <2>1. {k \in 1 .. Len(findings') : findings'[k] = p} = {k \in 1 .. n + 1 : k \in S}
    BY <1>1
  <2>2. QED
    BY <2>1 DEF Reports
<1>4. n + 1 \in S <=> c = p
  BY <1>1
<1> HIDE DEF S, n
<1>5. QED
  BY <1>1, <1>2, <1>3, <1>4, CountTo

LEMMA ReportsType ==
  ASSUME findings \in Seq(Path), NEW p
  PROVE  Reports(p) \in Nat
<1> DEFINE n == Len(findings)
           S == {k \in 1 .. n : findings[k] = p}
<1>1. n \in Nat /\ S = {k \in 1 .. n : k \in S}
  OBVIOUS
<1> HIDE DEF S
<1>2. Cardinality({k \in 1 .. n : k \in S}) \in Nat
  BY <1>1, CountTo
<1>3. Cardinality(S) \in Nat
  BY <1>1, <1>2
<1>4. QED
  BY <1>3 DEF S, Reports

LEMMA CoveringMore ==
  ASSUME NEW w, NEW n \in Nat, NEW p
  PROVE  /\ Covering(w, n, p) \in Nat
         /\ Covering(w, n + 1, p)
              = Covering(w, n, p) + (IF CoversIn(w, w.starts[n + 1], p) THEN 1 ELSE 0)
<1> DEFINE S == {i \in 1 .. n + 1 : CoversIn(w, w.starts[i], p)}
<1>1. {i \in 1 .. n : CoversIn(w, w.starts[i], p)} = {i \in 1 .. n : i \in S}
  OBVIOUS
<1>2. {i \in 1 .. n + 1 : CoversIn(w, w.starts[i], p)} = {i \in 1 .. n + 1 : i \in S}
  OBVIOUS
<1>3. n + 1 \in S <=> CoversIn(w, w.starts[n + 1], p)
  OBVIOUS
<1>4. /\ Covering(w, n, p) = Cardinality({i \in 1 .. n : i \in S})
      /\ Covering(w, n + 1, p) = Cardinality({i \in 1 .. n + 1 : i \in S})
  BY <1>1, <1>2 DEF Covering
<1> HIDE DEF S
<1>5. QED
  BY <1>3, <1>4, CountTo

LEMMA CoveringLess ==
  ASSUME NEW w, NEW n \in Nat, NEW m \in 0 .. n, NEW p
  PROVE  Covering(w, m, p) \in Nat /\ Covering(w, n, p) \in Nat
         /\ Covering(w, m, p) <= Covering(w, n, p)
<1> DEFINE A == {i \in 1 .. m : CoversIn(w, w.starts[i], p)}
           B == {i \in 1 .. n : CoversIn(w, w.starts[i], p)}
<1>1. m \in Nat /\ A \in SUBSET B /\ B \in SUBSET (1 .. n)
  OBVIOUS
<1>2. IsFiniteSet(1 .. n)
  BY FS_Interval
<1> HIDE DEF A, B
<1>3. IsFiniteSet(B)
  BY <1>1, <1>2, FS_Subset
<1>4. Cardinality(A) <= Cardinality(B)
  BY <1>1, <1>3, FS_Subset
<1>5. Covering(w, m, p) \in Nat /\ Covering(w, n, p) \in Nat
  BY <1>1, CoveringMore
<1>6. QED
  BY <1>4, <1>5 DEF Covering, A, B

LEMMA PastMore ==
  ASSUME start \in Nat \ {0}, walk' = walk, NEW p
  PROVE  /\ Past(p) \in Nat
         /\ start' = start + 1 => Past(p)' = Past(p) + (IF CoversIn(walk, from, p) THEN 1 ELSE 0)
         /\ start' = start => Past(p)' = Past(p)
<1> DEFINE n == start - 1
<1>1. n \in Nat /\ n + 1 = start
  OBVIOUS
<1>2. ASSUME start' = start + 1 PROVE Past(p)' = Covering(walk, n + 1, p)
  <2>1. start' - 1 = n + 1
    BY <1>1, <1>2
  <2>2. QED
    BY <2>1 DEF Past
<1>3. Past(p) = Covering(walk, n, p)
  BY DEF Past
<1>4. start' = start => Past(p)' = Past(p)
  BY DEF Past
<1>5. walk.starts[n + 1] = from
  BY <1>1 DEF from
<1> HIDE DEF n
<1>6. QED
  BY <1>1, <1>2, <1>3, <1>4, <1>5, CoveringMore

-----------------------------------------------------------------------------

(* On the way to a steady path.                                            *)
LEMMA WayFacts ==
  ASSUME NEW p \in Path, Steady(p), NEW q \in Path, Along(q, p), Len(q) < Len(p)
  PROVE  /\ Lstat(q) \in Dir /\ Stat(q) = Lstat(q) /\ Opens(q)
         /\ Lstat(p) \in Inode => p[Len(q) + 1] \in Names(Stat(q))
<1> DEFINE k == Len(q)
<1>1. q = SubSeq(p, 1, k) /\ k \in 0 .. Len(p)
  BY AlongIs DEF Path
<1>2. k \in 0 .. Len(p) - 1
  BY <1>1 DEF Path
<1> HIDE DEF k
<1>3. /\ Lstat(SubSeq(p, 1, k)) \in Dir
      /\ Stat(SubSeq(p, 1, k)) = Lstat(SubSeq(p, 1, k))
      /\ Opens(SubSeq(p, 1, k))
      /\ Lstat(p) \in Inode => p[k + 1] \in Names(Stat(SubSeq(p, 1, k)))
  BY <1>2, SteadyWay DEF Path
<1>4. QED
  BY <1>1, <1>3 DEF k

(* What was come by, when the start stays the same.                        *)
LEMMA SameStartHad ==
  ASSUME Inv, walk' = walk, start' = start, stack # << >>, stack' # << >>, NEW p
  PROVE  /\ Had(p) \in Nat /\ Had(p)' \in Nat
         /\ (CoversIn(walk, from, p) => (Ahead(p)' <=> Ahead(p))) => Had(p)' = Had(p)
         /\ CoversIn(walk, from, p) /\ Ahead(p) /\ ~ Ahead(p)' => Had(p)' = Had(p) + 1
         /\ (Ahead(p)' => Ahead(p)) => Had(p)' >= Had(p)
<1>1. start \in Nat \ {0}
  BY WalkType DEF Inv, WalkTyped
<1>2. Past(p) \in Nat /\ Past(p)' = Past(p)
  BY <1>1, PastMore
<1>3. from' = from
  BY DEF from
<1>4. Through(p) <=> CoversIn(walk, from, p) /\ ~ Ahead(p)
  BY DEF Through
<1>5. Through(p)' <=> CoversIn(walk, from, p) /\ ~ Ahead(p)'
  BY <1>3 DEF Through
<1>6. Had(p) = Past(p) + (IF Through(p) THEN 1 ELSE 0)
  BY DEF Had
<1>7. Had(p)' = Past(p)' + (IF Through(p)' THEN 1 ELSE 0)
  BY DEF Had
<1>8. QED
  BY <1>2, <1>4, <1>5, <1>6, <1>7

(* The tally of reports goes along with what was come by.                  *)
LEMMA Tally ==
  ASSUME Inv, walk' = walk, NEW p, Had(p) \in Nat, Had(p)' \in Nat,
         Reports(p) <= Had(p), ~ Full => Reports(p) = Had(p),
         \/ findings' = findings /\ Had(p)' = Had(p)
         \/ findings' = findings /\ Full /\ Had(p)' >= Had(p)
         \/ Report(child) /\ Had(p)' = Had(p) + (IF child = p THEN 1 ELSE 0)
  PROVE  Reports(p)' <= Had(p)' /\ (~ Full' => Reports(p)' = Had(p)')
<1>1. findings \in Seq(Path) /\ child \in Path /\ walk.maxFindings \in Nat
  BY WalkType DEF Inv, WalkTyped
<1>2. Reports(p) \in Nat
  BY <1>1, ReportsType
<1>3. CASE findings' = findings
  <2>1. Reports(p)' = Reports(p) /\ (Full' <=> Full)
    BY <1>3 DEF Reports, Full
  <2>2. Had(p)' = Had(p) \/ (Full /\ Had(p)' >= Had(p)) \/ Report(child)
    OBVIOUS
  <2>3. ~ Report(child)
    <3>1. Len(Append(findings, child)) = Len(findings) + 1 /\ Len(findings) \in Nat
      BY <1>1
    <3>2. Append(findings, child) # findings
      BY <3>1
    <3>3. QED
      BY <1>3, <3>2 DEF Report
  <2>4. QED
    BY <1>2, <2>1, <2>2, <2>3
<1>4. CASE Report(child) /\ Had(p)' = Had(p) + (IF child = p THEN 1 ELSE 0)
  <2>1. findings' = Append(findings, child)
    BY <1>4 DEF Report
  <2>2. Reports(p)' = Reports(p) + (IF child = p THEN 1 ELSE 0)
    BY <1>1, <2>1, ReportsMore
  <2>3. ~ Full' => ~ Full
    <3>1. Len(findings') = Len(findings) + 1 /\ Len(findings) \in Nat
      BY <1>1, <2>1
    <3>2. QED
      BY <1>1, <3>1 DEF Full
  <2>4. QED
    BY <1>2, <1>4, <2>2, <2>3
<1>5. QED
  BY <1>3, <1>4

(* While a path is under inspection, nothing above it waits for it.        *)
LEMMA NoneAwaits ==
  ASSUME Inv, OnTrail, Looking, NEW p \in Path, Along(child, p)
  PROVE  Ahead(p) /\ \A k \in 1 .. Len(stack) : ~ Awaits(stack[k], p)
<1>1. ASSUME NEW k \in 1 .. Len(stack) PROVE ~ Awaits(stack[k], p)
  BY SeenOnTheWay DEF Awaits
<1>2. QED
  BY <1>1 DEF Ahead

LEMMA IgnoredStep ==
  ASSUME Inv, Step, NEW p \in Path, Ignored(p)
  PROVE  Ignored(p)'
<1>1. entries' = entries /\ bits' = bits
  BY StepLeavesTree DEF files
<1>2. Lstat(p)' = Lstat(p)
  BY <1>1 DEF Lstat
<1>3. findings \in Seq(Path) /\ child \in Path
  BY DEF Inv, WalkTyped
<1>4. Reports(p) \in Nat /\ (findings' = findings => Reports(p)' = Reports(p))
  BY <1>3, ReportsType DEF Reports
<1>5. ASSUME Report(child) PROVE child # p => Reports(p)' = Reports(p)
  <2>1. findings' = Append(findings, child)
    BY <1>5 DEF Report
  <2>2. QED
    BY <1>3, <1>4, <2>1, ReportsMore
<1>6. CASE Start \/ Done \/ ReadEntry \/ CloseDir \/ Descend
  <2>1. pc' # "getxattr" /\ findings' = findings
    BY <1>6 DEF Start, Done, ReadEntry, CloseDir, Descend
  <2>2. QED
    BY <1>1, <1>2, <1>4, <2>1 DEF Ignored
<1>7. CASE Look
  <2>1. /\ child' = child
        /\ pc' = "getxattr" => Lstat(child) \in File
        /\ findings' = findings \/ (Report(child) /\ Lstat(child) \in bits)
    BY <1>7 DEF Look
  <2>2. File \cap Link = {}
    BY TreeAssumption DEF TreeAssumption
  <2>3. QED
    BY <1>1, <1>2, <1>4, <1>5, <2>1, <2>2 DEF Ignored
<1>8. CASE GetXattr
  <2>1. /\ pc = "getxattr" /\ pc' = "read"
        /\ findings' = findings \/ (Report(child) /\ Stat(child) \in bits)
    BY <1>8 DEF GetXattr
  <2>2. child = p => Stat(p) = Lstat(p)
    <3>1. SUFFICES ASSUME child = p PROVE Stat(p) = Lstat(p)
      OBVIOUS
    <3>2. Lstat(p) \notin Link
      BY <2>1, <3>1 DEF Ignored
    <3>3. QED
      BY <3>2, WholeUnlinked DEF Path
  <2>3. QED
    BY <1>1, <1>2, <1>4, <1>5, <2>1, <2>2 DEF Ignored
<1>9. QED
  BY <1>6, <1>7, <1>8, Zenon DEF Step

(* opendir of a start: of one on the way to p, it works.                   *)
LEMMA StartCount ==
  ASSUME Inv, OnTrail, Start, NEW p \in Path, Steady(p), Lstat(p) \in bits, Tallied(p)
  PROVE  Tallied(p)'
<1> DEFINE f == Frame(from, Stat(from))
<1>1. pc = "start" /\ start <= Len(walk.starts) /\ UNCHANGED <<walk, child, findings, files>>
  BY Zenon DEF Start
<1>2. stack = << >> /\ walk' = walk /\ entries' = entries
  BY <1>1 DEF Inv, Opened, files
<1>3. from \in Path /\ Len(from) \in Nat
  <2>1. /\ Len(walk.starts) \in Nat
        /\ \A i \in 1 .. Len(walk.starts) : walk.starts[i] \in Path
    BY WalkType DEF Inv
  <2>2. start \in 1 .. Len(walk.starts)
    BY <1>1, <2>1 DEF Inv, WalkTyped
  <2>3. QED
    BY <2>1, <2>2 DEF from, Path
<1>4. start \in Nat \ {0}
  BY WalkType DEF Inv, WalkTyped
<1>5. Had(p) = Past(p) /\ Past(p) \in Nat
  BY <1>2, <1>4, PastMore DEF Had, Through
<1>6. CoversIn(walk, from, p) => Along(from, p) /\ Len(from) < Len(p)
  BY <1>3, AlongIs DEF CoversIn, Path
<1>7. Lstat(p) \in Inode
  BY DEF Inv, TreeTyped, Inode
<1>8. CASE Opens(from)
  <2>1. stack' = <<f>> /\ pc' = "read" /\ start' = start
    BY <1>1, <1>8, Zenon DEF Start, from
  <2>2. f.path = from /\ f.dir = Stat(from) /\ f.seen = {} /\ f.listed = Names(Stat(from))
    BY DEF Frame
  <2> HIDE DEF f
  <2>3. Len(stack') = 1 /\ stack'[1] = f
    BY <2>1
  <2>4. Through(p)' => FALSE
    <3>1. from' = from
      BY <1>2, <2>1 DEF from
    <3>2. ASSUME CoversIn(walk, from, p) PROVE Ahead(p)'
      <4>1. Awaits(f, p)
        BY <1>6, <2>2, <3>2 DEF Awaits
      <4>2. QED
        BY <2>3, <4>1 DEF Ahead
    <3>3. QED
      BY <1>2, <3>1, <3>2 DEF Through
  <2>5. Had(p)' = Had(p)
    <3>1. Past(p)' = Past(p)
      BY <1>2, <1>4, <2>1, PastMore
    <3>2. QED
      BY <1>5, <2>4, <3>1 DEF Had
  <2>6. OnWay(p)'
    <3>1. InPlace(entries, f, p)
      BY <1>3, <1>7, <2>2, WayFacts DEF InPlace, Stat
    <3>2. QED
      BY <1>2, <2>1, <2>3, <3>1 DEF OnWay
  <2>7. QED
    BY <1>1, <1>2, <1>5, <2>5, <2>6, Tally DEF Tallied
<1>9. CASE ~ Opens(from)
  <2>1. stack' = << >> /\ pc' = pc /\ start' = start + 1
    BY <1>1, <1>2, <1>9, Zenon DEF Start, NextStart, from
  <2>2. ~ CoversIn(walk, from, p)
    BY <1>3, <1>6, <1>9, WayFacts
  <2>3. Had(p)' = Had(p)
    <3>1. Past(p)' = Past(p)
      BY <1>2, <1>4, <1>5, <2>1, <2>2, PastMore
    <3>2. ~ Through(p)'
      BY <2>1 DEF Through
    <3>3. QED
      BY <1>5, <3>1, <3>2 DEF Had
  <2>4. OnWay(p)'
    BY <1>1, <2>1 DEF OnWay
  <2>5. QED
    BY <1>1, <1>2, <1>5, <2>3, <2>4, Tally DEF Tallied
<1>10. QED
  BY <1>8, <1>9

(* The loop of the probe ends.                                             *)
LEMMA DoneCount ==
  ASSUME Inv, Done, NEW p, Tallied(p)
  PROVE  Tallied(p)'
<1>1. /\ pc = "start" /\ pc' = "done"
      /\ UNCHANGED <<walk, start, stack, child, findings, files>>
  BY Zenon DEF Done
<1>2. stack = << >> /\ entries' = entries
  BY <1>1 DEF Inv, Opened, files
<1>3. Had(p)' = Had(p)
  BY <1>1, <1>2 DEF Had, Past, Through
<1>4. Reports(p)' = Reports(p) /\ (Full' <=> Full)
  BY <1>1 DEF Reports, Full
<1>5. OnWay(p)'
  BY <1>1, <1>2 DEF OnWay
<1>6. QED
  BY <1>3, <1>4, <1>5 DEF Tallied

(* readdir: if the name is on the way to p, p is come by with the child.   *)
LEMMA ReadCount ==
  ASSUME Inv, OnTrail, ReadEntry, NEW p \in Path, Tallied(p)
  PROVE  Tallied(p)'
<1> DEFINE f == Last(stack)
           m == Len(stack)
<1>1. pc = "read" /\ pc' = "lstat" /\ UNCHANGED <<walk, start, findings, files>>
  BY Zenon DEF ReadEntry
<1>2. PICK n \in (f.listed \cup Names(f.dir)) \ f.seen :
        /\ child' = Append(f.path, n)
        /\ stack' = Append(Front(stack), [f EXCEPT !.seen = @ \cup {n}])
  BY Zenon DEF ReadEntry
<1>3. stack # << >> /\ stack \in Seq(Frames)
  BY <1>1 DEF Inv, Opened, WalkTyped
<1>4. /\ f \in Frames /\ Front(stack) \in Seq(Frames) /\ m \in Nat \ {0}
      /\ Len(Front(stack)) = m - 1 /\ stack[m] = f
      /\ \A k \in 1 .. m - 1 : Front(stack)[k] = stack[k]
  BY <1>3, FrontOf DEF Last
<1> DEFINE g == [f EXCEPT !.seen = @ \cup {n}]
<1>5. n \in STRING /\ n \in Name /\ f.path \in Path /\ n \notin f.seen
  BY <1>2, <1>4, ContentsAssumption DEF Inv, TreeTyped, Frames, ContentsAssumption
<1>6. /\ g \in Frames /\ g.path = f.path /\ g.dir = f.dir /\ g.listed = f.listed
      /\ g.seen = f.seen \cup {n}
  <2> HIDE DEF f
  <2>1. QED
    BY <1>4, <1>5 DEF Frames
<1>7. stack' = Append(Front(stack), g)
  BY <1>2
<1> HIDE DEF f, g, m
<1>8. /\ Len(stack') = m /\ stack'[m] = g /\ \A k \in 1 .. m - 1 : stack'[k] = stack[k]
      /\ stack' # << >>
  BY <1>4, <1>6, <1>7
<1>9. Awaits(f, p) <=> Awaits(g, p) \/ Along(child', p)
  <2> DEFINE c == child'
             l == Len(f.path)
  <2>1. /\ l \in Nat /\ Len(c) = l + 1 /\ c[l + 1] = n
        /\ \A i \in 1 .. l : c[i] = f.path[i]
    BY <1>2, <1>5 DEF Path
  <2> HIDE DEF c
  <2>2. Along(c, p) <=> Along(f.path, p) /\ l < Len(p) /\ p[l + 1] = n
    <3>1. Len(p) \in Nat
      BY DEF Path
    <3>2. \A i \in 1 .. l + 1 : i \in 1 .. l \/ i = l + 1
      BY <2>1
    <3>3. \A i \in 1 .. l : i \in 1 .. l + 1
      BY <2>1
    <3>4. l + 1 \in 1 .. l + 1
      BY <2>1
    <3> HIDE DEF l
    <3>5. Along(c, p) => Along(f.path, p) /\ l < Len(p) /\ p[l + 1] = n
      BY <2>1, <3>1, <3>3, <3>4 DEF Along, l
    <3>6. Along(f.path, p) /\ l < Len(p) /\ p[l + 1] = n => Along(c, p)
      BY <2>1, <3>1, <3>2 DEF Along, l
    <3>7. QED
      BY <3>5, <3>6
  <2>3. QED
    BY <1>5, <1>6, <2>2 DEF Awaits, c
<1>10. Ahead(p)' <=> Ahead(p)
  <2>1. \A k \in 1 .. m : k = m \/ k \in 1 .. m - 1
    BY <1>4
  <2>2. m \in 1 .. m /\ \A k \in 1 .. m - 1 : k \in 1 .. m
    BY <1>4
  <2>3. Ahead(p) <=> (\E k \in 1 .. m - 1 : Awaits(stack[k], p)) \/ Awaits(f, p)
    BY <1>1, <1>4, <2>1, <2>2 DEF Ahead, Looking, m
  <2>4. Ahead(p)' <=> (\E k \in 1 .. m : Awaits(stack'[k], p)) \/ Along(child', p)
    BY <1>1, <1>8 DEF Ahead, Looking
  <2>5. (\E k \in 1 .. m : Awaits(stack'[k], p))
          <=> (\E k \in 1 .. m - 1 : Awaits(stack[k], p)) \/ Awaits(g, p)
    BY <1>8, <2>1, <2>2
  <2>6. QED
    BY <1>9, <2>3, <2>4, <2>5
<1>11. Had(p) \in Nat /\ Had(p)' = Had(p)
  BY <1>1, <1>3, <1>8, <1>10, SameStartHad
<1>12. OnWay(p)'
  <2>1. ASSUME NEW k \in 1 .. m PROVE InPlace(entries, stack'[k], p)
    <3>1. InPlace(entries, stack[k], p)
      BY <2>1 DEF Tallied, OnWay, m
    <3>2. CASE k = m
      BY <1>4, <1>6, <1>8, <3>1, <3>2 DEF InPlace
    <3>3. CASE k # m
      <4>1. k \in 1 .. m - 1
        BY <1>4, <2>1, <3>3
      <4>2. QED
        BY <1>8, <3>1, <4>1
    <3>4. QED
      BY <3>2, <3>3
  <2>2. entries' = entries
    BY <1>1 DEF files
  <2>3. QED
    BY <1>1, <1>8, <2>1, <2>2 DEF OnWay
<1>13. QED
  BY <1>1, <1>11, <1>12, Tally DEF Tallied

(* closedir: unless it is the cap that ends the loop, the next name on the *)
(* way to p has been seen.                                                 *)
LEMMA CloseCount ==
  ASSUME Inv, OnTrail, CloseDir, NEW p \in Path, Steady(p), Lstat(p) \in bits, Tallied(p)
  PROVE  Tallied(p)'
<1> DEFINE f == Last(stack)
           m == Len(stack)
<1>1. /\ pc = "read" /\ stack' = Front(stack) /\ UNCHANGED <<walk, child, findings, files>>
      /\ Full \/ f.listed \cap Names(f.dir) \subseteq f.seen
  BY Zenon DEF CloseDir
<1>2. stack # << >> /\ stack \in Seq(Frames)
  BY <1>1 DEF Inv, Opened, WalkTyped
<1>3. /\ f \in Frames /\ stack' \in Seq(Frames) /\ m \in Nat \ {0}
      /\ Len(stack') = m - 1 /\ stack[m] = f
      /\ \A k \in 1 .. m - 1 : stack'[k] = stack[k]
  BY <1>1, <1>2, FrontOf DEF Last
<1>4. m \in 1 .. m /\ \A k \in 1 .. m : k = m \/ k \in 1 .. m - 1
  BY <1>3
<1>5. ~ Full => ~ Awaits(f, p)
  <2>1. SUFFICES ASSUME f.listed \cap Names(f.dir) \subseteq f.seen, Awaits(f, p) PROVE FALSE
    BY <1>1
  <2>2. InPlace(entries, f, p)
    BY <1>3, <1>4 DEF Tallied, OnWay
  <2>3. f.path \in Path
    BY <1>3 DEF Frames
  <2>4. Lstat(p) \in Inode
    BY DEF Inv, TreeTyped, Inode
  <2> HIDE DEF f
  <2>5. p[Len(f.path) + 1] \in Names(Stat(f.path))
    BY <2>1, <2>3, <2>4, WayFacts DEF Awaits
  <2>6. QED
    BY <2>1, <2>2, <2>5 DEF Awaits, InPlace, Stat
<1> HIDE DEF f
<1>6. Ahead(p) <=> Ahead(p)' \/ Awaits(f, p)
  <2>1. pc' \in {"read", "start"}
    BY <1>1 DEF CloseDir
  <2>2. Ahead(p) <=> \E k \in 1 .. m : Awaits(stack[k], p)
    BY <1>1 DEF Ahead, Looking
  <2>3. Ahead(p)' <=> \E k \in 1 .. m - 1 : Awaits(stack'[k], p)
    BY <1>3, <2>1 DEF Ahead, Looking
  <2>4. \A k \in 1 .. m - 1 : k \in 1 .. m
    BY <1>3
  <2>5. QED
    BY <1>3, <1>4, <2>2, <2>3, <2>4
<1>7. /\ Had(p) \in Nat /\ Had(p)' \in Nat /\ Had(p)' >= Had(p)
      /\ ~ Full => Had(p)' = Had(p)
  <2>1. CASE m = 1
    <3>1. stack' = << >> /\ start' = start + 1
      BY <1>1, <1>3, <2>1 DEF CloseDir
    <3>2. start \in Nat \ {0} /\ walk' = walk
      BY <1>1, WalkType DEF Inv, WalkTyped
    <3>3. /\ Past(p) \in Nat
          /\ Past(p)' = Past(p) + (IF CoversIn(walk, from, p) THEN 1 ELSE 0)
      BY <3>1, <3>2, PastMore
    <3>4. ~ Ahead(p)'
      <4>1. \A k \in 1 .. Len(stack') : FALSE
        BY <1>3, <2>1
      <4>2. pc' = "start"
        BY <2>1 DEF CloseDir
      <4>3. QED
        BY <4>1, <4>2 DEF Ahead, Looking
    <3>5. Had(p)' = Past(p)'
      <4>1. ~ Through(p)' /\ Past(p)' \in Nat
        BY <3>1, <3>3 DEF Through
      <4>2. QED
        BY <4>1 DEF Had
    <3>6. /\ CoversIn(walk, from, p) /\ ~ Ahead(p) => Had(p) = Past(p) + 1
          /\ ~ (CoversIn(walk, from, p) /\ ~ Ahead(p)) => Had(p) = Past(p)
      BY <1>2, <3>3 DEF Had, Through
    <3>7. ~ Full => ~ Ahead(p)
      BY <1>5, <1>6, <3>4
    <3>8. QED
      BY <3>3, <3>5, <3>6, <3>7
  <2>2. CASE m # 1
    <3>1. stack' # << >> /\ start' = start /\ walk' = walk
      BY <1>1, <1>3, <2>2 DEF CloseDir
    <3>2. ~ Full => (Ahead(p)' <=> Ahead(p))
      BY <1>5, <1>6
    <3>3. QED
      BY <1>2, <1>6, <3>1, <3>2, SameStartHad
  <2>3. QED
    BY <2>1, <2>2
<1>8. OnWay(p)'
  <2>1. \A k \in 1 .. m - 1 : InPlace(entries, stack'[k], p)
    BY <1>3 DEF Tallied, OnWay
  <2>2. entries' = entries /\ pc' \in {"read", "start"}
    BY <1>1 DEF files, CloseDir
  <2>3. QED
    BY <1>3, <2>1, <2>2 DEF OnWay
<1>9. QED
  <2>1. CASE Full
    BY <1>1, <1>7, <1>8, <2>1, Tally DEF Tallied
  <2>2. CASE ~ Full
    BY <1>1, <1>7, <1>8, <2>2, Tally DEF Tallied
  <2>3. QED
    BY <2>1, <2>2

(* While a path is under inspection, only a path on it is come by.         *)
LEMMA LookingHad ==
  ASSUME Inv, OnTrail, Looking, UNCHANGED <<walk, start, stack, child>>, NEW p \in Path
  PROVE  /\ Had(p) \in Nat /\ Had(p)' \in Nat
         /\ (Looking' \/ ~ Along(child, p) \/ ~ Covers(from, p)) => Had(p)' = Had(p)
         /\ ~ Looking' /\ child = p => Had(p)' = Had(p) + 1
<1>1. stack # << >> /\ stack' # << >> /\ Covers(from, child) /\ child \in Path
  BY ChildType, ChildCovered
<1>2. Covers(from, p) <=> CoversIn(walk, from, p)
  BY DEF Covers, CoversIn
<1>3. Ahead(p)' <=> (\E k \in 1 .. Len(stack) : Awaits(stack[k], p)) \/ (Looking' /\ Along(child, p))
  BY DEF Ahead
<1>4. Looking' \/ ~ Along(child, p) => (Ahead(p)' <=> Ahead(p))
  BY <1>3 DEF Ahead
<1>5. ASSUME ~ Looking', child = p
      PROVE  CoversIn(walk, from, p) /\ Ahead(p) /\ ~ Ahead(p)'
  <2>1. Along(child, p)
    BY <1>1, <1>5 DEF Along, Path
  <2>2. QED
    BY <1>1, <1>2, <1>3, <1>5, <2>1, NoneAwaits
<1>6. QED
  BY <1>1, <1>2, <1>4, <1>5, SameStartHad

(* lstat: p is reported, or the inspection goes on, or p is not covered.   *)
LEMMA LookCount ==
  ASSUME Inv, OnTrail, Look, NEW p \in Path, Steady(p), Lstat(p) \in bits, Tallied(p)
  PROVE  Tallied(p)'
<1>1. pc = "lstat" /\ UNCHANGED <<walk, start, stack, child, files>>
  BY Zenon DEF Look
<1>2. Looking /\ entries' = entries
  BY <1>1 DEF Looking, files
<1>3. /\ stack # << >> /\ Len(stack) \in Nat \ {0} /\ walk.maxDepth \in Nat
      /\ from \in Path /\ Len(from) \in Nat
      /\ child \in Path /\ Len(child) = Len(from) + Len(stack)
  BY <1>2, ChildType
<1>4. /\ Had(p) \in Nat /\ Had(p)' \in Nat
      /\ (Looking' \/ ~ Along(child, p) \/ ~ Covers(from, p)) => Had(p)' = Had(p)
      /\ ~ Looking' /\ child = p => Had(p)' = Had(p) + 1
  BY <1>1, <1>2, LookingHad
<1>5. Lstat(p) \in File /\ Dir \cap File = {} /\ bits \subseteq File
  BY TreeAssumption DEF Inv, TreeTyped, TreeAssumption
<1>6. Along(child, p) => child = p \/ Lstat(child) \in Dir
  <2>1. Along(child, p) => child = p \/ Len(child) < Len(p)
    BY <1>3, AlongIs DEF Along, Path
  <2>2. QED
    BY <1>3, <2>1, WayFacts
<1>7. \A k \in 1 .. Len(stack') : InPlace(entries', stack'[k], p)
  BY <1>1, <1>2 DEF Tallied, OnWay
<1>8. CASE pc' = "opendir" /\ Lstat(child) \in Dir /\ UNCHANGED findings
  <2>1. OnWay(p)'
    BY <1>1, <1>5, <1>7, <1>8 DEF OnWay
  <2>2. Had(p)' = Had(p)
    BY <1>4, <1>8 DEF Looking
  <2>3. QED
    BY <1>1, <1>4, <1>8, <2>1, <2>2, Tally DEF Tallied
<1>9. CASE pc' = "getxattr" /\ Lstat(child) \in File /\ UNCHANGED findings
  <2>1. OnWay(p)'
    BY <1>1, <1>5, <1>6, <1>7, <1>9 DEF OnWay
  <2>2. Had(p)' = Had(p)
    BY <1>4, <1>9 DEF Looking
  <2>3. QED
    BY <1>1, <1>4, <1>9, <2>1, <2>2, Tally DEF Tallied
<1>10. CASE pc' = "read" /\ Lstat(child) \in bits /\ Report(child)
  <2>1. OnWay(p)'
    BY <1>7, <1>10 DEF OnWay
  <2>2. Had(p)' = Had(p) + (IF child = p THEN 1 ELSE 0)
    <3>1. Along(child, p) => child = p
      BY <1>5, <1>6, <1>10
    <3>2. ~ Looking'
      BY <1>10 DEF Looking
    <3>3. QED
      BY <1>4, <3>1, <3>2
  <2>3. QED
    BY <1>1, <1>4, <1>10, <2>1, <2>2, Tally DEF Tallied
<1>11. CASE /\ pc' = "read" /\ Lstat(child) \notin bits /\ UNCHANGED findings
            /\ Lstat(child) \in Dir => Last(child) \in walk.skip \/ ~ MayDescend
  <2>1. OnWay(p)'
    BY <1>7, <1>11 DEF OnWay
  <2>2. ~ Along(child, p) \/ ~ Covers(from, p)
    <3>1. SUFFICES ASSUME Along(child, p), Covers(from, p) PROVE FALSE
      OBVIOUS
    <3>2. child # p /\ Lstat(child) \in Dir
      BY <1>6, <1>11, <3>1
    <3>3. Len(child) < Len(p) /\ Len(p) \in Nat /\ \A i \in 1 .. Len(child) : child[i] = p[i]
      BY <1>3, <3>1, <3>2, AlongIs DEF Along, Path
    <3>4. /\ Len(p) - Len(from) <= walk.maxDepth
          /\ \A k \in Len(from) + 1 .. Len(p) - 1 : p[k] \notin walk.skip
      BY <3>1 DEF Covers
    <3>5. Len(child) \in Len(from) + 1 .. Len(p) - 1 /\ Len(child) \in 1 .. Len(child)
      BY <1>3, <3>3
    <3>6. Last(child) \notin walk.skip
      BY <3>3, <3>4, <3>5 DEF Last
    <3>7. MayDescend
      BY <1>3, <3>3, <3>4 DEF MayDescend
    <3>8. QED
      BY <1>11, <3>2, <3>6, <3>7
  <2>3. QED
    BY <1>1, <1>4, <1>11, <2>1, <2>2, Tally DEF Tallied
<1>12. QED
  BY <1>8, <1>9, <1>10, <1>11 DEF Look

(* opendir: of a directory on the way to p, it works.                      *)
LEMMA DescendCount ==
  ASSUME Inv, OnTrail, Descend, NEW p \in Path, Steady(p), Lstat(p) \in bits, Tallied(p)
  PROVE  Tallied(p)'
<1> DEFINE f == Frame(child, Stat(child))
           m == Len(stack)
<1>1. /\ pc = "opendir" /\ pc' = "read" /\ UNCHANGED <<walk, start, child, findings, files>>
      /\ stack' = IF Opens(child) THEN Append(stack, f) ELSE stack
  BY Zenon DEF Descend
<1>2. Looking /\ entries' = entries
  BY <1>1 DEF Looking, files
<1>3. /\ stack # << >> /\ stack \in Seq(Frames) /\ m \in Nat \ {0} /\ child \in Path
  BY <1>2, ChildType
<1>4. Along(child, p) => Len(child) < Len(p) /\ Opens(child)
  <2>1. Along(child, p) => child # p
    BY <1>1 DEF Tallied, OnWay
  <2>2. Along(child, p) => Len(child) < Len(p)
    BY <1>3, <2>1, AlongIs DEF Along, Path
  <2>3. QED
    BY <1>3, <2>2, WayFacts
<1>5. Lstat(p) \in Inode
  BY DEF Inv, TreeTyped, Inode
<1>6. f.path = child /\ f.dir = Stat(child) /\ f.seen = {} /\ f.listed = Names(Stat(child))
  BY DEF Frame
<1>7. InPlace(entries, f, p)
  BY <1>3, <1>5, <1>6, WayFacts DEF InPlace, Stat
<1>8. Awaits(f, p) <=> Along(child, p)
  BY <1>4, <1>6 DEF Awaits
<1>9. CASE Opens(child)
  <2>1. f \in Frames
    BY <1>3, <1>9, FrameType DEF Inv
  <2> HIDE DEF f
  <2>2. /\ Len(stack') = m + 1 /\ stack'[m + 1] = f /\ stack' # << >>
        /\ \A k \in 1 .. m : stack'[k] = stack[k]
    BY <1>1, <1>3, <1>9, <2>1
  <2>3. /\ \A k \in 1 .. m + 1 : k = m + 1 \/ k \in 1 .. m
        /\ m + 1 \in 1 .. m + 1 /\ \A k \in 1 .. m : k \in 1 .. m + 1
    BY <1>3
  <2>4. Ahead(p)' <=> Ahead(p)
    <3>1. Ahead(p) <=> (\E k \in 1 .. m : Awaits(stack[k], p)) \/ Along(child, p)
      BY <1>2 DEF Ahead
    <3>2. Ahead(p)' <=> \E k \in 1 .. m + 1 : Awaits(stack'[k], p)
      BY <1>1, <2>2 DEF Ahead, Looking
    <3>3. QED
      BY <1>8, <2>2, <2>3, <3>1, <3>2
  <2>5. Had(p) \in Nat /\ Had(p)' = Had(p)
    BY <1>1, <1>3, <2>2, <2>4, SameStartHad
  <2>6. \A k \in 1 .. m + 1 : InPlace(entries, stack'[k], p)
    BY <1>7, <2>2, <2>3 DEF Tallied, OnWay
  <2>7. OnWay(p)'
    BY <1>1, <1>2, <2>2, <2>6 DEF OnWay
  <2>8. QED
    BY <1>1, <2>5, <2>7, Tally DEF Tallied
<1>10. CASE ~ Opens(child)
  <2>1. stack' = stack
    BY <1>1, <1>10
  <2>2. Had(p) \in Nat /\ Had(p)' = Had(p)
    BY <1>1, <1>2, <1>4, <1>10, <2>1, LookingHad
  <2>3. OnWay(p)'
    BY <1>1, <1>2, <2>1 DEF Tallied, OnWay
  <2>4. QED
    BY <1>1, <2>2, <2>3, Tally DEF Tallied
<1>11. QED
  BY <1>9, <1>10

(* getxattr: a steady file is still the one that lstat saw.                *)
LEMMA GetXattrCount ==
  ASSUME Inv, OnTrail, GetXattr, NEW p \in Path, Steady(p), Lstat(p) \in bits, Tallied(p)
  PROVE  Tallied(p)'
<1>1. /\ pc = "getxattr" /\ pc' = "read" /\ UNCHANGED <<walk, start, stack, child, files>>
      /\ Stat(child) \in bits => Report(child)
      /\ Stat(child) \notin bits => UNCHANGED findings
  BY DEF GetXattr
<1>2. Looking /\ entries' = entries /\ ~ Looking'
  BY <1>1 DEF Looking, files
<1>3. /\ Had(p) \in Nat /\ Had(p)' \in Nat
      /\ (~ Along(child, p) => Had(p)' = Had(p))
      /\ (child = p => Had(p)' = Had(p) + 1)
  BY <1>1, <1>2, LookingHad
<1>4. Along(child, p) <=> child = p
  BY <1>1 DEF Tallied, OnWay, Along, Path
<1>5. Stat(p) \in bits
  <2>1. Lstat(p) \notin Link
    BY TreeAssumption DEF Inv, TreeTyped, TreeAssumption
  <2>2. QED
    BY <2>1, WholeUnlinked DEF Path
<1>6. OnWay(p)'
  BY <1>1, <1>2 DEF Tallied, OnWay
<1>7. CASE Report(child)
  BY <1>1, <1>3, <1>4, <1>6, <1>7, Tally DEF Tallied
<1>8. CASE UNCHANGED findings
  <2>1. CASE child = p
    BY <1>1, <1>5, <1>7, <2>1
  <2>2. CASE child # p
    BY <1>1, <1>3, <1>4, <1>6, <1>8, <2>2, Tally DEF Tallied
  <2>3. QED
    BY <2>1, <2>2
<1>9. QED
  BY <1>1, <1>7, <1>8

LEMMA CountStep ==
  ASSUME Inv, OnTrail, Step, NEW p \in Path, Steady(p), Counted(p)
  PROVE  Counted(p)'
<1>1. Ignored(p)'
  BY IgnoredStep DEF Counted
<1>2. Lstat(p)' = Lstat(p) /\ bits' = bits
  BY StepLeavesTree DEF files, Lstat
<1>3. ASSUME Lstat(p) \in bits PROVE Tallied(p)'
  <2>1. Tallied(p)
    BY <1>3 DEF Counted
  <2>2. QED
    BY <1>3, <2>1, StartCount, DoneCount, ReadCount, CloseCount, LookCount, DescendCount,
       GetXattrCount, Zenon DEF Step
<1>4. QED
  BY <1>1, <1>2, <1>3 DEF Counted

(* What others do elsewhere changes nothing of that.                       *)
LEMMA OthersCount ==
  ASSUME Inv, Others, NEW p \in Path, Steady(p)', Steady(p) => Counted(p)
  PROVE  Counted(p)'
<1>1. UNCHANGED <<walk, pc, start, stack, child, findings>> /\ Leaves
  <2>1. Change(Name) /\ UNCHANGED walking
    BY Zenon DEF Others
  <2>2. DOMAIN entries = Dir
    BY DEF Inv, TreeTyped
  <2>3. QED
    BY <2>1, <2>2, ChangeLeaves DEF walking
<1>2. /\ Steady(p)
      /\ \A k \in 0 .. Len(p) : Stat(SubSeq(p, 1, k))' = Stat(SubSeq(p, 1, k))
      /\ Lstat(p)' = Lstat(p)
      /\ (Lstat(p) \in bits)' <=> Lstat(p) \in bits
  BY <1>1, SteadyBack DEF Path
<1>3. Counted(p)
  BY <1>2
<1>4. /\ Reports(p)' = Reports(p) /\ (Full' <=> Full) /\ Had(p)' = Had(p)
  BY <1>1 DEF Reports, Full, Had, Past, Through, Ahead, from, Looking
<1>5. Ignored(p)'
  BY <1>1, <1>2, <1>3, <1>4 DEF Counted, Ignored
<1>6. ASSUME Lstat(p) \in bits PROVE OnWay(p)'
  <2>1. OnWay(p)
    BY <1>3, <1>6 DEF Counted, Tallied
  <2>2. ASSUME NEW k \in 1 .. Len(stack) PROVE InPlace(entries', stack[k], p)
    <3> DEFINE q == stack[k].path
    <3>1. q \in Path
      <4>1. stack \in Seq(Frames)
        BY DEF Inv, WalkTyped
      <4>2. stack[k] \in Frames
        BY <4>1
      <4>3. QED
        BY <4>2 DEF Frames
    <3>2. Along(q, p) => StatIn(entries', q) = StatIn(entries, q)
      <4>1. Along(q, p) => q = SubSeq(p, 1, Len(q)) /\ Len(q) \in 0 .. Len(p)
        BY <3>1, AlongIs DEF Path
      <4>2. QED
        BY <1>2, <4>1 DEF Stat
    <3>3. InPlace(entries, stack[k], p)
      BY <2>1 DEF OnWay
    <3>4. QED
      BY <3>2, <3>3 DEF InPlace
  <2>3. QED
    BY <1>1, <2>1, <2>2 DEF OnWay
<1>7. QED
  BY <1>2, <1>3, <1>4, <1>5, <1>6 DEF Counted, Tallied

-----------------------------------------------------------------------------

(***************************************************************************)
(* As long as nobody changes the tree, the walk follows no link below its  *)
(* start, and what it reports is what it looks for.                        *)
(***************************************************************************)
Proper(tree, marked, w, path) ==
  /\ StatIn(tree, path) \in marked
  /\ \E i \in 1 .. Len(w.starts) :
       LET s == w.starts[i] IN
       /\ CoversIn(w, s, path)
       /\ \A j \in Len(s) + 1 .. Len(path) :
            EntryIn(tree, StatIn(tree, SubSeq(path, 1, j - 1)), path[j]) \notin Link

Unlinked == \A k \in 2 .. Len(stack) : Lstat(stack[k].path) \notin Link

Undisturbed ==
  /\ Unlinked
  /\ pc \in {"opendir", "getxattr"} => Lstat(child) \notin Link
  /\ \A k \in 1 .. Len(findings) : Proper(entries, bits, walk, findings[k])

LEMMA ChildProper ==
  ASSUME Inv, OnTrail, Looking, Unlinked, Lstat(child) \notin Link, Stat(child) \in bits
  PROVE  Proper(entries, bits, walk, child)
<1> DEFINE n == Len(stack)
           l == Len(from)
<1>1. /\ stack # << >> /\ stack \in Seq(Frames) /\ n \in Nat \ {0}
      /\ from \in Path /\ l \in Nat
      /\ Trail(stack, from, walk.skip)
      /\ child \in Path /\ Len(child) = l + n
      /\ Along(Last(stack).path, child)
  BY ChildType
<1>2. \A k \in 1 .. n : Along(stack[k].path, child) /\ Len(stack[k].path) = l + k - 1
  BY <1>1, TrailNames
<1>3. start \in 1 .. Len(walk.starts)
  BY <1>1, FromType
<1> HIDE DEF n, l
<1>4. ASSUME NEW j \in l + 1 .. Len(child) PROVE Lstat(SubSeq(child, 1, j)) \notin Link
  <2>1. CASE j = Len(child)
    BY <1>1, <2>1, WholePath DEF Path
  <2>2. CASE j # Len(child)
    <3> DEFINE k == j - l + 1
    <3>1. k \in 2 .. n /\ k \in 1 .. n /\ l + k - 1 = j
      BY <1>1, <1>4, <2>2
    <3> HIDE DEF k
    <3>2. Along(stack[k].path, child) /\ Len(stack[k].path) = j
      BY <1>2, <3>1
    <3>3. stack[k].path \in Path
      <4>1. stack[k] \in Frames
        BY <1>1, <3>1 DEF n
      <4>2. QED
        BY <4>1 DEF Frames
    <3>4. stack[k].path = SubSeq(child, 1, j)
      BY <1>1, <3>2, <3>3, AlongIs DEF Path
    <3>5. Lstat(stack[k].path) \notin Link
      BY <3>1 DEF Unlinked, n
    <3>6. QED
      BY <3>4, <3>5
  <2>3. QED
    BY <2>1, <2>2
<1>5. Straight(from, child)
  <2>1. ASSUME NEW j \in l + 1 .. Len(child)
        PROVE  Entry(Stat(SubSeq(child, 1, j - 1)), child[j]) \notin Link
    <3>1. j \in 1 .. Len(child)
      BY <1>1, <2>1
    <3>2. LstatIn(entries, SubSeq(child, 1, j))
            = EntryIn(entries, StatIn(entries, SubSeq(child, 1, j - 1)), child[j])
      BY <1>1, <3>1, LstatBy DEF Path
    <3>3. Lstat(SubSeq(child, 1, j)) \notin Link
      BY <1>4, <2>1
    <3>4. QED
      BY <3>2, <3>3 DEF Entry, Stat, Lstat
  <2>2. QED
    BY <2>1 DEF Straight, l
<1>6. CoversIn(walk, from, child)
  BY ChildCovered DEF Covers, CoversIn
<1>7. QED
  BY <1>3, <1>5, <1>6 DEF Proper, Straight, Entry, Stat, from

LEMMA UndisturbedStep ==
  ASSUME Inv, OnTrail, Step, Undisturbed
  PROVE  Undisturbed'
<1>1. entries' = entries /\ bits' = bits
  BY StepLeavesTree DEF files
<1>2. walk' = walk
  BY Zenon DEF Step, Start, Done, ReadEntry, CloseDir, Look, Descend, GetXattr
<1>3. /\ findings \in Seq(Path) /\ stack \in Seq(Frames) /\ child \in Path
      /\ bits \cap Link = {} /\ Dir \cap Link = {} /\ File \cap Link = {}
  BY TreeAssumption DEF Inv, WalkTyped, TreeTyped, TreeAssumption
<1>4. \A k \in 2 .. Len(stack) : LstatIn(entries, stack[k].path) \notin Link
  BY DEF Undisturbed, Unlinked, Lstat
<1>5. ASSUME findings' = findings \/ (Report(child) /\ Proper(entries, bits, walk, child))
      PROVE  \A k \in 1 .. Len(findings') : Proper(entries', bits', walk', findings'[k])
  <2>1. \A k \in 1 .. Len(findings) : Proper(entries, bits, walk, findings[k])
    BY DEF Undisturbed
  <2>2. CASE findings' = findings
    BY <1>1, <1>2, <2>1, <2>2
  <2>3. CASE findings' = Append(findings, child) /\ Proper(entries, bits, walk, child)
    <3>1. /\ Len(findings') = Len(findings) + 1 /\ findings'[Len(findings) + 1] = child
          /\ \A k \in 1 .. Len(findings) : findings'[k] = findings[k]
          /\ Len(findings) \in Nat
      BY <1>3, <2>3
    <3>2. \A k \in 1 .. Len(findings') : k = Len(findings) + 1 \/ k \in 1 .. Len(findings)
      BY <3>1
    <3>3. QED
      BY <1>1, <1>2, <2>1, <2>3, <3>1, <3>2
  <2>4. QED
    BY <1>5, <2>2, <2>3 DEF Report
<1>6. ASSUME /\ \A k \in 2 .. Len(stack') : LstatIn(entries, stack'[k].path) \notin Link
             /\ pc' \in {"opendir", "getxattr"} => child' = child /\ Lstat(child) \notin Link
             /\ findings' = findings \/ (Report(child) /\ Proper(entries, bits, walk, child))
      PROVE  Undisturbed'
  BY <1>1, <1>5, <1>6 DEF Undisturbed, Unlinked, Lstat
<1>7. CASE Start
  <2>1. /\ pc = "start" /\ pc' \in {"read", "start"} /\ findings' = findings
        /\ stack' = stack \/ Len(stack') = 1
    BY <1>7 DEF Start
  <2>2. \A k \in 2 .. Len(stack') : LstatIn(entries, stack'[k].path) \notin Link
    <3>1. CASE stack' = stack
      BY <1>4, <3>1
    <3>2. CASE Len(stack') = 1
      <4>1. 2 .. Len(stack') = {}
        BY <3>2
      <4>2. QED
        BY <4>1
    <3>3. QED
      BY <2>1, <3>1, <3>2
  <2>3. QED
    BY <1>6, <2>1, <2>2
<1>8. CASE Done
  BY <1>4, <1>6, <1>8 DEF Done
<1>9. CASE ReadEntry
  <2> DEFINE f == Last(stack)
             m == Len(stack)
  <2>1. pc = "read" /\ pc' = "lstat" /\ findings' = findings
    BY <1>9, Zenon DEF ReadEntry
  <2>2. PICK n : stack' = Append(Front(stack), [f EXCEPT !.seen = @ \cup {n}])
    BY <1>9, Zenon DEF ReadEntry
  <2> DEFINE g == [f EXCEPT !.seen = @ \cup {n}]
  <2>3. stack # << >>
    BY <2>1 DEF Inv, Opened
  <2>4. /\ f \in Frames /\ Front(stack) \in Seq(Frames) /\ m \in Nat \ {0}
        /\ Len(Front(stack)) = m - 1 /\ stack[m] = f
        /\ \A k \in 1 .. m - 1 : Front(stack)[k] = stack[k]
    BY <1>3, <2>3, FrontOf DEF Last
  <2> HIDE DEF f
  <2>5. g.path = f.path
    BY <2>4 DEF Frames
  <2> DEFINE u == Front(stack)
  <2>6. stack' = Append(u, g)
    BY <2>2
  <2> HIDE DEF g, m, u
  <2>7. Len(stack') = m /\ stack'[m] = g /\ \A k \in 1 .. m - 1 : stack'[k] = stack[k]
    BY <2>4, <2>6 DEF u
  <2>8. \A k \in 2 .. m : k = m \/ k \in 1 .. m - 1
    BY <2>4
  <2>9. \A k \in 2 .. m : LstatIn(entries, stack'[k].path) \notin Link
    BY <1>4, <2>4, <2>5, <2>7, <2>8 DEF m
  <2>10. QED
    BY <1>6, <2>1, <2>7, <2>9
<1>10. CASE CloseDir
  <2>1. pc = "read" /\ pc' \in {"read", "start"} /\ findings' = findings /\ stack' = Front(stack)
    BY <1>10 DEF CloseDir
  <2>2. stack # << >>
    BY <2>1 DEF Inv, Opened
  <2>3. /\ Len(stack) \in Nat \ {0} /\ Len(stack') = Len(stack) - 1
        /\ \A k \in 1 .. Len(stack) - 1 : stack'[k] = stack[k]
    BY <1>3, <2>1, <2>2, FrontOf
  <2>4. \A k \in 2 .. Len(stack') : k \in 2 .. Len(stack) /\ k \in 1 .. Len(stack) - 1
    BY <2>3
  <2>5. QED
    BY <1>4, <1>6, <2>1, <2>3, <2>4
<1>11. CASE Look
  <2>1. /\ pc = "lstat" /\ stack' = stack /\ child' = child
        /\ pc' \in {"opendir", "getxattr"} => Lstat(child) \notin Link
        /\ findings' = findings \/ (Report(child) /\ Lstat(child) \in bits)
    BY <1>3, <1>11 DEF Look
  <2>2. ASSUME Lstat(child) \in bits PROVE Proper(entries, bits, walk, child)
    <3>1. Lstat(child) \notin Link /\ Stat(child) \in bits
      BY <1>3, <2>2, WholeUnlinked DEF Path
    <3>2. QED
      BY <2>1, <3>1, ChildProper DEF Undisturbed, Looking
  <2>3. QED
    BY <1>4, <1>6, <2>1, <2>2
<1>12. CASE Descend
  <2> DEFINE f == Frame(child, Stat(child))
             m == Len(stack)
  <2>1. /\ pc = "opendir" /\ pc' = "read" /\ findings' = findings
        /\ stack' = stack \/ (Opens(child) /\ stack' = Append(stack, f))
    BY <1>12 DEF Descend
  <2>2. CASE stack' = stack
    BY <1>4, <1>6, <2>1, <2>2
  <2>3. CASE Opens(child) /\ stack' = Append(stack, f)
    <3>1. f \in Frames /\ f.path = child
      BY <1>3, <2>3, FrameType DEF Inv
    <3> HIDE DEF f
    <3>2. /\ m \in Nat /\ Len(stack') = m + 1 /\ stack'[m + 1] = f
          /\ \A k \in 1 .. m : stack'[k] = stack[k]
      BY <1>3, <2>3, <3>1
    <3>3. \A k \in 2 .. m + 1 : k = m + 1 \/ (k \in 1 .. m /\ k \in 2 .. m)
      BY <3>2
    <3>4. LstatIn(entries, child) \notin Link
      BY <2>1 DEF Undisturbed, Lstat
    <3>5. \A k \in 2 .. m + 1 : LstatIn(entries, stack'[k].path) \notin Link
      BY <1>4, <3>1, <3>2, <3>3, <3>4
    <3>6. QED
      BY <1>6, <2>1, <3>2, <3>5
  <2>4. QED
    BY <2>1, <2>2, <2>3
<1>13. CASE GetXattr
  <2>1. /\ pc = "getxattr" /\ pc' = "read" /\ stack' = stack /\ child' = child
        /\ findings' = findings \/ (Report(child) /\ Stat(child) \in bits)
    BY <1>13 DEF GetXattr
  <2>2. ASSUME Stat(child) \in bits PROVE Proper(entries, bits, walk, child)
    <3>1. Lstat(child) \notin Link /\ Unlinked
      BY <2>1 DEF Undisturbed
    <3>2. QED
      BY <2>1, <2>2, <3>1, ChildProper DEF Looking
  <2>3. QED
    BY <1>4, <1>6, <2>1, <2>2
<1>14. QED
  BY <1>7, <1>8, <1>9, <1>10, <1>11, <1>12, <1>13, Zenon DEF Step

-----------------------------------------------------------------------------

(***************************************************************************)
(* The invariant behind the exactness of the reports.                      *)
(***************************************************************************)
Exactly ==
  /\ Inv /\ OnTrail
  /\ changes \in Nat /\ (changes = 0 => Undisturbed)
  /\ \A p \in Path : Steady(p) => Counted(p)

LEMMA ExactlyInit == Init => OnTrail /\ changes = 0 /\ Undisturbed /\ \A p \in Path : Counted(p)
<1> SUFFICES ASSUME Init
             PROVE  OnTrail /\ changes = 0 /\ Undisturbed /\ \A p \in Path : Counted(p)
  OBVIOUS
<1>1. /\ pc = "start" /\ start = 1 /\ stack = << >> /\ findings = << >> /\ changes = 0
  BY DEF Init, TreeInit
<1>2. OnTrail /\ Undisturbed
  BY <1>1 DEF OnTrail, Looking, Undisturbed, Unlinked
<1>3. ASSUME NEW p PROVE Counted(p)
  <2>1. Reports(p) = 0
    <3>1. {k \in 1 .. Len(findings) : findings[k] = p} = {}
      BY <1>1
    <3>2. QED
      BY <3>1, FS_EmptySet DEF Reports
  <2>2. Had(p) = 0
    <3>1. {i \in 1 .. start - 1 : CoversIn(walk, walk.starts[i], p)} = {}
      BY <1>1
    <3>2. QED
      BY <1>1, <3>1, FS_EmptySet DEF Had, Through, Past, Covering
  <2>3. OnWay(p)
    BY <1>1 DEF OnWay
  <2>4. QED
    BY <1>1, <2>1, <2>2, <2>3 DEF Counted, Ignored, Tallied
<1>4. QED
  BY <1>1, <1>2, <1>3

LEMMA ExactlyStep == Exactly /\ Inv' /\ [Next]_vars => Exactly'
<1> SUFFICES ASSUME Exactly, Inv', [Next]_vars PROVE Exactly'
  OBVIOUS
<1>1. CASE Step
  <2>1. entries' = entries /\ changes' = changes /\ moved' = moved /\ modified' = modified
    BY <1>1, StepLeavesTree DEF files
  <2>2. OnTrail'
    BY <1>1, TrailStep DEF Exactly
  <2>3. changes' \in Nat /\ (changes' = 0 => Undisturbed')
    BY <1>1, <2>1, UndisturbedStep DEF Exactly
  <2>4. ASSUME NEW p \in Path, Steady(p)' PROVE Counted(p)'
    <3>1. Steady(p)
      BY <2>1, <2>4 DEF Steady, Stat, Lstat
    <3>2. QED
      BY <1>1, <3>1, CountStep DEF Exactly
  <2>5. QED
    BY <2>2, <2>3, <2>4 DEF Exactly
<1>2. CASE Others
  <2>1. UNCHANGED <<walk, pc, start, stack, child, findings>> /\ changes' = changes + 1
    <3>1. Change(Name) /\ UNCHANGED walking
      BY <1>2, Zenon DEF Others
    <3>2. DOMAIN entries = Dir
      BY DEF Exactly, Inv, TreeTyped
    <3>3. QED
      BY <3>1, <3>2, ChangeLeaves DEF walking
  <2>2. OnTrail'
    BY <2>1 DEF Exactly, OnTrail, Looking, from
  <2>3. changes' \in Nat /\ changes' # 0
    BY <2>1 DEF Exactly
  <2>4. ASSUME NEW p \in Path, Steady(p)' PROVE Counted(p)'
    BY <1>2, <2>4, OthersCount DEF Exactly
  <2>5. QED
    BY <2>2, <2>3, <2>4 DEF Exactly
<1>3. CASE UNCHANGED vars
  <2>1. /\ UNCHANGED <<walk, pc, start, stack, child, findings>>
        /\ UNCHANGED <<entries, bits, changes, moved, modified>>
    BY <1>3 DEF vars, walking, files
  <2>2. OnTrail' /\ changes' \in Nat
    BY <2>1 DEF Exactly, OnTrail, Looking, from
  <2>3. changes' = 0 => Undisturbed'
    BY <2>1 DEF Exactly, Undisturbed, Unlinked, Lstat
  <2>4. ASSUME NEW p \in Path, Steady(p)' PROVE Counted(p)'
    <3>1. Counted(p)
      BY <2>1, <2>4 DEF Exactly, Steady, Stat, Lstat
    <3>2. /\ Reports(p)' = Reports(p) /\ (Full' <=> Full) /\ Had(p)' = Had(p)
      BY <2>1 DEF Reports, Full, Had, Past, Through, Ahead, from, Looking
    <3>3. (Ignored(p)' <=> Ignored(p)) /\ Lstat(p)' = Lstat(p)
      BY <2>1, <3>2 DEF Ignored, Lstat
    <3>4. OnWay(p)' <=> OnWay(p)
      BY <2>1 DEF OnWay
    <3>5. QED
      BY <2>1, <3>1, <3>2, <3>3, <3>4 DEF Counted, Tallied
  <2>5. QED
    BY <2>2, <2>3, <2>4 DEF Exactly
<1>4. QED
  BY <1>1, <1>2, <1>3, Zenon DEF Next

(* The paths of the files at the start are paths.                          *)
LEMMA FilePathsType == FilePaths \subseteq Path
<1>1. \A d \in Dir : DOMAIN Contents[d] \subseteq STRING
  BY ContentsAssumption DEF ContentsAssumption
<1>2. PathsOf(Contents) \subseteq Seq(STRING)
  BY <1>1, PathsType
<1>3. QED
  BY <1>2 DEF FilePaths, Path

LEMMA ExactlyEnough == Exactly => ExactWhereSteady
<1> SUFFICES ASSUME Exactly PROVE ExactWhereSteady
  OBVIOUS
<1>1. /\ start \in 1 .. Len(walk.starts) + 1 /\ Len(walk.starts) \in Nat
      /\ findings \in Seq(Path)
  BY WalkType DEF Exactly, Inv, WalkTyped
<1> DEFINE n == Len(walk.starts)
<1>2. ASSUME NEW p \in Path, Steady(p)
      PROVE  LET reports == Cardinality({k \in 1 .. Len(findings) : findings[k] = p})
                 due == IF Lstat(p) \in bits
                        THEN Cardinality({i \in 1 .. Len(walk.starts) : Covers(walk.starts[i], p)})
                        ELSE 0
             IN reports <= due /\ (pc = "done" /\ ~ Full => reports = due)
  <2>1. Counted(p)
    BY <1>2 DEF Exactly
  <2>2. Cardinality({i \in 1 .. n : Covers(walk.starts[i], p)}) = Covering(walk, n, p)
    BY DEF Covers, CoversIn, Covering
  <2>3. CASE Lstat(p) \notin bits
    <3>1. Reports(p) = 0
      BY <2>1, <2>3 DEF Counted, Ignored
    <3>2. QED
      BY <2>3, <3>1 DEF Reports
  <2>4. CASE Lstat(p) \in bits
    <3>1. Reports(p) <= Had(p) /\ (~ Full => Reports(p) = Had(p)) /\ Reports(p) \in Nat
      BY <1>1, <2>1, <2>4, ReportsType DEF Counted, Tallied
    <3>2. Had(p) <= Covering(walk, n, p) /\ Had(p) \in Nat /\ Covering(walk, n, p) \in Nat
          /\ (pc = "done" => Had(p) = Covering(walk, n, p))
      <4> DEFINE m == start - 1
      <4>1. m \in 0 .. n /\ m \in Nat /\ n \in Nat /\ m + 1 = start
        BY <1>1
      <4>2. Past(p) = Covering(walk, m, p)
        BY DEF Past
      <4>3. /\ Covering(walk, m, p) \in Nat /\ Covering(walk, n, p) \in Nat
            /\ Covering(walk, m, p) <= Covering(walk, n, p)
        BY <4>1, CoveringLess
      <4>4. CASE stack = << >>
        <5>1. Had(p) = Past(p)
          BY <4>2, <4>3, <4>4 DEF Had, Through
        <5>2. pc = "done" => m = n
          <6>1. pc = "done" => start > n
            BY DEF Exactly, OnTrail
          <6>2. QED
            BY <1>1, <4>1, <6>1
        <5> HIDE DEF m, n
        <5>3. QED
          BY <4>2, <4>3, <5>1, <5>2
      <4>5. CASE stack # << >>
        <5>1. start \in 1 .. n /\ pc # "done"
          BY <4>5, FromType DEF Exactly, Inv, Opened
        <5>2. from = walk.starts[m + 1]
          BY <4>1 DEF from
        <5>3. m + 1 \in 0 .. n /\ m + 1 \in Nat
          BY <4>1, <5>1
        <5> HIDE DEF m, n
        <5>4. Covering(walk, m + 1, p)
                = Covering(walk, m, p) + (IF CoversIn(walk, from, p) THEN 1 ELSE 0)
          BY <4>1, <5>2, CoveringMore
        <5>5. Covering(walk, m + 1, p) <= Covering(walk, n, p)
          BY <4>1, <5>3, CoveringLess
        <5>6. Had(p) = Past(p) + (IF Through(p) THEN 1 ELSE 0)
          BY DEF Had
        <5>7. Through(p) => CoversIn(walk, from, p)
          BY DEF Through
        <5>8. QED
          BY <4>2, <4>3, <5>1, <5>4, <5>5, <5>6, <5>7
      <4>6. QED
        BY <4>4, <4>5
    <3> HIDE DEF n
    <3>3. Reports(p) <= Covering(walk, n, p)
          /\ (pc = "done" /\ ~ Full => Reports(p) = Covering(walk, n, p))
      BY <3>1, <3>2
    <3>4. QED
      BY <2>2, <2>4, <3>3 DEF Reports, n
  <2>5. QED
    BY <2>3, <2>4
<1>3. ASSUME changes = 0, NEW k \in 1 .. Len(findings)
      PROVE  /\ Stat(findings[k]) \in bits
             /\ \E i \in 1 .. Len(walk.starts) :
                  Covers(walk.starts[i], findings[k]) /\ Straight(walk.starts[i], findings[k])
  <2>1. Proper(entries, bits, walk, findings[k])
    BY <1>3 DEF Exactly, Undisturbed
  <2>2. QED
    BY <2>1 DEF Proper, Covers, CoversIn, Straight, Entry, Stat
<1>4. QED
  BY <1>2, <1>3, FilePathsType DEF ExactWhereSteady

(***************************************************************************)
(* Whatever others do to the tree, scan_dir and scan_dir_caps report each  *)
(* interesting file they leave alone once for each start that covers it,   *)
(* short of the cap on findings, and no other such file; and in a tree     *)
(* that nobody changes they follow no link below a start.                  *)
(***************************************************************************)
THEOREM ReportsExact == Spec => []ExactWhereSteady
<1>1. IInv => Inv
  BY StackParts DEF IInv, Inv
<1>2. Init /\ IInv => Exactly
  BY <1>1, ExactlyInit DEF Exactly
<1>3. Exactly /\ IInv' /\ [Next]_vars => Exactly'
  <2>1. (IInv => Inv)'
    BY <1>1, PTL
  <2>2. QED
    BY <2>1, ExactlyStep
<1>4. Spec => []Exactly
  BY <1>2, <1>3, Invariant, PTL DEF Spec
<1>5. QED
  BY <1>4, ExactlyEnough, PTL
=============================================================================
