------------------------------ MODULE FileTree ------------------------------
(***************************************************************************)
(* The file system as the probes see it, and as other processes change it  *)
(* meanwhile.                                                              *)
(*                                                                         *)
(* A file is named by its path, and every call resolves that path anew.    *)
(* A symbolic link anywhere but at the end of a path is followed by every  *)
(* call; at the end, by stat, opendir, fopen and getxattr but not by       *)
(* lstat.                                                                  *)
(***************************************************************************)
EXTENDS Integers, SequencesExt, FiniteSetsExt

CONSTANTS
  Dir, File, Link,  \* the inodes, by type
  Top,              \* the directory "/"
  Target,           \* what each link points to
  Unreadable,       \* the directories and files that cannot be opened
  MaxChanges        \* bound: changes others make

Nothing == "nothing"
Inode == Dir \cup File \cup Link

ASSUME TreeAssumption ==
  /\ IsFiniteSet(Dir)
  /\ Dir \cap File = {} /\ Dir \cap Link = {} /\ File \cap Link = {}
  /\ Nothing \notin Inode
  /\ Top \in Dir /\ Unreadable \subseteq Dir \cup File
  /\ Target \in [Link -> Dir \cup File]
  /\ MaxChanges \in Nat

VARIABLES
  entries,   \* the entries of each directory now, by name
  bits,      \* the files that have now the mode bits, or the attribute,
             \* a probe is after
  changes,   \* how many changes others have made
  moved,     \* history: the entries that were ever changed
  modified   \* history: the files that were ever changed

files == <<entries, bits, changes, moved, modified>>

(* A file system nobody has changed yet.                                   *)
TreeInit(tree, marked) ==
  /\ entries = tree /\ bits = marked
  /\ changes = 0 /\ moved = {} /\ modified = {}

-----------------------------------------------------------------------------

Names(d) == DOMAIN entries[d]

EntryIn(tree, d, n) ==
  IF d \in Dir /\ n \in DOMAIN tree[d] THEN tree[d][n] ELSE Nothing

Entry(d, n) == EntryIn(entries, d, n)

Follow(i) == IF i \in Link THEN Target[i] ELSE i

(* A path as stat, opendir, fopen and getxattr resolve it.                 *)
StatIn(tree, path) ==
  LET at[n \in 0 .. Len(path)] ==
        IF n = 0 THEN Top ELSE Follow(EntryIn(tree, at[n - 1], path[n]))
  IN at[Len(path)]

(* Calling stat where the code calls lstat.                                *)
LstatFollows(tree, path) == StatIn(tree, path)

(* A path as lstat resolves it: a link at the end is left alone.           *)
LstatIn(tree, path) ==
  IF path = << >> THEN Top ELSE EntryIn(tree, StatIn(tree, Front(path)), Last(path))

Stat(path)  == StatIn(entries, path)
Lstat(path) == LstatIn(entries, path)

Opens(path) == Stat(path) \in Dir \ Unreadable

-----------------------------------------------------------------------------

(* What other processes do.                                                *)
Changing ==
  /\ changes < MaxChanges
  /\ changes' = changes + 1

(* The directories at or below d.                                          *)
Below(d) ==
  LET below[n \in 0 .. Cardinality(Dir)] ==
        IF n = 0 THEN {d}
        ELSE LET above == below[n - 1]
             IN above \cup {x \in Dir : \E e \in above : x \in Range(entries[e])}
  IN below[Cardinality(Dir)]

(* The directories that have a path.                                       *)
Reached == Dir \cap Below(Top)

Chmod ==
  /\ Changing
  /\ \E f \in {i \in File : \E d \in Reached : i \in Range(entries[d])} :
       /\ bits' = SymDiff(bits, {f})
       /\ modified' = modified \cup {f}
  /\ UNCHANGED <<entries, moved>>

Without(t, d, n) == [t EXCEPT ![d] = [m \in DOMAIN t[d] \ {n} |-> t[d][m]]]
With(t, d, n, i) ==
  [t EXCEPT ![d] = [m \in DOMAIN t[d] \cup {n} |-> IF m = n THEN i ELSE t[d][m]]]

Unlink ==
  /\ Changing
  /\ \E d \in Reached : \E n \in Names(d) :
       /\ Entry(d, n) \in Dir => Names(Entry(d, n)) = {}
       /\ entries' = Without(entries, d, n)
       /\ moved' = moved \cup {<<d, n>>}
  /\ UNCHANGED <<bits, modified>>

(* A link where there was nothing, or in place of what was moved away.     *)
Symlink(names) ==
  /\ Changing
  /\ \E d \in Reached, n \in names, l \in Link :
       /\ entries' = With(entries, d, n, l)
       /\ moved' = moved \cup {<<d, n>>}
  /\ UNCHANGED <<bits, modified>>

(* rename, to a name that is free.                                         *)
Rename(names) ==
  /\ Changing
  /\ \E d, e \in Reached : \E n \in Names(d), m \in names \ Names(e) :
       /\ Entry(d, n) \in Dir => e \notin Below(Entry(d, n))
       /\ entries' = With(Without(entries, d, n), e, m, Entry(d, n))
       /\ moved' = moved \cup {<<d, n>>, <<e, m>>}
  /\ UNCHANGED <<bits, modified>>

Change(names) == Chmod \/ Unlink \/ Symlink(names) \/ Rename(names)

-----------------------------------------------------------------------------

(* Nothing has happened to what a path names, nor to an entry on the way,  *)
(* and every directory on the way can be read.                             *)
Steady(p) ==
  /\ \A k \in 1 .. Len(p) : <<Stat(SubSeq(p, 1, k - 1)), p[k]>> \notin moved
  /\ \A k \in 0 .. Len(p) - 1 : Lstat(SubSeq(p, 1, k)) \in Dir \ Unreadable
  /\ Lstat(p) \notin modified

(* The paths of a tree, links not followed; a directory is nowhere below   *)
(* itself.                                                                 *)
PathsOf(tree) ==
  LET at[n \in 0 .. Cardinality(Dir)] ==
        IF n = 0 THEN {<< << >>, Top >>}
        ELSE UNION {{<<Append(x[1], m), tree[x[2]][m]>> : m \in DOMAIN tree[x[2]]} :
                      x \in {y \in at[n - 1] : y[2] \in Dir}}
  IN {x[1] : x \in UNION Range(at)}
=============================================================================
