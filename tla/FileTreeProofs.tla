--------------------------- MODULE FileTreeProofs ---------------------------
(***************************************************************************)
(* How paths are resolved in a tree, and what others' changes leave as it  *)
(* was: the facts about FileTree that the proofs of the walk and of the    *)
(* probes rest on.                                                         *)
(***************************************************************************)
EXTENDS FileTree, Arithmetic, SequenceTheorems, FiniteSetTheorems, TLAPS

(* A beginning of a path.                                                  *)
LEMMA Beginning ==
  ASSUME NEW S, NEW p \in Seq(S), NEW k \in 0 .. Len(p)
  PROVE  /\ SubSeq(p, 1, k) \in Seq(S)
         /\ Len(SubSeq(p, 1, k)) = k
         /\ \A i \in 1 .. k : SubSeq(p, 1, k)[i] = p[i]
<1>1. k \in Nat /\ Len(p) \in Nat
  OBVIOUS
<1>2. \A i \in 1 .. k : p[i] \in S
  BY <1>1
<1>3. /\ SubSeq(p, 1, k) \in Seq(S)
      /\ Len(SubSeq(p, 1, k)) = IF 1 <= k THEN k - 1 + 1 ELSE 0
      /\ \A i \in 1 .. k - 1 + 1 : SubSeq(p, 1, k)[i] = p[1 + i - 1]
  BY <1>1, <1>2, SubSeqProperties
<1>4. Len(SubSeq(p, 1, k)) = k
  BY <1>1, <1>3
<1>5. \A i \in 1 .. k : i \in 1 .. k - 1 + 1 /\ 1 + i - 1 = i
  BY <1>1
<1>6. QED
  BY <1>3, <1>4, <1>5

(* A path is the longest of its beginnings.                                *)
LEMMA WholePath == ASSUME NEW S, NEW p \in Seq(S) PROVE SubSeq(p, 1, Len(p)) = p
<1>1. Len(p) \in 0 .. Len(p)
  OBVIOUS
<1>2. /\ SubSeq(p, 1, Len(p)) \in Seq(S) /\ Len(SubSeq(p, 1, Len(p))) = Len(p)
      /\ \A i \in 1 .. Len(p) : SubSeq(p, 1, Len(p))[i] = p[i]
  BY <1>1, Beginning
<1>3. QED
  BY <1>2, SeqEqual

LEMMA Beginnings ==
  ASSUME NEW S, NEW p \in Seq(S), NEW k \in 1 .. Len(p)
  PROVE  /\ SubSeq(p, 1, k) # << >>
         /\ Front(SubSeq(p, 1, k)) = SubSeq(p, 1, k - 1)
         /\ Last(SubSeq(p, 1, k)) = p[k]
         /\ SubSeq(p, 1, Len(p)) = p
<1> DEFINE q == SubSeq(p, 1, k)
           r == SubSeq(p, 1, k - 1)
<1>1. k \in 0 .. Len(p) /\ k - 1 \in 0 .. Len(p) /\ Len(p) \in 0 .. Len(p) /\ k \in Nat
  OBVIOUS
<1>2. /\ q \in Seq(S) /\ Len(q) = k /\ \A i \in 1 .. k : q[i] = p[i]
      /\ r \in Seq(S) /\ Len(r) = k - 1 /\ \A i \in 1 .. k - 1 : r[i] = p[i]
  BY <1>1, Beginning
<1>3. SubSeq(p, 1, Len(p)) = p
  BY WholePath
<1> HIDE DEF q, r
<1>4. q # << >> /\ Last(q) = p[k]
  BY <1>2 DEF Last
<1>5. Front(q) = r
  <2>1. k - 1 \in 0 .. Len(q)
    BY <1>2
  <2>2. /\ SubSeq(q, 1, k - 1) \in Seq(S) /\ Len(SubSeq(q, 1, k - 1)) = k - 1
        /\ \A i \in 1 .. k - 1 : SubSeq(q, 1, k - 1)[i] = q[i]
    BY <1>2, <2>1, Beginning
  <2>3. \A i \in 1 .. k - 1 : SubSeq(q, 1, k - 1)[i] = r[i]
    BY <1>2, <2>2
  <2>4. SubSeq(q, 1, k - 1) = r
    BY <1>2, <2>2, <2>3, SeqEqual
  <2>5. QED
    BY <1>2, <2>4 DEF Front
<1>6. QED
  BY <1>3, <1>4, <1>5 DEF q, r

-----------------------------------------------------------------------------

(* w holds what the beginnings of a path lead to.                          *)
Leads(w, tree, p) ==
  w = [n \in 0 .. Len(p) |-> IF n = 0 THEN Top ELSE Follow(EntryIn(tree, w[n - 1], p[n]))]

LEMMA LeadsExists ==
  ASSUME NEW tree, NEW S, NEW p \in Seq(S)
  PROVE  \E w : Leads(w, tree, p)
<1> DEFINE V == {Top, Nothing} \cup Range(Target) \cup UNION {Range(tree[d]) : d \in Dir}
           step == [n \in 1 .. Len(p) |-> [x \in V |-> Follow(EntryIn(tree, x, p[n]))]]
<1>1. ASSUME NEW x, NEW n PROVE Follow(EntryIn(tree, x, n)) \in V
  <2>1. EntryIn(tree, x, n) \in V
    BY DEF EntryIn, Range
  <2>2. Follow(EntryIn(tree, x, n)) = EntryIn(tree, x, n) \/ Follow(EntryIn(tree, x, n)) \in Range(Target)
    BY TreeAssumption DEF Follow, Range, TreeAssumption
  <2>3. QED
    BY <2>1, <2>2
<1>2. Top \in V /\ Len(p) \in Nat
  OBVIOUS
<1> HIDE DEF V
<1>3. step \in [1 .. Len(p) -> [V -> V]]
  BY <1>1
<1> DEFINE last == Len(p)
<1>4. \A n \in 1 .. Len(p) : \A x \in V : step[n][x] = Follow(EntryIn(tree, x, p[n]))
  OBVIOUS
<1> HIDE DEF step
<1>5. PICK f \in [0 .. Len(p) -> V] :
        f[0] = Top /\ \A i \in 1 .. Len(p) : f[i] = step[i][f[i - 1]]
  <2>1. last \in Nat /\ step \in [1 .. last -> [V -> V]] /\ Top \in V
    BY <1>2, <1>3
  <2> HIDE DEF last
  <2>2. \E f \in [0 .. last -> V] :
          f[0] = Top /\ \A i \in 1 .. last : f[i] = step[i][f[i - 1]]
    BY <2>1, RecursionExists
  <2>3. QED
    BY <2>2 DEF last
<1>6. \A i \in 0 .. Len(p) :
        f[i] = IF i = 0 THEN Top ELSE Follow(EntryIn(tree, f[i - 1], p[i]))
  <2>1. ASSUME NEW i \in 0 .. Len(p), i # 0 PROVE f[i] = Follow(EntryIn(tree, f[i - 1], p[i]))
    <3>1. i \in 1 .. Len(p) /\ i - 1 \in 0 .. Len(p)
      BY <1>2, <2>1
    <3>2. f[i] = step[i][f[i - 1]]
      BY <1>5, <3>1
    <3>3. f[i - 1] \in V
      BY <3>1
    <3>4. QED
      BY <1>4, <3>1, <3>2, <3>3
  <2>2. f[0] = Top
    BY <1>5
  <2>3. QED
    BY <2>1, <2>2
<1>7. Leads(f, tree, p)
  BY <1>6 DEF Leads
<1>8. QED
  BY <1>7

LEMMA LeadsAlike ==
  ASSUME NEW tree, NEW S, NEW p \in Seq(S), NEW k \in 0 .. Len(p),
         NEW w, NEW u, Leads(w, tree, p), Leads(u, tree, SubSeq(p, 1, k))
  PROVE  w[k] = u[k]
<1> DEFINE q == SubSeq(p, 1, k)
           n == Len(p)
<1>1. n \in Nat /\ Len(q) = k /\ \A i \in 1 .. k : q[i] = p[i]
  BY Beginning
<1> HIDE DEF q
<1>2. w[0] = Top /\ u[0] = Top
  <2>1. 0 \in 0 .. n /\ 0 \in 0 .. k
    BY <1>1
  <2>2. QED
    BY <1>1, <2>1 DEF Leads, q
<1>3. ASSUME NEW i \in 0 .. k - 1, w[i] = u[i] PROVE w[i + 1] = u[i + 1]
  <2>1. /\ i + 1 \in 0 .. n /\ i + 1 \in 0 .. k /\ i + 1 \in 1 .. k
        /\ i + 1 # 0 /\ i + 1 - 1 = i
    BY <1>1
  <2>2. w[i + 1] = Follow(EntryIn(tree, w[i], p[i + 1]))
    BY <1>1, <2>1 DEF Leads
  <2>3. u[i + 1] = Follow(EntryIn(tree, u[i], q[i + 1]))
    BY <1>1, <2>1 DEF Leads, q
  <2>4. QED
    BY <1>1, <1>3, <2>1, <2>2, <2>3
<1>4. \A i \in 0 .. k : w[i] = u[i]
  <2>1. GoAlike(w, u, k)
    BY <1>2, <1>3 DEF GoAlike
  <2>2. k \in Nat
    OBVIOUS
  <2>3. QED
    BY <2>1, <2>2, SameFrom
<1>5. QED
  BY <1>4

(***************************************************************************)
(* Every beginning of a path leads where the one before it led, one entry  *)
(* further.                                                                *)
(***************************************************************************)
LEMMA StatBy ==
  ASSUME NEW tree, NEW S, NEW p \in Seq(S)
  PROVE  /\ StatIn(tree, SubSeq(p, 1, 0)) = Top
         /\ \A k \in 1 .. Len(p) :
              StatIn(tree, SubSeq(p, 1, k)) = Follow(EntryIn(tree, StatIn(tree, SubSeq(p, 1, k - 1)), p[k]))
<1>1. PICK w : Leads(w, tree, p)
  BY LeadsExists
<1>2. /\ w[0] = Top
      /\ \A i \in 1 .. Len(p) : w[i] = Follow(EntryIn(tree, w[i - 1], p[i]))
  <2>1. 0 \in 0 .. Len(p) /\ \A i \in 1 .. Len(p) : i \in 0 .. Len(p) /\ i # 0
    OBVIOUS
  <2>2. QED
    BY <1>1, <2>1 DEF Leads
<1>3. ASSUME NEW k \in 0 .. Len(p) PROVE StatIn(tree, SubSeq(p, 1, k)) = w[k]
  <2> DEFINE q == SubSeq(p, 1, k)
             u == CHOOSE at : Leads(at, tree, q)
  <2>1. q \in Seq(S) /\ Len(q) = k /\ \A i \in 1 .. k : q[i] = p[i]
    BY Beginning
  <2> HIDE DEF q
  <2>2. \E at : Leads(at, tree, q)
    BY <2>1, LeadsExists
  <2>3. Leads(u, tree, q)
    BY <2>2
  <2>4. StatIn(tree, q) = u[Len(q)]
    BY DEF StatIn, Leads
  <2> HIDE DEF u
  <2>5. w[k] = u[k]
    BY <1>1, <2>3, LeadsAlike DEF q
  <2>6. QED
    BY <2>1, <2>4, <2>5 DEF q
<1>4. ASSUME NEW k \in 1 .. Len(p) PROVE k \in 0 .. Len(p) /\ k - 1 \in 0 .. Len(p)
  OBVIOUS
<1>5. 0 \in 0 .. Len(p)
  OBVIOUS
<1>6. QED
  BY <1>2, <1>3, <1>4, <1>5

LEMMA LstatBy ==
  ASSUME NEW tree, NEW S, NEW p \in Seq(S)
  PROVE  /\ LstatIn(tree, SubSeq(p, 1, 0)) = Top
         /\ \A k \in 1 .. Len(p) :
              LstatIn(tree, SubSeq(p, 1, k)) = EntryIn(tree, StatIn(tree, SubSeq(p, 1, k - 1)), p[k])
<1>1. SubSeq(p, 1, 0) = << >>
  <2>1. 0 \in 0 .. Len(p)
    OBVIOUS
  <2>2. SubSeq(p, 1, 0) \in Seq(S) /\ Len(SubSeq(p, 1, 0)) = 0
    BY <2>1, Beginning
  <2>3. QED
    BY <2>2
<1>2. ASSUME NEW k \in 1 .. Len(p)
      PROVE  LstatIn(tree, SubSeq(p, 1, k)) = EntryIn(tree, StatIn(tree, SubSeq(p, 1, k - 1)), p[k])
  <2>1. /\ SubSeq(p, 1, k) # << >>
        /\ Front(SubSeq(p, 1, k)) = SubSeq(p, 1, k - 1)
        /\ Last(SubSeq(p, 1, k)) = p[k]
    BY Beginnings
  <2>2. QED
    BY <2>1, Zenon DEF LstatIn
<1>3. QED
  BY <1>1, <1>2 DEF LstatIn

(* What lstat finds at the end of a directory path, stat finds too.        *)
LEMMA StatOfUnlinked ==
  ASSUME NEW tree, NEW S, NEW p \in Seq(S), NEW k \in 0 .. Len(p),
         LstatIn(tree, SubSeq(p, 1, k)) \notin Link
  PROVE  StatIn(tree, SubSeq(p, 1, k)) = LstatIn(tree, SubSeq(p, 1, k))
<1>1. CASE k = 0
  BY <1>1, StatBy, LstatBy
<1>2. CASE k # 0
  <2>1. k \in 1 .. Len(p)
    BY <1>2
  <2>2. StatIn(tree, SubSeq(p, 1, k)) = Follow(EntryIn(tree, StatIn(tree, SubSeq(p, 1, k - 1)), p[k]))
    BY <2>1, StatBy
  <2>3. LstatIn(tree, SubSeq(p, 1, k)) = EntryIn(tree, StatIn(tree, SubSeq(p, 1, k - 1)), p[k])
    BY <2>1, LstatBy
  <2>4. QED
    BY <2>2, <2>3 DEF Follow
<1>3. QED
  BY <1>1, <1>2

LEMMA WholeUnlinked ==
  ASSUME NEW S, NEW p \in Seq(S), Lstat(p) \notin Link
  PROVE  Stat(p) = Lstat(p)
<1>1. SubSeq(p, 1, Len(p)) = p /\ Len(p) \in 0 .. Len(p)
  BY WholePath
<1> DEFINE k == Len(p)
<1> HIDE DEF k
<1>2. LstatIn(entries, SubSeq(p, 1, k)) \notin Link /\ k \in 0 .. Len(p)
  BY <1>1 DEF k, Lstat
<1>3. StatIn(entries, SubSeq(p, 1, k)) = LstatIn(entries, SubSeq(p, 1, k))
  BY <1>2, StatOfUnlinked
<1>4. QED
  BY <1>1, <1>3 DEF k, Lstat, Stat

(***************************************************************************)
(* On the way to a steady path every directory can be opened, and holds    *)
(* the next name.                                                          *)
(***************************************************************************)
LEMMA SteadyWay ==
  ASSUME NEW S, NEW p \in Seq(S), Steady(p), NEW k \in 0 .. Len(p) - 1
  PROVE  /\ Lstat(SubSeq(p, 1, k)) \in Dir
         /\ Stat(SubSeq(p, 1, k)) = Lstat(SubSeq(p, 1, k))
         /\ Opens(SubSeq(p, 1, k))
         /\ Lstat(p) \in Inode => p[k + 1] \in Names(Stat(SubSeq(p, 1, k)))
<1> DEFINE q == SubSeq(p, 1, k)
<1>1. Lstat(q) \in Dir \ Unreadable
  BY DEF Steady
<1>2. k \in 0 .. Len(p) /\ k + 1 \in 1 .. Len(p) /\ k + 1 - 1 = k
  OBVIOUS
<1>3. Stat(q) = Lstat(q)
  <2>1. Lstat(q) \notin Link
    BY <1>1, TreeAssumption DEF TreeAssumption
  <2>2. QED
    BY <1>2, <2>1, StatOfUnlinked DEF Stat, Lstat
<1>4. ASSUME Lstat(p) \in Inode PROVE p[k + 1] \in Names(Stat(q))
  <2>1. Lstat(SubSeq(p, 1, k + 1)) \in Inode
    <3>1. CASE k + 1 = Len(p)
      BY <1>2, <1>4, <3>1, Beginnings
    <3>2. CASE k + 1 # Len(p)
      <4>1. k + 1 \in 0 .. Len(p) - 1
        BY <3>2
      <4>2. QED
        BY <4>1 DEF Steady, Inode
    <3>3. QED
      BY <3>1, <3>2
  <2> DEFINE m == k + 1
  <2> HIDE DEF m
  <2>2. LstatIn(entries, SubSeq(p, 1, m)) = EntryIn(entries, StatIn(entries, SubSeq(p, 1, m - 1)), p[m])
    BY <1>2, LstatBy DEF m
  <2>3. EntryIn(entries, Stat(q), p[k + 1]) \in Inode
    BY <1>2, <2>1, <2>2 DEF m, Lstat, Stat
  <2>4. QED
    BY <2>3, TreeAssumption DEF TreeAssumption, EntryIn, Names
<1>5. QED
  BY <1>1, <1>3, <1>4 DEF Opens

-----------------------------------------------------------------------------

(***************************************************************************)
(* What is not on record as changed is as it was.                          *)
(***************************************************************************)
Leaves ==
  /\ moved \subseteq moved' /\ modified \subseteq modified'
  /\ \A d, n : <<d, n>> \notin moved' => EntryIn(entries', d, n) = EntryIn(entries, d, n)
  /\ \A f : f \notin modified' => (f \in bits' <=> f \in bits)

LEMMA WithoutLeaves ==
  ASSUME NEW t, DOMAIN t = Dir, NEW d \in Dir, NEW n, NEW e, NEW m, <<e, m>> # <<d, n>>
  PROVE  EntryIn(Without(t, d, n), e, m) = EntryIn(t, e, m)
<1> DEFINE f == [x \in DOMAIN t[d] \ {n} |-> t[d][x]]
<1>1. Without(t, d, n) = [t EXCEPT ![d] = f]
  BY DEF Without
<1>2. /\ DOMAIN f = DOMAIN t[d] \ {n}
      /\ \A x \in DOMAIN f : f[x] = t[d][x]
  OBVIOUS
<1> HIDE DEF f
<1>3. e # d \/ m # n
  OBVIOUS
<1>4. QED
  BY <1>1, <1>2, <1>3 DEF EntryIn

LEMMA WithLeaves ==
  ASSUME NEW t, DOMAIN t = Dir, NEW d \in Dir, NEW n, NEW i, NEW e, NEW m, <<e, m>> # <<d, n>>
  PROVE  EntryIn(With(t, d, n, i), e, m) = EntryIn(t, e, m)
<1> DEFINE f == [x \in DOMAIN t[d] \cup {n} |-> IF x = n THEN i ELSE t[d][x]]
<1>1. With(t, d, n, i) = [t EXCEPT ![d] = f]
  BY DEF With
<1>2. /\ DOMAIN f = DOMAIN t[d] \cup {n}
      /\ \A x \in DOMAIN f : x # n => f[x] = t[d][x]
  OBVIOUS
<1> HIDE DEF f
<1>3. e # d \/ m # n
  OBVIOUS
<1>4. QED
  BY <1>1, <1>2, <1>3 DEF EntryIn

LEMMA ChangeLeaves ==
  ASSUME NEW STATE names, DOMAIN entries = Dir, Change(names)
  PROVE  Leaves /\ changes' = changes + 1
<1>1. changes' = changes + 1
  BY Zenon DEF Change, Chmod, Unlink, Symlink, Rename, Changing
<1>2. Reached \subseteq Dir
  BY DEF Reached
<1>3. CASE Chmod
  <2>1. PICK f : bits' = SymDiff(bits, {f}) /\ modified' = modified \cup {f}
    BY <1>3, Zenon DEF Chmod
  <2>2. entries' = entries /\ moved' = moved
    BY <1>3, Zenon DEF Chmod
  <2>3. QED
    BY <1>1, <2>1, <2>2 DEF Leaves, SymDiff
<1>4. CASE Unlink
  <2>1. bits' = bits /\ modified' = modified
    BY <1>4, Zenon DEF Unlink
  <2>2. PICK d \in Reached : \E n : entries' = Without(entries, d, n) /\ moved' = moved \cup {<<d, n>>}
    BY <1>4, Zenon DEF Unlink
  <2>3. PICK n : entries' = Without(entries, d, n) /\ moved' = moved \cup {<<d, n>>}
    BY <2>2
  <2>4. ASSUME NEW e, NEW m, <<e, m>> \notin moved'
        PROVE  EntryIn(entries', e, m) = EntryIn(entries, e, m)
    BY <1>2, <2>3, <2>4, WithoutLeaves
  <2>5. QED
    BY <1>1, <2>1, <2>3, <2>4 DEF Leaves
<1>5. CASE Symlink(names)
  <2>1. bits' = bits /\ modified' = modified
    BY <1>5, Zenon DEF Symlink
  <2>2. PICK d \in Reached, n \in names, l \in Link :
          entries' = With(entries, d, n, l) /\ moved' = moved \cup {<<d, n>>}
    BY <1>5, Zenon DEF Symlink
  <2>3. ASSUME NEW e, NEW m, <<e, m>> \notin moved'
        PROVE  EntryIn(entries', e, m) = EntryIn(entries, e, m)
    BY <1>2, <2>2, <2>3, WithLeaves
  <2>4. QED
    BY <1>1, <2>1, <2>2, <2>3 DEF Leaves
<1>6. CASE Rename(names)
  <2>1. bits' = bits /\ modified' = modified
    BY <1>6, Zenon DEF Rename
  <2>2. PICK d \in Reached, b \in Reached : \E n, m :
          /\ entries' = With(Without(entries, d, n), b, m, Entry(d, n))
          /\ moved' = moved \cup {<<d, n>>, <<b, m>>}
    BY <1>6, Zenon DEF Rename
  <2>3. PICK n, m :
          /\ entries' = With(Without(entries, d, n), b, m, Entry(d, n))
          /\ moved' = moved \cup {<<d, n>>, <<b, m>>}
    BY <2>2
  <2>4. DOMAIN Without(entries, d, n) = Dir
    BY DEF Without
  <2>5. ASSUME NEW e, NEW x, <<e, x>> \notin moved'
        PROVE  EntryIn(entries', e, x) = EntryIn(entries, e, x)
    <3>1. <<e, x>> # <<d, n>> /\ <<e, x>> # <<b, m>>
      BY <2>3, <2>5
    <3>2. EntryIn(Without(entries, d, n), e, x) = EntryIn(entries, e, x)
      BY <1>2, <3>1, WithoutLeaves
    <3>3. EntryIn(entries', e, x) = EntryIn(Without(entries, d, n), e, x)
      BY <1>2, <2>3, <2>4, <3>1, WithLeaves
    <3>4. QED
      BY <3>2, <3>3
  <2>6. QED
    BY <1>1, <2>1, <2>3, <2>5 DEF Leaves
<1>7. QED
  BY <1>3, <1>4, <1>5, <1>6, Zenon DEF Change

(***************************************************************************)
(* A path that is steady after others' changes was steady before them, and *)
(* leads to the same file.                                                 *)
(***************************************************************************)
LEMMA SteadyBack ==
  ASSUME NEW S, NEW p \in Seq(S), Leaves, Steady(p)'
  PROVE  /\ Steady(p)
         /\ \A k \in 0 .. Len(p) : /\ Stat(SubSeq(p, 1, k))' = Stat(SubSeq(p, 1, k))
                                  /\ Lstat(SubSeq(p, 1, k))' = Lstat(SubSeq(p, 1, k))
         /\ Lstat(p)' = Lstat(p) /\ Stat(p)' = Stat(p)
         /\ (Lstat(p) \in bits)' <=> Lstat(p) \in bits
<1> DEFINE old == [k \in 0 .. Len(p) |-> StatIn(entries, SubSeq(p, 1, k))]
           new == [k \in 0 .. Len(p) |-> StatIn(entries', SubSeq(p, 1, k))]
<1>1. Len(p) \in Nat
  OBVIOUS
<1>2. \A k \in 1 .. Len(p) : <<new[k - 1], p[k]>> \notin moved'
  <2>1. \A k \in 1 .. Len(p) : k - 1 \in 0 .. Len(p)
    OBVIOUS
  <2>2. \A k \in 1 .. Len(p) : <<StatIn(entries', SubSeq(p, 1, k - 1)), p[k]>> \notin moved'
    BY DEF Steady, Stat
  <2>3. QED
    BY <2>1, <2>2
<1>3. /\ old[0] = Top /\ new[0] = Top
      /\ \A k \in 1 .. Len(p) : /\ old[k] = Follow(EntryIn(entries, old[k - 1], p[k]))
                                /\ new[k] = Follow(EntryIn(entries', new[k - 1], p[k]))
  <2>1. 0 \in 0 .. Len(p) /\ \A k \in 1 .. Len(p) : k - 1 \in 0 .. Len(p) /\ k \in 0 .. Len(p)
    OBVIOUS
  <2>2. old[0] = Top /\ new[0] = Top
    BY <2>1, StatBy
  <2>3. ASSUME NEW k \in 1 .. Len(p)
        PROVE  /\ old[k] = Follow(EntryIn(entries, old[k - 1], p[k]))
               /\ new[k] = Follow(EntryIn(entries', new[k - 1], p[k]))
    <3>1. old[k] = StatIn(entries, SubSeq(p, 1, k)) /\ old[k - 1] = StatIn(entries, SubSeq(p, 1, k - 1))
      BY <2>1
    <3>2. new[k] = StatIn(entries', SubSeq(p, 1, k)) /\ new[k - 1] = StatIn(entries', SubSeq(p, 1, k - 1))
      BY <2>1
    <3> HIDE DEF old, new
    <3>3. old[k] = Follow(EntryIn(entries, old[k - 1], p[k]))
      BY <3>1, StatBy
    <3>4. new[k] = Follow(EntryIn(entries', new[k - 1], p[k]))
      BY <3>2, StatBy
    <3>5. QED
      BY <3>3, <3>4
  <2>4. QED
    BY <2>2, <2>3
<1>4. /\ \A k \in 0 .. Len(p) : old[k] = StatIn(entries, SubSeq(p, 1, k))
      /\ \A k \in 0 .. Len(p) : new[k] = StatIn(entries', SubSeq(p, 1, k))
  OBVIOUS
<1> HIDE DEF old, new
<1>5. \A k \in 0 .. Len(p) : new[k] = old[k]
  <2>1. ASSUME NEW i \in 0 .. Len(p) - 1, new[i] = old[i] PROVE new[i + 1] = old[i + 1]
    <3>1. i + 1 \in 1 .. Len(p) /\ i + 1 - 1 = i
      BY <1>1
    <3>2. <<new[i], p[i + 1]>> \notin moved'
      BY <1>2, <3>1
    <3>3. EntryIn(entries', new[i], p[i + 1]) = EntryIn(entries, new[i], p[i + 1])
      BY <3>2 DEF Leaves
    <3>4. QED
      BY <1>3, <2>1, <3>1, <3>3
  <2>2. GoAlike(new, old, Len(p))
    BY <1>3, <2>1 DEF GoAlike
  <2>3. QED
    BY <1>1, <2>2, SameFrom
<1>6. \A k \in 0 .. Len(p) : Stat(SubSeq(p, 1, k))' = Stat(SubSeq(p, 1, k))
  BY <1>4, <1>5 DEF Stat
<1>7. \A k \in 0 .. Len(p) : Lstat(SubSeq(p, 1, k))' = Lstat(SubSeq(p, 1, k))
  <2>1. ASSUME NEW k \in 1 .. Len(p)
        PROVE  LstatIn(entries', SubSeq(p, 1, k)) = LstatIn(entries, SubSeq(p, 1, k))
    <3>1. k - 1 \in 0 .. Len(p)
      BY <1>1
    <3>2. StatIn(entries', SubSeq(p, 1, k - 1)) = StatIn(entries, SubSeq(p, 1, k - 1))
      BY <1>4, <1>5, <3>1
    <3>3. <<StatIn(entries', SubSeq(p, 1, k - 1)), p[k]>> \notin moved'
      BY DEF Steady, Stat
    <3>4. EntryIn(entries', StatIn(entries', SubSeq(p, 1, k - 1)), p[k])
            = EntryIn(entries, StatIn(entries, SubSeq(p, 1, k - 1)), p[k])
      BY <3>2, <3>3 DEF Leaves
    <3>5. QED
      BY <3>4, LstatBy
  <2>2. LstatIn(entries', SubSeq(p, 1, 0)) = LstatIn(entries, SubSeq(p, 1, 0))
    BY LstatBy
  <2>3. \A k \in 0 .. Len(p) : k = 0 \/ k \in 1 .. Len(p)
    OBVIOUS
  <2>4. QED
    BY <2>1, <2>2, <2>3 DEF Lstat
<1>8. SubSeq(p, 1, Len(p)) = p
  BY WholePath
<1>9. Lstat(p)' = Lstat(p) /\ Stat(p)' = Stat(p)
  <2>1. Len(p) \in 0 .. Len(p)
    BY <1>1
  <2>2. QED
    BY <1>6, <1>7, <1>8, <2>1
<1>10. (Lstat(p) \in bits)' <=> Lstat(p) \in bits
  <2>1. Lstat(p)' \notin modified'
    BY DEF Steady
  <2>2. QED
    BY <1>9, <2>1 DEF Leaves
<1>11. Steady(p)
  <2>1. \A k \in 1 .. Len(p) : <<Stat(SubSeq(p, 1, k - 1)), p[k]>> \notin moved
    <3>1. \A k \in 1 .. Len(p) : k - 1 \in 0 .. Len(p)
      OBVIOUS
    <3>2. \A k \in 1 .. Len(p) : <<Stat(SubSeq(p, 1, k - 1))', p[k]>> \notin moved'
      BY DEF Steady
    <3>3. QED
      BY <1>6, <3>1, <3>2 DEF Leaves
  <2>2. \A k \in 0 .. Len(p) - 1 : Lstat(SubSeq(p, 1, k)) \in Dir \ Unreadable
    <3>1. \A k \in 0 .. Len(p) - 1 : k \in 0 .. Len(p)
      OBVIOUS
    <3>2. \A k \in 0 .. Len(p) - 1 : Lstat(SubSeq(p, 1, k))' \in Dir \ Unreadable
      BY DEF Steady
    <3>3. QED
      BY <1>7, <3>1, <3>2
  <2>3. Lstat(p) \notin modified
    BY <1>9 DEF Steady, Leaves
  <2>4. QED
    BY <2>1, <2>2, <2>3 DEF Steady
<1>12. QED
  BY <1>6, <1>7, <1>9, <1>10, <1>11

-----------------------------------------------------------------------------

(* The paths one name longer than those of X, and the paths of a tree, one *)
(* length after the other.                                                 *)
Longer(tree, X) ==
  UNION {{<<Append(x[1], m), tree[x[2]][m]>> : m \in DOMAIN tree[x[2]]} :
           x \in {y \in X : y[2] \in Dir}}

Layers(at, tree) ==
  at = [n \in 0 .. Cardinality(Dir) |->
          IF n = 0 THEN {<< << >>, Top >>} ELSE Longer(tree, at[n - 1])]

(* The paths of a tree are paths.                                          *)
LEMMA PathsType ==
  ASSUME NEW tree, NEW S, \A d \in Dir : DOMAIN tree[d] \subseteq S
  PROVE  PathsOf(tree) \subseteq Seq(S)
<1> DEFINE n == Cardinality(Dir)
           W == {Top} \cup UNION {Range(tree[d]) : d \in Dir}
           V == SUBSET (Seq(S) \X W)
           step == [i \in 1 .. n |-> [X \in V |-> Longer(tree, X)]]
<1>1. n \in Nat
  BY TreeAssumption, FS_CardinalityType DEF TreeAssumption
<1>2. {<< << >>, Top >>} \in V
  <2>1. << >> \in Seq(S) /\ Top \in W
    OBVIOUS
  <2> HIDE DEF W
  <2>2. << << >>, Top >> \in Seq(S) \X W
    BY <2>1
  <2>3. QED
    BY <2>2
<1>3. ASSUME NEW X \in V PROVE Longer(tree, X) \in V
  <2>1. ASSUME NEW x \in X, x[2] \in Dir, NEW m \in DOMAIN tree[x[2]]
        PROVE  <<Append(x[1], m), tree[x[2]][m]>> \in Seq(S) \X W
    <3>1. x[1] \in Seq(S) /\ m \in S
      BY <2>1
    <3>2. Append(x[1], m) \in Seq(S)
      BY <3>1
    <3>3. tree[x[2]][m] \in W
      BY <2>1 DEF Range
    <3>4. QED
      BY <3>2, <3>3
  <2>2. QED
    BY <2>1 DEF Longer
<1> HIDE DEF V
<1>4. PICK f \in [0 .. n -> V] : f[0] = {<< << >>, Top >>} /\ \A i \in 1 .. n : f[i] = step[i][f[i - 1]]
  <2>1. step \in [1 .. n -> [V -> V]]
    BY <1>3
  <2> HIDE DEF step, n
  <2>2. QED
    BY <1>1, <1>2, <2>1, RecursionExists
<1>5. Layers(f, tree)
  <2>1. ASSUME NEW i \in 0 .. n PROVE f[i] = IF i = 0 THEN {<< << >>, Top >>} ELSE Longer(tree, f[i - 1])
    <3>1. CASE i = 0
      BY <1>4, <3>1
    <3>2. CASE i # 0
      <4>1. i \in 1 .. n /\ i - 1 \in 0 .. n
        BY <1>1, <3>2
      <4>2. f[i] = step[i][f[i - 1]] /\ f[i - 1] \in V
        BY <1>4, <4>1
      <4>3. QED
        BY <3>2, <4>1, <4>2
    <3>3. QED
      BY <3>1, <3>2
  <2>2. QED
    BY <2>1 DEF Layers
<1> DEFINE at == CHOOSE g : Layers(g, tree)
<1>6. Layers(at, tree)
  BY <1>5
<1>7. PathsOf(tree) = {x[1] : x \in UNION Range(at)}
  BY DEF PathsOf, Layers, Longer
<1> HIDE DEF at
<1>8. \A i \in 0 .. n : at[i] = f[i]
  <2>1. \A i \in 0 .. n :
          /\ at[i] = IF i = 0 THEN {<< << >>, Top >>} ELSE Longer(tree, at[i - 1])
          /\ f[i] = IF i = 0 THEN {<< << >>, Top >>} ELSE Longer(tree, f[i - 1])
    BY <1>5, <1>6 DEF Layers
  <2> HIDE DEF n
  <2>2. at[0] = f[0]
    BY <1>1, <2>1
  <2>3. ASSUME NEW i \in 0 .. n - 1, at[i] = f[i] PROVE at[i + 1] = f[i + 1]
    <3>1. i + 1 \in 0 .. n /\ i + 1 # 0 /\ i + 1 - 1 = i
      BY <1>1
    <3>2. at[i + 1] = Longer(tree, at[i + 1 - 1])
      BY <2>1, <3>1
    <3>3. f[i + 1] = Longer(tree, f[i + 1 - 1])
      BY <2>1, <3>1
    <3>4. QED
      BY <2>3, <3>2, <3>3
  <2>4. GoAlike(at, f, n)
    BY <2>2, <2>3 DEF GoAlike
  <2>5. QED
    BY <1>1, <2>4, SameFrom
<1>9. DOMAIN at = 0 .. n
  BY <1>6 DEF Layers
<1>10. ASSUME NEW x \in UNION Range(at) PROVE x[1] \in Seq(S)
  <2>1. PICK i \in 0 .. n : x \in at[i]
    BY <1>9 DEF Range
  <2>2. f[i] \in V
    BY <1>4
  <2>3. QED
    BY <1>8, <2>1, <2>2 DEF V
<1>11. QED
  BY <1>7, <1>10
=============================================================================
