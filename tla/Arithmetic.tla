----------------------------- MODULE Arithmetic -----------------------------
(***************************************************************************)
(* What the proofs about tables, scores, chains and paths share: that Min  *)
(* and Max of FiniteSetsExt, which choose, choose what they say, that      *)
(* Total adds up a sequence of any length, and what recursion up to a      *)
(* bound defines.                                                          *)
(***************************************************************************)
EXTENDS Truthimatics, FiniteSetsExt, FiniteSetTheorems, WellFoundedInduction, TLAPS

(***************************************************************************)
(* A nonempty set of numbers has a least one.                              *)
(***************************************************************************)
LEMMA LeastOfNats ==
  ASSUME NEW S \in SUBSET Nat, S # {}
  PROVE  Min(S) \in S /\ \A n \in S : Min(S) <= n
<1>1. PICK x \in S : \A y \in S : ~ (<<y, x>> \in OpToRel(<, Nat))
  BY NatLessThanWellFounded, WFMin, Zenon
<1>2. \A y \in S : x <= y
  <2>1. ASSUME NEW y \in S PROVE x <= y
    <3>1. y \in Nat /\ x \in Nat
      OBVIOUS
    <3>2. ~ (y < x)
      BY <1>1, <3>1 DEF OpToRel
    <3>3. QED
      BY <3>1, <3>2
  <2>2. QED
    BY <2>1
<1>3. QED
  BY <1>2 DEF Min

(***************************************************************************)
(* A nonempty set of numbers up to some bound has a greatest one.          *)
(***************************************************************************)
LEMMA GreatestOfBounded ==
  ASSUME NEW bound \in Nat, NEW S \in SUBSET (0 .. bound), S # {}
  PROVE  Max(S) \in S /\ \A n \in S : n <= Max(S)
<1> DEFINE T == {n \in 0 .. bound : bound - n \in S}
           least == Min(T)
<1>1. T \in SUBSET Nat
  OBVIOUS
<1>2. T # {}
  <2>1. PICK n \in S : TRUE
    OBVIOUS
  <2>2. n \in 0 .. bound
    OBVIOUS
  <2>3. bound - n \in 0 .. bound /\ bound - (bound - n) = n
    BY <2>2
  <2>4. bound - n \in T
    BY <2>3
  <2>5. QED
    BY <2>4
<1>3. least \in T /\ \A n \in T : least <= n
  BY <1>1, <1>2, LeastOfNats
<1> HIDE DEF least
<1>4. bound - least \in S
  BY <1>3
<1>5. ASSUME NEW n \in S PROVE bound - least >= n
  <2>1. n \in 0 .. bound
    OBVIOUS
  <2>2. bound - n \in 0 .. bound /\ bound - (bound - n) = n
    BY <2>1
  <2>3. bound - n \in T
    BY <2>2
  <2>4. least <= bound - n /\ least \in 0 .. bound
    BY <1>3, <2>3
  <2>5. QED
    BY <2>1, <2>4
<1>6. \E x \in S : \A y \in S : x >= y
  BY <1>4, <1>5
<1>7. Max(S) \in S /\ \A y \in S : Max(S) >= y
  BY <1>6, Zenon DEF Max
<1>8. \A n \in S : n \in Int
  OBVIOUS
<1>9. QED
  BY <1>7, <1>8

-----------------------------------------------------------------------------

(* u holds the sum of each of the first n beginnings of w.                 *)
Adds(u, w, n) == u = [i \in 0 .. n |-> IF i = 0 THEN 0 ELSE u[i - 1] + w[i]]

(* Every sequence can be added up: were one too long, a shorter beginning  *)
(* of it would be too long already.                                        *)
LEMMA SumsExist ==
  ASSUME NEW w, NEW n \in Nat
  PROVE  \E u : Adds(u, w, n)
<1> DEFINE Bad == {m \in Nat : ~ \E u : Adds(u, w, m)}
           least == Min(Bad)
<1>1. SUFFICES ASSUME Bad # {} PROVE FALSE
  OBVIOUS
<1>2. least \in Bad /\ \A m \in Bad : least <= m
  BY <1>1, LeastOfNats
<1> HIDE DEF least
<1>3. least \in Nat /\ ~ \E u : Adds(u, w, least)
  BY <1>2
<1>4. CASE least = 0
  <2>1. Adds([i \in 0 .. 0 |-> 0], w, 0)
    BY DEF Adds
  <2>2. QED
    BY <1>3, <1>4, <2>1
<1>5. CASE least # 0
  <2>1. least - 1 \in Nat /\ least - 1 \notin Bad
    BY <1>2, <1>3, <1>5
  <2>2. PICK u : Adds(u, w, least - 1)
    BY <2>1
  <2> DEFINE s == [i \in 0 .. least |-> IF i = least THEN u[i - 1] + w[i] ELSE u[i]]
  <2>3. Adds(s, w, least)
    <3>1. \A i \in 0 .. least :
            s[i] = IF i = 0 THEN 0 ELSE s[i - 1] + w[i]
      BY <1>3, <1>5, <2>2 DEF Adds
    <3>2. QED
      BY <3>1 DEF Adds
  <2>4. QED
    BY <1>3, <2>3
<1>6. QED
  BY <1>4, <1>5

(* There is one way only to add up a sequence.                             *)
LEMMA SumsUnique ==
  ASSUME NEW w, NEW n \in Nat, NEW u, NEW s, Adds(u, w, n), Adds(s, w, n)
  PROVE  \A i \in 0 .. n : u[i] = s[i]
<1> DEFINE Bad == {m \in 0 .. n : u[m] # s[m]}
           least == Min(Bad)
<1>1. SUFFICES ASSUME Bad # {} PROVE FALSE
  OBVIOUS
<1>2. least \in Bad /\ \A m \in Bad : least <= m
  BY <1>1, LeastOfNats
<1> HIDE DEF least
<1>3. least \in 0 .. n /\ u[least] # s[least]
  BY <1>2
<1>4. least # 0
  BY <1>3 DEF Adds
<1>5. least - 1 \in 0 .. n /\ u[least - 1] = s[least - 1]
  BY <1>2, <1>3, <1>4
<1>6. QED
  BY <1>3, <1>4, <1>5 DEF Adds

(* Total is the last of the sums, whatever function holds them.            *)
LEMMA TotalIs ==
  ASSUME NEW w, Len(w) \in Nat, NEW u, Adds(u, w, Len(w))
  PROVE  Total(w) = u[Len(w)]
<1> DEFINE s == CHOOSE f : f = [i \in 0 .. Len(w) |-> IF i = 0 THEN 0 ELSE f[i - 1] + w[i]]
<1>1. Adds(s, w, Len(w))
  BY DEF Adds
<1>2. s[Len(w)] = u[Len(w)]
  BY <1>1, SumsUnique
<1>3. QED
  BY <1>2 DEF Total

(* A sequence one longer adds up to its last element more.                 *)
LEMMA TotalGrows ==
  ASSUME NEW n \in Nat, NEW w, NEW z, Len(w) = n, Len(z) = n + 1,
         \A i \in 1 .. n : z[i] = w[i]
  PROVE  Total(z) = Total(w) + z[n + 1]
<1>0. n + 1 \in Nat
  OBVIOUS
<1>1. PICK u : Adds(u, z, n + 1)
  BY <1>0, SumsExist
<1> DEFINE s == [i \in 0 .. n |-> u[i]]
<1>2. Adds(s, w, n)
  BY <1>1 DEF Adds
<1>3. Total(w) = s[n] /\ Total(z) = u[n + 1]
  BY <1>1, <1>2, TotalIs
<1>4. s[n] = u[n] /\ u[n + 1] = u[n] + z[n + 1]
  BY <1>1 DEF Adds
<1>5. QED
  BY <1>3, <1>4

(* The empty sequence adds up to nothing.                                  *)
LEMMA TotalOfNone == ASSUME NEW w, Len(w) = 0 PROVE Total(w) = 0
<1>1. PICK u : Adds(u, w, 0)
  BY SumsExist
<1>2. u[0] = 0
  BY <1>1 DEF Adds
<1>3. QED
  BY <1>1, <1>2, TotalIs

(* Nothing but zeros adds up to nothing, ...                               *)
LEMMA TotalOfZeros ==
  ASSUME NEW w, Len(w) \in Nat, \A i \in 1 .. Len(w) : w[i] = 0
  PROVE  Total(w) = 0
<1> DEFINE n == Len(w)
           u == [i \in 0 .. n |-> 0]
<1>1. \A i \in 0 .. n : u[i] = IF i = 0 THEN 0 ELSE u[i - 1] + w[i]
  OBVIOUS
<1>2. Adds(u, w, n)
  BY <1>1 DEF Adds
<1>3. Total(w) = u[n]
  BY <1>2, TotalIs
<1>4. QED
  BY <1>3

(* ... and positive numbers to a positive one.                             *)
LEMMA TotalOfPositive ==
  ASSUME NEW w, Len(w) \in Nat \ {0}, \A i \in 1 .. Len(w) : w[i] \in Nat \ {0}
  PROVE  Total(w) \in Nat /\ Total(w) > 0
<1> DEFINE n == Len(w)
<1>1. PICK u : Adds(u, w, n)
  BY SumsExist
<1> DEFINE Bad == {m \in 0 .. n : ~ (u[m] \in Nat /\ u[m] >= m)}
           least == Min(Bad)
<1>2. ASSUME Bad # {} PROVE FALSE
  <2>0. Bad \in SUBSET Nat
    OBVIOUS
  <2> HIDE DEF Bad
  <2>1. least \in Bad /\ \A m \in Bad : least <= m
    BY <1>2, <2>0, LeastOfNats
  <2> USE DEF Bad
  <2> HIDE DEF least
  <2>2. least \in 0 .. n /\ ~ (u[least] \in Nat /\ u[least] >= least)
    BY <2>1
  <2>3. least # 0
    BY <1>1, <2>2 DEF Adds
  <2>4. least - 1 \in 0 .. n /\ u[least - 1] \in Nat /\ u[least - 1] >= least - 1
    BY <2>1, <2>2, <2>3
  <2>5. u[least] = u[least - 1] + w[least] /\ w[least] \in Nat \ {0}
    BY <1>1, <2>2, <2>3 DEF Adds
  <2>6. QED
    BY <2>2, <2>4, <2>5
<1>3. u[n] \in Nat /\ u[n] >= n
  BY <1>2
<1>4. Total(w) = u[n]
  BY <1>1, TotalIs
<1>5. QED
  BY <1>3, <1>4
-----------------------------------------------------------------------------

(***************************************************************************)
(* What holds of 0 and, if of a number, then of the next one holds up to   *)
(* any bound.                                                              *)
(***************************************************************************)
LEMMA Climb ==
  ASSUME NEW n \in Nat, NEW S, 0 \in S,
         \A i \in 0 .. n - 1 : i \in S => i + 1 \in S
  PROVE  \A i \in 0 .. n : i \in S
<1> DEFINE Bad == {i \in 0 .. n : i \notin S}
           least == Min(Bad)
<1>1. SUFFICES ASSUME Bad # {} PROVE FALSE
  OBVIOUS
<1>2. least \in Bad /\ \A m \in Bad : least <= m
  BY <1>1, LeastOfNats
<1> HIDE DEF least
<1>3. least \in 0 .. n /\ least # 0
  BY <1>2
<1>4. least - 1 \in 0 .. n - 1 /\ least - 1 \notin Bad /\ least - 1 + 1 = least
  BY <1>2, <1>3
<1>5. least - 1 \in S
  BY <1>3, <1>4
<1>6. QED
  BY <1>2, <1>4, <1>5

(***************************************************************************)
(* A function can be defined by recursion up to any bound.                 *)
(***************************************************************************)
LEMMA RecursionExists ==
  ASSUME NEW V, NEW a \in V, NEW n \in Nat, NEW step \in [1 .. n -> [V -> V]]
  PROVE  \E f \in [0 .. n -> V] :
           f[0] = a /\ \A i \in 1 .. n : f[i] = step[i][f[i - 1]]
<1> DEFINE S == {m \in 0 .. n : \E f \in [0 .. m -> V] :
                  \A i \in 0 .. m : f[i] = IF i = 0 THEN a ELSE step[i][f[i - 1]]}
<1>1. 0 \in S
  <2> DEFINE f == [i \in 0 .. 0 |-> a]
  <2>1. f \in [0 .. 0 -> V] /\ \A i \in 0 .. 0 : f[i] = a /\ i = 0
    OBVIOUS
  <2>2. 0 \in 0 .. n
    OBVIOUS
  <2> HIDE DEF f
  <2>3. QED
    BY <2>1, <2>2
<1>2. ASSUME NEW m \in 0 .. n - 1, m \in S PROVE m + 1 \in S
  <2>1. PICK f \in [0 .. m -> V] :
          \A i \in 0 .. m : f[i] = IF i = 0 THEN a ELSE step[i][f[i - 1]]
    BY <1>2
  <2> DEFINE g == [i \in 0 .. m + 1 |-> IF i = m + 1 THEN step[m + 1][f[m]] ELSE f[i]]
  <2>2. m + 1 \in 1 .. n /\ m + 1 \in 0 .. n /\ m \in 0 .. m
    OBVIOUS
  <2>3. step[m + 1] \in [V -> V] /\ f[m] \in V
    BY <2>2
  <2>4. step[m + 1][f[m]] \in V
    BY <2>3
  <2>5. /\ g[m + 1] = step[m + 1][f[m]]
        /\ \A i \in 0 .. m : g[i] = f[i]
    OBVIOUS
  <2>6. g \in [0 .. m + 1 -> V]
    <3>1. ASSUME NEW i \in 0 .. m + 1 PROVE i = m + 1 \/ i \in 0 .. m
      OBVIOUS
    <3>2. QED
      BY <2>4, <3>1
  <2> HIDE DEF g
  <2>7. ASSUME NEW i \in 0 .. m + 1
        PROVE  g[i] = IF i = 0 THEN a ELSE step[i][g[i - 1]]
    <3>1. i = m + 1 \/ i \in 0 .. m
      OBVIOUS
    <3>2. CASE i = m + 1
      <4>1. i # 0 /\ i - 1 = m /\ g[m] = f[m]
        BY <2>2, <2>5, <3>2
      <4>2. QED
        BY <2>5, <3>2, <4>1
    <3>3. CASE i = 0
      BY <2>1, <2>5, <3>3
    <3>4. CASE i \in 1 .. m
      <4>1. i \in 0 .. m /\ i - 1 \in 0 .. m /\ i # 0
        BY <3>4
      <4>2. QED
        BY <2>1, <2>5, <4>1
    <3>5. QED
      BY <3>1, <3>2, <3>3, <3>4
  <2>8. QED
    BY <2>2, <2>6, <2>7
<1> HIDE DEF S
<1>3. n \in S
  <2>1. \A i \in 0 .. n : i \in S
    BY <1>1, <1>2, Climb
  <2>2. n \in 0 .. n
    OBVIOUS
  <2>3. QED
    BY <2>1, <2>2
<1>4. PICK f \in [0 .. n -> V] :
        \A i \in 0 .. n : f[i] = IF i = 0 THEN a ELSE step[i][f[i - 1]]
  BY <1>3 DEF S
<1>5. f[0] = a /\ \A i \in 1 .. n : f[i] = step[i][f[i - 1]]
  <2>1. 0 \in 0 .. n /\ \A i \in 1 .. n : i \in 0 .. n /\ i # 0
    OBVIOUS
  <2>2. QED
    BY <1>4, <2>1
<1>6. QED
  BY <1>5

(* Two functions that start alike and go on alike are alike.               *)
GoAlike(f, g, n) ==
  f[0] = g[0] /\ \A i \in 0 .. n - 1 : f[i] = g[i] => f[i + 1] = g[i + 1]

LEMMA SameFrom ==
  ASSUME NEW n \in Nat, NEW f, NEW g, GoAlike(f, g, n)
  PROVE  \A i \in 0 .. n : f[i] = g[i]
<1> DEFINE S == {i \in 0 .. n : f[i] = g[i]}
<1>1. 0 \in S
  BY DEF GoAlike
<1>2. ASSUME NEW i \in 0 .. n - 1, i \in S PROVE i + 1 \in S
  <2>1. f[i + 1] = g[i + 1]
    BY <1>2 DEF GoAlike
  <2>2. i + 1 \in 0 .. n
    OBVIOUS
  <2>3. QED
    BY <2>1, <2>2
<1> HIDE DEF S
<1>3. \A i \in 0 .. n : i \in S
  BY <1>1, <1>2, Climb
<1>4. QED
  BY <1>3 DEF S

(***************************************************************************)
(* Counting goes on one number at a time.                                  *)
(***************************************************************************)
LEMMA CountTo ==
  ASSUME NEW n \in Nat, NEW S
  PROVE  /\ Cardinality({i \in 1 .. n : i \in S}) \in Nat
         /\ Cardinality({i \in 1 .. n + 1 : i \in S})
              = Cardinality({i \in 1 .. n : i \in S}) + (IF n + 1 \in S THEN 1 ELSE 0)
<1> DEFINE C == {i \in 1 .. n : i \in S}
           D == {i \in 1 .. n + 1 : i \in S}
<1>1. IsFiniteSet(C) /\ Cardinality(C) \in Nat
  <2>1. IsFiniteSet(1 .. n)
    BY FS_Interval
  <2>2. C \in SUBSET (1 .. n)
    OBVIOUS
  <2>3. IsFiniteSet(C)
    BY <2>1, <2>2, FS_Subset
  <2>4. QED
    BY <2>3, FS_CardinalityType
<1>2. CASE n + 1 \in S
  <2>1. D = C \cup {n + 1} /\ n + 1 \notin C
    BY <1>2
  <2>2. Cardinality(D) = Cardinality(C) + 1
    BY <1>1, <2>1, FS_AddElement
  <2>3. QED
    BY <1>1, <1>2, <2>2
<1>3. CASE n + 1 \notin S
  <2>1. D = C
    BY <1>3
  <2>2. QED
    BY <1>1, <1>3, <2>1
<1>4. QED
  BY <1>2, <1>3

(* Numbers that are not negative add up to one that is not either.        *)
LEMMA TotalOfNats ==
  ASSUME NEW w, NEW n \in Nat, Len(w) = n, \A i \in 1 .. n : w[i] \in Nat
  PROVE  Total(w) \in Nat /\ \E u : Adds(u, w, n) /\ \A i \in 0 .. n : u[i] \in Nat
<1>1. PICK u : Adds(u, w, n)
  BY SumsExist
<1> DEFINE S == {i \in 0 .. n : u[i] \in Nat}
<1>2. 0 \in S
  BY <1>1 DEF Adds
<1>3. ASSUME NEW i \in 0 .. n - 1, i \in S PROVE i + 1 \in S
  <2>1. i + 1 \in 0 .. n /\ i + 1 \in 1 .. n /\ i + 1 # 0 /\ i + 1 - 1 = i
    OBVIOUS
  <2>2. u[i + 1] = u[i] + w[i + 1]
    BY <1>1, <2>1 DEF Adds
  <2>3. u[i + 1] \in Nat
    BY <1>3, <2>1, <2>2
  <2>4. QED
    BY <2>1, <2>3
<1> HIDE DEF S
<1>4. \A i \in 0 .. n : i \in S
  BY <1>2, <1>3, Climb
<1>5. \A i \in 0 .. n : u[i] \in Nat
  BY <1>4 DEF S
<1>6. Total(w) = u[n]
  BY <1>1, TotalIs
<1>7. QED
  BY <1>1, <1>5, <1>6

(***************************************************************************)
(* A sequence with one element more by d adds up to d more.                *)
(***************************************************************************)
LEMMA TotalChanged ==
  ASSUME NEW w, NEW z, NEW n \in Nat, Len(w) = n, Len(z) = n,
         \A i \in 1 .. n : w[i] \in Nat,
         NEW j \in 1 .. n, NEW d \in Nat, z[j] = w[j] + d,
         \A i \in 1 .. n : i # j => z[i] = w[i]
  PROVE  Total(w) \in Nat /\ Total(z) = Total(w) + d
<1>1. PICK u : Adds(u, w, n) /\ \A i \in 0 .. n : u[i] \in Nat
  BY TotalOfNats
<1> DEFINE s == [i \in 0 .. n |-> IF i < j THEN u[i] ELSE u[i] + d]
<1>2. ASSUME NEW i \in 0 .. n PROVE s[i] = IF i = 0 THEN 0 ELSE s[i - 1] + z[i]
  <2>1. CASE i = 0
    BY <1>1, <2>1 DEF Adds
  <2>2. CASE i # 0
    <3>1. i \in 1 .. n /\ i - 1 \in 0 .. n
      BY <2>2
    <3>2. u[i] = u[i - 1] + w[i] /\ u[i] \in Nat /\ u[i - 1] \in Nat /\ w[i] \in Nat
      BY <1>1, <2>2, <3>1 DEF Adds
    <3>3. s[i] = (IF i < j THEN u[i] ELSE u[i] + d)
          /\ s[i - 1] = (IF i - 1 < j THEN u[i - 1] ELSE u[i - 1] + d)
      BY <3>1
    <3> HIDE DEF s
    <3>4. CASE i = j
      BY <2>2, <3>1, <3>2, <3>3, <3>4
    <3>5. CASE i # j
      <4>1. z[i] = w[i] /\ (i < j <=> i - 1 < j)
        BY <3>1, <3>5
      <4>2. QED
        BY <2>2, <3>2, <3>3, <4>1
    <3>6. QED
      BY <3>4, <3>5
  <2>3. QED
    BY <2>1, <2>2
<1>3. Adds(s, z, n)
  BY <1>2 DEF Adds
<1>4. s[n] = u[n] + d
  OBVIOUS
<1> HIDE DEF s
<1>5. Total(w) = u[n] /\ Total(z) = s[n]
  BY <1>1, <1>3, TotalIs
<1>6. QED
  BY <1>1, <1>4, <1>5

(* A function on 1 .. n has n elements.                                    *)
LEMMA LenOfFunction == ASSUME NEW n \in Nat, NEW S, NEW w \in [1 .. n -> S] PROVE Len(w) = n
  OBVIOUS
=============================================================================
