---------------------------- MODULE BlocksProofs ----------------------------
(***************************************************************************)
(* What the functions of Blocks and Edits do to a page of typed rows: the  *)
(* page stays one, and its length changes by what is said.                 *)
(***************************************************************************)
EXTENDS Edits, ListProofs, FiniteSetTheorems

-----------------------------------------------------------------------------
(* Numbers.                                                                *)

LEMMA LeastIn ==
    ASSUME NEW T, T \subseteq Nat, T # {}
    PROVE  Least(T) \in T /\ \A j \in T : Least(T) <= j
BY HasLeast DEF Least

LEMMA GreatestIn ==
    ASSUME NEW n \in Nat, NEW T, T \subseteq 0 .. n, T # {}
    PROVE  Greatest(T) \in T /\ \A j \in T : j <= Greatest(T)
<1> DEFINE R == {n - x : x \in T}
<1>0. \A x \in T : x \in Nat /\ x <= n
  OBVIOUS
<1>1. R \subseteq Nat /\ R # {}
  <2>1. ASSUME NEW r \in R PROVE r \in Nat
    <3>1. PICK x \in T : r = n - x
      BY <2>1
    <3>2. x \in Nat /\ x <= n
      BY <1>0
    <3> QED
      BY <3>1, <3>2
  <2>2. PICK t \in T : TRUE
    OBVIOUS
  <2>3. n - t \in R
    BY <2>2
  <2> QED
    BY <2>1, <2>3
<1>2. PICK y \in R : \A z \in R : y <= z
  BY <1>1, HasLeast
<1>3. PICK x \in T : y = n - x
  BY <1>2
<1>4. \A j \in T : j <= x
  <2> SUFFICES ASSUME NEW j \in T PROVE j <= x
    OBVIOUS
  <2>1. n - j \in R /\ y <= n - j
    BY <1>2
  <2> QED
    BY <1>0, <1>3, <2>1
<1> QED
  BY <1>4 DEF Greatest

LEMMA GreatestFound ==
    ASSUME NEW n \in Nat, NEW T, T \subseteq 1 .. n
    PROVE  Greatest(T) \in 0 .. n /\ (Greatest(T) # 0 => Greatest(T) \in T)
<1>1. CASE T = {}
  BY <1>1 DEF Greatest
<1>2. CASE T # {}
  <2>1. T \subseteq 0 .. n
    OBVIOUS
  <2> QED
    BY <1>2, <2>1, GreatestIn
<1> QED
  BY <1>1, <1>2

LEMMA LeastFound ==
    ASSUME NEW n \in Nat, NEW T, T \subseteq 1 .. n
    PROVE  Least(T) \in 0 .. n /\ (Least(T) # 0 => Least(T) \in T)
<1>1. CASE T = {}
  BY <1>1 DEF Least
<1>2. CASE T # {}
  <2>1. T \subseteq Nat /\ T \subseteq 0 .. n
    OBVIOUS
  <2>2. Least(T) \in T
    BY <1>2, <2>1, LeastIn
  <2> QED
    BY <2>1, <2>2
<1> QED
  BY <1>1, <1>2

(* The place of a number in a finite set of numbers. *)
Rank(S, n) == Cardinality({m \in S : m < n})

LEMMA RankGrows ==
    ASSUME NEW S, S \subseteq Nat, IsFiniteSet(S), NEW a \in S, NEW b \in S, a < b
    PROVE  Rank(S, a) < Rank(S, b)
<1> DEFINE A == {m \in S : m < a}
           B == {m \in S : m < b}
<1>1. IsFiniteSet(A) /\ IsFiniteSet(B)
  BY FS_Subset
<1>0. \A x \in S : x \in Nat
  OBVIOUS
<1>2. A \cup {a} \subseteq B /\ a \notin A
  <2>1. a \in Nat /\ b \in Nat
    BY <1>0
  <2>2. \A m \in A : m \in S /\ m < b
    BY <1>0, <2>1
  <2>3. a \in B /\ (\A m \in A : m \in B)
    BY <2>2
  <2>4. a \notin A
    BY <2>1
  <2> HIDE DEF A, B
  <2> QED
    BY <2>3, <2>4
<1>3. Cardinality(A \cup {a}) = Cardinality(A) + 1
  BY <1>1, <1>2, FS_AddElement
<1>4. Cardinality(A \cup {a}) <= Cardinality(B)
  BY <1>1, <1>2, FS_Subset
<1>5. Cardinality(A) \in Nat /\ Cardinality(B) \in Nat
  BY <1>1, FS_CardinalityType
<1> HIDE DEF A, B
<1>6. Cardinality(A) < Cardinality(B)
  BY <1>3, <1>4, <1>5
<1> QED
  BY <1>6 DEF A, B, Rank

LEMMA RankBelow ==
    ASSUME NEW S, S \subseteq Nat, IsFiniteSet(S), NEW a \in S
    PROVE  Rank(S, a) \in 0 .. Cardinality(S) - 1
<1> DEFINE A == {m \in S : m < a}
<1>1. IsFiniteSet(A) /\ A \cup {a} \subseteq S /\ a \notin A
  BY FS_Subset
<1>2. Cardinality(A \cup {a}) = Cardinality(A) + 1
  BY <1>1, FS_AddElement
<1>3. Cardinality(A \cup {a}) <= Cardinality(S)
  BY <1>1, FS_Subset
<1>4. Cardinality(A) \in Nat /\ Cardinality(S) \in Nat
  BY <1>1, FS_CardinalityType
<1> HIDE DEF A
<1>5. Cardinality(A) \in 0 .. Cardinality(S) - 1
  BY <1>2, <1>3, <1>4
<1> QED
  BY <1>5 DEF A, Rank

LEMMA RankTaken ==
    ASSUME NEW S, S \subseteq Nat, IsFiniteSet(S), NEW k \in 0 .. Cardinality(S) - 1
    PROVE  \E n \in S : Rank(S, n) = k
<1> DEFINE c == Cardinality(S)
           T == 0 .. c - 1
           f == [n \in S |-> Rank(S, n)]
<1>1. c \in Nat
  BY FS_CardinalityType
<1>2. IsFiniteSet(T) /\ Cardinality(T) = c
  <2> HIDE DEF c
  <2> QED
    BY <1>1, FS_Interval
<1>3. f \in [S -> T]
  BY RankBelow
<1>4. \A a, b \in S : f[a] = f[b] => a = b
  <2> SUFFICES ASSUME NEW a \in S, NEW b \in S, a # b PROVE f[a] # f[b]
    OBVIOUS
  <2>1. f[a] \in Int /\ f[b] \in Int
    BY <1>1, <1>3
  <2>2. a < b \/ b < a
    OBVIOUS
  <2>3. Rank(S, a) < Rank(S, b) \/ Rank(S, b) < Rank(S, a)
    BY <2>2, RankGrows
  <2> QED
    BY <2>1, <2>3
<1>5. f \in Injection(S, T)
  BY <1>3, <1>4 DEF Injection, IsInjective
<1>6. f \in Surjection(S, T)
  BY <1>2, <1>5, FS_Injection
<1>7. \E n \in S : f[n] = k
  BY <1>6 DEF Surjection
<1> QED
  BY <1>7

LEMMA AscendingOf ==
    ASSUME NEW S, S \subseteq Nat, IsFiniteSet(S)
    PROVE  /\ Ascending(S) \in Seq(S) /\ Len(Ascending(S)) = Cardinality(S)
           /\ Cardinality(S) \in Nat
           /\ \A j, k \in 1 .. Cardinality(S) : j < k => Ascending(S)[j] < Ascending(S)[k]
<1> DEFINE c == Cardinality(S)
           s == Ascending(S)
<1>1. c \in Nat
  BY FS_CardinalityType
<1>2. s = [k \in 1 .. c |-> CHOOSE n \in S : Rank(S, n) = k - 1]
  BY DEF Ascending, Rank
<1>3. \A k \in 1 .. c : s[k] \in S /\ Rank(S, s[k]) = k - 1
  <2> SUFFICES ASSUME NEW k \in 1 .. c PROVE s[k] \in S /\ Rank(S, s[k]) = k - 1
    OBVIOUS
  <2>1. k - 1 \in 0 .. c - 1
    BY <1>1
  <2>2. \E n \in S : Rank(S, n) = k - 1
    BY <2>1, RankTaken
  <2> QED
    BY <1>2, <2>2
<1>4. s \in Seq(S) /\ Len(s) = c
  <2>1. s \in [1 .. c -> S]
    BY <1>2, <1>3
  <2> HIDE DEF s, c
  <2> QED
    BY <1>1, <2>1, SeqDef, LenProperties
<1>5. ASSUME NEW j \in 1 .. c, NEW k \in 1 .. c, j < k PROVE s[j] < s[k]
  <2>1. s[j] \in S /\ s[k] \in S /\ Rank(S, s[j]) < Rank(S, s[k])
    BY <1>1, <1>3, <1>5
  <2>2. ~(s[k] < s[j])
    <3>1. ASSUME s[k] < s[j] PROVE FALSE
      <4>1. Rank(S, s[k]) < Rank(S, s[j])
        BY <2>1, <3>1, RankGrows
      <4> QED
        BY <1>1, <1>3, <4>1, <1>5
    <3> QED
      BY <3>1
  <2>3. s[j] # s[k]
    BY <1>1, <1>3, <1>5
  <2> HIDE DEF s, c
  <2>4. s[j] \in Nat /\ s[k] \in Nat
    BY <2>1
  <2> QED
    BY <2>2, <2>3, <2>4
<1> QED
  BY <1>1, <1>4, <1>5

-----------------------------------------------------------------------------
(* Sequences.                                                              *)

LEMMA Mapped ==
    ASSUME NEW S, NEW n \in Nat, NEW t, t = [k \in 1 .. n |-> t[k]],
           \A k \in 1 .. n : t[k] \in S
    PROVE  t \in Seq(S) /\ Len(t) = n
<1>1. t \in [1 .. n -> S]
  OBVIOUS
<1> QED
  BY <1>1, SeqDef, LenProperties

(* Rows are read by their number. *)
LEMMA RowAt ==
    ASSUME NEW S, NEW s \in Seq(S)
    PROVE  /\ Len(s) \in Nat /\ DOMAIN s = 1 .. Len(s)
           /\ \A k \in 1 .. Len(s) : s[k] \in S
BY LenProperties, ElementOfSeq

(* w is s with mid in place of what lies from .. to - 1. *)
Spliced(w, s, from, to, mid) ==
    /\ Len(w) = Len(s) - (to - from) + Len(mid)
    /\ \A k \in 1 .. from - 1 : w[k] = s[k]
    /\ \A k \in 1 .. Len(mid) : w[from - 1 + k] = mid[k]
    /\ \A k \in to .. Len(s) : w[from - to + Len(mid) + k] = s[k]

LEMMA SpliceOf ==
    ASSUME NEW S, NEW s \in Seq(S), NEW mid \in Seq(S),
           NEW from \in 1 .. Len(s) + 1, NEW to \in from .. Len(s) + 1
    PROVE  /\ Splice(s, from, to, mid) \in Seq(S)
           /\ Spliced(Splice(s, from, to, mid), s, from, to, mid)
<1> DEFINE a == SubSeq(s, 1, from - 1)
           b == SubSeq(s, to, Len(s))
           n == Len(s)
           p == Len(mid)
           am == a \o mid
           w == am \o b
<1>1. n \in Nat /\ p \in Nat /\ \A k \in 1 .. n : s[k] \in S
  BY RowAt
<1>2. /\ a \in Seq(S) /\ Len(a) = from - 1
      /\ \A k \in 1 .. from - 1 : a[k] = s[k]
  <2> HIDE DEF p
  <2>1. 1 \in Int /\ from - 1 \in Int /\ \A k \in 1 .. from - 1 : s[k] \in S
    BY <1>1
  <2>2. /\ a \in Seq(S)
        /\ Len(a) = IF 1 <= from - 1 THEN from - 1 - 1 + 1 ELSE 0
        /\ \A k \in 1 .. from - 1 - 1 + 1 : a[k] = s[1 + k - 1]
    BY <2>1, SubSeqProperties
  <2> HIDE DEF a
  <2> QED
    BY <1>1, <2>2
<1>3. /\ b \in Seq(S) /\ Len(b) = n - to + 1
      /\ \A k \in 1 .. n - to + 1 : b[k] = s[to + k - 1]
  <2>1. to \in Int /\ n \in Int /\ \A k \in to .. n : s[k] \in S
    BY <1>1
  <2>2. /\ b \in Seq(S)
        /\ Len(b) = IF to <= n THEN n - to + 1 ELSE 0
        /\ \A k \in 1 .. n - to + 1 : b[k] = s[to + k - 1]
    BY <2>1, SubSeqProperties
  <2> HIDE DEF b, n, p
  <2>3. to <= n + 1
    BY <1>1 DEF n
  <2> QED
    BY <1>1, <2>1, <2>2, <2>3
<1> HIDE DEF a, b
<1>4. /\ am \in Seq(S) /\ Len(am) = from - 1 + p
      /\ \A k \in 1 .. from - 1 + p : am[k] = IF k <= from - 1 THEN a[k] ELSE mid[k - (from - 1)]
  <2>1. /\ am \in Seq(S) /\ Len(am) = Len(a) + Len(mid)
        /\ \A k \in 1 .. Len(a) + Len(mid) : am[k] = IF k <= Len(a) THEN a[k] ELSE mid[k - Len(a)]
    BY <1>2, ConcatProperties
  <2> HIDE DEF am
  <2> QED
    BY <1>2, <2>1
<1> HIDE DEF am
<1>5. /\ w \in Seq(S) /\ Len(w) = Len(am) + Len(b)
      /\ \A k \in 1 .. Len(am) + Len(b) : w[k] = IF k <= Len(am) THEN am[k] ELSE b[k - Len(am)]
  BY <1>3, <1>4, ConcatProperties
<1>6. Splice(s, from, to, mid) = w
  BY DEF Splice, a, b, am
<1> HIDE DEF w, p, n
<1>7. from \in 1 .. n + 1 /\ to \in from .. n + 1
  BY DEF n
<1>8. Len(w) = n - (to - from) + p
  BY <1>1, <1>3, <1>4, <1>5, <1>7
<1>9. \A k \in 1 .. from - 1 : w[k] = s[k]
  BY <1>1, <1>2, <1>3, <1>4, <1>5, <1>7
<1>10. \A k \in 1 .. p : w[from - 1 + k] = mid[k]
  <2> SUFFICES ASSUME NEW k \in 1 .. p, NEW j, j = from - 1 + k PROVE w[j] = mid[k]
    OBVIOUS
  <2>1. j \in 1 .. from - 1 + p /\ ~(j <= from - 1) /\ j - (from - 1) = k
    BY <1>1, <1>7
  <2>2. am[j] = mid[k]
    BY <1>4, <2>1
  <2>3. j \in 1 .. Len(am) + Len(b) /\ j <= Len(am)
    BY <1>1, <1>3, <1>4, <1>7, <2>1
  <2> QED
    BY <1>5, <2>2, <2>3
<1>11. \A k \in to .. n : w[from - to + p + k] = s[k]
  <2> SUFFICES ASSUME NEW k \in to .. n, NEW j, j = from - to + p + k PROVE w[j] = s[k]
    OBVIOUS
  <2>1. /\ j \in 1 .. Len(am) + Len(b) /\ ~(j <= Len(am))
        /\ j - Len(am) = k - to + 1
        /\ k - to + 1 \in 1 .. n - to + 1 /\ to + (k - to + 1) - 1 = k
    BY <1>1, <1>3, <1>4, <1>7
  <2>2. w[j] = b[k - to + 1]
    BY <1>5, <2>1
  <2>3. b[k - to + 1] = s[k]
    BY <1>3, <2>1
  <2> QED
    BY <2>2, <2>3
<1> QED
  BY <1>5, <1>6, <1>8, <1>9, <1>10, <1>11 DEF n, p, Spliced

LEMMA EraseOf ==
    ASSUME NEW S, NEW s \in Seq(S),
           NEW from \in 1 .. Len(s) + 1, NEW to \in from .. Len(s) + 1
    PROVE  /\ EraseRows(s, from, to) \in Seq(S)
           /\ Len(EraseRows(s, from, to)) = Len(s) - (to - from)
           /\ \A k \in 1 .. from - 1 : EraseRows(s, from, to)[k] = s[k]
           /\ \A k \in to .. Len(s) : EraseRows(s, from, to)[from - to + k] = s[k]
<1> DEFINE none == <<>>
           w == Splice(s, from, to, none)
<1>1. none \in Seq(S) /\ Len(none) = 0
  OBVIOUS
<1>2. EraseRows(s, from, to) = w
  BY DEF EraseRows
<1> HIDE DEF none
<1>3. w \in Seq(S) /\ Spliced(w, s, from, to, none)
  BY <1>1, SpliceOf
<1>4. Len(s) \in Nat
  BY RowAt
<1> HIDE DEF w
<1>5. Len(w) = Len(s) - (to - from)
  BY <1>1, <1>3, <1>4 DEF Spliced
<1>6. \A k \in to .. Len(s) : w[from - to + k] = s[k]
  <2> SUFFICES ASSUME NEW k \in to .. Len(s) PROVE w[from - to + k] = s[k]
    OBVIOUS
  <2>1. from - to + Len(none) + k = from - to + k
    BY <1>1, <1>4
  <2> QED
    BY <1>3, <2>1 DEF Spliced
<1>7. \A k \in 1 .. from - 1 : w[k] = s[k]
  BY <1>3 DEF Spliced
<1> QED
  BY <1>2, <1>3, <1>5, <1>6, <1>7

-----------------------------------------------------------------------------
(* Rows put in.                                                            *)

LEMMA FreshOf ==
    ASSUME NEW rs \in Seq(Row), NEW used \in SUBSET Nat, IsFiniteSet(used)
    PROVE  /\ Fresh(rs, used) \in Seq(Row) /\ Len(Fresh(rs, used)) = Len(rs)
           /\ \A k \in 1 .. Len(rs) : Fresh(rs, used)[k].serial \notin used
<1> DEFINE n == Cardinality(used) + Len(rs)
           N == 1 .. n
           F == N \ used
           w == Fresh(rs, used)
<1>1. Len(rs) \in Nat /\ DOMAIN rs = 1 .. Len(rs) /\ \A k \in 1 .. Len(rs) : rs[k] \in Row
  BY RowAt
<1>2. Cardinality(used) \in Nat
  BY FS_CardinalityType
<1>3. IsFiniteSet(N) /\ Cardinality(N) = n
  <2>1. n \in Nat /\ 1 \in Int
    BY <1>1, <1>2
  <2> HIDE DEF n
  <2>2. IsFiniteSet(N) /\ Cardinality(N) = IF 1 > n THEN 0 ELSE n - 1 + 1
    BY <2>1, FS_Interval
  <2> QED
    BY <2>1, <2>2
<1>4. IsFiniteSet(F) /\ Cardinality(F) >= Len(rs)
  <2> HIDE DEF N
  <2>1. IsFiniteSet(F) /\ Cardinality(F) = Cardinality(N) - Cardinality(N \cap used)
    BY <1>3, FS_Difference
  <2>2. Cardinality(N \cap used) <= Cardinality(used) /\ Cardinality(N \cap used) \in Nat
    <3>1. N \cap used \in SUBSET used
      OBVIOUS
    <3>2. IsFiniteSet(N \cap used) /\ Cardinality(N \cap used) <= Cardinality(used)
      BY <3>1, FS_Subset
    <3> QED
      BY <3>2, FS_CardinalityType
  <2> DEFINE cf == Cardinality(F)
             cn == Cardinality(N)
             ci == Cardinality(N \cap used)
             cu == Cardinality(used)
  <2>3. cn = cu + Len(rs) /\ cf = cn - ci /\ ci <= cu /\ ci \in Nat /\ cu \in Nat
    BY <1>2, <1>3, <2>1, <2>2
  <2> HIDE DEF cf, cn, ci, cu
  <2>4. cf >= Len(rs)
    BY <1>1, <2>3
  <2> QED
    BY <2>1, <2>4 DEF cf
<1>5. F \subseteq Nat
  OBVIOUS
<1> DEFINE free == Ascending(F)
           c == Cardinality(F)
<1>6. free \in Seq(F) /\ Len(free) = c /\ c \in Nat
  BY <1>4, <1>5, AscendingOf
<1>7. w = [k \in 1 .. Len(rs) |-> [rs[k] EXCEPT !.serial = free[k]]]
  BY <1>1 DEF Fresh
<1> HIDE DEF F, n, free, w, c
<1>8. \A k \in 1 .. Len(rs) : free[k] \in F
  <2> SUFFICES ASSUME NEW k \in 1 .. Len(rs) PROVE free[k] \in F
    OBVIOUS
  <2>1. k \in 1 .. Len(free)
    BY <1>1, <1>4, <1>6 DEF c
  <2> QED
    BY <1>6, <2>1, ElementOfSeq
<1>9. \A k \in 1 .. Len(rs) : w[k] \in Row /\ w[k].serial \notin used
  <2> SUFFICES ASSUME NEW k \in 1 .. Len(rs) PROVE w[k] \in Row /\ w[k].serial \notin used
    OBVIOUS
  <2>1. free[k] \in Nat /\ free[k] \notin used
    BY <1>5, <1>8 DEF F
  <2>2. rs[k] \in Row /\ w[k] = [rs[k] EXCEPT !.serial = free[k]]
    BY <1>1, <1>7
  <2>3. w[k] \in Row /\ w[k].serial = free[k]
    BY <2>1, <2>2 DEF Row
  <2> QED
    BY <2>1, <2>3
<1>10. w \in Seq(Row) /\ Len(w) = Len(rs)
  <2>1. w = [k \in 1 .. Len(rs) |-> w[k]]
    BY <1>7
  <2> QED
    BY <1>1, <1>9, <2>1, Mapped
<1> QED
  BY <1>9, <1>10 DEF w

LEMMA SerialsTyped ==
    ASSUME NEW rs \in Seq(Row)
    PROVE  SerialsOf(rs) \in SUBSET Nat /\ IsFiniteSet(SerialsOf(rs))
<1> DEFINE n == Len(rs)
           f == [k \in 1 .. n |-> rs[k].serial]
           S == SerialsOf(rs)
<1>1. n \in Nat /\ \A k \in 1 .. n : rs[k] \in Row
  BY RowAt
<1>2. S = {rs[k].serial : k \in 1 .. n}
  BY RowAt DEF SerialsOf
<1>3. f \in [1 .. n -> S] /\ \A x \in S : \E k \in 1 .. n : f[k] = x
  BY <1>2
<1>4. IsFiniteSet(1 .. n)
  BY <1>1, FS_Interval
<1>5. f \in Surjection(1 .. n, S)
  <2> HIDE DEF f, n, S
  <2> QED
    BY <1>3 DEF Surjection
<1>6. IsFiniteSet(S)
  BY <1>4, <1>5, FS_Surjection
<1>7. S \subseteq Nat
  BY <1>1, <1>2 DEF Row
<1> QED
  BY <1>6, <1>7

(* Rows with fresh serials come in at a place. *)
Inserted(w, rows, at, rs) ==
    /\ Len(w) = Len(rows) + Len(rs)
    /\ \A k \in 1 .. at - 1 : w[k] = rows[k]
    /\ \A k \in at .. at + Len(rs) - 1 : w[k].serial \notin SerialsOf(rows)
    /\ \A k \in at .. Len(rows) : w[Len(rs) + k] = rows[k]

LEMMA InsertFreshOf ==
    ASSUME NEW rows \in Seq(Row), NEW at \in 1 .. Len(rows) + 1, NEW rs \in Seq(Row),
           NEW held \in SUBSET Nat, IsFiniteSet(held)
    PROVE  /\ InsertFresh(rows, at, rs, held) \in Seq(Row)
           /\ Inserted(InsertFresh(rows, at, rs, held), rows, at, rs)
<1> DEFINE S == SerialsOf(rows)
           used == held \cup S
           mid == Fresh(rs, used)
           w == Splice(rows, at, at, mid)
<1>1. S \in SUBSET Nat /\ IsFiniteSet(S)
  BY SerialsTyped
<1> HIDE DEF S
<1>2. used \in SUBSET Nat /\ IsFiniteSet(used)
  BY <1>1, FS_Union
<1> HIDE DEF used
<1>3. /\ mid \in Seq(Row) /\ Len(mid) = Len(rs)
      /\ \A k \in 1 .. Len(rs) : mid[k].serial \notin used
  BY <1>2, FreshOf
<1> HIDE DEF mid
<1>4. Len(rows) \in Nat /\ at \in at .. Len(rows) + 1 /\ Len(rs) \in Nat
  BY RowAt
<1>5. w \in Seq(Row) /\ Spliced(w, rows, at, at, mid)
  BY <1>3, <1>4, SpliceOf
<1> HIDE DEF w
<1>6. Len(w) = Len(rows) + Len(rs) /\ \A k \in 1 .. at - 1 : w[k] = rows[k]
  BY <1>3, <1>4, <1>5 DEF Spliced
<1>7. \A k \in at .. at + Len(rs) - 1 : w[k].serial \notin S
  <2> SUFFICES ASSUME NEW k \in at .. at + Len(rs) - 1 PROVE w[k].serial \notin S
    OBVIOUS
  <2>1. PICK j : j = k - at + 1
    OBVIOUS
  <2>2. j \in 1 .. Len(rs) /\ at - 1 + j = k
    BY <1>4, <2>1
  <2>3. w[at - 1 + j] = mid[j]
    BY <1>3, <1>5, <2>2 DEF Spliced
  <2>4. mid[j].serial \notin used
    BY <1>3, <2>2
  <2> QED
    BY <2>2, <2>3, <2>4 DEF used
<1>8. \A k \in at .. Len(rows) : w[Len(rs) + k] = rows[k]
  <2> SUFFICES ASSUME NEW k \in at .. Len(rows) PROVE w[Len(rs) + k] = rows[k]
    OBVIOUS
  <2>1. at - at + Len(mid) + k = Len(rs) + k
    BY <1>3, <1>4
  <2>2. w[at - at + Len(mid) + k] = rows[k]
    BY <1>5 DEF Spliced
  <2> QED
    BY <2>1, <2>2
<1>9. InsertFresh(rows, at, rs, held) = w
  BY DEF InsertFresh, w, mid, used, S
<1> QED
  BY <1>5, <1>6, <1>7, <1>8, <1>9 DEF Inserted, S

(* insertBlockAt. *)
LEMMA InsertBlockOf ==
    ASSUME NEW rows \in Seq(Row), NEW at \in 1 .. Len(rows) + 1, NEW r \in Row,
           Len(rows) < MaxRows
    PROVE  /\ InsertBlockAt(rows, at, r, {}) \in Seq(Row)
           /\ Inserted(InsertBlockAt(rows, at, r, {}), rows, at, <<r>>)
<1> DEFINE one == <<r>>
<1>1. one \in Seq(Row)
  OBVIOUS
<1>2. {} \in SUBSET Nat /\ IsFiniteSet({})
  BY FS_EmptySet
<1>3. InsertBlockAt(rows, at, r, {}) = InsertFresh(rows, at, one, {})
  BY DEF InsertBlockAt
<1> HIDE DEF one
<1>4. /\ InsertFresh(rows, at, one, {}) \in Seq(Row)
      /\ Inserted(InsertFresh(rows, at, one, {}), rows, at, one)
  BY <1>1, <1>2, InsertFreshOf
<1> QED
  BY <1>3, <1>4 DEF one

LEMMA PackedOf ==
    ASSUME NEW rows \in Seq(Row), NEW from \in 1 .. Len(rows) + 1,
           NEW to \in from .. Len(rows) + 1
    PROVE  PackRows(rows, from, to) \in Seq(Row) /\ Len(PackRows(rows, from, to)) = to - from
<1> DEFINE w == PackRows(rows, from, to)
           n == to - from
<1>1. Len(rows) \in Nat /\ \A k \in 1 .. Len(rows) : rows[k] \in Row
  BY RowAt
<1>2. n \in Nat
  BY <1>1
<1>3. w = [k \in 1 .. n |-> [rows[from + k - 1] EXCEPT !.serial = 0]]
  BY DEF PackRows
<1>4. \A k \in 1 .. n : w[k] \in Row
  <2> SUFFICES ASSUME NEW k \in 1 .. n, NEW j, j = from + k - 1
               PROVE  [rows[j] EXCEPT !.serial = 0] \in Row
    BY <1>3
  <2>1. j \in 1 .. Len(rows)
    BY <1>1
  <2>2. rows[j] \in Row
    BY <1>1, <2>1
  <2> QED
    BY <2>2 DEF Row
<1>5. w = [k \in 1 .. n |-> w[k]]
  BY <1>3
<1> HIDE DEF w, n
<1>6. w \in Seq(Row) /\ Len(w) = n
  BY <1>2, <1>4, <1>5, Mapped
<1> QED
  BY <1>6 DEF w, n

(* What there is room for comes in; all of it when there is room for all.  *)
LEMMA UnpackedOf ==
    ASSUME NEW rows \in Seq(Row), Len(rows) <= MaxRows, NEW packed \in Seq(Row),
           NEW at \in 1 .. Len(rows) + 1, NEW depth \in Nat \cup {-1},
           NEW held \in SUBSET Nat, IsFiniteSet(held)
    PROVE  LET w == UnpackRows(rows, packed, at, depth, held)
           IN  /\ w \in Seq(Row) /\ Len(w) \in Len(rows) .. MaxRows
               /\ Len(rows) + Len(packed) <= MaxRows => Len(w) = Len(rows) + Len(packed)
               /\ \A k \in 1 .. at - 1 : w[k] = rows[k]
<1> DEFINE room == MaxRows - Len(rows)
           added == IF Len(packed) <= room THEN Len(packed) ELSE room
           put == [k \in 1 .. added |->
                     [packed[k] EXCEPT !.depth = IF depth >= 0 THEN depth ELSE @]]
           w == InsertFresh(rows, at, put, held)
<1>1. /\ Len(rows) \in Nat /\ Len(packed) \in Nat /\ MaxRows \in Nat
      /\ \A k \in 1 .. Len(packed) : packed[k] \in Row
  BY RowAt, BlocksAssumption
<1>2. added \in Nat /\ added <= Len(packed) /\ added <= MaxRows - Len(rows)
  BY <1>1
<1>3. Len(rows) + Len(packed) <= MaxRows => added = Len(packed)
  BY <1>1
<1> HIDE DEF added
<1>4. \A k \in 1 .. added : put[k] \in Row
  <2> SUFFICES ASSUME NEW k \in 1 .. added PROVE put[k] \in Row
    OBVIOUS
  <2> DEFINE d == IF depth >= 0 THEN depth ELSE packed[k].depth
  <2>1. packed[k] \in Row
    BY <1>1, <1>2
  <2>2. d \in Nat
    BY <2>1 DEF Row
  <2>3. put[k] = [packed[k] EXCEPT !.depth = d]
    OBVIOUS
  <2> HIDE DEF d, put
  <2> QED
    BY <2>1, <2>2, <2>3 DEF Row
<1>5. put \in Seq(Row) /\ Len(put) = added
  <2>1. put = [k \in 1 .. added |-> put[k]]
    OBVIOUS
  <2> HIDE DEF put
  <2> QED
    BY <1>2, <1>4, <2>1, Mapped
<1>6. UnpackRows(rows, packed, at, depth, held) = w
  BY DEF UnpackRows, added
<1> HIDE DEF put
<1>7. w \in Seq(Row) /\ Inserted(w, rows, at, put)
  BY <1>5, InsertFreshOf
<1> HIDE DEF w
<1>8. Len(w) = Len(rows) + added /\ \A k \in 1 .. at - 1 : w[k] = rows[k]
  BY <1>5, <1>7 DEF Inserted
<1>9. Len(w) \in Len(rows) .. MaxRows
  BY <1>1, <1>2, <1>8
<1> QED
  BY <1>3, <1>6, <1>7, <1>8, <1>9

-----------------------------------------------------------------------------
(* Extents.                                                                *)

LEMMA RunEnds ==
    ASSUME NEW n \in Nat, NEW i \in 0 .. n, NEW T, T \subseteq i + 1 .. n + 1, n + 1 \in T
    PROVE  /\ Least(T) \in i + 1 .. n + 1 /\ Least(T) \in T
           /\ \A j \in i + 1 .. Least(T) - 1 : j \in Nat /\ j \notin T
<1>1. T \subseteq Nat /\ T # {}
  OBVIOUS
<1> DEFINE m == Least(T)
<1>2. m \in T /\ \A j \in T : m <= j
  BY <1>1, LeastIn
<1> HIDE DEF m
<1>3. m \in i + 1 .. n + 1
  BY <1>2
<1>4. ASSUME NEW j \in i + 1 .. m - 1 PROVE j \in Nat /\ j \notin T
  BY <1>2, <1>3
<1> QED
  BY <1>2, <1>3, <1>4 DEF m

LEMMA GroupEndOf ==
    ASSUME NEW rows \in Seq(Row), NEW i \in 1 .. Len(rows)
    PROVE  GroupEnd(rows, i) \in i + 1 .. Len(rows) + 1
<1> DEFINE n == Len(rows)
           T == {j \in i + 1 .. n + 1 : j = n + 1 \/ ~rows[j].cont}
<1>1. n \in Nat
  BY RowAt
<1>2. GroupEnd(rows, i) = Least(T)
  BY DEF GroupEnd, EndOfRun
<1> HIDE DEF n
<1>3. i \in 0 .. n /\ T \subseteq i + 1 .. n + 1 /\ n + 1 \in T
  BY <1>1 DEF n
<1> HIDE DEF T
<1> QED
  BY <1>1, <1>2, <1>3, RunEnds DEF n

LEMMA ChildrenEndOf ==
    ASSUME NEW rows \in Seq(Row), NEW i \in 1 .. Len(rows)
    PROVE  DirectChildrenEnd(rows, i) \in i + 1 .. Len(rows) + 1
<1> DEFINE n == Len(rows)
           T == {j \in i + 1 .. n + 1 : j = n + 1 \/ ~(IsChild(rows[j]) /\ rows[j].parent = rows[i].id)}
<1>1. n \in Nat
  BY RowAt
<1>2. DirectChildrenEnd(rows, i) = Least(T)
  BY DEF DirectChildrenEnd, EndOfRun
<1> HIDE DEF n
<1>3. i \in 0 .. n /\ T \subseteq i + 1 .. n + 1 /\ n + 1 \in T
  BY <1>1 DEF n
<1> HIDE DEF T
<1> QED
  BY <1>1, <1>2, <1>3, RunEnds DEF n

LEMMA SubtreeEndOf ==
    ASSUME NEW rows \in Seq(Row), NEW i \in 1 .. Len(rows)
    PROVE  /\ SubtreeEnd(rows, i) \in i + 1 .. Len(rows) + 1
           /\ \A k \in i + 1 .. SubtreeEnd(rows, i) - 1 :
                 k \in 1 .. Len(rows) /\ rows[k].depth > rows[i].depth
<1> DEFINE n == Len(rows)
           T == {j \in i + 1 .. n + 1 : j = n + 1 \/ ~Below(rows, i, rows[j])}
           m == Least(T)
<1>1. n \in Nat
  BY RowAt
<1>2. SubtreeEnd(rows, i) = m
  BY DEF SubtreeEnd, EndOfRun
<1> HIDE DEF n
<1>3. i \in 0 .. n /\ T \subseteq i + 1 .. n + 1 /\ n + 1 \in T
  BY <1>1 DEF n
<1> HIDE DEF T
<1>4. m \in i + 1 .. n + 1 /\ \A j \in i + 1 .. m - 1 : j \in Nat /\ j \notin T
  BY <1>1, <1>3, RunEnds
<1> HIDE DEF m
<1>5. ASSUME NEW k \in i + 1 .. m - 1 PROVE k \in 1 .. n /\ rows[k].depth > rows[i].depth
  <2>1. k \in i + 1 .. n + 1 /\ k # n + 1 /\ k \in 1 .. n
    BY <1>1, <1>3, <1>4
  <2>2. Below(rows, i, rows[k])
    BY <1>4, <2>1 DEF T
  <2> QED
    BY <2>1, <2>2 DEF Below
<1> QED
  BY <1>2, <1>4, <1>5 DEF n

LEMMA UnitEndOf ==
    ASSUME NEW rows \in Seq(Row), NEW i \in 1 .. Len(rows)
    PROVE  UnitEnd(rows, i) \in i + 1 .. Len(rows) + 1
<1> DEFINE n == Len(rows)
           T == {j \in i + 1 .. n + 1 : j = n + 1 \/ ~(rows[j].cont \/ Below(rows, i, rows[j]))}
<1>1. n \in Nat
  BY RowAt
<1>2. UnitEnd(rows, i) = Least(T)
  BY DEF UnitEnd, EndOfRun
<1> HIDE DEF n
<1>3. i \in 0 .. n /\ T \subseteq i + 1 .. n + 1 /\ n + 1 \in T
  BY <1>1 DEF n
<1> HIDE DEF T
<1> QED
  BY <1>1, <1>2, <1>3, RunEnds DEF n

LEMMA GroupHeadOf ==
    ASSUME NEW rows, NEW i \in Nat \ {0}
    PROVE  GroupHead(rows, i) \in 1 .. i
<1> DEFINE T == {h \in 1 .. i : h = 1 \/ ~rows[h].cont}
<1>1. T \subseteq 0 .. i /\ T # {}
  <2>1. 1 \in T
    OBVIOUS
  <2> QED
    BY <2>1
<1>2. Greatest(T) \in T
  BY <1>1, GreatestIn
<1> QED
  BY <1>2 DEF GroupHead

-----------------------------------------------------------------------------
(* The toggle cache.                                                       *)

RowLists == {rs \in Seq(Row) : Len(rs) \in 1 .. MaxRows}
Caches == {c \in Seq(CacheEntry) : Len(c) <= ToggleSlots}

(* What the commands change: the rows and the toggle cache. *)
Screens == [rows : RowLists, cache : Caches]

LEMMA EvictOf ==
    ASSUME NEW cache \in Seq(CacheEntry), NEW id
    PROVE  /\ ToggleCacheEvict(cache, id) \in Seq(CacheEntry)
           /\ Len(ToggleCacheEvict(cache, id)) <= Len(cache)
BY AmongPart DEF ToggleCacheEvict

LEMMA EvictTyped ==
    ASSUME NEW cache \in Caches, NEW id
    PROVE  ToggleCacheEvict(cache, id) \in Caches
<1> DEFINE w == ToggleCacheEvict(cache, id)
<1>1. w \in Seq(CacheEntry) /\ Len(w) <= Len(cache)
  BY EvictOf DEF Caches
<1>2. Len(w) \in Nat /\ Len(cache) \in Nat /\ ToggleSlots \in Nat /\ Len(cache) <= ToggleSlots
  BY <1>1, BlocksAssumption DEF Caches
<1> HIDE DEF w
<1> QED
  BY <1>1, <1>2 DEF Caches, w

LEMMA StoreTyped ==
    ASSUME NEW cache \in Caches, NEW id \in Int, NEW packed \in Seq(Row)
    PROVE  ToggleCacheStore(cache, id, packed) \in Caches
<1> DEFINE others == ToggleCacheEvict(cache, id)
           first == <<[id |-> id, rows |-> packed]>>
           kept == IF Len(others) >= ToggleSlots THEN SubSeq(others, 1, ToggleSlots - 1)
                                                 ELSE others
           w == first \o kept
<1>1. others \in Seq(CacheEntry) /\ Len(others) \in Nat
  BY EvictTyped, RowAt DEF Caches
<1>2. first \in Seq(CacheEntry) /\ Len(first) = 1
  BY DEF CacheEntry
<1>3. ToggleSlots \in Nat /\ ToggleSlots >= 1
  BY BlocksAssumption
<1> HIDE DEF others, first
<1>4. kept \in Seq(CacheEntry) /\ Len(kept) <= ToggleSlots - 1
  <2>1. CASE Len(others) >= ToggleSlots
    <3> DEFINE part == SubSeq(others, 1, ToggleSlots - 1)
    <3>1. \A k \in 1 .. ToggleSlots - 1 : others[k] \in CacheEntry
      BY <1>1, <1>3, <2>1
    <3>2. /\ part \in Seq(CacheEntry)
          /\ Len(part) = IF 1 <= ToggleSlots - 1 THEN ToggleSlots - 1 - 1 + 1 ELSE 0
      BY <1>3, <3>1, SubSeqProperties
    <3> HIDE DEF part
    <3>3. Len(part) <= ToggleSlots - 1
      BY <1>3, <3>2
    <3>4. kept = part
      BY <2>1 DEF part
    <3> HIDE DEF kept
    <3> QED
      BY <3>2, <3>3, <3>4
  <2>2. CASE ~(Len(others) >= ToggleSlots)
    BY <1>1, <1>3, <2>2
  <2> QED
    BY <2>1, <2>2
<1> HIDE DEF kept
<1>5. w \in Seq(CacheEntry) /\ Len(w) = Len(first) + Len(kept) /\ Len(kept) \in Nat
  BY <1>2, <1>4, ConcatProperties, LenProperties
<1> HIDE DEF w
<1>6. Len(w) <= ToggleSlots
  BY <1>2, <1>3, <1>4, <1>5
<1>7. ToggleCacheStore(cache, id, packed) = w
  BY DEF ToggleCacheStore, w, first, kept, others
<1> QED
  BY <1>5, <1>6, <1>7 DEF Caches

(* A row changed in place. *)
LEMMA RowChanged ==
    ASSUME NEW rows \in RowLists, NEW i \in 1 .. Len(rows), NEW r \in Row
    PROVE  LET w == [rows EXCEPT ![i] = r]
           IN  /\ w \in RowLists /\ Len(w) = Len(rows) /\ w[i] = r
               /\ \A k \in 1 .. Len(rows) : k # i => w[k] = rows[k]
<1> DEFINE w == [rows EXCEPT ![i] = r]
<1>1. rows \in Seq(Row) /\ Len(rows) \in 1 .. MaxRows
  BY DEF RowLists
<1>2. w \in Seq(Row) /\ Len(w) = Len(rows) /\ w[i] = r /\ \A k \in 1 .. Len(rows) : k # i => w[k] = rows[k]
  BY <1>1, ExceptSeq
<1> QED
  BY <1>1, <1>2 DEF RowLists

LEMMA ScreenFields ==
    ASSUME NEW s \in Screens
    PROVE  /\ s.rows \in Seq(Row) /\ Len(s.rows) \in 1 .. MaxRows /\ s.rows \in RowLists
           /\ s.cache \in Caches
BY DEF Screens, RowLists

LEMMA CloseOneOf ==
    ASSUME NEW s \in Screens, NEW t \in 1 .. Len(s.rows)
    PROVE  /\ CloseOne(s, t) \in Screens /\ Len(CloseOne(s, t).rows) >= t
           /\ CloseOne(s, t).rows[1].serial = s.rows[1].serial
<1> DEFINE rows == s.rows
           row == [rows[t] EXCEPT !.open = FALSE]
           shut == [rows EXCEPT ![t] = row]
           end == DirectChildrenEnd(rows, t)
<1>1. /\ rows \in Seq(Row) /\ Len(rows) \in 1 .. MaxRows /\ rows \in RowLists
      /\ s.cache \in Caches /\ MaxRows \in Nat /\ rows[t] \in Row /\ t \in 1 .. Len(rows)
  BY ScreenFields, RowAt, BlocksAssumption
<1>2. row \in Row /\ row.serial = rows[t].serial
  BY <1>1 DEF Row
<1>3. end \in t + 1 .. Len(rows) + 1
  BY <1>1, ChildrenEndOf
<1> HIDE DEF row, end
<1>4. shut \in RowLists /\ Len(shut) = Len(rows) /\ shut[1].serial = rows[1].serial
  <2>1. /\ shut \in RowLists /\ Len(shut) = Len(rows) /\ shut[t] = row
        /\ \A k \in 1 .. Len(rows) : k # t => shut[k] = rows[k]
    BY <1>1, <1>2, RowChanged
  <2> HIDE DEF shut
  <2>2. 1 \in 1 .. Len(rows)
    BY <1>1
  <2>3. CASE t = 1
    BY <1>2, <2>1, <2>3
  <2>4. CASE t # 1
    BY <2>1, <2>2, <2>4
  <2> QED
    BY <2>1, <2>3, <2>4
<1> DEFINE left == EraseRows(shut, t + 1, end)
           packed == PackRows(rows, t + 1, end)
           stored == ToggleCacheStore(s.cache, rows[t].id, packed)
<1>5. CASE end = t + 1
  <2>1. CloseOne(s, t) = [s EXCEPT !.rows = shut]
    BY <1>5 DEF CloseOne, row, end
  <2> HIDE DEF shut
  <2>2. [s EXCEPT !.rows = shut] = [rows |-> shut, cache |-> s.cache]
    BY DEF Screens
  <2>3. Len(shut) >= t
    BY <1>1, <1>4
  <2> QED
    BY <1>1, <1>4, <2>1, <2>2, <2>3 DEF Screens
<1>6. CASE end # t + 1
  <2>1. CloseOne(s, t) = [rows |-> left, cache |-> stored]
    <3>1. shut = [rows EXCEPT ![t].open = FALSE]
      BY DEF row
    <3> HIDE DEF shut
    <3> QED
      BY <1>6, <3>1 DEF CloseOne, end
  <2> HIDE DEF shut
  <2>2. /\ shut \in Seq(Row) /\ t + 1 \in 1 .. Len(shut) + 1
        /\ end \in t + 1 .. Len(shut) + 1
    BY <1>1, <1>3, <1>4 DEF RowLists
  <2>3. /\ left \in Seq(Row) /\ Len(left) = Len(shut) - (end - (t + 1))
        /\ \A k \in 1 .. t + 1 - 1 : left[k] = shut[k]
    <3> DEFINE f == t + 1
    <3> HIDE DEF f
    <3>1. /\ EraseRows(shut, f, end) \in Seq(Row)
          /\ Len(EraseRows(shut, f, end)) = Len(shut) - (end - f)
          /\ \A k \in 1 .. f - 1 : EraseRows(shut, f, end)[k] = shut[k]
      BY <2>2, EraseOf DEF f
    <3> QED
      BY <3>1 DEF f
  <2>4. packed \in Seq(Row)
    BY <1>1, <1>3, <1>4, <2>2, PackedOf
  <2>5. stored \in Caches
    <3>1. rows[t].id \in Int
      BY <1>1 DEF Row
    <3> HIDE DEF packed
    <3> QED
      BY <1>1, <2>4, <3>1, StoreTyped
  <2> HIDE DEF left, stored
  <2>6. Len(left) \in 1 .. MaxRows /\ Len(left) >= t
    BY <1>1, <1>3, <1>4, <2>3
  <2>7. left[1] = shut[1]
    BY <1>1, <2>3
  <2> QED
    BY <1>4, <2>1, <2>3, <2>5, <2>6, <2>7 DEF Screens, RowLists
<1> QED
  BY <1>5, <1>6

LEMMA InnermostOf ==
    ASSUME NEW rows \in Seq(Row), NEW i \in 1 .. Len(rows), OpenInside(rows, i) # {}
    PROVE  Innermost(rows, i) \in i .. Len(rows)
<1> DEFINE n == Len(rows)
           S == OpenInside(rows, i)
           E == {SubtreeEnd(rows, k) : k \in S}
           e == Least(E)
           L == {k \in S : SubtreeEnd(rows, k) = e}
           m == Greatest(L)
<1>1. n \in Nat
  BY RowAt
<1>2. S \subseteq i .. n
  <2>1. SubtreeEnd(rows, i) \in i + 1 .. n + 1
    BY SubtreeEndOf
  <2>2. ASSUME NEW k \in i .. SubtreeEnd(rows, i) - 1 PROVE k \in i .. n
    BY <1>1, <2>1
  <2> QED
    BY <2>2 DEF OpenInside
<1> HIDE DEF n, S
<1>3. \A k \in S : SubtreeEnd(rows, k) \in Nat
  <2> SUFFICES ASSUME NEW k \in S PROVE SubtreeEnd(rows, k) \in Nat
    OBVIOUS
  <2>1. k \in 1 .. n
    BY <1>1, <1>2
  <2>2. SubtreeEnd(rows, k) \in k + 1 .. n + 1
    BY <2>1, SubtreeEndOf DEF n
  <2> QED
    BY <1>1, <2>1, <2>2
<1>4. E \subseteq Nat /\ E # {}
  BY <1>3 DEF S
<1>5. e \in E /\ \A x \in E : e <= x
  BY <1>4, LeastIn
<1> HIDE DEF e
<1>6. L \subseteq 0 .. n /\ L # {}
  BY <1>2, <1>5
<1>7. m \in L /\ \A k \in L : k <= m
  BY <1>1, <1>6, GreatestIn
<1> HIDE DEF m
<1>8. \A j \in S : \/ SubtreeEnd(rows, m) < SubtreeEnd(rows, j)
                   \/ SubtreeEnd(rows, m) = SubtreeEnd(rows, j) /\ m >= j
  <2> SUFFICES ASSUME NEW j \in S
               PROVE  \/ SubtreeEnd(rows, m) < SubtreeEnd(rows, j)
                      \/ SubtreeEnd(rows, m) = SubtreeEnd(rows, j) /\ m >= j
    OBVIOUS
  <2> DEFINE ej == SubtreeEnd(rows, j)
             em == SubtreeEnd(rows, m)
  <2>1. em = e /\ e <= ej /\ ej \in Nat /\ e \in Nat
    BY <1>3, <1>4, <1>5, <1>7
  <2>2. ej = e => j <= m
    BY <1>7
  <2>3. j \in Nat /\ m \in Nat
    BY <1>2, <1>7
  <2> HIDE DEF ej, em
  <2>4. em < ej \/ (em = ej /\ m >= j)
    BY <2>1, <2>2, <2>3
  <2> QED
    BY <2>4 DEF ej, em
<1>9. Innermost(rows, i) \in S
  BY <1>7, <1>8 DEF Innermost, S
<1> QED
  BY <1>2, <1>9 DEF n

LEMMA CloseNextOf ==
    ASSUME NEW s \in Screens, NEW i \in 1 .. Len(s.rows)
    PROVE  /\ CloseNext(s, i) \in Screens /\ Len(CloseNext(s, i).rows) >= i
           /\ CloseNext(s, i).rows[1].serial = s.rows[1].serial
<1>1. CASE OpenInside(s.rows, i) = {}
  BY <1>1 DEF CloseNext
<1>2. CASE OpenInside(s.rows, i) # {}
  <2> DEFINE t == Innermost(s.rows, i)
             w == CloseOne(s, t)
  <2>1. t \in i .. Len(s.rows) /\ s.rows \in Seq(Row)
    BY <1>2, InnermostOf, ScreenFields
  <2>2. CloseNext(s, i) = w
    BY <1>2 DEF CloseNext
  <2> HIDE DEF t
  <2>3. t \in 1 .. Len(s.rows)
    BY <2>1
  <2>4. w \in Screens /\ Len(w.rows) >= t /\ w.rows[1].serial = s.rows[1].serial
    BY <2>3, CloseOneOf
  <2> HIDE DEF w
  <2>5. Len(w.rows) \in Nat
    BY <2>4, ScreenFields, RowAt
  <2>6. Len(w.rows) >= i
    BY <2>1, <2>4, <2>5
  <2> QED
    BY <2>2, <2>4, <2>6
<1> QED
  BY <1>1, <1>2

LEMMA CloseToggleOf ==
    ASSUME NEW rows \in RowLists, NEW cache \in Caches, NEW i \in 1 .. Len(rows)
    PROVE  /\ CloseToggleAt(rows, cache, i) \in Screens
           /\ CloseToggleAt(rows, cache, i).rows[1].serial = rows[1].serial
<1> DEFINE N == Cardinality(OpenInside(rows, i))
           first == [rows |-> rows, cache |-> cache]
           G == {s \in Screens : Len(s.rows) >= i /\ s.rows[1].serial = rows[1].serial}
           step == [s \in G |-> CloseNext(s, i)]
           closed == CHOOSE g : g = [k \in 0 .. N |-> IF k = 0 THEN first
                                                      ELSE CloseNext(g[k - 1], i)]
<1>0. rows \in Seq(Row) /\ Len(rows) \in Nat
  BY RowAt DEF RowLists
<1>1. N \in Nat
  <2>1. SubtreeEnd(rows, i) \in i + 1 .. Len(rows) + 1
    BY <1>0, SubtreeEndOf
  <2>2. SubtreeEnd(rows, i) - 1 \in Int /\ i \in Int
    BY <1>0, <2>1
  <2>3. IsFiniteSet(i .. SubtreeEnd(rows, i) - 1)
    BY <2>2, FS_Interval
  <2>4. IsFiniteSet(OpenInside(rows, i))
    BY <2>3, FS_Subset DEF OpenInside
  <2> QED
    BY <2>4, FS_CardinalityType
<1>2. first \in G
  <2>1. first \in Screens /\ Len(rows) >= i
    BY <1>0 DEF Screens
  <2> QED
    BY <2>1
<1>3. \A s \in G : CloseNext(s, i) \in G
  <2> SUFFICES ASSUME NEW s \in G PROVE CloseNext(s, i) \in G
    OBVIOUS
  <2>1. Len(s.rows) \in Nat
    BY ScreenFields, RowAt
  <2>2. i \in 1 .. Len(s.rows)
    BY <1>0, <2>1
  <2> QED
    BY <2>2, CloseNextOf
<1>4. CloseToggleAt(rows, cache, i) = closed[N]
  BY DEF CloseToggleAt
<1> HIDE DEF N, G, first
<1>5. \E g : g = [k \in 0 .. N |-> IF k = 0 THEN first ELSE CloseNext(g[k - 1], i)]
  <2> HIDE DEF closed
  <2>1. \A s \in G : step[s] = CloseNext(s, i) /\ step[s] \in G
    BY <1>3
  <2> HIDE DEF step
  <2>2. PICK f : Repeats(f, N, first, step)
    BY <1>1, RepeatsExist
  <2>3. f = [k \in 0 .. N |-> IF k = 0 THEN first ELSE step[f[k - 1]]]
    BY <2>2 DEF Repeats
  <2>4. f[0] = first /\ \A k \in 1 .. N : f[k] = step[f[k - 1]]
    BY <1>1, <2>3
  <2> DEFINE T == {k \in 0 .. N : f[k] \in G}
  <2>5. 0 \in T
    BY <1>1, <1>2, <2>4
  <2>6. ASSUME NEW k \in 1 .. N, k - 1 \in T PROVE k \in T
    <3>1. f[k] = step[f[k - 1]] /\ f[k - 1] \in G
      BY <2>4, <2>6
    <3>2. f[k] \in G /\ k \in 0 .. N
      BY <2>1, <3>1
    <3> QED
      BY <3>2
  <2> HIDE DEF T
  <2>7. 0 .. N \subseteq T
    BY <1>1, <2>5, <2>6, StaysTo
  <2>8. \A k \in 1 .. N : step[f[k - 1]] = CloseNext(f[k - 1], i)
    <3> SUFFICES ASSUME NEW k \in 1 .. N PROVE step[f[k - 1]] = CloseNext(f[k - 1], i)
      OBVIOUS
    <3>1. k - 1 \in 0 .. N
      BY <1>1
    <3>2. f[k - 1] \in G
      BY <2>7, <3>1 DEF T
    <3> QED
      BY <2>1, <3>2
  <2> DEFINE h == [k \in 0 .. N |-> IF k = 0 THEN first ELSE CloseNext(f[k - 1], i)]
  <2>9. f = h
    <3>1. \A k \in 0 .. N : k # 0 => k \in 1 .. N
      BY <1>1
    <3>2. \A k \in 0 .. N : (IF k = 0 THEN first ELSE step[f[k - 1]])
                              = (IF k = 0 THEN first ELSE CloseNext(f[k - 1], i))
      BY <2>8, <3>1
    <3> QED
      BY <2>3, <3>2
  <2> QED
    BY <2>9
<1>6. closed = [k \in 0 .. N |-> IF k = 0 THEN first ELSE CloseNext(closed[k - 1], i)]
  BY <1>5
<1> HIDE DEF closed
<1> DEFINE T == {k \in 0 .. N : closed[k] \in G}
<1>7. 0 \in T
  BY <1>1, <1>2, <1>6
<1>8. ASSUME NEW k \in 1 .. N, k - 1 \in T PROVE k \in T
  <2>1. closed[k] = CloseNext(closed[k - 1], i) /\ closed[k - 1] \in G
    BY <1>1, <1>6, <1>8
  <2>2. closed[k] \in G /\ k \in 0 .. N
    BY <1>3, <2>1
  <2> QED
    BY <2>2
<1> HIDE DEF T
<1>9. 0 .. N \subseteq T
  BY <1>1, <1>7, <1>8, StaysTo
<1>10. closed[N] \in G
  BY <1>1, <1>9 DEF T
<1> QED
  BY <1>4, <1>10 DEF G

-----------------------------------------------------------------------------
(* Rows changed where they are.                                            *)

(* The rows are the same ones, whatever was written in them. *)
InPlace(w, rows) ==
    /\ Len(w) = Len(rows)
    /\ \A k \in 1 .. Len(rows) : w[k].serial = rows[k].serial

LEMMA InPlaceIn ==
    ASSUME NEW u, NEW v, NEW w, InPlace(u, v), InPlace(v, w)
    PROVE  InPlace(u, w)
BY DEF InPlace

LEMMA EachChanged ==
    ASSUME NEW rows \in RowLists, NEW w, w = [k \in DOMAIN rows |-> w[k]],
           \A k \in 1 .. Len(rows) : w[k] \in Row /\ w[k].serial = rows[k].serial
    PROVE  w \in RowLists /\ InPlace(w, rows)
<1>1. rows \in Seq(Row) /\ Len(rows) \in 1 .. MaxRows /\ Len(rows) \in Nat
      /\ DOMAIN rows = 1 .. Len(rows)
  BY RowAt DEF RowLists
<1>2. w \in Seq(Row) /\ Len(w) = Len(rows)
  BY <1>1, Mapped
<1> QED
  BY <1>1, <1>2 DEF RowLists, InPlace

LEMMA OneChanged ==
    ASSUME NEW rows \in RowLists, NEW i, NEW r,
           i \in 1 .. Len(rows) => r \in Row /\ r.serial = rows[i].serial
    PROVE  [rows EXCEPT ![i] = r] \in RowLists /\ InPlace([rows EXCEPT ![i] = r], rows)
<1> DEFINE w == [rows EXCEPT ![i] = r]
<1>1. DOMAIN rows = 1 .. Len(rows) /\ \A k \in 1 .. Len(rows) : rows[k] \in Row
  BY RowAt DEF RowLists
<1>2. w = [k \in DOMAIN rows |-> w[k]]
  OBVIOUS
<1>3. \A k \in 1 .. Len(rows) : w[k] = IF k = i THEN r ELSE rows[k]
  BY <1>1
<1> HIDE DEF w
<1>4. \A k \in 1 .. Len(rows) : w[k] \in Row /\ w[k].serial = rows[k].serial
  BY <1>1, <1>3
<1>5. w \in RowLists /\ InPlace(w, rows)
  BY <1>2, <1>4, EachChanged
<1> QED
  BY <1>5 DEF w

LEMMA RowInList ==
    ASSUME NEW rows \in RowLists
    PROVE  /\ rows \in Seq(Row) /\ Len(rows) \in 1 .. MaxRows /\ Len(rows) \in Nat
           /\ DOMAIN rows = 1 .. Len(rows) /\ MaxRows \in Nat
           /\ \A k \in 1 .. Len(rows) : rows[k] \in Row
BY RowAt, BlocksAssumption DEF RowLists

(* One field written. *)
LEMMA FieldTyped ==
    ASSUME NEW r \in Row, NEW b \in BOOLEAN
    PROVE  /\ [r EXCEPT !.cont = b] \in Row  /\ [r EXCEPT !.cont = b].serial = r.serial
           /\ [r EXCEPT !.open = b] \in Row  /\ [r EXCEPT !.open = b].serial = r.serial
           /\ [r EXCEPT !.dirty = b] \in Row /\ [r EXCEPT !.dirty = b].serial = r.serial
           /\ [r EXCEPT !.kidsLeft = b] \in Row /\ [r EXCEPT !.kidsLeft = b].serial = r.serial
BY DEF Row

LEMMA RecreateTyped ==
    ASSUME NEW r \in Row
    PROVE  Recreate(r) \in Row /\ Recreate(r).serial = r.serial
BY DEF Recreate, Row

LEMMA MovedTyped ==
    ASSUME NEW r \in Row, NEW parent \in Int, NEW depth \in Nat
    PROVE  /\ ReParent(r, parent, depth) \in Row /\ ReParent(r, parent, depth).serial = r.serial
           /\ MovedTo(r, parent, depth) \in Row /\ MovedTo(r, parent, depth).serial = r.serial
<1> DEFINE m == ReParent(r, parent, depth)
<1>1. m \in Row /\ m.serial = r.serial
  BY DEF ReParent, Row
<1> HIDE DEF m
<1> DEFINE c == Recreate(m)
<1>2. c \in Row /\ c.serial = r.serial
  BY <1>1, RecreateTyped
<1> HIDE DEF c
<1> DEFINE l == [c EXCEPT !.leftParent = TRUE]
<1>3. l \in Row /\ l.serial = r.serial
  BY <1>2 DEF Row
<1>4. MovedTo(r, parent, depth) = l
  BY DEF MovedTo, l, c, m
<1> QED
  BY <1>1, <1>3, <1>4 DEF m

-----------------------------------------------------------------------------
(* The commands of Edits.                                                  *)

(* doAddBlock's new row goes below the selected one. *)
LEMMA AddPlaceOf ==
    ASSUME NEW rows \in RowLists, NEW i \in 1 .. Len(rows)
    PROVE  LET at == AddPlace(rows, i)
           IN  /\ at.at \in i + 1 .. Len(rows) + 1
               /\ at.parent \in Int /\ at.depth \in Nat /\ at.after \in Int
<1> DEFINE cur == rows[i]
           inToggle == IsToggle(cur) /\ cur.open
           sibling  == ~IsToggle(cur) /\ IsChild(cur) /\ cur.parent # NoId
           n == Len(rows)
           at == IF cur.kind = "title" \/ inToggle \/ sibling
                 THEN i + 1 ELSE DirectChildrenEnd(rows, i)
           last == at - 1
           to == GroupEnd(rows, last)
           w == AddPlace(rows, i)
<1>1. rows \in Seq(Row) /\ n \in Nat /\ cur \in Row
  BY RowInList
<1>2. at \in i + 1 .. n + 1
  BY <1>1, ChildrenEndOf
<1>3. to \in last + 1 .. n + 1
  <2>1. last \in 1 .. n
    BY <1>1, <1>2
  <2> HIDE DEF last
  <2> QED
    BY <1>1, <2>1, GroupEndOf
<1>4. to \in i + 1 .. n + 1
  BY <1>1, <1>2, <1>3
<1>5. /\ w.at = to
      /\ w.parent = IF inToggle THEN cur.id ELSE IF sibling THEN cur.parent ELSE Page
      /\ w.depth = IF inToggle THEN cur.depth + 1 ELSE IF sibling THEN cur.depth ELSE 0
      /\ w.after = IF inToggle \/ cur.kind = "title" THEN NoId ELSE cur.id
  BY DEF AddPlace, GroupEnd
<1>6. cur.id \in Int /\ cur.parent \in Int /\ cur.depth \in Nat
  BY <1>1 DEF Row
<1> HIDE DEF to, w, cur, inToggle, sibling
<1>7. w.at \in i + 1 .. n + 1 /\ w.parent \in Int /\ w.depth \in Nat /\ w.after \in Int
  BY <1>4, <1>5, <1>6 DEF Page, NoId
<1> QED
  BY <1>7 DEF w

(* One piece of a split block goes. *)
LEMMA PieceDeletedOf ==
    ASSUME NEW rows \in RowLists, NEW i \in 2 .. Len(rows)
    PROVE  PieceDeleted(rows, i) \in RowLists
<1> DEFINE left == EraseRows(rows, i, i + 1)
           next == IF rows[i].cont THEN left ELSE [left EXCEPT ![i].cont = FALSE]
           head == GroupHead(next, IF rows[i].cont THEN i - 1 ELSE i)
           row == [next[head] EXCEPT !.dirty = TRUE]
<1>1. rows \in Seq(Row) /\ Len(rows) \in 1 .. MaxRows /\ MaxRows \in Nat
  BY RowInList
<1>2. left \in RowLists
  <2>1. i \in 1 .. Len(rows) + 1 /\ i + 1 \in i .. Len(rows) + 1
    BY <1>1
  <2> DEFINE to == i + 1
  <2> HIDE DEF to
  <2>2. EraseRows(rows, i, to) \in Seq(Row) /\ Len(EraseRows(rows, i, to)) = Len(rows) - (to - i)
    BY <1>1, <2>1, EraseOf DEF to
  <2>3. left \in Seq(Row) /\ Len(left) = Len(rows) - 1
    BY <1>1, <2>2 DEF to
  <2> HIDE DEF left
  <2> QED
    BY <1>1, <2>3 DEF RowLists
<1> HIDE DEF left
<1>3. next \in RowLists
  <2> DEFINE r == [left[i] EXCEPT !.cont = FALSE]
  <2>1. i \in 1 .. Len(left) => r \in Row /\ r.serial = left[i].serial
    BY <1>2, RowInList, FieldTyped
  <2> HIDE DEF r
  <2>2. [left EXCEPT ![i] = r] \in RowLists
    BY <1>2, <2>1, OneChanged
  <2> QED
    BY <1>2, <2>2 DEF r
<1> HIDE DEF next, head
<1>4. head \in 1 .. Len(next) => row \in Row /\ row.serial = next[head].serial
  BY <1>3, RowInList, FieldTyped
<1>5. PieceDeleted(rows, i) = [next EXCEPT ![head] = row]
  BY DEF PieceDeleted, row, head, next, left
<1> HIDE DEF row
<1>6. [next EXCEPT ![head] = row] \in RowLists
  BY <1>3, <1>4, OneChanged
<1> QED
  BY <1>5, <1>6

(* A toggle's children leave it or are re-created inside it. *)
LEMMA ChildrenMoved ==
    ASSUME NEW rows \in RowLists, NEW h \in 1 .. Len(rows), NEW kind
    PROVE  /\ MoveChildrenForRetype(rows, h, kind) \in RowLists
           /\ InPlace(MoveChildrenForRetype(rows, h, kind), rows)
<1> DEFINE t == rows[h]
           out == kind \notin Toggles
           Leave(c) == IF c.parent = t.id
                       THEN [c EXCEPT !.parent = t.parent, !.leftParent = TRUE] ELSE c
           Child(c) == LET m == IF out THEN [Leave(c) EXCEPT !.depth = @ - 1] ELSE c
                       IN  IF c.cont THEN m ELSE [Recreate(m) EXCEPT !.saveFirst = out]
           head == [t EXCEPT !.hasKids = @ /\ ~out, !.kidsLeft = @ \/ out]
           base == [rows EXCEPT ![h] = head]
           end == SubtreeEnd(rows, h)
           w == Change(base, h + 1, end, Child)
<1>1. /\ rows \in Seq(Row) /\ Len(rows) \in Nat /\ t \in Row
      /\ \A k \in 1 .. Len(rows) : rows[k] \in Row
  BY RowInList
<1>2. head \in Row /\ head.serial = t.serial
  <2> DEFINE kids == t.hasKids /\ ~out
             left == t.kidsLeft \/ out
  <2>1. kids \in BOOLEAN /\ left \in BOOLEAN
    OBVIOUS
  <2>2. head = [t EXCEPT !.hasKids = kids, !.kidsLeft = left]
    OBVIOUS
  <2> HIDE DEF kids, left, head, t
  <2> QED
    BY <1>1, <2>1, <2>2 DEF Row
<1>3. base \in RowLists /\ InPlace(base, rows)
  <2> HIDE DEF head
  <2> QED
    BY <1>2, OneChanged
<1>4. \A k \in 1 .. Len(rows) : k # h => base[k] = rows[k]
  BY <1>1, RowInList
<1>5. \A k \in h + 1 .. end - 1 : k \in 1 .. Len(rows) /\ rows[k].depth > t.depth
  BY <1>1, SubtreeEndOf
<1>6. MoveChildrenForRetype(rows, h, kind) = w
  <2>1. base = [rows EXCEPT ![h].hasKids  = @ /\ ~out, ![h].kidsLeft = @ \/ out]
    BY <1>1, RowInList
  <2> HIDE DEF base
  <2> QED
    BY <2>1 DEF MoveChildrenForRetype
<1>7. ASSUME NEW c \in Row, c.depth > t.depth
      PROVE  Child(c) \in Row /\ Child(c).serial = c.serial
  <2> DEFINE l == Leave(c)
             m == IF out THEN [l EXCEPT !.depth = @ - 1] ELSE c
             r == Recreate(m)
             x == [r EXCEPT !.saveFirst = out]
  <2>1. t.parent \in Int /\ t.depth \in Nat
    BY <1>1 DEF Row
  <2>2. l \in Row /\ l.serial = c.serial /\ l.depth = c.depth
    BY <2>1 DEF Row
  <2> HIDE DEF l
  <2>3. c.depth - 1 \in Nat
    BY <1>7, <2>1 DEF Row
  <2>4. m \in Row /\ m.serial = c.serial
    BY <2>2, <2>3 DEF Row
  <2>5. Child(c) = IF c.cont THEN m ELSE x
    BY DEF l
  <2> HIDE DEF m, Child
  <2>6. r \in Row /\ r.serial = c.serial
    BY <2>4, RecreateTyped
  <2> HIDE DEF r
  <2>7. x \in Row /\ x.serial = c.serial
    BY <2>6 DEF Row
  <2> QED
    BY <2>4, <2>5, <2>7
<1> HIDE DEF end, base, Child, head
<1>8. DOMAIN base = 1 .. Len(rows) /\ Len(base) = Len(rows)
      /\ \A k \in 1 .. Len(rows) : base[k] \in Row /\ base[k].serial = rows[k].serial
  BY <1>1, <1>3, RowInList DEF InPlace
<1>9. w = [k \in DOMAIN base |-> IF k \in h + 1 .. end - 1 THEN Child(base[k]) ELSE base[k]]
  BY DEF Change
<1>10. w = [k \in DOMAIN base |-> w[k]]
  BY <1>9
<1> HIDE DEF w
<1>11. \A k \in 1 .. Len(base) : w[k] \in Row /\ w[k].serial = base[k].serial
  <2> SUFFICES ASSUME NEW k \in 1 .. Len(rows)
               PROVE  w[k] \in Row /\ w[k].serial = base[k].serial
    BY <1>8
  <2>1. CASE k \in h + 1 .. end - 1
    <3>1. k # h
      BY <1>1, <2>1
    <3>2. base[k] = rows[k] /\ rows[k].depth > t.depth
      BY <1>4, <1>5, <2>1, <3>1
    <3>3. base[k] \in Row /\ base[k].depth > t.depth
      BY <1>8, <3>2
    <3>4. Child(base[k]) \in Row /\ Child(base[k]).serial = base[k].serial
      BY <1>7, <3>3
    <3> QED
      BY <1>8, <1>9, <2>1, <3>4
  <2>2. CASE k \notin h + 1 .. end - 1
    BY <1>8, <1>9, <2>2
  <2> QED
    BY <2>1, <2>2
<1>12. w \in RowLists /\ InPlace(w, base)
  BY <1>3, <1>10, <1>11, EachChanged
<1> QED
  BY <1>3, <1>6, <1>12, InPlaceIn

LEMMA RetypeOf ==
    ASSUME NEW rows \in RowLists, NEW i \in 1 .. Len(rows), NEW kind \in Kinds
    PROVE  RetypeBlock(rows, i, kind) \in RowLists /\ InPlace(RetypeBlock(rows, i, kind), rows)
<1> DEFINE h == GroupHead(rows, i)
           moved == IF IsToggle(rows[h]) THEN MoveChildrenForRetype(rows, h, kind) ELSE rows
           r == [Recreate(moved[h]) EXCEPT !.open = kind \in Toggles]
           head == [moved EXCEPT ![h] = r]
           F(x) == [x EXCEPT !.kind = kind]
           w == Change(head, h, GroupEnd(rows, h), F)
<1>1. h \in 1 .. Len(rows)
  <2>1. i \in Nat \ {0} /\ Len(rows) \in Nat
    BY RowInList
  <2>2. h \in 1 .. i
    BY <2>1, GroupHeadOf
  <2> HIDE DEF h
  <2> QED
    BY <2>1, <2>2
<1>2. RetypeBlock(rows, i, kind) = w
  BY DEF RetypeBlock
<1> HIDE DEF h
<1>3. moved \in RowLists /\ InPlace(moved, rows)
  BY <1>1, ChildrenMoved DEF InPlace
<1> HIDE DEF moved
<1>4. h \in 1 .. Len(moved) /\ moved[h] \in Row
  BY <1>1, <1>3, RowInList DEF InPlace
<1>5. r \in Row /\ r.serial = moved[h].serial
  <2> DEFINE c == Recreate(moved[h])
  <2>1. c \in Row /\ c.serial = moved[h].serial
    BY <1>4, RecreateTyped
  <2> HIDE DEF c
  <2> DEFINE b == kind \in Toggles
  <2>2. b \in BOOLEAN
    OBVIOUS
  <2> HIDE DEF b
  <2>3. [c EXCEPT !.open = b] \in Row /\ [c EXCEPT !.open = b].serial = c.serial
    BY <2>1, <2>2, FieldTyped
  <2> QED
    BY <2>1, <2>3 DEF c, b
<1> HIDE DEF r
<1>6. head \in RowLists /\ InPlace(head, moved)
  BY <1>3, <1>5, OneChanged
<1> HIDE DEF head
<1>7. \A x \in Row : F(x) \in Row /\ F(x).serial = x.serial
  BY DEF Row
<1> HIDE DEF F
<1>8. w = [k \in DOMAIN head |-> IF k \in h .. GroupEnd(rows, h) - 1 THEN F(head[k]) ELSE head[k]]
  BY DEF Change
<1>9. w = [k \in DOMAIN head |-> w[k]]
  BY <1>8
<1> HIDE DEF w
<1>10. \A k \in 1 .. Len(head) : w[k] \in Row /\ w[k].serial = head[k].serial
  <2> SUFFICES ASSUME NEW k \in 1 .. Len(head)
               PROVE  w[k] \in Row /\ w[k].serial = head[k].serial
    OBVIOUS
  <2>1. head[k] \in Row /\ k \in DOMAIN head
    BY <1>6, RowInList
  <2>2. w[k] = F(head[k]) \/ w[k] = head[k]
    BY <1>8, <2>1
  <2> QED
    BY <1>7, <2>1, <2>2
<1>11. w \in RowLists /\ InPlace(w, head)
  BY <1>6, <1>9, <1>10, EachChanged
<1>12. InPlace(w, moved)
  BY <1>6, <1>11, InPlaceIn
<1>13. InPlace(w, rows)
  BY <1>3, <1>12, InPlaceIn
<1> QED
  BY <1>2, <1>11, <1>13

(* doIndentBlock looks for the toggle above the block. *)
LEMMA IndentParentOf ==
    ASSUME NEW rows \in RowLists, NEW i \in 1 .. Len(rows), IndentParent(rows, i) # 0
    PROVE  IndentParent(rows, i) \in 1 .. GroupHead(rows, i) - 1
<1> DEFINE self == GroupHead(rows, i)
           above == rows[self - 1]
           T == {j \in 1 .. self - 2 : rows[j].id = above.parent}
           t == IndentParent(rows, i)
<1>1. self \in 1 .. i /\ i \in Nat
  BY RowInList, GroupHeadOf
<1>2. t = IF IsToggle(above) THEN self - 1
          ELSE IF IsChild(above) /\ above.parent # NoId THEN Greatest(T) ELSE 0
  BY DEF IndentParent
<1> HIDE DEF self, above
<1>3. Greatest(T) # 0 => Greatest(T) \in 1 .. self - 2
  <2>1. CASE self = 1
    <3>1. 1 .. self - 2 = {}
      BY <2>1
    <3>2. T = {}
      BY <3>1
    <3> QED
      BY <3>2 DEF Greatest
  <2>2. CASE self # 1
    <3> DEFINE n == self - 2
    <3>1. n \in Nat
      BY <1>1, <2>2
    <3>2. T \subseteq 1 .. n
      OBVIOUS
    <3> HIDE DEF n, T
    <3>3. Greatest(T) # 0 => Greatest(T) \in T
      BY <3>1, <3>2, GreatestFound
    <3> QED
      BY <3>2, <3>3 DEF n
  <2> QED
    BY <2>1, <2>2
<1> DEFINE g == Greatest(T)
<1> HIDE DEF T, t
<1>4. t \in {0, self - 1, g} /\ t # 0
  BY <1>2 DEF t
<1>5. g # 0 => g \in 1 .. self - 2
  BY <1>3
<1> HIDE DEF g
<1>6. t \in 1 .. self - 1
  BY <1>1, <1>4, <1>5
<1> QED
  BY <1>6 DEF t, self

LEMMA IndentGroupOf ==
    ASSUME NEW rows \in RowLists, NEW t \in 1 .. Len(rows), NEW h
    PROVE  IndentGroup(rows, t, h) \in RowLists
<1> DEFINE parent == rows[t].id
           depth == rows[t].depth + 1
           F(r) == ReParent(r, parent, depth)
           end == GroupEnd(rows, h)
           under == Change(rows, h, end, F)
           root == MovedTo(under[h], parent, depth)
<1>1. parent \in Int /\ depth \in Nat
  <2>1. rows[t] \in Row
    BY RowInList
  <2> QED
    BY <2>1 DEF Row
<1>2. IndentGroup(rows, t, h) = [under EXCEPT ![h] = root]
  BY DEF IndentGroup
<1> HIDE DEF end, parent, depth
<1>3. under = [k \in DOMAIN rows |-> IF k \in h .. end - 1 THEN F(rows[k]) ELSE rows[k]]
  BY DEF Change
<1>4. under = [k \in DOMAIN rows |-> under[k]]
  BY <1>3
<1>5. \A r \in Row : F(r) \in Row /\ F(r).serial = r.serial
  BY <1>1, MovedTyped
<1> HIDE DEF F, under
<1>6. \A k \in 1 .. Len(rows) : under[k] \in Row /\ under[k].serial = rows[k].serial
  <2> SUFFICES ASSUME NEW k \in 1 .. Len(rows)
               PROVE  under[k] \in Row /\ under[k].serial = rows[k].serial
    OBVIOUS
  <2>1. rows[k] \in Row /\ k \in DOMAIN rows
    BY RowInList
  <2>2. under[k] = F(rows[k]) \/ under[k] = rows[k]
    BY <1>3, <2>1
  <2> QED
    BY <1>5, <2>1, <2>2
<1>7. under \in RowLists
  BY <1>4, <1>6, EachChanged
<1>8. h \in 1 .. Len(under) => root \in Row /\ root.serial = under[h].serial
  BY <1>1, <1>7, RowInList, MovedTyped
<1> HIDE DEF root
<1>9. [under EXCEPT ![h] = root] \in RowLists
  BY <1>7, <1>8, OneChanged
<1> QED
  BY <1>2, <1>9

LEMMA DeeperTyped ==
    ASSUME NEW r \in Row, NEW delta, r.depth + delta \in Nat
    PROVE  Deeper(r, delta) \in Row /\ Deeper(r, delta).serial = r.serial
<1> DEFINE n == r.depth + delta
           d == [r EXCEPT !.depth = n]
<1>1. Deeper(r, delta) = IF r.cont THEN d ELSE Recreate(d)
  BY DEF Deeper
<1>2. n \in Nat
  OBVIOUS
<1> HIDE DEF n
<1>3. d \in Row /\ d.serial = r.serial
  BY <1>2 DEF Row
<1> HIDE DEF d
<1> QED
  BY <1>1, <1>3, RecreateTyped

LEMMA IndentSubtreeOf ==
    ASSUME NEW rows \in RowLists, NEW t \in 1 .. Len(rows), NEW i \in 1 .. Len(rows)
    PROVE  IndentSubtree(rows, t, i) \in RowLists
<1> DEFINE parent == rows[t].id
           depth == rows[t].depth + 1
           level == rows[i].depth
           delta == depth - level
           F(r) == Deeper(r, delta)
           end == SubtreeEnd(rows, i)
           deep == Change(rows, i, end, F)
           root == MovedTo(rows[i], parent, depth)
<1>0. /\ rows[t] \in Row /\ rows[i] \in Row /\ rows \in Seq(Row) /\ Len(rows) \in Nat
      /\ DOMAIN rows = 1 .. Len(rows) /\ \A k \in 1 .. Len(rows) : rows[k] \in Row
  BY RowInList
<1>1. parent \in Int /\ depth \in Nat /\ level \in Nat
  <2> DEFINE a == rows[t]
             b == rows[i]
  <2>1. a \in Row /\ b \in Row
    BY <1>0
  <2> HIDE DEF a, b
  <2>2. a.id \in Int /\ a.depth + 1 \in Nat /\ b.depth \in Nat
    BY <2>1 DEF Row
  <2> QED
    BY <2>2 DEF a, b
<1>2. IndentSubtree(rows, t, i) = [deep EXCEPT ![i] = root]
  BY DEF IndentSubtree
<1>3. \A k \in i + 1 .. end - 1 : k \in 1 .. Len(rows) /\ rows[k].depth > level
  BY <1>0, SubtreeEndOf
<1>4. root \in Row /\ root.serial = rows[i].serial
  BY <1>0, <1>1, MovedTyped
<1> HIDE DEF end, parent, depth, root
<1>5. deep = [k \in DOMAIN rows |-> IF k \in i .. end - 1 THEN F(rows[k]) ELSE rows[k]]
  BY DEF Change
<1>6. ASSUME NEW r \in Row, r.depth >= level
      PROVE  F(r) \in Row /\ F(r).serial = r.serial
  <2> DEFINE e == r.depth
  <2>1. e \in Nat /\ e >= level
    BY <1>6 DEF Row
  <2>2. F(r) = Deeper(r, delta)
    OBVIOUS
  <2> HIDE DEF e, level, F
  <2>3. e + delta \in Nat
    BY <1>1, <2>1
  <2> HIDE DEF delta
  <2> QED
    BY <2>2, <2>3, DeeperTyped DEF e
<1> HIDE DEF F
<1>7. deep = [k \in DOMAIN rows |-> deep[k]]
  BY <1>5
<1>8. \A k \in 1 .. Len(rows) : deep[k] = IF k \in i .. end - 1 THEN F(rows[k]) ELSE rows[k]
  BY <1>0, <1>5
<1> HIDE DEF deep
<1>9. \A k \in 1 .. Len(rows) : deep[k] \in Row /\ deep[k].serial = rows[k].serial
  <2> SUFFICES ASSUME NEW k \in 1 .. Len(rows)
               PROVE  deep[k] \in Row /\ deep[k].serial = rows[k].serial
    OBVIOUS
  <2>1. CASE k \in i .. end - 1
    <3>1. rows[k].depth >= level
      <4>1. CASE k = i
        BY <1>1, <4>1
      <4>2. CASE k # i
        <5>1. k \in i + 1 .. end - 1
          BY <1>0, <2>1, <4>2
        <5> DEFINE e == rows[k].depth
        <5>2. e > level /\ e \in Nat
          <6>1. rows[k] \in Row
            BY <1>0
          <6> QED
            BY <1>3, <5>1, <6>1 DEF Row
        <5> HIDE DEF e, level
        <5>3. e >= level
          BY <1>1, <5>2
        <5> QED
          BY <5>3 DEF e
      <4> QED
        BY <4>1, <4>2
    <3> QED
      BY <1>0, <1>6, <1>8, <2>1, <3>1
  <2>2. CASE k \notin i .. end - 1
    BY <1>0, <1>8, <2>2
  <2> QED
    BY <2>1, <2>2
<1>10. deep \in RowLists /\ InPlace(deep, rows)
  BY <1>7, <1>9, EachChanged
<1>11. i \in 1 .. Len(deep) => root \in Row /\ root.serial = deep[i].serial
  BY <1>4, <1>9
<1>12. [deep EXCEPT ![i] = root] \in RowLists
  BY <1>10, <1>11, OneChanged
<1> QED
  BY <1>2, <1>12

LEMMA IndentRowOf ==
    ASSUME NEW rows \in RowLists, NEW i \in 2 .. Len(rows), NEW t \in 1 .. i - 1
    PROVE  IndentRow(rows, t, i) \in RowLists
<1> DEFINE n == Len(rows)
           to == i + 1
           rest == EraseRows(rows, i, to)
           end == SubtreeEnd(rows, t)
           at == IF end > i THEN end - 1 ELSE end
           root == MovedTo(rows[i], rows[t].id, rows[t].depth + 1)
           one == <<root>>
           w == Splice(rest, at, at, one)
<1>1. /\ rows \in Seq(Row) /\ n \in 1 .. MaxRows /\ n \in Nat /\ MaxRows \in Nat
      /\ \A k \in 1 .. Len(rows) : rows[k] \in Row
  BY RowInList
<1>2. i \in 1 .. n /\ t \in 1 .. n /\ to \in i .. n + 1 /\ i \in 1 .. n + 1 /\ to - i = 1
  BY <1>1
<1>3. end \in t + 1 .. n + 1
  BY <1>1, <1>2, SubtreeEndOf
<1>4. at \in 1 .. n
  <2> HIDE DEF end, n
  <2> QED
    BY <1>1, <1>2, <1>3
<1>5. root \in Row
  <2> DEFINE a == rows[t]
  <2>1. a \in Row /\ rows[i] \in Row
    BY <1>1, <1>2
  <2> HIDE DEF a
  <2>2. a.id \in Int /\ a.depth + 1 \in Nat
    BY <2>1 DEF Row
  <2> QED
    BY <2>1, <2>2, MovedTyped DEF a
<1> HIDE DEF root, to, at
<1>6. one \in Seq(Row) /\ Len(one) = 1
  BY <1>5
<1>7. rest \in Seq(Row) /\ Len(rest) = n - 1
  BY <1>1, <1>2, EraseOf
<1> HIDE DEF one, rest, n
<1>8. at \in 1 .. Len(rest) + 1 /\ at \in at .. Len(rest) + 1
  BY <1>1, <1>4, <1>7
<1>9. w \in Seq(Row) /\ Spliced(w, rest, at, at, one)
  BY <1>6, <1>7, <1>8, SpliceOf
<1> HIDE DEF w
<1>10. Len(w) = n
  BY <1>1, <1>4, <1>6, <1>7, <1>9 DEF Spliced
<1>11. IndentRow(rows, t, i) = w
  BY DEF IndentRow, w, rest, to, at, one, root
<1> QED
  BY <1>1, <1>9, <1>10, <1>11 DEF RowLists

LEMMA IndentOf ==
    ASSUME NEW p \in Screens, NEW i \in 2 .. Len(p.rows), IndentParent(p.rows, i) # 0
    PROVE  doIndentBlock(p, i) \in Screens
<1> DEFINE rows == p.rows
           t == IndentParent(rows, i)
           self == GroupHead(rows, i)
           n == Len(rows)
           r == [rows[t] EXCEPT !.open = TRUE]
           opened == [rows EXCEPT ![t] = r]
           result == IF InGroup(rows, self) THEN IndentGroup(opened, t, self)
                     ELSE IF ToggleHasChildren(rows, p.cache, i)
                     THEN IndentSubtree(opened, t, i) ELSE IndentRow(opened, t, i)
<1>1. /\ rows \in RowLists /\ n \in Nat /\ p.cache \in Caches
      /\ i \in 1 .. n /\ i \in Nat \ {0} /\ \A k \in 1 .. n : rows[k] \in Row
  BY ScreenFields, RowInList
<1>2. self \in 1 .. i /\ t \in 1 .. self - 1
  BY <1>1, GroupHeadOf, IndentParentOf
<1>3. doIndentBlock(p, i) = [rows |-> result, cache |-> ToggleCacheEvict(p.cache, rows[t].id)]
  BY DEF doIndentBlock
<1> HIDE DEF t, self
<1>4. t \in 1 .. n /\ t \in 1 .. i - 1
  BY <1>1, <1>2
<1>5. r \in Row /\ r.serial = rows[t].serial
  BY <1>1, <1>4, FieldTyped
<1> HIDE DEF r
<1>6. opened \in RowLists /\ Len(opened) = n
  BY <1>1, <1>5, OneChanged DEF InPlace
<1> HIDE DEF opened, n
<1>7. t \in 1 .. Len(opened) /\ i \in 1 .. Len(opened) /\ i \in 2 .. Len(opened)
  BY <1>1, <1>4, <1>6 DEF n
<1>8. result \in RowLists
  BY <1>4, <1>6, <1>7, IndentGroupOf, IndentSubtreeOf, IndentRowOf
<1>9. ToggleCacheEvict(p.cache, rows[t].id) \in Caches
  BY <1>1, EvictTyped
<1> HIDE DEF result
<1> QED
  BY <1>3, <1>8, <1>9 DEF Screens

-----------------------------------------------------------------------------
(* moveBlock. *)
LEMMA CarriedOf ==
    ASSUME NEW seq \in Seq(Row), NEW yes
    PROVE  Carried(seq, yes) \in Seq(Row) /\ Len(Carried(seq, yes)) = Len(seq)
<1> DEFINE w == [k \in DOMAIN seq |-> IF yes /\ ~seq[k].cont
                                      THEN Recreate(seq[k]) ELSE seq[k]]
           n == Len(seq)
<1>1. n \in Nat /\ DOMAIN seq = 1 .. n /\ \A k \in 1 .. n : seq[k] \in Row
  BY RowAt
<1> HIDE DEF n
<1>2. w = [k \in 1 .. n |-> w[k]]
  BY <1>1
<1>3. \A k \in 1 .. n : w[k] \in Row
  <2> SUFFICES ASSUME NEW k \in 1 .. n PROVE w[k] \in Row
    OBVIOUS
  <2>1. w[k] = IF yes /\ ~seq[k].cont THEN Recreate(seq[k]) ELSE seq[k]
    BY <1>1
  <2>2. seq[k] \in Row /\ Recreate(seq[k]) \in Row
    BY <1>1, RecreateTyped
  <2> QED
    BY <2>1, <2>2
<1> HIDE DEF w
<1>4. w \in Seq(Row) /\ Len(w) = n
  BY <1>1, <1>2, <1>3, Mapped
<1> QED
  BY <1>4 DEF w, n, Carried

LEMMA PartOf ==
    ASSUME NEW S, NEW s \in Seq(S), NEW from \in 1 .. Len(s) + 1,
           NEW to \in from .. Len(s) + 1
    PROVE  SubSeq(s, from, to - 1) \in Seq(S) /\ Len(SubSeq(s, from, to - 1)) = to - from
<1>1. Len(s) \in Nat /\ \A k \in 1 .. Len(s) : s[k] \in S
  BY RowAt
<1>2. from \in Nat /\ to - 1 \in Int /\ to - 1 >= from - 1 /\ to - 1 <= Len(s)
  BY <1>1
<1>3. from >= 1
  BY <1>1
<1>4. SubSeq(s, from, to - 1) = [k \in 1 .. to - from |-> s[from + k - 1]]
  BY <1>1, <1>2, <1>3
<1> QED
  BY <1>1, <1>2, <1>3

(* A stretch of the rows replaced by one of the same length. *)
LEMMA Replaced ==
    ASSUME NEW rows \in RowLists, NEW from \in 1 .. Len(rows) + 1,
           NEW to \in from .. Len(rows) + 1, NEW a \in Seq(Row), NEW b \in Seq(Row),
           Len(a) + Len(b) = to - from
    PROVE  Splice(rows, from, to, a \o b) \in RowLists
<1> DEFINE m == a \o b
           w == Splice(rows, from, to, m)
           n == Len(rows)
<1>1. m \in Seq(Row) /\ Len(m) = Len(a) + Len(b) /\ Len(a) \in Nat /\ Len(b) \in Nat
  OBVIOUS
<1>2. rows \in Seq(Row) /\ n \in 1 .. MaxRows /\ n \in Nat /\ MaxRows \in Nat
  BY RowInList
<1> HIDE DEF m
<1>3. w \in Seq(Row) /\ Spliced(w, rows, from, to, m)
  BY <1>1, <1>2, SpliceOf
<1> HIDE DEF w, n
<1>4. Len(w) = n - (to - from) + Len(m)
  BY <1>3 DEF Spliced, n
<1>5. Len(w) = n
  <2>1. from \in Int /\ to \in Int
    BY <1>2 DEF n
  <2>2. Len(m) = to - from
    BY <1>1
  <2> DEFINE d == to - from
  <2>3. d \in Int /\ Len(w) = n - d + d
    BY <1>4, <2>1, <2>2
  <2> HIDE DEF d
  <2> QED
    BY <1>2, <2>3
<1> QED
  BY <1>2, <1>3, <1>5 DEF RowLists, w, m

LEMMA MoveUnitOf ==
    ASSUME NEW p \in Screens, NEW i \in 1 .. Len(p.rows), NEW up \in BOOLEAN
    PROVE  MoveUnit(p, i, up) \in Screens
<1> DEFINE rows == p.rows
           n == Len(rows)
           end == UnitEnd(rows, i)
           above == SiblingAbove(rows, i)
           nS == IF up THEN above ELSE SiblingBelow(rows, i)
           nE == IF up THEN i ELSE UnitEnd(rows, nS)
           neighbour == UnitLoaded(rows, p.cache, nS, nE)
           unit == Carried(SubSeq(rows, i, end - 1), ~neighbour)
           next == Carried(SubSeq(rows, nS, nE - 1), neighbour)
           result == IF up THEN Splice(rows, nS, end, unit \o next)
                           ELSE Splice(rows, i, nE, next \o unit)
<1>1. rows \in RowLists /\ rows \in Seq(Row) /\ n \in Nat /\ i \in 1 .. n
  BY ScreenFields, RowInList
<1>2. end \in i + 1 .. n + 1
  BY <1>1, UnitEndOf
<1>3. above \in 0 .. i - 1 /\ (above # 0 => above \in 2 .. i - 1)
  <2> DEFINE T == {j \in 2 .. i - 1 :
                /\ rows[j].depth = rows[i].depth /\ SameParent(rows[j], rows[i])
                /\ ~rows[j].cont
                /\ \A k \in j + 1 .. i - 1 : rows[k].depth >= rows[i].depth}
             m == i - 1
  <2>1. m \in Nat /\ T \subseteq 1 .. m /\ T \subseteq 2 .. m
    BY <1>1
  <2>2. above = Greatest(T)
    BY DEF SiblingAbove
  <2> HIDE DEF T
  <2>3. above \in 0 .. m /\ (above # 0 => above \in T)
    BY <2>1, <2>2, GreatestFound
  <2> QED
    BY <2>1, <2>3
<1>4. SiblingBelow(rows, i) = 0 \/ (SiblingBelow(rows, i) = end /\ end <= n)
  BY DEF SiblingBelow
<1>5. MoveUnit(p, i, up) = IF nS = 0 \/ (~neighbour /\ ~UnitLoaded(rows, p.cache, i, end))
                           THEN p ELSE [p EXCEPT !.rows = result]
  BY DEF MoveUnit
<1> HIDE DEF result, end, above, n
<1>6. ASSUME nS # 0 PROVE result \in RowLists
  <2>1. CASE up
    <3>1. nS = above /\ nE = i
      BY <2>1
    <3> HIDE DEF nS, nE, neighbour
    <3>2. nS \in 2 .. i - 1
      BY <1>3, <1>6, <3>1
    <3> DEFINE u == SubSeq(rows, i, end - 1)
               x == SubSeq(rows, nS, nE - 1)
    <3>3. u \in Seq(Row) /\ Len(u) = end - i
      BY <1>1, <1>2, PartOf DEF n
    <3>4. x \in Seq(Row) /\ Len(x) = i - nS
      <4>1. nS \in 1 .. n + 1 /\ i \in nS .. n + 1
        BY <1>1, <3>2
      <4> QED
        BY <1>1, <3>1, <4>1, PartOf DEF n
    <3> HIDE DEF u, x
    <3>5. unit \in Seq(Row) /\ Len(unit) = end - i
      BY <3>3, CarriedOf DEF u
    <3>6. next \in Seq(Row) /\ Len(next) = i - nS
      BY <3>4, CarriedOf DEF x
    <3> HIDE DEF unit, next
    <3>7. nS \in 1 .. n + 1 /\ end \in nS .. n + 1 /\ Len(unit) + Len(next) = end - nS
      BY <1>1, <1>2, <3>2, <3>5, <3>6
    <3>8. Splice(rows, nS, end, unit \o next) \in RowLists
      BY <1>1, <3>5, <3>6, <3>7, Replaced DEF n
    <3> QED
      BY <2>1, <3>8 DEF result
  <2>2. CASE ~up
    <3>1. nS = end /\ end <= n /\ nE = UnitEnd(rows, end)
      BY <1>4, <1>6, <2>2
    <3> HIDE DEF nS, nE, neighbour
    <3>2. end \in 1 .. n
      BY <1>1, <1>2, <3>1
    <3>3. nE \in end + 1 .. n + 1
      BY <1>1, <3>1, <3>2, UnitEndOf DEF n
    <3> DEFINE u == SubSeq(rows, i, end - 1)
               x == SubSeq(rows, nS, nE - 1)
    <3>4. u \in Seq(Row) /\ Len(u) = end - i
      BY <1>1, <1>2, PartOf DEF n
    <3>5. x \in Seq(Row) /\ Len(x) = nE - end
      <4>1. nS \in 1 .. n + 1 /\ nE \in nS .. n + 1
        BY <1>1, <3>1, <3>2, <3>3
      <4> QED
        BY <1>1, <3>1, <4>1, PartOf DEF n
    <3> HIDE DEF u, x
    <3>6. unit \in Seq(Row) /\ Len(unit) = end - i
      BY <3>4, CarriedOf DEF u
    <3>7. next \in Seq(Row) /\ Len(next) = nE - end
      BY <3>5, CarriedOf DEF x
    <3> HIDE DEF unit, next
    <3>8. i \in 1 .. n + 1 /\ nE \in i .. n + 1 /\ Len(next) + Len(unit) = nE - i
      BY <1>1, <1>2, <3>2, <3>3, <3>6, <3>7
    <3>9. Splice(rows, i, nE, next \o unit) \in RowLists
      BY <1>1, <3>6, <3>7, <3>8, Replaced DEF n
    <3> QED
      BY <2>2, <3>9 DEF result
  <2> QED
    BY <2>1, <2>2
<1> HIDE DEF nS, nE, neighbour
<1>7. nS # 0 => [p EXCEPT !.rows = result] \in Screens
  BY <1>6 DEF Screens
<1> QED
  BY <1>5, <1>7

LEMMA BeginIndentOf ==
    ASSUME NEW p \in Screens, NEW i \in 1 .. Len(p.rows), NEW parent \in Int, NEW depth \in Nat
    PROVE  beginIndentOperation(p, i, parent, depth) \in Screens
<1> DEFINE r == MovedTo(p.rows[i], parent, depth)
           w == [p.rows EXCEPT ![i] = r]
<1>1. p.rows \in RowLists /\ p.cache \in Caches
  BY ScreenFields
<1>2. r \in Row /\ r.serial = p.rows[i].serial
  BY <1>1, RowInList, MovedTyped
<1> HIDE DEF r
<1>3. w \in RowLists
  BY <1>1, <1>2, OneChanged
<1>4. beginIndentOperation(p, i, parent, depth)
        = [rows |-> w, cache |-> ToggleCacheEvict(p.cache, parent)]
  BY DEF beginIndentOperation, r
<1>5. ToggleCacheEvict(p.cache, parent) \in Caches
  BY <1>1, EvictTyped
<1> QED
  BY <1>3, <1>4, <1>5 DEF Screens

LEMMA SwappedOf ==
    ASSUME NEW rows \in RowLists, NEW i \in 1 .. Len(rows), NEW j \in 1 .. Len(rows)
    PROVE  Swapped(rows, i, j) \in RowLists /\ Len(Swapped(rows, i, j)) = Len(rows)
<1> DEFINE a == rows[i]
           b == rows[j]
           u == [rows EXCEPT ![i] = b]
           w == [u EXCEPT ![j] = a]
<1>1. a \in Row /\ b \in Row
  BY RowInList
<1>2. Swapped(rows, i, j) = w
  BY DEF Swapped
<1> HIDE DEF a, b
<1>3. u \in RowLists /\ Len(u) = Len(rows)
  BY <1>1, RowChanged
<1> HIDE DEF u
<1>4. w \in RowLists /\ Len(w) = Len(u)
  BY <1>1, <1>3, RowChanged
<1> QED
  BY <1>2, <1>3, <1>4

LEMMA OutOfOf ==
    ASSUME NEW rows \in RowLists, NEW i \in 1 .. Len(rows), NEW t \in 0 .. Len(rows)
    PROVE  OutOf(rows, i, t) \in RowLists /\ Len(OutOf(rows, i, t)) = Len(rows)
<1> DEFINE parent == IF t = 0 THEN Page ELSE rows[t].parent
           depth == IF t = 0 THEN 0 ELSE rows[t].depth
           r == MovedTo(rows[i], parent, depth)
           moved == [rows EXCEPT ![i] = r]
           k == [moved[t] EXCEPT !.kidsLeft = TRUE]
           w == [moved EXCEPT ![t] = k]
<1>0. \A j \in 1 .. Len(rows) : rows[j] \in Row
  BY RowInList
<1>1. parent \in Int /\ depth \in Nat
  <2>1. CASE t = 0
    BY <2>1 DEF Page
  <2>2. CASE t # 0
    <3> DEFINE q == rows[t]
    <3>1. q \in Row
      BY <1>0, <2>2, RowInList
    <3> HIDE DEF q
    <3>2. q.parent \in Int /\ q.depth \in Nat
      BY <3>1 DEF Row
    <3> QED
      BY <2>2, <3>2 DEF q
  <2> QED
    BY <2>1, <2>2
<1>2. OutOf(rows, i, t) = IF t = 0 THEN moved ELSE w
  BY DEF OutOf
<1> HIDE DEF parent, depth
<1>3. r \in Row /\ r.serial = rows[i].serial
  BY <1>0, <1>1, MovedTyped
<1> HIDE DEF r
<1>4. moved \in RowLists /\ Len(moved) = Len(rows)
  BY <1>3, RowChanged
<1> HIDE DEF moved
<1>5. t # 0 => w \in RowLists /\ Len(w) = Len(moved)
  <2> SUFFICES ASSUME t # 0 PROVE w \in RowLists /\ Len(w) = Len(moved)
    OBVIOUS
  <2>1. t \in 1 .. Len(moved)
    BY <1>4, RowInList
  <2>2. moved[t] \in Row
    BY <1>4, <2>1, RowInList
  <2>3. k \in Row
    BY <2>2, FieldTyped
  <2> HIDE DEF k
  <2> QED
    BY <1>4, <2>1, <2>3, RowChanged
<1> QED
  BY <1>2, <1>4, <1>5

LEMMA MoveOf ==
    ASSUME NEW p \in Screens, NEW i \in 2 .. Len(p.rows), NEW up \in BOOLEAN
    PROVE  moveBlock(p, i, up) \in Screens
<1> DEFINE rows == p.rows
           n == Len(rows)
           b == rows[i]
<1>1. /\ rows \in RowLists /\ n \in Nat /\ i \in 1 .. n /\ i \in Nat \ {0}
      /\ \A j \in 1 .. n : rows[j] \in Row
  BY ScreenFields, RowInList
<1>2. GroupHead(rows, i) \in 1 .. n
  <2>1. GroupHead(rows, i) \in 1 .. i
    BY <1>1, GroupHeadOf
  <2> QED
    BY <1>1, <2>1
<1>3. ASSUME NEW w \in RowLists PROVE [p EXCEPT !.rows = w] \in Screens
  BY <1>3 DEF Screens
<1>4. MoveUp(p, i) \in Screens
  <2> DEFINE h == i - 1
             d == rows[h]
             child == IsChild(b) /\ b.parent # NoId
             out == OutOf(rows, i, h)
             swap == Swapped(out, i, h)
             into == beginIndentOperation(p, i, d.id, d.depth + 1)
             under == beginIndentOperation(p, i, d.parent, d.depth)
  <2>1. h \in 1 .. n /\ h \in 0 .. n
    BY <1>1
  <2>2. MoveUp(p, i) = IF i = 2 THEN p
          ELSE IF child /\ d.id = b.parent THEN [p EXCEPT !.rows = swap]
          ELSE IF OpenToggle(d) THEN into
          ELSE IF IsChild(d) /\ d.depth > b.depth /\ d.parent # NoId THEN under
          ELSE MoveUnit(p, i, TRUE)
    BY DEF MoveUp
  <2>3. d \in Row
    BY <1>1, <2>1
  <2> HIDE DEF h, d
  <2>4. d.id \in Int /\ d.parent \in Int /\ d.depth \in Nat /\ d.depth + 1 \in Nat
    BY <2>3 DEF Row
  <2>5. out \in RowLists /\ Len(out) = n
    BY <1>1, <2>1, OutOfOf
  <2>6. swap \in RowLists
    <3> HIDE DEF out
    <3>1. i \in 1 .. Len(out) /\ h \in 1 .. Len(out)
      BY <1>1, <2>1, <2>5
    <3> QED
      BY <2>5, <3>1, SwappedOf
  <2>7. into \in Screens /\ under \in Screens
    BY <1>1, <2>4, BeginIndentOf
  <2>8. MoveUnit(p, i, TRUE) \in Screens
    BY <1>1, MoveUnitOf
  <2>9. [p EXCEPT !.rows = swap] \in Screens
    BY <1>3, <2>6
  <2> HIDE DEF swap, into, under
  <2> QED
    BY <2>2, <2>7, <2>8, <2>9
<1>5. MoveDown(p, i) \in Screens
  <2> DEFINE h == i + 1
             d == rows[h]
             child == IsChild(b) /\ b.parent # NoId
             last == i = n
             lastChild == child /\ (last \/ ~IsChild(d) \/ d.parent # b.parent)
             T == {j \in 1 .. i - 1 : rows[j].id = b.parent}
             t == Greatest(T)
             out == OutOf(rows, i, t)
             swap == Swapped(rows, i, h)
             q == [p EXCEPT !.rows = swap]
             into == beginIndentOperation(q, h, d.id, d.depth + 1)
  <2>1. MoveDown(p, i) = IF lastChild THEN [p EXCEPT !.rows = out]
          ELSE IF last THEN p
          ELSE IF OpenToggle(d) THEN into
          ELSE MoveUnit(p, i, FALSE)
    BY DEF MoveDown
  <2>2. t \in 0 .. n
    <3> DEFINE m == i - 1
    <3>1. m \in Nat /\ T \subseteq 1 .. m
      BY <1>1
    <3> HIDE DEF T
    <3>2. t \in 0 .. m
      BY <3>1, GreatestFound
    <3> QED
      BY <1>1, <3>2
  <2> HIDE DEF t
  <2>3. out \in RowLists
    BY <1>1, <2>2, OutOfOf
  <2>4. [p EXCEPT !.rows = out] \in Screens
    BY <1>3, <2>3
  <2>5. ~last => into \in Screens
    <3> SUFFICES ASSUME ~last PROVE into \in Screens
      OBVIOUS
    <3>1. h \in 1 .. n
      BY <1>1
    <3>2. d \in Row
      BY <1>1, <3>1
    <3> HIDE DEF h, d
    <3>3. d.id \in Int /\ d.depth + 1 \in Nat
      BY <3>2 DEF Row
    <3>4. swap \in RowLists /\ Len(swap) = n
      BY <1>1, <3>1, SwappedOf
    <3> HIDE DEF swap
    <3>5. q \in Screens
      BY <1>3, <3>4
    <3>6. q.rows = swap
      BY DEF Screens
    <3> HIDE DEF q
    <3> QED
      BY <3>1, <3>3, <3>4, <3>5, <3>6, BeginIndentOf
  <2>6. MoveUnit(p, i, FALSE) \in Screens
    BY <1>1, MoveUnitOf
  <2> HIDE DEF out, into
  <2> QED
    BY <2>1, <2>4, <2>5, <2>6
<1>6. MoveUnit(p, GroupHead(rows, i), up) \in Screens
  BY <1>2, MoveUnitOf
<1> QED
  BY <1>4, <1>5, <1>6 DEF moveBlock
=============================================================================
