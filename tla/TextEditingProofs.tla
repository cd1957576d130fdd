------------------------- MODULE TextEditingProofs -------------------------
(***************************************************************************)
(* Proofs about TextEditing: every row's fields hold what they can, and a  *)
(* row that has runs has one for every character.  Both are shown as parts *)
(* of one inductive invariant, EditInv, for any rich text, any edits and   *)
(* any of the limits.                                                      *)
(***************************************************************************)
EXTENDS TextEditing, ListProofs, FiniteSetTheorems

-----------------------------------------------------------------------------
(* Numbers.                                                                *)

LEMMA MinIn ==
    ASSUME NEW T, T \subseteq Nat, T # {}
    PROVE  Min(T) \in T /\ \A y \in T : Min(T) <= y
<1>1. \E x \in T : \A y \in T : x <= y
  BY HasLeast
<1> QED
  BY <1>1 DEF Min

LEMMA MaxIn ==
    ASSUME NEW n \in Nat, NEW T, T \subseteq 0 .. n, T # {}
    PROVE  Max(T) \in T /\ \A y \in T : Max(T) >= y
<1> DEFINE U == {n - x : x \in T}
<1>1. U \subseteq Nat /\ U # {}
  OBVIOUS
<1>2. PICK u \in U : \A v \in U : u <= v
  <2> HIDE DEF U
  <2> QED
    BY <1>1, HasLeast
<1>3. PICK x \in T : u = n - x
  BY <1>2
<1>4. ASSUME NEW y \in T
      PROVE  x >= y
  <2>1. n - y \in U
    OBVIOUS
  <2>2. u <= n - y
    BY <1>2, <2>1
  <2> QED
    BY <1>3, <2>2
<1>5. \E z \in T : \A y \in T : z >= y
  BY <1>4
<1> QED
  BY <1>5 DEF Max

LEMMA MinPair ==
    ASSUME NEW a \in Int, NEW b \in Int
    PROVE  Min({a, b}) = IF a <= b THEN a ELSE b
<1>1. \E x \in {a, b} : \A y \in {a, b} : x <= y
  OBVIOUS
<1>2. Min({a, b}) \in {a, b} /\ \A y \in {a, b} : Min({a, b}) <= y
  BY <1>1 DEF Min
<1> QED
  BY <1>2

LEMMA MinBelow ==
    ASSUME NEW a \in Nat, NEW b \in Nat
    PROVE  Min({a, b}) \in Nat /\ Min({a, b}) \in 0 .. b /\ Min({a, b}) <= b /\ Min({a, b}) <= a
<1> DEFINE m == Min({a, b})
<1>1. m = IF a <= b THEN a ELSE b
  BY MinPair
<1> HIDE DEF m
<1>2. m \in Nat /\ m \in 0 .. b /\ m <= b /\ m <= a
  BY <1>1
<1> QED
  BY <1>2 DEF m

LEMMA MaxPair ==
    ASSUME NEW a \in Int, NEW b \in Int
    PROVE  Max({a, b}) = IF a >= b THEN a ELSE b
<1>1. \E x \in {a, b} : \A y \in {a, b} : x >= y
  OBVIOUS
<1>2. Max({a, b}) \in {a, b} /\ \A y \in {a, b} : Max({a, b}) >= y
  BY <1>1 DEF Max
<1> QED
  BY <1>2

-----------------------------------------------------------------------------
(* Where runs end.                                                         *)

(* Records that have a length: runs of a row, or runs being collected. *)
HaveLengths(R) == \A r \in R : r.len \in Nat

LEMMA RunEndIs ==
    ASSUME NEW R, HaveLengths(R), NEW runs \in Seq(R)
    PROVE  /\ Len(runs) \in Nat
           /\ RunEnd(runs, 0) = 0
           /\ \A i \in 0 .. Len(runs) : RunEnd(runs, i) \in Nat
           /\ \A i \in 1 .. Len(runs) : RunEnd(runs, i) = RunEnd(runs, i - 1) + runs[i].len
<1> DEFINE n == Len(runs)
           S == [i \in 0 .. n |-> Nat]
           step == [i \in 1 .. n |-> [a \in Nat |-> a + runs[i].len]]
           end == CHOOSE f : f = [i \in 0 .. n |-> IF i = 0 THEN 0 ELSE f[i - 1] + runs[i].len]
<1>1. n \in Nat /\ \A i \in 1 .. n : runs[i].len \in Nat
  BY LenProperties, ElementOfSeq DEF HaveLengths
<1>2. \A i \in 1 .. n : \A a \in Nat : step[i][a] = a + runs[i].len
  OBVIOUS
<1>3. \A i \in 0 .. n : S[i] = Nat
  OBVIOUS
<1>4. PICK f : Steps(f, n, 0, step) /\ \A i \in 0 .. n : f[i] \in Nat
  <2> HIDE DEF n, S, step
  <2>1. ASSUME NEW i \in 1 .. n, NEW a \in S[i - 1]
        PROVE  step[i][a] \in S[i]
    <3>1. a \in Nat /\ S[i] = Nat /\ runs[i].len \in Nat
      BY <1>1, <1>3
    <3>2. step[i][a] = a + runs[i].len
      BY <1>2, <3>1
    <3>3. a + runs[i].len \in Nat
      BY <3>1
    <3> QED
      BY <3>1, <3>2, <3>3
  <2>2. 0 \in S[0]
    BY <1>1, <1>3
  <2>3. \E f : Steps(f, n, 0, step) /\ \A i \in 0 .. n : f[i] \in S[i]
    BY <1>1, <2>1, <2>2, StepsStay
  <2> QED
    BY <1>3, <2>3
<1>5. f = [i \in 0 .. n |-> IF i = 0 THEN 0 ELSE f[i - 1] + runs[i].len]
  <2>1. ASSUME NEW i \in 1 .. n
        PROVE  step[i][f[i - 1]] = f[i - 1] + runs[i].len
    <3>1. f[i - 1] \in Nat
      BY <1>1, <1>4
    <3> QED
      BY <3>1, <1>2
  <2>2. \A i \in 0 .. n : (IF i = 0 THEN 0 ELSE step[i][f[i - 1]])
                          = (IF i = 0 THEN 0 ELSE f[i - 1] + runs[i].len)
    <3> HIDE DEF step
    <3> QED
      BY <1>1, <2>1
  <2> HIDE DEF n, step
  <2> QED
    BY <1>4, <2>2 DEF Steps
<1>6. end = [i \in 0 .. n |-> IF i = 0 THEN 0 ELSE end[i - 1] + runs[i].len]
  <2> HIDE DEF n, step
  <2> QED
    BY <1>5
<1>7. \A i : RunEnd(runs, i) = end[i]
  BY DEF RunEnd
<1> HIDE DEF end, n, S
<1>8. end[0] = 0 /\ \A i \in 1 .. n : end[i] = end[i - 1] + runs[i].len
  BY <1>1, <1>6
<1>9. \A i \in 0 .. n : end[i] \in Nat
  <2> DEFINE T == {i \in 0 .. n : end[i] \in Nat}
  <2>1. 0 \in T
    BY <1>1, <1>8
  <2>2. ASSUME NEW k \in 1 .. n, k - 1 \in T
        PROVE  k \in T
    BY <1>1, <1>8, <2>2
  <2>3. 0 .. n \subseteq T
    <3> HIDE DEF T
    <3> QED
      BY <1>1, <2>1, <2>2, StaysTo
  <2> QED
    BY <2>3
<1> QED
  BY <1>1, <1>7, <1>8, <1>9 DEF n

(* One run, and where it begins and ends. *)
LEMMA RunEndStep ==
    ASSUME NEW R, HaveLengths(R), NEW runs \in Seq(R), NEW i \in 1 .. Len(runs)
    PROVE  /\ RunEnd(runs, i) = RunEnd(runs, i - 1) + runs[i].len
           /\ RunEnd(runs, i) \in Nat /\ RunEnd(runs, i - 1) \in Nat
           /\ runs[i] \in R /\ runs[i].len \in Nat
<1>1. /\ Len(runs) \in Nat
      /\ \A j \in 0 .. Len(runs) : RunEnd(runs, j) \in Nat
      /\ \A j \in 1 .. Len(runs) : RunEnd(runs, j) = RunEnd(runs, j - 1) + runs[j].len
  BY RunEndIs
<1>2. i \in 0 .. Len(runs) /\ i - 1 \in 0 .. Len(runs)
  BY <1>1
<1>3. runs[i] \in R /\ runs[i].len \in Nat
  BY ElementOfSeq DEF HaveLengths
<1> QED
  BY <1>1, <1>2, <1>3

(* What adds up as the runs do is where they end. *)
LEMMA RunEndOnly ==
    ASSUME NEW R, HaveLengths(R), NEW runs \in Seq(R), NEW g, g[0] = 0,
           \A i \in 1 .. Len(runs) : g[i] = g[i - 1] + runs[i].len
    PROVE  \A i \in 0 .. Len(runs) : RunEnd(runs, i) = g[i]
<1> DEFINE T == {i \in 0 .. Len(runs) : RunEnd(runs, i) = g[i]}
<1>1. 0 \in T
  BY RunEndIs
<1>2. ASSUME NEW k \in 1 .. Len(runs), k - 1 \in T
      PROVE  k \in T
  BY <1>2, RunEndIs
<1>3. 0 .. Len(runs) \subseteq T
  <2> HIDE DEF T
  <2> QED
    BY <1>1, <1>2, RunEndIs, StaysTo
<1> QED
  BY <1>3

LEMMA RunEndsRise ==
    ASSUME NEW R, HaveLengths(R), NEW runs \in Seq(R),
           NEW j \in 0 .. Len(runs), NEW i \in 0 .. j
    PROVE  RunEnd(runs, i) <= RunEnd(runs, j)
<1> DEFINE T == {k \in 0 .. Len(runs) : i <= k => RunEnd(runs, i) <= RunEnd(runs, k)}
<1>0. Len(runs) \in Nat /\ \A k \in 0 .. Len(runs) : RunEnd(runs, k) \in Nat
  BY RunEndIs
<1>1. 0 \in T
  BY <1>0
<1>2. ASSUME NEW k \in 1 .. Len(runs), k - 1 \in T
      PROVE  k \in T
  <2>1. RunEnd(runs, k) = RunEnd(runs, k - 1) + runs[k].len /\ runs[k].len \in Nat
    BY RunEndStep
  <2>2. k \in 0 .. Len(runs) /\ RunEnd(runs, k) \in Nat /\ RunEnd(runs, k - 1) \in Nat
    BY <1>0
  <2>3. i <= k - 1 => RunEnd(runs, i) <= RunEnd(runs, k - 1)
    BY <1>2
  <2>4. i <= k => i = k \/ i <= k - 1
    BY <1>0
  <2>5. i \in 0 .. Len(runs) /\ RunEnd(runs, i) \in Nat
    BY <1>0
  <2>6. i <= k => RunEnd(runs, i) <= RunEnd(runs, k)
    BY <2>1, <2>2, <2>3, <2>4, <2>5
  <2> QED
    BY <2>2, <2>6
<1>3. 0 .. Len(runs) \subseteq T
  <2> HIDE DEF T
  <2> QED
    BY <1>0, <1>1, <1>2, StaysTo
<1> QED
  BY <1>3, <1>0

(* Each run lies in the text the runs make up. *)
LEMMA RunLies ==
    ASSUME NEW R, HaveLengths(R), NEW runs \in Seq(R), NEW i \in 1 .. Len(runs)
    PROVE  /\ RunStart(runs, i) \in Nat /\ RunEnd(runs, i) \in Nat /\ Total(runs) \in Nat
           /\ runs[i].len \in Nat /\ RunEnd(runs, i) = RunStart(runs, i) + runs[i].len
           /\ RunEnd(runs, i) <= Total(runs)
<1>1. Len(runs) \in Nat
  BY RunEndIs
<1>2. i - 1 \in 0 .. Len(runs) /\ i \in 0 .. Len(runs) /\ Len(runs) \in 0 .. Len(runs)
  BY <1>1
<1>3. RunEnd(runs, i) <= RunEnd(runs, Len(runs))
  BY <1>1, <1>2, RunEndsRise
<1> QED
  BY <1>2, <1>3, RunEndIs, ElementOfSeq DEF RunStart, Total, HaveLengths

(* Runs of the same lengths end at the same places. *)
LEMMA SameEnds ==
    ASSUME NEW R, HaveLengths(R), NEW runs \in Seq(R),
           NEW Q, HaveLengths(Q), NEW others \in Seq(Q), Len(others) = Len(runs),
           \A i \in 1 .. Len(runs) : others[i].len = runs[i].len
    PROVE  /\ \A i \in 0 .. Len(runs) : RunEnd(others, i) = RunEnd(runs, i)
           /\ Total(others) = Total(runs)
<1> DEFINE g == [i \in 0 .. Len(runs) |-> RunEnd(runs, i)]
<1>1. Len(runs) \in Nat
  BY RunEndIs
<1>2. g[0] = 0 /\ \A i \in 1 .. Len(others) : g[i] = g[i - 1] + others[i].len
  BY <1>1, RunEndIs
<1>3. \A i \in 0 .. Len(runs) : g[i] = RunEnd(runs, i)
  OBVIOUS
<1> HIDE DEF g
<1>4. \A i \in 0 .. Len(others) : RunEnd(others, i) = g[i]
  BY <1>2, RunEndOnly
<1> QED
  BY <1>1, <1>3, <1>4 DEF Total

(* One run longer or shorter by n: the ends from there on move by n. *)
LEMMA OneLonger ==
    ASSUME NEW R, HaveLengths(R), NEW runs \in Seq(R), NEW at \in 1 .. Len(runs), NEW n \in Int,
           NEW Q, HaveLengths(Q), NEW others \in Seq(Q), Len(others) = Len(runs),
           others[at].len = runs[at].len + n,
           \A i \in 1 .. Len(runs) : i # at => others[i].len = runs[i].len
    PROVE  Total(others) = Total(runs) + n
<1> DEFINE g == [i \in 0 .. Len(runs) |-> IF i < at THEN RunEnd(runs, i) ELSE RunEnd(runs, i) + n]
<1>1. Len(runs) \in Nat
  BY RunEndIs
<1>2. /\ g[0] = 0
      /\ \A i \in 0 .. Len(runs) :
            g[i] = IF i < at THEN RunEnd(runs, i) ELSE RunEnd(runs, i) + n
  BY <1>1, RunEndIs
<1> HIDE DEF g
<1>3. ASSUME NEW i \in 1 .. Len(others)
      PROVE  g[i] = g[i - 1] + others[i].len
  <2>1. /\ RunEnd(runs, i) = RunEnd(runs, i - 1) + runs[i].len
        /\ RunEnd(runs, i - 1) \in Nat /\ runs[i].len \in Nat
    <3>1. i \in 1 .. Len(runs)
      OBVIOUS
    <3> QED
      BY <3>1, RunEndStep
  <2>2. /\ g[i - 1] = IF i - 1 < at THEN RunEnd(runs, i - 1) ELSE RunEnd(runs, i - 1) + n
        /\ g[i] = IF i < at THEN RunEnd(runs, i) ELSE RunEnd(runs, i) + n
    BY <1>1, <1>2
  <2>3. others[i].len = IF i = at THEN runs[i].len + n ELSE runs[i].len
    OBVIOUS
  <2> DEFINE e == RunEnd(runs, i - 1)
             x == RunEnd(runs, i)
             l == runs[i].len
             m == others[i].len
             u == g[i - 1]
             v == g[i]
  <2>4. v = u + m
    <3>1. /\ x = e + l /\ e \in Nat /\ l \in Nat
          /\ u = (IF i - 1 < at THEN e ELSE e + n) /\ v = (IF i < at THEN x ELSE x + n)
          /\ m = (IF i = at THEN l + n ELSE l)
      BY <2>1, <2>2, <2>3
    <3> HIDE DEF e, x, l, m, u, v
    <3> QED
      BY <3>1, <1>1
  <2> QED
    BY <2>4
<1>4. \A i \in 0 .. Len(others) : RunEnd(others, i) = g[i]
  BY <1>2, <1>3, RunEndOnly
<1> QED
  BY <1>1, <1>2, <1>4 DEF Total

(* A stretch of the runs: it ends where they do, less what is before it. *)
LEMMA PartEnds ==
    ASSUME NEW R, HaveLengths(R), NEW runs \in Seq(R),
           NEW c \in 0 .. Len(runs), NEW d \in c .. Len(runs)
    PROVE  /\ SubSeq(runs, c + 1, d) \in Seq(R) /\ Len(SubSeq(runs, c + 1, d)) = d - c
           /\ \A i \in 1 .. d - c : SubSeq(runs, c + 1, d)[i] = runs[c + i]
           /\ \A i \in 0 .. d - c : RunEnd(SubSeq(runs, c + 1, d), i)
                                    = RunEnd(runs, c + i) - RunEnd(runs, c)
           /\ Total(SubSeq(runs, c + 1, d)) = RunEnd(runs, d) - RunEnd(runs, c)
<1> DEFINE part == SubSeq(runs, c + 1, d)
           g == [i \in 0 .. d - c |-> RunEnd(runs, c + i) - RunEnd(runs, c)]
<1>1. Len(runs) \in Nat /\ \A i \in 0 .. Len(runs) : RunEnd(runs, i) \in Nat
  BY RunEndIs
<1>2. /\ part \in Seq(R) /\ Len(part) = d - c
      /\ \A i \in 1 .. d - c : part[i] = runs[c + i]
  <2>1. c + 1 \in 1 .. Len(runs) + 1 /\ d \in (c + 1) - 1 .. Len(runs)
    BY <1>1
  <2>2. /\ part \in Seq(R) /\ Len(part) = d - (c + 1) + 1
        /\ \A i \in 1 .. d - (c + 1) + 1 : part[i] = runs[(c + 1) + i - 1]
    BY <2>1, Stretch
  <2> HIDE DEF part
  <2>3. d - (c + 1) + 1 = d - c /\ \A i \in 1 .. d - c : (c + 1) + i - 1 = c + i
    BY <1>1
  <2> QED
    BY <2>2, <2>3
<1>3. /\ g[0] = 0 /\ \A i \in 0 .. d - c : g[i] = RunEnd(runs, c + i) - RunEnd(runs, c)
  BY <1>1
<1> HIDE DEF g, part
<1>4. ASSUME NEW i \in 1 .. Len(part)
      PROVE  g[i] = g[i - 1] + part[i].len
  <2>1. c + i \in 1 .. Len(runs) /\ c + (i - 1) = (c + i) - 1 /\ i \in 1 .. d - c /\ i - 1 \in 0 .. d - c
    BY <1>1, <1>2
  <2>2. /\ RunEnd(runs, c + i) = RunEnd(runs, (c + i) - 1) + runs[c + i].len
        /\ RunEnd(runs, (c + i) - 1) \in Nat /\ runs[c + i].len \in Nat /\ RunEnd(runs, c) \in Nat
    BY <2>1, <1>1, RunEndStep
  <2>3. /\ g[i] = RunEnd(runs, c + i) - RunEnd(runs, c)
        /\ g[i - 1] = RunEnd(runs, (c + i) - 1) - RunEnd(runs, c)
        /\ part[i].len = runs[c + i].len
    BY <1>2, <1>3, <2>1
  <2> QED
    BY <2>2, <2>3
<1>5. \A i \in 0 .. Len(part) : RunEnd(part, i) = g[i]
  <2>1. g[0] = 0 /\ part \in Seq(R)
    BY <1>2, <1>3
  <2> QED
    BY <2>1, <1>4, RunEndOnly
<1>6. Total(part) = RunEnd(runs, d) - RunEnd(runs, c)
  <2>1. d - c \in 0 .. d - c /\ c + (d - c) = d
    BY <1>1
  <2> QED
    BY <1>2, <1>3, <1>5, <2>1 DEF Total
<1> QED
  BY <1>2, <1>3, <1>5, <1>6 DEF part

LEMMA JoinedTotal ==
    ASSUME NEW R, HaveLengths(R), NEW left \in Seq(R), NEW right \in Seq(R)
    PROVE  /\ left \o right \in Seq(R) /\ Len(left \o right) = Len(left) + Len(right)
           /\ Total(left \o right) = Total(left) + Total(right)
<1> DEFINE all == left \o right
           g == [i \in 0 .. Len(all) |-> IF i <= Len(left) THEN RunEnd(left, i)
                                         ELSE RunEnd(left, Len(left)) + RunEnd(right, i - Len(left))]
<1>1. Len(left) \in Nat /\ Len(right) \in Nat
  BY RunEndIs
<1>2. /\ all \in Seq(R) /\ Len(all) = Len(left) + Len(right)
      /\ \A i \in 1 .. Len(left) + Len(right) :
            all[i] = IF i <= Len(left) THEN left[i] ELSE right[i - Len(left)]
  BY ConcatProperties
<1>3. /\ g[0] = 0
      /\ \A i \in 0 .. Len(all) : g[i] = IF i <= Len(left) THEN RunEnd(left, i)
                                  ELSE RunEnd(left, Len(left)) + RunEnd(right, i - Len(left))
  BY <1>1, <1>2, RunEndIs
<1> HIDE DEF all, g
<1>4. ASSUME NEW i \in 1 .. Len(all)
      PROVE  g[i] = g[i - 1] + all[i].len
  <2>1. CASE i <= Len(left)
    <3>0. i \in 1 .. Len(left)
      BY <2>1, <1>1, <1>2
    <3>1. RunEnd(left, i) = RunEnd(left, i - 1) + left[i].len
      BY <3>0, RunEndStep
    <3>2. all[i] = left[i]
      BY <1>1, <1>2, <2>1
    <3>3. /\ i \in 0 .. Len(all) /\ i - 1 \in 0 .. Len(all)
          /\ i <= Len(left) /\ i - 1 <= Len(left)
      BY <1>1, <1>2, <2>1
    <3>4. g[i] = RunEnd(left, i) /\ g[i - 1] = RunEnd(left, i - 1)
      BY <1>3, <3>3
    <3> QED
      BY <3>1, <3>2, <3>4
  <2>2. CASE i > Len(left)
    <3> DEFINE k == i - Len(left)
    <3>1. k \in 1 .. Len(right) /\ (i - 1) - Len(left) = k - 1
      BY <1>1, <1>2, <2>2
    <3>2. /\ RunEnd(right, k) = RunEnd(right, k - 1) + right[k].len
          /\ RunEnd(right, k - 1) \in Nat /\ right[k].len \in Nat
          /\ RunEnd(left, Len(left)) \in Nat /\ RunEnd(right, 0) = 0
      <4>1. /\ RunEnd(right, k) = RunEnd(right, k - 1) + right[k].len
            /\ RunEnd(right, k - 1) \in Nat /\ right[k].len \in Nat
        BY <3>1, RunEndStep
      <4>2. RunEnd(left, Len(left)) \in Nat
        BY <1>1, RunEndIs
      <4>3. RunEnd(right, 0) = 0
        BY RunEndIs
      <4> QED
        BY <4>1, <4>2, <4>3
    <3>3. g[i] = RunEnd(left, Len(left)) + RunEnd(right, k) /\ all[i] = right[k]
      BY <1>1, <1>2, <1>3, <2>2
    <3>4. g[i - 1] = RunEnd(left, Len(left)) + RunEnd(right, k - 1)
      <4>1. CASE k = 1
        <5>1. i - 1 = Len(left)
          BY <4>1, <1>1
        <5>2. g[i - 1] = RunEnd(left, Len(left))
          BY <1>1, <1>2, <1>3, <5>1
        <5> QED
          BY <4>1, <5>2, <3>2
      <4>2. CASE k # 1
        <5>1. i - 1 \in 0 .. Len(all) /\ ~(i - 1 <= Len(left))
          BY <1>1, <1>2, <2>2, <3>1, <4>2
        <5> QED
          BY <1>3, <3>1, <5>1
      <4> QED
        BY <4>1, <4>2
    <3> HIDE DEF k
    <3> QED
      BY <3>2, <3>3, <3>4
  <2> QED
    BY <1>1, <1>2, <2>1, <2>2
<1>5. \A i \in 0 .. Len(all) : RunEnd(all, i) = g[i]
  BY <1>2, <1>3, <1>4, RunEndOnly
<1>6. Total(all) = Total(left) + Total(right)
  <2>1. CASE Len(right) = 0
    <3>1. Len(all) = Len(left) /\ Len(all) \in 0 .. Len(all) /\ Len(all) <= Len(left)
      BY <1>1, <1>2, <2>1
    <3>2. RunEnd(all, Len(all)) = RunEnd(left, Len(left))
      BY <1>3, <1>5, <3>1
    <3>3. RunEnd(right, 0) = 0 /\ RunEnd(right, Len(right)) = 0
      <4>1. RunEnd(right, 0) = 0
        BY RunEndIs
      <4> QED
        BY <4>1, <2>1
    <3>4. RunEnd(left, Len(left)) \in Nat
      <4>1. \A i \in 0 .. Len(left) : RunEnd(left, i) \in Nat
        BY RunEndIs
      <4> QED
        BY <4>1, <1>1
    <3> QED
      BY <3>2, <3>3, <3>4 DEF Total
  <2>2. CASE Len(right) # 0
    <3>1. Len(all) \in 0 .. Len(all) /\ ~(Len(all) <= Len(left)) /\ Len(all) - Len(left) = Len(right)
      BY <1>1, <1>2, <2>2
    <3> QED
      BY <1>3, <1>5, <3>1 DEF Total
  <2> QED
    BY <2>1, <2>2
<1> QED
  BY <1>2, <1>6 DEF all

LEMMA OneRun ==
    ASSUME NEW R, HaveLengths(R), NEW r \in R
    PROVE  <<r>> \in Seq(R) /\ Len(<<r>>) = 1 /\ Total(<<r>>) = r.len
<1>1. <<r>> \in Seq(R) /\ Len(<<r>>) = 1 /\ <<r>>[1] = r
  OBVIOUS
<1>2. RunEnd(<<r>>, 1) = RunEnd(<<r>>, 0) + r.len /\ RunEnd(<<r>>, 0) = 0 /\ r.len \in Nat
  <2> DEFINE one == <<r>>
  <2>1. one \in Seq(R) /\ Len(one) = 1 /\ one[1] = r /\ r.len \in Nat
    BY <1>1 DEF HaveLengths
  <2> HIDE DEF one
  <2>2. RunEnd(one, 0) = 0 /\ RunEnd(one, 1) = RunEnd(one, 0) + one[1].len
    BY <2>1, RunEndIs
  <2> QED
    BY <2>1, <2>2 DEF one
<1> QED
  BY <1>1, <1>2 DEF Total

LEMMA NoRuns ==
    ASSUME NEW R, HaveLengths(R)
    PROVE  <<>> \in Seq(R) /\ Len(<<>>) = 0 /\ Total(<<>>) = 0
<1>1. <<>> \in Seq(R) /\ Len(<<>>) = 0
  BY EmptySeq
<1> QED
  BY <1>1, RunEndIs DEF Total

LEMMA OneMore ==
    ASSUME NEW R, HaveLengths(R), NEW runs \in Seq(R), NEW r \in R
    PROVE  /\ Append(runs, r) \in Seq(R) /\ Len(Append(runs, r)) = Len(runs) + 1
           /\ Append(runs, r)[Len(runs) + 1] = r
           /\ \A i \in 1 .. Len(runs) : Append(runs, r)[i] = runs[i]
           /\ Total(Append(runs, r)) = Total(runs) + r.len
<1>1. /\ Append(runs, r) \in Seq(R) /\ Len(Append(runs, r)) = Len(runs) + 1
      /\ Append(runs, r)[Len(runs) + 1] = r
      /\ \A i \in 1 .. Len(runs) : Append(runs, r)[i] = runs[i]
  BY AppendProperties
<1> DEFINE all == Append(runs, r)
           g == [i \in 0 .. Len(runs) + 1 |-> IF i <= Len(runs) THEN RunEnd(runs, i)
                                              ELSE RunEnd(runs, Len(runs)) + r.len]
<1>2. Len(runs) \in Nat /\ r.len \in Nat
  BY RunEndIs DEF HaveLengths
<1>3. /\ g[0] = 0
      /\ \A i \in 0 .. Len(runs) + 1 : g[i] = IF i <= Len(runs) THEN RunEnd(runs, i)
                                              ELSE RunEnd(runs, Len(runs)) + r.len
  BY <1>2, RunEndIs
<1>4. Len(all) = Len(runs) + 1 /\ all \in Seq(R)
  BY <1>1
<1>5. \A i \in 1 .. Len(runs) + 1 : all[i] = IF i <= Len(runs) THEN runs[i] ELSE r
  BY <1>1, <1>2
<1> HIDE DEF all, g
<1>6. \A i \in 1 .. Len(all) : g[i] = g[i - 1] + all[i].len
  <2> TAKE i \in 1 .. Len(all)
  <2>1. CASE i <= Len(runs)
    <3>1. RunEnd(runs, i) = RunEnd(runs, i - 1) + runs[i].len
      BY <1>2, <2>1, RunEndIs
    <3> QED
      BY <1>2, <1>3, <1>4, <1>5, <2>1, <3>1
  <2>2. CASE ~(i <= Len(runs))
    BY <1>2, <1>3, <1>4, <1>5, <2>2
  <2> QED
    BY <2>1, <2>2
<1>7. \A i \in 0 .. Len(all) : RunEnd(all, i) = g[i]
  BY <1>3, <1>4, <1>6, RunEndOnly
<1>8. Total(all) = Total(runs) + r.len
  BY <1>2, <1>3, <1>4, <1>7 DEF Total
<1> QED
  BY <1>1, <1>8 DEF all

-----------------------------------------------------------------------------
(* Runs.                                                                   *)

LEMMA TextRunLengths == HaveLengths(TextRun)
BY DEF HaveLengths, TextRun

LEMMA NoLinkTyped == NoLink \in Links /\ \A url \in Seq(STRING) : Site(url) \in Links
<1>1. <<>> \in Seq(STRING)
  BY EmptySeq
<1> QED
  BY <1>1 DEF NoLink, Site, Links

LEMMA PageLinkTyped ==
    ASSUME NEW page \in Pages
    PROVE  PageLink(page) \in Links
<1>1. <<page>> \in Seq(Pages)
  OBVIOUS
<1> QED
  BY <1>1 DEF PageLink, Links

LEMMA StyleSets ==
    /\ {} \in Styles
    /\ \A a, b \in Styles : /\ a \ Underline \in Styles /\ a \cup Underline \in Styles
                            /\ (a \ Underline) \cup (b \cap Underline) \in Styles
    /\ \A a \in Styles, which \in {"bold", "underline"} :
           a \cup {which} \in Styles /\ a \ {which} \in Styles
BY DEF Styles, Underline

LEMMA RunTyped ==
    ASSUME NEW len \in Nat, NEW style \in Styles, NEW link \in Links, NEW auto \in BOOLEAN
    PROVE  Run(len, style, link, auto) \in TextRun /\ Run(len, style, link, auto).len = len
BY DEF Run, TextRun

(* A run that is changed stays a run. *)
LEMMA RunWithLen ==
    ASSUME NEW r \in TextRun, NEW n \in Nat
    PROVE  [r EXCEPT !.len = n] \in TextRun /\ [r EXCEPT !.len = n].len = n
BY DEF TextRun

LEMMA RunChanged ==
    ASSUME NEW r \in TextRun
    PROVE  /\ \A n \in Nat : [r EXCEPT !.len = n] \in TextRun /\ [r EXCEPT !.len = n].len = n
           /\ \A n \in Nat : /\ [r EXCEPT !.len = n, !.auto = FALSE] \in TextRun
                             /\ [r EXCEPT !.len = n, !.auto = FALSE].len = n
           /\ \A link \in Links : /\ [r EXCEPT !.link = link] \in TextRun
                                  /\ [r EXCEPT !.link = link].len = r.len
           /\ [r EXCEPT !.auto = FALSE] \in TextRun /\ [r EXCEPT !.auto = FALSE].len = r.len
           /\ \A n \in Nat : Longer(r, n) \in TextRun /\ Longer(r, n).len = r.len + n
<1>1. ASSUME NEW n \in Nat
      PROVE  [r EXCEPT !.len = n] \in TextRun /\ [r EXCEPT !.len = n].len = n
  BY DEF TextRun
<1>2. ASSUME NEW n \in Nat
      PROVE  /\ [r EXCEPT !.len = n, !.auto = FALSE] \in TextRun
             /\ [r EXCEPT !.len = n, !.auto = FALSE].len = n
  BY DEF TextRun
<1>3. ASSUME NEW link \in Links
      PROVE  /\ [r EXCEPT !.link = link] \in TextRun
             /\ [r EXCEPT !.link = link].len = r.len
  BY DEF TextRun
<1>4. [r EXCEPT !.auto = FALSE] \in TextRun /\ [r EXCEPT !.auto = FALSE].len = r.len
  BY DEF TextRun
<1>5. ASSUME NEW n \in Nat
      PROVE  Longer(r, n) \in TextRun /\ Longer(r, n).len = r.len + n
  BY DEF TextRun, Longer
<1> QED
  BY <1>1, <1>2, <1>3, <1>4, <1>5

LEMMA RunAtIs ==
    ASSUME NEW runs \in Seq(TextRun), NEW c \in Nat
    PROVE  /\ RunAt(runs, c) \in 0 .. Len(runs)
           /\ RunAt(runs, c) > 0 => RunEnd(runs, RunAt(runs, c)) >= c
           /\ \A j \in 1 .. Len(runs) : RunEnd(runs, j) >= c =>
                 RunAt(runs, c) > 0 /\ RunAt(runs, c) <= j
<1> DEFINE reach == {i \in DOMAIN runs : RunEnd(runs, i) >= c}
           at == RunAt(runs, c)
<1>1. Len(runs) \in Nat /\ DOMAIN runs = 1 .. Len(runs)
  BY LenProperties
<1>2. at = IF reach = {} THEN 0 ELSE Min(reach)
  BY DEF RunAt
<1>3. reach \subseteq Nat
  BY <1>1
<1>4. reach # {} => Min(reach) \in reach /\ \A y \in reach : Min(reach) <= y
  <2> HIDE DEF reach
  <2> QED
    BY <1>3, MinIn
<1> HIDE DEF at
<1>5. CASE reach = {}
  BY <1>1, <1>2, <1>5 DEF at
<1>6. CASE reach # {}
  <2>1. at \in 1 .. Len(runs) /\ RunEnd(runs, at) >= c
    BY <1>1, <1>2, <1>4, <1>6
  <2>2. \A j \in 1 .. Len(runs) : RunEnd(runs, j) >= c => at <= j
    BY <1>1, <1>2, <1>4, <1>6
  <2> QED
    BY <1>1, <2>1, <2>2 DEF at
<1> QED
  BY <1>5, <1>6

LEMMA RunOfTyped ==
    ASSUME NEW runs \in Seq(TextRun), NEW c \in Nat
    PROVE  RunOf(runs, c) \in TextRun
<1>1. RunAt(runs, c) \in 0 .. Len(runs) /\ Len(runs) \in Nat
  BY RunAtIs, LenProperties
<1>2. CASE RunAt(runs, c) = 0
  <2>1. Run(1, {}, NoLink, FALSE) \in TextRun
    BY RunTyped, NoLinkTyped, StyleSets
  <2> QED
    BY <1>2, <2>1 DEF RunOf
<1>3. CASE RunAt(runs, c) # 0
  <2>1. RunAt(runs, c) \in 1 .. Len(runs)
    BY <1>1, <1>3
  <2>2. runs[RunAt(runs, c)] \in TextRun
    BY <2>1, ElementOfSeq
  <2> QED
    BY <1>3, <2>2 DEF RunOf
<1> QED
  BY <1>2, <1>3

-----------------------------------------------------------------------------
(* SplitRunsAt.                                                            *)

(* The runs that end by a position are the first so many. *)
LEMMA SplitPlace ==
    ASSUME NEW runs \in Seq(TextRun), NEW pos \in Nat
    PROVE  \E n \in 0 .. Len(runs) :
             /\ Cardinality({i \in DOMAIN runs : RunEnd(runs, i) <= pos}) = n
             /\ RunEnd(runs, n) <= pos
             /\ \A i \in n + 1 .. Len(runs) : RunEnd(runs, i) > pos
<1> DEFINE T == {k \in 0 .. Len(runs) : RunEnd(runs, k) <= pos}
           n == Max(T)
           done == {i \in DOMAIN runs : RunEnd(runs, i) <= pos}
<1>0. HaveLengths(TextRun)
  BY TextRunLengths
<1>1. /\ Len(runs) \in Nat /\ DOMAIN runs = 1 .. Len(runs)
      /\ RunEnd(runs, 0) = 0 /\ \A i \in 0 .. Len(runs) : RunEnd(runs, i) \in Nat
  BY <1>0, LenProperties, RunEndIs
<1>2. n \in T /\ \A y \in T : n >= y
  <2>1. 0 \in T /\ T \subseteq 0 .. Len(runs)
    BY <1>1
  <2> HIDE DEF T
  <2> QED
    BY <1>1, <2>1, MaxIn
<1> HIDE DEF n
<1>3. n \in 0 .. Len(runs) /\ RunEnd(runs, n) <= pos
  BY <1>2
<1>4. \A i \in n + 1 .. Len(runs) : RunEnd(runs, i) > pos
  <2> SUFFICES ASSUME NEW i \in n + 1 .. Len(runs), ~(RunEnd(runs, i) > pos) PROVE FALSE
    OBVIOUS
  <2>1. i \in T
    BY <1>1, <1>3
  <2> QED
    BY <1>1, <1>2, <1>3, <2>1
<1>5. done = 1 .. n
  <2>1. ASSUME NEW i \in 1 .. n
        PROVE  i \in done
    <3>1. i \in 0 .. n /\ n \in 0 .. Len(runs) /\ i \in 1 .. Len(runs)
      BY <1>1, <1>3
    <3>2. RunEnd(runs, i) <= RunEnd(runs, n)
      BY <1>0, <3>1, RunEndsRise
    <3>3. RunEnd(runs, i) \in Nat /\ RunEnd(runs, n) \in Nat
      BY <1>1, <3>1
    <3> QED
      BY <1>1, <1>3, <3>1, <3>2, <3>3
  <2>2. ASSUME NEW i \in done
        PROVE  i \in 1 .. n
    <3>1. i \in 1 .. Len(runs) /\ RunEnd(runs, i) <= pos /\ RunEnd(runs, i) \in Nat
      BY <1>1
    <3> QED
      BY <1>1, <1>3, <1>4, <3>1
  <2> QED
    BY <2>1, <2>2
<1>6. Cardinality(done) = n
  <2>1. Cardinality(1 .. n) = IF 1 > n THEN 0 ELSE n - 1 + 1
    BY <1>1, <1>3, FS_Interval
  <2> HIDE DEF done
  <2> QED
    BY <1>1, <1>3, <1>5, <2>1
<1> QED
  BY <1>3, <1>4, <1>6

(* The runs but the first. *)
LEMMA RestOfRuns ==
    ASSUME NEW runs \in Seq(TextRun), Len(runs) # 0
    PROVE  /\ Tail(runs) \in Seq(TextRun) /\ Len(Tail(runs)) = Len(runs) - 1
           /\ Total(Tail(runs)) = Total(runs) - runs[1].len
<1> DEFINE n == Len(runs)
           part == SubSeq(runs, 1 + 1, n)
<1>1. n \in Nat \ {0} /\ runs # <<>>
  BY EmptySeq, LenProperties
<1>2. Tail(runs) = part
  <2>1. Tail(runs) = SubSeq(runs, 2, n)
    BY <1>1, TailIsSubSeq
  <2>2. 1 + 1 = 2
    OBVIOUS
  <2> HIDE DEF n
  <2> QED
    BY <2>1, <2>2
<1>3. part \in Seq(TextRun) /\ Len(part) = n - 1 /\ Total(part) = RunEnd(runs, n) - RunEnd(runs, 1)
  <2>1. 1 \in 0 .. Len(runs) /\ n \in 1 .. Len(runs)
    BY <1>1
  <2> QED
    BY <2>1, PartEnds, TextRunLengths
<1>4. RunEnd(runs, 1) = runs[1].len
  <2>1. /\ RunEnd(runs, 0) = 0
        /\ \A i \in 1 .. Len(runs) : RunEnd(runs, i) = RunEnd(runs, i - 1) + runs[i].len
    BY RunEndIs, TextRunLengths
  <2>2. 1 \in 1 .. Len(runs) /\ 1 - 1 = 0
    BY <1>1
  <2>3. runs[1].len \in Nat
    BY <2>2, ElementOfSeq, TextRunLengths DEF HaveLengths
  <2>4. RunEnd(runs, 1) = RunEnd(runs, 0) + runs[1].len
    BY <2>1, <2>2
  <2> QED
    BY <2>1, <2>3, <2>4
<1>5. Total(runs) = RunEnd(runs, n)
  BY DEF Total
<1> QED
  BY <1>2, <1>3, <1>4, <1>5

(* Both halves have as many characters as there are on their side; only a run
   that is cut in two takes a run more, and nothing is left behind the end. *)
LEMMA SplitParts ==
    ASSUME NEW runs \in Seq(TextRun), NEW pos \in 0 .. Total(runs)
    PROVE  \E left, right \in Seq(TextRun) :
             /\ SplitRunsAt(runs, pos) = <<left, right>>
             /\ Total(left) = pos /\ Total(right) = Total(runs) - pos
             /\ Len(left) <= Len(runs) /\ Len(right) <= Len(runs)
             /\ \/ Len(left) + Len(right) = Len(runs)
                \/ /\ Len(left) + Len(right) = Len(runs) + 1
                   /\ \E j \in 1 .. Len(runs) : RunStart(runs, j) < pos /\ pos < RunEnd(runs, j)
             /\ pos = Total(runs) => right = <<>>
<1> DEFINE done == {i \in DOMAIN runs : RunEnd(runs, i) <= pos}
           n == Cardinality(done)
           whole == SubSeq(runs, 1, n)
           rest == SubSeq(runs, n + 1, Len(runs))
           start == RunStart(runs, n + 1)
           end == RunEnd(runs, n + 1)
           inside == n < Len(runs) /\ start < pos
           part(len) == [rest[1] EXCEPT !.len = len, !.auto = FALSE]
           one == part(pos - start)
           two == part(end - pos)
           more == Tail(rest)
<1>0. HaveLengths(TextRun)
  BY TextRunLengths
<1>1. /\ Len(runs) \in Nat /\ RunEnd(runs, 0) = 0
      /\ \A i \in 0 .. Len(runs) : RunEnd(runs, i) \in Nat
      /\ Total(runs) = RunEnd(runs, Len(runs)) /\ Total(runs) \in Nat /\ pos \in Nat
  <2>1. /\ Len(runs) \in Nat /\ RunEnd(runs, 0) = 0
        /\ \A i \in 0 .. Len(runs) : RunEnd(runs, i) \in Nat
    BY <1>0, RunEndIs
  <2>2. Total(runs) = RunEnd(runs, Len(runs))
    BY DEF Total
  <2>3. Total(runs) \in Nat
    BY <2>1, <2>2
  <2> QED
    BY <2>1, <2>2, <2>3
<1>2. /\ n \in 0 .. Len(runs) /\ RunEnd(runs, n) <= pos
      /\ \A i \in n + 1 .. Len(runs) : RunEnd(runs, i) > pos
  BY <1>1, SplitPlace
<1>3. SplitRunsAt(runs, pos) = IF inside THEN <<Append(whole, one), <<two>> \o more>>
                               ELSE <<whole, rest>>
  BY DEF SplitRunsAt
<1> HIDE DEF n
<1>4. n \in Nat /\ RunEnd(runs, n) \in Nat /\ 0 \in 0 .. Len(runs) /\ n \in 0 .. n
  BY <1>1, <1>2
<1>5. /\ whole \in Seq(TextRun) /\ Len(whole) = n /\ Total(whole) = RunEnd(runs, n)
  <2>1. n \in 0 .. Len(runs) /\ n - 0 = n /\ 0 + 1 = 1
    BY <1>2
  <2>2. /\ SubSeq(runs, 0 + 1, n) \in Seq(TextRun) /\ Len(SubSeq(runs, 0 + 1, n)) = n - 0
        /\ Total(SubSeq(runs, 0 + 1, n)) = RunEnd(runs, n) - RunEnd(runs, 0)
    BY <1>0, <1>4, <2>1, PartEnds
  <2> QED
    BY <1>1, <1>4, <2>1, <2>2
<1>6. /\ rest \in Seq(TextRun) /\ Len(rest) = Len(runs) - n
      /\ Total(rest) = Total(runs) - RunEnd(runs, n)
      /\ n < Len(runs) => rest[1] = runs[n + 1]
  <2>1. n \in 0 .. Len(runs) /\ Len(runs) \in n .. Len(runs)
    BY <1>1, <1>2
  <2>2. /\ rest \in Seq(TextRun) /\ Len(rest) = Len(runs) - n
        /\ \A i \in 1 .. Len(runs) - n : rest[i] = runs[n + i]
        /\ Total(rest) = RunEnd(runs, Len(runs)) - RunEnd(runs, n)
    BY <1>0, <2>1, PartEnds
  <2> HIDE DEF rest
  <2> QED
    BY <1>1, <1>4, <2>2
<1> HIDE DEF whole, rest
<1>7. CASE inside
  <2>1. /\ n < Len(runs) /\ start < pos /\ n + 1 \in 1 .. Len(runs)
    BY <1>1, <1>4, <1>7
  <2>2. /\ start = RunEnd(runs, n) /\ start \in Nat /\ end \in Nat /\ end > pos /\ end <= Total(runs)
        /\ runs[n + 1] \in TextRun /\ end = start + runs[n + 1].len /\ runs[n + 1].len \in Nat
    <3>1. /\ start \in Nat /\ end \in Nat /\ end <= Total(runs)
          /\ end = start + runs[n + 1].len /\ runs[n + 1].len \in Nat
      BY <1>0, <2>1, RunLies
    <3>2. start = RunEnd(runs, n)
      BY <1>4 DEF RunStart
    <3>3. end > pos
      BY <1>1, <1>2, <1>4, <2>1
    <3>4. runs[n + 1] \in TextRun
      BY <2>1, ElementOfSeq
    <3> QED
      BY <3>1, <3>2, <3>3, <3>4
  <2>3. pos - start \in Nat /\ end - pos \in Nat
    BY <1>1, <2>1, <2>2
  <2>4. /\ one \in TextRun /\ one.len = pos - start
        /\ two \in TextRun /\ two.len = end - pos
    BY <1>6, <2>1, <2>2, <2>3, RunChanged
  <2> HIDE DEF start, end, one, two
  <2>5. /\ Append(whole, one) \in Seq(TextRun) /\ Len(Append(whole, one)) = n + 1
        /\ Total(Append(whole, one)) = RunEnd(runs, n) + (pos - start)
    BY <1>0, <1>5, <2>4, OneMore
  <2>6. /\ more \in Seq(TextRun) /\ Len(more) = Len(runs) - n - 1
        /\ Total(more) = Total(rest) - runs[n + 1].len
    <3>1. Len(rest) \in Nat \ {0} /\ rest # <<>>
      BY <1>1, <1>4, <1>6, <2>1, EmptySeq
    <3>2. /\ more \in Seq(TextRun) /\ Len(more) = Len(rest) - 1
          /\ Total(more) = Total(rest) - rest[1].len
      BY <1>6, <3>1, RestOfRuns
    <3> HIDE DEF more
    <3> QED
      BY <3>2, <1>6, <2>1
  <2>7. /\ <<two>> \o more \in Seq(TextRun) /\ Len(<<two>> \o more) = 1 + Len(more)
        /\ Total(<<two>> \o more) = (end - pos) + Total(more)
    <3> DEFINE head == <<two>>
    <3>1. head \in Seq(TextRun) /\ Len(head) = 1 /\ Total(head) = end - pos
      BY <1>0, <2>4, OneRun
    <3> HIDE DEF more, head
    <3>2. /\ head \o more \in Seq(TextRun) /\ Len(head \o more) = Len(head) + Len(more)
          /\ Total(head \o more) = Total(head) + Total(more)
      BY <1>0, <2>6, <3>1, JoinedTotal
    <3>3. /\ head \o more \in Seq(TextRun) /\ Len(head \o more) = 1 + Len(more)
          /\ Total(head \o more) = (end - pos) + Total(more)
      BY <3>1, <3>2
    <3> QED
      BY <3>3 DEF head
  <2> DEFINE left == Append(whole, one)
             right == <<two>> \o more
  <2>8. /\ Total(left) = pos /\ Total(right) = Total(runs) - pos
        /\ Len(left) = n + 1 /\ Len(right) = Len(runs) - n
    <3> DEFINE tl == Total(left)
               tr == Total(right)
               ll == Len(left)
               lr == Len(right)
               all == Total(runs)
               lm == Len(more)
               tm == Total(more)
               e == RunEnd(runs, n)
               l == runs[n + 1].len
               k == Len(runs)
    <3>1. /\ ll = n + 1 /\ tl = e + (pos - start)
          /\ lr = 1 + lm /\ tr = (end - pos) + tm
          /\ lm = k - n - 1 /\ tm = (all - e) - l
          /\ start = e /\ end = start + l
          /\ n \in Nat /\ e \in Nat /\ l \in Nat /\ k \in Nat /\ all \in Nat /\ pos \in Nat
      BY <1>1, <1>4, <1>6, <2>1, <2>2, <2>5, <2>6, <2>7
    <3> HIDE DEF tl, tr, ll, lr, all, lm, tm, e, l, k
    <3>2. /\ tl = pos /\ tr = all - pos /\ ll = n + 1 /\ lr = k - n
      BY <3>1
    <3> QED
      BY <3>2 DEF tl, tr, ll, lr, all, k
  <2>9. \E j \in 1 .. Len(runs) : RunStart(runs, j) < pos /\ pos < RunEnd(runs, j)
    BY <2>1, <2>2 DEF start, end
  <2>10. /\ left \in Seq(TextRun) /\ right \in Seq(TextRun)
         /\ SplitRunsAt(runs, pos) = <<left, right>>
    BY <1>3, <1>7, <2>5, <2>7
  <2> HIDE DEF left, right
  <2>11. /\ Len(left) <= Len(runs) /\ Len(right) <= Len(runs)
         /\ Len(left) + Len(right) = Len(runs) + 1
         /\ ~(pos = Total(runs))
    BY <1>1, <1>4, <2>1, <2>2, <2>8
  <2> QED
    BY <2>8, <2>9, <2>10, <2>11
<1>8. CASE ~inside
  <2>1. RunEnd(runs, n) = pos
    <3>1. CASE n = Len(runs)
      BY <1>1, <1>2, <3>1
    <3>2. CASE n # Len(runs)
      <4>1. n < Len(runs) /\ ~(start < pos)
        BY <1>1, <1>2, <3>2, <1>8
      <4>2. start = RunEnd(runs, n)
        BY <1>4 DEF RunStart
      <4> QED
        BY <1>1, <1>2, <1>4, <4>1, <4>2
    <3> QED
      BY <3>1, <3>2
  <2>2. SplitRunsAt(runs, pos) = <<whole, rest>>
    BY <1>3, <1>8
  <2>3. pos = Total(runs) => rest = <<>>
    <3> SUFFICES ASSUME pos = Total(runs) PROVE rest = <<>>
      OBVIOUS
    <3>1. ~(n < Len(runs))
      <4> SUFFICES ASSUME n < Len(runs) PROVE FALSE
        OBVIOUS
      <4>1. Len(runs) \in n + 1 .. Len(runs)
        BY <1>1, <1>4
      <4>2. RunEnd(runs, Len(runs)) > pos
        BY <1>2, <4>1
      <4> QED
        BY <1>1, <4>2
    <3>2. Len(rest) = 0
      BY <1>1, <1>2, <1>6, <3>1
    <3> QED
      BY <1>6, <3>2, EmptySeq
  <2>4. Len(whole) + Len(rest) = Len(runs) /\ Len(whole) <= Len(runs) /\ Len(rest) <= Len(runs)
    BY <1>1, <1>2, <1>5, <1>6
  <2> QED
    BY <1>5, <1>6, <2>1, <2>2, <2>3, <2>4
<1> QED
  BY <1>7, <1>8

LEMMA SplitNone ==
    ASSUME NEW pos \in Nat
    PROVE  SplitRunsAt(<<>>, pos) = <<<<>>, <<>>>>
<1> DEFINE runs == <<>>
           done == {i \in DOMAIN runs : RunEnd(runs, i) <= pos}
           n == Cardinality(done)
           inside == n < Len(runs) /\ RunStart(runs, n + 1) < pos
<1>1. runs \in Seq(TextRun) /\ Len(runs) = 0 /\ DOMAIN runs = 1 .. Len(runs)
  BY EmptySeq, LenProperties
<1>2. done = {}
  BY <1>1
<1>3. n = 0
  <2> HIDE DEF done
  <2> QED
    BY <1>2, FS_EmptySet
<1>4. ~inside
  BY <1>1, <1>3
<1>5. SubSeq(runs, 1, 0) = <<>>
  BY SubSeqEmpty
<1>6. SplitRunsAt(runs, pos) = <<SubSeq(runs, 1, n), SubSeq(runs, n + 1, Len(runs))>>
  BY <1>4 DEF SplitRunsAt
<1> HIDE DEF runs, n
<1>7. SplitRunsAt(runs, pos) = <<<<>>, <<>>>>
  BY <1>1, <1>3, <1>5, <1>6
<1> QED
  BY <1>7 DEF runs

-----------------------------------------------------------------------------
(* MergeRuns.                                                              *)

LEMMA MergeRunKeeps ==
    ASSUME NEW runs \in Seq(TextRun), NEW r \in TextRun
    PROVE  /\ MergeRun(runs, r) \in Seq(TextRun)
           /\ Total(MergeRun(runs, r)) = Total(runs) + r.len
           /\ Len(MergeRun(runs, r)) <= Len(runs) + (IF r.len = 0 THEN 0 ELSE 1)
<1> DEFINE n == Len(runs)
           alike == n > 0 /\ runs[n].style = r.style /\ SameExtras(runs[n], r)
           longer == [runs EXCEPT ![n] = Longer(@, r.len)]
           m == MergeRun(runs, r)
<1>1. n \in Nat /\ r.len \in Nat /\ Total(runs) \in Nat
  <2>1. n \in Nat /\ \A i \in 0 .. Len(runs) : RunEnd(runs, i) \in Nat
    BY RunEndIs, TextRunLengths
  <2>2. n \in 0 .. Len(runs)
    BY <2>1
  <2> QED
    BY <2>1, <2>2, TextRunLengths DEF HaveLengths, Total
<1>2. m = IF r.len = 0 THEN runs ELSE IF alike THEN longer ELSE Append(runs, r)
  BY DEF MergeRun
<1>3. CASE r.len = 0
  BY <1>1, <1>2, <1>3
<1>4. CASE r.len # 0 /\ alike
  <2>1. n \in 1 .. Len(runs) /\ n > 0
    BY <1>1, <1>4
  <2>2. Longer(runs[n], r.len) \in TextRun /\ Longer(runs[n], r.len).len = runs[n].len + r.len
    BY <1>1, <2>1, ElementOfSeq, RunChanged
  <2>3. /\ longer \in Seq(TextRun) /\ Len(longer) = Len(runs)
        /\ \A j \in 1 .. Len(runs) : longer[j] = IF j = n THEN Longer(runs[n], r.len) ELSE runs[j]
    BY <2>1, <2>2, ExceptSeq
  <2>4. /\ longer[n].len = runs[n].len + r.len
        /\ \A i \in 1 .. Len(runs) : i # n => longer[i].len = runs[i].len
    BY <2>1, <2>2, <2>3
  <2>5. longer \in Seq(TextRun) /\ Len(longer) = Len(runs) /\ r.len \in Int
    BY <1>1, <2>3
  <2> HIDE DEF longer, n
  <2>6. Total(longer) = Total(runs) + r.len
    BY <2>1, <2>4, <2>5, OneLonger, TextRunLengths
  <2> QED
    BY <1>1, <1>2, <1>4, <2>5, <2>6 DEF n
<1>5. CASE r.len # 0 /\ ~alike
  <2>1. m = Append(runs, r)
    BY <1>2, <1>5
  <2>2. /\ Append(runs, r) \in Seq(TextRun) /\ Len(Append(runs, r)) = Len(runs) + 1
        /\ Total(Append(runs, r)) = Total(runs) + r.len
    BY OneMore, TextRunLengths
  <2> HIDE DEF m
  <2>3. m \in Seq(TextRun) /\ Len(m) <= Len(runs) + 1 /\ Total(m) = Total(runs) + r.len
    BY <1>1, <2>1, <2>2
  <2> QED
    BY <1>5, <2>3 DEF m
<1> QED
  BY <1>3, <1>4, <1>5

(* Merging keeps the characters, and an empty run is one run less. *)
LEMMA MergeKeeps ==
    ASSUME NEW runs \in Seq(TextRun)
    PROVE  /\ MergeRuns(runs) \in Seq(TextRun)
           /\ Total(MergeRuns(runs)) = Total(runs)
           /\ Len(MergeRuns(runs)) <= Len(runs)
           /\ \A gap \in 1 .. Len(runs) : runs[gap].len = 0 => Len(MergeRuns(runs)) <= Len(runs) - 1
<1> SUFFICES ASSUME NEW gap \in 1 .. Len(runs) + 1,
                    gap \in 1 .. Len(runs) => runs[gap].len = 0
             PROVE  /\ MergeRuns(runs) \in Seq(TextRun)
                    /\ Total(MergeRuns(runs)) = Total(runs)
                    /\ Len(MergeRuns(runs)) <= Len(runs)
                    /\ gap \in 1 .. Len(runs) => Len(MergeRuns(runs)) <= Len(runs) - 1
  <2>1. Len(runs) \in Nat
    BY LenProperties
  <2>2. Len(runs) + 1 \in 1 .. Len(runs) + 1 /\ Len(runs) + 1 \notin 1 .. Len(runs)
    BY <2>1
  <2>3. \A gap \in 1 .. Len(runs) : gap \in 1 .. Len(runs) + 1
    BY <2>1
  <2> QED
    BY <2>2, <2>3
<1> DEFINE n == Len(runs)
           Part(i) == {m \in Seq(TextRun) : /\ Total(m) = RunEnd(runs, i)
                                            /\ Len(m) <= IF i < gap THEN i ELSE i - 1}
           S == [i \in 0 .. n |-> Part(i)]
           step == [i \in 1 .. n |-> [a \in Seq(TextRun) |-> MergeRun(a, runs[i])]]
           F(f) == f = [i \in 0 .. n |-> IF i = 0 THEN <<>> ELSE MergeRun(f[i - 1], runs[i])]
           merged == CHOOSE f : F(f)
<1>1. /\ n \in Nat /\ \A i \in 1 .. n : runs[i] \in TextRun /\ runs[i].len \in Nat
      /\ RunEnd(runs, 0) = 0 /\ \A i \in 0 .. n : RunEnd(runs, i) \in Nat
      /\ \A i \in 1 .. n : RunEnd(runs, i) = RunEnd(runs, i - 1) + runs[i].len
  BY RunEndIs, TextRunLengths, ElementOfSeq DEF HaveLengths
<1>2. \A i \in 1 .. n : \A a \in Seq(TextRun) : step[i][a] = MergeRun(a, runs[i])
  OBVIOUS
<1>3. \A i \in 0 .. n : S[i] = Part(i)
  OBVIOUS
<1>4. MergeRuns(runs) = merged[n]
  BY DEF MergeRuns
<1> HIDE DEF n, S, step, merged
<1>5. <<>> \in S[0]
  <2>1. <<>> \in Seq(TextRun) /\ Len(<<>>) = 0 /\ Total(<<>>) = 0
    BY NoRuns, TextRunLengths
  <2>2. 0 < gap
    BY <1>1 DEF n
  <2>3. <<>> \in Part(0)
    BY <1>1, <2>1, <2>2
  <2>4. 0 \in 0 .. n
    BY <1>1
  <2> QED
    BY <1>3, <2>3, <2>4
<1>6. ASSUME NEW i \in 1 .. n, NEW a \in S[i - 1]
      PROVE  /\ a \in Seq(TextRun) /\ MergeRun(a, runs[i]) \in S[i]
  <2>1. i - 1 \in 0 .. n /\ i \in 0 .. n
    BY <1>1
  <2>2. a \in Part(i - 1)
    BY <1>3, <2>1
  <2> DEFINE m == MergeRun(a, runs[i])
             l == runs[i].len
  <2>3. /\ m \in Seq(TextRun) /\ Total(m) = Total(a) + l
        /\ Len(m) <= Len(a) + (IF l = 0 THEN 0 ELSE 1)
    BY <1>1, <2>2, MergeRunKeeps
  <2>4. Len(m) \in Nat /\ Len(a) \in Nat /\ l \in Nat
    BY <1>1, <2>2, <2>3, LenProperties
  <2>5. Total(m) = RunEnd(runs, i)
    BY <1>1, <2>2, <2>3
  <2>6. i = gap => l = 0
    BY DEF n
  <2> HIDE DEF m, l
  <2>7. Len(m) <= IF i < gap THEN i ELSE i - 1
    <3>1. Len(a) <= IF i - 1 < gap THEN i - 1 ELSE (i - 1) - 1
      BY <2>2
    <3>2. gap \in Nat /\ i \in Nat
      BY <1>1 DEF n
    <3>3. CASE i < gap
      BY <2>3, <2>4, <3>1, <3>2, <3>3
    <3>4. CASE i = gap
      BY <2>3, <2>4, <2>6, <3>1, <3>2, <3>4
    <3>5. CASE i > gap
      BY <2>3, <2>4, <3>1, <3>2, <3>5
    <3> QED
      BY <3>2, <3>3, <3>4, <3>5
  <2>8. m \in Part(i)
    BY <2>3, <2>5, <2>7
  <2> QED
    BY <1>3, <2>1, <2>2, <2>8 DEF m
<1> HIDE DEF Part
<1>7. \E f : F(f)
  <2>1. \A i \in 1 .. n : \A a \in S[i - 1] : step[i][a] \in S[i]
    BY <1>2, <1>6
  <2>2. PICK f : Steps(f, n, <<>>, step) /\ \A i \in 0 .. n : f[i] \in S[i]
    BY <1>1, <1>5, <2>1, StepsStay
  <2>3. ASSUME NEW i \in 1 .. n
        PROVE  step[i][f[i - 1]] = MergeRun(f[i - 1], runs[i])
    <3>1. f[i - 1] \in S[i - 1]
      BY <1>1, <2>2
    <3> QED
      BY <1>2, <1>6, <3>1
  <2>4. \A i \in 0 .. n : (IF i = 0 THEN <<>> ELSE step[i][f[i - 1]])
                          = (IF i = 0 THEN <<>> ELSE MergeRun(f[i - 1], runs[i]))
    BY <1>1, <2>3
  <2>5. F(f)
    BY <2>2, <2>4 DEF Steps
  <2> QED
    BY <2>5
<1>8. F(merged)
  BY <1>7 DEF merged
<1>9. merged[0] = <<>> /\ \A i \in 1 .. n : merged[i] = MergeRun(merged[i - 1], runs[i])
  BY <1>1, <1>8
<1> HIDE DEF F
<1>10. \A i \in 1 .. n : merged[i - 1] \in S[i - 1] => merged[i] \in S[i]
  BY <1>6, <1>9
<1>11. merged[0] \in S[0]
  BY <1>5, <1>9
<1>12. \A i \in 0 .. n : merged[i] \in S[i]
  BY <1>1, <1>10, <1>11, Stays
<1>13. merged[n] \in Part(n)
  <2>1. n \in 0 .. n
    BY <1>1
  <2>2. merged[n] \in S[n] /\ S[n] = Part(n)
    BY <1>3, <1>12, <2>1
  <2> QED
    BY <2>2
<1>14. n < gap <=> ~(gap \in 1 .. Len(runs))
  BY <1>1 DEF n
<1>15. Len(merged[n]) \in Nat /\ Total(runs) = RunEnd(runs, n)
  BY <1>13, LenProperties DEF Part, n, Total
<1> QED
  BY <1>1, <1>4, <1>13, <1>14, <1>15 DEF Part, n

-----------------------------------------------------------------------------
(* EditSpan and what is worked out from it.                                *)

(* What an edit leaves at both ends is in both texts, without overlap. *)
LEMMA SpanFits ==
    ASSUME NEW old \in Seq(STRING), NEW new \in Seq(STRING), NEW caret \in 0 .. Len(new)
    PROVE  LET p == EditSpan(old, new, caret)[1]
               s == EditSpan(old, new, caret)[2]
           IN  /\ p \in Nat /\ s \in Nat
               /\ p + s <= Len(old) /\ p + s <= Len(new)
               /\ \A i \in 0 .. s - 1 : old[Len(old) - i] = new[Len(new) - i]
<1> DEFINE lo == Len(old)
           ln == Len(new)
           most == Min({lo, ln - caret})
           both == Min({lo, ln})
           Ends == {n \in 0 .. most : \A i \in 0 .. n - 1 : old[Len(old) - i] = new[Len(new) - i]}
           s == Max(Ends)
           Heads == {n \in 0 .. both - s : SubSeq(old, 1, n) = SubSeq(new, 1, n)}
           p == Max(Heads)
<1>1. EditSpan(old, new, caret) = <<p, s>>
  BY DEF EditSpan
<1>2. lo \in Nat /\ ln \in Nat
  BY LenProperties
<1>3. /\ most = (IF lo <= ln - caret THEN lo ELSE ln - caret)
      /\ both = (IF lo <= ln THEN lo ELSE ln)
  BY <1>2, MinPair
<1>4. /\ most \in Nat /\ both \in Nat /\ most <= both /\ both <= lo /\ both <= ln
  <2> HIDE DEF most, both
  <2> QED
    BY <1>2, <1>3
<1> HIDE DEF most, both
<1>5. s \in Ends
  <2>1. 0 \in Ends
    BY <1>4
  <2>2. Ends \subseteq 0 .. most
    OBVIOUS
  <2> HIDE DEF Ends
  <2> QED
    BY <1>4, <2>1, <2>2, MaxIn
<1>6. s \in 0 .. most
  BY <1>5
<1>7. \A i \in 0 .. s - 1 : old[Len(old) - i] = new[Len(new) - i]
  <2> DEFINE IsEnd(n) == \A i \in 0 .. n - 1 : old[Len(old) - i] = new[Len(new) - i]
  <2>1. \A n \in Ends : IsEnd(n)
    OBVIOUS
  <2>2. IsEnd(s)
    <3> HIDE DEF Ends, IsEnd
    <3> QED
      BY <1>5, <2>1
  <2> QED
    BY <2>2
<1> HIDE DEF s
<1>8. p \in Heads
  <2>1. SubSeq(old, 1, 0) = SubSeq(new, 1, 0)
    BY SubSeqEmpty
  <2>2. both - s \in Nat
    BY <1>4, <1>6
  <2>3. 0 \in Heads
    BY <2>1, <2>2
  <2>4. Heads \subseteq 0 .. both - s
    OBVIOUS
  <2> HIDE DEF Heads
  <2> QED
    BY <2>2, <2>3, <2>4, MaxIn
<1>9. p \in 0 .. both - s
  BY <1>8
<1> HIDE DEF p
<1>10. p \in Nat /\ s \in Nat /\ p + s <= lo /\ p + s <= ln
  BY <1>2, <1>4, <1>6, <1>9
<1> QED
  BY <1>1, <1>7, <1>10

LEMMA SpliceTyped ==
    ASSUME NEW S, NEW seq \in Seq(S), NEW by \in Seq(S), NEW to \in 0 .. Len(seq), NEW from \in 0 .. to
    PROVE  /\ Splice(seq, from, to, by) \in Seq(S)
           /\ Len(Splice(seq, from, to, by)) = from + Len(by) + (Len(seq) - to)
<1> DEFINE left == SubSeq(seq, 1, from)
           right == SubSeq(seq, to + 1, Len(seq))
<1>1. Len(seq) \in Nat /\ Len(by) \in Nat
  BY LenProperties
<1>2. left \in Seq(S) /\ Len(left) = from
  <2>1. from \in 0 .. Len(seq)
    BY <1>1
  <2> QED
    BY <2>1, FirstPart
<1>3. right \in Seq(S) /\ Len(right) = Len(seq) - to
  BY LastPart
<1>4. Splice(seq, from, to, by) = left \o by \o right
  BY DEF Splice
<1> HIDE DEF left, right
<1>5. left \o by \in Seq(S) /\ Len(left \o by) = from + Len(by)
  BY <1>2, ConcatProperties
<1>6. left \o by \o right \in Seq(S) /\ Len(left \o by \o right) = Len(left \o by) + Len(right)
  BY <1>3, <1>5, ConcatProperties
<1> QED
  BY <1>3, <1>4, <1>5, <1>6

(* A stretch of numbers stays within what they are, wherever it is taken. *)
LEMMA SomePart ==
    ASSUME NEW S, NEW s \in Seq(S), NEW a \in Nat, NEW b \in Nat, b <= Len(s)
    PROVE  SubSeq(s, a + 1, b) \in Seq(S) /\ Len(SubSeq(s, a + 1, b)) <= b
<1>1. \A i \in a + 1 .. b : s[i] \in S
  <2> TAKE i \in a + 1 .. b
  <2>1. i \in 1 .. Len(s)
    BY LenProperties
  <2> QED
    BY <2>1, ElementOfSeq
<1>2. /\ SubSeq(s, a + 1, b) \in Seq(S)
      /\ Len(SubSeq(s, a + 1, b)) = IF a + 1 <= b THEN b - (a + 1) + 1 ELSE 0
  <2>1. a + 1 \in Int /\ b \in Int
    OBVIOUS
  <2> QED
    BY <1>1, <2>1, SubSeqProperties
<1> DEFINE l == Len(SubSeq(s, a + 1, b))
<1>3. l <= b
  <2> HIDE DEF l
  <2>1. l = IF a + 1 <= b THEN b - (a + 1) + 1 ELSE 0
    BY <1>2 DEF l
  <2> QED
    BY <2>1
<1> QED
  BY <1>2, <1>3

LEMMA SentinelsIs ==
    ASSUME NEW text \in Seq(STRING)
    PROVE  Sentinels(text) \in Nat /\ IsFiniteSet({c \in DOMAIN text : text[c] = Emoji})
<1> DEFINE T == {c \in DOMAIN text : text[c] = Emoji}
<1>1. T \in SUBSET (1 .. Len(text)) /\ Len(text) \in Nat
  BY LenProperties
<1>2. IsFiniteSet(1 .. Len(text))
  BY <1>1, FS_Interval
<1> HIDE DEF T
<1>3. IsFiniteSet(T)
  BY <1>1, <1>2, FS_Subset
<1>4. Cardinality(T) \in Nat
  BY <1>3, FS_CardinalityType
<1> QED
  BY <1>3, <1>4 DEF T, Sentinels

(* A text that ends another has no more emoji than it. *)
LEMMA EndHasFewer ==
    ASSUME NEW old \in Seq(STRING), NEW new \in Seq(STRING), NEW s \in Nat,
           s <= Len(old), s <= Len(new),
           \A i \in 0 .. s - 1 : old[Len(old) - i] = new[Len(new) - i]
    PROVE  /\ SubSeq(new, Len(new) - s + 1, Len(new)) \in Seq(STRING)
           /\ Sentinels(SubSeq(new, Len(new) - s + 1, Len(new))) <= Sentinels(old)
<1> DEFINE lo == Len(old)
           ln == Len(new)
           c0 == ln - s
           tail == SubSeq(new, c0 + 1, ln)
           A == {c \in DOMAIN tail : tail[c] = Emoji}
           B == {c \in DOMAIN old : old[c] = Emoji}
           f == [c \in A |-> lo - s + c]
<1>1. lo \in Nat /\ ln \in Nat /\ DOMAIN old = 1 .. lo /\ c0 \in 0 .. ln /\ c0 \in Nat /\ ln - c0 = s
  BY LenProperties
<1>2. tail \in Seq(STRING) /\ Len(tail) = s /\ \A i \in 1 .. s : tail[i] = new[c0 + i]
  <2>1. c0 \in 0 .. Len(new)
    BY <1>1
  <2>2. /\ SubSeq(new, c0 + 1, Len(new)) \in Seq(STRING)
        /\ Len(SubSeq(new, c0 + 1, Len(new))) = Len(new) - c0
        /\ \A i \in 1 .. Len(new) - c0 : SubSeq(new, c0 + 1, Len(new))[i] = new[c0 + i]
    BY <2>1, LastPart
  <2> QED
    BY <1>1, <2>2
<1> HIDE DEF tail
<1>3. DOMAIN tail = 1 .. s
  BY <1>2, LenProperties
<1>4. \A c \in A : c \in 1 .. s /\ old[lo - s + c] = Emoji /\ lo - s + c \in DOMAIN old
  <2> TAKE c \in A
  <2>1. c \in 1 .. s /\ new[c0 + c] = Emoji
    BY <1>2, <1>3
  <2>2. s - c \in 0 .. s - 1 /\ lo - (s - c) = lo - s + c /\ ln - (s - c) = c0 + c
    BY <1>1, <2>1
  <2>3. old[lo - (s - c)] = new[ln - (s - c)]
    BY <2>2
  <2>4. lo - s + c \in 1 .. lo
    BY <1>1, <2>1
  <2> QED
    BY <1>1, <2>1, <2>2, <2>3, <2>4
<1>5. f \in Injection(A, B)
  <2>1. \A c \in A : f[c] \in B
    BY <1>4
  <2>2. \A c, d \in A : f[c] = f[d] => c = d
    BY <1>1, <1>4
  <2>3. f \in [A -> B]
    <3> HIDE DEF A, B
    <3> QED
      BY <2>1
  <2> HIDE DEF f, A, B
  <2> QED
    BY <2>2, <2>3 DEF Injection, IsInjective
<1>6. IsFiniteSet(B)
  BY SentinelsIs
<1>7. Cardinality(A) <= Cardinality(B)
  <2> HIDE DEF f, A, B
  <2> QED
    BY <1>5, <1>6, FS_Injection
<1> QED
  BY <1>2, <1>7 DEF Sentinels, tail

(* What is a row is still one with the sequences of its emoji worked out anew. *)
LEMMA SyncEmojiTyped ==
    ASSUME NEW b, b.text \in Seq(STRING), b.emoji \in Seq(Nat), NEW new \in Seq(STRING),
           NEW caret \in 0 .. Len(new), NEW ins \in Seq(Nat)
    PROVE  /\ SyncEmojiSeqs(b, new, caret, ins) \in Seq(Nat)
           /\ Len(SyncEmojiSeqs(b, new, caret, ins)) <= MaxEmoji
<1> DEFINE p == EditSpan(b.text, new, caret)[1]
           s == EditSpan(b.text, new, caret)[2]
           ln == Len(new)
           le == Len(b.emoji)
           last == SubSeq(new, ln - s + 1, ln)
           head  == Sentinels(SubSeq(new, 1, p))
           mid   == Sentinels(SubSeq(new, p + 1, ln - s))
           tail  == Sentinels(last)
           first == Sentinels(b.text) - tail
           one == SubSeq(b.emoji, 1, Min({head, le}))
           two == [k \in 1 .. mid |-> IF k <= Len(ins) THEN ins[k] ELSE 0]
           three == SubSeq(b.emoji, first + 1, Min({first + tail, le}))
           all == one \o two \o three
           most == Min({MaxEmoji, Len(all)})
<1>1. SyncEmojiSeqs(b, new, caret, ins) = SubSeq(all, 1, most)
  BY DEF SyncEmojiSeqs
<1>2. /\ p \in Nat /\ s \in Nat /\ p + s <= Len(b.text) /\ p + s <= ln
      /\ \A i \in 0 .. s - 1 : b.text[Len(b.text) - i] = new[Len(new) - i]
  BY SpanFits
<1>3. ln \in Nat /\ le \in Nat /\ Len(b.text) \in Nat /\ MaxEmoji \in Nat /\ Len(ins) \in Nat
  BY LenProperties, RunsAssumption
<1> HIDE DEF p, s
<1>4. /\ head \in Nat
      /\ mid \in Nat
      /\ last \in Seq(STRING) /\ tail \in Nat /\ tail <= Sentinels(b.text) /\ Sentinels(b.text) \in Nat
  <2>1. head \in Nat
    <3>1. p \in 0 .. ln
      BY <1>2, <1>3
    <3>2. SubSeq(new, 1, p) \in Seq(STRING)
      BY <3>1, FirstPart
    <3> QED
      BY <3>2, SentinelsIs
  <2>2. mid \in Nat
    <3>1. ln - s \in Nat /\ ln - s <= ln
      BY <1>2, <1>3
    <3>2. SubSeq(new, p + 1, ln - s) \in Seq(STRING)
      BY <1>2, <3>1, SomePart
    <3> QED
      BY <3>2, SentinelsIs
  <2>3. last \in Seq(STRING) /\ tail <= Sentinels(b.text)
    <3>1. s <= Len(b.text) /\ s <= Len(new)
      BY <1>2, <1>3
    <3> QED
      BY <1>2, <3>1, EndHasFewer
  <2>4. tail \in Nat /\ Sentinels(b.text) \in Nat
    BY <2>3, SentinelsIs
  <2> QED
    BY <2>1, <2>2, <2>3, <2>4
<1> HIDE DEF head, mid, tail, last
<1>5. first \in Nat
  BY <1>4
<1> HIDE DEF first
<1>6. one \in Seq(Nat)
  <2>1. Min({head, le}) \in 0 .. Len(b.emoji)
    BY <1>3, <1>4, MinBelow
  <2> QED
    BY <2>1, FirstPart
<1>7. two \in Seq(Nat)
  <2>1. \A k \in 1 .. mid : (IF k <= Len(ins) THEN ins[k] ELSE 0) \in Nat
    <3> TAKE k \in 1 .. mid
    <3>1. CASE k <= Len(ins)
      <4>1. k \in 1 .. Len(ins)
        BY <1>3, <1>4, <3>1
      <4>2. ins[k] \in Nat
        BY <4>1, ElementOfSeq
      <4> QED
        BY <3>1, <4>2
    <3>2. CASE ~(k <= Len(ins))
      BY <3>2
    <3> QED
      BY <3>1, <3>2
  <2>2. two \in [1 .. mid -> Nat]
    BY <2>1
  <2> HIDE DEF two
  <2> QED
    BY <1>4, <2>2, SeqDef
<1>8. three \in Seq(Nat)
  <2>0. first + tail \in Nat
    BY <1>4, <1>5
  <2>1. Min({first + tail, le}) \in Nat /\ Min({first + tail, le}) <= Len(b.emoji)
    BY <1>3, <2>0, MinBelow
  <2> QED
    BY <1>5, <2>1, SomePart
<1> HIDE DEF one, two, three
<1>9. all \in Seq(Nat)
  <2>1. one \o two \in Seq(Nat)
    BY <1>6, <1>7, ConcatProperties
  <2> QED
    BY <1>8, <2>1, ConcatProperties
<1> HIDE DEF all
<1>10. most \in 0 .. Len(all) /\ most <= MaxEmoji
  <2>1. Len(all) \in Nat
    BY <1>9, LenProperties
  <2> QED
    BY <1>3, <2>1, MinBelow
<1> HIDE DEF most
<1>11. SubSeq(all, 1, most) \in Seq(Nat) /\ Len(SubSeq(all, 1, most)) = most
  BY <1>9, <1>10, FirstPart
<1> QED
  BY <1>1, <1>10, <1>11

-----------------------------------------------------------------------------
(* AdjustRunsForEdit.                                                      *)

(* The run that owns the character before a position behind the first. *)
LEMMA OwnerFound ==
    ASSUME NEW runs \in Seq(TextRun), NEW p \in 1 .. Total(runs), NEW none
    PROVE  LET at == OwnerAt(runs, p, none)
           IN  /\ at \in 1 .. Len(runs)
               /\ RunStart(runs, at) < p /\ p <= RunEnd(runs, at)
<1> DEFINE reach == {i \in 1 .. Len(runs) : RunEnd(runs, i) >= p}
           own == {i \in DOMAIN runs : runs[i].len > 0 /\ RunEnd(runs, i) >= p}
           i0 == Min(reach)
<1>1. /\ Len(runs) \in Nat /\ DOMAIN runs = 1 .. Len(runs)
      /\ RunEnd(runs, 0) = 0 /\ \A i \in 0 .. Len(runs) : RunEnd(runs, i) \in Nat
  BY LenProperties, RunEndIs, TextRunLengths
<1>2. Total(runs) \in Nat /\ Total(runs) = RunEnd(runs, Len(runs)) /\ p \in Nat \ {0}
  BY <1>1 DEF Total
<1>3. Len(runs) \in reach
  <2>1. Len(runs) # 0
    BY <1>1, <1>2
  <2> QED
    BY <1>1, <1>2, <2>1
<1>4. i0 \in reach /\ \A y \in reach : i0 <= y
  <2>1. reach \subseteq Nat
    OBVIOUS
  <2> HIDE DEF reach
  <2> QED
    BY <1>3, <2>1, MinIn
<1> HIDE DEF i0
<1>5. i0 \in 1 .. Len(runs) /\ RunEnd(runs, i0) >= p
  BY <1>4
<1>6. /\ RunStart(runs, i0) \in Nat /\ runs[i0].len \in Nat
      /\ RunEnd(runs, i0) = RunStart(runs, i0) + runs[i0].len
  BY <1>5, RunLies, TextRunLengths
<1>7. RunStart(runs, i0) < p
  <2>1. CASE i0 = 1
    BY <1>1, <1>2, <2>1 DEF RunStart
  <2>2. CASE i0 # 1
    <3>1. i0 - 1 \in 1 .. Len(runs)
      BY <1>1, <1>5, <2>2
    <3>2. ~(RunEnd(runs, i0 - 1) >= p)
      <4> SUFFICES ASSUME RunEnd(runs, i0 - 1) >= p PROVE FALSE
        OBVIOUS
      <4>1. i0 - 1 \in reach
        BY <3>1
      <4>2. i0 <= i0 - 1
        BY <1>4, <4>1
      <4> QED
        BY <1>5, <4>2
    <3> QED
      BY <1>2, <1>6, <3>2 DEF RunStart
  <2> QED
    BY <2>1, <2>2
<1>8. runs[i0].len > 0
  BY <1>2, <1>5, <1>6, <1>7
<1>9. i0 \in own /\ \A y \in own : i0 <= y
  <2>1. i0 \in own
    BY <1>1, <1>5, <1>8
  <2>2. own \subseteq reach
    BY <1>1
  <2> QED
    BY <1>4, <2>1, <2>2
<1>10. Min(own) = i0
  <2>1. own \subseteq Nat
    BY <1>1
  <2>2. Min(own) \in own /\ Min(own) <= i0
    <3> HIDE DEF own
    <3> QED
      BY <1>9, <2>1, MinIn
  <2>3. i0 <= Min(own) /\ Min(own) \in Nat
    BY <1>9, <2>1, <2>2
  <2> HIDE DEF own
  <2> QED
    BY <1>5, <2>2, <2>3
<1>11. OwnerAt(runs, p, none) = i0
  BY <1>2, <1>9, <1>10 DEF OwnerAt
<1> QED
  BY <1>5, <1>7, <1>11

(* Where place x comes to lie without del characters from place p on. *)
Closed(x, p, del) == IF x <= p THEN x ELSE IF x <= p + del THEN p ELSE x - del

(* What a run from s to e loses of them. *)
Gone(s, e, p, del) == Max({0, Min({e, p + del}) - Max({s, p})})

LEMMA CutOne ==
    ASSUME NEW s \in Nat, NEW e, NEW l \in Nat, e = s + l, NEW p \in Nat, NEW del \in Nat
    PROVE  /\ Gone(s, e, p, del) \in 0 .. l
           /\ Closed(e, p, del) = Closed(s, p, del) + (l - Gone(s, e, p, del))
<1> DEFINE m == Min({e, p + del})
           M == Max({s, p})
           d == Max({0, m - M})
<1>1. m = (IF e <= p + del THEN e ELSE p + del) /\ M = (IF s >= p THEN s ELSE p)
  BY MinPair, MaxPair
<1>2. m \in Int /\ M \in Int
  <2> HIDE DEF m, M
  <2> QED
    BY <1>1
<1> HIDE DEF m, M
<1>3. d = IF 0 >= m - M THEN 0 ELSE m - M
  BY <1>2, MaxPair
<1> HIDE DEF d
<1>4. d \in 0 .. l
  BY <1>1, <1>3
<1>5. Closed(e, p, del) = Closed(s, p, del) + (l - d)
  BY <1>1, <1>3 DEF Closed
<1> QED
  BY <1>4, <1>5 DEF d, m, M, Gone

LEMMA SyncTextUrlKeeps ==
    ASSUME NEW runs \in Seq(TextRun), NEW new \in Seq(STRING), Total(runs) = Len(new)
    PROVE  /\ SyncTextUrl(runs, new) \in Seq(TextRun)
           /\ Len(SyncTextUrl(runs, new)) = Len(runs)
           /\ Total(SyncTextUrl(runs, new)) = Total(runs)
<1> DEFINE text(i) == SubSeq(new, RunStart(runs, i) + 1, RunEnd(runs, i))
           to(i) == IF ~runs[i].auto THEN runs[i]
                    ELSE IF ~IsUrlChars(text(i)) THEN [runs[i] EXCEPT !.auto = FALSE]
                    ELSE IF Len(text(i)) > MaxUrl THEN runs[i]
                    ELSE [runs[i] EXCEPT !.link = Site(text(i))]
           synced == SyncTextUrl(runs, new)
<1>1. Len(runs) \in Nat /\ DOMAIN runs = 1 .. Len(runs)
  BY LenProperties
<1>2. synced = [i \in 1 .. Len(runs) |-> to(i)]
  BY <1>1 DEF SyncTextUrl
<1>3. ASSUME NEW i \in 1 .. Len(runs)
      PROVE  to(i) \in TextRun /\ to(i).len = runs[i].len
  <2>1. runs[i] \in TextRun
    BY ElementOfSeq
  <2>2. /\ RunStart(runs, i) \in Nat /\ RunEnd(runs, i) \in Nat /\ RunEnd(runs, i) <= Len(new)
    BY RunLies, TextRunLengths
  <2>3. text(i) \in Seq(STRING)
    BY <2>2, SomePart
  <2>4. Site(text(i)) \in Links
    BY <2>3, NoLinkTyped
  <2>5. /\ [runs[i] EXCEPT !.link = Site(text(i))] \in TextRun
        /\ [runs[i] EXCEPT !.link = Site(text(i))].len = runs[i].len
    BY <2>1, <2>4, RunChanged
  <2>6. [runs[i] EXCEPT !.auto = FALSE] \in TextRun /\ [runs[i] EXCEPT !.auto = FALSE].len = runs[i].len
    BY <2>1, RunChanged
  <2> HIDE DEF text
  <2> QED
    BY <2>1, <2>5, <2>6
<1> HIDE DEF to, synced
<1>4. synced \in Seq(TextRun) /\ Len(synced) = Len(runs)
  <2>1. synced \in [1 .. Len(runs) -> TextRun]
    BY <1>2, <1>3
  <2>2. synced \in Seq(TextRun)
    BY <1>1, <2>1, SeqDef
  <2>3. DOMAIN synced = 1 .. Len(runs) /\ DOMAIN synced = 1 .. Len(synced) /\ Len(synced) \in Nat
    BY <1>2, <2>2, LenProperties
  <2> QED
    BY <1>1, <2>2, <2>3
<1>5. \A i \in 1 .. Len(runs) : synced[i].len = runs[i].len
  BY <1>2, <1>3
<1>6. Total(synced) = Total(runs)
  BY <1>4, <1>5, SameEnds, TextRunLengths
<1> QED
  BY <1>4, <1>6 DEF synced

LEMMA WithoutTyped ==
    ASSUME NEW runs \in Seq(TextRun), NEW p \in Nat, NEW del \in Nat, p + del <= Total(runs)
    PROVE  /\ Without(runs, p, del) \in Seq(TextRun)
           /\ Len(Without(runs, p, del)) = Len(runs)
           /\ Total(Without(runs, p, del)) = Total(runs) - del
<1> DEFINE cut == Without(runs, p, del)
           d(i) == Gone(RunStart(runs, i), RunEnd(runs, i), p, del)
           g == [i \in 0 .. Len(runs) |-> Closed(RunEnd(runs, i), p, del)]
           n == Len(runs)
<1>1. /\ n \in Nat /\ DOMAIN runs = 1 .. n
      /\ RunEnd(runs, 0) = 0 /\ \A i \in 0 .. n : RunEnd(runs, i) \in Nat
      /\ \A i \in 1 .. n : RunEnd(runs, i) = RunEnd(runs, i - 1) + runs[i].len
      /\ \A i \in 1 .. n : runs[i] \in TextRun /\ runs[i].len \in Nat
  BY RunEndIs, LenProperties, ElementOfSeq, TextRunLengths DEF HaveLengths
<1>2. cut = [i \in 1 .. n |-> [runs[i] EXCEPT !.len = runs[i].len - d(i)]]
  BY <1>1 DEF Without, Gone
<1>3. ASSUME NEW i \in 1 .. n
      PROVE  /\ d(i) \in 0 .. runs[i].len
             /\ Closed(RunEnd(runs, i), p, del) = Closed(RunEnd(runs, i - 1), p, del) + (runs[i].len - d(i))
  <2> DEFINE e == RunEnd(runs, i)
             s == RunEnd(runs, i - 1)
             l == runs[i].len
  <2>1. e = s + l /\ s \in Nat /\ l \in Nat /\ RunStart(runs, i) = s
    BY <1>1 DEF RunStart
  <2>2. d(i) = Gone(s, e, p, del)
    BY <2>1
  <2> HIDE DEF e, s, l
  <2>3. /\ Gone(s, e, p, del) \in 0 .. l
        /\ Closed(e, p, del) = Closed(s, p, del) + (l - Gone(s, e, p, del))
    <3>1. s \in Nat /\ l \in Nat /\ e = s + l /\ p \in Nat /\ del \in Nat
      BY <2>1
    <3>2. Gone(s, e, p, del) \in 0 .. l
      BY ONLY <3>1, CutOne
    <3>3. Closed(e, p, del) = Closed(s, p, del) + (l - Gone(s, e, p, del))
      BY ONLY <3>1, CutOne
    <3> QED
      BY <3>2, <3>3
  <2> HIDE DEF d
  <2>4. d(i) \in 0 .. l /\ Closed(e, p, del) = Closed(s, p, del) + (l - d(i))
    BY <2>1, <2>2, <2>3
  <2> QED
    BY <2>4 DEF e, s, l
<1> HIDE DEF cut, d
<1>4. \A i \in 1 .. n : cut[i] \in TextRun /\ cut[i].len = runs[i].len - d(i)
  <2> TAKE i \in 1 .. n
  <2> DEFINE k == runs[i].len - d(i)
  <2>1. k \in Nat
    BY <1>1, <1>3
  <2>2. cut[i] = [runs[i] EXCEPT !.len = k]
    BY <1>2
  <2> HIDE DEF k
  <2>3. runs[i] \in TextRun
    BY <1>1
  <2>4. [runs[i] EXCEPT !.len = k] \in TextRun /\ [runs[i] EXCEPT !.len = k].len = k
    BY <2>1, <2>3, RunWithLen
  <2>5. cut[i] \in TextRun /\ cut[i].len = k
    BY <2>2, <2>4
  <2> QED
    BY <2>5 DEF k
<1>5. cut \in Seq(TextRun) /\ Len(cut) = n
  <2>1. cut = [i \in 1 .. n |-> cut[i]]
    BY <1>2
  <2>2. cut \in [1 .. n -> TextRun]
    BY <1>4, <2>1
  <2>3. cut \in Seq(TextRun)
    BY <1>1, <2>2, SeqDef
  <2>4. DOMAIN cut = 1 .. n /\ DOMAIN cut = 1 .. Len(cut) /\ Len(cut) \in Nat
    BY <2>1, <2>3, LenProperties
  <2> QED
    BY <1>1, <2>3, <2>4
<1>6. g[0] = 0 /\ \A i \in 0 .. n : g[i] = Closed(RunEnd(runs, i), p, del)
  BY <1>1 DEF Closed
<1> HIDE DEF g
<1>7. \A i \in 1 .. Len(cut) : g[i] = g[i - 1] + cut[i].len
  <2> TAKE i \in 1 .. Len(cut)
  <2>1. i \in 1 .. n /\ i \in 0 .. n /\ i - 1 \in 0 .. n
    BY <1>1, <1>5
  <2> QED
    BY <1>3, <1>4, <1>6, <2>1
<1>8. \A i \in 0 .. Len(cut) : RunEnd(cut, i) = g[i]
  BY <1>5, <1>6, <1>7, RunEndOnly, TextRunLengths
<1>9. Total(cut) = Closed(Total(runs), p, del)
  BY <1>1, <1>5, <1>6, <1>8 DEF Total
<1>10. Closed(Total(runs), p, del) = Total(runs) - del
  <2>1. Total(runs) \in Nat
    BY <1>1 DEF Total
  <2> QED
    BY <2>1 DEF Closed
<1> QED
  BY <1>5, <1>9, <1>10 DEF cut, n

LEMMA PutIntoKeeps ==
    ASSUME NEW runs \in Seq(TextRun), NEW at \in 1 .. Len(runs), NEW head \in 0 .. runs[at].len,
           NEW r \in TextRun
    PROVE  LET put == PutInto(runs, at, head, r)
           IN  /\ put \in Seq(TextRun) /\ Len(put) = Len(runs) + 2
               /\ Total(put) = Total(runs) + r.len
               /\ head = 0 \/ head = runs[at].len => \E gap \in 1 .. Len(put) : put[gap].len = 0
<1> DEFINE left == SubSeq(runs, 1, at - 1)
           right == SubSeq(runs, at + 1, Len(runs))
           tail == runs[at].len - head
           one == [runs[at] EXCEPT !.len = head]
           three == [runs[at] EXCEPT !.len = tail]
           mid == <<one, r, three>>
           put == PutInto(runs, at, head, r)
<1>1. /\ Len(runs) \in Nat /\ runs[at] \in TextRun /\ runs[at].len \in Nat
      /\ RunEnd(runs, at) = RunStart(runs, at) + runs[at].len
      /\ RunStart(runs, at) \in Nat /\ RunEnd(runs, at) \in Nat /\ Total(runs) \in Nat
  BY LenProperties, ElementOfSeq, RunLies, TextRunLengths
<1>2. put = left \o mid \o right
  BY DEF PutInto
<1>3. left \in Seq(TextRun) /\ Len(left) = at - 1 /\ Total(left) = RunStart(runs, at)
  <2> DEFINE part == SubSeq(runs, 0 + 1, at - 1)
  <2>1. 0 \in 0 .. Len(runs) /\ at - 1 \in 0 .. Len(runs)
    BY <1>1
  <2>2. /\ part \in Seq(TextRun) /\ Len(part) = (at - 1) - 0
        /\ Total(part) = RunEnd(runs, at - 1) - RunEnd(runs, 0)
    BY <2>1, PartEnds, TextRunLengths
  <2>3. left = part
    OBVIOUS
  <2>4. RunEnd(runs, 0) = 0 /\ RunEnd(runs, at - 1) \in Nat
    BY <2>1, RunEndIs, TextRunLengths
  <2> HIDE DEF part, left
  <2>5. (at - 1) - 0 = at - 1
    OBVIOUS
  <2> QED
    BY <2>2, <2>3, <2>4, <2>5 DEF RunStart
<1>4. right \in Seq(TextRun) /\ Len(right) = Len(runs) - at /\ Total(right) = Total(runs) - RunEnd(runs, at)
  <2>1. at \in 0 .. Len(runs) /\ Len(runs) \in at .. Len(runs)
    BY <1>1
  <2>2. /\ right \in Seq(TextRun) /\ Len(right) = Len(runs) - at
        /\ Total(right) = RunEnd(runs, Len(runs)) - RunEnd(runs, at)
    BY <2>1, PartEnds, TextRunLengths
  <2> HIDE DEF right
  <2> QED
    BY <2>2 DEF Total
<1>5. tail \in Nat /\ head \in Nat /\ r.len \in Nat
  BY <1>1, TextRunLengths DEF HaveLengths
<1>6. one \in TextRun /\ one.len = head
  BY <1>1, <1>5, RunWithLen
<1>7. three \in TextRun /\ three.len = tail
  BY <1>1, <1>5, RunWithLen
<1> HIDE DEF left, right, one, three, put
<1>8. /\ mid \in Seq(TextRun) /\ Len(mid) = 3
      /\ mid[1] = one /\ mid[3] = three
      /\ Total(mid) = head + r.len + tail
  <2>1. mid \in Seq(TextRun) /\ Len(mid) = 3 /\ mid[1] = one /\ mid[2] = r /\ mid[3] = three
    BY <1>6, <1>7
  <2> HIDE DEF mid
  <2>2. /\ RunEnd(mid, 0) = 0
        /\ \A i \in 1 .. 3 : RunEnd(mid, i) = RunEnd(mid, i - 1) + mid[i].len
    BY <2>1, RunEndIs, TextRunLengths
  <2>3. RunEnd(mid, 1) = RunEnd(mid, 0) + one.len
    BY <2>1, <2>2
  <2>4. RunEnd(mid, 2) = RunEnd(mid, 1) + r.len
    BY <2>1, <2>2
  <2>5. RunEnd(mid, 3) = RunEnd(mid, 2) + three.len
    BY <2>1, <2>2
  <2>6. Total(mid) = RunEnd(mid, 3)
    BY <2>1 DEF Total
  <2> HIDE DEF tail
  <2> QED
    BY <2>1, <2>2, <2>3, <2>4, <2>5, <2>6, <1>5, <1>6, <1>7
<1> HIDE DEF mid
<1>9. /\ left \o mid \in Seq(TextRun) /\ Len(left \o mid) = Len(left) + 3
      /\ Total(left \o mid) = Total(left) + Total(mid)
  BY <1>3, <1>8, JoinedTotal, TextRunLengths
<1>10. /\ put \in Seq(TextRun) /\ Len(put) = Len(left \o mid) + Len(right)
       /\ Total(put) = Total(left \o mid) + Total(right)
  <2> DEFINE lm == left \o mid
  <2>1. lm \in Seq(TextRun) /\ put = lm \o right
    BY <1>2, <1>9
  <2> HIDE DEF lm
  <2>2. /\ lm \o right \in Seq(TextRun) /\ Len(lm \o right) = Len(lm) + Len(right)
        /\ Total(lm \o right) = Total(lm) + Total(right)
    BY <1>4, <2>1, JoinedTotal, TextRunLengths
  <2> QED
    BY <2>1, <2>2 DEF lm
<1>11. Len(put) = Len(runs) + 2
  BY <1>1, <1>3, <1>4, <1>9, <1>10
<1>12. Total(put) = Total(runs) + r.len
  <2> DEFINE tp == Total(put)
             tr == Total(runs)
             te == RunEnd(runs, at)
             ts == RunStart(runs, at)
             l == runs[at].len
             k == r.len
             lm == Total(left \o mid)
  <2>1. tp = lm + (tr - te) /\ lm = ts + (head + k + (l - head)) /\ te = ts + l
    BY <1>1, <1>3, <1>4, <1>8, <1>9, <1>10
  <2>2. tr \in Nat /\ ts \in Nat /\ l \in Nat /\ k \in Nat /\ head \in Nat
    BY <1>1, <1>5
  <2> HIDE DEF tp, tr, te, ts, l, k, lm
  <2>3. tp = tr + k
    BY <2>1, <2>2
  <2> QED
    BY <2>3 DEF tp, tr, k
<1>13. put[at] = one /\ put[at + 2] = three
  <2> DEFINE lm == left \o mid
  <2>1. /\ lm \in Seq(TextRun) /\ Len(lm) = at + 2 /\ put = lm \o right
    BY <1>1, <1>2, <1>3, <1>9
  <2>2. /\ lm[at] = one /\ lm[at + 2] = three
    <3>1. \A i \in 1 .. Len(left) + Len(mid) :
             lm[i] = IF i <= Len(left) THEN left[i] ELSE mid[i - Len(left)]
      BY <1>3, <1>8, ConcatProperties
    <3> HIDE DEF lm
    <3>2. /\ at \in 1 .. Len(left) + Len(mid) /\ ~(at <= Len(left)) /\ at - Len(left) = 1
          /\ at + 2 \in 1 .. Len(left) + Len(mid) /\ ~(at + 2 <= Len(left)) /\ (at + 2) - Len(left) = 3
      BY <1>1, <1>3, <1>8
    <3> QED
      BY <1>8, <3>1, <3>2
  <2> HIDE DEF lm
  <2>3. \A i \in 1 .. Len(lm) + Len(right) :
             put[i] = IF i <= Len(lm) THEN lm[i] ELSE right[i - Len(lm)]
    BY <1>4, <2>1, ConcatProperties
  <2>4. /\ at \in 1 .. Len(lm) + Len(right) /\ at <= Len(lm)
        /\ at + 2 \in 1 .. Len(lm) + Len(right) /\ at + 2 <= Len(lm)
    BY <1>1, <1>4, <2>1
  <2> QED
    BY <2>2, <2>3, <2>4
<1>14. head = 0 \/ head = runs[at].len => \E gap \in 1 .. Len(put) : put[gap].len = 0
  <2>1. at \in 1 .. Len(put) /\ at + 2 \in 1 .. Len(put)
    BY <1>1, <1>11
  <2>2. CASE head = 0
    BY <1>6, <1>13, <2>1, <2>2
  <2>3. CASE head = runs[at].len
    <3>1. tail = 0
      BY <1>1, <2>3
    <3> HIDE DEF tail
    <3> QED
      BY <1>7, <1>13, <2>1, <3>1
  <2> QED
    BY <2>2, <2>3
<1> QED
  BY <1>10, <1>11, <1>12, <1>14 DEF put

(* The runs of the edited row cover its new text, and are no more than fit. *)
LEMMA AdjustKeeps ==
    ASSUME NEW b, b.text \in Seq(STRING), b.runs \in Seq(TextRun),
           Len(b.runs) <= MaxRuns, b.runs # <<>> => Total(b.runs) = Len(b.text),
           NEW new \in Seq(STRING), NEW caret \in 0 .. Len(new)
    PROVE  LET adjusted == AdjustRunsForEdit(b, new, caret)
           IN  /\ adjusted \in Seq(TextRun) /\ Len(adjusted) <= MaxRuns
               /\ adjusted # <<>> => Total(adjusted) = Len(new)
<1> DEFINE runs   == b.runs
           span   == EditSpan(b.text, new, caret)
           p      == span[1]
           s      == span[2]
           ins    == Len(new) - span[1] - span[2]
           del    == Len(b.text) - span[1] - span[2]
           owner  == runs[OwnerAt(runs, p, 1)]
           edge   == p = 0 \/ RunEnd(runs, OwnerAt(runs, p, 1)) = p
           cut    == Without(runs, p, Len(b.text) - span[1] - span[2])
           at     == OwnerAt(cut, p, Len(cut))
           head   == IF p = 0 THEN 0 ELSE p - RunStart(cut, at)
           extra  == IF head > 0 /\ head < cut[at].len THEN 2 ELSE 1
           out    == /\ StepsOut(owner, new[p + 1]) /\ edge
                     /\ Len(runs) < MaxRuns /\ Len(runs) + extra <= MaxRuns
           apart  == PutInto(cut, at, head, Run(ins, owner.style, NoLink, FALSE))
           longer == [cut EXCEPT ![at] = Longer(@, ins)]
           placed == IF ins = 0 THEN cut ELSE IF out THEN apart ELSE longer
           kept   == MergeRuns(placed)
           whole  == [owner EXCEPT !.len = Len(new)]
           plain  == Run(Len(new), owner.style, NoLink, FALSE)
           done   == AdjustRunsForEdit(b, new, caret)
           n      == Len(runs)
           ln     == Len(new)
           lo     == Len(b.text)
<1>1. done = IF runs = <<>> THEN runs
             ELSE IF Len(runs) = 1 /\ owner.link = NoLink THEN <<whole>>
             ELSE IF kept = <<>> /\ new # <<>> THEN <<plain>>
             ELSE SyncTextUrl(kept, new)
  <2> DEFINE place == EditPlace(b, new, caret)
  <2>1. /\ place.p = p /\ place.ins = ins /\ place.owner = owner /\ place.edge = edge
        /\ place.cut = cut /\ place.at = at /\ place.head = head
    BY DEF EditPlace
  <2> HIDE DEF place, span, p, ins, owner, edge, cut, at, head
  <2>2. Leaves(b, place, new) = out
    BY <2>1 DEF Leaves
  <2> HIDE DEF out
  <2>3. PutAt(b, place, new) = placed
    BY <2>1, <2>2 DEF PutAt
  <2> HIDE DEF placed
  <2>4. AdjustAt(b, place, new) =
            IF runs = <<>> THEN runs
            ELSE IF Len(runs) = 1 /\ owner.link = NoLink THEN <<whole>>
            ELSE IF kept = <<>> /\ new # <<>> THEN <<plain>>
            ELSE SyncTextUrl(kept, new)
    BY <2>1, <2>3 DEF AdjustAt
  <2> QED
    BY <2>4 DEF AdjustRunsForEdit, place
<1>2. n \in Nat /\ ln \in Nat /\ lo \in Nat /\ MaxRuns \in Nat \ {0} /\ HaveLengths(TextRun)
  BY LenProperties, RunsAssumption, TextRunLengths
<1> HIDE DEF done
<1>3. CASE runs = <<>>
  BY <1>1, <1>2, <1>3 DEF done
<1>4. CASE runs # <<>>
  <2>1. n \in 1 .. MaxRuns /\ Total(runs) = lo
    BY <1>2, <1>4, EmptySeq
  <2>2. p \in Nat /\ s \in Nat /\ p + s <= lo /\ p + s <= ln
    BY SpanFits
  <2>3. del = lo - p - s /\ ins = ln - p - s
    OBVIOUS
  <2>4. cut = Without(runs, p, del)
    OBVIOUS
  <2> HIDE DEF p, s, cut, del, ins
  <2>5. del \in Nat /\ ins \in Nat /\ p + del <= Total(runs)
    BY <1>2, <2>1, <2>2, <2>3
  <2>6. cut \in Seq(TextRun) /\ Len(cut) = n /\ Total(cut) = p + s
    <3>1. /\ Without(runs, p, del) \in Seq(TextRun) /\ Len(Without(runs, p, del)) = Len(runs)
          /\ Total(Without(runs, p, del)) = Total(runs) - del
      BY <2>2, <2>5, WithoutTyped
    <3> QED
      BY <1>2, <2>1, <2>2, <2>3, <2>4, <3>1
  <2>7. owner \in TextRun
    <3>1. OwnerAt(runs, p, 1) \in 1 .. n
      <4>1. CASE p = 0
        BY <2>1, <4>1 DEF OwnerAt
      <4>2. CASE p # 0
        <5>1. p \in 1 .. Total(runs)
          BY <1>2, <2>1, <2>2, <4>2
        <5> QED
          BY <5>1, OwnerFound
      <4> QED
        BY <4>1, <4>2
    <3> QED
      BY <3>1, ElementOfSeq
  <2>8. at \in 1 .. n /\ head \in 0 .. cut[at].len
    <3>1. CASE p = 0
      <4>1. at = 1 /\ head = 0
        BY <3>1 DEF OwnerAt
      <4>2. at \in 1 .. Len(cut)
        BY <2>1, <2>6, <4>1
      <4>3. cut[at].len \in Nat
        BY <1>2, <2>6, <4>2, RunLies
      <4> HIDE DEF at, head
      <4> QED
        BY <2>1, <4>1, <4>3
    <3>2. CASE p # 0
      <4>1. p \in 1 .. Total(cut)
        BY <2>2, <2>6, <3>2
      <4>2. at \in 1 .. Len(cut) /\ RunStart(cut, at) < p /\ p <= RunEnd(cut, at)
        BY <2>6, <4>1, OwnerFound
      <4>3. head = p - RunStart(cut, at)
        BY <3>2
      <4> HIDE DEF at, head
      <4>4. /\ RunStart(cut, at) \in Nat /\ cut[at].len \in Nat
            /\ RunEnd(cut, at) = RunStart(cut, at) + cut[at].len
        BY <1>2, <2>6, <4>2, RunLies
      <4> QED
        BY <2>2, <2>6, <4>2, <4>3, <4>4
    <3> QED
      BY <3>1, <3>2
  <2> HIDE DEF owner, at, head
  <2>9. /\ whole \in TextRun /\ whole.len = ln /\ plain \in TextRun /\ plain.len = ln
        /\ Run(ins, owner.style, NoLink, FALSE) \in TextRun
        /\ Run(ins, owner.style, NoLink, FALSE).len = ins
    <3>1. whole \in TextRun /\ whole.len = ln
      BY <1>2, <2>7, RunWithLen
    <3>2. owner.style \in Styles
      BY <2>7 DEF TextRun
    <3>3. NoLink \in Links /\ FALSE \in BOOLEAN
      BY NoLinkTyped
    <3>4. plain \in TextRun /\ plain.len = ln
      BY <1>2, <3>2, <3>3, RunTyped
    <3>5. /\ Run(ins, owner.style, NoLink, FALSE) \in TextRun
          /\ Run(ins, owner.style, NoLink, FALSE).len = ins
      BY <2>5, <3>2, <3>3, RunTyped
    <3> QED
      BY <3>1, <3>4, <3>5
  <2>10. placed \in Seq(TextRun) /\ Total(placed) = ln /\ Len(kept) <= MaxRuns
    <3>1. CASE ins = 0
      <4>1. placed = cut
        BY <3>1
      <4>2. Total(cut) = ln
        BY <1>2, <2>2, <2>3, <2>6, <3>1
      <4>3. Len(MergeRuns(cut)) <= Len(cut) /\ Len(MergeRuns(cut)) \in Nat
        BY <2>6, MergeKeeps, LenProperties
      <4>4. Len(MergeRuns(cut)) <= MaxRuns
        BY <1>2, <2>1, <2>6, <4>3
      <4> HIDE DEF placed
      <4> QED
        BY <2>6, <4>1, <4>2, <4>4
    <3>2. CASE ins # 0 /\ out
      <4>1. placed = apart
        BY <3>2
      <4>2. /\ apart \in Seq(TextRun) /\ Len(apart) = n + 2 /\ Total(apart) = p + s + ins
            /\ head = 0 \/ head = cut[at].len => \E gap \in 1 .. Len(apart) : apart[gap].len = 0
        <5> DEFINE r == Run(ins, owner.style, NoLink, FALSE)
        <5>1. r \in TextRun /\ r.len = ins /\ at \in 1 .. Len(cut)
          BY <2>6, <2>8, <2>9
        <5> HIDE DEF r
        <5>2. LET put == PutInto(cut, at, head, r)
              IN  /\ put \in Seq(TextRun) /\ Len(put) = Len(cut) + 2
                  /\ Total(put) = Total(cut) + r.len
                  /\ head = 0 \/ head = cut[at].len => \E gap \in 1 .. Len(put) : put[gap].len = 0
          BY <2>6, <2>8, <5>1, PutIntoKeeps
        <5> QED
          BY <2>6, <5>1, <5>2 DEF r
      <4> HIDE DEF apart
      <4>3. Total(apart) = ln
        BY <1>2, <2>2, <2>3, <4>2
      <4>4. /\ Len(MergeRuns(apart)) \in Nat /\ Len(MergeRuns(apart)) <= Len(apart)
            /\ \A gap \in 1 .. Len(apart) : apart[gap].len = 0 => Len(MergeRuns(apart)) <= Len(apart) - 1
        BY <4>2, MergeKeeps, LenProperties
      <4>5. n + extra <= MaxRuns
        BY <3>2
      <4>6. Len(MergeRuns(apart)) <= n + extra
        <5>1. CASE head > 0 /\ head < cut[at].len
          BY <2>1, <4>2, <4>4, <5>1
        <5>2. CASE ~(head > 0 /\ head < cut[at].len)
          <6>1. cut[at].len \in Nat
            BY <1>2, <2>6, <2>8, RunLies
          <6>2. head = 0 \/ head = cut[at].len
            BY <2>8, <5>2, <6>1
          <6>3. Len(MergeRuns(apart)) <= Len(apart) - 1
            BY <4>2, <4>4, <6>2
          <6>4. extra = 1
            BY <5>2
          <6> HIDE DEF extra
          <6> QED
            BY <2>1, <4>2, <4>4, <6>3, <6>4
        <5> QED
          BY <5>1, <5>2
      <4>7. extra \in Nat
        OBVIOUS
      <4> HIDE DEF placed, extra
      <4> QED
        BY <1>2, <2>1, <4>1, <4>2, <4>3, <4>4, <4>5, <4>6, <4>7
    <3>3. CASE ins # 0 /\ ~out
      <4>1. placed = longer
        BY <3>3
      <4>2. at \in 1 .. Len(cut) /\ cut[at] \in TextRun
        BY <2>6, <2>8, ElementOfSeq
      <4>3. Longer(cut[at], ins) \in TextRun /\ Longer(cut[at], ins).len = cut[at].len + ins
        BY <2>5, <4>2, RunChanged
      <4>4. /\ longer \in Seq(TextRun) /\ Len(longer) = Len(cut)
            /\ \A j \in 1 .. Len(cut) : longer[j] = IF j = at THEN Longer(cut[at], ins) ELSE cut[j]
        BY <2>6, <4>2, <4>3, ExceptSeq
      <4> HIDE DEF longer
      <4>5. longer[at].len = cut[at].len + ins
        BY <4>2, <4>3, <4>4
      <4>6. \A i \in 1 .. Len(cut) : i # at => longer[i].len = cut[i].len
        BY <4>4
      <4>7. Total(longer) = Total(cut) + ins
        BY <1>2, <2>5, <2>6, <4>2, <4>4, <4>5, <4>6, OneLonger
      <4>8. Total(longer) = ln
        BY <1>2, <2>2, <2>3, <2>6, <4>7
      <4>9. Len(MergeRuns(longer)) <= Len(longer) /\ Len(MergeRuns(longer)) \in Nat
        BY <4>4, MergeKeeps, LenProperties
      <4>10. Len(MergeRuns(longer)) <= MaxRuns
        BY <1>2, <2>1, <2>6, <4>4, <4>9
      <4> HIDE DEF placed
      <4> QED
        BY <4>1, <4>4, <4>8, <4>10
    <3> QED
      BY <3>1, <3>2, <3>3
  <2> HIDE DEF placed
  <2>11. kept \in Seq(TextRun) /\ Total(kept) = ln
    BY <2>10, MergeKeeps
  <2> HIDE DEF kept, whole, plain
  <2>12. /\ SyncTextUrl(kept, new) \in Seq(TextRun)
         /\ Len(SyncTextUrl(kept, new)) <= MaxRuns
         /\ Total(SyncTextUrl(kept, new)) = ln
    BY <2>10, <2>11, SyncTextUrlKeeps
  <2>13. \A r \in {whole, plain} : <<r>> \in Seq(TextRun) /\ Len(<<r>>) <= MaxRuns /\ Total(<<r>>) = ln
    <3> TAKE r \in {whole, plain}
    <3>1. r \in TextRun /\ r.len = ln
      BY <2>9
    <3> DEFINE list == <<r>>
    <3>2. list \in Seq(TextRun) /\ Len(list) = 1 /\ Total(list) = ln
      BY <1>2, <3>1, OneRun
    <3> HIDE DEF list
    <3>3. list \in Seq(TextRun) /\ Len(list) <= MaxRuns /\ Total(list) = ln
      BY <1>2, <3>2
    <3> QED
      BY <3>3 DEF list
  <2>14. done \in {<<whole>>, <<plain>>, SyncTextUrl(kept, new)}
    BY <1>1, <1>4
  <2>15. done \in Seq(TextRun) /\ Len(done) <= MaxRuns /\ Total(done) = ln
    BY <2>12, <2>13, <2>14, Zenon
  <2> QED
    BY <2>15 DEF done
<1> QED
  BY <1>3, <1>4

-----------------------------------------------------------------------------
(* SnapSelectionForEdit.                                                   *)

(* The selections there are in a text of n characters. *)
Selections(n) == {sel \in Nat \X Nat : sel[1] <= sel[2] /\ sel[2] <= n}

LEMMA SnapStepTyped ==
    ASSUME NEW runs \in Seq(TextRun), NEW i \in 1 .. Len(runs), NEW n \in Nat, Total(runs) <= n,
           NEW sel \in Selections(n), NEW key
    PROVE  SnapToRun(runs, i, sel, key) \in Selections(n)
<1> DEFINE rs == RunStart(runs, i)
           re == RunEnd(runs, i)
           x == sel[1]
           y == sel[2]
           in(v) == rs < v /\ v < re
           xx == IF in(x) THEN rs ELSE x
           yy == IF in(y) THEN re ELSE y
           snapped == SnapToRun(runs, i, sel, key)
<1>1. rs \in Nat /\ re \in Nat /\ rs <= re /\ re <= n
  <2>1. /\ rs \in Nat /\ re \in Nat /\ Total(runs) \in Nat /\ runs[i].len \in Nat
        /\ re = rs + runs[i].len /\ re <= Total(runs)
    BY RunLies, TextRunLengths
  <2> HIDE DEF rs, re
  <2> QED
    BY <2>1
<1>2. x \in Nat /\ y \in Nat /\ x <= y /\ y <= n /\ sel = <<x, y>>
  BY DEF Selections
<1>3. /\ snapped \in {sel, <<xx, yy>>, <<rs, re>>, <<re, re>>}
      /\ snapped = <<xx, yy>> => x # y \/ snapped = sel \/ snapped = <<rs, re>> \/ snapped = <<re, re>>
  BY DEF SnapToRun
<1> HIDE DEF snapped, rs, re, x, y
<1>4. \A u, v \in Nat : u <= v /\ v <= n => <<u, v>> \in Selections(n)
  BY DEF Selections
<1>5. <<rs, re>> \in Selections(n) /\ <<re, re>> \in Selections(n)
  BY <1>1, <1>4
<1>6. CASE x # y
  <2>1. xx \in Nat /\ yy \in Nat /\ xx <= yy /\ yy <= n
    BY <1>1, <1>2, <1>6
  <2> HIDE DEF xx, yy
  <2>2. <<xx, yy>> \in Selections(n)
    BY <1>4, <2>1
  <2> QED
    BY <1>3, <1>5, <2>2 DEF snapped
<1>7. CASE x = y
  <2>1. snapped \in {sel, <<rs, re>>, <<re, re>>}
    <3> HIDE DEF xx, yy
    <3> QED
      BY <1>3, <1>7
  <2> QED
    BY <1>5, <2>1 DEF snapped
<1> QED
  BY <1>6, <1>7

LEMMA SnapTyped ==
    ASSUME NEW b, b.runs \in Seq(TextRun), NEW n \in Nat, b.runs # <<>> => Total(b.runs) = n,
           NEW e \in 0 .. n, NEW s \in 0 .. e, NEW key
    PROVE  SnapSelectionForEdit(b, s, e, key) \in Selections(n)
<1> DEFINE runs == b.runs
           m == Len(runs)
           S == [i \in 0 .. m |-> Selections(n)]
           step == [i \in 1 .. m |-> [a \in Selections(n) |-> SnapToRun(runs, i, a, key)]]
           F(f) == f = [i \in 0 .. m |-> IF i = 0 THEN <<s, e>> ELSE SnapToRun(runs, i, f[i - 1], key)]
           sel == CHOOSE f : F(f)
<1>1. m \in Nat /\ m = Len(runs)
  BY LenProperties
<1>2. \A i \in 1 .. m : \A a \in Selections(n) : step[i][a] = SnapToRun(runs, i, a, key)
  OBVIOUS
<1>3. \A i \in 0 .. m : S[i] = Selections(n)
  OBVIOUS
<1>4. SnapSelectionForEdit(b, s, e, key) = sel[m]
  BY DEF SnapSelectionForEdit
<1>5. <<s, e>> \in Selections(n)
  BY DEF Selections
<1>6. ASSUME NEW i \in 1 .. m, NEW a \in Selections(n)
      PROVE  SnapToRun(runs, i, a, key) \in Selections(n)
  <2>1. Total(runs) <= n
    <3>1. runs # <<>>
      BY EmptySeq
    <3> QED
      BY <3>1
  <2> QED
    BY <2>1, SnapStepTyped
<1> HIDE DEF m, S, step, sel
<1>7. \A i \in 1 .. m : i - 1 \in 0 .. m /\ i \in 0 .. m
  BY <1>1
<1>8. \E f : F(f)
  <2>1. \A i \in 1 .. m : \A a \in S[i - 1] : step[i][a] \in S[i]
    BY <1>2, <1>3, <1>6, <1>7
  <2>2. <<s, e>> \in S[0]
    BY <1>1, <1>3, <1>5
  <2>3. PICK f : Steps(f, m, <<s, e>>, step) /\ \A i \in 0 .. m : f[i] \in S[i]
    BY <1>1, <2>1, <2>2, StepsStay
  <2>4. \A i \in 1 .. m : step[i][f[i - 1]] = SnapToRun(runs, i, f[i - 1], key)
    BY <1>2, <1>3, <1>7, <2>3
  <2>5. \A i \in 0 .. m : (IF i = 0 THEN <<s, e>> ELSE step[i][f[i - 1]])
                          = (IF i = 0 THEN <<s, e>> ELSE SnapToRun(runs, i, f[i - 1], key))
    BY <1>1, <2>4
  <2>6. F(f)
    BY <2>3, <2>5 DEF Steps
  <2> QED
    BY <2>6
<1>9. F(sel)
  BY <1>8 DEF sel
<1>10. sel[0] = <<s, e>> /\ \A i \in 1 .. m : sel[i] = SnapToRun(runs, i, sel[i - 1], key)
  <2> DEFINE first == <<s, e>>
             G == sel = [i \in 0 .. m |-> IF i = 0 THEN first ELSE SnapToRun(runs, i, sel[i - 1], key)]
  <2>1. G
    BY <1>9
  <2> HIDE DEF first
  <2>2. sel[0] = first
    BY <1>1, <2>1
  <2>3. \A i \in 1 .. m : sel[i] = SnapToRun(runs, i, sel[i - 1], key)
    BY <1>1, <2>1
  <2> QED
    BY <2>2, <2>3 DEF first
<1> HIDE DEF F
<1>11. \A i \in 1 .. m : sel[i - 1] \in S[i - 1] => sel[i] \in S[i]
  BY <1>3, <1>6, <1>7, <1>10
<1>12. sel[0] \in S[0]
  BY <1>1, <1>3, <1>5, <1>10
<1>13. \A i \in 0 .. m : sel[i] \in S[i]
  BY <1>1, <1>11, <1>12, Stays
<1> QED
  BY <1>1, <1>3, <1>4, <1>13

-----------------------------------------------------------------------------
(* CollectRuns, and the styles.                                            *)

(* Runs being collected also know the run they come from. *)
CharRuns == [len : Nat, style : Styles, from : Nat, link : Links, auto : BOOLEAN]
OneChars == {c \in CharRuns : c.len = 1}

LEMMA CharRunLengths == HaveLengths(CharRuns)
BY DEF HaveLengths, CharRuns

LEMMA AddCharKeeps ==
    ASSUME NEW runs \in Seq(CharRuns), NEW c \in OneChars, NEW cap \in Nat \ {0}, Len(runs) <= cap
    PROVE  /\ AddChar(runs, c, cap) \in Seq(CharRuns)
           /\ Len(AddChar(runs, c, cap)) <= cap
           /\ Total(AddChar(runs, c, cap)) = Total(runs) + 1
<1> DEFINE n == Len(runs)
           last == runs[n]
           alike == last.style = c.style /\ (last.from = c.from \/ SameExtras(last, c))
           mixed == IsMention(last) \/ IsMention(c) \/ last.link # c.link
           longer == Longer(last, 1)
           blended == [len |-> last.len + 1, style |-> last.style, from |-> last.from,
                       link |-> IF mixed THEN NoLink ELSE last.link,
                       auto |-> last.auto /\ ~mixed]
           added == AddChar(runs, c, cap)
<1>1. /\ n \in Nat /\ c \in CharRuns /\ c.len = 1 /\ RunEnd(runs, 0) = 0
      /\ Total(runs) = RunEnd(runs, n) /\ Total(runs) \in Nat
  <2>1. n \in Nat /\ RunEnd(runs, 0) = 0 /\ \A i \in 0 .. n : RunEnd(runs, i) \in Nat
    BY RunEndIs, CharRunLengths
  <2>2. n \in 0 .. n
    BY <2>1
  <2> QED
    BY <2>1, <2>2 DEF OneChars, Total
<1>2. added = IF n = 0 THEN <<c>>
              ELSE IF alike THEN [runs EXCEPT ![n] = longer]
              ELSE IF n < cap THEN Append(runs, c)
              ELSE [runs EXCEPT ![n] = blended]
  BY DEF AddChar
<1> HIDE DEF added
<1>3. CASE n = 0
  <2>1. <<c>> \in Seq(CharRuns) /\ Len(<<c>>) = 1 /\ Total(<<c>>) = c.len
    BY <1>1, OneRun, CharRunLengths
  <2>2. Total(runs) = 0
    BY <1>1, <1>3
  <2>3. added = <<c>>
    BY <1>2, <1>3
  <2> DEFINE one == <<c>>
  <2> HIDE DEF one
  <2>4. one \in Seq(CharRuns) /\ Len(one) = 1 /\ Total(one) = 1 /\ added = one
    BY <1>1, <2>1, <2>3 DEF one
  <2>5. added \in Seq(CharRuns) /\ Len(added) <= cap
    <3>1. Len(one) <= cap
      BY <2>4
    <3> QED
      BY <2>4, <3>1
  <2>6. Total(added) = Total(runs) + 1
    BY <2>2, <2>4
  <2> QED
    BY <2>5, <2>6 DEF added
<1>4. CASE n # 0 /\ ~alike /\ n < cap
  <2>1. /\ Append(runs, c) \in Seq(CharRuns) /\ Len(Append(runs, c)) = Len(runs) + 1
        /\ Total(Append(runs, c)) = Total(runs) + c.len
    BY <1>1, OneMore, CharRunLengths
  <2>2. added = Append(runs, c)
    BY <1>2, <1>4
  <2>3. Len(runs) + 1 <= cap
    BY <1>1, <1>4
  <2> QED
    BY <1>1, <2>1, <2>2, <2>3 DEF added
<1>5. CASE n # 0 /\ (alike \/ ~(n < cap))
  <2>1. n \in 1 .. Len(runs) /\ last \in CharRuns
    BY <1>1, <1>5, ElementOfSeq
  <2>2. longer \in CharRuns /\ longer.len = last.len + 1
    BY <2>1, SMTT(20) DEF CharRuns, Longer
  <2>3. blended \in CharRuns /\ blended.len = last.len + 1
    <3>1. NoLink \in Links
      BY NoLinkTyped
    <3>2. (IF mixed THEN NoLink ELSE last.link) \in Links
      <4> HIDE DEF mixed
      <4> QED
        BY <2>1, <3>1 DEF CharRuns
    <3>3. (last.auto /\ ~mixed) \in BOOLEAN
      OBVIOUS
    <3> HIDE DEF mixed
    <3> QED
      BY <2>1, <3>2, <3>3 DEF CharRuns
  <2>4. PICK r \in {longer, blended} : added = [runs EXCEPT ![n] = r]
    <3> HIDE DEF longer, blended, alike
    <3> QED
      BY <1>2, <1>5
  <2>5. r \in CharRuns /\ r.len = last.len + 1
    BY <2>2, <2>3, <2>4
  <2>6. /\ [runs EXCEPT ![n] = r] \in Seq(CharRuns) /\ Len([runs EXCEPT ![n] = r]) = Len(runs)
        /\ \A j \in 1 .. Len(runs) : [runs EXCEPT ![n] = r][j] = IF j = n THEN r ELSE runs[j]
    BY <2>1, <2>5, ExceptSeq
  <2>7. /\ added \in Seq(CharRuns) /\ Len(added) = Len(runs)
        /\ added[n].len = runs[n].len + 1
        /\ \A i \in 1 .. Len(runs) : i # n => added[i].len = runs[i].len
    BY <2>1, <2>4, <2>5, <2>6
  <2>8. Total(added) = Total(runs) + 1
    BY <2>1, <2>7, OneLonger, CharRunLengths
  <2> QED
    BY <1>1, <2>7, <2>8 DEF added
<1> QED
  BY <1>3, <1>4, <1>5

(* Single characters become runs that cover them all, at most cap of them. *)
LEMMA CollectKeeps ==
    ASSUME NEW chars \in Seq(OneChars), NEW cap \in Nat \ {0}
    PROVE  /\ CollectRuns(chars, cap) \in Seq(TextRun)
           /\ Len(CollectRuns(chars, cap)) <= cap
           /\ Total(CollectRuns(chars, cap)) = Len(chars)
<1> DEFINE m == Len(chars)
           Part(i) == {runs \in Seq(CharRuns) : Len(runs) <= cap /\ Total(runs) = i}
           S == [i \in 0 .. m |-> Part(i)]
           step == [i \in 1 .. m |-> [a \in Seq(CharRuns) |-> AddChar(a, chars[i], cap)]]
           F(f) == f = [i \in 0 .. m |-> IF i = 0 THEN <<>> ELSE AddChar(f[i - 1], chars[i], cap)]
           collected == CHOOSE f : F(f)
           runs == collected[m]
           out == CollectRuns(chars, cap)
<1>1. m \in Nat
  BY LenProperties
<1>2. \A i \in 1 .. m : \A a \in Seq(CharRuns) : step[i][a] = AddChar(a, chars[i], cap)
  OBVIOUS
<1>3. \A i \in 0 .. m : S[i] = Part(i)
  OBVIOUS
<1>4. out = [i \in DOMAIN runs |-> Run(runs[i].len, runs[i].style, runs[i].link, runs[i].auto)]
  BY DEF CollectRuns
<1>5. <<>> \in Part(0)
  BY NoRuns, CharRunLengths
<1>6. ASSUME NEW i \in 1 .. m, NEW a \in Part(i - 1)
      PROVE  a \in Seq(CharRuns) /\ AddChar(a, chars[i], cap) \in Part(i)
  <2>1. chars[i] \in OneChars
    BY ElementOfSeq
  <2>2. a \in Seq(CharRuns) /\ Len(a) <= cap /\ Total(a) = i - 1
    OBVIOUS
  <2>3. /\ AddChar(a, chars[i], cap) \in Seq(CharRuns)
        /\ Len(AddChar(a, chars[i], cap)) <= cap
        /\ Total(AddChar(a, chars[i], cap)) = Total(a) + 1
    BY <2>1, <2>2, AddCharKeeps
  <2>4. Total(a) + 1 = i
    BY <2>2
  <2> QED
    BY <2>2, <2>3, <2>4
<1> HIDE DEF S, step, collected, out
<1>7. \A i \in 1 .. m : i - 1 \in 0 .. m /\ i \in 0 .. m
  BY <1>1
<1> HIDE DEF m, Part
<1>8. \E f : F(f)
  <2>1. \A i \in 1 .. m : \A a \in S[i - 1] : step[i][a] \in S[i]
    BY <1>2, <1>3, <1>6, <1>7
  <2>2. <<>> \in S[0]
    BY <1>1, <1>3, <1>5
  <2>3. PICK f : Steps(f, m, <<>>, step) /\ \A i \in 0 .. m : f[i] \in S[i]
    BY <1>1, <2>1, <2>2, StepsStay
  <2>4. \A i \in 1 .. m : step[i][f[i - 1]] = AddChar(f[i - 1], chars[i], cap)
    BY <1>2, <1>3, <1>6, <1>7, <2>3
  <2>5. \A i \in 0 .. m : (IF i = 0 THEN <<>> ELSE step[i][f[i - 1]])
                          = (IF i = 0 THEN <<>> ELSE AddChar(f[i - 1], chars[i], cap))
    BY <1>1, <2>4
  <2>6. F(f)
    BY <2>3, <2>5 DEF Steps
  <2> QED
    BY <2>6
<1>9. F(collected)
  BY <1>8 DEF collected
<1>10. collected[0] = <<>> /\ \A i \in 1 .. m : collected[i] = AddChar(collected[i - 1], chars[i], cap)
  BY <1>1, <1>9
<1> HIDE DEF F
<1>11. \A i \in 1 .. m : collected[i - 1] \in S[i - 1] => collected[i] \in S[i]
  BY <1>3, <1>6, <1>7, <1>10
<1>12. collected[0] \in S[0]
  BY <1>1, <1>3, <1>5, <1>10
<1>13. \A i \in 0 .. m : collected[i] \in S[i]
  BY <1>1, <1>11, <1>12, Stays
<1>14. runs \in Part(m)
  BY <1>1, <1>3, <1>13
<1>15. runs \in Seq(CharRuns) /\ Len(runs) <= cap /\ Total(runs) = m /\ Len(runs) \in Nat
       /\ DOMAIN runs = 1 .. Len(runs)
  BY <1>14, LenProperties DEF Part
<1> HIDE DEF runs
<1>16. ASSUME NEW i \in 1 .. Len(runs)
       PROVE  out[i] \in TextRun /\ out[i].len = runs[i].len
  <2>1. runs[i] \in CharRuns
    BY <1>15, ElementOfSeq
  <2>2. /\ runs[i].len \in Nat /\ runs[i].style \in Styles /\ runs[i].link \in Links
        /\ runs[i].auto \in BOOLEAN
    BY <2>1 DEF CharRuns
  <2>3. out[i] = Run(runs[i].len, runs[i].style, runs[i].link, runs[i].auto)
    BY <1>4, <1>15
  <2> QED
    BY <2>2, <2>3, RunTyped
<1>17. out \in Seq(TextRun) /\ Len(out) = Len(runs)
  <2>1. out = [i \in 1 .. Len(runs) |-> out[i]]
    BY <1>4, <1>15
  <2>2. out \in [1 .. Len(runs) -> TextRun]
    BY <1>16, <2>1
  <2>3. out \in Seq(TextRun)
    BY <1>15, <2>2, SeqDef
  <2>4. DOMAIN out = 1 .. Len(runs) /\ DOMAIN out = 1 .. Len(out) /\ Len(out) \in Nat
    BY <2>1, <2>3, LenProperties
  <2> QED
    BY <1>15, <2>3, <2>4
<1>18. Total(out) = Total(runs)
  BY <1>15, <1>16, <1>17, SameEnds, TextRunLengths, CharRunLengths
<1> QED
  BY <1>15, <1>17, <1>18 DEF out, m

-----------------------------------------------------------------------------
(* Rows.                                                                   *)

(* What a row can hold, but for the styles TextEdit shows of it. *)
PieceHolds(b) ==
    /\ b \in Row
    /\ Len(b.text) <= MaxText /\ Len(b.emoji) <= MaxEmoji /\ Len(b.runs) <= MaxRuns
    /\ b.runs # <<>> => Total(b.runs) = Len(b.text)

RowHolds(b) == PieceHolds(b) /\ DOMAIN b.face = DOMAIN b.text

LEMMA PieceFields ==
    ASSUME NEW b, PieceHolds(b)
    PROVE  /\ b.text \in Seq(STRING) /\ b.runs \in Seq(TextRun) /\ b.emoji \in Seq(Nat)
           /\ b.face \in Seq(Styles) /\ b.runsDirty \in BOOLEAN /\ b.cont \in BOOLEAN
           /\ b.cutShort \in BOOLEAN /\ b.serial \in Nat
           /\ Len(b.text) \in Nat /\ Len(b.runs) \in Nat /\ Len(b.emoji) \in Nat
           /\ DOMAIN b.text = 1 .. Len(b.text) /\ DOMAIN b.runs = 1 .. Len(b.runs)
<1>1. /\ b.text \in Seq(STRING) /\ b.runs \in Seq(TextRun) /\ b.emoji \in Seq(Nat)
      /\ b.face \in Seq(Styles) /\ b.runsDirty \in BOOLEAN /\ b.cont \in BOOLEAN
      /\ b.cutShort \in BOOLEAN /\ b.serial \in Nat
  BY DEF PieceHolds, Row
<1> QED
  BY <1>1, LenProperties

(* A list by its places. *)
LEMMA ListOf ==
    ASSUME NEW S, NEW n \in Nat, NEW f, f \in [1 .. n -> S]
    PROVE  f \in Seq(S) /\ Len(f) = n
<1>1. f \in Seq(S)
  BY SeqDef
<1>2. DOMAIN f = 1 .. n /\ DOMAIN f = 1 .. Len(f) /\ Len(f) \in Nat
  BY <1>1, LenProperties
<1> QED
  BY <1>1, <1>2

LEMMA FaceTyped ==
    ASSUME NEW runs \in Seq(TextRun), NEW n \in Nat
    PROVE  [c \in 1 .. n |-> IF RunOf(runs, c).link = NoLink THEN RunOf(runs, c).style
                            ELSE RunOf(runs, c).style \cup Underline] \in Seq(Styles)
<1> DEFINE shown(c) == IF RunOf(runs, c).link = NoLink THEN RunOf(runs, c).style
                       ELSE RunOf(runs, c).style \cup Underline
<1>1. \A c \in 1 .. n : shown(c) \in Styles
  <2> TAKE c \in 1 .. n
  <2>1. RunOf(runs, c) \in TextRun
    BY RunOfTyped
  <2>2. RunOf(runs, c).style \in Styles
    BY <2>1 DEF TextRun
  <2> QED
    BY <2>2, StyleSets
<1> HIDE DEF shown
<1>2. [c \in 1 .. n |-> shown(c)] \in [1 .. n -> Styles]
  BY <1>1
<1>3. [c \in 1 .. n |-> shown(c)] \in Seq(Styles)
  BY <1>2, ListOf
<1> QED
  BY <1>3 DEF shown

LEMMA RestyledHolds ==
    ASSUME NEW b, PieceHolds(b)
    PROVE  /\ RowHolds(ApplyRunStyles(b))
           /\ ApplyRunStyles(b).text = b.text /\ ApplyRunStyles(b).runs = b.runs
           /\ \A short \in BOOLEAN : RowHolds([ApplyRunStyles(b) EXCEPT !.cutShort = short])
<1> DEFINE n == Len(b.text)
           face == [c \in 1 .. n |-> IF RunOf(b.runs, c).link = NoLink THEN RunOf(b.runs, c).style
                                    ELSE RunOf(b.runs, c).style \cup Underline]
<1>1. n \in Nat /\ DOMAIN b.text = 1 .. n /\ b.runs \in Seq(TextRun)
  BY PieceFields
<1>2. face \in Seq(Styles) /\ DOMAIN face = 1 .. n
  BY <1>1, FaceTyped
<1>3. ApplyRunStyles(b) = [b EXCEPT !.face = face]
  BY <1>1 DEF ApplyRunStyles
<1> HIDE DEF face, n
<1>4. b \in Row
  BY DEF PieceHolds
<1>5. [b EXCEPT !.face = face] \in Row
  BY <1>2, <1>4 DEF Row
<1>6. /\ [b EXCEPT !.face = face].text = b.text /\ [b EXCEPT !.face = face].runs = b.runs
      /\ [b EXCEPT !.face = face].emoji = b.emoji /\ [b EXCEPT !.face = face].face = face
  BY <1>4 DEF Row
<1>7. RowHolds(ApplyRunStyles(b))
  BY <1>1, <1>2, <1>3, <1>5, <1>6 DEF RowHolds, PieceHolds
<1>9. ApplyRunStyles(b).text = b.text /\ ApplyRunStyles(b).runs = b.runs
  BY <1>3, <1>6
<1>8. ASSUME NEW short \in BOOLEAN
      PROVE  RowHolds([ApplyRunStyles(b) EXCEPT !.cutShort = short])
  <2> DEFINE d == [b EXCEPT !.face = face]
             r == [d EXCEPT !.cutShort = short]
  <2>1. r \in Row /\ r.text = d.text /\ r.runs = d.runs /\ r.emoji = d.emoji /\ r.face = d.face
    <3>1. d \in Row
      BY <1>5
    <3> HIDE DEF d
    <3> QED
      BY <3>1 DEF Row
  <2> HIDE DEF r
  <2>2. RowHolds(d)
    BY <1>3, <1>7
  <2>3. RowHolds(r)
    <3> HIDE DEF d
    <3> QED
      BY <2>1, <2>2 DEF RowHolds, PieceHolds
  <2> QED
    BY <1>3, <2>3 DEF r
<1> QED
  BY <1>7, <1>8, <1>9

LEMMA StyledTyped ==
    ASSUME NEW b, b.runs \in Seq(TextRun), NEW c \in Nat, NEW style \in Styles
    PROVE  Styled(b, c, style) \in OneChars
<1>1. RunOf(b.runs, c) \in TextRun
  BY RunOfTyped
<1>2. RunAt(b.runs, c) \in Nat
  <2>1. RunAt(b.runs, c) \in 0 .. Len(b.runs) /\ Len(b.runs) \in Nat
    BY RunAtIs, LenProperties
  <2> QED
    BY <2>1
<1>3. RunOf(b.runs, c).link \in Links /\ RunOf(b.runs, c).auto \in BOOLEAN
  BY <1>1 DEF TextRun
<1> QED
  BY <1>2, <1>3 DEF Styled, OneChars, CharRuns

(* RebuildRunsFromTE leaves the row one, and the text as it is; taken from
   TextEdit, the runs cover it. *)
LEMMA RebuiltHolds ==
    ASSUME NEW b, RowHolds(b)
    PROVE  LET r == RebuildRunsFromTE(b)
           IN  /\ RowHolds(r) /\ r.text = b.text
               /\ b.runsDirty \/ Total(b.runs) = Len(b.text) => Total(r.runs) = Len(r.text)
               /\ r.runsDirty => b.text = <<>>
<1>1. PieceHolds(b) /\ b \in Row /\ DOMAIN b.face = DOMAIN b.text /\ MaxRuns \in Nat \ {0}
  BY RunsAssumption DEF RowHolds, PieceHolds
<1>2. /\ b.text \in Seq(STRING) /\ b.runs \in Seq(TextRun) /\ b.face \in Seq(Styles)
      /\ Len(b.text) \in Nat /\ DOMAIN b.text = 1 .. Len(b.text)
  BY <1>1, PieceFields
<1> DEFINE rebuilt == RebuildRunsFromTE(b)
           n == Len(b.text)
           empty == <<Run(0, {}, NoLink, FALSE)>>
           real(c) == Annotated(RunOf(b.runs, c), b.face[c])
           chars == [c \in 1 .. n |-> Styled(b, c, real(c))]
           runs == CollectRuns(chars, MaxRuns)
<1>3. rebuilt = IF ~b.runsDirty THEN b
                ELSE IF b.text = <<>> THEN [b EXCEPT !.runs = empty]
                ELSE [b EXCEPT !.runsDirty = FALSE, !.runs = runs]
  BY <1>2 DEF RebuildRunsFromTE
<1> HIDE DEF rebuilt
<1>4. CASE ~b.runsDirty
  BY <1>3, <1>4 DEF rebuilt
<1>5. CASE b.runsDirty /\ b.text = <<>>
  <2>1. empty \in Seq(TextRun) /\ Len(empty) = 1 /\ Total(empty) = 0
    <3>1. Run(0, {}, NoLink, FALSE) \in TextRun /\ Run(0, {}, NoLink, FALSE).len = 0
      BY RunTyped, NoLinkTyped, StyleSets
    <3> QED
      BY <3>1, OneRun, TextRunLengths
  <2> HIDE DEF empty
  <2>2. /\ rebuilt \in Row /\ rebuilt.text = b.text /\ rebuilt.emoji = b.emoji
        /\ rebuilt.face = b.face /\ rebuilt.runs = empty
    <3>1. rebuilt = [b EXCEPT !.runs = empty]
      BY <1>3, <1>5
    <3> QED
      BY <1>1, <2>1, <3>1 DEF Row
  <2>3. Len(b.text) = 0
    BY <1>5
  <2>4. 1 <= MaxRuns
    BY <1>1
  <2> QED
    BY <1>1, <1>5, <2>1, <2>2, <2>3, <2>4 DEF RowHolds, PieceHolds, rebuilt
<1>6. CASE b.runsDirty /\ b.text # <<>>
  <2>1. chars \in Seq(OneChars) /\ Len(chars) = n
    <3>1. \A c \in 1 .. n : Styled(b, c, real(c)) \in OneChars
      <4> TAKE c \in 1 .. n
      <4>1. c \in 1 .. Len(b.face)
        BY <1>1, <1>2, LenProperties
      <4>2. b.face[c] \in Styles
        BY <1>2, <4>1, ElementOfSeq
      <4>3. RunOf(b.runs, c) \in TextRun
        BY <1>2, RunOfTyped
      <4>4. RunOf(b.runs, c).style \in Styles
        BY <4>3 DEF TextRun
      <4>5. real(c) \in Styles
        BY <4>2, <4>4, StyleSets DEF Annotated
      <4> HIDE DEF real
      <4> QED
        BY <1>2, <4>5, StyledTyped
    <3> HIDE DEF real
    <3>2. chars \in [1 .. n -> OneChars]
      BY <3>1
    <3> HIDE DEF chars
    <3> QED
      BY <1>2, <3>2, ListOf
  <2> HIDE DEF chars
  <2>2. runs \in Seq(TextRun) /\ Len(runs) <= MaxRuns /\ Total(runs) = n
    BY <1>1, <2>1, CollectKeeps
  <2> HIDE DEF runs
  <2>3. /\ rebuilt \in Row /\ rebuilt.text = b.text /\ rebuilt.emoji = b.emoji
        /\ rebuilt.face = b.face /\ rebuilt.runs = runs /\ rebuilt.runsDirty = FALSE
    <3>1. rebuilt = [b EXCEPT !.runsDirty = FALSE, !.runs = runs]
      BY <1>3, <1>6
    <3> QED
      BY <1>1, <2>2, <3>1 DEF Row
  <2> QED
    BY <1>1, <2>2, <2>3 DEF RowHolds, PieceHolds, rebuilt
<1> QED
  BY <1>4, <1>5, <1>6

LEMMA ToggledHolds ==
    ASSUME NEW b, RowHolds(b), NEW e \in 1 .. Len(b.text), NEW s \in 0 .. e - 1,
           NEW which \in {"bold", "underline"}
    PROVE  RowHolds(ToggleRunStyleBit(b, s, e, which))
<1> DEFINE base   == IF b.runs = <<>> THEN [b EXCEPT !.runs = <<Run(Len(b.text), {}, NoLink, FALSE)>>]
                     ELSE b
           wide   == WidenToMentions(base, s, e)
           chosen == (wide[1] + 1) .. wide[2]
           has(c) == RunOf(base.runs, c).style
           adding == \E c \in chosen : which \notin has(c)
           to(c) == IF c \notin chosen THEN has(c)
                    ELSE IF adding THEN has(c) \cup {which} ELSE has(c) \ {which}
           chars  == [c \in DOMAIN b.text |->
                         Styled(base, c, IF c \notin chosen THEN has(c)
                                         ELSE IF adding THEN has(c) \cup {which} ELSE has(c) \ {which})]
           runs   == CollectRuns(chars, Len(b.text))
           styled == \E i \in DOMAIN runs : runs[i].style # {} \/ runs[i].link # NoLink
           done   == [b EXCEPT !.runs = runs, !.runsDirty = TRUE]
           face   == [c \in DOMAIN b.text |-> IF c \in (s + 1) .. e THEN {} ELSE done.face[c]]
           toggled == ToggleRunStyleBit(b, s, e, which)
           n == Len(b.text)
           one == <<Run(Len(b.text), {}, NoLink, FALSE)>>
<1>1. PieceHolds(b) /\ b \in Row /\ DOMAIN b.face = DOMAIN b.text /\ MaxRuns \in Nat \ {0}
  BY RunsAssumption DEF RowHolds, PieceHolds
<1>2. /\ b.text \in Seq(STRING) /\ b.runs \in Seq(TextRun) /\ b.face \in Seq(Styles)
      /\ DOMAIN b.text = 1 .. n /\ n \in Nat \ {0}
  BY <1>1, PieceFields
<1>3. toggled = IF Len(runs) > MaxRuns THEN [base EXCEPT !.runsDirty = TRUE]
                ELSE IF styled THEN ApplyRunStyles(done)
                ELSE [done EXCEPT !.face = face]
  BY DEF ToggleRunStyleBit
<1> HIDE DEF toggled, styled
<1>4. /\ base \in Row /\ base.text = b.text /\ base.emoji = b.emoji /\ base.face = b.face
      /\ base.runs \in Seq(TextRun) /\ Len(base.runs) <= MaxRuns /\ Total(base.runs) = n
  <2>1. CASE b.runs = <<>>
    <3>1. one \in Seq(TextRun) /\ Len(one) = 1 /\ Total(one) = n
      <4>1. Run(n, {}, NoLink, FALSE) \in TextRun /\ Run(n, {}, NoLink, FALSE).len = n
        BY <1>2, RunTyped, NoLinkTyped, StyleSets
      <4> QED
        BY <4>1, OneRun, TextRunLengths
    <3>2. base = [b EXCEPT !.runs = one]
      BY <2>1
    <3> HIDE DEF one, base
    <3>3. /\ base \in Row /\ base.text = b.text /\ base.emoji = b.emoji /\ base.face = b.face
          /\ base.runs = one
      BY <1>1, <3>1, <3>2 DEF Row
    <3>4. 1 <= MaxRuns
      BY <1>1
    <3>5. base.runs \in Seq(TextRun) /\ Len(base.runs) <= MaxRuns
      BY <3>1, <3>3, <3>4
    <3>6. Total(base.runs) = n
      BY <3>1, <3>3
    <3> QED
      BY <3>3, <3>5, <3>6
  <2>2. CASE b.runs # <<>>
    <3>1. base = b
      BY <2>2
    <3> HIDE DEF base
    <3> QED
      BY <1>1, <1>2, <2>2, <3>1 DEF PieceHolds
  <2> QED
    BY <2>1, <2>2
<1> HIDE DEF base
<1>5. chars \in Seq(OneChars) /\ Len(chars) = n
  <2>1. \A c \in 1 .. n : Styled(base, c, to(c)) \in OneChars
    <3> TAKE c \in 1 .. n
    <3>1. RunOf(base.runs, c) \in TextRun
      BY <1>4, RunOfTyped
    <3>2. has(c) \in Styles
      BY <3>1 DEF TextRun
    <3> HIDE DEF has, adding, chosen
    <3>4. to(c) \in Styles
      BY <3>2, StyleSets
    <3> HIDE DEF to
    <3> QED
      BY <1>4, <3>4, StyledTyped
  <2> HIDE DEF adding, chosen, has
  <2>2. chars = [c \in 1 .. n |-> Styled(base, c, to(c))]
    BY <1>2
  <2> HIDE DEF chars, to
  <2>3. chars \in [1 .. n -> OneChars]
    BY <2>1, <2>2
  <2> QED
    BY <1>2, <2>3, ListOf
<1> HIDE DEF chars
<1>6. runs \in Seq(TextRun) /\ Total(runs) = n
  BY <1>2, <1>5, CollectKeeps
<1> HIDE DEF runs
<1>7. /\ done \in Row /\ done.text = b.text /\ done.emoji = b.emoji /\ done.face = b.face
      /\ done.runs = runs
  BY <1>1, <1>6 DEF Row
<1>8. CASE Len(runs) > MaxRuns
  <2>1. toggled = [base EXCEPT !.runsDirty = TRUE]
    BY <1>3, <1>8
  <2>2. /\ toggled \in Row /\ toggled.text = b.text /\ toggled.emoji = b.emoji /\ toggled.face = b.face
        /\ toggled.runs = base.runs
    BY <1>4, <2>1 DEF Row
  <2> QED
    BY <1>1, <1>4, <2>2 DEF RowHolds, PieceHolds, toggled
<1>9. CASE ~(Len(runs) > MaxRuns)
  <2>1. Len(runs) <= MaxRuns
    BY <1>1, <1>6, <1>9, LenProperties
  <2>2. PieceHolds(done)
    BY <1>1, <1>6, <1>7, <2>1 DEF PieceHolds
  <2>3. CASE styled
    <3>1. toggled = ApplyRunStyles(done)
      BY <1>3, <1>9, <2>3
    <3> HIDE DEF done
    <3> QED
      BY <2>2, <3>1, RestyledHolds DEF toggled
  <2>4. CASE ~styled
    <3>1. toggled = [done EXCEPT !.face = face]
      BY <1>3, <1>9, <2>4
    <3>2. face \in Seq(Styles) /\ DOMAIN face = DOMAIN b.text
      <4> DEFINE on(c) == IF c \in (s + 1) .. e THEN {} ELSE done.face[c]
      <4>1. \A c \in 1 .. n : on(c) \in Styles
        <5> TAKE c \in 1 .. n
        <5>1. c \in 1 .. Len(b.face)
          BY <1>1, <1>2, LenProperties
        <5>2. b.face[c] \in Styles
          BY <1>2, <5>1, ElementOfSeq
        <5> QED
          BY <1>7, <5>2, StyleSets
      <4>2. face = [c \in 1 .. n |-> on(c)]
        BY <1>2
      <4> HIDE DEF on
      <4>3. face \in [1 .. n -> Styles]
        BY <4>1, <4>2
      <4> HIDE DEF face
      <4> QED
        BY <1>2, <4>3, ListOf
    <3> HIDE DEF done, face
    <3>3. /\ toggled \in Row /\ toggled.text = b.text /\ toggled.emoji = b.emoji
          /\ toggled.face = face /\ toggled.runs = runs
      BY <1>7, <3>1, <3>2 DEF Row
    <3> QED
      BY <1>1, <1>6, <2>1, <3>2, <3>3 DEF RowHolds, PieceHolds, toggled
  <2> QED
    BY <2>3, <2>4
<1> QED
  BY <1>8, <1>9

(* An edit of the row, where the new text is not too long. *)
LEMMA EditedHolds ==
    ASSUME NEW b, RowHolds(b), NEW e \in 0 .. Len(b.text), NEW s \in 0 .. e,
           NEW ins \in Seq(STRING), Len(b.text) - (e - s) + Len(ins) <= MaxText,
           NEW shown \in Styles, NEW emoji \in Seq(Nat)
    PROVE  RowHolds(EditRow(b, s, e, ins, shown, emoji))
<1> DEFINE new == Splice(b.text, s, e, ins)
           caret == s + Len(ins)
           marks == [c \in DOMAIN ins |-> shown]
           seqs == SyncEmojiSeqs(b, new, caret, emoji)
           runs == AdjustRunsForEdit(b, new, caret)
           face == Splice(b.face, s, e, marks)
           done == EditRow(b, s, e, ins, shown, emoji)
<1>1. PieceHolds(b) /\ b \in Row /\ DOMAIN b.face = DOMAIN b.text
  BY DEF RowHolds, PieceHolds
<1>2. /\ b.text \in Seq(STRING) /\ b.runs \in Seq(TextRun) /\ b.face \in Seq(Styles)
      /\ b.emoji \in Seq(Nat) /\ Len(b.text) \in Nat /\ DOMAIN b.text = 1 .. Len(b.text)
  BY <1>1, PieceFields
<1>3. Len(ins) \in Nat /\ DOMAIN ins = 1 .. Len(ins)
  BY LenProperties
<1>4. new \in Seq(STRING) /\ Len(new) = s + Len(ins) + (Len(b.text) - e)
  <2> DEFINE old == b.text
  <2>1. old \in Seq(STRING) /\ e \in 0 .. Len(old)
    BY <1>2
  <2> HIDE DEF old
  <2>2. /\ Splice(old, s, e, ins) \in Seq(STRING)
        /\ Len(Splice(old, s, e, ins)) = s + Len(ins) + (Len(old) - e)
    BY <2>1, SpliceTyped, SMTT(20)
  <2> QED
    BY <2>2 DEF old
<1>5. done = [b EXCEPT !.emoji = seqs, !.runs = runs, !.text = new, !.runsDirty = TRUE,
                       !.face = face]
  BY DEF EditRow
<1> HIDE DEF new, done
<1>6. caret \in 0 .. Len(new)
  BY <1>2, <1>3, <1>4
<1>7. seqs \in Seq(Nat) /\ Len(seqs) <= MaxEmoji
  BY <1>2, <1>4, <1>6, SyncEmojiTyped
<1>8. runs \in Seq(TextRun) /\ Len(runs) <= MaxRuns /\ (runs # <<>> => Total(runs) = Len(new))
  <2>1. Len(b.runs) <= MaxRuns /\ (b.runs # <<>> => Total(b.runs) = Len(b.text))
    BY <1>1 DEF PieceHolds
  <2> HIDE DEF caret
  <2> QED
    BY <1>2, <1>4, <1>6, <2>1, AdjustKeeps
<1>9. face \in Seq(Styles) /\ DOMAIN face = DOMAIN new
  <2>1. Len(b.face) = Len(b.text)
    BY <1>1, <1>2, LenProperties
  <2>2. marks \in Seq(Styles) /\ Len(marks) = Len(ins)
    <3>1. marks \in [1 .. Len(ins) -> Styles]
      BY <1>3
    <3> HIDE DEF marks
    <3> QED
      BY <1>3, <3>1, ListOf
  <2> HIDE DEF marks
  <2>3. face \in Seq(Styles) /\ Len(face) = s + Len(marks) + (Len(b.face) - e)
    <3> DEFINE old == b.face
    <3>1. old \in Seq(Styles) /\ e \in 0 .. Len(old)
      BY <1>2, <2>1
    <3> HIDE DEF old, marks
    <3> DEFINE S == Styles
    <3>2. marks \in Seq(S) /\ old \in Seq(S)
      BY <2>2, <3>1
    <3> HIDE DEF S
    <3>3. Splice(old, s, e, marks) \in Seq(S)
      BY <3>1, <3>2, SpliceTyped
    <3>4. Len(Splice(old, s, e, marks)) = s + Len(marks) + (Len(old) - e)
      BY <3>1, <3>2, SpliceTyped
    <3> QED
      BY <3>3, <3>4 DEF old, S
  <2> HIDE DEF face
  <2>4. Len(face) = Len(new)
    BY <1>4, <2>1, <2>2, <2>3
  <2> QED
    BY <1>4, <2>3, <2>4, LenProperties
<1> HIDE DEF seqs, runs, face, caret
<1>10. /\ done \in Row /\ done.text = new /\ done.runs = runs /\ done.emoji = seqs /\ done.face = face
  BY <1>1, <1>4, <1>5, <1>7, <1>8, <1>9 DEF Row
<1>11. Len(new) <= MaxText
  <2> DEFINE k == Len(b.text)
             l == Len(ins)
  <2>1. k \in Nat /\ l \in Nat /\ s \in Nat /\ e \in Nat /\ MaxText \in Nat /\ k - (e - s) + l <= MaxText
    BY <1>2, <1>3, RunsAssumption
  <2>2. Len(new) = s + l + (k - e)
    BY <1>4
  <2> HIDE DEF k, l
  <2> QED
    BY <2>1, <2>2
<1> QED
  BY <1>7, <1>8, <1>9, <1>10, <1>11 DEF RowHolds, PieceHolds, done

(* A key's edit besides takes the link's underline off what it put in. *)
LEMMA KeyedHolds ==
    ASSUME NEW b, RowHolds(b), NEW e \in 0 .. Len(b.text), NEW s \in 0 .. e,
           NEW ins \in Seq(STRING), Len(b.text) - (e - s) + Len(ins) <= MaxText,
           NEW shown \in Styles
    PROVE  RowHolds(KeyRow(b, s, e, ins, shown))
<1> DEFINE new == EditRow(b, s, e, ins, shown, <<>>)
           chars == LinkUnderlined(b, new.text, s + Len(ins))
           face == ClearLinkUnderline(new.face, chars)
           done == KeyRow(b, s, e, ins, shown)
<1>1. <<>> \in Seq(Nat)
  OBVIOUS
<1>2. RowHolds(new)
  BY <1>1, EditedHolds
<1>3. done = [new EXCEPT !.face = face]
  BY DEF KeyRow
<1> HIDE DEF new, chars, done
<1>4. PieceHolds(new) /\ new \in Row /\ DOMAIN new.face = DOMAIN new.text
  BY <1>2 DEF RowHolds, PieceHolds
<1>5. new.face \in Seq(Styles)
  BY <1>4, PieceFields
<1>6. face \in Seq(Styles) /\ DOMAIN face = DOMAIN new.face
  <2> DEFINE n == Len(new.face)
             cleared(c) == IF c \in chars THEN new.face[c] \ Underline ELSE new.face[c]
  <2>1. n \in Nat /\ DOMAIN new.face = 1 .. n
    BY <1>5, LenProperties
  <2>2. \A c \in 1 .. n : cleared(c) \in Styles
    <3> TAKE c \in 1 .. n
    <3>1. new.face[c] \in Styles
      BY <1>5, ElementOfSeq
    <3> QED
      BY <3>1, StyleSets
  <2>3. face = [c \in 1 .. n |-> cleared(c)]
    BY <2>1 DEF ClearLinkUnderline
  <2> HIDE DEF cleared, face, n
  <2>4. face \in [1 .. n -> Styles]
    BY <2>2, <2>3
  <2> QED
    BY <2>1, <2>4, ListOf
<1> HIDE DEF face
<1>7. /\ done \in Row /\ done.text = new.text /\ done.runs = new.runs /\ done.emoji = new.emoji
      /\ done.face = face
  BY <1>3, <1>4, <1>6 DEF Row
<1> QED
  BY <1>4, <1>6, <1>7 DEF RowHolds, PieceHolds, done

(* Without memory for its styles a row has no runs. *)
LEMMA ForgottenHolds ==
    ASSUME NEW b, RowHolds(b)
    PROVE  RowHolds(NoMemory(b)) /\ NoMemory(b).text = b.text
<1>1. PieceHolds(b) /\ b \in Row /\ DOMAIN b.face = DOMAIN b.text /\ MaxRuns \in Nat \ {0}
  BY RunsAssumption DEF RowHolds, PieceHolds
<1> DEFINE none == <<>>
           bare == NoMemory(b)
<1>2. none \in Seq(TextRun) /\ Len(none) = 0
  BY EmptySeq
<1>3. bare = [b EXCEPT !.runs = none]
  BY DEF NoMemory
<1>4. none = <<>>
  OBVIOUS
<1> HIDE DEF none, bare
<1>5. /\ bare \in Row /\ bare.text = b.text /\ bare.runs = none /\ bare.emoji = b.emoji
      /\ bare.face = b.face
  BY <1>1, <1>2, <1>3 DEF Row
<1>6. Len(bare.runs) <= MaxRuns
  BY <1>1, <1>2, <1>5
<1> QED
  BY <1>1, <1>4, <1>5, <1>6 DEF RowHolds, PieceHolds, bare

-----------------------------------------------------------------------------
(* Loading.                                                                *)

LEMMA CutBesideTyped ==
    ASSUME NEW runs \in Seq(TextRun), NEW i \in 1 .. Len(runs), NEW n \in Nat, Total(runs) = n,
           NEW cut \in 0 .. n
    PROVE  CutBeside(runs, i, cut) \in 0 .. n /\ (cut = n => CutBeside(runs, i, cut) = n)
<1> DEFINE rs == RunStart(runs, i)
           re == RunEnd(runs, i)
           beside == CutBeside(runs, i, cut)
           mention == IsMention(runs[i])
<1>1. rs \in Nat /\ re \in Nat /\ rs <= re /\ re <= n
  <2>1. /\ rs \in Nat /\ re \in Nat /\ runs[i].len \in Nat
        /\ re = rs + runs[i].len /\ re <= Total(runs)
    BY RunLies, TextRunLengths
  <2> HIDE DEF rs, re
  <2> QED
    BY <2>1
<1>2. beside = IF mention /\ rs < cut /\ cut < re
               THEN IF rs > 0 THEN rs ELSE re ELSE cut
  BY DEF CutBeside
<1> HIDE DEF rs, re, beside, mention
<1>3. beside \in 0 .. n /\ (cut = n => beside = n)
  BY <1>1, <1>2
<1> QED
  BY <1>3 DEF beside

(* A piece is cut inside its text, at the very end where nothing else is asked. *)
LEMMA CutTyped ==
    ASSUME NEW c, c.text \in Seq(STRING), c.runs \in Seq(TextRun), Total(c.runs) = Len(c.text),
           NEW atSpace \in BOOLEAN
    PROVE  CutAt(c, atSpace) \in 0 .. Len(c.text) /\ (~atSpace => CutAt(c, atSpace) = Len(c.text))
<1> DEFINE n == Len(c.text)
           m == Len(c.runs)
           Cuts == IF atSpace THEN 0 .. n ELSE {n}
           from == Max({2, n - Lookback + 1})
           near == from .. n
           spaces == {i \in near : atSpace /\ c.text[i] = Space}
           first == IF spaces = {} THEN n ELSE Max(spaces)
           S == [i \in 0 .. m |-> Cuts]
           step == [i \in 1 .. m |-> [a \in Cuts |-> CutBeside(c.runs, i, a)]]
           F(f) == f = [i \in 0 .. m |-> IF i = 0 THEN first ELSE CutBeside(c.runs, i, f[i - 1])]
           cut == CHOOSE f : F(f)
<1>1. n \in Nat /\ m \in Nat /\ m = Len(c.runs) /\ Total(c.runs) = n
  BY LenProperties
<1>2. \A i \in 1 .. m : \A a \in Cuts : step[i][a] = CutBeside(c.runs, i, a)
  OBVIOUS
<1>3. \A i \in 0 .. m : S[i] = Cuts
  OBVIOUS
<1>4. CutAt(c, atSpace) = cut[m]
  BY DEF CutAt
<1>5. Cuts \subseteq 0 .. n /\ n \in Cuts
  BY <1>1
<1>6. first \in Cuts
  <2>1. from \in Nat /\ from >= 2
    <3> DEFINE x == n - Lookback + 1
    <3>1. x \in Int
      BY <1>1, EditingAssumption
    <3> HIDE DEF x
    <3>2. Max({2, x}) = IF 2 >= x THEN 2 ELSE x
      BY <3>1, MaxPair
    <3> QED
      BY <3>1, <3>2 DEF x
  <2> HIDE DEF from
  <2>2. spaces \subseteq 0 .. n /\ (spaces # {} => atSpace)
    BY <1>1, <2>1
  <2> HIDE DEF spaces
  <2>3. spaces # {} => Max(spaces) \in 0 .. n
    BY <1>1, <2>2, MaxIn
  <2> QED
    BY <1>5, <2>2, <2>3
<1>7. ASSUME NEW i \in 1 .. m, NEW a \in Cuts
      PROVE  CutBeside(c.runs, i, a) \in Cuts
  <2>1. a \in 0 .. n
    BY <1>5
  <2>2. CutBeside(c.runs, i, a) \in 0 .. n /\ (a = n => CutBeside(c.runs, i, a) = n)
    BY <1>1, <2>1, CutBesideTyped
  <2> QED
    BY <2>2
<1> HIDE DEF m, S, step, cut, first, Cuts
<1>8. \A i \in 1 .. m : i - 1 \in 0 .. m /\ i \in 0 .. m
  BY <1>1
<1>9. \E f : F(f)
  <2>1. \A i \in 1 .. m : \A a \in S[i - 1] : step[i][a] \in S[i]
    BY <1>2, <1>3, <1>7, <1>8
  <2>2. first \in S[0]
    BY <1>1, <1>3, <1>6
  <2>3. PICK f : Steps(f, m, first, step) /\ \A i \in 0 .. m : f[i] \in S[i]
    BY <1>1, <2>1, <2>2, StepsStay
  <2>4. \A i \in 1 .. m : step[i][f[i - 1]] = CutBeside(c.runs, i, f[i - 1])
    BY <1>2, <1>3, <1>8, <2>3
  <2>5. \A i \in 0 .. m : (IF i = 0 THEN first ELSE step[i][f[i - 1]])
                          = (IF i = 0 THEN first ELSE CutBeside(c.runs, i, f[i - 1]))
    BY <1>1, <2>4
  <2>6. F(f)
    BY <2>3, <2>5 DEF Steps
  <2> QED
    BY <2>6
<1>10. F(cut)
  <2> HIDE DEF F
  <2> QED
    BY <1>9 DEF cut
<1>11. cut[0] = first /\ \A i \in 1 .. m : cut[i] = CutBeside(c.runs, i, cut[i - 1])
  <2> DEFINE G == cut = [i \in 0 .. m |-> IF i = 0 THEN first ELSE CutBeside(c.runs, i, cut[i - 1])]
  <2>1. G
    BY <1>10
  <2>2. cut[0] = first
    BY <1>1, <2>1
  <2>3. \A i \in 1 .. m : cut[i] = CutBeside(c.runs, i, cut[i - 1])
    BY <1>1, <2>1
  <2> QED
    BY <2>2, <2>3
<1> HIDE DEF F
<1>12. \A i \in 1 .. m : cut[i - 1] \in S[i - 1] => cut[i] \in S[i]
  BY <1>3, <1>7, <1>8, <1>11
<1>13. cut[0] \in S[0]
  BY <1>1, <1>3, <1>6, <1>11
<1>14. \A i \in 0 .. m : cut[i] \in S[i]
  BY <1>1, <1>12, <1>13, Stays
<1>15. cut[m] \in Cuts
  BY <1>1, <1>3, <1>14
<1> QED
  BY <1>4, <1>5, <1>15 DEF Cuts

(* What the loader holds: its pieces, and the runs of the one being filled,
   which always cover the text of it. *)
LoaderHolds(st) ==
    /\ st \in [pieces : Seq(Row), c : Row, item : Nat, failed : BOOLEAN]
    /\ PieceHolds(st.c) /\ Total(st.c.runs) = Len(st.c.text)
    /\ st.item <= Len(st.c.runs)
    /\ \A i \in 1 .. Len(st.pieces) : PieceHolds(st.pieces[i])
    /\ st.c.serial = Len(st.pieces) + 1 /\ st.c.serial <= MaxRows
    /\ st.c.serial = 1 \/ st.c.serial <= MaxPieces

LEMMA GivenUpHolds ==
    ASSUME NEW st, LoaderHolds(st)
    PROVE  LoaderHolds(GiveUp(st)) /\ GiveUp(st).failed
<1> DEFINE given == GiveUp(st)
<1>1. /\ given \in [pieces : Seq(Row), c : Row, item : Nat, failed : BOOLEAN]
      /\ given.pieces = st.pieces /\ given.c = st.c /\ given.item = st.item /\ given.failed = TRUE
  BY DEF LoaderHolds, GiveUp
<1> HIDE DEF given
<1> QED
  BY <1>1 DEF LoaderHolds, given

LEMMA FreshHolds ==
    ASSUME NEW serial \in Nat, NEW cont \in BOOLEAN
    PROVE  RowHolds(NewRow(serial, cont))
<1> DEFINE b == NewRow(serial, cont)
<1>1. /\ <<>> \in Seq(STRING) /\ <<>> \in Seq(TextRun) /\ <<>> \in Seq(Nat) /\ <<>> \in Seq(Styles)
      /\ Len(<<>>) = 0
  BY EmptySeq
<1>2. b.text = <<>> /\ b.runs = <<>> /\ b.emoji = <<>> /\ b.face = <<>>
  BY DEF NewRow
<1>3. b \in Row
  BY <1>1 DEF NewRow, Row
<1>4. 0 <= MaxText /\ 0 <= MaxRuns /\ 0 <= MaxEmoji
  BY RunsAssumption
<1> HIDE DEF b
<1>5. PieceHolds(b)
  BY <1>1, <1>2, <1>3, <1>4 DEF PieceHolds
<1>6. RowHolds(b)
  BY <1>2, <1>5 DEF RowHolds
<1> QED
  BY <1>6 DEF b

(* A fresh row, filled. *)
Filled(serial, cont, text, runs, emoji) ==
    [NewRow(serial, cont) EXCEPT !.text = text, !.runs = runs, !.emoji = emoji]

LEMMA FilledFields ==
    ASSUME NEW serial \in Nat, NEW cont \in BOOLEAN, NEW text \in Seq(STRING), NEW runs \in Seq(TextRun),
           NEW emoji \in Seq(Nat)
    PROVE  LET b == Filled(serial, cont, text, runs, emoji)
           IN  /\ b \in Row /\ b.text = text /\ b.runs = runs /\ b.emoji = emoji
               /\ b.serial = serial /\ b.cont = cont
<1>1. <<>> \in Seq(Styles)
  BY EmptySeq
<1> QED
  BY <1>1 DEF Filled, NewRow, Row

LEMMA FilledHolds ==
    ASSUME NEW serial \in Nat, NEW cont \in BOOLEAN, NEW text \in Seq(STRING), NEW runs \in Seq(TextRun),
           NEW emoji \in Seq(Nat), Len(text) <= MaxText, Len(runs) <= MaxRuns, Len(emoji) <= MaxEmoji,
           runs # <<>> => Total(runs) = Len(text)
    PROVE  PieceHolds(Filled(serial, cont, text, runs, emoji))
<1> DEFINE b == Filled(serial, cont, text, runs, emoji)
<1>1. b \in Row /\ b.text = text /\ b.runs = runs /\ b.emoji = emoji
  BY FilledFields
<1> HIDE DEF b
<1>2. PieceHolds(b)
  BY <1>1 DEF PieceHolds
<1> QED
  BY <1>2 DEF b

(* The parts of a text before and after a place. *)
LEMMA PartsAt ==
    ASSUME NEW S, NEW seq \in Seq(S), NEW cut \in 0 .. Len(seq)
    PROVE  /\ SubSeq(seq, 1, cut) \in Seq(S) /\ Len(SubSeq(seq, 1, cut)) = cut
           /\ SubSeq(seq, cut + 1, Len(seq)) \in Seq(S)
           /\ Len(SubSeq(seq, cut + 1, Len(seq))) = Len(seq) - cut
<1> DEFINE n == Len(seq)
<1>1. n \in Nat
  BY LenProperties
<1>2. 1 \in 1 .. Len(seq) + 1 /\ cut \in 1 - 1 .. Len(seq)
  BY <1>1
<1>3. SubSeq(seq, 1, cut) \in Seq(S) /\ Len(SubSeq(seq, 1, cut)) = cut - 1 + 1
  BY <1>2, Stretch
<1> DEFINE a == cut + 1
<1>4. a \in 1 .. Len(seq) + 1 /\ n \in a - 1 .. Len(seq) /\ n - a + 1 = n - cut
  BY <1>1
<1> HIDE DEF a, n
<1>5. SubSeq(seq, a, n) \in Seq(S) /\ Len(SubSeq(seq, a, n)) = n - a + 1
  BY <1>4, Stretch
<1>6. SubSeq(seq, a, n) \in Seq(S) /\ Len(SubSeq(seq, a, n)) = n - cut
  BY <1>4, <1>5
<1>7. cut - 1 + 1 = cut
  BY <1>1
<1> QED
  BY <1>3, <1>6, <1>7 DEF a, n

(* SplitPiece keeps what the loader holds, and what is begun is a piece
   further on; with no space asked for, nothing of the runs is left for it. *)
LEMMA SplitPieceKeeps ==
    ASSUME NEW block, NEW st, LoaderHolds(st), NEW atSpace \in BOOLEAN
    PROVE  LET split == SplitPiece(block, st, atSpace)
           IN  /\ LoaderHolds(split)
               /\ split.failed \/ split.c.serial = st.c.serial + 1
               /\ ~atSpace => split.failed \/ split.c.runs = <<>>
<1> DEFINE c == st.c
           cut == CutAt(c, atSpace)
           runs == SplitRunsAt(c.runs, cut)
           before == SubSeq(c.text, 1, cut)
           after == SubSeq(c.text, cut + 1, Len(c.text))
           keep == Min({Sentinels(before), Len(c.emoji)})
           these == SubSeq(c.emoji, 1, keep)
           those == SubSeq(c.emoji, keep + 1, Len(c.emoji))
           gone == Len(c.runs) - Len(runs[2])
           done == [c EXCEPT !.text = before, !.runs = runs[1], !.emoji = these]
           next == [NewRow(c.serial + 1, TRUE) EXCEPT !.text = after, !.runs = runs[2], !.emoji = those]
           item == Max({0, st.item - gone})
           split == SplitPiece(block, st, atSpace)
           cannot == ~block.splittable \/ c.serial >= MaxPieces \/ c.serial >= MaxRows
<1>1. split = IF cannot THEN GiveUp(st)
              ELSE [st EXCEPT !.pieces = Append(st.pieces, done), !.c = next, !.item = item]
  BY DEF SplitPiece
<1>2. /\ PieceHolds(c) /\ c \in Row /\ Total(c.runs) = Len(c.text)
      /\ st.item \in Nat /\ st.item <= Len(c.runs) /\ st.pieces \in Seq(Row) /\ st.failed \in BOOLEAN
      /\ st \in [pieces : Seq(Row), c : Row, item : Nat, failed : BOOLEAN]
      /\ c.serial = Len(st.pieces) + 1 /\ c.serial <= MaxRows
      /\ \A i \in 1 .. Len(st.pieces) : PieceHolds(st.pieces[i])
  BY DEF LoaderHolds
<1>3. /\ c.text \in Seq(STRING) /\ c.runs \in Seq(TextRun) /\ c.emoji \in Seq(Nat) /\ c.serial \in Nat
      /\ Len(c.text) \in Nat /\ Len(c.emoji) \in Nat /\ Len(c.runs) \in Nat
      /\ Len(c.text) <= MaxText /\ Len(c.emoji) <= MaxEmoji /\ Len(c.runs) <= MaxRuns
      /\ MaxText \in Nat /\ MaxEmoji \in Nat /\ MaxRuns \in Nat /\ MaxRows \in Nat /\ MaxPieces \in Nat
  BY <1>2, PieceFields, RunsAssumption, EditingAssumption DEF PieceHolds
<1> HIDE DEF split, c, cannot
<1>4. cut \in 0 .. Len(c.text) /\ (~atSpace => cut = Len(c.text))
  BY <1>2, <1>3, CutTyped
<1> HIDE DEF cut
<1>5. PICK left, right \in Seq(TextRun) :
        /\ runs = <<left, right>>
        /\ Total(left) = cut /\ Total(right) = Total(c.runs) - cut
        /\ Len(left) <= Len(c.runs) /\ Len(right) <= Len(c.runs)
        /\ cut = Total(c.runs) => right = <<>>
  <2>1. cut \in 0 .. Total(c.runs)
    BY <1>2, <1>4
  <2> QED
    BY <1>3, <2>1, SplitParts, SMTT(20)
<1>6. runs[1] = left /\ runs[2] = right /\ Len(left) \in Nat /\ Len(right) \in Nat
  BY <1>5, LenProperties
<1> HIDE DEF runs
<1>7. /\ before \in Seq(STRING) /\ Len(before) = cut
      /\ after \in Seq(STRING) /\ Len(after) = Len(c.text) - cut
  BY <1>3, <1>4, PartsAt
<1> HIDE DEF before, after
<1>8. keep \in 0 .. Len(c.emoji)
  BY <1>3, <1>7, SentinelsIs, MinBelow
<1> HIDE DEF keep
<1>9. /\ these \in Seq(Nat) /\ Len(these) = keep
      /\ those \in Seq(Nat) /\ Len(those) = Len(c.emoji) - keep
  BY <1>3, <1>8, PartsAt
<1> HIDE DEF these, those
<1>10. PieceHolds(done)
  <2>1. /\ done \in Row /\ done.text = before /\ done.runs = left /\ done.emoji = these
    BY <1>2, <1>5, <1>6, <1>7, <1>9 DEF Row
  <2> HIDE DEF done
  <2>2. Len(before) <= MaxText
    BY <1>3, <1>4, <1>7
  <2>3. Len(left) <= MaxRuns
    BY <1>3, <1>5, <1>6
  <2>4. Len(these) <= MaxEmoji
    BY <1>3, <1>8, <1>9
  <2> QED
    BY <1>5, <1>7, <2>1, <2>2, <2>3, <2>4 DEF PieceHolds
<1>11. /\ PieceHolds(next) /\ next.text = after /\ next.runs = right /\ next.serial = c.serial + 1
       /\ Total(right) = Len(after)
  <2>1. Total(right) = Len(after)
    BY <1>2, <1>5, <1>7
  <2>2. Len(after) <= MaxText
    BY <1>3, <1>4, <1>7
  <2>3. Len(right) <= MaxRuns
    BY <1>3, <1>5, <1>6
  <2>4. Len(those) <= MaxEmoji
    BY <1>3, <1>8, <1>9
  <2> DEFINE serial == c.serial + 1
             fresh == Filled(serial, TRUE, after, right, those)
  <2>5. serial \in Nat /\ TRUE \in BOOLEAN
    BY <1>3
  <2>6. next = fresh
    BY <1>6 DEF Filled
  <2> HIDE DEF serial, next
  <2>7. PieceHolds(fresh) /\ fresh.text = after /\ fresh.runs = right /\ fresh.serial = serial
    <3>1. /\ right \in Seq(TextRun) /\ after \in Seq(STRING) /\ those \in Seq(Nat)
          /\ right # <<>> => Total(right) = Len(after)
      BY <1>5, <1>7, <1>9, <2>1
    <3>2. PieceHolds(fresh)
      BY <2>2, <2>3, <2>4, <2>5, <3>1, FilledHolds
    <3>3. fresh.text = after /\ fresh.runs = right /\ fresh.serial = serial
      BY DEF Filled, NewRow
    <3> QED
      BY <3>2, <3>3
  <2> QED
    BY <2>1, <2>6, <2>7 DEF serial
<1> HIDE DEF done, next
<1>12. item \in 0 .. Len(right)
  <2> DEFINE x == st.item - gone
  <2>1. x \in Int /\ x <= Len(right)
    <3> DEFINE k == Len(c.runs)
               l == Len(right)
    <3>1. x = st.item - (k - l)
      BY <1>6
    <3>2. k \in Nat /\ l \in Nat /\ st.item \in Nat /\ st.item <= k
      BY <1>2, <1>3, <1>6
    <3> HIDE DEF k, l, x
    <3>3. x \in Int /\ x <= l
      BY <3>1, <3>2
    <3> QED
      BY <3>3 DEF l
  <2> HIDE DEF x
  <2>2. Max({0, x}) = IF 0 >= x THEN 0 ELSE x
    BY <2>1, MaxPair
  <2>3. Max({0, x}) \in 0 .. Len(right)
    BY <1>6, <2>1, <2>2
  <2> QED
    BY <2>3 DEF x
<1> HIDE DEF item
<1>13. CASE cannot
  <2>1. split = GiveUp(st)
    BY <1>1, <1>13
  <2> QED
    BY <2>1, GivenUpHolds DEF split
<1>14. CASE ~cannot
  <2> DEFINE more == Append(st.pieces, done)
             k == Len(st.pieces)
  <2>1. split = [st EXCEPT !.pieces = more, !.c = next, !.item = item]
    BY <1>1, <1>14
  <2>2. k \in Nat /\ done \in Row
    BY <1>2, <1>10, LenProperties DEF PieceHolds
  <2>3. /\ more \in Seq(Row) /\ Len(more) = k + 1 /\ more[k + 1] = done
        /\ \A i \in 1 .. k : more[i] = st.pieces[i]
    BY <1>2, <2>2, AppendProperties
  <2> HIDE DEF more
  <2>4. \A i \in 1 .. Len(more) : PieceHolds(more[i])
    BY <1>2, <1>10, <2>2, <2>3
  <2>5. /\ split \in [pieces : Seq(Row), c : Row, item : Nat, failed : BOOLEAN]
        /\ split.pieces = more /\ split.c = next /\ split.item = item /\ split.failed = st.failed
    <3>1. next \in Row /\ item \in Nat
      BY <1>11, <1>12 DEF PieceHolds
    <3> QED
      BY <1>2, <2>1, <2>3, <3>1
  <2>6. next.serial = Len(more) + 1
    BY <1>2, <1>11, <2>2, <2>3
  <2>7. next.serial <= MaxRows /\ next.serial <= MaxPieces
    BY <1>3, <1>11, <1>14 DEF cannot
  <2>8. item <= Len(right)
    BY <1>6, <1>12
  <2>9. LoaderHolds(split)
    BY <1>11, <2>4, <2>5, <2>6, <2>7, <2>8 DEF LoaderHolds
  <2>10. split.c.serial = st.c.serial + 1
    BY <1>11, <2>5 DEF c
  <2>11. ~atSpace => split.c.runs = <<>>
    BY <1>2, <1>4, <1>5, <1>11, <2>5
  <2> QED
    BY <2>9, <2>10, <2>11 DEF split
<1> QED
  BY <1>13, <1>14

(* The piece being filled changes, and nothing else but the item's run. *)
OnPiece(st, c, item) == [st EXCEPT !.c = c, !.item = item]

LEMMA PieceReplaced ==
    ASSUME NEW st, LoaderHolds(st), NEW c, PieceHolds(c), Total(c.runs) = Len(c.text),
           c.serial = st.c.serial, NEW item \in 0 .. Len(c.runs)
    PROVE  LET new == OnPiece(st, c, item)
           IN  LoaderHolds(new) /\ new.c = c /\ new.item = item /\ new.failed = st.failed
<1> DEFINE new == OnPiece(st, c, item)
<1>1. c \in Row /\ item \in Nat /\ item <= Len(c.runs)
  <2>1. Len(c.runs) \in Nat
    BY PieceFields
  <2> QED
    BY <2>1 DEF PieceHolds
<1>2. /\ new \in [pieces : Seq(Row), c : Row, item : Nat, failed : BOOLEAN]
      /\ new.pieces = st.pieces /\ new.c = c /\ new.item = item /\ new.failed = st.failed
  BY <1>1 DEF LoaderHolds, OnPiece
<1> HIDE DEF new
<1>3. LoaderHolds(new)
  BY <1>1, <1>2 DEF LoaderHolds
<1> QED
  BY <1>2, <1>3 DEF new

LEMMA ItemRunTyped ==
    ASSUME NEW it \in Item
    PROVE  LET run == Run(0, it.style, it.link, IsTextUrl(it))
           IN  run \in TextRun /\ run.len = 0
<1>1. it.style \in Styles /\ it.link \in Links
  BY DEF Item
<1>2. IsTextUrl(it) \in BOOLEAN
  BY DEF IsTextUrl
<1> DEFINE url == IsTextUrl(it)
<1> HIDE DEF url
<1>3. Run(0, it.style, it.link, url) \in TextRun /\ Run(0, it.style, it.link, url).len = 0
  BY <1>1, <1>2, RunTyped DEF url
<1> QED
  BY <1>3 DEF url

(* BeginRun: the item has a run in the piece, or the text is given up. *)
LEMMA BeginRunKeeps ==
    ASSUME NEW block, NEW st, LoaderHolds(st), NEW it \in Item, NEW left
    PROVE  LET begun == BeginRun(block, st, it, left)
           IN  /\ LoaderHolds(begun)
               /\ begun.failed \/ begun.item > 0
               /\ begun.failed \/ begun.c.serial >= st.c.serial
<1> DEFINE noRun == st.item = 0 /\ Len(st.c.runs) >= MaxRuns
           noRoom == it.link.kind = "page" /\ st.c.text # <<>> /\ left > Fill(block) - Len(st.c.text)
           st1 == IF noRun \/ noRoom THEN SplitPiece(block, st, FALSE) ELSE st
           run == Run(0, it.style, it.link, IsTextUrl(it))
           more == Append(st1.c.runs, run)
           begun == BeginRun(block, st, it, left)
<1>1. begun = IF st1.failed \/ st1.item > 0 THEN st1
              ELSE [st1 EXCEPT !.c.runs = more, !.item = Len(st1.c.runs) + 1]
  BY DEF BeginRun, Begun
<1>2. /\ LoaderHolds(st1)
      /\ st1.failed \/ st1.c.serial >= st.c.serial
      /\ st1.failed \/ st1.item > 0 \/ Len(st1.c.runs) < MaxRuns
  <2>1. PieceHolds(st.c) /\ st.item \in Nat
    BY DEF LoaderHolds
  <2>2. st.c.serial \in Nat /\ Len(st.c.runs) \in Nat /\ MaxRuns \in Nat \ {0}
    BY <2>1, PieceFields, RunsAssumption
  <2>3. CASE ~(noRun \/ noRoom)
    <3>1. st1 = st /\ ~(st.item = 0 /\ Len(st.c.runs) >= MaxRuns)
      BY <2>3
    <3> HIDE DEF st1
    <3> QED
      BY <2>1, <2>2, <3>1
  <2>4. CASE noRun \/ noRoom
    <3> DEFINE split == SplitPiece(block, st, FALSE)
    <3>1. st1 = split
      BY <2>4
    <3>2. /\ LoaderHolds(split)
          /\ split.failed \/ split.c.serial = st.c.serial + 1
          /\ split.failed \/ split.c.runs = <<>>
      BY SplitPieceKeeps
    <3> HIDE DEF split, st1
    <3>3. split.c.runs = <<>> => Len(split.c.runs) < MaxRuns
      BY <2>2, EmptySeq
    <3>4. split.c.serial = st.c.serial + 1 => split.c.serial >= st.c.serial
      BY <2>2
    <3> QED
      BY <3>1, <3>2, <3>3, <3>4
  <2> QED
    BY <2>3, <2>4
<1> HIDE DEF st1, begun
<1>3. CASE st1.failed \/ st1.item > 0
  BY <1>1, <1>2, <1>3 DEF begun
<1>4. CASE ~(st1.failed \/ st1.item > 0)
  <2> DEFINE c == st1.c
             k == Len(c.runs)
             d == [c EXCEPT !.runs = more]
             item == k + 1
  <2>1. /\ PieceHolds(c) /\ c \in Row /\ Total(c.runs) = Len(c.text)
        /\ st1 \in [pieces : Seq(Row), c : Row, item : Nat, failed : BOOLEAN]
    BY <1>2 DEF LoaderHolds, PieceHolds
  <2>2. c.runs \in Seq(TextRun) /\ k \in Nat /\ Len(c.text) \in Nat /\ c.serial \in Nat
    BY <2>1, PieceFields
  <2>3. run \in TextRun /\ run.len = 0
    BY ItemRunTyped
  <2>4. begun = [st1 EXCEPT !.c = d, !.item = item]
    <3>1. begun = [st1 EXCEPT !.c.runs = more, !.item = Len(st1.c.runs) + 1]
      BY <1>1, <1>4
    <3> QED
      BY <2>1, <3>1
  <2> HIDE DEF run
  <2>5. more \in Seq(TextRun) /\ Len(more) = k + 1 /\ Total(more) = Total(c.runs) + run.len
    BY <2>2, <2>3, OneMore, TextRunLengths
  <2> HIDE DEF more
  <2>6. /\ d \in Row /\ d.runs = more /\ d.text = c.text /\ d.emoji = c.emoji /\ d.serial = c.serial
    BY <2>1, <2>5 DEF Row
  <2>7. Total(more) = Len(c.text)
    BY <2>1, <2>2, <2>3, <2>5
  <2>8. Len(more) <= MaxRuns
    <3>1. k < MaxRuns /\ MaxRuns \in Nat
      BY <1>2, <1>4, RunsAssumption
    <3> HIDE DEF k
    <3> QED
      BY <2>2, <2>5, <3>1
  <2>9. item \in 0 .. Len(more) /\ item > 0
    BY <2>2, <2>5
  <2> HIDE DEF d, item
  <2>10. PieceHolds(d) /\ Total(d.runs) = Len(d.text)
    BY <2>1, <2>6, <2>7, <2>8 DEF PieceHolds
  <2> DEFINE new == OnPiece(st1, d, item)
  <2>11. LoaderHolds(new) /\ new.c = d /\ new.item = item /\ new.failed = st1.failed
    <3>1. item \in 0 .. Len(d.runs) /\ d.serial = st1.c.serial /\ LoaderHolds(st1)
      BY <1>2, <2>6, <2>9
    <3> QED
      BY <2>10, <3>1, PieceReplaced
  <2>12. begun = new
    BY <2>4 DEF OnPiece
  <2> HIDE DEF new
  <2> QED
    BY <1>2, <1>4, <2>6, <2>9, <2>11, <2>12 DEF begun
<1> QED
  BY <1>3, <1>4

(* NextPiece: the item's run is in a piece further on. *)
LEMMA NextPieceKeeps ==
    ASSUME NEW block, NEW st, LoaderHolds(st), NEW it \in Item, NEW k
    PROVE  LET next == NextPiece(block, st, it, k)
           IN  /\ LoaderHolds(next)
               /\ next.failed \/ next.item > 0
               /\ next.failed \/ next.c.serial > st.c.serial
<1> DEFINE split == SplitPiece(block, st, TRUE)
           left == Len(it.text) - k + 1
           begun == BeginRun(block, split, it, left)
           next == NextPiece(block, st, it, k)
<1>1. next = IF st.c.text = <<>> THEN GiveUp(st) ELSE IF split.failed THEN split ELSE begun
  BY DEF NextPiece
<1>2. LoaderHolds(GiveUp(st)) /\ GiveUp(st).failed
  BY GivenUpHolds
<1>3. LoaderHolds(split) /\ (split.failed \/ split.c.serial = st.c.serial + 1)
  BY SplitPieceKeeps
<1> HIDE DEF split, left
<1>4. /\ LoaderHolds(begun)
      /\ begun.failed \/ begun.item > 0
      /\ begun.failed \/ begun.c.serial >= split.c.serial
  BY <1>3, BeginRunKeeps
<1>5. st.c.serial \in Nat /\ begun.c.serial \in Nat
  <2>1. PieceHolds(st.c) /\ PieceHolds(begun.c)
    BY <1>4 DEF LoaderHolds
  <2> HIDE DEF begun
  <2> QED
    BY <2>1, PieceFields
<1> HIDE DEF begun, next
<1>6. ~split.failed => begun.failed \/ begun.c.serial > st.c.serial
  BY <1>3, <1>4, <1>5
<1> QED
  BY <1>1, <1>2, <1>3, <1>4, <1>6 DEF next

(* Where the item has a run, or the text was given up. *)
Taking == {st \in [pieces : Seq(Row), c : Row, item : Nat, failed : BOOLEAN] :
              LoaderHolds(st) /\ (st.failed \/ st.item > 0)}

(* MakeRoom ends where the next character has room: each new piece is one of
   MaxPieces, so that they cannot all be too full. *)
LEMMA MakeRoomKeeps ==
    ASSUME NEW block, NEW st \in Taking, NEW it \in Item, NEW k \in 1 .. Len(it.text)
    PROVE  LET made == MakeRoom(block, st, it, k)
           IN  made \in Taking /\ (made.failed \/ ~Full(block, made, it.text[k]))
<1> DEFINE m == MaxPieces + 1
           ch == it.text[k]
           fits(a) == a.failed \/ ~Full(block, a, ch)
           Room(n) == {a \in Taking : fits(a) \/ a.c.serial > n}
           S == [n \in 0 .. m |-> Room(n)]
           next(a) == IF a.failed \/ ~Full(block, a, ch) THEN a ELSE NextPiece(block, a, it, k)
           step == [n \in 1 .. m |-> [a \in Taking |-> next(a)]]
           F(f) == f = [n \in 0 .. m |->
                       IF n = 0 THEN st
                       ELSE IF f[n - 1].failed \/ ~Full(block, f[n - 1], ch) THEN f[n - 1]
                       ELSE NextPiece(block, f[n - 1], it, k)]
           room == CHOOSE f : F(f)
<1>1. m \in Nat /\ m = MaxPieces + 1 /\ MaxPieces \in Nat
  BY EditingAssumption
<1>2. \A n \in 1 .. m : \A a \in Taking : step[n][a] = next(a)
  OBVIOUS
<1>3. \A n \in 0 .. m : S[n] = Room(n)
  OBVIOUS
<1>4. MakeRoom(block, st, it, k) = room[m]
  BY DEF MakeRoom
<1>5. \A a \in Taking : /\ LoaderHolds(a) /\ a.c.serial \in Nat /\ a.c.serial > 0
                        /\ a.c.serial = 1 \/ a.c.serial <= MaxPieces
  <2> TAKE a \in Taking
  <2>1. LoaderHolds(a)
    BY DEF Taking
  <2>2. a.pieces \in Seq(Row) /\ PieceHolds(a.c)
    BY <2>1 DEF LoaderHolds
  <2>3. Len(a.pieces) \in Nat /\ a.c.serial = Len(a.pieces) + 1
    BY <2>1, <2>2, LenProperties DEF LoaderHolds
  <2> QED
    BY <2>1, <2>3 DEF LoaderHolds
<1>6. ASSUME NEW n \in 1 .. m, NEW a \in Room(n - 1)
      PROVE  a \in Taking /\ next(a) \in Room(n)
  <2>1. a \in Taking /\ (fits(a) \/ a.c.serial > n - 1)
    OBVIOUS
  <2>2. CASE fits(a)
    <3>1. next(a) = a
      BY <2>2
    <3> HIDE DEF next, fits
    <3> QED
      BY <2>1, <2>2, <3>1
  <2>3. CASE ~fits(a)
    <3> DEFINE new == NextPiece(block, a, it, k)
    <3>1. next(a) = new
      BY <2>3
    <3>2. LoaderHolds(new) /\ (new.failed \/ new.item > 0) /\ (new.failed \/ new.c.serial > a.c.serial)
      BY <1>5, <2>1, NextPieceKeeps
    <3> HIDE DEF new, next
    <3>3. new \in Taking
      BY <3>2 DEF Taking, LoaderHolds
    <3>4. new.failed \/ new.c.serial > n
      <4>1. a.c.serial \in Nat /\ new.c.serial \in Nat /\ a.c.serial > n - 1
        BY <1>5, <2>1, <2>3, <3>3
      <4> QED
        BY <3>2, <4>1
    <3> QED
      BY <2>1, <3>1, <3>3, <3>4
  <2> QED
    BY <2>2, <2>3
<1>7. st \in Room(0)
  BY <1>5
<1> HIDE DEF S, step, room, next
<1>8. \A n \in 1 .. m : n - 1 \in 0 .. m /\ n \in 0 .. m
  BY <1>1
<1> HIDE DEF m, Room
<1>9. \E f : F(f)
  <2>1. \A n \in 1 .. m : \A a \in S[n - 1] : step[n][a] \in S[n]
    BY <1>2, <1>3, <1>6, <1>8
  <2>2. st \in S[0]
    BY <1>1, <1>3, <1>7
  <2>3. PICK f : Steps(f, m, st, step) /\ \A n \in 0 .. m : f[n] \in S[n]
    BY <1>1, <2>1, <2>2, StepsStay
  <2>4. \A n \in 1 .. m : step[n][f[n - 1]] = next(f[n - 1])
    BY <1>2, <1>3, <1>6, <1>8, <2>3
  <2>5. f = [n \in 0 .. m |-> IF n = 0 THEN st ELSE next(f[n - 1])]
    <3>1. \A n \in 0 .. m : (IF n = 0 THEN st ELSE step[n][f[n - 1]])
                            = (IF n = 0 THEN st ELSE next(f[n - 1]))
      BY <1>1, <2>4
    <3> QED
      BY <2>3, <3>1 DEF Steps
  <2>6. F(f)
    BY <2>5 DEF next
  <2> QED
    BY <2>6
<1>10. F(room)
  <2> HIDE DEF F
  <2> QED
    BY <1>9 DEF room
<1>11. room = [n \in 0 .. m |-> IF n = 0 THEN st ELSE next(room[n - 1])]
  BY <1>10 DEF next
<1> HIDE DEF F
<1>12. room[0] = st
  BY <1>1, <1>11
<1>13. \A n \in 1 .. m : room[n] = next(room[n - 1])
  BY <1>1, <1>11
<1>14. \A n \in 1 .. m : room[n - 1] \in S[n - 1] => room[n] \in S[n]
  BY <1>3, <1>6, <1>8, <1>13
<1>15. room[0] \in S[0]
  BY <1>1, <1>3, <1>7, <1>12
<1>16. \A n \in 0 .. m : room[n] \in S[n]
  BY <1>1, <1>14, <1>15, Stays
<1>17. room[m] \in Taking /\ (fits(room[m]) \/ room[m].c.serial > m)
  <2>1. room[m] \in Room(m)
    BY <1>1, <1>3, <1>16
  <2> QED
    BY <2>1 DEF Room
<1> DEFINE made == room[m]
           serial == made.c.serial
<1>18. made \in Taking /\ (fits(made) \/ serial > m)
  BY <1>17
<1> HIDE DEF made, fits
<1>19. serial \in Nat /\ (serial = 1 \/ serial <= MaxPieces)
  BY <1>5, <1>18
<1> HIDE DEF serial
<1>20. ~(serial > m)
  BY <1>1, <1>19
<1> QED
  BY <1>4, <1>18, <1>20 DEF made, fits

(* TakeChar: the character goes to the piece and to the item's run. *)
LEMMA TakeCharKeeps ==
    ASSUME NEW block, NEW st \in Taking, NEW it \in Item, NEW k \in 1 .. Len(it.text)
    PROVE  TakeChar(block, st, it, k) \in Taking
<1> DEFINE ch == it.text[k]
           room == MakeRoom(block, st, it, k)
           c == room.c
           i == room.item
           text == Append(c.text, ch.ch)
           run == Longer(c.runs[i], 1)
           runs == [c.runs EXCEPT ![i] = run]
           emoji == IF ch.ch = Emoji THEN Append(c.emoji, ch.emoji) ELSE c.emoji
           d == [c EXCEPT !.text = text, !.runs = runs, !.emoji = emoji]
           took == TakeChar(block, st, it, k)
<1>1. took = IF room.failed THEN room
             ELSE [room EXCEPT !.c.text = Append(@, ch.ch), !.c.runs[room.item] = Longer(@, 1),
                               !.c.emoji = IF ch.ch = Emoji THEN Append(@, ch.emoji) ELSE @]
  BY DEF TakeChar, PutChar
<1>2. room \in Taking /\ (room.failed \/ ~Full(block, room, ch))
  BY MakeRoomKeeps
<1>3. ch.ch \in STRING /\ ch.emoji \in Nat
  <2>1. it.text \in Seq([ch : STRING, emoji : Nat])
    BY DEF Item
  <2>2. ch \in [ch : STRING, emoji : Nat]
    BY <2>1, ElementOfSeq
  <2> QED
    BY <2>2
<1> HIDE DEF took, room, ch
<1>4. CASE room.failed
  BY <1>1, <1>2, <1>4 DEF took
<1>5. CASE ~room.failed
  <2>1. /\ LoaderHolds(room) /\ PieceHolds(c) /\ c \in Row /\ Total(c.runs) = Len(c.text)
        /\ i \in Nat /\ i > 0 /\ i <= Len(c.runs)
        /\ room \in [pieces : Seq(Row), c : Row, item : Nat, failed : BOOLEAN]
    BY <1>2, <1>5 DEF Taking, LoaderHolds, PieceHolds
  <2>2. /\ c.text \in Seq(STRING) /\ c.runs \in Seq(TextRun) /\ c.emoji \in Seq(Nat)
        /\ Len(c.text) \in Nat /\ Len(c.runs) \in Nat /\ Len(c.emoji) \in Nat
        /\ Len(c.runs) <= MaxRuns /\ Len(c.emoji) <= MaxEmoji
        /\ DOMAIN c.runs = 1 .. Len(c.runs)
    BY <2>1, PieceFields DEF PieceHolds
  <2>3. i \in 1 .. Len(c.runs)
    BY <2>1, <2>2
  <2>4. took = OnPiece(room, d, i)
    <3>1. took = [room EXCEPT !.c.text = Append(@, ch.ch), !.c.runs[room.item] = Longer(@, 1),
                              !.c.emoji = IF ch.ch = Emoji THEN Append(@, ch.emoji) ELSE @]
      BY <1>1, <1>5
    <3>2. took = [room EXCEPT !.c = d]
      BY <2>1, <3>1 DEF Row
    <3> QED
      BY <2>1, <3>2 DEF OnPiece
  <2>5. Len(c.text) < MaxText /\ (ch.ch = Emoji => Len(c.emoji) < MaxEmoji)
    <3>1. Len(c.text) < Fill(block) /\ (ch.ch = Emoji => Len(c.emoji) < MaxEmoji)
      <4>1. Fill(block) \in Int /\ MaxEmoji \in Int
        BY RunsAssumption, EditingAssumption DEF Fill
      <4> QED
        BY <1>2, <1>5, <2>2, <4>1 DEF Full
    <3>2. Fill(block) <= MaxText /\ Fill(block) \in Int /\ MaxText \in Int
      BY RunsAssumption, EditingAssumption DEF Fill
    <3> QED
      BY <2>2, <3>1, <3>2
  <2>6. text \in Seq(STRING) /\ Len(text) = Len(c.text) + 1
    BY <1>3, <2>2, AppendProperties
  <2>7. emoji \in Seq(Nat) /\ Len(emoji) <= MaxEmoji
    <3>1. CASE ch.ch = Emoji
      <4>1. emoji = Append(c.emoji, ch.emoji)
        BY <3>1
      <4>2. Append(c.emoji, ch.emoji) \in Seq(Nat) /\ Len(Append(c.emoji, ch.emoji)) = Len(c.emoji) + 1
        BY <1>3, <2>2, AppendProperties
      <4>3. Len(c.emoji) + 1 <= MaxEmoji
        BY <2>2, <2>5, <3>1, RunsAssumption
      <4> QED
        BY <4>1, <4>2, <4>3
    <3>2. CASE ch.ch # Emoji
      BY <2>2, <3>2
    <3> QED
      BY <3>1, <3>2
  <2>8. c.runs[i] \in TextRun
    BY <2>2, <2>3, ElementOfSeq
  <2>9. run \in TextRun /\ run.len = c.runs[i].len + 1
    BY <2>8, RunChanged
  <2> HIDE DEF run
  <2>10. /\ runs \in Seq(TextRun) /\ Len(runs) = Len(c.runs)
         /\ \A j \in 1 .. Len(c.runs) : runs[j] = IF j = i THEN run ELSE c.runs[j]
    BY <2>2, <2>3, <2>9, ExceptSeq
  <2> HIDE DEF text, runs, emoji, i, c
  <2>11. Total(runs) = Total(c.runs) + 1
    <3> DEFINE old == c.runs
    <3>1. /\ old \in Seq(TextRun) /\ runs \in Seq(TextRun) /\ Len(runs) = Len(old) /\ i \in 1 .. Len(old)
          /\ runs[i].len = old[i].len + 1
          /\ \A j \in 1 .. Len(old) : j # i => runs[j].len = old[j].len
      BY <2>2, <2>3, <2>9, <2>10
    <3> HIDE DEF old
    <3>2. Total(runs) = Total(old) + 1
      BY <3>1, OneLonger, TextRunLengths
    <3> QED
      BY <3>2 DEF old
  <2>12. /\ d \in Row /\ d.text = text /\ d.runs = runs /\ d.emoji = emoji /\ d.serial = c.serial
    BY <2>1, <2>6, <2>7, <2>10 DEF Row
  <2> HIDE DEF d
  <2>13. PieceHolds(d) /\ Total(d.runs) = Len(d.text)
    <3>1. Len(text) <= MaxText
      BY <2>2, <2>5, <2>6, RunsAssumption
    <3>2. Total(runs) = Len(text)
      BY <2>1, <2>6, <2>11
    <3> QED
      BY <2>2, <2>7, <2>10, <2>12, <3>1, <3>2 DEF PieceHolds
  <2> DEFINE new == OnPiece(room, d, i)
  <2>14. LoaderHolds(new) /\ new.item = i
    <3>1. i \in 0 .. Len(d.runs) /\ d.serial = room.c.serial
      BY <2>3, <2>10, <2>12 DEF c
    <3> QED
      BY <2>1, <2>13, <3>1, PieceReplaced
  <2> HIDE DEF new
  <2>15. new \in Taking
    BY <2>1, <2>14 DEF Taking, LoaderHolds
  <2> QED
    BY <2>4, <2>15 DEF new, took
<1> QED
  BY <1>4, <1>5

Loading == {st \in [pieces : Seq(Row), c : Row, item : Nat, failed : BOOLEAN] : LoaderHolds(st)}

(* TakeItem: the item's characters one by one, unless the text was given up. *)
LEMMA TakeItemKeeps ==
    ASSUME NEW block, NEW st \in Loading, NEW it \in Item
    PROVE  TakeItem(block, st, it) \in Loading
<1> DEFINE m == Len(it.text)
           fresh == [st EXCEPT !.item = 0]
           begun == BeginRun(block, fresh, it, m)
           S == [k \in 0 .. m |-> Taking]
           step == [k \in 1 .. m |-> [a \in Taking |-> TakeChar(block, a, it, k)]]
           F(f) == f = [k \in 0 .. m |-> IF k = 0 THEN begun ELSE TakeChar(block, f[k - 1], it, k)]
           taken == CHOOSE f : F(f)
<1>1. m \in Nat /\ m = Len(it.text)
  <2>1. it.text \in Seq([ch : STRING, emoji : Nat])
    BY DEF Item
  <2> QED
    BY <2>1, LenProperties
<1>2. \A k \in 1 .. m : \A a \in Taking : step[k][a] = TakeChar(block, a, it, k)
  OBVIOUS
<1>3. \A k \in 0 .. m : S[k] = Taking
  OBVIOUS
<1>4. TakeItem(block, st, it) = IF st.failed THEN st ELSE taken[m]
  BY DEF TakeItem
<1>5. begun \in Taking
  <2>1. /\ fresh \in [pieces : Seq(Row), c : Row, item : Nat, failed : BOOLEAN]
        /\ fresh.pieces = st.pieces /\ fresh.c = st.c /\ fresh.item = 0 /\ fresh.failed = st.failed
        /\ LoaderHolds(st)
    BY DEF Loading
  <2>2. 0 <= Len(st.c.runs)
    <3>1. PieceHolds(st.c)
      BY <2>1 DEF LoaderHolds
    <3>2. Len(st.c.runs) \in Nat
      BY <3>1, PieceFields
    <3> QED
      BY <3>2
  <2> HIDE DEF fresh
  <2>3. LoaderHolds(fresh)
    BY <2>1, <2>2 DEF LoaderHolds
  <2>4. LoaderHolds(begun) /\ (begun.failed \/ begun.item > 0)
    BY <2>3, BeginRunKeeps
  <2> HIDE DEF begun
  <2> QED
    BY <2>4 DEF Taking, LoaderHolds
<1>6. ASSUME NEW k \in 1 .. m, NEW a \in Taking
      PROVE  TakeChar(block, a, it, k) \in Taking
  BY <1>1, TakeCharKeeps
<1> HIDE DEF m, S, step, taken, begun
<1>7. \A k \in 1 .. m : k - 1 \in 0 .. m /\ k \in 0 .. m
  BY <1>1
<1>8. \E f : F(f)
  <2>1. \A k \in 1 .. m : \A a \in S[k - 1] : step[k][a] \in S[k]
    BY <1>2, <1>3, <1>6, <1>7
  <2>2. begun \in S[0]
    BY <1>1, <1>3, <1>5
  <2>3. PICK f : Steps(f, m, begun, step) /\ \A k \in 0 .. m : f[k] \in S[k]
    BY <1>1, <2>1, <2>2, StepsStay
  <2>4. \A k \in 1 .. m : step[k][f[k - 1]] = TakeChar(block, f[k - 1], it, k)
    BY <1>2, <1>3, <1>7, <2>3
  <2>5. \A k \in 0 .. m : (IF k = 0 THEN begun ELSE step[k][f[k - 1]])
                          = (IF k = 0 THEN begun ELSE TakeChar(block, f[k - 1], it, k))
    BY <1>1, <2>4
  <2>6. F(f)
    BY <2>3, <2>5 DEF Steps
  <2> QED
    BY <2>6
<1>9. F(taken)
  <2> HIDE DEF F
  <2> QED
    BY <1>8 DEF taken
<1>10. taken[0] = begun
  BY <1>1, <1>9
<1>11. \A k \in 1 .. m : taken[k] = TakeChar(block, taken[k - 1], it, k)
  BY <1>1, <1>9
<1> HIDE DEF F
<1>12. \A k \in 1 .. m : taken[k - 1] \in S[k - 1] => taken[k] \in S[k]
  BY <1>3, <1>6, <1>7, <1>11
<1>13. taken[0] \in S[0]
  BY <1>1, <1>3, <1>5, <1>10
<1>14. \A k \in 0 .. m : taken[k] \in S[k]
  BY <1>1, <1>12, <1>13, Stays
<1>15. taken[m] \in Taking
  BY <1>1, <1>3, <1>14
<1>16. taken[m] \in Loading
  BY <1>15 DEF Taking, Loading
<1> QED
  BY <1>4, <1>16

(* Rows as they should be. *)
SoundRows == {b \in Row : RowHolds(b)}

(* ParseRichTextPieces: at least one row and no more than there may be. *)
LEMMA ParsedSound ==
    ASSUME NEW block, block.items \in Seq(Item)
    PROVE  /\ ParseRichTextPieces(block) \in Seq(SoundRows)
           /\ Len(ParseRichTextPieces(block)) \in 1 .. MaxRows
<1> DEFINE m == Len(block.items)
           first == [pieces |-> <<>>, c |-> NewRow(1, FALSE), item |-> 0, failed |-> FALSE]
           S == [n \in 0 .. m |-> Loading]
           step == [n \in 1 .. m |-> [a \in Loading |-> TakeItem(block, a, block.items[n])]]
           F(f) == f = [n \in 0 .. m |-> IF n = 0 THEN first ELSE TakeItem(block, f[n - 1], block.items[n])]
           read == CHOOSE f : F(f)
           end == read[m]
           all == Append(end.pieces, end.c)
           short == end.failed \/ LoadedPartially(end.c)
           row(i) == [ApplyRunStyles(all[i]) EXCEPT !.cutShort = short]
<1>1. m \in Nat /\ m = Len(block.items)
  BY LenProperties
<1>2. \A n \in 1 .. m : \A a \in Loading : step[n][a] = TakeItem(block, a, block.items[n])
  OBVIOUS
<1>3. \A n \in 0 .. m : S[n] = Loading
  OBVIOUS
<1>4. ParseRichTextPieces(block) = [i \in DOMAIN all |-> row(i)]
  BY DEF ParseRichTextPieces, RowsOf
<1>5. first \in Loading
  <2> DEFINE c == NewRow(1, FALSE)
  <2>1. RowHolds(c)
    BY FreshHolds
  <2>2. <<>> \in Seq(Row) /\ Len(<<>>) = 0 /\ Total(<<>>) = 0
    BY EmptySeq, NoRuns, TextRunLengths
  <2>3. 1 <= MaxRows
    BY EditingAssumption
  <2>4. c.text = <<>> /\ c.runs = <<>> /\ c.serial = 1
    BY DEF NewRow
  <2>5. /\ first.pieces = <<>> /\ first.c = c /\ first.item = 0 /\ first.failed = FALSE
        /\ first = [pieces |-> <<>>, c |-> c, item |-> 0, failed |-> FALSE]
    OBVIOUS
  <2> HIDE DEF c, first
  <2>6. PieceHolds(c) /\ c \in Row
    BY <2>1 DEF RowHolds, PieceHolds
  <2>7. first \in [pieces : Seq(Row), c : Row, item : Nat, failed : BOOLEAN]
    BY <2>2, <2>5, <2>6
  <2>8. \A i \in 1 .. Len(first.pieces) : PieceHolds(first.pieces[i])
    BY <2>2, <2>5
  <2>9. first.c.serial = Len(first.pieces) + 1 /\ first.c.serial <= MaxRows
    BY <2>2, <2>3, <2>4, <2>5
  <2>10. first.item <= Len(first.c.runs) /\ Total(first.c.runs) = Len(first.c.text)
    BY <2>2, <2>4, <2>5
  <2> QED
    BY <2>4, <2>5, <2>6, <2>7, <2>8, <2>9, <2>10 DEF Loading, LoaderHolds
<1>6. ASSUME NEW n \in 1 .. m, NEW a \in Loading
      PROVE  TakeItem(block, a, block.items[n]) \in Loading
  <2>1. block.items[n] \in Item
    BY ElementOfSeq
  <2> QED
    BY <2>1, TakeItemKeeps
<1> HIDE DEF m, S, step, read, first
<1>7. \A n \in 1 .. m : n - 1 \in 0 .. m /\ n \in 0 .. m
  BY <1>1
<1>8. \E f : F(f)
  <2>1. \A n \in 1 .. m : \A a \in S[n - 1] : step[n][a] \in S[n]
    BY <1>2, <1>3, <1>6, <1>7
  <2>2. first \in S[0]
    BY <1>1, <1>3, <1>5
  <2>3. PICK f : Steps(f, m, first, step) /\ \A n \in 0 .. m : f[n] \in S[n]
    BY <1>1, <2>1, <2>2, StepsStay
  <2>4. \A n \in 1 .. m : step[n][f[n - 1]] = TakeItem(block, f[n - 1], block.items[n])
    BY <1>2, <1>3, <1>7, <2>3
  <2>5. \A n \in 0 .. m : (IF n = 0 THEN first ELSE step[n][f[n - 1]])
                          = (IF n = 0 THEN first ELSE TakeItem(block, f[n - 1], block.items[n]))
    BY <1>1, <2>4
  <2>6. F(f)
    BY <2>3, <2>5 DEF Steps
  <2> QED
    BY <2>6
<1>9. F(read)
  <2> HIDE DEF F
  <2> QED
    BY <1>8 DEF read
<1>10. read[0] = first
  BY <1>1, <1>9
<1>11. \A n \in 1 .. m : read[n] = TakeItem(block, read[n - 1], block.items[n])
  BY <1>1, <1>9
<1> HIDE DEF F
<1>12. \A n \in 1 .. m : read[n - 1] \in S[n - 1] => read[n] \in S[n]
  BY <1>3, <1>6, <1>7, <1>11
<1>13. read[0] \in S[0]
  BY <1>1, <1>3, <1>5, <1>10
<1>14. \A n \in 0 .. m : read[n] \in S[n]
  BY <1>1, <1>12, <1>13, Stays
<1>15. end \in Loading
  BY <1>1, <1>3, <1>14
<1> HIDE DEF end
<1>16. /\ LoaderHolds(end) /\ end.pieces \in Seq(Row) /\ end.c \in Row /\ end.failed \in BOOLEAN
       /\ PieceHolds(end.c) /\ end.c.serial = Len(end.pieces) + 1 /\ end.c.serial <= MaxRows
       /\ \A i \in 1 .. Len(end.pieces) : PieceHolds(end.pieces[i])
  BY <1>15 DEF Loading, LoaderHolds
<1> DEFINE k == Len(end.pieces)
<1>17. k \in Nat /\ MaxRows \in Nat
  BY <1>16, LenProperties, EditingAssumption
<1>18. /\ all \in Seq(Row) /\ Len(all) = k + 1 /\ all[k + 1] = end.c
       /\ \A i \in 1 .. k : all[i] = end.pieces[i]
  BY <1>16, AppendProperties
<1> HIDE DEF all
<1>19. DOMAIN all = 1 .. k + 1
  BY <1>18, LenProperties
<1>20. \A i \in 1 .. k + 1 : row(i) \in SoundRows
  <2> TAKE i \in 1 .. k + 1
  <2>1. PieceHolds(all[i])
    <3>1. i \in 1 .. k \/ i = k + 1
      BY <1>17
    <3> QED
      BY <1>16, <1>18, <3>1
  <2>2. short \in BOOLEAN
    BY DEF LoadedPartially
  <2> HIDE DEF short
  <2>3. RowHolds(row(i))
    BY <2>1, <2>2, RestyledHolds
  <2> QED
    BY <2>3 DEF SoundRows, RowHolds, PieceHolds
<1>21. k + 1 \in Nat /\ k + 1 \in 1 .. MaxRows
  BY <1>16, <1>17
<1> HIDE DEF k
<1> DEFINE parsed == [i \in 1 .. k + 1 |-> row(i)]
<1>22. parsed \in [1 .. k + 1 -> SoundRows]
  <2> HIDE DEF row
  <2> QED
    BY <1>20
<1>23. ParseRichTextPieces(block) = parsed
  BY <1>4, <1>19
<1> HIDE DEF parsed
<1>24. parsed \in Seq(SoundRows) /\ Len(parsed) = k + 1
  BY <1>21, <1>22, ListOf
<1> QED
  BY <1>21, <1>23, <1>24

-----------------------------------------------------------------------------
(* The invariant: every row is as it should be, and so is what undo would   *)
(* put into one.  want is only known to be a list.                          *)

SnapshotHolds(u) ==
    /\ u.serial \in Nat /\ u.text \in Seq(STRING) /\ u.runs \in Seq(TextRun) /\ u.emoji \in Seq(Nat)
    /\ Len(u.text) <= MaxText /\ Len(u.emoji) <= MaxEmoji /\ Len(u.runs) <= MaxRuns
    /\ u.runs # <<>> => Total(u.runs) = Len(u.text)

RowsSound == rows \in Seq(SoundRows) /\ Len(rows) \in 1 .. MaxRows
WantList == want = [r \in 1 .. Len(rows) |-> want[r]]
UndoHolds == SnapshotHolds(undo)

EditInv == /\ RowsSound
           /\ WantList
           /\ UndoHolds
           /\ edits \in 0 .. MaxEdits /\ lost \in BOOLEAN

LEMMA SoundFields ==
    ASSUME NEW list \in Seq(SoundRows)
    PROVE  /\ list \in Seq(Row) /\ Len(list) \in Nat /\ DOMAIN list = 1 .. Len(list)
           /\ \A r \in 1 .. Len(list) : RowHolds(list[r])
<1>1. Len(list) \in Nat /\ DOMAIN list = 1 .. Len(list)
  BY LenProperties
<1>2. \A r \in 1 .. Len(list) : list[r] \in SoundRows
  BY ElementOfSeq
<1>3. \A r \in 1 .. Len(list) : list[r] \in Row /\ RowHolds(list[r])
  BY <1>2 DEF SoundRows
<1>4. list \in Seq(Row)
  BY <1>1, <1>3, SeqDef
<1> QED
  BY <1>1, <1>3, <1>4

LEMMA InvHolds == EditInv => TypeOK /\ RunsMatchText
<1> SUFFICES ASSUME EditInv PROVE TypeOK /\ RunsMatchText
  OBVIOUS
<1>1. /\ rows \in Seq(Row) /\ DOMAIN rows = 1 .. Len(rows)
      /\ \A r \in 1 .. Len(rows) : RowHolds(rows[r])
  BY SoundFields DEF EditInv, RowsSound
<1>2. DOMAIN want = DOMAIN rows
  <2>1. want = [r \in 1 .. Len(rows) |-> want[r]]
    BY DEF EditInv, WantList
  <2>2. DOMAIN [r \in 1 .. Len(rows) |-> want[r]] = 1 .. Len(rows)
    OBVIOUS
  <2> QED
    BY <1>1, <2>1, <2>2
<1>3. \A r \in DOMAIN rows : /\ Len(rows[r].text) <= MaxText /\ Len(rows[r].emoji) <= MaxEmoji
                             /\ Len(rows[r].runs) <= MaxRuns
                             /\ DOMAIN rows[r].face = DOMAIN rows[r].text
                             /\ rows[r].runs # <<>> => Total(rows[r].runs) = Len(rows[r].text)
  BY <1>1 DEF RowHolds, PieceHolds
<1>4. Len(rows) \in 1 .. MaxRows /\ edits \in 0 .. MaxEdits /\ lost \in BOOLEAN
  BY DEF EditInv, RowsSound
<1> QED
  BY <1>1, <1>2, <1>3, <1>4 DEF TypeOK, RunsMatchText

(* One row and what is wanted of it changes. *)
LEMMA OneRowKeeps ==
    ASSUME RowsSound, WantList, NEW r \in 1 .. Len(rows), NEW b, RowHolds(b), NEW w, Edited(r, b, w)
    PROVE  RowsSound' /\ WantList'
<1>1. b \in SoundRows
  BY DEF SoundRows, RowHolds, PieceHolds
<1>2. rows \in Seq(SoundRows) /\ Len(rows) \in 1 .. MaxRows
  BY DEF RowsSound
<1>3. rows' \in Seq(SoundRows) /\ Len(rows') = Len(rows)
  <2>1. rows' = [rows EXCEPT ![r] = b]
    BY DEF Edited
  <2> QED
    BY <1>1, <1>2, <2>1, ExceptSeq
<1>4. want' = [k \in 1 .. Len(rows) |-> want'[k]]
  <2>1. want' = [want EXCEPT ![r] = w] /\ want = [k \in 1 .. Len(rows) |-> want[k]]
    BY DEF Edited, WantList
  <2> QED
    BY <2>1
<1>5. RowsSound'
  BY <1>2, <1>3 DEF RowsSound
<1>6. WantList'
  BY <1>3, <1>4 DEF WantList
<1> QED
  BY <1>5, <1>6

LEMMA InsertedList ==
    ASSUME NEW S, NEW seq \in Seq(S), NEW at \in 1 .. Len(seq) + 1, NEW x \in S
    PROVE  Inserted(seq, at, x) \in Seq(S) /\ Len(Inserted(seq, at, x)) = Len(seq) + 1
<1> DEFINE n == Len(seq)
           k == at - 1
           head == SubSeq(seq, 1, k)
           tail == SubSeq(seq, k + 1, Len(seq))
           one == <<x>>
<1>1. n \in Nat /\ k \in 0 .. Len(seq) /\ k + 1 = at
  BY LenProperties
<1>2. Inserted(seq, at, x) = head \o one \o tail
  BY <1>1 DEF Inserted
<1> HIDE DEF k
<1>3. head \in Seq(S) /\ Len(head) = k /\ tail \in Seq(S) /\ Len(tail) = Len(seq) - k
  BY <1>1, PartsAt
<1>4. one \in Seq(S) /\ Len(one) = 1
  OBVIOUS
<1> HIDE DEF head, tail, one
<1> DEFINE upto == head \o one
<1>5. upto \in Seq(S)
  BY <1>3, <1>4, ConcatProperties
<1>6. Len(upto) = Len(head) + Len(one)
  BY <1>3, <1>4, ConcatProperties
<1> HIDE DEF upto
<1>7. upto \o tail \in Seq(S)
  BY <1>3, <1>5, ConcatProperties
<1>8. Len(upto \o tail) = Len(upto) + Len(tail)
  BY <1>3, <1>5, ConcatProperties
<1>9. Inserted(seq, at, x) = upto \o tail
  BY <1>2 DEF upto
<1>10. Len(upto) + Len(tail) = n + 1
  BY <1>1, <1>3, <1>4, <1>6
<1> QED
  BY <1>7, <1>8, <1>9, <1>10

(* A row more, and what is wanted of it. *)
LEMMA RowMoreKeeps ==
    ASSUME NEW list \in Seq(SoundRows), Len(list) >= 1, Len(list) < MaxRows,
           NEW wanted, wanted = [r \in 1 .. Len(list) |-> wanted[r]],
           NEW at \in 1 .. Len(list) + 1, NEW b, RowHolds(b), NEW w,
           rows' = Inserted(list, at, b), want' = Inserted(wanted, at, w)
    PROVE  RowsSound' /\ WantList'
<1> DEFINE n == Len(list)
           S == {wanted[r] : r \in 1 .. n} \cup {w}
<1>1. n \in Nat /\ MaxRows \in Nat /\ b \in SoundRows
  BY LenProperties, EditingAssumption DEF SoundRows, RowHolds, PieceHolds
<1>2. rows' \in Seq(SoundRows) /\ Len(rows') = n + 1
  BY <1>1, InsertedList
<1>3. wanted \in Seq(S) /\ Len(wanted) = n
  <2>1. wanted \in [1 .. n -> S]
    OBVIOUS
  <2> HIDE DEF S
  <2> QED
    BY <1>1, <2>1, ListOf
<1>4. want' \in Seq(S) /\ Len(want') = n + 1
  <2>1. w \in S /\ at \in 1 .. Len(wanted) + 1
    BY <1>3
  <2> HIDE DEF S
  <2>2. Inserted(wanted, at, w) \in Seq(S)
    BY <1>3, <2>1, InsertedList
  <2>3. Len(Inserted(wanted, at, w)) = Len(wanted) + 1
    BY ONLY <1>3, <2>1, InsertedList
  <2> QED
    BY <1>3, <2>2, <2>3
<1>5. want' = [k \in 1 .. n + 1 |-> want'[k]]
  <2>1. want' \in [1 .. Len(want') -> S]
    <3> HIDE DEF S
    <3> QED
      BY <1>4, LenProperties
  <2> HIDE DEF S
  <2> QED
    BY <1>4, <2>1
<1>6. RowsSound'
  BY <1>1, <1>2 DEF RowsSound
<1>7. WantList'
  BY <1>2, <1>5 DEF WantList
<1> QED
  BY <1>6, <1>7

LEMMA SnapshotOf ==
    ASSUME NEW b, PieceHolds(b), NEW typing, NEW w
    PROVE  SnapshotHolds([serial |-> b.serial, typing |-> typing, text |-> b.text, runs |-> b.runs,
                          emoji |-> b.emoji, want |-> w])
BY PieceFields DEF SnapshotHolds, PieceHolds

(* UndoBegin keeps the snapshot, or takes one of the row. *)
LEMMA UndoBegun ==
    ASSUME UndoHolds, NEW b, PieceHolds(b), NEW w, NEW typing, undo' = UndoBegin(b, w, typing)
    PROVE  UndoHolds'
<1> DEFINE new == [serial |-> b.serial, typing |-> typing, text |-> b.text, runs |-> b.runs,
                   emoji |-> b.emoji, want |-> w]
<1>1. SnapshotHolds(new) /\ SnapshotHolds(undo)
  BY SnapshotOf DEF UndoHolds
<1>2. undo' = undo \/ undo' = new
  BY DEF UndoBegin
<1> HIDE DEF new
<1>3. SnapshotHolds(undo')
  BY <1>1, <1>2
<1> QED
  BY <1>3 DEF UndoHolds

LEMMA NoUndoHolds == undo' = NoUndo => UndoHolds'
<1>1. /\ <<>> \in Seq(STRING) /\ <<>> \in Seq(TextRun) /\ <<>> \in Seq(Nat) /\ Len(<<>>) = 0
  BY EmptySeq
<1>2. 0 <= MaxText /\ 0 <= MaxRuns /\ 0 <= MaxEmoji
  BY RunsAssumption
<1> QED
  BY <1>1, <1>2 DEF NoUndo, UndoHolds, SnapshotHolds

LEMMA CountedKeeps ==
    ASSUME edits \in 0 .. MaxEdits, lost \in BOOLEAN, edits < MaxEdits, NEW gone, Counted(gone)
    PROVE  edits' \in 0 .. MaxEdits /\ lost' \in BOOLEAN
<1>1. edits' \in 0 .. MaxEdits
  BY EditingAssumption DEF Counted
<1>2. lost' \in BOOLEAN
  BY DEF Counted
<1> QED
  BY <1>1, <1>2

-----------------------------------------------------------------------------
(* The edits.                                                              *)

LEMMA RowIs ==
    ASSUME EditInv, NEW r \in DOMAIN rows
    PROVE  /\ r \in 1 .. Len(rows) /\ RowHolds(rows[r]) /\ PieceHolds(rows[r])
           /\ Len(rows[r].text) \in Nat /\ Len(rows) \in 1 .. MaxRows
           /\ rows[r].runs \in Seq(TextRun)
           /\ rows[r].runs # <<>> => Total(rows[r].runs) = Len(rows[r].text)
<1>1. /\ r \in 1 .. Len(rows) /\ RowHolds(rows[r]) /\ Len(rows) \in 1 .. MaxRows
  BY SoundFields DEF EditInv, RowsSound
<1>2. PieceHolds(rows[r])
  BY <1>1 DEF RowHolds
<1> DEFINE b == rows[r]
<1> HIDE DEF b
<1>3. PieceHolds(b)
  BY <1>2 DEF b
<1>4. Len(b.text) \in Nat /\ b.runs \in Seq(TextRun) /\ (b.runs # <<>> => Total(b.runs) = Len(b.text))
  BY <1>3, PieceFields DEF PieceHolds
<1> QED
  BY <1>1, <1>2, <1>4 DEF b

LEMMA SelectionIs ==
    ASSUME NEW n \in Nat, NEW sel \in Selections(n)
    PROVE  sel[1] \in Nat /\ sel[2] \in Nat /\ sel[1] <= sel[2] /\ sel[2] <= n
BY DEF Selections

(* The part of the text a selection has once it is snapped. *)
LEMMA SelectedPart ==
    ASSUME EditInv, NEW r \in DOMAIN rows,
           NEW s \in 0 .. Len(rows[r].text), NEW e \in s .. Len(rows[r].text), NEW key
    PROVE  LET sel == SnapSelectionForEdit(rows[r], s, e, key)
           IN  /\ sel[2] \in 0 .. Len(rows[r].text) /\ sel[1] \in 0 .. sel[2]
               /\ SubSeq(rows[r].text, sel[1] + 1, sel[2]) \in Seq(STRING)
               /\ Len(SubSeq(rows[r].text, sel[1] + 1, sel[2])) = sel[2] - sel[1]
<1> DEFINE b == rows[r]
           n == Len(b.text)
           sel == SnapSelectionForEdit(b, s, e, key)
           x == sel[1]
           y == sel[2]
<1>1. /\ PieceHolds(b) /\ n \in Nat /\ b.runs \in Seq(TextRun) /\ (b.runs # <<>> => Total(b.runs) = n)
  BY RowIs
<1>2. sel \in Selections(n)
  <2>1. e \in 0 .. n /\ s \in 0 .. e
    BY <1>1
  <2> HIDE DEF n, b
  <2> QED
    BY <1>1, <2>1, SnapTyped
<1> HIDE DEF sel
<1>3. x \in Nat /\ y \in Nat /\ x <= y /\ y <= n
  BY <1>1, <1>2, SelectionIs
<1> HIDE DEF x, y
<1>4. y \in 0 .. n /\ x \in 0 .. y
  BY <1>1, <1>3
<1> DEFINE text == b.text
           at == x + 1
<1>5. text \in Seq(STRING) /\ at \in 1 .. Len(text) + 1 /\ y \in at - 1 .. Len(text)
  BY <1>1, <1>3, PieceFields
<1> HIDE DEF text
<1>6. SubSeq(text, at, y) \in Seq(STRING) /\ Len(SubSeq(text, at, y)) = y - at + 1
  <2> HIDE DEF at
  <2> QED
    BY <1>5, Stretch
<1>7. Len(SubSeq(text, at, y)) = y - x
  BY <1>3, <1>6
<1> QED
  BY <1>4, <1>6, <1>7 DEF text, x, y, sel

LEMMA ShownTyped ==
    ASSUME NEW b, RowHolds(b), NEW y \in 0 .. Len(b.text), NEW x \in 0 .. y,
           NEW from \in Sources(b.text, x, y)
    PROVE  Shown(b, from) \in Styles
<1> DEFINE face == b.face
           text == b.text
           n == Len(text)
<1>1. face \in Seq(Styles) /\ text \in Seq(STRING) /\ n \in Nat /\ DOMAIN face = 1 .. n
  BY PieceFields DEF RowHolds
<1>2. Len(face) = n
  BY <1>1, LenProperties
<1>3. \A i \in 1 .. n : face[i] \in Styles
  BY <1>1, <1>2, ElementOfSeq
<1>4. from = 0 \/ from \in 1 .. n
  <2>1. CASE from = Before(text, x)
    <3>1. CASE text = <<>>
      BY <2>1, <3>1 DEF Before
    <3>2. CASE text # <<>>
      <4>1. n >= 1
        BY <1>1, <3>2, EmptySeq
      <4>2. from = IF x > 0 THEN x ELSE 1
        BY <2>1, <3>2 DEF Before
      <4> QED
        BY <1>1, <4>1, <4>2
    <3> QED
      BY <3>1, <3>2
  <2>2. CASE y > x /\ from = x + 1
    BY <1>1, <2>2
  <2> QED
    BY <2>1, <2>2 DEF Sources
<1> HIDE DEF face
<1>5. Shown(b, from) = IF from = 0 THEN {} ELSE face[from]
  BY DEF Shown, face
<1> QED
  BY <1>3, <1>4, <1>5, StyleSets

LEMMA TypeKeeps ==
    ASSUME EditInv, edits < MaxEdits, NEW r \in DOMAIN rows,
           NEW s \in 0 .. Len(rows[r].text), NEW e \in s .. Len(rows[r].text),
           NEW ch \in Keys, Type(r, s, e, ch)
    PROVE  EditInv'
<1> DEFINE b == rows[r]
           sel == SnapSelectionForEdit(b, s, e, "type")
           x == sel[1]
           y == sel[2]
           over == SubSeq(b.text, x + 1, y)
           ins == <<ch>>
<1>1. r \in 1 .. Len(rows) /\ RowHolds(b) /\ PieceHolds(b) /\ Len(b.text) \in Nat
  BY RowIs
<1>2. y \in 0 .. Len(b.text) /\ x \in 0 .. y /\ Len(over) = y - x
  BY SelectedPart
<1>3. /\ Len(b.text) - Len(over) < MaxText
      /\ \E from \in Sources(b.text, x, y) : \E w : Edited(r, KeyRow(b, x, y, ins, Shown(b, from)), w)
      /\ undo' = UndoBegin(b, want[r], TRUE)
      /\ Counted(FALSE)
  BY DEF Type
<1> HIDE DEF sel, over, x, y
<1>4. ins \in Seq(STRING) /\ Len(ins) = 1
  <2> DEFINE S == STRING
  <2>1. ch \in S
    BY InputAssumption
  <2> HIDE DEF S
  <2>2. <<ch>> \in Seq(S) /\ Len(<<ch>>) = 1
    BY <2>1
  <2> QED
    BY <2>2 DEF S
<1> HIDE DEF ins
<1>5. PICK from \in Sources(b.text, x, y) : \E w : Edited(r, KeyRow(b, x, y, ins, Shown(b, from)), w)
  BY <1>3
<1> DEFINE shown == Shown(b, from)
<1>6. shown \in Styles
  <2> HIDE DEF b
  <2> QED
    BY <1>1, <1>2, ShownTyped
<1> HIDE DEF shown
<1>7. Len(b.text) - (y - x) + Len(ins) <= MaxText
  <2>1. MaxText \in Nat
    BY RunsAssumption
  <2> QED
    BY <1>1, <1>2, <1>3, <1>4, <2>1
<1> HIDE DEF b
<1>8. RowHolds(KeyRow(b, x, y, ins, shown))
  BY <1>1, <1>2, <1>4, <1>6, <1>7, KeyedHolds
<1>9. RowsSound' /\ WantList'
  <2>1. RowsSound /\ WantList
    BY DEF EditInv
  <2> QED
    BY <1>1, <1>5, <1>8, <2>1, OneRowKeeps DEF shown
<1>10. UndoHolds'
  <2>1. UndoHolds
    BY DEF EditInv
  <2> QED
    BY <1>1, <1>3, <2>1, UndoBegun
<1>11. edits' \in 0 .. MaxEdits /\ lost' \in BOOLEAN
  BY <1>3, CountedKeeps DEF EditInv
<1> QED
  BY <1>9, <1>10, <1>11 DEF EditInv

LEMMA PasteKeeps ==
    ASSUME EditInv, edits < MaxEdits, NEW r \in DOMAIN rows,
           NEW s \in 0 .. Len(rows[r].text), NEW e \in s .. Len(rows[r].text),
           NEW ins \in Pastes, Paste(r, s, e, ins)
    PROVE  EditInv'
<1> DEFINE b == rows[r]
           sel == SnapSelectionForEdit(b, s, e, "type")
           x == sel[1]
           y == sel[2]
           over == SubSeq(b.text, x + 1, y)
           new == edits + 1
           emoji == [k \in DOMAIN ins |-> new]
<1>1. r \in 1 .. Len(rows) /\ RowHolds(b) /\ PieceHolds(b) /\ Len(b.text) \in Nat
  BY RowIs
<1>2. y \in 0 .. Len(b.text) /\ x \in 0 .. y /\ Len(over) = y - x
  BY SelectedPart
<1>3. /\ Len(b.text) - Len(over) + Len(ins) <= MaxText
      /\ \E from \in Sources(b.text, x, y) : \E w : Edited(r, EditRow(b, x, y, ins, Shown(b, from), emoji), w)
      /\ undo' = UndoBegin(b, want[r], FALSE)
      /\ Counted(FALSE)
  BY DEF Paste
<1> HIDE DEF sel, over, x, y
<1>4. ins \in Seq(STRING)
  BY InputAssumption
<1>5. emoji \in Seq(Nat)
  <2>1. new \in Nat
    BY EditingAssumption DEF EditInv
  <2>2. DOMAIN ins = 1 .. Len(ins) /\ Len(ins) \in Nat
    BY <1>4, LenProperties
  <2> HIDE DEF new
  <2>3. emoji \in [1 .. Len(ins) -> Nat]
    BY <2>1, <2>2
  <2> HIDE DEF emoji
  <2> QED
    BY <2>2, <2>3, ListOf
<1> HIDE DEF emoji
<1>6. PICK from \in Sources(b.text, x, y) : \E w : Edited(r, EditRow(b, x, y, ins, Shown(b, from), emoji), w)
  BY <1>3
<1> DEFINE shown == Shown(b, from)
<1>7. shown \in Styles
  <2> HIDE DEF b
  <2> QED
    BY <1>1, <1>2, ShownTyped
<1> HIDE DEF shown
<1>8. Len(b.text) - (y - x) + Len(ins) <= MaxText
  BY <1>2, <1>3
<1> HIDE DEF b
<1>9. RowHolds(EditRow(b, x, y, ins, shown, emoji))
  BY <1>1, <1>2, <1>4, <1>5, <1>7, <1>8, EditedHolds
<1>10. RowsSound' /\ WantList'
  <2>1. RowsSound /\ WantList
    BY DEF EditInv
  <2> QED
    BY <1>1, <1>6, <1>9, <2>1, OneRowKeeps DEF shown
<1>11. UndoHolds'
  <2>1. UndoHolds
    BY DEF EditInv
  <2> QED
    BY <1>1, <1>3, <2>1, UndoBegun
<1>12. edits' \in 0 .. MaxEdits /\ lost' \in BOOLEAN
  BY <1>3, CountedKeeps DEF EditInv
<1> QED
  BY <1>10, <1>11, <1>12 DEF EditInv

LEMMA PickEmojiKeeps ==
    ASSUME EditInv, edits < MaxEdits, NEW r \in DOMAIN rows,
           NEW s \in 0 .. Len(rows[r].text), NEW e \in s .. Len(rows[r].text), PickEmoji(r, s, e)
    PROVE  EditInv'
<1> DEFINE b == rows[r]
           sel == SnapSelectionForEdit(b, s, e, "type")
           x == sel[1]
           y == sel[2]
           over == SubSeq(b.text, x + 1, y)
           ins == <<Emoji>>
           shown == {}
           emoji == <<edits + 1>>
           new == EditRow(b, x, y, ins, shown, emoji)
<1>1. r \in 1 .. Len(rows) /\ RowHolds(b) /\ PieceHolds(b) /\ Len(b.text) \in Nat
  BY RowIs
<1>2. y \in 0 .. Len(b.text) /\ x \in 0 .. y /\ Len(over) = y - x
  BY SelectedPart
<1>3. /\ Sentinels(over) = 0 => Len(b.text) < MaxText
      /\ \E w : Edited(r, ApplyRunStyles(new), w)
      /\ undo' = undo
      /\ Counted(FALSE)
  BY DEF PickEmoji
<1> HIDE DEF sel, x, y
<1>4. y > x \/ Len(b.text) < MaxText
  <2>1. CASE y > x
    BY <2>1
  <2>2. CASE ~(y > x)
    <3>1. Len(over) = 0
      BY <1>1, <1>2, <2>2
    <3>2. over = <<>>
      <4>1. over \in Seq(STRING)
        BY SelectedPart DEF sel, x, y
      <4> HIDE DEF over
      <4> QED
        BY <3>1, <4>1, EmptySeq
    <3>3. Sentinels(<<>>) = 0
      <4>1. {c \in DOMAIN <<>> : <<>>[c] = Emoji} = {}
        OBVIOUS
      <4> QED
        BY <4>1, FS_EmptySet DEF Sentinels
    <3> HIDE DEF over
    <3> QED
      BY <1>3, <3>2, <3>3
  <2> QED
    BY <2>1, <2>2
<1> HIDE DEF over
<1>5. ins \in Seq(STRING) /\ Len(ins) = 1
  <2> DEFINE S == STRING
             ch == Emoji
  <2>1. ch \in S
    BY InputAssumption
  <2> HIDE DEF S, ch
  <2>2. <<ch>> \in Seq(S) /\ Len(<<ch>>) = 1
    BY <2>1
  <2> QED
    BY <2>2 DEF S, ch
<1>6. emoji \in Seq(Nat)
  <2>1. edits + 1 \in Nat
    BY EditingAssumption DEF EditInv
  <2> QED
    BY <2>1
<1>7. shown \in Styles
  BY StyleSets
<1> HIDE DEF ins, shown, emoji
<1>8. Len(b.text) - (y - x) + Len(ins) <= MaxText
  <2>1. MaxText \in Nat /\ Len(b.text) <= MaxText
    BY <1>1, RunsAssumption DEF PieceHolds
  <2> QED
    BY <1>1, <1>2, <1>4, <1>5, <2>1
<1> HIDE DEF b
<1>9. RowHolds(new)
  BY <1>1, <1>2, <1>5, <1>6, <1>7, <1>8, EditedHolds
<1> HIDE DEF new
<1>10. RowHolds(ApplyRunStyles(new))
  BY <1>9, RestyledHolds DEF RowHolds
<1>11. RowsSound' /\ WantList'
  <2>1. RowsSound /\ WantList
    BY DEF EditInv
  <2>2. PICK w : Edited(r, ApplyRunStyles(new), w)
    BY <1>3
  <2> DEFINE row == ApplyRunStyles(new)
  <2> HIDE DEF row
  <2>3. RowHolds(row) /\ Edited(r, row, w)
    BY <1>10, <2>2 DEF row
  <2> QED
    BY <1>1, <2>1, <2>3, OneRowKeeps
<1>12. UndoHolds'
  BY <1>3 DEF EditInv, UndoHolds, SnapshotHolds
<1>13. edits' \in 0 .. MaxEdits /\ lost' \in BOOLEAN
  BY <1>3, CountedKeeps DEF EditInv
<1> QED
  BY <1>11, <1>12, <1>13 DEF EditInv

LEMMA EraseKeeps ==
    ASSUME EditInv, edits < MaxEdits, NEW r \in DOMAIN rows,
           NEW s \in 0 .. Len(rows[r].text), NEW e \in s .. Len(rows[r].text),
           NEW key, Erase(r, s, e, key)
    PROVE  EditInv'
<1> DEFINE b == rows[r]
           n == Len(b.text)
           sel == SnapSelectionForEdit(b, s, e, key)
           gone == IF sel[1] < sel[2] THEN sel
                   ELSE IF key = "backspace" THEN <<sel[1] - 1, sel[1]>> ELSE <<sel[1], sel[1] + 1>>
           x == gone[1]
           y == gone[2]
<1>1. /\ r \in 1 .. Len(rows) /\ RowHolds(b) /\ PieceHolds(b) /\ n \in Nat
      /\ b.runs \in Seq(TextRun) /\ (b.runs # <<>> => Total(b.runs) = n)
  BY RowIs
<1>2. sel \in Selections(n)
  <2>1. e \in 0 .. n /\ s \in 0 .. e
    BY <1>1
  <2> HIDE DEF n, b
  <2> QED
    BY <1>1, <2>1, SnapTyped
<1>3. /\ x >= 0 /\ y <= n
      /\ Edited(r, KeyRow(b, x, y, <<>>, {}), WantEdit(want[r], x, y, <<>>, {}, 0))
      /\ undo' = UndoBegin(b, want[r], TRUE)
      /\ Counted(FALSE)
  BY DEF Erase
<1> HIDE DEF sel
<1>4. x \in Nat /\ y \in Nat /\ x <= y
  <2>1. sel[1] \in Nat /\ sel[2] \in Nat
    BY <1>1, <1>2, SelectionIs
  <2>2. CASE sel[1] < sel[2]
    BY <2>1, <2>2
  <2>3. CASE ~(sel[1] < sel[2]) /\ key = "backspace"
    <3>1. x = sel[1] - 1 /\ y = sel[1]
      BY <2>3
    <3> HIDE DEF x, y
    <3> QED
      BY <1>3, <2>1, <3>1
  <2>4. CASE ~(sel[1] < sel[2]) /\ key # "backspace"
    <3>1. x = sel[1] /\ y = sel[1] + 1
      BY <2>4
    <3> HIDE DEF x, y
    <3> QED
      BY <2>1, <3>1
  <2> QED
    BY <2>2, <2>3, <2>4
<1> HIDE DEF gone, x, y
<1>5. y \in 0 .. Len(b.text) /\ x \in 0 .. y
  BY <1>1, <1>3, <1>4
<1>6. <<>> \in Seq(STRING) /\ <<>> \in Seq(Nat) /\ Len(<<>>) = 0
  BY EmptySeq
<1>7. Len(b.text) - (y - x) + Len(<<>>) <= MaxText
  <2>1. n <= MaxText /\ MaxText \in Nat
    BY <1>1, RunsAssumption DEF PieceHolds
  <2> QED
    BY <1>1, <1>4, <1>6, <2>1
<1> HIDE DEF b
<1>8. RowHolds(KeyRow(b, x, y, <<>>, {}))
  <2> DEFINE shown == {}
  <2>1. shown \in Styles
    BY StyleSets
  <2> HIDE DEF shown
  <2>2. RowHolds(KeyRow(b, x, y, <<>>, shown))
    BY <1>1, <1>5, <1>6, <1>7, <2>1, KeyedHolds
  <2> QED
    BY <2>2 DEF shown
<1>9. RowsSound' /\ WantList'
  <2>1. RowsSound /\ WantList
    BY DEF EditInv
  <2> QED
    BY <1>1, <1>3, <1>8, <2>1, OneRowKeeps
<1>10. UndoHolds'
  <2>1. UndoHolds
    BY DEF EditInv
  <2> QED
    BY <1>1, <1>3, <2>1, UndoBegun
<1>11. edits' \in 0 .. MaxEdits /\ lost' \in BOOLEAN
  BY <1>3, CountedKeeps DEF EditInv
<1> QED
  BY <1>9, <1>10, <1>11 DEF EditInv

LEMMA TypeBelowKeeps ==
    ASSUME EditInv, edits < MaxEdits, NEW r \in DOMAIN rows, NEW ch \in Keys, TypeBelow(r, ch)
    PROVE  EditInv'
<1> DEFINE serial == Len(rows) + 1
           fresh == NewRow(serial, FALSE)
           text == <<ch>>
           face == <<{}>>
           new == [fresh EXCEPT !.text = text, !.face = face, !.runsDirty = TRUE]
           w == <<Seen(ch, {}, NoLink, FALSE, 0, 0)>>
           at == r + 1
<1>1. /\ Len(rows) < MaxRows
      /\ rows' = Inserted(rows, at, new) /\ want' = Inserted(want, at, w)
      /\ undo' = UndoBegin(fresh, <<>>, TRUE)
      /\ Counted(FALSE)
  BY DEF TypeBelow
<1>2. /\ rows \in Seq(SoundRows) /\ Len(rows) \in Nat /\ Len(rows) >= 1 /\ r \in 1 .. Len(rows)
      /\ want = [k \in 1 .. Len(rows) |-> want[k]]
  BY RowIs DEF EditInv, RowsSound, WantList
<1>3. serial \in Nat /\ at \in 1 .. Len(rows) + 1
  BY <1>2
<1> HIDE DEF serial, at, w
<1>4. RowHolds(fresh) /\ fresh.runs = <<>> /\ fresh.emoji = <<>>
  BY <1>3, FreshHolds DEF NewRow
<1> HIDE DEF fresh
<1>5. RowHolds(new)
  <2>1. /\ text \in Seq(STRING) /\ Len(text) = 1 /\ face \in Seq(Styles) /\ Len(face) = 1
        /\ DOMAIN text = 1 .. 1 /\ DOMAIN face = 1 .. 1
    <3> DEFINE no == {}
    <3>1. no \in Styles /\ face = <<no>>
      BY StyleSets
    <3> HIDE DEF no
    <3>2. <<ch>> \in Seq(STRING) /\ Len(<<ch>>) = 1
      <4> DEFINE S == STRING
      <4>1. ch \in S
        BY InputAssumption
      <4> HIDE DEF S
      <4>2. <<ch>> \in Seq(S) /\ Len(<<ch>>) = 1
        BY <4>1
      <4> QED
        BY <4>2 DEF S
    <3>3. <<no>> \in Seq(Styles) /\ Len(<<no>>) = 1
      BY <3>1
    <3> HIDE DEF text, face
    <3>4. text \in Seq(STRING) /\ Len(text) = 1
      BY <3>2 DEF text
    <3>5. face \in Seq(Styles) /\ Len(face) = 1
      BY <3>1, <3>3
    <3>6. DOMAIN text = 1 .. 1
      BY <3>4, LenProperties
    <3>7. DOMAIN face = 1 .. 1
      BY <3>5, LenProperties
    <3> QED
      BY <3>4, <3>5, <3>6, <3>7
  <2> HIDE DEF text, face
  <2>2. fresh \in Row /\ PieceHolds(fresh)
    BY <1>4 DEF RowHolds, PieceHolds
  <2>3. /\ new \in Row /\ new.text = text /\ new.face = face /\ new.runs = <<>> /\ new.emoji = <<>>
    BY <1>4, <2>1, <2>2 DEF Row
  <2> HIDE DEF new
  <2>4. 1 <= MaxText /\ 0 <= MaxRuns /\ 0 <= MaxEmoji /\ Len(<<>>) = 0
    BY RunsAssumption, EditingAssumption, EmptySeq
  <2> QED
    BY <2>1, <2>3, <2>4 DEF RowHolds, PieceHolds
<1> HIDE DEF new
<1>6. RowsSound' /\ WantList'
  BY <1>1, <1>2, <1>3, <1>5, RowMoreKeeps
<1>7. UndoHolds'
  <2>1. UndoHolds /\ PieceHolds(fresh)
    BY <1>4 DEF EditInv, RowHolds
  <2> QED
    BY <1>1, <2>1, UndoBegun
<1>8. edits' \in 0 .. MaxEdits /\ lost' \in BOOLEAN
  BY <1>1, CountedKeeps DEF EditInv
<1> QED
  BY <1>6, <1>7, <1>8 DEF EditInv

LEMMA ToggleKeeps ==
    ASSUME EditInv, edits < MaxEdits, NEW r \in DOMAIN rows,
           NEW s \in 0 .. Len(rows[r].text), NEW e \in s .. Len(rows[r].text),
           NEW which \in {"bold", "underline"}, Toggle(r, s, e, which)
    PROVE  EditInv'
<1> DEFINE b == rows[r]
           toggled == ToggleRunStyleBit(b, s, e, which)
<1>1. r \in 1 .. Len(rows) /\ RowHolds(b) /\ PieceHolds(b) /\ Len(b.text) \in Nat
  BY RowIs
<1>2. /\ s < e /\ undo' = UndoBegin(b, want[r], FALSE) /\ Counted(FALSE)
      /\ \E w : Edited(r, toggled, w)
  BY DEF Toggle
<1>3. e \in 1 .. Len(b.text) /\ s \in 0 .. e - 1
  BY <1>1, <1>2
<1>4. PICK w : Edited(r, toggled, w)
  BY <1>2
<1> HIDE DEF b
<1>5. RowHolds(toggled)
  BY <1>1, <1>3, ToggledHolds
<1> HIDE DEF toggled
<1>6. RowsSound' /\ WantList'
  <2>1. RowsSound /\ WantList
    BY DEF EditInv
  <2> QED
    BY <1>1, <1>4, <1>5, <2>1, OneRowKeeps
<1>7. UndoHolds'
  <2>1. UndoHolds
    BY DEF EditInv
  <2> QED
    BY <1>1, <1>2, <2>1, UndoBegun
<1>8. edits' \in 0 .. MaxEdits /\ lost' \in BOOLEAN
  BY <1>2, CountedKeeps DEF EditInv
<1> QED
  BY <1>6, <1>7, <1>8 DEF EditInv

(* The runs of both parts of a row cut at a place. *)
LEMMA CutRuns ==
    ASSUME NEW b, PieceHolds(b), NEW pos \in 0 .. Len(b.text)
    PROVE  \E left, right \in Seq(TextRun) :
             /\ SplitRunsAt(b.runs, pos) = <<left, right>>
             /\ Len(left) <= MaxRuns /\ Len(right) <= MaxRuns
             /\ left # <<>> => Total(left) = pos
             /\ right # <<>> => Total(right) = Len(b.text) - pos
<1> DEFINE runs == b.runs
<1>1. /\ runs \in Seq(TextRun) /\ Len(runs) \in Nat /\ Len(runs) <= MaxRuns /\ MaxRuns \in Nat
      /\ runs # <<>> => Total(runs) = Len(b.text)
      /\ Len(b.text) \in Nat
  BY PieceFields, RunsAssumption DEF PieceHolds
<1> HIDE DEF runs
<1>2. CASE runs = <<>>
  <2>1. SplitRunsAt(<<>>, pos) = <<<<>>, <<>>>>
    <3>1. pos \in Nat
      BY <1>1
    <3> QED
      BY <3>1, SplitNone
  <2>2. <<>> \in Seq(TextRun) /\ Len(<<>>) <= MaxRuns
    BY <1>1, EmptySeq
  <2>3. SplitRunsAt(runs, pos) = <<<<>>, <<>>>>
    BY <1>2, <2>1
  <2> QED
    BY <2>2, <2>3 DEF runs
<1>3. CASE runs # <<>>
  <2>1. pos \in 0 .. Total(runs)
    BY <1>1, <1>3
  <2>2. PICK left, right \in Seq(TextRun) :
           /\ SplitRunsAt(runs, pos) = <<left, right>>
           /\ Total(left) = pos /\ Total(right) = Total(runs) - pos
           /\ Len(left) <= Len(runs) /\ Len(right) <= Len(runs)
    BY <1>1, <2>1, SplitParts
  <2>3. Len(left) \in Nat /\ Len(right) \in Nat
    BY <2>2, LenProperties
  <2>4. Len(left) <= MaxRuns /\ Len(right) <= MaxRuns
    BY <1>1, <2>2, <2>3
  <2>5. Total(right) = Len(b.text) - pos
    BY <1>1, <1>3, <2>2
  <2> QED
    BY <2>2, <2>4, <2>5 DEF runs
<1> QED
  BY <1>2, <1>3

LEMMA ReturnKeeps ==
    ASSUME EditInv, ~Unsequenced, edits < MaxEdits, NEW r \in DOMAIN rows,
           NEW s \in 0 .. Len(rows[r].text), NEW e \in s .. Len(rows[r].text), Return(r, s, e)
    PROVE  EditInv'
<1> DEFINE b == rows[r]
           w == want[r]
           m == Len(b.text)
           sel == SnapSelectionForEdit(b, s, e, "return")
           pos == sel[2]
           cut == SplitRunsAt(b.runs, pos)
           before == SubSeq(b.text, 1, pos)
           after == SubSeq(b.text, pos + 1, Len(b.text))
           n == Sentinels(before)
           these(x) == [k \in 1 .. n |-> IF k <= Len(b.emoji) THEN b.emoji[k] ELSE x]
           those == SubSeq(b.emoji, n + 1, Min({Len(b.emoji), n + MaxEmoji}))
           serial == Len(rows) + 1
           head(x) == [b EXCEPT !.text = before, !.runs = cut[1], !.emoji = these(x)]
           rest == [NewRow(serial, FALSE) EXCEPT !.text = after, !.runs = cut[2], !.emoji = those,
                                                 !.runsDirty = TRUE]
           tail == IF pos = Len(b.text) THEN NewRow(serial, FALSE) ELSE rest
           kept == Freeze(w, Across(w, pos))
           wants == [want EXCEPT ![r] = SubSeq(kept, 1, pos)]
           below == SubSeq(kept, pos + 1, Len(kept))
           list(x) == [rows EXCEPT ![r] = ApplyRunStyles(head(x))]
           at == r + 1
<1>1. /\ Len(rows) < MaxRows
      /\ \E x \in Leftovers : rows' = Inserted(list(x), at, ApplyRunStyles(tail))
      /\ want' = Inserted(wants, at, below)
      /\ n <= Len(b.emoji)
      /\ undo' = NoUndo
      /\ Counted(FALSE)
  BY DEF Return
<1>0. PICK x \in Leftovers : rows' = Inserted(list(x), at, ApplyRunStyles(tail))
  BY <1>1
<1>2. /\ r \in 1 .. Len(rows) /\ PieceHolds(b) /\ m \in Nat
      /\ b.runs \in Seq(TextRun) /\ (b.runs # <<>> => Total(b.runs) = m)
      /\ rows \in Seq(SoundRows) /\ Len(rows) \in 1 .. MaxRows
      /\ want = [k \in 1 .. Len(rows) |-> want[k]]
  BY RowIs DEF EditInv, RowsSound, WantList
<1>3. sel \in Selections(m)
  <2>1. e \in 0 .. m /\ s \in 0 .. e
    BY <1>2
  <2> HIDE DEF m, b
  <2> QED
    BY <1>2, <2>1, SnapTyped
<1> HIDE DEF sel
<1>4. pos \in 0 .. Len(b.text)
  BY <1>2, <1>3, SelectionIs
<1> HIDE DEF pos
<1>5. /\ b.text \in Seq(STRING) /\ b.emoji \in Seq(Nat) /\ Len(b.emoji) \in Nat /\ Len(b.emoji) <= MaxEmoji
      /\ m <= MaxText /\ b \in Row
  BY <1>2, PieceFields DEF PieceHolds
<1>6. PICK left, right \in Seq(TextRun) :
         /\ cut = <<left, right>>
         /\ Len(left) <= MaxRuns /\ Len(right) <= MaxRuns
         /\ left # <<>> => Total(left) = pos
         /\ right # <<>> => Total(right) = m - pos
  BY <1>2, <1>4, CutRuns
<1>7. cut[1] = left /\ cut[2] = right
  BY <1>6
<1>8. /\ before \in Seq(STRING) /\ Len(before) = pos
      /\ after \in Seq(STRING) /\ Len(after) = m - pos
  BY <1>4, <1>5, PartsAt
<1> HIDE DEF cut, before, after
<1>9. n \in Nat
  BY <1>8, SentinelsIs
<1> HIDE DEF n
<1>10. /\ these(x) \in Seq(Nat) /\ Len(these(x)) <= MaxEmoji
       /\ those \in Seq(Nat) /\ Len(those) <= MaxEmoji
  <2> DEFINE seqs == b.emoji
             l == Len(seqs)
             k == Min({l, n + MaxEmoji})
  <2>1. seqs \in Seq(Nat) /\ l \in Nat /\ l <= MaxEmoji /\ MaxEmoji \in Nat /\ l = Len(seqs) /\ n <= l
    BY <1>1, <1>5, RunsAssumption
  <2>2. those = SubSeq(seqs, n + 1, k) /\ these(x) = [j \in 1 .. n |-> IF j <= l THEN seqs[j] ELSE x]
    OBVIOUS
  <2> HIDE DEF seqs, l
  <2>3. k \in Nat /\ k <= l
    <3>1. n + MaxEmoji \in Nat
      BY <1>9, <2>1
    <3> QED
      BY <2>1, <3>1, MinBelow
  <2> HIDE DEF k, these, those
  <2>4. these(x) \in Seq(Nat) /\ Len(these(x)) = n
    <3>1. \A j \in 1 .. n : j <= l /\ seqs[j] \in Nat
      <4> TAKE j \in 1 .. n
      <4>1. j \in 1 .. Len(seqs) /\ j <= l
        BY <1>9, <2>1
      <4> QED
        BY <2>1, <4>1, ElementOfSeq
    <3>2. these(x) = [j \in 1 .. n |-> seqs[j]]
      BY <2>2, <3>1
    <3>3. these(x) \in [1 .. n -> Nat]
      BY <3>1, <3>2
    <3> QED
      BY <1>9, <3>3, ListOf
  <2>5. those \in Seq(Nat) /\ Len(those) <= k
    BY <1>9, <2>1, <2>2, <2>3, SomePart
  <2>6. Len(those) \in Nat
    BY <2>5, LenProperties
  <2> QED
    BY <1>9, <2>1, <2>3, <2>4, <2>5, <2>6
<1> HIDE DEF these, those
<1>11. PieceHolds(head(x))
  <2>1. head(x) \in Row /\ head(x).text = before /\ head(x).runs = left /\ head(x).emoji = these(x)
    BY <1>5, <1>6, <1>7, <1>8, <1>10 DEF Row
  <2> HIDE DEF head
  <2>2. Len(before) <= MaxText
    BY <1>2, <1>4, <1>5, <1>8, RunsAssumption
  <2> QED
    BY <1>6, <1>8, <1>10, <2>1, <2>2 DEF PieceHolds
<1>12. serial \in Nat /\ at \in 1 .. Len(rows) + 1
  BY <1>2
<1> HIDE DEF serial
<1>13. PieceHolds(tail)
  <2>1. CASE pos = Len(b.text)
    <3>1. tail = NewRow(serial, FALSE)
      BY <2>1
    <3> QED
      BY <1>12, <3>1, FreshHolds DEF RowHolds
  <2>2. CASE pos # Len(b.text)
    <3> DEFINE fresh == NewRow(serial, FALSE)
    <3>1. tail = rest
      BY <2>2
    <3>2. fresh \in Row
      BY <1>12, FreshHolds DEF RowHolds, PieceHolds
    <3> HIDE DEF fresh, tail
    <3>3. rest \in Row /\ rest.text = after /\ rest.runs = right /\ rest.emoji = those
      <4>1. rest = [fresh EXCEPT !.text = after, !.runs = right, !.emoji = those, !.runsDirty = TRUE]
        BY <1>7 DEF fresh
      <4> HIDE DEF rest
      <4> QED
        BY <1>6, <1>8, <1>10, <3>2, <4>1 DEF Row
    <3> HIDE DEF rest
    <3>4. Len(after) <= MaxText
      BY <1>2, <1>4, <1>5, <1>8, RunsAssumption
    <3> QED
      BY <1>6, <1>8, <1>10, <3>1, <3>3, <3>4 DEF PieceHolds
  <2> QED
    BY <2>1, <2>2
<1> HIDE DEF head, tail, rest
<1>14. RowHolds(ApplyRunStyles(head(x))) /\ RowHolds(ApplyRunStyles(tail))
  BY <1>11, <1>13, RestyledHolds
<1> DEFINE h == ApplyRunStyles(head(x))
           t == ApplyRunStyles(tail)
<1>15. list(x) \in Seq(SoundRows) /\ Len(list(x)) = Len(rows)
  <2>1. h \in SoundRows
    BY <1>14 DEF SoundRows, RowHolds, PieceHolds
  <2> HIDE DEF h
  <2>2. list(x) = [rows EXCEPT ![r] = h]
    BY DEF h
  <2> QED
    BY <1>2, <2>1, <2>2, ExceptSeq
<1>16. wants = [k \in 1 .. Len(list(x)) |-> wants[k]]
  <2> HIDE DEF list, kept
  <2> QED
    BY <1>2, <1>15
<1> HIDE DEF list, wants, below, at, kept
<1>17. RowsSound' /\ WantList'
  <2>1. Len(list(x)) >= 1 /\ Len(list(x)) < MaxRows /\ at \in 1 .. Len(list(x)) + 1
    BY <1>1, <1>2, <1>12, <1>15
  <2>2. rows' = Inserted(list(x), at, t) /\ want' = Inserted(wants, at, below) /\ RowHolds(t)
    BY <1>0, <1>1, <1>14
  <2> HIDE DEF t
  <2> QED
    BY <1>15, <1>16, <2>1, <2>2, RowMoreKeeps
<1>18. UndoHolds'
  BY <1>1, NoUndoHolds
<1>19. edits' \in 0 .. MaxEdits /\ lost' \in BOOLEAN
  BY <1>1, CountedKeeps DEF EditInv
<1> QED
  BY <1>17, <1>18, <1>19 DEF EditInv

(* A place inside a run, if it is inside any, is inside the run that RunAt
   finds there; the end of a run is inside none. *)
LEMMA InsideOne ==
    ASSUME NEW runs \in Seq(TextRun), NEW pos \in Nat, NEW j \in 1 .. Len(runs),
           RunStart(runs, j) < pos, pos < RunEnd(runs, j)
    PROVE  /\ j = RunAt(runs, pos)
           /\ \A i \in 1 .. Len(runs) : pos # RunEnd(runs, i)
<1> DEFINE i == RunAt(runs, pos)
<1>1. Len(runs) \in Nat /\ \A k \in 0 .. Len(runs) : RunEnd(runs, k) \in Nat
  BY RunEndIs, TextRunLengths
<1>2. /\ i \in 0 .. Len(runs) /\ (i > 0 => RunEnd(runs, i) >= pos)
      /\ RunEnd(runs, j) >= pos => i > 0 /\ i <= j
  BY RunAtIs
<1> HIDE DEF i
<1>3. j - 1 \in 0 .. Len(runs) /\ j \in 0 .. Len(runs) /\ RunEnd(runs, j - 1) < pos
  BY <1>1 DEF RunStart
<1>4. i > 0 /\ i <= j /\ RunEnd(runs, i) >= pos
  BY <1>1, <1>2, <1>3
<1>5. \A k \in 0 .. Len(runs) : k < j => RunEnd(runs, k) < pos
  <2> TAKE k \in 0 .. Len(runs)
  <2> SUFFICES ASSUME k < j PROVE RunEnd(runs, k) < pos
    OBVIOUS
  <2> DEFINE l == j - 1
  <2>1. l \in 0 .. Len(runs) /\ k \in 0 .. l /\ RunEnd(runs, l) < pos
    BY <1>1, <1>3
  <2> HIDE DEF l
  <2>2. RunEnd(runs, k) <= RunEnd(runs, l)
    BY <2>1, RunEndsRise, TextRunLengths
  <2>3. RunEnd(runs, k) \in Nat /\ RunEnd(runs, l) \in Nat
    BY <1>1, <2>1
  <2> QED
    BY <2>1, <2>2, <2>3
<1>6. i = j
  <2>1. RunEnd(runs, i) \in Nat
    BY <1>1, <1>2
  <2>2. ~(i < j)
    BY <1>2, <1>4, <1>5, <2>1
  <2> QED
    BY <1>1, <1>2, <1>4, <2>2
<1>7. \A k \in 1 .. Len(runs) : pos # RunEnd(runs, k)
  <2> TAKE k \in 1 .. Len(runs)
  <2>1. RunEnd(runs, k) \in Nat /\ RunEnd(runs, j) \in Nat /\ k \in 0 .. Len(runs)
    BY <1>1, <1>3
  <2>2. CASE k < j
    BY <1>5, <2>1, <2>2
  <2>3. CASE ~(k < j)
    <3>1. j \in 0 .. k
      BY <1>1, <2>3
    <3>2. RunEnd(runs, j) <= RunEnd(runs, k)
      BY <2>1, <3>1, RunEndsRise, TextRunLengths
    <3> QED
      BY <2>1, <3>2
  <2> QED
    BY <2>2, <2>3
<1> QED
  BY <1>6, <1>7 DEF i

LEMMA GroupEndIs ==
    ASSUME NEW r \in 1 .. Len(rows), Len(rows) \in Nat
    PROVE  GroupEnd(r) \in 1 .. Len(rows) + 1
<1> DEFINE T == {k \in r + 1 .. Len(rows) + 1 : k > Len(rows) \/ ~rows[k].cont}
<1>1. T \subseteq Nat /\ Len(rows) + 1 \in T
  OBVIOUS
<1>2. Min(T) \in T
  <2> HIDE DEF T
  <2> QED
    BY <1>1, MinIn
<1>3. GroupEnd(r) = Min(T)
  BY DEF GroupEnd
<1> QED
  BY <1>2, <1>3

(* The row with a link put in at a place. *)
Linked(b, left, link, right, pos, title) ==
    [b EXCEPT !.text = Splice(b.text, pos, pos, title), !.runs = left \o <<link>> \o right]

LEMMA LinkedHolds ==
    ASSUME NEW b, RowHolds(b), NEW pos \in 0 .. Len(b.text), NEW title \in Seq(STRING),
           Len(b.text) + Len(title) <= MaxText,
           NEW left \in Seq(TextRun), NEW right \in Seq(TextRun), NEW link \in TextRun,
           link.len = Len(title), Total(left) = pos, Total(right) = Len(b.text) - pos,
           Len(left) + 1 + Len(right) <= MaxRuns
    PROVE  PieceHolds(Linked(b, left, link, right, pos, title))
<1> DEFINE old == b.text
           text == Splice(old, pos, pos, title)
           one == <<link>>
           upto == left \o one
           runs == upto \o right
           new == Linked(b, left, link, right, pos, title)
<1>1. PieceHolds(b) /\ b \in Row /\ Len(b.emoji) <= MaxEmoji
  BY DEF RowHolds, PieceHolds
<1>2. /\ old \in Seq(STRING) /\ Len(old) \in Nat /\ Len(title) \in Nat /\ pos \in 0 .. Len(old)
      /\ Len(old) + Len(title) <= MaxText /\ MaxText \in Nat /\ pos \in Nat
  BY <1>1, PieceFields, LenProperties, RunsAssumption
<1>3. /\ Total(right) = Len(old) - pos
  OBVIOUS
<1>4. new = [b EXCEPT !.text = text, !.runs = runs]
  BY DEF Linked
<1> HIDE DEF old, new
<1>5. text \in Seq(STRING) /\ Len(text) = pos + Len(title) + (Len(old) - pos)
  <2>1. pos \in 0 .. pos
    BY <1>2
  <2> QED
    BY <1>2, <2>1, SpliceTyped
<1> HIDE DEF text
<1>6. one \in Seq(TextRun) /\ Len(one) = 1 /\ Total(one) = link.len
  BY OneRun, TextRunLengths
<1> HIDE DEF one
<1>7. /\ upto \in Seq(TextRun) /\ Len(upto) = Len(left) + Len(one) /\ Total(upto) = Total(left) + Total(one)
  BY <1>6, JoinedTotal, TextRunLengths
<1> HIDE DEF upto
<1>8. /\ runs \in Seq(TextRun) /\ Len(runs) = Len(upto) + Len(right)
      /\ Total(runs) = Total(upto) + Total(right)
  BY <1>7, JoinedTotal, TextRunLengths
<1> HIDE DEF runs
<1>9. Len(left) \in Nat /\ Len(right) \in Nat
  BY LenProperties
<1>10. Len(runs) <= MaxRuns
  BY <1>6, <1>7, <1>8, <1>9
<1>11. Total(runs) = Len(text) /\ Len(text) <= MaxText
  <2> DEFINE k == Len(old)
             l == Len(title)
  <2>1. k \in Nat /\ l \in Nat /\ k + l <= MaxText /\ Len(text) = pos + l + (k - pos)
    BY <1>2, <1>5
  <2>2. Total(runs) = pos + l + (k - pos)
    BY <1>3, <1>6, <1>7, <1>8
  <2> HIDE DEF k, l
  <2> QED
    BY <1>2, <2>1, <2>2
<1>12. new \in Row /\ new.text = text /\ new.runs = runs /\ new.emoji = b.emoji
  BY <1>1, <1>4, <1>5, <1>8 DEF Row
<1>13. PieceHolds(new)
  BY <1>1, <1>8, <1>10, <1>11, <1>12 DEF PieceHolds
<1> QED
  BY <1>13 DEF new

(* The link goes into row r of the list, or into a row of its own. *)
LEMMA LinkInKeeps ==
    ASSUME WantList, NEW r \in 1 .. Len(rows), Len(rows) \in 1 .. MaxRows,
           NEW list \in Seq(SoundRows), Len(list) = Len(rows),
           RowHolds(list[r]), Total(list[r].runs) = Len(list[r].text),
           NEW pos0 \in 0 .. Len(list[r].text), NEW page \in Pages, LinkIn(r, pos0, page, list)
    PROVE  RowsSound' /\ WantList'
<1> DEFINE b == list[r]
           n == Len(b.text)
           title == Title[page]
           i == RunAt(b.runs, pos0)
           in == 0 < i /\ RunStart(b.runs, i) < pos0 /\ pos0 < RunEnd(b.runs, i)
           pos == IF in /\ IsMention(b.runs[i]) THEN RunEnd(b.runs, i) ELSE pos0
           cuts == in /\ ~IsMention(b.runs[i])
           parts == IF pos = 0 THEN <<<<>>, b.runs>> ELSE SplitRunsAt(b.runs, pos)
           link == Run(Len(title), {}, PageLink(page), FALSE)
           extra == IF cuts THEN 2 ELSE 1
           fits == Len(b.text) + Len(title) <= MaxText /\ Len(b.runs) + extra <= MaxRuns
           new == Linked(b, parts[1], link, parts[2], pos, title)
           come == [c \in DOMAIN title |->
                        Seen(title[c], {}, PageLink(page), FALSE, 100 + edits, 0)]
           serial == Len(rows) + 1
           below == [NewRow(serial, FALSE) EXCEPT !.text = title, !.runs = <<link>>]
           at == GroupEnd(r)
<1>1. /\ fits => /\ rows' = [k \in DOMAIN list |-> IF k = r THEN ApplyRunStyles(new) ELSE list[k]]
                 /\ \E w : want' = [want EXCEPT ![r] = w]
      /\ ~fits => /\ Len(rows) < MaxRows
                  /\ rows' = Inserted(list, at, ApplyRunStyles(below))
                  /\ want' = Inserted(want, at, come)
  <2> DEFINE place == LinkPlace(b, pos0)
  <2>1. place.pos = pos /\ place.cuts = cuts
    BY DEF LinkPlace
  <2> HIDE DEF place, pos, cuts
  <2> QED
    BY <2>1 DEF LinkIn, Linked, place
<1>2. /\ Len(rows) \in Nat /\ DOMAIN list = 1 .. Len(list)
      /\ want = [k \in 1 .. Len(rows) |-> want[k]]
  BY LenProperties DEF WantList
<1>3. RowHolds(b) /\ Total(b.runs) = Len(b.text) /\ pos0 \in 0 .. n
  OBVIOUS
<1> HIDE DEF b
<1>4. /\ PieceHolds(b) /\ b \in Row /\ b.runs \in Seq(TextRun) /\ n \in Nat /\ Len(b.runs) \in Nat
      /\ Len(b.runs) <= MaxRuns /\ MaxRuns \in Nat \ {0}
  BY <1>3, PieceFields, RunsAssumption DEF RowHolds, PieceHolds
<1>5. title \in Seq(STRING) /\ Len(title) \in Nat /\ Len(title) <= MaxText
  <2>1. title \in Seq(STRING) /\ Len(title) <= MaxText
    BY InputAssumption
  <2> HIDE DEF title
  <2> QED
    BY <2>1, LenProperties
<1> HIDE DEF title
<1>6. link \in TextRun /\ link.len = Len(title)
  <2>1. PageLink(page) \in Links
    BY PageLinkTyped
  <2> DEFINE no == FALSE
             plain == {}
             l == Len(title)
             to == PageLink(page)
  <2>2. no \in BOOLEAN /\ plain \in Styles /\ l \in Nat /\ to \in Links
    BY <1>5, <2>1, StyleSets
  <2> HIDE DEF no, plain, l, to
  <2>3. Run(l, plain, to, no) \in TextRun /\ Run(l, plain, to, no).len = l
    BY <2>2, RunTyped
  <2> QED
    BY <2>3 DEF no, plain, l, to
<1> HIDE DEF link
<1>7. pos0 \in 0 .. n
  BY <1>3
<1>8. i \in 0 .. Len(b.runs)
  <2>1. pos0 \in Nat
    BY <1>4, <1>7
  <2> QED
    BY <1>4, <2>1, RunAtIs
<1>9. pos \in 0 .. n
  <2>1. CASE in /\ IsMention(b.runs[i])
    <3>1. i \in 1 .. Len(b.runs)
      BY <1>4, <1>8, <2>1
    <3>2. RunEnd(b.runs, i) \in Nat /\ RunEnd(b.runs, i) <= Total(b.runs)
      BY <1>4, <3>1, RunLies, TextRunLengths
    <3>3. pos = RunEnd(b.runs, i)
      BY <2>1
    <3> HIDE DEF pos
    <3> QED
      BY <1>3, <1>4, <3>2, <3>3
  <2>2. CASE ~(in /\ IsMention(b.runs[i]))
    <3>1. pos = pos0
      BY <2>2
    <3> QED
      BY <1>7, <3>1
  <2> QED
    BY <2>1, <2>2
(* Only a run that is no mention is cut in two. *)
<1>10. ASSUME NEW j \in 1 .. Len(b.runs), RunStart(b.runs, j) < pos, pos < RunEnd(b.runs, j)
       PROVE  cuts
  <2>1. pos \in Nat
    BY <1>4, <1>9
  <2>2. j = RunAt(b.runs, pos) /\ \A k \in 1 .. Len(b.runs) : pos # RunEnd(b.runs, k)
    <3> HIDE DEF pos
    <3> QED
      BY <1>4, <1>10, <2>1, InsideOne
  <2>3. ~(in /\ IsMention(b.runs[i]))
    <3> SUFFICES ASSUME in, IsMention(b.runs[i]) PROVE FALSE
      OBVIOUS
    <3>1. i \in 1 .. Len(b.runs) /\ pos = RunEnd(b.runs, i)
      BY <1>4, <1>8
    <3> HIDE DEF i, pos, in
    <3> QED
      BY <2>2, <3>1
  <2>4. pos = pos0
    BY <2>3
  <2>5. i = j
    BY <2>2, <2>4
  <2>6. 0 < i /\ RunStart(b.runs, i) < pos0 /\ pos0 < RunEnd(b.runs, i)
    <3>1. 0 < j
      OBVIOUS
    <3> HIDE DEF i, pos
    <3> QED
      BY <1>10, <2>4, <2>5, <3>1
  <2>7. in
    BY <2>6
  <2> HIDE DEF in, i
  <2> QED
    BY <2>3, <2>7
<1> HIDE DEF pos, i, in, cuts
<1>11. extra \in {1, 2} /\ (cuts => extra = 2)
  OBVIOUS
<1> HIDE DEF extra
<1>12. PICK left, right \in Seq(TextRun) :
          /\ parts = <<left, right>>
          /\ Total(left) = pos /\ Total(right) = Total(b.runs) - pos
          /\ \/ Len(left) + Len(right) = Len(b.runs)
             \/ Len(left) + Len(right) = Len(b.runs) + 1 /\ cuts
  <2>1. CASE pos = 0
    <3>1. <<>> \in Seq(TextRun) /\ Len(<<>>) = 0 /\ Total(<<>>) = 0
      BY NoRuns, TextRunLengths
    <3>2. parts = <<<<>>, b.runs>>
      BY <2>1
    <3>3. Total(b.runs) = Total(b.runs) - pos /\ 0 + Len(b.runs) = Len(b.runs)
      BY <1>3, <1>4, <2>1
    <3> DEFINE none == <<>>
    <3>4. /\ none \in Seq(TextRun) /\ parts = <<none, b.runs>> /\ Total(none) = pos
          /\ Len(none) + Len(b.runs) = Len(b.runs)
      BY <2>1, <3>1, <3>2, <3>3
    <3> HIDE DEF none, parts
    <3> QED
      BY <1>4, <3>3, <3>4
  <2>2. CASE pos # 0
    <3>1. pos \in 0 .. Total(b.runs)
      BY <1>3, <1>9
    <3>2. PICK left, right \in Seq(TextRun) :
             /\ SplitRunsAt(b.runs, pos) = <<left, right>>
             /\ Total(left) = pos /\ Total(right) = Total(b.runs) - pos
             /\ \/ Len(left) + Len(right) = Len(b.runs)
                \/ /\ Len(left) + Len(right) = Len(b.runs) + 1
                   /\ \E j \in 1 .. Len(b.runs) : RunStart(b.runs, j) < pos /\ pos < RunEnd(b.runs, j)
      BY <1>4, <3>1, SplitParts
    <3>3. parts = <<left, right>>
      BY <2>2, <3>2
    <3> HIDE DEF parts
    <3> QED
      BY <1>10, <3>2, <3>3
  <2> QED
    BY <2>1, <2>2
<1>13. parts[1] = left /\ parts[2] = right
  BY <1>12
<1> HIDE DEF parts
<1>14. CASE fits
  <2>1. Len(b.text) + Len(title) <= MaxText /\ Len(b.runs) + extra <= MaxRuns
    BY <1>14
  <2>2. Len(left) + 1 + Len(right) <= MaxRuns
    <3>1. Len(left) \in Nat /\ Len(right) \in Nat
      BY <1>12, LenProperties
    <3> QED
      BY <1>4, <1>11, <1>12, <2>1, <3>1
  <2>3. Total(right) = Len(b.text) - pos
    BY <1>3, <1>12
  <2> DEFINE put == Linked(b, left, link, right, pos, title)
  <2>4. PieceHolds(put)
    BY <1>3, <1>5, <1>6, <1>9, <1>12, <2>1, <2>2, <2>3, LinkedHolds
  <2>5. new = put
    BY <1>13
  <2> HIDE DEF new, put
  <2>6. RowHolds(ApplyRunStyles(new))
    BY <2>4, <2>5, RestyledHolds
  <2> DEFINE row == ApplyRunStyles(new)
  <2>7. rows' = [k \in 1 .. Len(list) |-> IF k = r THEN row ELSE list[k]]
    BY <1>1, <1>2, <1>14
  <2>8. row \in SoundRows
    BY <2>6 DEF SoundRows, RowHolds, PieceHolds
  <2> HIDE DEF row
  <2>9. \A k \in 1 .. Len(list) : list[k] \in SoundRows
    BY ElementOfSeq
  <2>10. rows' \in [1 .. Len(list) -> SoundRows]
    BY <2>7, <2>8, <2>9
  <2>11. rows' \in Seq(SoundRows) /\ Len(rows') = Len(rows)
    BY <1>2, <2>10, ListOf
  <2>12. RowsSound'
    BY <1>2, <2>11 DEF RowsSound
  <2>13. WantList'
    <3>1. PICK w : want' = [want EXCEPT ![r] = w]
      BY <1>1, <1>14
    <3>2. want' = [k \in 1 .. Len(rows) |-> want'[k]]
      BY <1>2, <3>1
    <3> QED
      BY <2>11, <3>2 DEF WantList
  <2> QED
    BY <2>12, <2>13
<1>15. CASE ~fits
  <2> DEFINE row == ApplyRunStyles(below)
  <2>1. /\ Len(rows) < MaxRows /\ rows' = Inserted(list, at, row) /\ want' = Inserted(want, at, come)
    BY <1>1, <1>15
  <2>3. at \in 1 .. Len(list) + 1
    BY <1>2, GroupEndIs
  <2>4. RowHolds(row)
    <3> DEFINE one == <<link>>
               fresh == NewRow(serial, FALSE)
    <3>1. one \in Seq(TextRun) /\ Len(one) = 1 /\ Total(one) = link.len
      BY <1>6, OneRun, TextRunLengths
    <3>2. serial \in Nat
      BY <1>2
    <3> HIDE DEF serial
    <3>3. fresh \in Row /\ PieceHolds(fresh)
      BY <3>2, FreshHolds DEF RowHolds, PieceHolds
    <3>4. below = [fresh EXCEPT !.text = title, !.runs = one]
      OBVIOUS
    <3> HIDE DEF one, fresh, below
    <3>5. below \in Row /\ below.text = title /\ below.runs = one /\ below.emoji = fresh.emoji
      BY <1>5, <3>1, <3>3, <3>4 DEF Row
    <3>6. 1 <= MaxRuns
      BY <1>4
    <3>7. PieceHolds(below)
      BY <1>5, <1>6, <3>1, <3>3, <3>5, <3>6 DEF PieceHolds
    <3> QED
      BY <3>7, RestyledHolds
  <2> HIDE DEF row, at, come
  <2>5. Len(list) >= 1 /\ Len(list) < MaxRows /\ want = [k \in 1 .. Len(list) |-> want[k]]
    BY <1>2, <2>1
  <2>6. RowsSound' /\ WantList'
    BY <2>1, <2>3, <2>4, <2>5, RowMoreKeeps
  <2> QED
    BY <2>6
<1> QED
  BY <1>14, <1>15

(* What a save gets to keeps its text, and has runs for all of it if it had
   them or they are read anew. *)
LEMMA PreparedKeeps ==
    ASSUME NEW list \in Seq(SoundRows), NEW reached, NEW short
    PROVE  LET saved == Prepared(list, reached, short)
           IN  /\ saved \in Seq(SoundRows) /\ Len(saved) = Len(list)
               /\ \A r \in 1 .. Len(list) :
                     /\ saved[r].text = list[r].text
                     /\ r \notin short /\ Total(list[r].runs) = Len(list[r].text)
                           => Total(saved[r].runs) = Len(saved[r].text)
<1> DEFINE n == Len(list)
           saved == Prepared(list, reached, short)
           row(r) == IF r \notin reached THEN list[r]
                     ELSE IF r \in short THEN NoMemory(list[r]) ELSE RebuildRunsFromTE(list[r])
<1>1. n \in Nat /\ DOMAIN list = 1 .. n /\ \A r \in 1 .. n : RowHolds(list[r])
  BY SoundFields
<1>2. saved = [r \in 1 .. n |-> row(r)]
  BY <1>1 DEF Prepared
<1> HIDE DEF saved
<1>3. ASSUME NEW r \in 1 .. n
      PROVE  /\ row(r) \in SoundRows /\ row(r).text = list[r].text
             /\ r \notin short /\ Total(list[r].runs) = Len(list[r].text)
                   => Total(row(r).runs) = Len(row(r).text)
  <2> DEFINE b == list[r]
             bare == NoMemory(b)
             full == RebuildRunsFromTE(b)
  <2>1. RowHolds(b)
    BY <1>1
  <2>2. row(r) = IF r \notin reached THEN b ELSE IF r \in short THEN bare ELSE full
    OBVIOUS
  <2> HIDE DEF b, row
  <2>3. RowHolds(bare) /\ bare.text = b.text
    BY <2>1, ForgottenHolds
  <2>4. RowHolds(full) /\ full.text = b.text /\ (Total(b.runs) = Len(b.text) => Total(full.runs) = Len(full.text))
    BY <2>1, RebuiltHolds
  <2> HIDE DEF bare, full
  <2>5. RowHolds(row(r)) /\ row(r).text = b.text
    BY <2>1, <2>2, <2>3, <2>4
  <2>6. row(r) \in SoundRows
    BY <2>5 DEF SoundRows, RowHolds, PieceHolds
  <2>7. r \notin short /\ Total(b.runs) = Len(b.text) => Total(row(r).runs) = Len(row(r).text)
    BY <2>2, <2>4
  <2> QED
    BY <2>5, <2>6, <2>7 DEF b
<1> HIDE DEF row
<1>4. saved \in [1 .. n -> SoundRows] /\ \A r \in 1 .. n : saved[r] = row(r)
  BY <1>2, <1>3
<1>5. saved \in Seq(SoundRows) /\ Len(saved) = n
  BY <1>1, <1>4, ListOf
<1> QED
  BY <1>3, <1>4, <1>5 DEF saved

(* The rows shown anew. *)
LEMMA AllRestyled ==
    ASSUME NEW list \in Seq(SoundRows), NEW freed
    PROVE  LET now == [k \in 1 .. Len(list) |-> IF freed THEN ApplyRunStyles(list[k]) ELSE list[k]]
           IN  /\ now \in Seq(SoundRows) /\ Len(now) = Len(list)
               /\ \A k \in 1 .. Len(list) : now[k].text = list[k].text /\ now[k].runs = list[k].runs
<1> DEFINE n == Len(list)
           row(k) == IF freed THEN ApplyRunStyles(list[k]) ELSE list[k]
           now == [k \in 1 .. n |-> row(k)]
<1>1. n \in Nat /\ \A k \in 1 .. n : RowHolds(list[k])
  BY SoundFields
<1>2. ASSUME NEW k \in 1 .. n
      PROVE  row(k) \in SoundRows /\ row(k).text = list[k].text /\ row(k).runs = list[k].runs
  <2> DEFINE b == list[k]
             shown == ApplyRunStyles(b)
  <2>1. RowHolds(b) /\ PieceHolds(b)
    BY <1>1 DEF RowHolds
  <2>2. row(k) = IF freed THEN shown ELSE b
    OBVIOUS
  <2> HIDE DEF b, row
  <2>3. RowHolds(shown) /\ shown.text = b.text /\ shown.runs = b.runs
    BY <2>1, RestyledHolds
  <2> HIDE DEF shown
  <2>4. RowHolds(row(k)) /\ row(k).text = b.text /\ row(k).runs = b.runs
    BY <2>1, <2>2, <2>3
  <2> QED
    BY <2>4 DEF SoundRows, RowHolds, PieceHolds, b
<1> HIDE DEF row
<1>3. now \in [1 .. n -> SoundRows]
  BY <1>2
<1>4. \A k \in 1 .. n : now[k] = row(k)
  OBVIOUS
<1> HIDE DEF now
<1>5. now \in Seq(SoundRows) /\ Len(now) = n
  BY <1>1, <1>3, ListOf
<1>6. /\ now \in Seq(SoundRows) /\ Len(now) = Len(list)
      /\ \A k \in 1 .. Len(list) : now[k].text = list[k].text /\ now[k].runs = list[k].runs
  BY <1>2, <1>4, <1>5
<1> QED
  BY <1>6 DEF now, row

LEMMA InsertPageLinkKeeps ==
    ASSUME EditInv, "link" \notin LowMemory, edits < MaxEdits, NEW r \in DOMAIN rows,
           NEW pos \in 0 .. Len(rows[r].text), NEW page \in Pages, InsertPageLink(r, pos, page)
    PROVE  EditInv'
<1> DEFINE dirty == [rows[r] EXCEPT !.runsDirty = TRUE]
           b == RebuildRunsFromTE(dirty)
           first == [rows EXCEPT ![r] = b]
           saved(reached, short) == Prepared(first, reached, short)
           list(freed, reached, short) ==
               [k \in DOMAIN rows |-> IF freed THEN ApplyRunStyles(saved(reached, short)[k])
                                      ELSE saved(reached, short)[k]]
<1>1. /\ undo' = NoUndo
      /\ \E freed, reached, short, gone :
            /\ short \subseteq Short(first)
            /\ \/ LinkIn(r, pos, page, list(freed, reached, short))
               \/ rows' = list(freed, reached, short) /\ UNCHANGED want
            /\ Counted(gone)
  <2> DEFINE bare == {FALSE} \cup {TRUE : x \in {"link"} \cap LowMemory}
             freeing == {FALSE} \cup {TRUE : x \in {"list"} \cap LowMemory}
             begun(none) == [rows EXCEPT ![r] = IF none THEN NoMemory(dirty) ELSE RebuildRunsFromTE(dirty)]
             due(none) == {k \in DOMAIN rows : begun(none)[k].runsDirty}
             done(none, freed, reached, short) ==
                 [k \in DOMAIN rows |->
                     IF freed THEN ApplyRunStyles(Prepared(begun(none), reached, short)[k])
                     ELSE Prepared(begun(none), reached, short)[k]]
  <2>1. PICK none \in bare, freed \in freeing :
           /\ none => TakesMemory(dirty)
           /\ \E reached \in SUBSET due(none) : \E short \in SUBSET (reached \cap Short(begun(none))) :
                 /\ freed => \A k \in due(none) \ reached : Steady(k)
                 /\ \/ LinkIn(r, pos, page, done(none, freed, reached, short))
                    \/ rows' = done(none, freed, reached, short) /\ UNCHANGED want
                 /\ Counted(none \/ short # {})
    BY DEF InsertPageLink
  <2>2. none = FALSE
    OBVIOUS
  <2>3. begun(none) = first
    BY <2>2
  <2> HIDE DEF begun, first
  <2>4. PICK reached \in SUBSET due(none) : \E short \in SUBSET (reached \cap Short(begun(none))) :
           /\ \/ LinkIn(r, pos, page, done(none, freed, reached, short))
              \/ rows' = done(none, freed, reached, short) /\ UNCHANGED want
           /\ Counted(none \/ short # {})
    BY <2>1
  <2>5. PICK short \in SUBSET (reached \cap Short(begun(none))) :
           /\ \/ LinkIn(r, pos, page, done(none, freed, reached, short))
              \/ rows' = done(none, freed, reached, short) /\ UNCHANGED want
           /\ Counted(none \/ short # {})
    BY <2>4
  <2>6. done(none, freed, reached, short) = list(freed, reached, short)
    BY <2>3
  <2>7. short \subseteq Short(first)
    BY <2>3
  <2> HIDE DEF done, list
  <2>8. undo' = NoUndo
    BY DEF InsertPageLink
  <2> QED
    BY <2>5, <2>6, <2>7, <2>8
<1>2. PICK freed, reached, short, gone :
         /\ short \subseteq Short(first)
         /\ \/ LinkIn(r, pos, page, list(freed, reached, short))
            \/ rows' = list(freed, reached, short) /\ UNCHANGED want
         /\ Counted(gone)
  BY <1>1
<1>3. /\ r \in 1 .. Len(rows) /\ RowHolds(rows[r])
      /\ rows \in Seq(SoundRows) /\ Len(rows) \in 1 .. MaxRows /\ Len(rows) \in Nat
      /\ DOMAIN rows = 1 .. Len(rows)
  BY RowIs, SoundFields DEF EditInv, RowsSound
<1>4. /\ RowHolds(b) /\ b.text = rows[r].text /\ Total(b.runs) = Len(b.text)
      /\ b.runsDirty => b.text = <<>>
  <2> DEFINE row == rows[r]
  <2>1. RowHolds(row) /\ row \in Row
    BY <1>3 DEF RowHolds, PieceHolds
  <2> HIDE DEF row
  <2>2. /\ dirty = [row EXCEPT !.runsDirty = TRUE]
    BY DEF row
  <2> HIDE DEF dirty
  <2>3. /\ dirty \in Row /\ dirty.text = row.text /\ dirty.runs = row.runs /\ dirty.emoji = row.emoji
        /\ dirty.face = row.face /\ dirty.runsDirty = TRUE
    BY <2>1, <2>2 DEF Row
  <2>4. RowHolds(dirty)
    BY <2>1, <2>3 DEF RowHolds, PieceHolds
  <2>5. /\ RowHolds(b) /\ b.text = dirty.text
        /\ dirty.runsDirty => Total(b.runs) = Len(b.text)
        /\ b.runsDirty => dirty.text = <<>>
    BY <2>4, RebuiltHolds
  <2> QED
    BY <2>3, <2>5 DEF row
<1> HIDE DEF b, dirty
<1>5. first \in Seq(SoundRows) /\ Len(first) = Len(rows) /\ first[r] = b
  <2>1. b \in SoundRows
    BY <1>4 DEF SoundRows, RowHolds, PieceHolds
  <2> QED
    BY <1>3, <2>1, ExceptSeq
<1> HIDE DEF first
<1>6. r \notin short
  <2> SUFFICES ASSUME r \in short PROVE FALSE
    OBVIOUS
  <2>1. TakesMemory(first[r])
    BY <1>2 DEF Short
  <2> QED
    BY <1>4, <1>5, <2>1 DEF TakesMemory
<1> DEFINE ready == saved(reached, short)
<1>7. /\ ready \in Seq(SoundRows) /\ Len(ready) = Len(rows)
      /\ ready[r].text = b.text /\ Total(ready[r].runs) = Len(ready[r].text)
  <2>1. LET done == Prepared(first, reached, short)
        IN  /\ done \in Seq(SoundRows) /\ Len(done) = Len(first)
            /\ \A k \in 1 .. Len(first) :
                  /\ done[k].text = first[k].text
                  /\ k \notin short /\ Total(first[k].runs) = Len(first[k].text)
                        => Total(done[k].runs) = Len(done[k].text)
    BY <1>5, PreparedKeeps
  <2> QED
    BY <1>3, <1>4, <1>5, <1>6, <2>1
<1> DEFINE now == list(freed, reached, short)
<1>8. now = [k \in 1 .. Len(ready) |-> IF freed THEN ApplyRunStyles(ready[k]) ELSE ready[k]]
  BY <1>3, <1>7
<1> HIDE DEF saved, list, ready
<1>9. /\ now \in Seq(SoundRows) /\ Len(now) = Len(rows)
      /\ now[r].text = b.text /\ Total(now[r].runs) = Len(now[r].text)
  <2>1. LET done == [k \in 1 .. Len(ready) |-> IF freed THEN ApplyRunStyles(ready[k]) ELSE ready[k]]
        IN  /\ done \in Seq(SoundRows) /\ Len(done) = Len(ready)
            /\ \A k \in 1 .. Len(ready) : done[k].text = ready[k].text /\ done[k].runs = ready[k].runs
    BY <1>7, AllRestyled
  <2> HIDE DEF now
  <2> QED
    BY <1>3, <1>7, <1>8, <2>1
<1>10. \/ LinkIn(r, pos, page, now)
       \/ rows' = now /\ UNCHANGED want
  BY <1>2
<1> HIDE DEF now
<1>11. RowHolds(now[r]) /\ pos \in 0 .. Len(now[r].text)
  <2>1. \A k \in 1 .. Len(now) : RowHolds(now[k])
    BY <1>9, SoundFields
  <2> QED
    BY <1>3, <1>4, <1>9, <2>1
<1>12. WantList
  BY DEF EditInv
<1>13. RowsSound' /\ WantList'
  <2>1. CASE LinkIn(r, pos, page, now)
    BY <1>3, <1>9, <1>11, <1>12, <2>1, LinkInKeeps
  <2>2. CASE rows' = now /\ UNCHANGED want
    <3>1. RowsSound'
      BY <1>3, <1>9, <2>2 DEF RowsSound
    <3>2. want' = [k \in 1 .. Len(rows') |-> want'[k]]
      BY <1>9, <1>12, <2>2 DEF WantList
    <3> QED
      BY <3>1, <3>2 DEF WantList
  <2> QED
    BY <1>10, <2>1, <2>2
<1>14. UndoHolds'
  BY <1>1, NoUndoHolds
<1>15. edits' \in 0 .. MaxEdits /\ lost' \in BOOLEAN
  BY <1>2, CountedKeeps DEF EditInv
<1> QED
  BY <1>13, <1>14, <1>15 DEF EditInv

(* DoUndo: what the snapshot holds fits the row it goes back to. *)
LEMMA UndoKeeps ==
    ASSUME EditInv, edits < MaxEdits, Undo
    PROVE  EditInv'
<1>1. PICK r \in DOMAIN rows :
         LET b == rows[r]
         IN  /\ Edited(r, ApplyRunStyles([b EXCEPT !.text = undo.text, !.runs = undo.runs,
                                                   !.emoji = undo.emoji, !.runsDirty = TRUE]),
                       undo.want)
             /\ undo' = [serial |-> b.serial, typing |-> FALSE, text |-> b.text, runs |-> b.runs,
                         emoji |-> b.emoji, want |-> want[r]]
             /\ Counted(FALSE)
  BY DEF Undo
<1> DEFINE b == rows[r]
           back == [b EXCEPT !.text = undo.text, !.runs = undo.runs,
                             !.emoji = undo.emoji, !.runsDirty = TRUE]
           row == ApplyRunStyles(back)
<1>2. r \in 1 .. Len(rows) /\ PieceHolds(b)
  BY RowIs
<1>3. Edited(r, row, undo.want) /\ Counted(FALSE)
  BY <1>1
<1>4. undo' = [serial |-> b.serial, typing |-> FALSE, text |-> b.text, runs |-> b.runs,
               emoji |-> b.emoji, want |-> want[r]]
  BY <1>1
<1> HIDE DEF b
<1>5. PieceHolds(back)
  <2>1. SnapshotHolds(undo) /\ b \in Row
    BY <1>2 DEF EditInv, UndoHolds, PieceHolds
  <2>2. /\ undo.text \in Seq(STRING) /\ undo.runs \in Seq(TextRun) /\ undo.emoji \in Seq(Nat)
        /\ Len(undo.text) <= MaxText /\ Len(undo.emoji) <= MaxEmoji /\ Len(undo.runs) <= MaxRuns
        /\ undo.runs # <<>> => Total(undo.runs) = Len(undo.text)
    BY <2>1 DEF SnapshotHolds
  <2>3. /\ back \in Row /\ back.text = undo.text /\ back.runs = undo.runs
        /\ back.emoji = undo.emoji
    BY <2>1, <2>2 DEF Row
  <2> HIDE DEF back
  <2> QED
    BY <2>2, <2>3 DEF PieceHolds
<1> HIDE DEF back
<1>6. RowHolds(row)
  BY <1>5, RestyledHolds
<1> HIDE DEF row
<1>7. RowsSound' /\ WantList'
  <2>1. RowsSound /\ WantList
    BY DEF EditInv
  <2> QED
    BY <1>2, <1>3, <1>6, <2>1, OneRowKeeps
<1>8. UndoHolds'
  <2> DEFINE typing == FALSE
             old == [serial |-> b.serial, typing |-> typing, text |-> b.text, runs |-> b.runs,
                     emoji |-> b.emoji, want |-> want[r]]
  <2>1. undo' = old
    BY <1>4
  <2> HIDE DEF typing
  <2>2. SnapshotHolds(old)
    BY <1>2, SnapshotOf
  <2> HIDE DEF old
  <2>3. SnapshotHolds(undo')
    BY <2>1, <2>2
  <2> QED
    BY <2>3 DEF UndoHolds, SnapshotHolds
<1>9. edits' \in 0 .. MaxEdits /\ lost' \in BOOLEAN
  BY <1>3, CountedKeeps DEF EditInv
<1> QED
  BY <1>7, <1>8, <1>9 DEF EditInv

(* PrepareGroup: the runs of every row are those of its text. *)
LEMMA SaveKeeps ==
    ASSUME EditInv, Save
    PROVE  EditInv'
<1>1. PICK short : rows' = Prepared(rows, DOMAIN rows, short)
  BY DEF Save
<1>2. undo' = undo /\ want' = want /\ edits' = edits /\ lost' \in BOOLEAN
  BY DEF Save
<1>3. rows \in Seq(SoundRows) /\ Len(rows) \in 1 .. MaxRows
  BY DEF EditInv, RowsSound
<1>4. rows' \in Seq(SoundRows) /\ Len(rows') = Len(rows)
  BY <1>1, <1>3, PreparedKeeps
<1>5. RowsSound'
  BY <1>3, <1>4 DEF RowsSound
<1>6. WantList'
  <2>1. want = [r \in 1 .. Len(rows) |-> want[r]]
    BY DEF EditInv, WantList
  <2>2. want' = [r \in 1 .. Len(rows') |-> want'[r]]
    BY <1>2, <1>4, <2>1
  <2> QED
    BY <2>2 DEF WantList
<1>7. UndoHolds'
  <2>1. SnapshotHolds(undo')
    BY <1>2 DEF EditInv, UndoHolds
  <2> QED
    BY <2>1 DEF UndoHolds, SnapshotHolds
<1>8. edits' \in 0 .. MaxEdits
  BY <1>2 DEF EditInv
<1> QED
  BY <1>2, <1>5, <1>6, <1>7, <1>8 DEF EditInv

-----------------------------------------------------------------------------
(* The specification.                                                      *)

LEMMA InitHolds == Init => EditInv
<1> SUFFICES ASSUME Init PROVE EditInv
  OBVIOUS
<1>1. PICK block \in Blocks :
         rows = ParseRichTextPieces(block) /\ want = WantLoaded(block, rows)
  BY DEF Init
<1>2. undo = NoUndo /\ edits = 0 /\ lost = FALSE
  BY DEF Init
<1>3. RowsSound
  <2>1. block.items \in Seq(Item)
    BY InputAssumption
  <2>2. /\ ParseRichTextPieces(block) \in Seq(SoundRows)
        /\ Len(ParseRichTextPieces(block)) \in 1 .. MaxRows
    BY <2>1, ParsedSound
  <2> QED
    BY <1>1, <2>2 DEF RowsSound
<1>4. WantList
  <2>1. DOMAIN rows = 1 .. Len(rows)
    BY <1>3, SoundFields DEF RowsSound
  <2>2. \E f : want = [r \in DOMAIN rows |-> f[r]]
    <3>1. WantLoaded(block, rows) = [r \in DOMAIN rows |-> WantLoaded(block, rows)[r]]
      BY DEF WantLoaded
    <3> QED
      BY <1>1, <3>1
  <2> QED
    BY <2>1, <2>2 DEF WantList
<1>5. UndoHolds
  <2>1. <<>> \in Seq(STRING) /\ <<>> \in Seq(TextRun) /\ <<>> \in Seq(Nat) /\ Len(<<>>) = 0
    BY EmptySeq
  <2>2. 0 <= MaxText /\ 0 <= MaxEmoji /\ 0 <= MaxRuns
    BY RunsAssumption
  <2> QED
    BY <1>2, <2>1, <2>2 DEF NoUndo, UndoHolds, SnapshotHolds
<1>6. edits \in 0 .. MaxEdits
  BY <1>2, EditingAssumption
<1>7. lost \in BOOLEAN
  BY <1>2
<1> QED
  BY <1>3, <1>4, <1>5, <1>6, <1>7 DEF EditInv

LEMMA NextHolds ==
    ASSUME ~Unsequenced, "link" \notin LowMemory
    PROVE  EditInv /\ [Next]_vars => EditInv'
<1> SUFFICES ASSUME EditInv, [Next]_vars PROVE EditInv'
  OBVIOUS
<1>1. CASE edits < MaxEdits /\ Edit
  <2>1. CASE Undo
    BY <1>1, <2>1, UndoKeeps
  <2>2. ASSUME NEW r \in DOMAIN rows, NEW s \in 0 .. Len(rows[r].text),
               NEW e \in s .. Len(rows[r].text),
               \/ \E ch \in Keys : Type(r, s, e, ch)
               \/ \E ins \in Pastes : Paste(r, s, e, ins)
               \/ PickEmoji(r, s, e)
               \/ \E key \in {"backspace", "delete"} : Erase(r, s, e, key)
               \/ \E which \in {"bold", "underline"} : Toggle(r, s, e, which)
               \/ Return(r, s, e)
        PROVE  EditInv'
    <3>1. ASSUME NEW ch \in Keys, Type(r, s, e, ch) PROVE EditInv'
      BY <1>1, <3>1, TypeKeeps
    <3>5. ASSUME NEW ins \in Pastes, Paste(r, s, e, ins) PROVE EditInv'
      BY <1>1, <3>5, PasteKeeps
    <3>6. CASE PickEmoji(r, s, e)
      BY <1>1, <3>6, PickEmojiKeeps
    <3>2. ASSUME NEW key \in {"backspace", "delete"}, Erase(r, s, e, key) PROVE EditInv'
      BY <1>1, <3>2, EraseKeeps
    <3>3. ASSUME NEW which \in {"bold", "underline"}, Toggle(r, s, e, which) PROVE EditInv'
      BY <1>1, <3>3, ToggleKeeps
    <3>4. CASE Return(r, s, e)
      BY <1>1, <3>4, ReturnKeeps
    <3> QED
      BY <2>2, <3>1, <3>2, <3>3, <3>4, <3>5, <3>6
  <2>3. ASSUME NEW r \in DOMAIN rows, NEW pos \in 0 .. Len(rows[r].text), NEW page \in Pages,
               InsertPageLink(r, pos, page)
        PROVE  EditInv'
    BY <1>1, <2>3, InsertPageLinkKeeps
  <2>4. ASSUME NEW r \in DOMAIN rows, NEW ch \in Keys, TypeBelow(r, ch) PROVE EditInv'
    BY <1>1, <2>4, TypeBelowKeeps
  <2> QED
    BY <1>1, <2>1, <2>2, <2>3, <2>4 DEF Edit
<1>2. CASE Save
  BY <1>2, SaveKeeps
<1>3. CASE UNCHANGED vars
  <2>1. rows' = rows /\ undo' = undo /\ want' = want /\ edits' = edits /\ lost' = lost
    BY <1>3 DEF vars
  <2> QED
    BY <2>1 DEF EditInv, RowsSound, WantList, UndoHolds, SnapshotHolds, SoundRows, RowHolds, PieceHolds
<1> QED
  BY <1>1, <1>2, <1>3 DEF Next

(* The rows, the step back and what the user sees, as they are between any *)
(* two edits.  Return in a row with unsequenced emoji is left out, as it    *)
(* counts more sequences than a row has room for (content_events.cpp:367),  *)
(* and so is a page link without memory for the row's styles, which goes    *)
(* into a row that has just lost its runs (block_ops.cpp:1213).             *)
THEOREM EditInvariant ==
    ASSUME ~Unsequenced, "link" \notin LowMemory
    PROVE  Spec => []EditInv
BY InitHolds, NextHolds, PTL DEF Spec

(* However a block comes in from Notion, and whatever is typed, pasted,    *)
(* erased, styled, cut by Return, linked, taken back or saved, in any      *)
(* order: no row outgrows kMaxTextLen, kMaxEmoji or kMaxRuns, the styles   *)
(* TextEdit shows are those of its characters, and the rows never outgrow  *)
(* the page's table.                                                       *)
THEOREM TextTyped ==
    ASSUME ~Unsequenced, "link" \notin LowMemory
    PROVE  Spec => []TypeOK
BY EditInvariant, InvHolds, PTL

(* Through every one of those edits, undo included, a row that has runs    *)
(* has one for every character: the save never takes a row's styles, links *)
(* and mentions off because its runs come out short (rich_text_json.cpp,   *)
(* AppendRichItems).                                                       *)
THEOREM RunsMatch ==
    ASSUME ~Unsequenced, "link" \notin LowMemory
    PROVE  Spec => []RunsMatchText
BY EditInvariant, InvHolds, PTL
=============================================================================
