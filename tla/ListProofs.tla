---------------------------- MODULE ListProofs -----------------------------
(***************************************************************************)
(* What the proofs of several components need.  Induction over the         *)
(* naturals about sets instead of predicates, so that it can be used       *)
(* without instantiating an operator; functions defined by recursion;      *)
(* parts of lists; and what the stacks of Back and Forward keep, whatever  *)
(* they hold: pages in NavHistory, headers in Session.                     *)
(***************************************************************************)
EXTENDS NavStacks, SequenceTheorems, NaturalsInduction, WellFoundedInduction, TLAPS

LEMMA LtWellFounded == IsWellFoundedOn({ss \in Nat \X Nat : ss[1] < ss[2]}, Nat)
BY NatLessThanWellFounded DEF OpToRel

(* A set of numbers that is not empty has a least one. *)
LEMMA HasLeast ==
    ASSUME NEW T, T \subseteq Nat, T # {}
    PROVE  \E x \in T : \A y \in T : x <= y
<1> DEFINE R == {ss \in Nat \X Nat : ss[1] < ss[2]}
<1>1. PICK x \in T : \A y \in T : <<y, x>> \notin R
  BY LtWellFounded, WFMin
<1>2. \A y \in T : ~(y < x)
  BY <1>1, T \subseteq Nat
<1> QED
  BY <1>2

(* A set with 0, and with each number the next, has all numbers. *)
LEMMA AllNumbers ==
    ASSUME NEW T, 0 \in T, \A n \in Nat : n \in T => n + 1 \in T
    PROVE  Nat \subseteq T
<1> DEFINE lack == Nat \ T
<1> SUFFICES ASSUME lack # {} PROVE FALSE
  OBVIOUS
<1>1. PICK n \in lack : \A m \in lack : n <= m
  BY HasLeast
<1>2. n # 0
  OBVIOUS
<1>3. n - 1 \in Nat /\ n - 1 \notin lack
  BY <1>1, <1>2
<1> QED
  BY <1>3

-----------------------------------------------------------------------------
(* Among.                                                                  *)

(* f[i] is what Among keeps of the first i elements of s. *)
Keeping(s, K, n, f) ==
    f = [i \in 0 .. n |-> IF i = 0 THEN <<>>
                          ELSE IF s[i] \in K THEN Append(f[i - 1], s[i]) ELSE f[i - 1]]

LEMMA KeepingExists ==
    ASSUME NEW s, NEW K, NEW n \in Nat
    PROVE  \E f : Keeping(s, K, n, f)
<1> DEFINE T == {k \in Nat : \E f : Keeping(s, K, k, f)}
<1>1. 0 \in T
  <2> DEFINE f == [i \in 0 .. 0 |-> <<>>]
  <2>1. Keeping(s, K, 0, f)
    BY DEF Keeping
  <2> QED
    BY <2>1
<1>2. ASSUME NEW k \in Nat, k \in T
      PROVE  k + 1 \in T
  <2>1. PICK f : Keeping(s, K, k, f)
    BY <1>2
  <2> DEFINE last == IF s[k + 1] \in K THEN Append(f[k], s[k + 1]) ELSE f[k]
             g == [i \in 0 .. k + 1 |-> IF i = k + 1 THEN last ELSE f[i]]
             h == [i \in 0 .. k + 1 |->
                      IF i = 0 THEN <<>>
                      ELSE IF s[i] \in K THEN Append(g[i - 1], s[i]) ELSE g[i - 1]]
  <2>2. \A i \in 0 .. k : f[i] = IF i = 0 THEN <<>>
                           ELSE IF s[i] \in K THEN Append(f[i - 1], s[i]) ELSE f[i - 1]
    BY <2>1 DEF Keeping
  <2>3. \A i \in 0 .. k + 1 : g[i] = IF i = 0 THEN <<>>
                           ELSE IF s[i] \in K THEN Append(g[i - 1], s[i]) ELSE g[i - 1]
    <3>1. \A i \in 0 .. k : g[i] = f[i]
      OBVIOUS
    <3>2. g[k + 1] = last
      OBVIOUS
    <3> QED
      BY <2>2, <3>1, <3>2
  <2>4. g = h
    <3> HIDE DEF last
    <3> QED
      BY <2>3
  <2>5. Keeping(s, K, k + 1, g)
    BY <2>4 DEF Keeping
  <2> QED
    BY <2>5
<1> HIDE DEF T
<1>3. Nat \subseteq T
  BY <1>1, <1>2, AllNumbers
<1> QED
  BY <1>3 DEF T

LEMMA AmongIsKept ==
    ASSUME NEW s, NEW K, Len(s) \in Nat
    PROVE  \E f : Keeping(s, K, Len(s), f) /\ Among(s, K) = f[Len(s)]
<1> DEFINE n == Len(s)
           f == CHOOSE g : g = [i \in 0 .. n |->
                    IF i = 0 THEN <<>>
                    ELSE IF s[i] \in K THEN Append(g[i - 1], s[i]) ELSE g[i - 1]]
<1>1. Among(s, K) = f[n]
  BY DEF Among
<1>2. \E g : g = [i \in 0 .. n |->
                    IF i = 0 THEN <<>>
                    ELSE IF s[i] \in K THEN Append(g[i - 1], s[i]) ELSE g[i - 1]]
  <2>1. PICK g : Keeping(s, K, n, g)
    BY KeepingExists
  <2> QED
    BY <2>1 DEF Keeping
<1>3. Keeping(s, K, n, f)
  BY <1>2 DEF Keeping
<1> QED
  BY <1>1, <1>3

(* w is a part of s in the same order: m[j] is the place of w[j] in s. *)
PlacedBy(w, s, n, m) ==
    /\ m \in [1 .. Len(w) -> 1 .. n]
    /\ \A j \in 1 .. Len(w) : w[j] = s[m[j]]
    /\ \A i, j \in 1 .. Len(w) : i < j => m[i] < m[j]

(* What Among gives: some elements of s, all in K, each from a place of    *)
(* its own, in their order, and every element of s that is in K.           *)
LEMMA AmongPart ==
    ASSUME NEW S, NEW s \in Seq(S), NEW K
    PROVE  /\ Among(s, K) \in Seq(S)
           /\ Len(Among(s, K)) <= Len(s)
           /\ \A j \in 1 .. Len(Among(s, K)) : Among(s, K)[j] \in K
           /\ \E m : PlacedBy(Among(s, K), s, Len(s), m)
           /\ \A i \in 1 .. Len(s) : s[i] \in K =>
                 \E j \in 1 .. Len(Among(s, K)) : Among(s, K)[j] = s[i]
<1> DEFINE Good(w, k) == /\ w \in Seq(S) /\ Len(w) <= k
                         /\ \A j \in 1 .. Len(w) : w[j] \in K
                         /\ \E m : PlacedBy(w, s, k, m)
                         /\ \A i \in 1 .. k : s[i] \in K =>
                               \E j \in 1 .. Len(w) : w[j] = s[i]
<1>1. PICK f : Keeping(s, K, Len(s), f) /\ Among(s, K) = f[Len(s)]
  BY AmongIsKept
<1>2. \A i \in 0 .. Len(s) : f[i] = IF i = 0 THEN <<>>
                           ELSE IF s[i] \in K THEN Append(f[i - 1], s[i]) ELSE f[i - 1]
  BY <1>1 DEF Keeping
<1> DEFINE T == {k \in Nat : k <= Len(s) => Good(f[k], k)}
<1>3. 0 \in T
  <2>1. f[0] = <<>>
    BY <1>2
  <2>2. PlacedBy(<<>>, s, 0, [j \in 1 .. 0 |-> 0])
    BY DEF PlacedBy
  <2>3. Good(<<>>, 0)
    BY <2>2
  <2> QED
    BY <2>1, <2>3
<1>4. ASSUME NEW k \in Nat, k \in T
      PROVE  k + 1 \in T
  <2>1. SUFFICES ASSUME k + 1 <= Len(s) PROVE Good(f[k + 1], k + 1)
    OBVIOUS
  <2> DEFINE w == f[k]
             e == s[k + 1]
  <2>2. Good(w, k) /\ e \in S
    BY <1>4, <2>1
  <2>3. f[k + 1] = IF e \in K THEN Append(w, e) ELSE w
    BY <1>2, <2>1
  <2>4. PICK m : PlacedBy(w, s, k, m)
    BY <2>2
  <2> HIDE DEF w, e
  <2>5. Len(w) \in Nat /\ w \in Seq(S)
    BY <2>2
  <2>6. CASE e \notin K
    <3>1. PlacedBy(w, s, k + 1, m)
      BY <2>4 DEF PlacedBy
    <3>2. ASSUME NEW i \in 1 .. k + 1, s[i] \in K
          PROVE  \E j \in 1 .. Len(w) : w[j] = s[i]
      <4>1. i \in 1 .. k
        BY <2>6, <3>2 DEF e
      <4> QED
        BY <2>2, <3>2, <4>1
    <3> QED
      BY <2>2, <2>3, <2>5, <2>6, <3>1, <3>2
  <2>7. CASE e \in K
    <3> DEFINE v == Append(w, e)
               q == [j \in 1 .. Len(w) + 1 |-> IF j = Len(w) + 1 THEN k + 1 ELSE m[j]]
    <3>1. /\ v \in Seq(S) /\ Len(v) = Len(w) + 1
          /\ \A j \in 1 .. Len(w) : v[j] = w[j]
          /\ v[Len(w) + 1] = e
      BY <2>2, <2>5, AppendProperties
    <3> HIDE DEF v
    <3>2. \A j \in 1 .. Len(w) : m[j] \in 1 .. k
      BY <2>4 DEF PlacedBy
    <3>3. PlacedBy(v, s, k + 1, q)
      <4>1. q \in [1 .. Len(v) -> 1 .. k + 1]
        BY <2>5, <3>1, <3>2
      <4>2. \A j \in 1 .. Len(v) : v[j] = s[q[j]]
        BY <2>4, <2>5, <3>1 DEF PlacedBy, e
      <4>3. \A i, j \in 1 .. Len(v) : i < j => q[i] < q[j]
        BY <2>4, <2>5, <3>1, <3>2 DEF PlacedBy
      <4> QED
        BY <4>1, <4>2, <4>3 DEF PlacedBy
    <3>4. ASSUME NEW i \in 1 .. k + 1, s[i] \in K
          PROVE  \E j \in 1 .. Len(v) : v[j] = s[i]
      <4>1. CASE i = k + 1
        BY <2>5, <3>1, <4>1 DEF e
      <4>2. CASE i # k + 1
        <5>1. PICK j \in 1 .. Len(w) : w[j] = s[i]
          BY <2>2, <3>4, <4>2
        <5> QED
          BY <2>5, <3>1, <5>1
      <4> QED
        BY <4>1, <4>2
    <3>5. \A j \in 1 .. Len(v) : v[j] \in K
      BY <2>2, <2>5, <2>7, <3>1
    <3>6. f[k + 1] = v /\ Len(v) <= k + 1
      BY <2>2, <2>3, <2>5, <2>7, <3>1 DEF v
    <3> HIDE DEF q
    <3>7. Good(v, k + 1)
      BY <3>1, <3>3, <3>4, <3>5, <3>6
    <3> HIDE DEF Good
    <3> QED
      BY <3>6, <3>7
  <2> QED
    BY <2>6, <2>7
<1> HIDE DEF T
<1>5. Nat \subseteq T
  BY <1>3, <1>4, AllNumbers
<1>6. Len(s) \in T
  BY <1>5
<1> HIDE DEF Good
<1>7. Good(Among(s, K), Len(s))
  BY <1>1, <1>6 DEF T
<1> QED
  BY <1>7 DEF Good

(* Among keeps a list without repetitions without them. *)
LEMMA AmongDistinct ==
    ASSUME NEW S, NEW s \in Seq(S), NEW K,
           \A i, j \in 1 .. Len(s) : i # j => s[i] # s[j]
    PROVE  \A i, j \in 1 .. Len(Among(s, K)) : i # j => Among(s, K)[i] # Among(s, K)[j]
<1> DEFINE w == Among(s, K)
<1>1. PICK m : PlacedBy(w, s, Len(s), m)
  BY AmongPart
<1>2. Len(w) \in Nat
  BY AmongPart
<1> HIDE DEF w
<1> SUFFICES ASSUME NEW i \in 1 .. Len(w), NEW j \in 1 .. Len(w), i < j
             PROVE  w[i] # w[j]
  BY <1>2 DEF w
<1>3. m[i] \in 1 .. Len(s) /\ m[j] \in 1 .. Len(s) /\ m[i] < m[j]
  BY <1>1 DEF PlacedBy
<1>4. s[m[i]] # s[m[j]]
  BY <1>3
<1> QED
  BY <1>1, <1>4 DEF PlacedBy

-----------------------------------------------------------------------------
(* Functions by recursion on a number.                                     *)

(* A step repeated n times. *)
Repeats(f, n, first, step) ==
    f = [k \in 0 .. n |-> IF k = 0 THEN first ELSE step[f[k - 1]]]

LEMMA RepeatsExist ==
    ASSUME NEW first, NEW step, NEW n \in Nat
    PROVE  \E f : Repeats(f, n, first, step)
<1> DEFINE T == {k \in Nat : \E f : Repeats(f, k, first, step)}
<1>1. 0 \in T
  <2> DEFINE f == [k \in 0 .. 0 |-> first]
  <2>1. Repeats(f, 0, first, step)
    BY DEF Repeats
  <2> QED
    BY <2>1
<1>2. ASSUME NEW k \in Nat, k \in T
      PROVE  k + 1 \in T
  <2>1. PICK f : Repeats(f, k, first, step)
    BY <1>2
  <2> DEFINE last == step[f[k]]
             g == [j \in 0 .. k + 1 |-> IF j = k + 1 THEN last ELSE f[j]]
             h == [j \in 0 .. k + 1 |-> IF j = 0 THEN first ELSE step[g[j - 1]]]
  <2>2. \A j \in 0 .. k : f[j] = IF j = 0 THEN first ELSE step[f[j - 1]]
    BY <2>1 DEF Repeats
  <2>3. \A j \in 0 .. k + 1 : g[j] = IF j = 0 THEN first ELSE step[g[j - 1]]
    <3>1. \A j \in 0 .. k : g[j] = f[j]
      OBVIOUS
    <3>2. g[k + 1] = last
      OBVIOUS
    <3> QED
      BY <2>2, <3>1, <3>2
  <2>4. g = h
    <3> HIDE DEF last
    <3> QED
      BY <2>3
  <2>5. Repeats(g, k + 1, first, step)
    BY <2>4 DEF Repeats
  <2> QED
    BY <2>5
<1> HIDE DEF T
<1>3. Nat \subseteq T
  BY <1>1, <1>2, AllNumbers
<1> QED
  BY <1>3 DEF T

(* What holds at first and is kept by each step holds to the end. *)
LEMMA StaysTo ==
    ASSUME NEW n \in Nat, NEW T, 0 \in T, \A k \in 1 .. n : k - 1 \in T => k \in T
    PROVE  0 .. n \subseteq T
<1> DEFINE U == {k \in Nat : k <= n => k \in T}
<1>1. 0 \in U
  OBVIOUS
<1>2. ASSUME NEW k \in Nat, k \in U
      PROVE  k + 1 \in U
  <2> SUFFICES ASSUME k + 1 <= n PROVE k + 1 \in T
    OBVIOUS
  <2>1. k + 1 \in 1 .. n /\ (k + 1) - 1 = k /\ k \in T
    BY <1>2
  <2> QED
    BY <2>1
<1> HIDE DEF U
<1>3. Nat \subseteq U
  BY <1>1, <1>2, AllNumbers
<1> SUFFICES ASSUME NEW k \in 0 .. n PROVE k \in T
  OBVIOUS
<1>4. k \in U
  BY <1>3
<1> QED
  BY <1>4 DEF U

(* Values each in its set, when every step leads from one into the next. *)
LEMMA Stays ==
    ASSUME NEW n \in Nat, NEW S, NEW g, g[0] \in S[0],
           \A i \in 1 .. n : g[i - 1] \in S[i - 1] => g[i] \in S[i]
    PROVE  \A i \in 0 .. n : g[i] \in S[i]
<1> DEFINE U == {k \in 0 .. n : g[k] \in S[k]}
<1>1. 0 \in U
  OBVIOUS
<1>2. ASSUME NEW k \in 1 .. n, k - 1 \in U
      PROVE  k \in U
  BY <1>2
<1>3. 0 .. n \subseteq U
  <2> HIDE DEF U
  <2> QED
    BY <1>1, <1>2, StaysTo
<1> QED
  BY <1>3

(* Steps of which each may be another. *)
Steps(f, n, first, step) ==
    f = [i \in 0 .. n |-> IF i = 0 THEN first ELSE step[i][f[i - 1]]]

LEMMA StepsStay ==
    ASSUME NEW n \in Nat, NEW S, NEW first, first \in S[0], NEW step,
           \A i \in 1 .. n : \A a \in S[i - 1] : step[i][a] \in S[i]
    PROVE  \E f : Steps(f, n, first, step) /\ \A i \in 0 .. n : f[i] \in S[i]
<1> DEFINE T == {k \in Nat : \E f : Steps(f, k, first, step)}
<1>1. 0 \in T
  <2> DEFINE f == [i \in 0 .. 0 |-> first]
  <2>1. Steps(f, 0, first, step)
    BY DEF Steps
  <2> QED
    BY <2>1
<1>2. ASSUME NEW k \in Nat, k \in T
      PROVE  k + 1 \in T
  <2>1. PICK f : Steps(f, k, first, step)
    BY <1>2
  <2> DEFINE last == step[k + 1][f[k]]
             g == [i \in 0 .. k + 1 |-> IF i = k + 1 THEN last ELSE f[i]]
             h == [i \in 0 .. k + 1 |-> IF i = 0 THEN first ELSE step[i][g[i - 1]]]
  <2>2. \A i \in 0 .. k : f[i] = IF i = 0 THEN first ELSE step[i][f[i - 1]]
    BY <2>1 DEF Steps
  <2>3. \A i \in 0 .. k + 1 : g[i] = IF i = 0 THEN first ELSE step[i][g[i - 1]]
    <3>1. \A i \in 0 .. k : g[i] = f[i]
      OBVIOUS
    <3>2. g[k + 1] = last
      OBVIOUS
    <3> QED
      BY <2>2, <3>1, <3>2
  <2>4. g = h
    <3> HIDE DEF last
    <3> QED
      BY <2>3
  <2>5. Steps(g, k + 1, first, step)
    BY <2>4 DEF Steps
  <2> HIDE DEF g
  <2> QED
    BY <2>5
<1> HIDE DEF T
<1>3. n \in T
  BY <1>1, <1>2, AllNumbers
<1>4. PICK f : Steps(f, n, first, step)
  BY <1>3 DEF T
<1>5. /\ f[0] = first
      /\ \A i \in 1 .. n : f[i] = step[i][f[i - 1]]
  BY <1>4 DEF Steps
<1>6. \A i \in 1 .. n : f[i - 1] \in S[i - 1] => f[i] \in S[i]
  BY <1>5
<1>7. \A i \in 0 .. n : f[i] \in S[i]
  BY <1>5, <1>6, Stays
<1> QED
  BY <1>4, <1>7

-----------------------------------------------------------------------------
(* Parts of lists, and the stacks.                                         *)

LEMMA MinOfTwo ==
    ASSUME NEW a \in Int, NEW b \in Int
    PROVE  Min2(a, b) \in {a, b} /\ Min2(a, b) <= a /\ Min2(a, b) <= b
BY DEF Min2

(* A stretch of a list, given by its first and last place. *)
LEMMA Stretch ==
    ASSUME NEW S, NEW s \in Seq(S), NEW a \in 1 .. Len(s) + 1, NEW b \in a - 1 .. Len(s)
    PROVE  /\ SubSeq(s, a, b) \in Seq(S)
           /\ Len(SubSeq(s, a, b)) = b - a + 1
           /\ \A i \in 1 .. b - a + 1 : SubSeq(s, a, b)[i] = s[a + i - 1]
<1>1. \A i \in a .. b : s[i] \in S
  BY ElementOfSeq
<1>2. a \in Int /\ b \in Int
  BY LenProperties
<1>3. /\ SubSeq(s, a, b) \in Seq(S)
      /\ Len(SubSeq(s, a, b)) = IF a <= b THEN b - a + 1 ELSE 0
      /\ \A i \in 1 .. b - a + 1 : SubSeq(s, a, b)[i] = s[a + i - 1]
  BY <1>1, <1>2, SubSeqProperties
<1>4. b < a => b - a + 1 = 0
  BY <1>2, LenProperties
<1> QED
  BY <1>2, <1>3, <1>4

(* How many pages a stack gives up, if it has too many. *)
Excess(s, max) == IF Len(s) <= max THEN 0 ELSE Len(s) - max

LEMMA ExcessTyped ==
    ASSUME NEW S, NEW s \in Seq(S), NEW max \in Nat \ {0}
    PROVE  /\ Excess(s, max) \in 0 .. Len(s) /\ Len(s) \in Nat
           /\ Len(s) - Excess(s, max) <= max
           /\ Len(s) > 0 => Excess(s, max) < Len(s)
BY LenProperties DEF Excess

(* What fits is kept as it is, and of the rest the newest, or the nearest. *)
LEMMA NewestStretch ==
    ASSUME NEW S, NEW s \in Seq(S), NEW max \in Nat \ {0}
    PROVE  Newest(s, max) = SubSeq(s, Excess(s, max) + 1, Len(s))
<1>1. CASE Len(s) <= max
  BY <1>1, SubSeqFull DEF Newest, Excess
<1>2. CASE ~(Len(s) <= max)
  BY <1>2 DEF Newest, Excess
<1> QED
  BY <1>1, <1>2

LEMMA NewestTyped ==
    ASSUME NEW S, NEW s \in Seq(S), NEW max \in Nat \ {0}
    PROVE  /\ Newest(s, max) \in Seq(S)
           /\ Len(Newest(s, max)) = Len(s) - Excess(s, max) /\ Len(Newest(s, max)) <= max
           /\ \A i \in 1 .. Len(s) - Excess(s, max) : Newest(s, max)[i] = s[Excess(s, max) + i]
<1> DEFINE x == Excess(s, max)
<1>1. x \in 0 .. Len(s) /\ Len(s) \in Nat /\ Len(s) - x <= max
  BY ExcessTyped
<1> HIDE DEF x
<1>2. /\ SubSeq(s, x + 1, Len(s)) \in Seq(S)
      /\ Len(SubSeq(s, x + 1, Len(s))) = Len(s) - (x + 1) + 1
      /\ \A i \in 1 .. Len(s) - (x + 1) + 1 : SubSeq(s, x + 1, Len(s))[i] = s[x + 1 + i - 1]
  <2>1. x + 1 \in 1 .. Len(s) + 1 /\ Len(s) \in (x + 1) - 1 .. Len(s)
    BY <1>1
  <2> QED
    BY <2>1, Stretch
<1>3. Newest(s, max) = SubSeq(s, x + 1, Len(s))
  BY NewestStretch DEF x
<1>4. Len(s) - (x + 1) + 1 = Len(s) - x /\ \A i \in 1 .. Len(s) - x : x + 1 + i - 1 = x + i
  BY <1>1
<1>5. /\ Newest(s, max) \in Seq(S) /\ Len(Newest(s, max)) = Len(s) - x
      /\ \A i \in 1 .. Len(s) - x : Newest(s, max)[i] = s[x + i]
  BY <1>2, <1>3, <1>4
<1> QED
  BY <1>1, <1>5 DEF x

LEMMA NearestTyped ==
    ASSUME NEW S, NEW s \in Seq(S), NEW max \in Nat \ {0}
    PROVE  /\ Nearest(s, max) \in Seq(S)
           /\ Len(Nearest(s, max)) = Min2(Len(s), max)
           /\ \A i \in 1 .. Len(Nearest(s, max)) : Nearest(s, max)[i] = s[i]
<1>1. CASE Len(s) <= max
  BY <1>1, LenProperties DEF Nearest, Min2
<1>2. CASE ~(Len(s) <= max)
  <2>1. 1 \in 1 .. Len(s) + 1 /\ max \in 1 - 1 .. Len(s) /\ Len(s) \in Nat
    BY <1>2, LenProperties
  <2>2. /\ SubSeq(s, 1, max) \in Seq(S)
        /\ Len(SubSeq(s, 1, max)) = max - 1 + 1
        /\ \A i \in 1 .. max - 1 + 1 : SubSeq(s, 1, max)[i] = s[1 + i - 1]
    BY <2>1, Stretch
  <2>3. max - 1 + 1 = max /\ \A i \in 1 .. max : 1 + i - 1 = i
    OBVIOUS
  <2>4. Nearest(s, max) = SubSeq(s, 1, max) /\ Min2(Len(s), max) = max
    BY <1>2, <2>1 DEF Nearest, Min2
  <2> QED
    BY <2>2, <2>3, <2>4
<1> QED
  BY <1>1, <1>2

LEMMA PushedTyped ==
    ASSUME NEW S, NEW s \in Seq(S), NEW max \in Nat \ {0}, NEW h \in S
    PROVE  Pushed(s, h, max) \in Seq(S) /\ Len(Pushed(s, h, max)) <= max
BY AppendProperties, NewestTyped DEF Pushed

(* Three lists one after the other, the middle one of one page. *)
LEMMA ThreeJoined ==
    ASSUME NEW S, NEW a \in Seq(S), NEW c \in S, NEW b \in Seq(S)
    PROVE  /\ a \o <<c>> \o b \in Seq(S)
           /\ Len(a \o <<c>> \o b) = Len(a) + 1 + Len(b)
           /\ Len(a) \in Nat /\ Len(b) \in Nat
           /\ \A i \in 1 .. Len(a) : (a \o <<c>> \o b)[i] = a[i]
           /\ (a \o <<c>> \o b)[Len(a) + 1] = c
           /\ \A i \in 1 .. Len(b) : (a \o <<c>> \o b)[Len(a) + 1 + i] = b[i]
<1> DEFINE m == a \o <<c>>
<1>1. Len(a) \in Nat /\ Len(b) \in Nat
  BY LenProperties
<1>2. /\ <<c>> \in Seq(S) /\ Len(<<c>>) = 1 /\ <<c>>[1] = c
  OBVIOUS
<1>3. /\ m \in Seq(S) /\ Len(m) = Len(a) + 1
      /\ \A i \in 1 .. Len(a) + 1 : m[i] = IF i <= Len(a) THEN a[i] ELSE <<c>>[i - Len(a)]
  BY <1>2, ConcatProperties
<1>4. m[Len(a) + 1] = c /\ \A i \in 1 .. Len(a) : m[i] = a[i]
  BY <1>1, <1>2, <1>3
<1> HIDE DEF m
<1>5. /\ m \o b \in Seq(S) /\ Len(m \o b) = Len(m) + Len(b)
      /\ \A i \in 1 .. Len(m) + Len(b) : (m \o b)[i] =
                     IF i <= Len(m) THEN m[i] ELSE b[i - Len(m)]
  <2>1. m \in Seq(S)
    BY <1>3
  <2> QED
    BY <2>1, ConcatProperties
<1>6. \A i \in 1 .. Len(b) : (m \o b)[Len(a) + 1 + i] = b[i]
  BY <1>1, <1>3, <1>5
<1>7. (m \o b)[Len(a) + 1] = c /\ \A i \in 1 .. Len(a) : (m \o b)[i] = a[i]
  BY <1>1, <1>3, <1>4, <1>5
<1> QED
  BY <1>1, <1>3, <1>5, <1>6, <1>7 DEF m

(* A list that agrees with a stretch of another is that stretch. *)
LEMMA IsStretch ==
    ASSUME NEW S, NEW s \in Seq(S), NEW t \in Seq(S), NEW c \in Nat, c + Len(t) <= Len(s),
           \A i \in 1 .. Len(t) : t[i] = s[c + i]
    PROVE  t = SubSeq(s, c + 1, c + Len(t))
<1> DEFINE n == Len(t)
           u == SubSeq(s, c + 1, c + n)
<1>1. n \in Nat /\ Len(s) \in Nat /\ c + 1 \in 1 .. Len(s) + 1 /\ c + n \in (c + 1) - 1 .. Len(s)
  BY LenProperties
<1>2. /\ u \in Seq(S) /\ Len(u) = (c + n) - (c + 1) + 1
      /\ \A i \in 1 .. (c + n) - (c + 1) + 1 : u[i] = s[c + 1 + i - 1]
  BY <1>1, Stretch
<1>3. (c + n) - (c + 1) + 1 = n /\ \A i \in 1 .. n : c + 1 + i - 1 = c + i
  BY <1>1
<1>4. Len(u) = Len(t) /\ \A i \in 1 .. Len(t) : t[i] = u[i]
  BY <1>2, <1>3
<1> HIDE DEF u
<1>5. t = u
  BY <1>2, <1>4, SeqEqual
<1> QED
  BY <1>5 DEF u

(* The first, and the last places of a list. *)
LEMMA FirstPart ==
    ASSUME NEW S, NEW s \in Seq(S), NEW n \in 0 .. Len(s)
    PROVE  /\ SubSeq(s, 1, n) \in Seq(S) /\ Len(SubSeq(s, 1, n)) = n
           /\ \A i \in 1 .. n : SubSeq(s, 1, n)[i] = s[i]
<1>1. Len(s) \in Nat /\ n \in Nat
  BY LenProperties
<1>2. 1 \in 1 .. Len(s) + 1 /\ n \in 1 - 1 .. Len(s)
  BY <1>1
<1>3. /\ SubSeq(s, 1, n) \in Seq(S)
      /\ Len(SubSeq(s, 1, n)) = n - 1 + 1
      /\ \A i \in 1 .. n - 1 + 1 : SubSeq(s, 1, n)[i] = s[1 + i - 1]
  BY <1>2, Stretch
<1>4. n - 1 + 1 = n /\ \A i \in 1 .. n : 1 + i - 1 = i
  BY <1>1
<1> QED
  BY <1>3, <1>4

LEMMA LastPart ==
    ASSUME NEW S, NEW s \in Seq(S), NEW c \in 0 .. Len(s)
    PROVE  /\ SubSeq(s, c + 1, Len(s)) \in Seq(S)
           /\ Len(SubSeq(s, c + 1, Len(s))) = Len(s) - c
           /\ \A i \in 1 .. Len(s) - c : SubSeq(s, c + 1, Len(s))[i] = s[c + i]
<1>1. Len(s) \in Nat /\ c \in Nat
  BY LenProperties
<1>2. c + 1 \in 1 .. Len(s) + 1 /\ Len(s) \in (c + 1) - 1 .. Len(s)
  BY <1>1
<1>3. /\ SubSeq(s, c + 1, Len(s)) \in Seq(S)
      /\ Len(SubSeq(s, c + 1, Len(s))) = Len(s) - (c + 1) + 1
      /\ \A i \in 1 .. Len(s) - (c + 1) + 1 : SubSeq(s, c + 1, Len(s))[i] = s[c + 1 + i - 1]
  BY <1>2, Stretch
<1>4. Len(s) - (c + 1) + 1 = Len(s) - c /\ \A i \in 1 .. Len(s) - c : c + 1 + i - 1 = c + i
  BY <1>1
<1> QED
  BY <1>3, <1>4

(* What a preview shows is in a stack. *)
LEMMA PeekTyped ==
    ASSUME NEW S, NEW bk \in Seq(S), NEW fw \in Seq(S), NEW d \in Int, NEW none
    PROVE  Peek(bk, fw, d, none) \in S \cup {none}
<1>1. Len(bk) \in Nat /\ Len(fw) \in Nat /\ (bk # <<>> => Len(bk) > 0)
  BY LenProperties, EmptySeq
<1>2. CASE d < 0 /\ bk # <<>>
  <2>1. Len(bk) + 1 - Min2(-d, Len(bk)) \in 1 .. Len(bk)
    BY <1>1, <1>2 DEF Min2
  <2> QED
    BY <1>2, <2>1, ElementOfSeq DEF Peek
<1>3. CASE ~(d < 0 /\ bk # <<>>) /\ d > 0 /\ d <= Len(fw)
  <2>1. d \in 1 .. Len(fw)
    BY <1>1, <1>3
  <2> QED
    BY <1>3, <2>1, ElementOfSeq DEF Peek
<1> QED
  BY <1>2, <1>3 DEF Peek

(* The n-th page back, and forward, and the stacks after going there. *)
LEMMA BackByTyped ==
    ASSUME NEW max \in Nat \ {0}, NEW S, NEW bk \in Seq(S), NEW h \in S, NEW fw \in Seq(S),
           Len(bk) <= max, NEW n \in 1 .. Len(bk), NEW m, m = BackBy(bk, h, fw, n, max)
    PROVE  /\ m.back \in Seq(S) /\ Len(m.back) <= max
           /\ m.at \in S
           /\ m.fwd \in Seq(S) /\ Len(m.fwd) <= max
<1> DEFINE over == SubSeq(bk, Len(bk) - n + 2, Len(bk))
           all == over \o <<h>> \o fw
<1>1. /\ m.back = SubSeq(bk, 1, Len(bk) - n) /\ m.at = bk[Len(bk) - n + 1]
      /\ m.fwd = Nearest(all, max)
  BY DEF BackBy
<1>2. Len(bk) \in Nat /\ n \in Nat /\ 1 <= n /\ n <= Len(bk)
  BY LenProperties
<1>3. /\ Len(bk) - n \in 0 .. Len(bk) /\ Len(bk) - n + 1 \in 1 .. Len(bk)
      /\ Len(bk) - n + 1 \in 0 .. Len(bk) /\ (Len(bk) - n + 1) + 1 = Len(bk) - n + 2
  BY <1>2
<1>4. m.back \in Seq(S) /\ Len(m.back) <= max
  <2>1. m.back \in Seq(S) /\ Len(m.back) = Len(bk) - n
    BY <1>1, <1>3, FirstPart
  <2> QED
    BY <1>2, <2>1
<1>5. m.at \in S
  BY <1>1, <1>3, ElementOfSeq
<1>6. over \in Seq(S)
  BY <1>3, LastPart
<1> HIDE DEF over
<1>7. all \in Seq(S)
  BY <1>6, ThreeJoined
<1> HIDE DEF all
<1>8. m.fwd \in Seq(S) /\ Len(m.fwd) <= max
  <2>1. /\ Nearest(all, max) \in Seq(S) /\ Len(Nearest(all, max)) = Min2(Len(all), max)
        /\ Len(all) \in Nat
    BY <1>7, NearestTyped, LenProperties
  <2> QED
    BY <1>1, <2>1 DEF Min2
<1> QED
  BY <1>4, <1>5, <1>8

LEMMA ForwardByTyped ==
    ASSUME NEW max \in Nat \ {0}, NEW S, NEW bk \in Seq(S), NEW h \in S, NEW fw \in Seq(S),
           Len(fw) <= max, NEW n \in 1 .. Len(fw), NEW m, m = ForwardBy(bk, h, fw, n, max)
    PROVE  /\ m.back \in Seq(S) /\ Len(m.back) <= max
           /\ m.at \in S
           /\ m.fwd \in Seq(S) /\ Len(m.fwd) <= max
<1> DEFINE pre == SubSeq(fw, 1, n - 1)
           all == bk \o <<h>> \o pre
<1>1. /\ m.back = Newest(all, max) /\ m.at = fw[n] /\ m.fwd = SubSeq(fw, n + 1, Len(fw))
  BY DEF ForwardBy
<1>2. Len(fw) \in Nat /\ n - 1 \in 0 .. Len(fw) /\ n \in 0 .. Len(fw)
  BY LenProperties
<1>3. m.fwd \in Seq(S) /\ Len(m.fwd) = Len(fw) - n
  BY <1>1, <1>2, LastPart
<1>4. m.at \in S
  BY <1>1, ElementOfSeq
<1>5. pre \in Seq(S)
  BY <1>2, FirstPart
<1> HIDE DEF pre
<1>6. all \in Seq(S)
  BY <1>5, ThreeJoined
<1> HIDE DEF all
<1>7. m.back \in Seq(S) /\ Len(m.back) <= max
  BY <1>1, <1>6, NewestTyped
<1> QED
  BY <1>2, <1>3, <1>4, <1>7
=============================================================================
