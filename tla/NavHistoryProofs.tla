-------------------------- MODULE NavHistoryProofs --------------------------
(***************************************************************************)
(* The two bounded stacks of Back and Forward implement the trail of pages *)
(* visited, whatever overflows and whatever is deleted; a press lands      *)
(* where its preview said.                                                 *)
(***************************************************************************)
EXTENDS NavHistory, ListProofs

-----------------------------------------------------------------------------
(* The stacks.                                                             *)

LEMMA PurgedTyped ==
    ASSUME NEW s \in Seq(Pages), NEW p
    PROVE  /\ Purged(s, p) \in Seq(Pages) /\ Len(Purged(s, p)) <= Len(s)
           /\ Len(Purged(s, p)) \in Nat /\ Len(s) \in Nat
           /\ \A j \in 1 .. Len(Purged(s, p)) :
                 /\ Purged(s, p)[j] # p
                 /\ \E i \in 1 .. Len(s) : Purged(s, p)[j] = s[i]
<1> DEFINE w == Purged(s, p)
<1>1. w \in Seq(Pages) /\ Len(w) <= Len(s) /\ \A j \in 1 .. Len(w) : w[j] \in Pages \ {p}
  BY AmongPart DEF Purged
<1>2. PICK m : PlacedBy(w, s, Len(s), m)
  BY AmongPart DEF Purged
<1> HIDE DEF w
<1>3. \A j \in 1 .. Len(w) : w[j] # p /\ \E i \in 1 .. Len(s) : w[j] = s[i]
  BY <1>1, <1>2 DEF PlacedBy
<1>4. Len(w) \in Nat /\ Len(s) \in Nat
  BY <1>1, LenProperties
<1> QED
  BY <1>1, <1>3, <1>4 DEF w

LEMMA FirstIndex ==
    ASSUME NEW s \in Seq(Pages), NEW p, p \in ToSet(s)
    PROVE  IndexIn(s, p) \in 1 .. Len(s) /\ s[IndexIn(s, p)] = p
<1> DEFINE at == {i \in 1 .. Len(s) : s[i] = p}
<1>1. at # {} /\ at \subseteq Nat
  BY LenProperties DEF ToSet
<1>2. PICK i \in at : \A j \in at : i <= j
  BY <1>1, HasLeast
<1>3. \A j \in 1 .. i - 1 : s[j] # p
  <2> SUFFICES ASSUME NEW j \in 1 .. i - 1, s[j] = p PROVE FALSE
    OBVIOUS
  <2>1. j \in at /\ i \in Nat
    BY LenProperties
  <2> QED
    BY <1>2, <2>1
<1> QED
  BY <1>2, <1>3 DEF IndexIn

(* The trail of back, page and Forward, place by place. *)
TrailOf(tr, L, F, bk, h, fw) ==
    /\ tr \in Seq(Pages) /\ Len(tr) = L + 1 + F
    /\ \A i \in 1 .. L : tr[i] = bk[i]
    /\ tr[L + 1] = h
    /\ \A i \in 1 .. F : tr[L + 1 + i] = fw[i]

LEMMA TrailJoined ==
    ASSUME NEW bk \in Seq(Pages), NEW h \in Pages, NEW fw \in Seq(Pages)
    PROVE  TrailOf(bk \o <<h>> \o fw, Len(bk), Len(fw), bk, h, fw)
<1> DEFINE tr == bk \o <<h>> \o fw
<1>1. /\ tr \in Seq(Pages)
      /\ Len(tr) = Len(bk) + 1 + Len(fw)
      /\ \A i \in 1 .. Len(bk) : tr[i] = bk[i]
      /\ tr[Len(bk) + 1] = h
      /\ \A i \in 1 .. Len(fw) : tr[Len(bk) + 1 + i] = fw[i]
  BY ThreeJoined
<1> HIDE DEF tr
<1>2. TrailOf(tr, Len(bk), Len(fw), bk, h, fw)
  BY <1>1 DEF TrailOf
<1> QED
  BY <1>2 DEF tr

(* What is moved n places over from the end of bk (over), the page left,   *)
(* and as much of Forward as there is room for.                            *)
MovedOver(L, F, G, n, from, to, bk, h, fw, b, a, f, over, all) ==
    /\ L \in Nat /\ F \in Nat /\ G \in Nat /\ n \in 1 .. L /\ G <= n + F
    /\ TrailOf(from, L, F, bk, h, fw)
    /\ TrailOf(to, L - n, G, b, a, f)
    /\ TrailOf(all, n - 1, F, over, h, fw)
    /\ a = bk[L - n + 1]
    /\ \A i \in 1 .. L - n : b[i] = bk[i]
    /\ \A i \in 1 .. n - 1 : over[i] = bk[L - n + 1 + i]
    /\ \A i \in 1 .. G : f[i] = all[i]

(* What lies ahead after n places back is where it lay on the trail. *)
LEMMA BackAligned ==
    ASSUME NEW L, NEW F, NEW G, NEW n, NEW from, NEW to, NEW bk, NEW h, NEW fw,
           NEW b, NEW a, NEW f, NEW over, NEW all,
           MovedOver(L, F, G, n, from, to, bk, h, fw, b, a, f, over, all),
           NEW i \in 1 .. Len(to)
    PROVE  to[i] = from[i]
<1> USE DEF MovedOver
<1>1. i \in 1 .. (L - n) + 1 + G /\ n \in Nat
  BY DEF TrailOf
<1>2. CASE i <= L - n
  BY <1>1, <1>2 DEF TrailOf
<1>3. CASE i = L - n + 1
  BY <1>1, <1>3 DEF TrailOf
<1>4. ASSUME NEW j \in 1 .. G, i = L - n + 1 + j
      PROVE  to[i] = from[i]
  <2>1. to[i] = all[j]
    BY <1>4 DEF TrailOf
  <2>2. CASE j <= n - 1
    <3>1. j \in 1 .. n - 1 /\ i \in 1 .. L
      BY <1>4, <2>2
    <3>2. all[j] = bk[i]
      BY <1>4, <3>1 DEF TrailOf
    <3> QED
      BY <2>1, <3>1, <3>2 DEF TrailOf
  <2>3. CASE j = n
    <3>1. i = L + 1 /\ j = (n - 1) + 1
      BY <1>4, <2>3
    <3> QED
      BY <2>1, <3>1 DEF TrailOf
  <2>4. ASSUME NEW k \in 1 .. F, j = n + k
        PROVE  to[i] = from[i]
    <3>1. i = L + 1 + k /\ j = (n - 1) + 1 + k
      BY <1>4, <2>4
    <3> QED
      BY <2>1, <3>1 DEF TrailOf
  <2>5. CASE j > n
    <3>1. j - n \in 1 .. F /\ j = n + (j - n)
      BY <2>5
    <3> QED
      BY <2>4, <3>1
  <2> QED
    BY <2>2, <2>3, <2>5
<1>5. CASE i > L - n + 1
  <2>1. i - (L - n + 1) \in 1 .. G /\ i = L - n + 1 + (i - (L - n + 1))
    BY <1>1, <1>5
  <2> QED
    BY <1>4, <2>1
<1> QED
  BY <1>1, <1>2, <1>3, <1>5

(* The outcome of a move. *)
IsMove(m, b, a, f) == b = m.back /\ a = m.at /\ f = m.fwd

(* The moves keep the trail, but for its far ends. *)
WentBack(bk, h, fw, n, b, a, f) ==
    /\ b \in Seq(Pages) /\ Len(b) = Len(bk) - n /\ Len(b) <= NavMax
    /\ a = bk[Len(bk) - n + 1] /\ a \in Pages
    /\ f \in Seq(Pages) /\ Len(f) <= NavMax /\ n <= Len(f)
    /\ Len(b) + 1 + Len(f) <= Len(bk) + 1 + Len(fw)
    /\ b \o <<a>> \o f = SubSeq(bk \o <<h>> \o fw, 1, Len(b) + 1 + Len(f))

WentForward(bk, h, fw, n, b, a, f) ==
    /\ b \in Seq(Pages) /\ Len(b) <= NavMax
    /\ a = fw[n] /\ a \in Pages
    /\ f \in Seq(Pages) /\ Len(f) <= NavMax /\ Len(f) = Len(fw) - n
    /\ \E x \in 0 .. Len(bk) :
          /\ Len(b) = Len(bk) + n - x
          /\ b \o <<a>> \o f =
               SubSeq(bk \o <<h>> \o fw, x + 1, x + (Len(b) + 1 + Len(f)))

(* Going back moves n pages over and gives up only what overflows at the   *)
(* far end of Forward; the page left is kept.                              *)
LEMMA BackMoves ==
    ASSUME NEW bk \in Seq(Pages), NEW h \in Pages, NEW fw \in Seq(Pages),
           Len(bk) <= NavMax, NEW n \in 1 .. Len(bk),
           NEW b, NEW a, NEW f, IsMove(BackBy(bk, h, fw, n, NavMax), b, a, f)
    PROVE  WentBack(bk, h, fw, n, b, a, f)
<1> DEFINE L == Len(bk)
           F == Len(fw)
           over == SubSeq(bk, L - n + 2, L)
           all == over \o <<h>> \o fw
           from == bk \o <<h>> \o fw
           to == b \o <<a>> \o f
<1>1. L \in Nat /\ F \in Nat /\ n \in Nat /\ 1 <= n /\ n <= L
  BY LenProperties
<1>2. /\ b = SubSeq(bk, 1, L - n) /\ a = bk[L - n + 1] /\ f = Nearest(all, NavMax)
  BY DEF BackBy, IsMove
<1>3. /\ b \in Seq(Pages) /\ Len(b) = L - n
      /\ \A i \in 1 .. L - n : b[i] = bk[i]
  <2>1. L - n \in 0 .. L
    BY <1>1
  <2> QED
    BY <1>2, <2>1, FirstPart
<1>4. /\ over \in Seq(Pages) /\ Len(over) = n - 1
      /\ \A i \in 1 .. n - 1 : over[i] = bk[L - n + 1 + i]
  <2> DEFINE c == L - n + 1
  <2>1. c \in 0 .. L /\ c + 1 = L - n + 2 /\ L - c = n - 1
    BY <1>1
  <2>2. /\ SubSeq(bk, c + 1, L) \in Seq(Pages)
        /\ Len(SubSeq(bk, c + 1, L)) = L - c
        /\ \A i \in 1 .. L - c : SubSeq(bk, c + 1, L)[i] = bk[c + i]
    BY <2>1, LastPart
  <2> QED
    BY <2>1, <2>2
<1>5. a \in Pages
  BY <1>1, <1>2, ElementOfSeq
<1> HIDE DEF over
<1>6. TrailOf(all, n - 1, F, over, h, fw)
  BY <1>4, TrailJoined
<1> HIDE DEF all
<1>8. /\ f \in Seq(Pages) /\ Len(f) = Min2(Len(all), NavMax)
      /\ \A i \in 1 .. Len(f) : f[i] = all[i]
  BY <1>2, <1>6, NearestTyped, NavMaxAssumption DEF TrailOf
<1>9. /\ Len(f) \in Nat /\ Len(f) <= NavMax /\ n <= Len(f) /\ Len(f) <= n + F
  <2>1. Len(all) = n + F
    BY <1>1, <1>6 DEF TrailOf
  <2> QED
    BY <1>1, <1>8, <2>1, NavMaxAssumption DEF Min2
<1>10. TrailOf(from, L, F, bk, h, fw) /\ TrailOf(to, L - n, Len(f), b, a, f)
  BY <1>2, <1>3, <1>5, <1>8, TrailJoined
<1> HIDE DEF from, to
<1>11. ASSUME NEW i \in 1 .. Len(to)
       PROVE  to[i] = from[i]
  <2>1. n \in 1 .. L /\ Len(f) \in Nat /\ Len(f) <= n + F
    BY <1>1, <1>9
  <2>2. /\ \A j \in 1 .. L - n : b[j] = bk[j]
        /\ \A j \in 1 .. n - 1 : over[j] = bk[L - n + 1 + j]
        /\ \A j \in 1 .. Len(f) : f[j] = all[j]
        /\ a = bk[L - n + 1]
    BY <1>2, <1>3, <1>4, <1>8
  <2> HIDE DEF L, F
  <2>3. MovedOver(L, F, Len(f), n, from, to, bk, h, fw, b, a, f, over, all)
    BY <1>1, <1>6, <1>10, <2>1, <2>2 DEF MovedOver
  <2> QED
    BY <2>3, BackAligned
<1>12. to \in Seq(Pages) /\ from \in Seq(Pages) /\ Len(to) = L - n + 1 + Len(f)
       /\ Len(from) = L + 1 + F
  BY <1>10 DEF TrailOf
<1>13. to = SubSeq(from, 0 + 1, 0 + Len(to))
  <2>1. 0 + Len(to) <= Len(from) /\ 0 \in Nat
    BY <1>1, <1>9, <1>12
  <2>2. \A i \in 1 .. Len(to) : to[i] = from[0 + i]
    BY <1>11
  <2> QED
    BY <1>12, <2>1, <2>2, IsStretch
<1>14. to = SubSeq(from, 1, Len(b) + 1 + Len(f))
  BY <1>1, <1>3, <1>9, <1>12, <1>13
<1>15. Len(b) <= NavMax /\ Len(b) + 1 + Len(f) <= Len(bk) + 1 + Len(fw)
  BY <1>1, <1>3, <1>9, NavMaxAssumption
<1> QED
  BY <1>2, <1>3, <1>5, <1>8, <1>9, <1>14, <1>15 DEF from, to, WentBack

(* The same the other way: the page left and those gone over (pre) are     *)
(* pushed, and the x oldest given up.                                      *)
PushedOver(L, F, n, x, from, to, bk, h, fw, b, a, f, pre, all) ==
    /\ L \in Nat /\ F \in Nat /\ n \in 1 .. F /\ x \in 0 .. L + n
    /\ TrailOf(from, L, F, bk, h, fw)
    /\ TrailOf(to, L + n - x, F - n, b, a, f)
    /\ TrailOf(all, L, n - 1, bk, h, pre)
    /\ a = fw[n]
    /\ \A i \in 1 .. L + n - x : b[i] = all[x + i]
    /\ \A i \in 1 .. n - 1 : pre[i] = fw[i]
    /\ \A i \in 1 .. F - n : f[i] = fw[n + i]

LEMMA ForwardAligned ==
    ASSUME NEW L, NEW F, NEW n, NEW x, NEW from, NEW to, NEW bk, NEW h, NEW fw,
           NEW b, NEW a, NEW f, NEW pre, NEW all,
           PushedOver(L, F, n, x, from, to, bk, h, fw, b, a, f, pre, all),
           NEW i \in 1 .. Len(to)
    PROVE  to[i] = from[x + i]
<1> USE DEF PushedOver
<1>1. i \in 1 .. (L + n - x) + 1 + (F - n) /\ n \in Nat /\ x \in Nat
  BY DEF TrailOf
<1>2. ASSUME NEW k \in 1 .. L + n
      PROVE  all[k] = from[k]
  <2>1. CASE k <= L
    BY <1>2, <2>1 DEF TrailOf
  <2>2. CASE k = L + 1
    BY <1>2, <2>2 DEF TrailOf
  <2>3. CASE k > L + 1
    <3>1. k - (L + 1) \in 1 .. n - 1 /\ k = L + 1 + (k - (L + 1))
      BY <1>2, <2>3
    <3>2. all[L + 1 + (k - (L + 1))] = pre[k - (L + 1)]
      BY <3>1 DEF TrailOf
    <3>3. k - (L + 1) \in 1 .. F
      BY <1>1, <3>1
    <3>4. from[L + 1 + (k - (L + 1))] = fw[k - (L + 1)]
      BY <3>3 DEF TrailOf
    <3> QED
      BY <3>1, <3>2, <3>4
  <2> QED
    BY <1>2, <2>1, <2>2, <2>3
<1>3. CASE i <= L + n - x
  <2>1. i \in 1 .. L + n - x /\ x + i \in 1 .. L + n
    BY <1>1, <1>3
  <2> QED
    BY <1>2, <2>1 DEF TrailOf
<1>4. CASE i = L + n - x + 1
  <2>1. x + i = L + 1 + n
    BY <1>1, <1>4
  <2> QED
    BY <1>4, <2>1 DEF TrailOf
<1>5. ASSUME NEW j \in 1 .. F - n, i = L + n - x + 1 + j
      PROVE  to[i] = from[x + i]
  <2>1. x + i = L + 1 + (n + j) /\ n + j \in 1 .. F
    BY <1>1, <1>5
  <2>2. from[L + 1 + (n + j)] = fw[n + j]
    BY <2>1 DEF TrailOf
  <2>3. to[i] = f[j] /\ f[j] = fw[n + j]
    BY <1>5 DEF TrailOf
  <2> QED
    BY <2>1, <2>2, <2>3
<1>6. CASE i > L + n - x + 1
  <2>1. i - (L + n - x + 1) \in 1 .. F - n
        /\ i = L + n - x + 1 + (i - (L + n - x + 1))
    BY <1>1, <1>6
  <2> QED
    BY <1>5, <2>1
<1> QED
  BY <1>1, <1>3, <1>4, <1>6

(* Going forward gives up only the oldest pages of Back.                   *)
LEMMA ForwardMoves ==
    ASSUME NEW bk \in Seq(Pages), NEW h \in Pages, NEW fw \in Seq(Pages),
           Len(fw) <= NavMax, NEW n \in 1 .. Len(fw),
           NEW b, NEW a, NEW f, IsMove(ForwardBy(bk, h, fw, n, NavMax), b, a, f)
    PROVE  WentForward(bk, h, fw, n, b, a, f)
<1> DEFINE L == Len(bk)
           F == Len(fw)
           pre == SubSeq(fw, 1, n - 1)
           all == bk \o <<h>> \o pre
           x == Excess(all, NavMax)
           from == bk \o <<h>> \o fw
           to == b \o <<a>> \o f
<1>1. L \in Nat /\ F \in Nat /\ n \in Nat /\ 1 <= n /\ n <= F
  BY LenProperties
<1>2. /\ b = Newest(all, NavMax) /\ a = fw[n] /\ f = SubSeq(fw, n + 1, F)
  BY DEF ForwardBy, IsMove
<1>3. /\ f \in Seq(Pages) /\ Len(f) = F - n
      /\ \A i \in 1 .. F - n : f[i] = fw[n + i]
  <2>1. n \in 0 .. F
    BY <1>1
  <2> QED
    BY <1>2, <2>1, LastPart
<1>4. /\ pre \in Seq(Pages) /\ Len(pre) = n - 1
      /\ \A i \in 1 .. n - 1 : pre[i] = fw[i]
  <2>1. n - 1 \in 0 .. F
    BY <1>1
  <2> QED
    BY <2>1, FirstPart
<1>5. a \in Pages
  BY <1>1, <1>2, ElementOfSeq
<1> HIDE DEF pre
<1>6. TrailOf(all, L, n - 1, bk, h, pre)
  BY <1>4, TrailJoined
<1> HIDE DEF all
<1>7. all \in Seq(Pages) /\ Len(all) = L + n
  BY <1>1, <1>6 DEF TrailOf
<1>8. x \in 0 .. L /\ x \in 0 .. L + n
  BY <1>1, <1>7, NavMaxAssumption DEF Excess
<1>9. /\ b \in Seq(Pages) /\ Len(b) = L + n - x /\ Len(b) <= NavMax
      /\ \A i \in 1 .. L + n - x : b[i] = all[x + i]
  <2>1. /\ b \in Seq(Pages) /\ Len(b) = Len(all) - x /\ Len(b) <= NavMax
        /\ \A i \in 1 .. Len(all) - x : b[i] = all[x + i]
    BY <1>2, <1>7, NewestTyped, NavMaxAssumption
  <2> HIDE DEF x
  <2>2. Len(all) - x = L + n - x
    BY <1>1, <1>7, <1>8
  <2> QED
    BY <2>1, <2>2
<1> HIDE DEF x
<1>10. TrailOf(from, L, F, bk, h, fw) /\ TrailOf(to, L + n - x, F - n, b, a, f)
  BY <1>3, <1>5, <1>9, TrailJoined
<1> HIDE DEF from, to
<1>11. PushedOver(L, F, n, x, from, to, bk, h, fw, b, a, f, pre, all)
  BY <1>1, <1>2, <1>3, <1>4, <1>6, <1>9, <1>8, <1>10 DEF PushedOver
<1>12. \A i \in 1 .. Len(to) : to[i] = from[x + i]
  <2> HIDE DEF L, F
  <2> QED
    BY <1>11, ForwardAligned
<1>13. to \in Seq(Pages) /\ from \in Seq(Pages)
       /\ Len(to) = (L + n - x) + 1 + (F - n) /\ Len(from) = L + 1 + F
  BY <1>10 DEF TrailOf
<1>14. to = SubSeq(from, x + 1, x + Len(to))
  <2>1. x + Len(to) <= Len(from) /\ x \in Nat
    BY <1>1, <1>8, <1>13
  <2> QED
    BY <1>12, <1>13, <2>1, IsStretch
<1>15. Len(to) = Len(b) + 1 + Len(f) /\ Len(f) <= NavMax
  BY <1>1, <1>3, <1>9, <1>8, <1>13, NavMaxAssumption
<1>16. \E y \in 0 .. Len(bk) :
         /\ Len(b) = Len(bk) + n - y
         /\ to = SubSeq(from, y + 1, y + (Len(b) + 1 + Len(f)))
  BY <1>8, <1>9, <1>14, <1>15
<1> QED
  BY <1>2, <1>3, <1>5, <1>9, <1>15, <1>16 DEF from, to, WentForward

-----------------------------------------------------------------------------
(* Types.                                                                  *)

LEMMA AddedTyped ==
    ASSUME recent \in Seq(Pages), NEW p \in Pages
    PROVE  addToRecent(p) \in Seq(Pages) /\ Len(addToRecent(p)) <= RecentMax
<1> DEFINE all == <<p>> \o Purged(recent, p)
<1>1. all \in Seq(Pages) /\ Len(all) \in Nat
  <2>1. <<p>> \in Seq(Pages) /\ Purged(recent, p) \in Seq(Pages)
    BY PurgedTyped
  <2> QED
    BY <2>1, ConcatProperties, LenProperties
<1> HIDE DEF all
<1>2. Min2(Len(all), RecentMax) \in 0 .. Len(all) /\ Min2(Len(all), RecentMax) <= RecentMax
  BY <1>1, NavAssumption DEF Min2
<1>3. /\ SubSeq(all, 1, Min2(Len(all), RecentMax)) \in Seq(Pages)
      /\ Len(SubSeq(all, 1, Min2(Len(all), RecentMax))) = Min2(Len(all), RecentMax)
  BY <1>1, <1>2, FirstPart
<1> QED
  BY <1>2, <1>3 DEF addToRecent, all

(* Back and Forward by n, on the stacks themselves. *)
LEMMA BackStep ==
    ASSUME TypeOK, NEW n \in 1 .. Len(back), navigateBackN(n)
    PROVE  WentBack(back, cur, fwd, n, back', cur', fwd')
<1>1. IsMove(BackBy(back, cur, fwd, n, NavMax), back', cur', fwd')
  BY DEF navigateBackN, MoveTo, IsMove
<1>2. /\ back \in Seq(Pages) /\ Len(back) <= NavMax /\ cur \in Pages
      /\ fwd \in Seq(Pages) /\ Len(fwd) <= NavMax
  BY DEF TypeOK
<1> QED
  BY <1>1, <1>2, BackMoves

LEMMA ForwardStep ==
    ASSUME TypeOK, NEW n \in 1 .. Len(fwd), navigateForwardN(n)
    PROVE  WentForward(back, cur, fwd, n, back', cur', fwd')
<1>1. IsMove(ForwardBy(back, cur, fwd, n, NavMax), back', cur', fwd')
  BY DEF navigateForwardN, MoveTo, IsMove
<1>2. /\ back \in Seq(Pages) /\ Len(back) <= NavMax /\ cur \in Pages
      /\ fwd \in Seq(Pages) /\ Len(fwd) <= NavMax
  BY DEF TypeOK
<1> QED
  BY <1>1, <1>2, ForwardMoves

(* How far a committed move goes: as far as there is something. *)
LEMMA MoveLength ==
    ASSUME TypeOK
    PROVE  /\ delta < 0 /\ back # <<>> => Min2(-delta, Len(back)) \in 1 .. Len(back)
           /\ delta > 0 /\ fwd # <<>> => Min2(delta, Len(fwd)) \in 1 .. Len(fwd)
<1>1. /\ Len(back) \in Nat /\ (back # <<>> => Len(back) > 0)
      /\ Len(fwd) \in Nat /\ (fwd # <<>> => Len(fwd) > 0)
      /\ delta \in Int
  BY LenProperties, EmptySeq DEF TypeOK
<1> QED
  BY <1>1 DEF Min2

(* The stacks and the page after a step. *)
StacksTyped == /\ back \in Seq(Pages) /\ Len(back) <= NavMax
               /\ fwd \in Seq(Pages) /\ Len(fwd) <= NavMax
               /\ cur \in Pages

LEMMA TypesTogether ==
    ASSUME StacksTyped', recent' \in Seq(Pages), Len(recent') <= RecentMax,
           origin' \in Pages \cup {None}, target' \in Pages \cup {None},
           previewed' \in Pages \cup {None}, delta' \in Int,
           pending' \in BOOLEAN, loading' \in {"no", "asked", "begun"}, gone' \subseteq Pages
    PROVE  TypeOK'
<1>1. {origin', target', previewed'} \subseteq Pages \cup {None}
  OBVIOUS
<1> QED
  BY <1>1 DEF TypeOK, StacksTyped

(* The parts of TypeOK that are Boolean, or a page or none. *)
LEMMA TypesApart ==
    ASSUME TypeOK
    PROVE  /\ origin \in Pages \cup {None} /\ target \in Pages \cup {None}
           /\ previewed \in Pages \cup {None}
           /\ pending \in BOOLEAN /\ loading \in {"no", "asked", "begun"}
<1>1. {origin, target, previewed} \subseteq Pages \cup {None}
  BY DEF TypeOK
<1> QED
  BY <1>1 DEF TypeOK

LEMMA VisitTyped ==
    ASSUME TypeOK, NEW p \in Pages, back' = Pushed(back, cur, NavMax), fwd' = <<>>, cur' = p
    PROVE  StacksTyped'
<1>1. Pushed(back, cur, NavMax) \in Seq(Pages) /\ Len(Pushed(back, cur, NavMax)) <= NavMax
  BY PushedTyped, NavMaxAssumption DEF TypeOK
<1>2. fwd' \in Seq(Pages) /\ Len(fwd') <= NavMax
  BY NavMaxAssumption
<1> QED
  BY <1>1, <1>2 DEF StacksTyped

LEMMA CommitTyped ==
    ASSUME TypeOK, CommitPending
    PROVE  TypeOK'
<1>1. /\ pending' = FALSE /\ delta' = 0 /\ target' = None /\ previewed' = None
      /\ recent' = recent /\ gone' = gone
  BY DEF CommitPending
<1>2. StacksTyped' /\ origin' \in Pages \cup {None} /\ loading' \in {"no", "asked", "begun"}
  <2>1. CASE target # None /\ commitNavigateTo(target) /\ loading' = "asked"
    <3>1. target \in Pages
      BY <2>1 DEF TypeOK
    <3>2. back' = Pushed(back, cur, NavMax) /\ fwd' = <<>> /\ cur' = target /\ origin' = cur
      BY <2>1 DEF commitNavigateTo, MoveTo
    <3> QED
      BY <2>1, <3>1, <3>2, VisitTyped DEF TypeOK
  <2>2. CASE delta < 0 /\ back # <<>> /\ navigateBackN(Min2(-delta, Len(back))) /\ loading' = "asked"
    <3>1. origin' = cur
      BY <2>2 DEF navigateBackN, MoveTo
    <3> QED
      BY <2>2, <3>1, MoveLength, BackStep DEF TypeOK, StacksTyped, WentBack
  <2>3. CASE delta > 0 /\ fwd # <<>> /\ navigateForwardN(Min2(delta, Len(fwd))) /\ loading' = "asked"
    <3>1. origin' = cur
      BY <2>3 DEF navigateForwardN, MoveTo
    <3> QED
      BY <2>3, <3>1, MoveLength, ForwardStep DEF TypeOK, StacksTyped, WentForward
  <2>4. CASE UNCHANGED <<back, fwd, cur, origin, loading, before>>
    BY <2>4 DEF TypeOK, StacksTyped
  <2> QED
    BY <2>1, <2>2, <2>3, <2>4 DEF CommitPending
<1>3. recent' \in Seq(Pages) /\ Len(recent') <= RecentMax /\ gone' \subseteq Pages
      /\ delta' \in Int
  BY <1>1 DEF TypeOK
<1> QED
  BY <1>1, <1>2, <1>3, TypesTogether

LEMMA ReturnTyped ==
    ASSUME TypeOK, ReturnFromMissingPage
    PROVE  TypeOK'
<1> DEFINE bk == Purged(back, cur)
           fw == Purged(fwd, cur)
<1>1. /\ bk \in Seq(Pages) /\ Len(bk) <= NavMax /\ Len(bk) \in Nat
      /\ fw \in Seq(Pages) /\ Len(fw) <= NavMax /\ Len(fw) \in Nat
  BY PurgedTyped, NavMaxAssumption DEF TypeOK
<1>2. recent' \in Seq(Pages) /\ Len(recent') <= RecentMax
  BY PurgedTyped, NavAssumption DEF ReturnFromMissingPage, TypeOK
<1>3. origin \in Pages /\ cur' = origin
  BY DEF ReturnFromMissingPage, TypeOK
<1>4. /\ previewed' = None /\ origin' = None /\ loading' \in {"no", "asked", "begun"}
      /\ UNCHANGED <<pending, delta, target, gone>>
  BY DEF ReturnFromMissingPage
<1> HIDE DEF bk, fw
<1>5. back' \in Seq(Pages) /\ Len(back') <= NavMax
  <2>1. CASE bk # <<>> /\ back' = Front(bk)
    <3>1. Len(bk) > 0
      BY <1>1, <2>1, EmptySeq
    <3>2. Len(bk) - 1 \in 0 .. Len(bk)
      BY <1>1, <3>1
    <3>3. Front(bk) \in Seq(Pages) /\ Len(Front(bk)) = Len(bk) - 1
      BY <1>1, <3>2, FirstPart DEF Front
    <3> QED
      BY <1>1, <2>1, <3>3, NavMaxAssumption
  <2> QED
    BY <1>1, <2>1 DEF ReturnFromMissingPage, bk
<1>6. fwd' \in Seq(Pages) /\ Len(fwd') <= NavMax
  <2>1. CASE origin \in ToSet(fw) /\ fwd' = RemoveAt(fw, IndexIn(fw, origin))
    <3> DEFINE k == IndexIn(fw, origin)
    <3>1. k \in 1 .. Len(fw) /\ fw[k] = origin
      BY <1>1, <2>1, FirstIndex
    <3> HIDE DEF k
    <3>2. k - 1 \in 0 .. Len(fw) /\ k \in 0 .. Len(fw)
      BY <1>1, <3>1
    <3>3. /\ SubSeq(fw, 1, k - 1) \in Seq(Pages) /\ Len(SubSeq(fw, 1, k - 1)) = k - 1
          /\ SubSeq(fw, k + 1, Len(fw)) \in Seq(Pages)
          /\ Len(SubSeq(fw, k + 1, Len(fw))) = Len(fw) - k
      BY <1>1, <3>2, FirstPart, LastPart
    <3>4. fwd' \in Seq(Pages) /\ Len(fwd') = (k - 1) + (Len(fw) - k)
      BY <2>1, <3>3, ConcatProperties DEF RemoveAt, k
    <3> QED
      BY <1>1, <3>1, <3>4, NavMaxAssumption
  <2> QED
    BY <1>1, <2>1 DEF ReturnFromMissingPage, fw
<1>7. StacksTyped' /\ gone' \subseteq Pages /\ delta' \in Int
  BY <1>3, <1>4, <1>5, <1>6 DEF StacksTyped, TypeOK
<1> QED
  BY <1>2, <1>4, <1>7, TypesApart, TypesTogether

LEMMA PressTyped ==
    ASSUME TypeOK, NEW d \in {-1, 1}, Press(d)
    PROVE  TypeOK'
<1>1. /\ delta' = delta + d /\ delta' \in Int /\ pending' = TRUE
      /\ UNCHANGED <<back, fwd, cur, origin, recent, target, loading, gone>>
  BY DEF Press, TypeOK
<1>2. peekNavHeader(delta') \in Pages \cup {None}
  BY <1>1, PeekTyped DEF peekNavHeader, TypeOK
<1>3. previewed' \in Pages \cup {None}
  BY <1>2, TypesApart DEF Press
<1>4. /\ StacksTyped' /\ recent' \in Seq(Pages) /\ Len(recent') <= RecentMax
      /\ gone' \subseteq Pages
  BY <1>1 DEF StacksTyped, TypeOK
<1> QED
  BY <1>1, <1>3, <1>4, TypesApart, TypesTogether

LEMMA ReloadTyped ==
    ASSUME TypeOK, ReloadDue
    PROVE  TypeOK'
<1>1. /\ StacksTyped' /\ gone' \subseteq Pages /\ delta' \in Int
      /\ recent' \in Seq(Pages) /\ Len(recent') <= RecentMax
  BY DEF ReloadDue, StacksTyped, TypeOK
<1> QED
  BY <1>1, TypesApart, TypesTogether DEF ReloadDue

LEMMA LoadedTyped ==
    ASSUME TypeOK, Loaded
    PROVE  TypeOK'
<1>1. StacksTyped' /\ gone' \subseteq Pages /\ delta' \in Int
  BY DEF Loaded, StacksTyped, TypeOK
<1>2. recent' \in Seq(Pages) /\ Len(recent') <= RecentMax
  BY AddedTyped DEF Loaded, TypeOK
<1> QED
  BY <1>1, <1>2, TypesApart, TypesTogether DEF Loaded

LEMMA DeleteTyped ==
    ASSUME TypeOK, NEW p \in Pages, DeleteInLibrary(p)
    PROVE  TypeOK'
<1>1. StacksTyped' /\ gone' \subseteq Pages
  BY PurgedTyped, NavMaxAssumption DEF DeleteInLibrary, StacksTyped, TypeOK
<1>2. recent' \in Seq(Pages) /\ Len(recent') <= RecentMax
  BY PurgedTyped, NavAssumption DEF DeleteInLibrary, TypeOK
<1>3. loading' \in {"no", "asked", "begun"}
  BY TypesApart DEF DeleteInLibrary, scheduleReload
<1> QED
  BY <1>1, <1>2, <1>3, TypesApart, TypesTogether DEF DeleteInLibrary, TypeOK

LEMMA PickTyped ==
    ASSUME TypeOK, NEW p \in Pages, PickInstead(p)
    PROVE  TypeOK'
<1>1. StacksTyped' /\ gone' \subseteq Pages /\ delta' \in Int
  BY PurgedTyped, NavMaxAssumption DEF PickInstead, StacksTyped, TypeOK
<1>2. recent' \in Seq(Pages) /\ Len(recent') <= RecentMax
  BY PurgedTyped, NavAssumption DEF PickInstead, TypeOK
<1> QED
  BY <1>1, <1>2, TypesApart, TypesTogether DEF PickInstead

(* The commands that open a page, and new settings. *)
LEMMA OpenTyped ==
    ASSUME TypeOK, NEW p \in Pages,
           \/ scheduleNavigateTo(p) \/ OpenRecent(p) \/ OpenFromLibrary(p)
           \/ ConfirmSettings(p) \/ NewPageReady(p) \/ DeletedElsewhere(p)
    PROVE  TypeOK'
<1>1. CASE scheduleNavigateTo(p)
  <2>1. StacksTyped' /\ recent' \in Seq(Pages) /\ Len(recent') <= RecentMax
        /\ gone' \subseteq Pages
    BY <1>1 DEF scheduleNavigateTo, StacksTyped, TypeOK
  <2> QED
    BY <1>1, <2>1, TypesApart, TypesTogether DEF scheduleNavigateTo
<1>2. CASE OpenRecent(p)
  <2>1. back' = Pushed(back, cur, NavMax) /\ fwd' = <<>> /\ cur' = p /\ origin' = cur
    BY <1>2 DEF OpenRecent, commitNavigateTo, MoveTo
  <2>2. StacksTyped'
    BY <2>1, VisitTyped
  <2>3. loading' \in {"no", "asked", "begun"}
    BY <1>2, TypesApart DEF OpenRecent, scheduleReload
  <2>4. recent' \in Seq(Pages) /\ Len(recent') <= RecentMax /\ gone' \subseteq Pages
        /\ delta' \in Int /\ origin' \in Pages \cup {None}
    BY <1>2, <2>1 DEF OpenRecent, TypeOK
  <2> QED
    BY <1>2, <2>2, <2>3, <2>4, TypesApart, TypesTogether DEF OpenRecent
<1>3. CASE OpenFromLibrary(p)
  <2>1. StacksTyped'
    BY <1>3, VisitTyped DEF OpenFromLibrary
  <2>2. loading' \in {"no", "asked", "begun"}
    BY <1>3, TypesApart DEF OpenFromLibrary, scheduleReload
  <2>3. recent' \in Seq(Pages) /\ Len(recent') <= RecentMax /\ gone' \subseteq Pages
        /\ delta' \in Int
    BY <1>3 DEF OpenFromLibrary, TypeOK
  <2> QED
    BY <1>3, <2>1, <2>2, <2>3, TypesApart, TypesTogether DEF OpenFromLibrary
<1>4. CASE ConfirmSettings(p)
  <2>1. StacksTyped' /\ recent' \in Seq(Pages) /\ Len(recent') <= RecentMax
    BY <1>4, NavMaxAssumption, NavAssumption DEF ConfirmSettings, StacksTyped
  <2>2. loading' \in {"no", "asked", "begun"}
    BY <1>4, TypesApart DEF ConfirmSettings, scheduleReload
  <2>3. gone' \subseteq Pages /\ delta' \in Int
    BY <1>4 DEF ConfirmSettings, TypeOK
  <2> QED
    BY <1>4, <2>1, <2>2, <2>3, TypesApart, TypesTogether DEF ConfirmSettings
<1>5. CASE NewPageReady(p)
  <2>1. StacksTyped'
    BY <1>5, VisitTyped DEF NewPageReady
  <2>2. recent' \in Seq(Pages) /\ Len(recent') <= RecentMax /\ gone' \subseteq Pages
        /\ delta' \in Int
    BY <1>5 DEF NewPageReady, TypeOK
  <2> QED
    BY <1>5, <2>1, <2>2, TypesApart, TypesTogether DEF NewPageReady
<1>6. CASE DeletedElsewhere(p)
  <2>1. StacksTyped' /\ recent' \in Seq(Pages) /\ Len(recent') <= RecentMax
        /\ gone' \subseteq Pages /\ delta' \in Int
    BY <1>6 DEF DeletedElsewhere, StacksTyped, TypeOK
  <2> QED
    BY <1>6, <2>1, TypesApart, TypesTogether DEF DeletedElsewhere
<1> QED
  BY <1>1, <1>2, <1>3, <1>4, <1>5, <1>6

LEMMA InitNavTyped == Init => TypeOK
<1> SUFFICES ASSUME Init PROVE TypeOK
  OBVIOUS
<1>1. /\ back \in Seq(Pages) /\ Len(back) <= NavMax
      /\ fwd \in Seq(Pages) /\ Len(fwd) <= NavMax
      /\ recent \in Seq(Pages) /\ Len(recent) <= RecentMax
      /\ cur \in Pages /\ delta \in Int /\ gone \subseteq Pages
  BY NavMaxAssumption, NavAssumption DEF Init
<1>2. {origin, target, previewed} \subseteq Pages \cup {None}
  BY DEF Init
<1>3. pending \in BOOLEAN /\ loading \in {"no", "asked", "begun"}
  BY DEF Init
<1> QED
  BY <1>1, <1>2, <1>3 DEF TypeOK

LEMMA NextNavTyped == TypeOK /\ [Next]_navVars => TypeOK'
<1> SUFFICES ASSUME TypeOK, [Next]_navVars PROVE TypeOK'
  OBVIOUS
<1>1. CASE CommitPending
  BY <1>1, CommitTyped
<1>2. CASE PressBack \/ PressForward
  BY <1>2, PressTyped DEF PressBack, PressForward
<1>3. ASSUME NEW p \in Pages,
             \/ scheduleNavigateTo(p) \/ OpenRecent(p) \/ OpenFromLibrary(p)
             \/ ConfirmSettings(p) \/ NewPageReady(p) \/ DeletedElsewhere(p)
      PROVE  TypeOK'
  BY <1>3, OpenTyped
<1>4. ASSUME NEW p \in Pages, DeleteInLibrary(p) \/ PickInstead(p)
      PROVE  TypeOK'
  BY <1>4, DeleteTyped, PickTyped
<1>5. CASE Loaded \/ ReloadDue
  BY <1>5, LoadedTyped, ReloadTyped
<1>6. CASE ReturnFromMissingPage
  BY <1>6, ReturnTyped
<1>7. CASE UNCHANGED navVars
  BY <1>7 DEF navVars, TypeOK
<1> QED
  BY <1>1, <1>2, <1>3, <1>4, <1>5, <1>6, <1>7 DEF Next

(* The stacks and the recent pages fit their arrays, kNavHistMax and       *)
(* kMaxRecentPages long, whatever is pushed, moved over or purged.         *)
THEOREM NavTyped == Spec => []TypeOK
BY InitNavTyped, NextNavTyped, PTL DEF Spec

-----------------------------------------------------------------------------
(* The recent pages.                                                       *)

Different(s) == \A i, j \in 1 .. Len(s) : i # j => s[i] # s[j]

LEMMA PurgedDifferent ==
    ASSUME NEW s \in Seq(Pages), Different(s), NEW p
    PROVE  Different(Purged(s, p))
BY AmongDistinct DEF Different, Purged

LEMMA AddedDifferent ==
    ASSUME recent \in Seq(Pages), Different(recent), NEW p \in Pages
    PROVE  Different(addToRecent(p))
<1> DEFINE rest == Purged(recent, p)
           all == <<p>> \o rest
           k == Min2(Len(all), RecentMax)
<1>1. /\ rest \in Seq(Pages) /\ Len(rest) \in Nat /\ Different(rest)
      /\ \A j \in 1 .. Len(rest) : rest[j] # p
  BY PurgedTyped, PurgedDifferent
<1> HIDE DEF rest
<1>2. /\ all \in Seq(Pages) /\ Len(all) = 1 + Len(rest)
      /\ all[1] = p /\ \A i \in 1 .. Len(rest) : all[1 + i] = rest[i]
  <2>1. <<p>> \in Seq(Pages) /\ Len(<<p>>) = 1 /\ <<p>>[1] = p
    OBVIOUS
  <2>2. /\ all \in Seq(Pages) /\ Len(all) = Len(<<p>>) + Len(rest)
        /\ \A i \in 1 .. Len(<<p>>) + Len(rest) :
              all[i] = IF i <= Len(<<p>>) THEN <<p>>[i] ELSE rest[i - Len(<<p>>)]
    BY <1>1, <2>1, ConcatProperties
  <2> HIDE DEF all
  <2> QED
    BY <1>1, <2>1, <2>2
<1> HIDE DEF all
<1>3. k \in 0 .. Len(all)
  BY <1>1, <1>2, NavAssumption DEF Min2
<1> HIDE DEF k
<1>4. /\ Len(SubSeq(all, 1, k)) = k /\ \A i \in 1 .. k : SubSeq(all, 1, k)[i] = all[i]
  BY <1>2, <1>3, FirstPart
<1>5. ASSUME NEW i \in 1 .. Len(all), NEW j \in 1 .. Len(all), i < j
      PROVE  all[i] # all[j]
  <2>1. j - 1 \in 1 .. Len(rest) /\ j = 1 + (j - 1)
    BY <1>1, <1>2, <1>5
  <2>2. all[j] = rest[j - 1]
    BY <1>2, <2>1
  <2>3. CASE i = 1
    BY <1>1, <1>2, <2>1, <2>2, <2>3
  <2>4. CASE i # 1
    <3>1. i - 1 \in 1 .. Len(rest) /\ i = 1 + (i - 1)
      BY <1>1, <1>2, <1>5, <2>4
    <3>2. all[i] = rest[i - 1] /\ i - 1 # j - 1
      BY <1>2, <1>5, <3>1
    <3>3. rest[i - 1] # rest[j - 1]
      BY <1>1, <2>1, <3>1, <3>2 DEF Different
    <3> QED
      BY <2>2, <3>2, <3>3
  <2> QED
    BY <2>3, <2>4
<1>6. \A i, j \in 1 .. Len(all) : i # j => all[i] # all[j]
  BY <1>1, <1>2, <1>5
<1>7. Different(SubSeq(all, 1, k))
  BY <1>1, <1>2, <1>3, <1>4, <1>6 DEF Different
<1> QED
  BY <1>7 DEF addToRecent, all, rest, k

LEMMA NextDifferent == TypeOK /\ Different(recent) /\ [Next]_navVars => Different(recent')
<1> SUFFICES ASSUME TypeOK, Different(recent), [Next]_navVars PROVE Different(recent')
  OBVIOUS
<1>0. recent \in Seq(Pages) /\ cur \in Pages
  BY DEF TypeOK
<1>1. CASE recent' = recent
  BY <1>1
<1>2. CASE \E p : recent' = Purged(recent, p)
  BY <1>0, <1>2, PurgedDifferent
<1>3. CASE Loaded
  BY <1>0, <1>3, AddedDifferent DEF Loaded
<1>4. CASE recent' = <<>>
  BY <1>4 DEF Different
<1>5. \/ recent' = recent \/ (\E p : recent' = Purged(recent, p)) \/ Loaded \/ recent' = <<>>
  BY DEF Next, navVars, CommitPending, PressBack, PressForward, Press, scheduleNavigateTo,
         OpenRecent, OpenFromLibrary, ConfirmSettings, NewPageReady, DeleteInLibrary,
         DeletedElsewhere, PickInstead, ReloadDue, ReturnFromMissingPage
<1> QED
  BY <1>1, <1>2, <1>3, <1>4, <1>5

(* addToRecent moves a page that is listed to the front, PurgeFromArray    *)
(* closes the gaps: the menu never lists a page twice.                     *)
THEOREM NavRecentDistinct == Spec => []RecentDistinct
<1>1. Init => Different(recent)
  BY DEF Init, Different
<1>2. Different(recent) <=> RecentDistinct
  BY DEF Different, RecentDistinct
<1>3. TypeOK /\ RecentDistinct /\ [Next]_navVars => RecentDistinct'
  <2>1. Different(recent') <=> RecentDistinct'
    BY DEF Different, RecentDistinct
  <2> QED
    BY <1>2, <2>1, NextDifferent
<1> QED
  BY <1>1, <1>2, <1>3, NavTyped, PTL DEF Spec

-----------------------------------------------------------------------------
(* Previews.                                                               *)

(* What was promised still lies where the presses lead. *)
PromiseOK == target = None /\ delta # 0 /\ previewed # None => previewed = peekNavHeader(delta)

LEMMA NextPromise == PromiseOK /\ [Next]_navVars => PromiseOK'
<1> SUFFICES ASSUME PromiseOK, [Next]_navVars PROVE PromiseOK'
  OBVIOUS
<1>1. CASE PressBack \/ PressForward
  BY <1>1 DEF PressBack, PressForward, Press, PromiseOK, peekNavHeader
<1>2. ASSUME NEW p \in Pages, scheduleNavigateTo(p) PROVE PromiseOK'
  BY <1>2 DEF scheduleNavigateTo, PromiseOK
<1>3. CASE previewed' = None
  BY <1>3 DEF PromiseOK
<1>4. CASE UNCHANGED <<target, delta, previewed, back, fwd>>
  BY <1>4 DEF PromiseOK, peekNavHeader
<1>5. \/ PressBack \/ PressForward \/ (\E p \in Pages : scheduleNavigateTo(p))
      \/ previewed' = None \/ UNCHANGED <<target, delta, previewed, back, fwd>>
  BY DEF Next, navVars, CommitPending, OpenRecent, OpenFromLibrary, ConfirmSettings,
         NewPageReady, DeleteInLibrary, DeletedElsewhere, PickInstead, Loaded,
         ReturnFromMissingPage, ReloadDue
<1> QED
  BY <1>1, <1>2, <1>3, <1>4, <1>5

(* However many presses were summed, and whatever was pushed, purged or    *)
(* deleted in between, the page that is loaded is the one whose header the *)
(* last press showed (peekNavHeader and navigateBackN agree).              *)
THEOREM NavLandsOnPreview == Spec => LandsOnPreview
<1>1. Init => PromiseOK
  BY DEF Init, PromiseOK
<1>2. ASSUME TypeOK, PromiseOK, CommitPending, target = None, delta # 0, previewed # None
      PROVE  cur' = previewed
  <2>1. previewed = Peek(back, fwd, delta, None)
    BY <1>2 DEF PromiseOK, peekNavHeader
  <2>2. /\ delta \in Int /\ Len(back) \in Nat /\ Len(fwd) \in Nat
        /\ back # <<>> => Len(back) > 0
    BY <1>2, LenProperties, EmptySeq DEF TypeOK
  <2>3. CASE delta < 0
    <3>1. back # <<>> /\ previewed = back[Len(back) + 1 - Min2(-delta, Len(back))]
      BY <1>2, <2>1, <2>2, <2>3 DEF Peek
    <3>2. navigateBackN(Min2(-delta, Len(back)))
      BY <1>2, <2>2, <2>3, <3>1 DEF CommitPending
    <3> DEFINE n == Min2(-delta, Len(back))
    <3>3. n \in 1 .. Len(back) /\ Len(back) + 1 - n = Len(back) - n + 1
      BY <1>2, <2>2, <2>3, <3>1, MoveLength
    <3> HIDE DEF n
    <3>4. cur' = back[Len(back) - n + 1]
      BY <1>2, <3>2, <3>3, BackStep DEF WentBack, n
    <3> QED
      BY <3>1, <3>3, <3>4 DEF n
  <2>4. CASE delta > 0
    <3>1. delta <= Len(fwd) /\ previewed = fwd[delta]
      BY <1>2, <2>1, <2>2, <2>4 DEF Peek
    <3>2. fwd # <<>> /\ delta \in 1 .. Len(fwd) /\ Min2(delta, Len(fwd)) = delta
      BY <2>2, <2>4, <3>1 DEF Min2
    <3>3. navigateForwardN(delta)
      BY <1>2, <2>2, <2>4, <3>2 DEF CommitPending
    <3> QED
      BY <1>2, <3>1, <3>2, <3>3, ForwardStep DEF WentForward
  <2> QED
    BY <1>2, <2>2, <2>3, <2>4
<1>3. TypeOK /\ PromiseOK =>
        [CommitPending /\ target = None /\ delta # 0 /\ previewed # None
           => cur' = previewed]_navVars
  BY <1>2
<1> QED
  BY <1>1, <1>3, NextPromise, NavTyped, PTL DEF Spec, LandsOnPreview

-----------------------------------------------------------------------------
(* The refinement.                                                         *)

TheTrail == back \o <<cur>> \o fwd
Place == Len(back) + 1

LEMMA TrailNow ==
    ASSUME TypeOK
    PROVE  /\ TrailOf(TheTrail, Len(back), Len(fwd), back, cur, fwd)
           /\ Len(back) \in Nat /\ Len(fwd) \in Nat
           /\ TheTrail \in Seq(Pages) /\ Len(TheTrail) = Len(back) + 1 + Len(fwd)
           /\ TheTrail[Place] = cur
<1>1. TrailOf(TheTrail, Len(back), Len(fwd), back, cur, fwd)
  BY TrailJoined DEF TypeOK, TheTrail
<1>2. Len(back) \in Nat /\ Len(fwd) \in Nat
  BY LenProperties DEF TypeOK
<1> QED
  BY <1>1, <1>2 DEF TrailOf, Place

(* What the trail calls older and newer are the two stacks. *)
LEMMA TrailSides ==
    ASSUME TypeOK
    PROVE  /\ SubSeq(TheTrail, 1, Place - 1) = back
           /\ SubSeq(TheTrail, Place + 1, Len(TheTrail)) = fwd
<1> DEFINE L == Len(back)
           F == Len(fwd)
           tr == TheTrail
<1>1. /\ tr \in Seq(Pages) /\ L \in Nat /\ F \in Nat /\ Len(tr) = L + 1 + F
      /\ \A i \in 1 .. L : tr[i] = back[i]
      /\ \A i \in 1 .. F : tr[L + 1 + i] = fwd[i]
      /\ back \in Seq(Pages) /\ fwd \in Seq(Pages)
  BY TrailNow DEF TrailOf, TypeOK
<1> HIDE DEF tr
<1>2. back = SubSeq(tr, 0 + 1, 0 + L)
  <2>1. 0 + Len(back) <= Len(tr) /\ \A i \in 1 .. Len(back) : back[i] = tr[0 + i]
    BY <1>1
  <2> QED
    BY <1>1, <2>1, IsStretch
<1>3. fwd = SubSeq(tr, (L + 1) + 1, (L + 1) + F)
  <2>1. (L + 1) + Len(fwd) <= Len(tr) /\ L + 1 \in Nat
    BY <1>1
  <2> QED
    BY <1>1, <2>1, IsStretch
<1>4. Place - 1 = 0 + L /\ Place = L + 1 /\ Len(tr) = (L + 1) + F
  BY <1>1 DEF Place
<1> QED
  BY <1>2, <1>3, <1>4 DEF tr

LEMMA BackGoes ==
    ASSUME TypeOK, NEW n \in 1 .. Len(back), navigateBackN(n)
    PROVE  T!Go(-n)
<1> DEFINE keep == Len(back') + 1 + Len(fwd')
<1>1. /\ Len(TheTrail) = Len(back) + 1 + Len(fwd)
      /\ Len(back) \in Nat /\ Len(fwd) \in Nat /\ n \in Nat
  BY TrailNow
<1>2. /\ Len(back') = Len(back) - n /\ n <= Len(fwd') /\ Len(fwd') \in Nat
      /\ keep <= Len(TheTrail)
      /\ TheTrail' = SubSeq(TheTrail, 1, keep)
  BY <1>1, BackStep, LenProperties DEF WentBack, TheTrail
<1>3. /\ 0 \in 0 .. Len(TheTrail) /\ keep \in 1 .. Len(TheTrail)
      /\ Place + (-n) \in 1 .. Len(TheTrail) /\ 0 + keep <= Len(TheTrail)
      /\ 0 + 1 = 1 /\ 0 + keep = keep
      /\ Place' = Place + (-n) - 0 /\ Place' \in 1 .. keep /\ Place - 0 \in 1 .. keep
  BY <1>1, <1>2 DEF Place
<1> HIDE DEF keep
<1>4. \E cut \in 0 .. Len(TheTrail), kp \in 1 .. Len(TheTrail) :
             /\ Place + (-n) \in 1 .. Len(TheTrail)
             /\ cut + kp <= Len(TheTrail)
             /\ TheTrail' = SubSeq(TheTrail, cut + 1, cut + kp)
             /\ Place' = Place + (-n) - cut
             /\ Place' \in 1 .. kp
             /\ Place - cut \in 1 .. kp
  BY <1>2, <1>3
<1> QED
  BY <1>4 DEF T!Go, TheTrail, Place

LEMMA ForwardGoes ==
    ASSUME TypeOK, NEW n \in 1 .. Len(fwd), navigateForwardN(n)
    PROVE  T!Go(n)
<1> DEFINE keep == Len(back') + 1 + Len(fwd')
<1>1. /\ Len(TheTrail) = Len(back) + 1 + Len(fwd)
      /\ Len(back) \in Nat /\ Len(fwd) \in Nat /\ n \in Nat
  BY TrailNow
<1>2. PICK x \in 0 .. Len(back) :
         /\ Len(back') = Len(back) + n - x
         /\ TheTrail' = SubSeq(TheTrail, x + 1, x + keep)
  BY ForwardStep DEF WentForward, TheTrail
<1>3. Len(fwd') = Len(fwd) - n /\ Len(back') <= NavMax
  BY ForwardStep DEF WentForward
<1>4. /\ x \in 0 .. Len(TheTrail) /\ keep \in 1 .. Len(TheTrail)
      /\ Place + n \in 1 .. Len(TheTrail) /\ x + keep <= Len(TheTrail)
      /\ Place' = Place + n - x /\ Place' \in 1 .. keep /\ Place - x \in 1 .. keep
  BY <1>1, <1>2, <1>3 DEF Place
<1> HIDE DEF keep
<1>5. \E cut \in 0 .. Len(TheTrail), kp \in 1 .. Len(TheTrail) :
             /\ Place + n \in 1 .. Len(TheTrail)
             /\ cut + kp <= Len(TheTrail)
             /\ TheTrail' = SubSeq(TheTrail, cut + 1, cut + kp)
             /\ Place' = Place + n - cut
             /\ Place' \in 1 .. kp
             /\ Place - cut \in 1 .. kp
  BY <1>2, <1>4
<1> QED
  BY <1>5 DEF T!Go, TheTrail, Place

(* Opening a page cuts off Forward, and what Back has no room for. *)
LEMMA VisitGoes ==
    ASSUME TypeOK, NEW p \in Pages, back' = Pushed(back, cur, NavMax), fwd' = <<>>, cur' = p
    PROVE  T!Visit(p)
<1> DEFINE b == Append(back, cur)
           x == Excess(b, NavMax)
<1>1. /\ b \in Seq(Pages) /\ Len(b) = Len(back) + 1
      /\ \A i \in 1 .. Len(back) : b[i] = back[i]
      /\ b[Len(back) + 1] = cur
      /\ Len(back) \in Nat /\ Len(back) <= NavMax
  BY AppendProperties, LenProperties DEF TypeOK
<1> HIDE DEF b
<1>2. /\ x \in 0 .. Len(back) /\ Newest(b, NavMax) = SubSeq(b, x + 1, Len(b))
      /\ Newest(b, NavMax) \in Seq(Pages) /\ Len(Newest(b, NavMax)) = Len(b) - x
  <2>1. Excess(b, NavMax) \in 0 .. Len(back)
    BY <1>1, NavMaxAssumption DEF Excess
  <2>2. /\ Newest(b, NavMax) = SubSeq(b, Excess(b, NavMax) + 1, Len(b))
        /\ Newest(b, NavMax) \in Seq(Pages) /\ Len(Newest(b, NavMax)) = Len(b) - Excess(b, NavMax)
    BY <1>1, NewestStretch, NewestTyped, NavMaxAssumption
  <2> QED
    BY <2>1, <2>2
<1>3. /\ \A i \in 1 .. Len(b) - x : Newest(b, NavMax)[i] = b[x + i]
  BY <1>1, NewestTyped, NavMaxAssumption
<1> HIDE DEF x
<1>4. Newest(b, NavMax) = SubSeq(TheTrail, x + 1, Place)
  <2> DEFINE w == Newest(b, NavMax)
  <2>1. /\ TheTrail \in Seq(Pages) /\ Len(TheTrail) = Len(back) + 1 + Len(fwd)
        /\ Len(fwd) \in Nat
        /\ \A i \in 1 .. Len(back) : TheTrail[i] = back[i]
        /\ TheTrail[Len(back) + 1] = cur
    BY TrailNow DEF TrailOf
  <2>2. w \in Seq(Pages) /\ Len(w) = Len(back) + 1 - x /\ x \in Nat /\ x + Len(w) <= Len(TheTrail)
    BY <1>1, <1>2, <2>1
  <2>3. \A i \in 1 .. Len(w) : w[i] = b[x + i] /\ x + i \in 1 .. Len(back) + 1
    BY <1>1, <1>2, <1>3, <2>2
  <2>4. \A k \in 1 .. Len(back) + 1 : b[k] = TheTrail[k]
    BY <1>1, <2>1
  <2> HIDE DEF w
  <2>5. \A i \in 1 .. Len(w) : w[i] = TheTrail[x + i]
    BY <2>3, <2>4
  <2>6. w = SubSeq(TheTrail, x + 1, x + Len(w))
    BY <2>1, <2>2, <2>5, IsStretch
  <2>7. x + Len(w) = Place
    BY <1>1, <2>2 DEF Place
  <2> QED
    BY <2>6, <2>7 DEF w
<1>5. back' = Newest(b, NavMax) /\ TheTrail' = back' \o <<p>> \o <<>>
  BY DEF Pushed, b, TheTrail
<1>6. /\ TheTrail' = SubSeq(TheTrail, x + 1, Place) \o <<p>>
      /\ Len(TheTrail') = Len(back') + 1
  <2>1. back' \in Seq(Pages) /\ <<p>> \in Seq(Pages) /\ Len(<<p>>) = 1
    BY <1>2, <1>5
  <2>2. /\ back' \o <<p>> \in Seq(Pages) /\ Len(back' \o <<p>>) = Len(back') + 1
    BY <2>1, ConcatProperties
  <2>3. TheTrail' = back' \o <<p>>
    BY <1>5, <2>2, ConcatEmptySeq
  <2> QED
    BY <1>4, <1>5, <2>2, <2>3
<1>7. x \in 0 .. Place - 1
  BY <1>1, <1>2 DEF Place
<1>8. \E cut \in 0 .. Place - 1 : /\ TheTrail' = SubSeq(TheTrail, cut + 1, Place) \o <<p>>
                                  /\ Place' = Len(TheTrail')
  BY <1>6, <1>7 DEF Place
<1> QED
  BY <1>8 DEF T!Visit, TheTrail, Place

(* Forgetting a page on the trail is purging it from both stacks. *)
LEMMA OthersArePurged ==
    ASSUME NEW s, NEW p
    PROVE  T!Others(s, p) = Purged(s, p)
BY DEF T!Others, T!Among, Among, Purged

LEMMA InitTrail == Init => T!Init
<1> SUFFICES ASSUME Init PROVE T!Init
  OBVIOUS
<1>1. /\ back = <<>> /\ fwd = <<>> /\ cur \in Pages
      /\ <<cur>> \in Seq(Pages) /\ Len(<<cur>>) = 1
  BY DEF Init
<1>2. <<>> \o <<cur>> \o <<>> = <<cur>>
  BY <1>1, ConcatEmptySeq
<1> QED
  BY <1>1, <1>2 DEF T!Init

LEMMA DeletionForgets ==
    ASSUME TypeOK, NEW p \in Pages, DeleteInLibrary(p)
    PROVE  T!Forget(p)
<1>1. /\ back' = Purged(back, p) /\ fwd' = Purged(fwd, p) /\ cur' = cur
  BY DEF DeleteInLibrary
<1>2. /\ T!Others(T!Older, p) = Purged(back, p) /\ T!Others(T!Newer, p) = Purged(fwd, p)
  BY TrailSides, OthersArePurged DEF T!Older, T!Newer, TheTrail, Place
<1>3. TheTrail[Place] = cur
  BY TrailNow
<1> QED
  BY <1>1, <1>2, <1>3 DEF T!Forget, TheTrail, Place

LEMMA PickReplaces ==
    ASSUME TypeOK, NEW p \in Pages, PickInstead(p)
    PROVE  T!Replace(p)
<1>1. /\ back' = Purged(back, cur) /\ fwd' = Purged(fwd, cur) /\ cur' = p
  BY DEF PickInstead
<1>2. /\ T!Others(T!Older, cur) = Purged(back, cur)
      /\ T!Others(T!Newer, cur) = Purged(fwd, cur)
  BY TrailSides, OthersArePurged DEF T!Older, T!Newer, TheTrail, Place
<1>3. TheTrail[Place] = cur
  BY TrailNow
<1> QED
  BY <1>1, <1>2, <1>3 DEF T!Replace, TheTrail, Place

LEMMA SettingsRestart ==
    ASSUME NEW p \in Pages, ConfirmSettings(p)
    PROVE  T!Restart(p)
<1>1. back' = <<>> /\ fwd' = <<>> /\ cur' = p
  BY DEF ConfirmSettings
<1>2. <<p>> \in Seq(Pages) /\ Len(<<>>) = 0
  OBVIOUS
<1>3. <<>> \o <<p>> \o <<>> = <<p>>
  BY <1>2, ConcatEmptySeq
<1> QED
  BY <1>1, <1>2, <1>3 DEF T!Restart

(* What is left of a stack after a page is purged, and perhaps another     *)
(* element taken out.                                                      *)
LeftOf(w, s, p) == /\ w \in Seq(Pages) /\ Len(w) \in Nat /\ Len(w) <= Len(s)
                   /\ \A j \in 1 .. Len(w) :
                         w[j] \in Pages /\ w[j] # p /\ \E i \in 1 .. Len(s) : w[j] = s[i]

LEMMA PurgedLeft ==
    ASSUME NEW s \in Seq(Pages), NEW p
    PROVE  LeftOf(Purged(s, p), s, p)
<1>1. /\ Purged(s, p) \in Seq(Pages) /\ Len(Purged(s, p)) <= Len(s)
      /\ Len(Purged(s, p)) \in Nat
      /\ \A j \in 1 .. Len(Purged(s, p)) :
             /\ Purged(s, p)[j] # p
             /\ \E i \in 1 .. Len(s) : Purged(s, p)[j] = s[i]
  BY PurgedTyped
<1>2. \A j \in 1 .. Len(Purged(s, p)) : Purged(s, p)[j] \in Pages
  BY <1>1, ElementOfSeq
<1> QED
  BY <1>1, <1>2 DEF LeftOf

LEMMA FrontLeft ==
    ASSUME NEW s \in Seq(Pages), NEW p, NEW w, LeftOf(w, s, p), w # <<>>
    PROVE  LeftOf(Front(w), s, p)
<1>1. w \in Seq(Pages) /\ Len(w) \in Nat /\ Len(w) > 0
  BY EmptySeq DEF LeftOf
<1>2. Len(w) - 1 \in 0 .. Len(w)
  BY <1>1
<1>3. /\ Front(w) \in Seq(Pages) /\ Len(Front(w)) = Len(w) - 1
      /\ \A j \in 1 .. Len(w) - 1 : Front(w)[j] = w[j]
  BY <1>1, <1>2, FirstPart DEF Front
<1> DEFINE v == Front(w)
<1>4. v \in Seq(Pages) /\ Len(v) = Len(w) - 1 /\ \A j \in 1 .. Len(w) - 1 : v[j] = w[j]
  BY <1>3
<1>5. Len(w) <= Len(s) /\ Len(s) \in Nat
  BY LenProperties DEF LeftOf
<1> HIDE DEF v
<1>6. Len(v) \in Nat /\ Len(v) <= Len(s)
  BY <1>1, <1>4, <1>5
<1>7. ASSUME NEW j \in 1 .. Len(v)
      PROVE  v[j] \in Pages /\ v[j] # p /\ \E i \in 1 .. Len(s) : v[j] = s[i]
  <2>1. j \in 1 .. Len(w) /\ v[j] = w[j]
    BY <1>1, <1>4, <1>7
  <2> QED
    BY <2>1 DEF LeftOf
<1>8. LeftOf(v, s, p)
  BY <1>4, <1>6, <1>7 DEF LeftOf
<1> QED
  BY <1>8 DEF v

LEMMA WithoutLeft ==
    ASSUME NEW s \in Seq(Pages), NEW p, NEW w, LeftOf(w, s, p), NEW k \in 1 .. Len(w)
    PROVE  LeftOf(RemoveAt(w, k), s, p)
<1> DEFINE a == SubSeq(w, 1, k - 1)
           b == SubSeq(w, k + 1, Len(w))
           v == RemoveAt(w, k)
<1>1. w \in Seq(Pages) /\ Len(w) \in Nat /\ Len(w) <= Len(s) /\ Len(s) \in Nat
  BY LenProperties DEF LeftOf
<1>2. k - 1 \in 0 .. Len(w) /\ k \in 0 .. Len(w)
  BY <1>1
<1>3. /\ a \in Seq(Pages) /\ Len(a) = k - 1
      /\ \A j \in 1 .. k - 1 : a[j] = w[j]
      /\ b \in Seq(Pages) /\ Len(b) = Len(w) - k
      /\ \A j \in 1 .. Len(w) - k : b[j] = w[k + j]
  BY <1>1, <1>2, FirstPart, LastPart
<1> HIDE DEF a, b
<1>4. /\ v \in Seq(Pages) /\ Len(v) = (k - 1) + (Len(w) - k)
      /\ \A j \in 1 .. k - 1 : v[j] = a[j]
      /\ \A j \in 1 .. Len(w) - k : v[(k - 1) + j] = b[j]
  <2>1. v = a \o b
    BY DEF RemoveAt, a, b
  <2> HIDE DEF v
  <2>2. /\ a \o b \in Seq(Pages) /\ Len(a \o b) = Len(a) + Len(b)
        /\ \A i \in 1 .. Len(a) + Len(b) : (a \o b)[i] =
                      IF i <= Len(a) THEN a[i] ELSE b[i - Len(a)]
    BY <1>3, ConcatProperties
  <2>3. \A j \in 1 .. k - 1 : j \in 1 .. Len(a) + Len(b) /\ j <= Len(a)
    BY <1>1, <1>3
  <2>4. \A j \in 1 .. Len(w) - k :
           /\ (k - 1) + j \in 1 .. Len(a) + Len(b)
           /\ ~((k - 1) + j <= Len(a)) /\ ((k - 1) + j) - Len(a) = j
    BY <1>1, <1>3
  <2> QED
    BY <1>3, <2>1, <2>2, <2>3, <2>4
<1> HIDE DEF v
<1>5. \A j \in 1 .. Len(v) : \E m \in 1 .. Len(w) : v[j] = w[m]
  <2> SUFFICES ASSUME NEW j \in 1 .. Len(v) PROVE \E m \in 1 .. Len(w) : v[j] = w[m]
    OBVIOUS
  <2>1. CASE j <= k - 1
    <3>1. j \in 1 .. k - 1 /\ j \in 1 .. Len(w)
      BY <1>1, <1>4, <2>1
    <3> QED
      BY <1>3, <1>4, <3>1
  <2>2. CASE j > k - 1
    <3>1. /\ j - (k - 1) \in 1 .. Len(w) - k /\ (k - 1) + (j - (k - 1)) = j
          /\ k + (j - (k - 1)) \in 1 .. Len(w)
      BY <1>1, <1>4, <2>2
    <3> QED
      BY <1>3, <1>4, <3>1
  <2> QED
    BY <1>1, <2>1, <2>2
<1>6. Len(v) \in Nat /\ Len(v) <= Len(s)
  BY <1>1, <1>4
<1>7. \A j \in 1 .. Len(v) : /\ v[j] \in Pages /\ v[j] # p
                              /\ \E i \in 1 .. Len(s) : v[j] = s[i]
  BY <1>5 DEF LeftOf
<1>8. LeftOf(v, s, p)
  BY <1>4, <1>6, <1>7 DEF LeftOf
<1> QED
  BY <1>8 DEF v

(* After a page is missing, the page left last is on a shorter trail of    *)
(* pages that were there.                                                  *)
LEMMA MissingReturns ==
    ASSUME TypeOK, ReturnFromMissingPage
    PROVE  T!Return
<1> DEFINE bk == Purged(back, cur)
           fw == Purged(fwd, cur)
<1>1. /\ origin \in Pages /\ origin # cur /\ cur' = origin
      /\ back \in Seq(Pages) /\ fwd \in Seq(Pages)
  BY DEF ReturnFromMissingPage, TypeOK
<1>2. LeftOf(bk, back, cur) /\ LeftOf(fw, fwd, cur) /\ bk \in Seq(Pages) /\ fw \in Seq(Pages)
  BY <1>1, PurgedLeft DEF LeftOf
<1>3. /\ back' = bk \/ (bk # <<>> /\ back' = Front(bk))
      /\ fwd' = fw \/ (origin \in ToSet(fw) /\ fwd' = RemoveAt(fw, IndexIn(fw, origin)))
  BY DEF ReturnFromMissingPage
<1> HIDE DEF bk, fw
<1>4. LeftOf(back', back, cur)
  BY <1>1, <1>2, <1>3, FrontLeft
<1>5. LeftOf(fwd', fwd, cur)
  <2>1. origin \in ToSet(fw) => IndexIn(fw, origin) \in 1 .. Len(fw)
    BY <1>1, <1>2, FirstIndex
  <2> QED
    BY <1>1, <1>2, <1>3, <2>1, WithoutLeft
<1>6. TrailOf(TheTrail', Len(back'), Len(fwd'), back', cur', fwd')
  BY <1>1, <1>4, <1>5, TrailJoined DEF TheTrail, LeftOf
<1> DEFINE new == TheTrail'
<1>7. /\ Len(back') \in Nat /\ Len(fwd') \in Nat
      /\ Len(back') <= Len(back) /\ Len(fwd') <= Len(fwd)
      /\ Len(back) \in Nat /\ Len(fwd) \in Nat
      /\ Len(TheTrail) = Len(back) + 1 + Len(fwd)
      /\ new \in Seq(Pages) /\ Len(new) = Len(back') + 1 + Len(fwd')
  BY <1>4, <1>5, <1>6, TrailNow DEF LeftOf, TrailOf
<1>8. /\ Len(new) \in 1 .. Len(TheTrail) /\ new \in [1 .. Len(new) -> Pages]
      /\ Place' \in 1 .. Len(new) /\ Place' = Len(back') + 1
  BY <1>7, LenProperties DEF Place
<1>9. /\ \A i \in 1 .. Len(back') : new[i] = back'[i]
      /\ new[Len(back') + 1] = origin
      /\ \A i \in 1 .. Len(fwd') : new[Len(back') + 1 + i] = fwd'[i]
      /\ \A i \in 1 .. Len(back) : TheTrail[i] = back[i]
      /\ \A i \in 1 .. Len(fwd) : TheTrail[Len(back) + 1 + i] = fwd[i]
      /\ TheTrail[Place] = cur
  BY <1>1, <1>6, TrailNow DEF TrailOf
<1> HIDE DEF new
<1>10. \A i \in 1 .. Len(new) :
          /\ new[i] # cur
          /\ i # Place' => \E j \in 1 .. Len(TheTrail) : new[i] = TheTrail[j]
  <2> SUFFICES ASSUME NEW i \in 1 .. Len(new)
               PROVE  /\ new[i] # cur
                      /\ i # Place' => \E j \in 1 .. Len(TheTrail) : new[i] = TheTrail[j]
    OBVIOUS
  <2>1. CASE i \in 1 .. Len(back')
    <3>1. PICK j \in 1 .. Len(back) : back'[i] = back[j]
      BY <1>4, <2>1 DEF LeftOf
    <3>2. back'[i] # cur
      BY <1>4, <2>1 DEF LeftOf
    <3>3. j \in 1 .. Len(TheTrail)
      BY <1>7
    <3> QED
      BY <1>9, <2>1, <3>1, <3>2, <3>3
  <2>2. CASE i = Len(back') + 1
    BY <1>1, <1>8, <1>9, <2>2
  <2>3. CASE i > Len(back') + 1
    <3> DEFINE q == i - (Len(back') + 1)
    <3>1. q \in 1 .. Len(fwd') /\ i = Len(back') + 1 + q
      BY <1>7, <2>3
    <3> HIDE DEF q
    <3>2. PICK j \in 1 .. Len(fwd) : fwd'[q] = fwd[j]
      BY <1>5, <3>1 DEF LeftOf
    <3>3. fwd'[q] # cur
      BY <1>5, <3>1 DEF LeftOf
    <3>4. Len(back) + 1 + j \in 1 .. Len(TheTrail)
      BY <1>7
    <3> QED
      BY <1>9, <3>1, <3>2, <3>3, <3>4
  <2> QED
    BY <1>7, <2>1, <2>2, <2>3
<1>11. /\ new \in UNION {[1 .. n -> Pages] : n \in 1 .. Len(TheTrail)}
       /\ \A i \in 1 .. Len(new) : new[i] # TheTrail[Place]
       /\ Place' \in 1 .. Len(new)
       /\ \A i \in 1 .. Len(new) \ {Place'} : \E j \in 1 .. Len(TheTrail) : new[i] = TheTrail[j]
  BY <1>8, <1>9, <1>10
<1> QED
  BY <1>11 DEF T!Return, TheTrail, Place, new

(* A committed move is a visit, a move along the trail, or nothing. *)
LEMMA CommitMoves ==
    ASSUME TypeOK, CommitPending
    PROVE  T!Next \/ UNCHANGED <<back, cur, fwd>>
<1>1. /\ delta \in Int /\ target \in Pages \cup {None} /\ None \notin Pages
      /\ Len(back) \in Nat /\ Len(fwd) \in Nat
      /\ Len(back) <= NavMax /\ Len(fwd) <= NavMax /\ NavMax \in Nat
  BY TrailNow, NavAssumption, NavMaxAssumption DEF TypeOK
<1>2. CASE target # None /\ commitNavigateTo(target)
  <2>1. target \in Pages /\ back' = Pushed(back, cur, NavMax) /\ fwd' = <<>> /\ cur' = target
    BY <1>1, <1>2 DEF commitNavigateTo, MoveTo
  <2> QED
    BY <2>1, VisitGoes DEF T!Next
<1>3. CASE delta < 0 /\ back # <<>> /\ navigateBackN(Min2(-delta, Len(back)))
  <2> DEFINE n == Min2(-delta, Len(back))
  <2>1. n \in 1 .. Len(back)
    BY <1>1, <1>3, MoveLength
  <2>2. navigateBackN(n)
    BY <1>3
  <2> HIDE DEF n
  <2>3. T!Go(-n) /\ -n \in -NavMax .. NavMax /\ -n # 0
    BY <1>1, <2>1, <2>2, BackGoes
  <2> QED
    BY <2>3 DEF T!Next
<1>4. CASE delta > 0 /\ fwd # <<>> /\ navigateForwardN(Min2(delta, Len(fwd)))
  <2> DEFINE n == Min2(delta, Len(fwd))
  <2>1. n \in 1 .. Len(fwd)
    BY <1>1, <1>4, MoveLength
  <2>2. navigateForwardN(n)
    BY <1>4
  <2> HIDE DEF n
  <2>3. T!Go(n) /\ n \in -NavMax .. NavMax /\ n # 0
    BY <1>1, <2>1, <2>2, ForwardGoes
  <2> QED
    BY <2>3 DEF T!Next
<1> QED
  BY <1>2, <1>3, <1>4 DEF CommitPending

LEMMA NextGoes == TypeOK /\ [Next]_navVars => [T!Next]_T!trailVars
<1> SUFFICES ASSUME TypeOK, [Next]_navVars
             PROVE  T!Next \/ UNCHANGED <<back, cur, fwd>>
  BY DEF T!trailVars
<1>1. CASE CommitPending
  BY <1>1, CommitMoves
<1>2. ASSUME NEW p \in Pages, OpenRecent(p) \/ OpenFromLibrary(p) \/ NewPageReady(p)
      PROVE  T!Next
  <2>1. back' = Pushed(back, cur, NavMax) /\ fwd' = <<>> /\ cur' = p
    BY <1>2 DEF OpenRecent, OpenFromLibrary, NewPageReady, commitNavigateTo, MoveTo
  <2> QED
    BY <2>1, VisitGoes DEF T!Next
<1>3. ASSUME NEW p \in Pages, ConfirmSettings(p) \/ DeleteInLibrary(p) \/ PickInstead(p)
      PROVE  T!Next
  BY <1>3, SettingsRestart, DeletionForgets, PickReplaces DEF T!Next
<1>4. CASE ReturnFromMissingPage
  BY <1>4, MissingReturns DEF T!Next
<1>5. CASE \/ PressBack \/ PressForward \/ ReloadDue \/ Loaded \/ UNCHANGED navVars
           \/ \E p \in Pages : scheduleNavigateTo(p) \/ DeletedElsewhere(p)
  BY <1>5 DEF PressBack, PressForward, Press, ReloadDue, Loaded, navVars, scheduleNavigateTo,
              DeletedElsewhere
<1> QED
  BY <1>1, <1>2, <1>3, <1>4, <1>5 DEF Next

(* The two bounded stacks are one trail of pages: every press, link,       *)
(* reload, deletion and return from a missing page moves along it, cuts    *)
(* off what lies ahead of a visit, or takes pages away, and a page drops   *)
(* off by overflow (kNavHistMax) only at the trail's far ends.             *)
THEOREM NavImplementsTrail == Spec => ImplementsTrail
BY InitTrail, NextGoes, NavTyped, PTL DEF Spec, ImplementsTrail, T!Spec
=============================================================================
