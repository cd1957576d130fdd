----------------------------- MODULE NavStacks ------------------------------
(***************************************************************************)
(* The two stacks of app/page/navigation.cpp as functions of their         *)
(* contents and of max, how many pages a stack keeps (kNavHistMax).        *)
(* NavHistory keeps pages in them, Session headers.                        *)
(***************************************************************************)
EXTENDS Sublists

Min2(a, b) == IF a < b THEN a ELSE b

(* A stack that keeps one page too many. *)
NewestAndOne(s, max) == IF Len(s) <= max + 1 THEN s ELSE SubSeq(s, Len(s) - max, Len(s))

(* Pushing forgets the oldest; what overflows Forward is its far end. *)
Newest(s, max) == IF Len(s) <= max THEN s ELSE SubSeq(s, Len(s) - max + 1, Len(s))
Nearest(s, max) == IF Len(s) <= max THEN s ELSE SubSeq(s, 1, max)

Pushed(bk, h, max) == Newest(Append(bk, h), max)

(* A preview one page short. *)
PeekShort(bk, fw, d, none) ==
    IF d < 0 /\ bk # <<>> THEN bk[Len(bk) + 1 - Min2(1, Len(bk))]
    ELSE IF d > 0 /\ d <= Len(fw) THEN fw[d] ELSE none

(* What lies d places away, as far back as there is something. *)
Peek(bk, fw, d, none) ==
    IF d < 0 /\ bk # <<>> THEN bk[Len(bk) + 1 - Min2(-d, Len(bk))]
    ELSE IF d > 0 /\ d <= Len(fw) THEN fw[d] ELSE none

(* A Back that forgets the page it leaves. *)
BackForgetsCurrent(bk, h, fw, n, max) ==
    [back |-> SubSeq(bk, 1, Len(bk) - n),
     at   |-> bk[Len(bk) - n + 1],
     fwd  |-> Nearest(SubSeq(bk, Len(bk) - n + 2, Len(bk)) \o fw, max)]

(* n places back from h, 1 <= n <= Len(bk), and n places forward. *)
BackBy(bk, h, fw, n, max) ==
    [back |-> SubSeq(bk, 1, Len(bk) - n),
     at   |-> bk[Len(bk) - n + 1],
     fwd  |-> Nearest(SubSeq(bk, Len(bk) - n + 2, Len(bk)) \o <<h>> \o fw, max)]

ForwardBy(bk, h, fw, n, max) ==
    [back |-> Newest(bk \o <<h>> \o SubSeq(fw, 1, n - 1), max),
     at   |-> fw[n],
     fwd  |-> SubSeq(fw, n + 1, Len(fw))]
=============================================================================
