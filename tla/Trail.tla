------------------------------- MODULE Trail -------------------------------
(***************************************************************************)
(* What Back and Forward promise (app/page/navigation.cpp): the pages      *)
(* visited lie on a trail with the page on the screen at one place of it.  *)
(* Back and Forward only move that place; visiting a page cuts off what    *)
(* lies after it; the far ends of the trail may be forgotten; a deleted    *)
(* page disappears from the trail.  NavHistory implements this with two    *)
(* bounded stacks.                                                         *)
(***************************************************************************)
EXTENDS Sublists

CONSTANTS Pages,    \* page ids
          MaxMove   \* Back and Forward go at most this far in one move

VARIABLES trail,    \* the pages, oldest first
          at        \* the place of the page on the screen

trailVars == <<trail, at>>

Others(s, p) == Among(s, Pages \ {p})
Older == SubSeq(trail, 1, at - 1)
Newer == SubSeq(trail, at + 1, Len(trail))

Init == /\ \E p \in Pages : trail = <<p>>
        /\ at = 1

(* n places back or forward; pages far from here may be forgotten. *)
Go(n) == \E cut \in 0 .. Len(trail), keep \in 1 .. Len(trail) :
             /\ at + n \in 1 .. Len(trail)
             /\ cut + keep <= Len(trail)
             /\ trail' = SubSeq(trail, cut + 1, cut + keep)
             /\ at' = at + n - cut
             /\ at' \in 1 .. keep
             /\ at - cut \in 1 .. keep

Visit(p) == \E cut \in 0 .. at - 1 :
                /\ trail' = SubSeq(trail, cut + 1, at) \o <<p>>
                /\ at' = Len(trail')

(* Page p is gone, but for the screen. *)
Forget(p) == /\ trail' = Others(Older, p) \o <<trail[at]>> \o Others(Newer, p)
             /\ at' = Len(Others(Older, p)) + 1

(* A new start at page p, with nothing behind it. *)
Restart(p) == /\ trail' = <<p>>
              /\ at' = 1

(* The page on the screen is gone: p takes its place, *)
Replace(p) == /\ trail' = Others(Older, trail[at]) \o <<p>> \o Others(Newer, trail[at])
              /\ at' = Len(Others(Older, trail[at])) + 1

(* or a page left before, on a trail of pages that were there. *)
Return == /\ trail' \in UNION {[1 .. n -> Pages] : n \in 1 .. Len(trail)}
          /\ \A i \in 1 .. Len(trail') : trail'[i] # trail[at]
          /\ at' \in 1 .. Len(trail')
          /\ \A i \in 1 .. Len(trail') \ {at'} : \E j \in 1 .. Len(trail) : trail'[i] = trail[j]

Next == \/ \E n \in -MaxMove .. MaxMove : n # 0 /\ Go(n)
        \/ \E p \in Pages : Visit(p)
        \/ \E p \in Pages : Forget(p)
        \/ \E p \in Pages : Restart(p)
        \/ \E p \in Pages : Replace(p)
        \/ Return

Spec == Init /\ [][Next]_trailVars
=============================================================================
