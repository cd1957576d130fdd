----------------------------- MODULE NavHistory -----------------------------
(***************************************************************************)
(* Back, Forward and the recent pages, app/page/navigation.cpp, with the   *)
(* menu commands that drive them (app/ui/menu.cpp) and the event loop's    *)
(* delayed navigation (main.cpp).  A press of Back or Forward only counts  *)
(* (gNavDelta) and shows the header of the page it would land on; the loop *)
(* commits the sum a second later.  A link waits the same way, the recent  *)
(* pages and the library do not.                                           *)
(*                                                                         *)
(* Headers are reduced to their page; Session is about their titles.       *)
(***************************************************************************)
EXTENDS NavStacks, SequencesExt

CONSTANTS NavMax,       \* kNavHistMax
          Pages,        \* page ids
          None,         \* no page
          RecentMax,    \* kMaxRecentPages
          Commands      \* what the user may do: "link", "recent", "library",
                        \*   "settings", "new", "delete"

ASSUME NavMaxAssumption == NavMax \in Nat \ {0}

ASSUME NavAssumption == /\ RecentMax \in Nat \ {0}
                        /\ None \notin Pages

VARIABLES back,       \* gHistBack, the last one is the nearest
          fwd,        \* gHistFwd, the first one is the nearest
          cur,        \* EffPageID
          origin,     \* sNavOrigin, None when there is none
          recent,     \* gRecentPages
          pending,    \* gAppState.navPending
          delta,      \* gNavDelta
          target,     \* gNavTarget
          loading,    \* "asked": gAppState.pendingReload; "begun": a page is being loaded
          gone,       \* the pages deleted in Notion
          previewed,  \* history: the page the last preview promised, if no other
                      \*   move came since
          before      \* history: the stacks and page before the last move

navVars == <<back, fwd, cur, origin, recent, pending, delta, target, loading, gone,
             previewed, before>>

(***************************************************************************)
(* Helpers.                                                                *)
(***************************************************************************)
peekNavHeader(d) == Peek(back, fwd, d, None)

Purged(s, p) == Among(s, Pages \ {p})

IndexIn(s, p) == CHOOSE i \in 1 .. Len(s) : s[i] = p /\ \A j \in 1 .. i - 1 : s[j] # p

Here == [back |-> back, cur |-> cur, fwd |-> fwd]

(* scheduleReload: the user may cancel it while there is unsaved text. *)
scheduleReload == loading' \in {"asked", loading}

(***************************************************************************)
(* Committed moves.                                                        *)
(***************************************************************************)
MoveTo(s) == /\ back' = s.back
             /\ fwd' = s.fwd
             /\ cur' = s.at
             /\ origin' = cur
             /\ before' = Here

navigateBackN(n) == MoveTo(BackBy(back, cur, fwd, n, NavMax))
navigateForwardN(n) == MoveTo(ForwardBy(back, cur, fwd, n, NavMax))

commitNavigateTo(p) == MoveTo([back |-> Pushed(back, cur, NavMax), at |-> p, fwd |-> <<>>])

(* The loop's delayed navigation: the link first, else the sum of the      *)
(* presses.  A reload comes first, and drops it; unsaved text was saved    *)
(* before, so that nothing asks whether to reload.                         *)
CommitPending ==
    /\ pending /\ loading # "asked"
    /\ pending' = FALSE
    /\ delta' = 0
    /\ target' = None
    /\ previewed' = None
    /\ \/ target # None /\ commitNavigateTo(target) /\ loading' = "asked"
       \/ target = None /\ delta < 0 /\ back # <<>>
            /\ navigateBackN(Min2(-delta, Len(back))) /\ loading' = "asked"
       \/ target = None /\ delta > 0 /\ fwd # <<>>
            /\ navigateForwardN(Min2(delta, Len(fwd))) /\ loading' = "asked"
       \/ target = None /\ \/ delta = 0
                           \/ delta < 0 /\ back = <<>>
                           \/ delta > 0 /\ fwd = <<>>
            /\ UNCHANGED <<back, fwd, cur, origin, loading, before>>
    /\ UNCHANGED <<recent, gone>>

(***************************************************************************)
(* Commands.                                                               *)
(***************************************************************************)
Press(d) ==
    /\ delta' = delta + d
    /\ pending' = TRUE
    /\ previewed' = IF delta' = 0 THEN previewed ELSE peekNavHeader(delta')
    /\ UNCHANGED <<back, fwd, cur, origin, recent, target, loading, gone, before>>

PressBack    == Len(back) > 0 /\ -delta < Len(back) /\ Press(-1)
PressForward == Len(fwd) > 0 /\ delta < Len(fwd) /\ Press(1)

scheduleNavigateTo(p) ==
    /\ "link" \in Commands
    /\ target' = p
    /\ delta' = 0
    /\ pending' = TRUE
    /\ previewed' = p
    /\ UNCHANGED <<back, fwd, cur, origin, recent, loading, gone, before>>

OpenRecent(p) ==
    /\ "recent" \in Commands
    /\ p \in ToSet(recent) \ {cur}
    /\ commitNavigateTo(p)
    /\ previewed' = None
    /\ scheduleReload
    /\ UNCHANGED <<recent, pending, delta, target, gone>>

OpenFromLibrary(p) ==
    /\ "library" \in Commands
    /\ cur' = p
    /\ back' = Pushed(back, cur, NavMax)
    /\ fwd' = <<>>
    /\ pending' = FALSE
    /\ delta' = 0
    /\ before' = Here
    /\ previewed' = None
    /\ scheduleReload
    /\ UNCHANGED <<origin, recent, target, gone>>

(* Another page, perhaps another account: AfterPickerConfirm. *)
ConfirmSettings(p) ==
    /\ "settings" \in Commands
    /\ cur' = p
    /\ back' = <<>>
    /\ fwd' = <<>>
    /\ recent' = <<>>
    /\ before' = Here
    /\ previewed' = None
    /\ scheduleReload
    /\ UNCHANGED <<origin, pending, delta, target, gone>>

(* A new page is loaded at once, and what was pressed stays. *)
NewPageReady(p) ==
    /\ "new" \in Commands
    /\ loading # "asked"
    /\ back' = Pushed(back, cur, NavMax)
    /\ fwd' = <<>>
    /\ cur' = p
    /\ before' = Here
    /\ previewed' = None
    /\ loading' = "begun"
    /\ UNCHANGED <<origin, recent, pending, delta, target, gone>>

(* DoLibDeletePage and ForgetDeletedPages; the library is left by Cancel. *)
DeleteInLibrary(p) ==
    /\ "delete" \in Commands
    /\ p # cur
    /\ gone' = gone \cup {p}
    /\ back' = Purged(back, p)
    /\ fwd' = Purged(fwd, p)
    /\ recent' = Purged(recent, p)
    /\ previewed' = None
    /\ scheduleReload
    /\ UNCHANGED <<cur, origin, pending, delta, target, before>>

DeletedElsewhere(p) == /\ p \notin gone
                       /\ gone' = gone \cup {p}
                       /\ UNCHANGED <<back, fwd, cur, origin, recent, pending, delta,
                                      target, loading, previewed, before>>

(***************************************************************************)
(* The reload that follows a move, and its answers.                        *)
(***************************************************************************)
(* It is begun when no save is on its way, and drops what was pressed. *)
ReloadDue ==
    /\ loading = "asked"
    /\ loading' = "begun"
    /\ pending' = FALSE
    /\ delta' = 0
    /\ target' = None
    /\ previewed' = None
    /\ UNCHANGED <<back, fwd, cur, origin, recent, gone, before>>

(* Recent pages with p in them twice. *)
AddAgain(p) == SubSeq(<<p>> \o recent, 1, Min2(Len(recent) + 1, RecentMax))

addToRecent(p) == LET all == <<p>> \o Purged(recent, p)
                  IN  SubSeq(all, 1, Min2(Len(all), RecentMax))

(* From Notion, or from the disk cache even when the page is gone. *)
Loaded == /\ loading = "begun"
          /\ loading' = "no"
          /\ recent' = addToRecent(cur)
          /\ UNCHANGED <<back, fwd, cur, origin, pending, delta, target, gone,
                         previewed, before>>

(* A 404: the page is forgotten, and the page left last is loaded again, *)
ReturnFromMissingPage ==
    LET bk == Purged(back, cur)
        fw == Purged(fwd, cur)
    IN  /\ loading = "begun" /\ cur \in gone
        /\ origin \notin {None, cur}
        /\ IF bk # <<>> /\ Last(bk) = origin
           THEN back' = Front(bk) /\ fwd' = fw
           ELSE /\ back' = bk
                /\ fwd' = IF origin \notin ToSet(fw) THEN fw
                          ELSE RemoveAt(fw, IndexIn(fw, origin))
        /\ recent' = Purged(recent, cur)
        /\ cur' = origin
        /\ origin' = None
        /\ previewed' = None
        /\ loading' \in {"asked", "no"}
        /\ UNCHANGED <<pending, delta, target, gone, before>>

(* or, without one, the settings dialog gives a page. *)
PickInstead(p) ==
    /\ loading = "begun" /\ cur \in gone
    /\ origin \in {None, cur}
    /\ p \notin gone
    /\ back' = Purged(back, cur)
    /\ fwd' = Purged(fwd, cur)
    /\ recent' = Purged(recent, cur)
    /\ cur' = p
    /\ previewed' = None
    /\ UNCHANGED <<origin, pending, delta, target, loading, gone, before>>

Init == /\ back = <<>> /\ fwd = <<>> /\ recent = <<>>
        /\ cur \in Pages
        /\ origin = None /\ target = None
        /\ pending = FALSE /\ delta = 0
        /\ loading = "begun"
        /\ gone = {}
        /\ previewed = None
        /\ before = Here

Next == \/ CommitPending
        \/ PressBack
        \/ PressForward
        \/ \E p \in Pages : \/ scheduleNavigateTo(p)
                            \/ OpenRecent(p)
                            \/ OpenFromLibrary(p)
                            \/ ConfirmSettings(p)
                            \/ NewPageReady(p)
                            \/ DeleteInLibrary(p)
                            \/ DeletedElsewhere(p)
                            \/ PickInstead(p)
        \/ ReloadDue
        \/ Loaded
        \/ ReturnFromMissingPage

Spec == Init /\ [][Next]_navVars

(***************************************************************************)
(* Properties.                                                             *)
(***************************************************************************)
(* The types, and the bounds of the arrays the stacks lie in. *)
TypeOK == /\ back \in Seq(Pages) /\ Len(back) <= NavMax
          /\ fwd \in Seq(Pages) /\ Len(fwd) <= NavMax
          /\ recent \in Seq(Pages) /\ Len(recent) <= RecentMax
          /\ cur \in Pages
          /\ {origin, target, previewed} \subseteq Pages \cup {None}
          /\ delta \in Int
          /\ pending \in BOOLEAN /\ loading \in {"no", "asked", "begun"}
          /\ gone \subseteq Pages

T == INSTANCE Trail WITH trail <- back \o <<cur>> \o fwd, at <- Len(back) + 1,
                         MaxMove <- NavMax

(* The two stacks are a trail: Back and Forward only move along it, and a  *)
(* page drops off only at its far ends, whatever overflows.                *)
ImplementsTrail == T!Spec

(* A committed Back or Forward lands on the page whose header the last     *)
(* press showed, however many presses were summed.                         *)
LandsOnPreview ==
    [][CommitPending /\ target = None /\ delta # 0 /\ previewed # None
           => cur' = previewed]_navVars

(* The recent pages are all different. *)
RecentDistinct == \A i, j \in 1 .. Len(recent) : i # j => recent[i] # recent[j]

(* "forget the page and go back to where you were" (main.cpp): after a     *)
(* page is missing, page and stacks are those before the move to it,       *)
(* without the missing page.                                               *)
BackWhereYouWere ==
    [][ReturnFromMissingPage /\ before.cur \notin gone =>
          /\ cur' = before.cur
          /\ back' = Purged(before.back, cur)
          /\ fwd' = Purged(before.fwd, cur)]_navVars
=============================================================================
