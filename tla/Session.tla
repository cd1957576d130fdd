------------------------------ MODULE Session -------------------------------
(***************************************************************************)
(* One session: the event loop (main.cpp), the page in memory, its saves   *)
(* and its copy in the disk cache, while the user moves between pages      *)
(* (page_lifecycle.cpp, navigation.cpp, menu.cpp).                         *)
(*                                                                         *)
(* A page is a title and a body row; SavePipeline has the rows' structure, *)
(* PageCacheFile the cache's file and NavHistory every way to move.  Here  *)
(* they meet: which page's rows are in pageElm, which id they are saved    *)
(* and cached under, and what becomes of text not yet sent.  Requests run  *)
(* on the calling thread, so that a page is loaded in one step; only a     *)
(* save runs in a thread, which the loop gives one slice a round.          *)
(***************************************************************************)
EXTENDS NavStacks, FiniteSets, SequencesExt

CONSTANTS NavMax,       \* kNavHistMax
          Pages, None,
          RecentMax,    \* kMaxRecentPages
          Listed,       \* the pages the page list's cache knows the title of
          MaxEdits,     \* how often the user types
          MaxFails,     \* how many requests of a save fail
          Scenarios     \* what may happen in a session besides typing: sets of
                        \*   "type ahead" (also during a save, and before a
                        \*   reload that is due), "save", "reload", "history",
                        \*   "link", "first link" (to a page no header is known
                        \*   of), "recent", "library", "new", "quit", and "fail"

ASSUME NavMaxAssumption == NavMax \in Nat \ {0}

ASSUME SessionAssumption == /\ RecentMax \in Nat \ {0}
                            /\ {MaxEdits, MaxFails} \subseteq Nat
                            /\ None \notin Pages /\ Listed \subseteq Pages

VARIABLES at,         \* where the loop is
          pageID,     \* EffPageID
          pageElm,    \* the rows: 0 the title, 1 the body
          pageElmCount,
          dirty,      \* gAppState.hasDirtyBlocks
          queue,      \* gSaveQueue
          saving,     \* gAppState.saving()
          sent,       \* the PATCH under way, None without one
          needsSave,  \* gPageCacheNeedsSave
          bypass,     \* gPageCacheBypassOnce
          pendingReload,
          navPending, delta, target, newPage,
          back, fwd, recent,
          disk,       \* the rows in each page's slot, <<>> without one
          notion,     \* the texts of each page in Notion
          typed,      \* history: the text the user last gave each row
          edits, fails,
          does        \* the scenario of this session

rowVars == <<pageElm, pageElmCount>>
saveVars == <<dirty, queue, saving, sent>>
flagVars == <<needsSave, bypass, pendingReload>>
navVars == <<navPending, delta, target, newPage>>
headerVars == <<back, fwd, recent>>
outside == <<disk, notion, fails>>
bounds == <<edits, does>>
user == <<typed, bounds>>
stateVars == <<pageID, rowVars, saveVars, flagVars, navVars, headerVars, outside, user>>
vars == <<at, stateVars>>

(* A text is the page it was first written on and its last edit. *)
Texts == [of : Pages, n : 0 .. MaxEdits]
Rows == [page : Pages, text : Texts, dirty : BOOLEAN]
Copies == [page : Pages, text : Texts, dirty : {FALSE}]
Patches == [row : 0 .. 1, page : Pages, text : Texts]
ASSUME NoneIsNoPatch == None \notin Patches
Headers == [id : Pages, title : Texts]
Original(p) == [of |-> p, n |-> 0]
Row(p, t) == [page |-> p, text |-> t, dirty |-> FALSE]

Shown == [i \in 1 .. pageElmCount |-> Row(pageElm[i - 1].page, pageElm[i - 1].text)]
DirtyRows == {i \in 0 .. pageElmCount - 1 : pageElm[i].dirty}

(***************************************************************************)
(* Headers.                                                                *)
(***************************************************************************)
(* The row 0 in memory, under the current id. *)
buildCurrentHeader == [id |-> pageID, title |-> pageElm[0].text]

Synced(s) == [i \in 1 .. Len(s) |-> IF s[i].id = pageID THEN buildCurrentHeader ELSE s[i]]

SyncCurrentPageInHistory == /\ back' = Synced(back)
                            /\ fwd' = Synced(fwd)
                            /\ recent' = Synced(recent)

addToRecent(h) == LET all == <<h>> \o Among(recent, {g \in Headers : g.id # h.id})
                  IN  SubSeq(all, 1, Min2(Len(all), RecentMax))

(* The title the history, the recent pages or the page list have for p. *)
findCachedHeader(p) ==
    LET all == back \o fwd \o recent
        known == {j \in 1 .. Len(all) : all[j].id = p}
    IN  IF known # {} THEN all[Min(known)]
        ELSE IF p \in Listed THEN [id |-> p, title |-> notion[p][0]]
        ELSE None

(* A preview: the title alone, in place of the page. *)
showCachedPreview(h) ==
    /\ pageElm' = [pageElm EXCEPT ![0] = Row(h.id, h.title)]
    /\ pageElmCount' = 1

ShowIfKnown(h) == IF h = None THEN UNCHANGED rowVars
                  ELSE showCachedPreview(h)

(***************************************************************************)
(* Saving.                                                                 *)
(***************************************************************************)
doSave ==
    IF saving \/ ~dirty THEN UNCHANGED saveVars
    ELSE /\ dirty' = FALSE
         /\ queue' = Among(<<0, 1>>, DirtyRows)
         /\ saving' = (DirtyRows # {})
         /\ sent' = None

(* The next queued row that is still dirty, or the end of the save. *)
PatchOrEnd(flag) ==
    LET still == {k \in 1 .. Len(queue) : pageElm[queue[k]].dirty}
    IN  IF still = {}
        THEN /\ queue' = <<>> /\ sent' = None /\ saving' = FALSE
             /\ needsSave' = flag
             /\ UNCHANGED <<pageElm, headerVars>>
        ELSE LET k == Min(still)
                 i == queue[k]
             IN  /\ queue' = SubSeq(queue, k + 1, Len(queue))
                 /\ pageElm' = [pageElm EXCEPT ![i].dirty = FALSE]
                 /\ sent' = [row |-> i, page |-> pageElm[i].page, text |-> pageElm[i].text]
                 /\ IF i = 0 THEN SyncCurrentPageInHistory ELSE UNCHANGED headerVars
                 /\ UNCHANGED <<saving, needsSave>>

(* A save whose end does not ask for a new copy. *)
EndsUncached == PatchOrEnd(needsSave)

PatchNext == PatchOrEnd(TRUE)

Acknowledged == IF sent = None THEN UNCHANGED notion
                ELSE notion' = [notion EXCEPT ![sent.page][sent.row] = sent.text]

(* A slice of the save thread in which its answer comes. *)
SaveGoesOn == /\ saving
              /\ Acknowledged
              /\ PatchNext
              /\ UNCHANGED <<dirty, pageElmCount, user, fails>>

SaveStops(rows, flag) ==
    /\ saving /\ sent # None /\ "fail" \in does /\ fails < MaxFails
    /\ fails' = fails + 1
    /\ Acknowledged \/ UNCHANGED notion
    /\ pageElm' = rows
    /\ queue' = <<>> /\ sent' = None /\ saving' = FALSE
    /\ dirty' = flag
    /\ UNCHANGED <<needsSave, headerVars, pageElmCount, user>>

Redirtied == IF sent.row >= pageElmCount THEN pageElm
             ELSE [pageElm EXCEPT ![sent.row].dirty = TRUE]

(* Failures that leave the row, or the page, clean. *)
FailsClean == SaveStops(pageElm, TRUE)
FailsUnmarked == SaveStops(Redirtied, dirty)

(* StopSaveForRetry; the request may have been done all the same. *)
SaveFails == SaveStops(Redirtied, TRUE)

SaveSlice == SaveGoesOn \/ SaveFails

(***************************************************************************)
(* The page's life.                                                        *)
(***************************************************************************)
(* A reload that asks nothing. *)
ReloadUnasked(b) == pendingReload' = TRUE /\ bypass' = b /\ UNCHANGED <<saveVars, typed>>

(* Unsaved text is asked about, unless a save runs. *)
scheduleReload(b) ==
    \/ /\ dirty /\ ~saving
       /\ \/ doSave /\ pendingReload' = TRUE /\ bypass' = b /\ UNCHANGED typed
          \/ pendingReload' = TRUE /\ bypass' = b            \* Don't Save
               /\ typed' = notion /\ UNCHANGED saveVars
          \/ bypass' = FALSE                                 \* Cancel
               /\ UNCHANGED <<saveVars, typed, pendingReload>>
    \/ ~(dirty /\ ~saving) /\ ReloadUnasked(b)

(* unloadPage, then the cached copy, or else the page from Notion. *)
Installed(p, copy) ==
    /\ pageElm' = [i \in 0 .. 1 |-> IF i < Len(copy) THEN copy[i + 1] ELSE pageElm[i]]
    /\ pageElmCount' = Len(copy)
    /\ recent' = addToRecent([id |-> p, title |-> copy[1].text])
    /\ dirty' = FALSE /\ queue' = <<>> /\ saving' = FALSE /\ sent' = None
    /\ bypass' = FALSE

Fresh(p) == <<Row(p, notion[p][0]), Row(p, notion[p][1])>>

reloadPage(p) == \/ ~bypass /\ disk[p] # <<>>
                      /\ Installed(p, disk[p]) /\ UNCHANGED needsSave
                 \/ Installed(p, Fresh(p)) /\ needsSave' = TRUE

(***************************************************************************)
(* A round of the loop.                                                    *)
(***************************************************************************)
FlushCache ==
    /\ at = "top" /\ at' = "reload"
    /\ IF needsSave /\ ~saving /\ ~dirty
       THEN /\ needsSave' = FALSE
            /\ disk' = [disk EXCEPT ![pageID] = Shown]
            /\ SyncCurrentPageInHistory
       ELSE UNCHANGED <<needsSave, disk, headerVars>>
    /\ UNCHANGED <<pageID, rowVars, saveVars, bypass, pendingReload, navVars, notion, user,
                   fails>>

DueReload(again) ==
    /\ at = "reload" /\ at' = "new"
    /\ IF pendingReload /\ ~saving
       THEN /\ pendingReload' = again
            /\ navPending' = FALSE /\ delta' = 0 /\ target' = None
            /\ reloadPage(pageID)
            /\ UNCHANGED <<newPage, back, fwd>>
       ELSE UNCHANGED <<flagVars, rowVars, saveVars, navVars, headerVars>>
    /\ UNCHANGED <<pageID, outside, user>>

(* A reload that stays due. *)
ReloadAgain == DueReload(TRUE)

PendingReload == DueReload(FALSE)

NewPageReady ==
    /\ at = "new" /\ at' = "nav"
    /\ IF newPage = None \/ saving
       THEN UNCHANGED <<pageID, rowVars, saveVars, needsSave, bypass, newPage, headerVars>>
       ELSE IF dirty
       THEN /\ doSave
            /\ UNCHANGED <<pageID, rowVars, needsSave, bypass, newPage, headerVars>>
       ELSE /\ newPage' = None
            /\ back' = Pushed(back, buildCurrentHeader, NavMax)
            /\ fwd' = <<>>
            /\ pageID' = newPage
            /\ reloadPage(newPage)
    /\ UNCHANGED <<pendingReload, navPending, delta, target, outside, user>>

(* Back, Forward or the link, its delay over; a save comes first, which    *)
(* may have nothing to send.                                               *)
NavSaves ==
    /\ at = "nav" /\ at' = "thread"
    /\ navPending /\ ~saving /\ dirty /\ DirtyRows # {}
    /\ doSave
    /\ UNCHANGED <<pageID, rowVars, flagVars, navVars, headerVars, outside, user>>

NavGoes ==
    /\ at = "nav" /\ at' = "thread"
    /\ navPending /\ ~saving /\ ~(dirty /\ DirtyRows # {})
    /\ navPending' = FALSE /\ delta' = 0 /\ target' = None
    /\ dirty' = FALSE
    /\ LET cur == buildCurrentHeader
           goTo(s) == /\ back' = s.back /\ fwd' = s.fwd /\ pageID' = s.at.id
                      /\ pendingReload' = TRUE
       IN  \/ target # None /\ goTo([back |-> Pushed(back, cur, NavMax), fwd |-> <<>>,
                                     at |-> [id |-> target]])
           \/ target = None /\ delta < 0 /\ back # <<>>
                /\ goTo(BackBy(back, cur, fwd, Min2(-delta, Len(back)), NavMax))
           \/ target = None /\ delta > 0 /\ fwd # <<>>
                /\ goTo(ForwardBy(back, cur, fwd, Min2(delta, Len(fwd)), NavMax))
           \/ target = None /\ \/ delta = 0
                               \/ delta < 0 /\ back = <<>>
                               \/ delta > 0 /\ fwd = <<>>
                /\ UNCHANGED <<back, fwd, pageID, pendingReload>>
    /\ UNCHANGED <<rowVars, queue, saving, sent, needsSave, bypass, newPage, recent, outside, user>>

(* Nothing to do, or not yet. *)
NavWaits == /\ at = "nav" /\ at' = "thread"
            /\ UNCHANGED stateVars

NothingElse == UNCHANGED <<pageID, bypass, pendingReload, navVars, disk>>

ThreadSlice == at = "thread" /\ at' = "events" /\ SaveSlice /\ NothingElse

NoAnswer == /\ at = "thread" /\ at' = "events"
            /\ UNCHANGED stateVars

(***************************************************************************)
(* Events, at most one a round.                                            *)
(***************************************************************************)
Event(c) == at = "events" /\ at' = "top" /\ c \in does \cup {"type"}

NoEvent == /\ at = "events" /\ at' = "top"
           /\ UNCHANGED stateVars

Type(i) ==
    /\ Event("type")
    /\ i < pageElmCount /\ edits < MaxEdits
    /\ saving \/ pendingReload => "type ahead" \in does
    /\ edits' = edits + 1
    /\ LET t == [pageElm[i].text EXCEPT !.n = edits']
       IN  /\ pageElm' = [pageElm EXCEPT ![i].text = t, ![i].dirty = TRUE]
           /\ typed' = [typed EXCEPT ![pageElm[i].page][i] = t]
    /\ dirty' = TRUE
    /\ UNCHANGED <<pageID, pageElmCount, queue, saving, sent, flagVars, navVars, headerVars, outside, does>>

(* From the menu, the button or the autosave timer. *)
Save ==
    /\ Event("save")
    /\ dirty /\ ~saving
    /\ doSave
    /\ UNCHANGED <<pageID, rowVars, flagVars, navVars, headerVars, outside, user>>

Reload ==
    /\ Event("reload")
    /\ ~saving
    /\ scheduleReload(TRUE)
    /\ UNCHANGED <<pageID, rowVars, needsSave, navVars, headerVars, outside, bounds>>

Press(d) ==
    /\ Event("history")
    /\ \/ d = -1 /\ Len(back) > 0 /\ -delta < Len(back)
       \/ d = 1 /\ Len(fwd) > 0 /\ delta < Len(fwd)
    /\ delta' = delta + d
    /\ navPending' = TRUE
    /\ ShowIfKnown(Peek(back, fwd, delta', None))
    /\ UNCHANGED <<pageID, saveVars, flagVars, target, newPage, headerVars, outside, user>>

(* A link followed as a recent page is. *)
FollowAtOnce(p) ==
    /\ Event("first link") /\ findCachedHeader(p) = None
    /\ back' = Pushed(back, buildCurrentHeader, NavMax) /\ fwd' = <<>> /\ pageID' = p
    /\ scheduleReload(bypass)
    /\ UNCHANGED <<rowVars, needsSave, navVars, recent, outside, bounds>>

scheduleNavigateTo(p) ==
    /\ \/ Event("link")
       \/ Event("first link") /\ findCachedHeader(p) = None
    /\ target' = p /\ delta' = 0 /\ navPending' = TRUE
    /\ ShowIfKnown(findCachedHeader(p))
    /\ UNCHANGED <<pageID, saveVars, flagVars, newPage, headerVars, outside, user>>

(* commitNavigateTo at once, also while a save runs. *)
OpenRecent(p) ==
    /\ Event("recent")
    /\ p # pageID /\ \E j \in 1 .. Len(recent) : recent[j].id = p
    /\ back' = Pushed(back, buildCurrentHeader, NavMax)
    /\ fwd' = <<>>
    /\ pageID' = p
    /\ scheduleReload(bypass)
    /\ UNCHANGED <<rowVars, needsSave, navVars, recent, outside, bounds>>

(* doNewPage; its answer comes before the event is over. *)
NewPage(p) ==
    /\ Event("new")
    /\ ~saving /\ p # pageID /\ findCachedHeader(p) = None
    /\ newPage' = p
    /\ UNCHANGED <<pageID, rowVars, saveVars, flagVars, navPending, delta, target, headerVars, outside, user>>

(* prepareForPageList: saved first, whatever comes of it; then the dialog. *)
OpenLibrary ==
    /\ at = "events" /\ at' = "library" /\ "library" \in does
    /\ ~saving
    /\ doSave
    /\ UNCHANGED <<pageID, rowVars, flagVars, navVars, headerVars, outside, user>>

SavedFirst == at \in {"library", "quitting"} /\ SaveSlice /\ NothingElse /\ UNCHANGED at

Pick(p) ==
    /\ at = "library" /\ ~saving /\ at' = "top"
    /\ back' = Pushed(back, buildCurrentHeader, NavMax)
    /\ fwd' = <<>>
    /\ pageID' = p
    /\ navPending' = FALSE /\ delta' = 0
    /\ scheduleReload(bypass)
    /\ UNCHANGED <<rowVars, needsSave, target, newPage, recent, outside, bounds>>

PickCancelled ==
    /\ at = "library" /\ ~saving /\ at' = "top"
    /\ UNCHANGED stateVars

(* ExitToShell: what is in memory is gone. *)
Gone == /\ at' = "gone"
        /\ pageElmCount' = 0
        /\ queue' = <<>> /\ saving' = FALSE /\ sent' = None
        /\ UNCHANGED <<pageID, pageElm, dirty, flagVars, navVars, headerVars, outside, bounds>>

QuitApp ==
    /\ at = "events" /\ "quit" \in does
    /\ \/ dirty /\ ~saving /\ doSave /\ at' = "quitting"
            /\ UNCHANGED <<rowVars, user, pageID, flagVars, navVars, headerVars, outside>>
       \/ dirty /\ ~saving /\ typed' = notion /\ Gone     \* Don't Save
       \/ ~(dirty /\ ~saving) /\ UNCHANGED typed /\ Gone

QuitSaved ==
    /\ at = "quitting" /\ ~saving
    /\ UNCHANGED typed
    /\ \/ ~dirty /\ Gone
       \/ dirty /\ at' = "top"
            /\ UNCHANGED <<pageID, rowVars, saveVars, flagVars, navVars, headerVars, outside, bounds>>

(***************************************************************************)
(* The program.                                                            *)
(***************************************************************************)
HeaderOf(p) == [id |-> p, title |-> Original(p)]
Earlier(p) == {<<>>} \cup (IF "history" \in does
                            THEN {<<HeaderOf(q)>> : q \in Pages \ {p}} ELSE {})

(* The start-up page is loaded; earlier sessions left copies and history. *)
Init ==
    /\ at = "top"
    /\ does \in Scenarios
    /\ pageID \in Pages
    /\ notion = [p \in Pages |-> [i \in 0 .. 1 |-> Original(p)]]
    /\ typed = notion
    /\ pageElm = [i \in 0 .. 1 |-> Row(pageID, Original(pageID))]
    /\ pageElmCount = 2
    /\ dirty = FALSE /\ queue = <<>> /\ saving = FALSE /\ sent = None
    /\ needsSave = TRUE /\ bypass = FALSE /\ pendingReload = FALSE
    /\ navPending = FALSE /\ delta = 0 /\ target = None /\ newPage = None
    /\ back \in Earlier(pageID) /\ fwd \in Earlier(pageID)
    /\ recent \in {<<HeaderOf(pageID)>>} \cup
                  (IF "recent" \in does /\ RecentMax > 1
                   THEN {<<HeaderOf(pageID), HeaderOf(p)>> : p \in Pages \ {pageID}} ELSE {})
    /\ disk \in {[p \in Pages |-> IF p \in kept THEN Fresh(p) ELSE <<>>] : kept \in SUBSET Pages}
    /\ edits = 0 /\ fails = 0

Next == \/ FlushCache \/ PendingReload \/ NewPageReady
        \/ NavSaves \/ NavGoes \/ NavWaits
        \/ ThreadSlice \/ NoAnswer
        \/ \E i \in 0 .. 1 : Type(i)
        \/ Save \/ Reload \/ OpenLibrary \/ PickCancelled \/ NoEvent
        \/ SavedFirst
        \/ \E d \in {-1, 1} : Press(d)
        \/ \E p \in Pages : \/ scheduleNavigateTo(p) \/ OpenRecent(p)
                            \/ NewPage(p) \/ Pick(p)
        \/ QuitApp \/ QuitSaved

Spec == Init /\ [][Next]_vars

(* The loop goes round, an answer comes in the end, also to a save that is *)
(* waited for, and the navigation's second passes.                         *)
Fairness == /\ WF_vars(FlushCache) /\ WF_vars(PendingReload) /\ WF_vars(NewPageReady)
            /\ SF_vars(NavSaves \/ NavGoes) /\ WF_vars(NavWaits)
            /\ SF_vars(ThreadSlice) /\ WF_vars(NoAnswer)
            /\ WF_vars(NoEvent)
            /\ WF_vars(SavedFirst) /\ WF_vars(PickCancelled) /\ WF_vars(QuitSaved)

FairSpec == Spec /\ Fairness

(***************************************************************************)
(* Properties.                                                             *)
(***************************************************************************)
(* The types. *)
RowsTyped == pageElm \in [0 .. 1 -> Rows] /\ pageElmCount \in 0 .. 2

SaveTyped == /\ dirty \in BOOLEAN /\ saving \in BOOLEAN
             /\ queue \in Seq(0 .. 1) /\ Len(queue) <= 2
             /\ sent \in Patches \cup {None}
             /\ sent # None \/ queue # <<>> => saving

FlagsTyped == /\ needsSave \in BOOLEAN
              /\ bypass \in BOOLEAN
              /\ pendingReload \in BOOLEAN

NavTyped == /\ navPending \in BOOLEAN
            /\ delta \in -NavMax .. NavMax
            /\ target \in Pages \cup {None} /\ newPage \in Pages \cup {None}

StacksTyped == /\ back \in Seq(Headers) /\ Len(back) <= NavMax
               /\ fwd \in Seq(Headers) /\ Len(fwd) <= NavMax

RecentTyped == recent \in Seq(Headers) /\ Len(recent) <= RecentMax

OutsideTyped == /\ disk \in [Pages -> Seq(Copies)] /\ \A p \in Pages : Len(disk[p]) <= 2
                /\ notion \in [Pages -> [0 .. 1 -> Texts]]

UserTyped == /\ typed \in [Pages -> [0 .. 1 -> Texts]]
             /\ edits \in 0 .. MaxEdits /\ does \in Scenarios

TypeOK ==
    /\ at \in {"top", "reload", "new", "nav", "thread", "events", "library", "quitting",
               "gone"}
    /\ pageID \in Pages
    /\ RowsTyped /\ SaveTyped /\ FlagsTyped /\ NavTyped
    /\ StacksTyped /\ RecentTyped /\ OutsideTyped /\ UserTyped

Kept(p, i) ==
    \/ typed[p][i] = notion[p][i]
    \/ sent # None /\ sent.page = p /\ sent.row = i /\ sent.text = typed[p][i]
    \/ /\ pageElm[i].page = p /\ pageElm[i].text = typed[p][i] /\ pageElm[i].dirty
       /\ \/ i \in ToSet(queue)
          \/ i < pageElmCount /\ (dirty \/ saving)

(* What the user typed last in each row is in Notion, on its way there, or *)
(* in memory where the next save finds it: only "Don't Save" gives it up   *)
(* (scheduleReload, the loop's flush before navigating, QuitApp).          *)
EditsKept == \A p \in Pages, i \in 0 .. 1 : Kept(p, i)

(* A page's slot holds that page, title and body. *)
CachedUnderOwnPage ==
    \A p \in Pages : disk[p] # <<>> =>
        Len(disk[p]) = 2 /\ \A i \in 1 .. 2 : disk[p][i].page = p

(* "keeps the cached copy in sync with what was just PATCHed to Notion"    *)
(* (main.cpp): the copy of a page that was left has what Notion has.       *)
CacheNotBehind ==
    \A p \in Pages \ {pageID} : disk[p] # <<>> =>
        \A i \in 1 .. Len(disk[p]) : disk[p][i].text = notion[p][i - 1]

(* "Build a PageHeader snapshot of the currently loaded page"              *)
(* (navigation.h): every header has the title of its own page.             *)
HeadersOwnTitle ==
    \A s \in {back, fwd, recent} : \A j \in 1 .. Len(s) : s[j].title.of = s[j].id

(* A link followed, and a reload asked for, happen in the end.             *)
MovesHappen == /\ \A p \in Pages : (target = p) ~> (target # p)
               /\ pendingReload ~> ~pendingReload

(* A row that is to be saved is found by the save that runs, or announced  *)
(* to the next one, whatever the user does meanwhile.                      *)
DirtyIsFound == \A i \in DirtyRows : dirty \/ i \in ToSet(queue)

(* "coalesce rapid Back/Forward presses into one HTTP request" (main.cpp): *)
(* after the delay the page whose preview was shown is loaded.             *)
PreviewLeadsToLoad == [][NavGoes /\ pageElmCount = 1 => pendingReload']_vars
=============================================================================
