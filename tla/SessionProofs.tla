---------------------------- MODULE SessionProofs ----------------------------
(***************************************************************************)
(* One session keeps its types, every row that is to be saved is found by  *)
(* a save, and what the user typed is lost only where Session says how.    *)
(***************************************************************************)
EXTENDS Session, ListProofs

-----------------------------------------------------------------------------
(* Headers.                                                                *)

LEMMA HeaderTyped ==
    ASSUME pageID \in Pages, RowsTyped
    PROVE  buildCurrentHeader \in Headers
BY DEF RowsTyped, Rows, Headers, buildCurrentHeader

LEMMA SyncedTyped ==
    ASSUME NEW s \in Seq(Headers), pageID \in Pages, RowsTyped
    PROVE  Synced(s) \in Seq(Headers) /\ Len(Synced(s)) = Len(s)
<1> DEFINE n == Len(s)
           t == [i \in 1 .. n |-> IF s[i].id = pageID THEN buildCurrentHeader ELSE s[i]]
<1>1. n \in Nat /\ \A i \in 1 .. n : s[i] \in Headers
  BY LenProperties, ElementOfSeq
<1>2. t \in [1 .. n -> Headers]
  BY <1>1, HeaderTyped
<1> HIDE DEF t
<1>3. t \in Seq(Headers) /\ Len(t) = n
  <2> HIDE DEF n
  <2> QED
    BY <1>1, <1>2, SeqDef, LenProperties
<1> QED
  BY <1>3 DEF Synced, t

LEMMA AllSyncedTyped ==
    ASSUME StacksTyped, RecentTyped, pageID \in Pages, RowsTyped, SyncCurrentPageInHistory
    PROVE  StacksTyped' /\ RecentTyped'
<1>1. /\ back \in Seq(Headers) /\ fwd \in Seq(Headers) /\ recent \in Seq(Headers)
      /\ Len(back) <= NavMax /\ Len(fwd) <= NavMax /\ Len(recent) <= RecentMax
  BY DEF StacksTyped, RecentTyped
<1>2. back' = Synced(back) /\ fwd' = Synced(fwd) /\ recent' = Synced(recent)
  BY DEF SyncCurrentPageInHistory
<1>3. back' \in Seq(Headers) /\ Len(back') <= NavMax
  BY <1>1, <1>2, SyncedTyped
<1>4. fwd' \in Seq(Headers) /\ Len(fwd') <= NavMax
  BY <1>1, <1>2, SyncedTyped
<1>5. recent' \in Seq(Headers) /\ Len(recent') <= RecentMax
  BY <1>1, <1>2, SyncedTyped
<1> QED
  BY <1>3, <1>4, <1>5 DEF StacksTyped, RecentTyped

LEMMA PushTyped ==
    ASSUME pageID \in Pages, RowsTyped, StacksTyped,
           back' = Pushed(back, buildCurrentHeader, NavMax), fwd' = <<>>
    PROVE  StacksTyped'
<1>1. /\ Pushed(back, buildCurrentHeader, NavMax) \in Seq(Headers)
      /\ Len(Pushed(back, buildCurrentHeader, NavMax)) <= NavMax
  BY HeaderTyped, PushedTyped, NavMaxAssumption DEF StacksTyped
<1>2. <<>> \in Seq(Headers) /\ Len(<<>>) <= NavMax
  BY NavMaxAssumption
<1> QED
  BY <1>1, <1>2 DEF StacksTyped

LEMMA RecentAdded ==
    ASSUME RecentTyped, NEW h \in Headers
    PROVE  addToRecent(h) \in Seq(Headers) /\ Len(addToRecent(h)) <= RecentMax
<1> DEFINE rest == Among(recent, {g \in Headers : g.id # h.id})
           all == <<h>> \o rest
<1>1. rest \in Seq(Headers)
  BY AmongPart DEF RecentTyped
<1> HIDE DEF rest
<1>2. <<h>> \in Seq(Headers)
  OBVIOUS
<1>3. all \in Seq(Headers) /\ Len(all) \in Nat
  BY <1>1, <1>2, ConcatProperties, LenProperties
<1> HIDE DEF all
<1>4. Min2(Len(all), RecentMax) \in 0 .. Len(all) /\ Min2(Len(all), RecentMax) <= RecentMax
  BY <1>3, SessionAssumption DEF Min2
<1>5. /\ SubSeq(all, 1, Min2(Len(all), RecentMax)) \in Seq(Headers)
      /\ Len(SubSeq(all, 1, Min2(Len(all), RecentMax))) = Min2(Len(all), RecentMax)
  BY <1>3, <1>4, FirstPart
<1> QED
  BY <1>4, <1>5 DEF addToRecent, all, rest

LEMMA LeastOf ==
    ASSUME NEW D, D \subseteq Nat, D # {}
    PROVE  Min(D) \in D /\ \A x \in D : Min(D) <= x
<1>1. PICK x \in D : \A y \in D : x <= y
  BY HasLeast
<1> QED
  BY <1>1 DEF Min

LEMMA FoundTyped ==
    ASSUME StacksTyped, RecentTyped, OutsideTyped, NEW p \in Pages
    PROVE  findCachedHeader(p) \in Headers \cup {None}
<1> DEFINE all == back \o fwd \o recent
           known == {j \in 1 .. Len(all) : all[j].id = p}
<1>1. back \o fwd \in Seq(Headers)
  BY ConcatProperties DEF StacksTyped
<1>2. all \in Seq(Headers)
  BY <1>1, ConcatProperties DEF RecentTyped
<1> HIDE DEF all
<1>3. known \subseteq Nat /\ known \subseteq 1 .. Len(all)
  BY <1>2, LenProperties
<1>4. known # {} => all[Min(known)] \in Headers
  <2> HIDE DEF known
  <2> SUFFICES ASSUME known # {} PROVE all[Min(known)] \in Headers
    OBVIOUS
  <2>1. Min(known) \in 1 .. Len(all)
    BY <1>3, LeastOf
  <2> QED
    BY <1>2, <2>1, ElementOfSeq
<1>5. [id |-> p, title |-> notion[p][0]] \in Headers
  BY DEF OutsideTyped, Headers
<1> QED
  BY <1>4, <1>5 DEF findCachedHeader, all, known

LEMMA ShownTyped ==
    ASSUME RowsTyped, NEW h \in Headers \cup {None}, ShowIfKnown(h)
    PROVE  RowsTyped'
<1>1. CASE h = None
  BY <1>1 DEF ShowIfKnown, rowVars, RowsTyped
<1>2. CASE h # None
  <2>1. /\ pageElm' = [pageElm EXCEPT ![0] = Row(h.id, h.title)] /\ pageElmCount' = 1
        /\ h \in Headers
    BY <1>2 DEF ShowIfKnown, showCachedPreview
  <2>2. Row(h.id, h.title) \in Rows
    BY <2>1 DEF Row, Rows, Headers
  <2> QED
    BY <2>1, <2>2 DEF RowsTyped
<1> QED
  BY <1>1, <1>2

-----------------------------------------------------------------------------
(* Saving.                                                                 *)

LEMMA InQueue ==
    ASSUME NEW D, D \subseteq 0 .. 1
    PROVE  /\ Among(<<0, 1>>, D) \in Seq(0 .. 1) /\ Len(Among(<<0, 1>>, D)) <= 2
           /\ D = {} => Among(<<0, 1>>, D) = <<>>
           /\ ToSet(Among(<<0, 1>>, D)) = D
<1> DEFINE w == Among(<<0, 1>>, D)
           two == <<0, 1>>
<1>1. two \in Seq(0 .. 1) /\ Len(two) = 2 /\ two[1] = 0 /\ two[2] = 1
  OBVIOUS
<1> HIDE DEF two
<1>2. /\ Among(two, D) \in Seq(0 .. 1) /\ Len(Among(two, D)) <= Len(two)
      /\ \A j \in 1 .. Len(Among(two, D)) : Among(two, D)[j] \in D
      /\ \A i \in 1 .. Len(two) : two[i] \in D =>
            \E j \in 1 .. Len(Among(two, D)) : Among(two, D)[j] = two[i]
  BY <1>1, AmongPart
<1>3. w = Among(two, D)
  BY DEF two
<1> HIDE DEF w
<1>4. /\ w \in Seq(0 .. 1) /\ Len(w) <= 2
      /\ \A j \in 1 .. Len(w) : w[j] \in D
      /\ \A d \in D : \E j \in 1 .. Len(w) : w[j] = d
  BY <1>1, <1>2, <1>3
<1>5. ToSet(w) = D
  BY <1>4 DEF ToSet
<1>6. D = {} => w = <<>>
  <2>1. D = {} => ~(1 \in 1 .. Len(w))
    BY <1>4
  <2>2. Len(w) \in Nat
    BY <1>4, LenProperties
  <2> QED
    BY <1>4, <2>1, <2>2, EmptySeq
<1> QED
  BY <1>4, <1>5, <1>6 DEF w

LEMMA DirtyTyped ==
    ASSUME RowsTyped
    PROVE  DirtyRows \subseteq 0 .. 1
BY DEF RowsTyped, DirtyRows

LEMMA DoSaveTyped ==
    ASSUME SaveTyped, RowsTyped, doSave
    PROVE  SaveTyped'
<1>1. CASE saving \/ ~dirty
  BY <1>1 DEF doSave, saveVars, SaveTyped
<1>2. CASE ~(saving \/ ~dirty)
  <2>1. /\ dirty' = FALSE /\ queue' = Among(<<0, 1>>, DirtyRows)
        /\ saving' = (DirtyRows # {}) /\ sent' = None
    BY <1>2 DEF doSave
  <2>2. queue' \in Seq(0 .. 1) /\ Len(queue') <= 2 /\ (queue' # <<>> => saving')
    BY <2>1, DirtyTyped, InQueue
  <2> QED
    BY <2>1, <2>2 DEF SaveTyped
<1> QED
  BY <1>1, <1>2

(* The rows and the queue after the next PATCH. *)
Still == {k \in 1 .. Len(queue) : pageElm[queue[k]].dirty}

LEMMA StillTyped ==
    ASSUME SaveTyped, Still # {}, NEW k, k = Min(Still)
    PROVE  /\ k \in 1 .. Len(queue) /\ k \in Nat /\ Len(queue) \in Nat
           /\ queue[k] \in 0 .. 1 /\ pageElm[queue[k]].dirty
           /\ \A j \in 1 .. Len(queue) : pageElm[queue[j]].dirty => k <= j
           /\ SubSeq(queue, k + 1, Len(queue)) \in Seq(0 .. 1)
           /\ Len(SubSeq(queue, k + 1, Len(queue))) = Len(queue) - k
           /\ \A j \in 1 .. Len(queue) - k :
                  SubSeq(queue, k + 1, Len(queue))[j] = queue[k + j]
<1>1. queue \in Seq(0 .. 1) /\ Len(queue) \in Nat
  BY LenProperties DEF SaveTyped
<1>2. Still \subseteq Nat
  BY <1>1 DEF Still
<1>3. k \in Still /\ \A j \in Still : k <= j
  BY <1>2, LeastOf
<1>4. k \in 1 .. Len(queue) /\ pageElm[queue[k]].dirty
      /\ \A j \in 1 .. Len(queue) : pageElm[queue[j]].dirty => k <= j
  BY <1>3 DEF Still
<1>5. queue[k] \in 0 .. 1
  BY <1>1, <1>4, ElementOfSeq
<1>6. k \in 0 .. Len(queue)
  BY <1>1, <1>4
<1>7. /\ SubSeq(queue, k + 1, Len(queue)) \in Seq(0 .. 1)
      /\ Len(SubSeq(queue, k + 1, Len(queue))) = Len(queue) - k
      /\ \A j \in 1 .. Len(queue) - k : SubSeq(queue, k + 1, Len(queue))[j] = queue[k + j]
  BY <1>1, <1>6, LastPart
<1> QED
  BY <1>1, <1>4, <1>5, <1>7

(* What the next PATCH does, or the end of the save. *)
Ends(flag) == /\ queue' = <<>> /\ sent' = None /\ saving' = FALSE
              /\ needsSave' = flag
              /\ UNCHANGED <<pageElm, headerVars>>

SendsRow(k, i) ==
    /\ queue' = SubSeq(queue, k + 1, Len(queue))
    /\ pageElm' = [pageElm EXCEPT ![i].dirty = FALSE]
    /\ sent' = [row |-> i, page |-> pageElm[i].page, text |-> pageElm[i].text]
    /\ IF i = 0 THEN SyncCurrentPageInHistory ELSE UNCHANGED headerVars
    /\ UNCHANGED <<saving, needsSave>>

LEMMA PatchCases ==
    ASSUME NEW flag, PatchOrEnd(flag)
    PROVE  \/ Still = {} /\ Ends(flag)
           \/ Still # {} /\ \E k : k = Min(Still) /\ SendsRow(k, queue[k])
BY DEF PatchOrEnd, Still, Ends, SendsRow

LEMMA PatchTyped ==
    ASSUME SaveTyped, RowsTyped, FlagsTyped, StacksTyped, RecentTyped, pageID \in Pages,
           NEW flag \in BOOLEAN, PatchOrEnd(flag), saving, UNCHANGED <<dirty, pageElmCount>>
    PROVE  SaveTyped' /\ RowsTyped' /\ needsSave' \in BOOLEAN /\ StacksTyped' /\ RecentTyped'
<1>1. CASE Still = {} /\ Ends(flag)
  <2>1. <<>> \in Seq(0 .. 1) /\ Len(<<>>) <= 2
    OBVIOUS
  <2> QED
    BY <1>1, <2>1 DEF Ends, SaveTyped, RowsTyped, StacksTyped, RecentTyped, headerVars
<1>2. ASSUME Still # {}, NEW k, k = Min(Still), SendsRow(k, queue[k])
      PROVE  SaveTyped' /\ RowsTyped' /\ needsSave' \in BOOLEAN /\ StacksTyped' /\ RecentTyped'
  <2> DEFINE i == queue[k]
  <2>1. /\ i \in 0 .. 1
        /\ queue' \in Seq(0 .. 1) /\ Len(queue') = Len(queue) - k
        /\ k \in Nat /\ Len(queue) \in Nat
    BY <1>2, StillTyped DEF SendsRow
  <2>2. pageElm[i] \in Rows
    BY <2>1 DEF RowsTyped
  <2>3. RowsTyped'
    BY <1>2, <2>1, <2>2 DEF RowsTyped, SendsRow, Rows
  <2>4. sent' \in Patches
    BY <1>2, <2>1, <2>2 DEF SendsRow, Patches, Rows
  <2>5. Len(queue') <= 2
    BY <2>1 DEF SaveTyped
  <2>6. SaveTyped'
    BY <1>2, <2>1, <2>4, <2>5 DEF SaveTyped, SendsRow
  <2>7. StacksTyped' /\ RecentTyped'
    <3>1. CASE SyncCurrentPageInHistory
      BY <3>1, AllSyncedTyped
    <3>2. CASE UNCHANGED headerVars
      BY <3>2 DEF headerVars, StacksTyped, RecentTyped
    <3> QED
      BY <1>2, <3>1, <3>2 DEF SendsRow
  <2> QED
    BY <1>2, <2>3, <2>6, <2>7 DEF SendsRow, FlagsTyped
<1> QED
  BY <1>1, <1>2, PatchCases

LEMMA AcknowledgedTyped ==
    ASSUME OutsideTyped, SaveTyped, Acknowledged
    PROVE  notion' \in [Pages -> [0 .. 1 -> Texts]]
<1>1. CASE sent = None
  BY <1>1 DEF Acknowledged, OutsideTyped
<1>2. CASE sent # None
  <2>1. sent \in Patches
    BY <1>2 DEF SaveTyped
  <2>2. sent.page \in Pages /\ sent.row \in 0 .. 1 /\ sent.text \in Texts
    BY <2>1 DEF Patches
  <2>3. notion' = [notion EXCEPT ![sent.page][sent.row] = sent.text]
    BY <1>2 DEF Acknowledged
  <2> QED
    BY <2>2, <2>3 DEF OutsideTyped
<1> QED
  BY <1>1, <1>2

LEMMA RedirtiedTyped ==
    ASSUME RowsTyped, SaveTyped, sent # None
    PROVE  Redirtied \in [0 .. 1 -> Rows]
<1>1. sent.row \in 0 .. 1
  BY DEF SaveTyped, Patches
<1> QED
  BY <1>1 DEF Redirtied, RowsTyped, Rows

LEMMA SliceTyped ==
    ASSUME TypeOK, SaveSlice, NothingElse
    PROVE  /\ pageID' \in Pages
           /\ RowsTyped' /\ SaveTyped' /\ FlagsTyped' /\ NavTyped'
           /\ StacksTyped' /\ RecentTyped' /\ OutsideTyped' /\ UserTyped'
<1>1. /\ pageID' = pageID /\ bypass' = bypass /\ pendingReload' = pendingReload
      /\ UNCHANGED navVars /\ disk' = disk
  BY DEF NothingElse
<1>2. NavTyped' /\ pageID' \in Pages
  BY <1>1 DEF TypeOK, NavTyped, navVars
<1>3. CASE SaveGoesOn
  <2>1. /\ SaveTyped' /\ RowsTyped' /\ needsSave' \in BOOLEAN
        /\ StacksTyped' /\ RecentTyped'
    BY <1>3, PatchTyped DEF SaveGoesOn, PatchNext, TypeOK
  <2>2. notion' \in [Pages -> [0 .. 1 -> Texts]] /\ UNCHANGED user
    BY <1>3, AcknowledgedTyped DEF SaveGoesOn, TypeOK
  <2>3. FlagsTyped' /\ OutsideTyped' /\ UserTyped'
    BY <1>1, <2>1, <2>2 DEF TypeOK, FlagsTyped, OutsideTyped, UserTyped, user, bounds
  <2> QED
    BY <1>2, <2>1, <2>3
<1>4. CASE SaveFails
  <2>1. /\ sent # None /\ pageElm' = Redirtied /\ UNCHANGED <<needsSave, headerVars, pageElmCount, user>>
        /\ queue' = <<>> /\ sent' = None /\ saving' = FALSE /\ dirty' = TRUE
        /\ Acknowledged \/ UNCHANGED notion
    BY <1>4 DEF SaveFails, SaveStops
  <2>2. RowsTyped'
    BY <2>1, RedirtiedTyped DEF TypeOK, RowsTyped
  <2>3. <<>> \in Seq(0 .. 1) /\ Len(<<>>) <= 2
    OBVIOUS
  <2>4. SaveTyped'
    BY <2>1, <2>3 DEF SaveTyped
  <2>5. notion' \in [Pages -> [0 .. 1 -> Texts]]
    BY <2>1, AcknowledgedTyped DEF TypeOK, OutsideTyped
  <2>6. FlagsTyped' /\ StacksTyped' /\ RecentTyped'
    BY <1>1, <2>1 DEF TypeOK, FlagsTyped, StacksTyped, RecentTyped, headerVars
  <2>7. OutsideTyped' /\ UserTyped'
    BY <1>1, <2>1, <2>5 DEF TypeOK, OutsideTyped, UserTyped, user, bounds
  <2> QED
    BY <1>2, <2>2, <2>4, <2>6, <2>7
<1> QED
  BY <1>3, <1>4 DEF SaveSlice

-----------------------------------------------------------------------------
(* The page's life.                                                        *)

LEMMA ReloadScheduledTyped ==
    ASSUME RowsTyped, SaveTyped, FlagsTyped, OutsideTyped, UserTyped,
           NEW b \in BOOLEAN, scheduleReload(b)
    PROVE  /\ SaveTyped' /\ pendingReload' \in BOOLEAN /\ bypass' \in BOOLEAN
           /\ typed' \in [Pages -> [0 .. 1 -> Texts]]
<1>1. SaveTyped'
  <2>1. CASE doSave
    BY <2>1, DoSaveTyped
  <2>2. CASE UNCHANGED saveVars
    BY <2>2 DEF saveVars, SaveTyped
  <2> QED
    BY <2>1, <2>2 DEF scheduleReload, ReloadUnasked
<1>2. pendingReload' \in BOOLEAN /\ bypass' \in BOOLEAN
  BY DEF scheduleReload, ReloadUnasked, FlagsTyped
<1>3. typed' \in [Pages -> [0 .. 1 -> Texts]]
  BY DEF scheduleReload, ReloadUnasked, UserTyped, OutsideTyped
<1> QED
  BY <1>1, <1>2, <1>3

LEMMA CopyPlaces ==
    ASSUME NEW n \in 1 .. 2
    PROVE  /\ \A i \in 0 .. n - 1 : i \in 0 .. 1 /\ i < n /\ i + 1 \in 1 .. n
           /\ \A i \in 0 .. 1 : i < n => i + 1 \in 1 .. n
OBVIOUS

LEMMA NotEmpty ==
    ASSUME NEW S, NEW s \in Seq(S), s # <<>>
    PROVE  Len(s) \in Nat /\ Len(s) # 0
BY EmptySeq, LenProperties

LEMMA InstalledTyped ==
    ASSUME RowsTyped, RecentTyped, NEW p \in Pages, NEW copy \in Seq(Copies),
           Len(copy) \in 1 .. 2, Installed(p, copy)
    PROVE  /\ RowsTyped' /\ SaveTyped' /\ RecentTyped' /\ bypass' = FALSE
           /\ pageElmCount' = Len(copy)
           /\ \A i \in 0 .. pageElmCount' - 1 : pageElm'[i] = copy[i + 1]
           /\ DirtyRows' = {} /\ dirty' = FALSE /\ saving' = FALSE /\ sent' = None
           /\ queue' = <<>>
<1>1. /\ pageElm' = [i \in 0 .. 1 |-> IF i < Len(copy) THEN copy[i + 1] ELSE pageElm[i]]
      /\ pageElmCount' = Len(copy)
      /\ recent' = addToRecent([id |-> p, title |-> copy[1].text])
      /\ dirty' = FALSE /\ queue' = <<>> /\ saving' = FALSE /\ sent' = None
      /\ bypass' = FALSE
  BY DEF Installed
<1>2. \A i \in 1 .. Len(copy) : copy[i] \in Copies
  BY ElementOfSeq
<1>3. \A i \in 0 .. Len(copy) - 1 : i \in 0 .. 1 /\ i < Len(copy) /\ i + 1 \in 1 .. Len(copy)
  BY CopyPlaces
<1>4. \A i \in 0 .. 1 : i < Len(copy) => i + 1 \in 1 .. Len(copy)
  BY CopyPlaces
<1>5. Copies \subseteq Rows
  BY DEF Copies, Rows
<1>6. \A i \in 0 .. Len(copy) - 1 : pageElm'[i] = copy[i + 1] /\ pageElm'[i] \in Copies
  BY <1>1, <1>2, <1>3
<1>7. pageElm' \in [0 .. 1 -> Rows]
  BY <1>1, <1>2, <1>4, <1>5 DEF RowsTyped
<1>8. RowsTyped'
  BY <1>1, <1>7 DEF RowsTyped
<1>9. DirtyRows' = {}
  <2>1. \A i \in 0 .. pageElmCount' - 1 : ~pageElm'[i].dirty
    BY <1>1, <1>6 DEF Copies
  <2> QED
    BY <2>1 DEF DirtyRows
<1>10. RecentTyped'
  <2>1. [id |-> p, title |-> copy[1].text] \in Headers
    <3>1. copy[1] \in Copies
      BY <1>2
    <3> QED
      BY <3>1 DEF Copies, Headers
  <2> QED
    BY <1>1, <2>1, RecentAdded DEF RecentTyped
<1>11. SaveTyped'
  <2>1. <<>> \in Seq(0 .. 1) /\ Len(<<>>) <= 2
    OBVIOUS
  <2> QED
    BY <1>1, <2>1 DEF SaveTyped
<1> QED
  BY <1>1, <1>6, <1>8, <1>9, <1>10, <1>11

LEMMA FreshTyped ==
    ASSUME OutsideTyped, NEW p \in Pages
    PROVE  /\ Fresh(p) \in Seq(Copies) /\ Len(Fresh(p)) = 2
           /\ \A i \in 0 .. 1 : Fresh(p)[i + 1] = Row(p, notion[p][i])
<1>1. Row(p, notion[p][0]) \in Copies /\ Row(p, notion[p][1]) \in Copies
  BY DEF OutsideTyped, Row, Copies
<1>2. Fresh(p)[1] = Row(p, notion[p][0]) /\ Fresh(p)[2] = Row(p, notion[p][1])
  BY DEF Fresh
<1>3. Fresh(p) \in Seq(Copies) /\ Len(Fresh(p)) = 2
  BY <1>1 DEF Fresh
<1> QED
  BY <1>2, <1>3

LEMMA ShownCopy ==
    ASSUME RowsTyped
    PROVE  /\ Shown \in Seq(Copies) /\ Len(Shown) = pageElmCount /\ Len(Shown) <= 2
           /\ \A i \in 1 .. pageElmCount : Shown[i] = Row(pageElm[i - 1].page, pageElm[i - 1].text)
<1> DEFINE n == pageElmCount
           s == [i \in 1 .. n |-> Row(pageElm[i - 1].page, pageElm[i - 1].text)]
<1>1. n \in Nat /\ n <= 2 /\ \A i \in 1 .. n : i - 1 \in 0 .. 1
  BY DEF RowsTyped
<1>2. \A i \in 0 .. 1 : Row(pageElm[i].page, pageElm[i].text) \in Copies
  BY DEF RowsTyped, Rows, Row, Copies
<1>3. s \in [1 .. n -> Copies]
  BY <1>1, <1>2
<1>4. \A i \in 1 .. n : s[i] = Row(pageElm[i - 1].page, pageElm[i - 1].text)
  OBVIOUS
<1>5. Shown = s
  BY DEF Shown
<1> HIDE DEF s, n
<1>6. s \in Seq(Copies) /\ Len(s) = n
  BY <1>1, <1>3, SeqDef, LenProperties
<1> QED
  BY <1>1, <1>4, <1>5, <1>6 DEF n

(* A page is loaded from its copy, or from Notion. *)
LEMMA ReloadCases ==
    ASSUME OutsideTyped, FlagsTyped, NEW p \in Pages, reloadPage(p)
    PROVE  \E copy \in Seq(Copies) :
              /\ Len(copy) \in 1 .. 2 /\ Installed(p, copy)
              /\ \/ ~bypass /\ copy = disk[p] /\ copy # <<>> /\ needsSave' = needsSave
                 \/ copy = Fresh(p) /\ needsSave' = TRUE
<1>1. CASE ~bypass /\ disk[p] # <<>> /\ Installed(p, disk[p]) /\ UNCHANGED needsSave
  <2>1. disk[p] \in Seq(Copies) /\ Len(disk[p]) <= 2
    BY DEF OutsideTyped
  <2>2. Len(disk[p]) \in 1 .. 2
    <3> DEFINE n == Len(disk[p])
    <3>1. n \in Nat /\ n # 0
      BY <1>1, <2>1, NotEmpty
    <3>2. n <= 2
      BY <2>1
    <3> HIDE DEF n
    <3>3. n \in 1 .. 2
      BY <3>1, <3>2
    <3> QED
      BY <3>3 DEF n
  <2> QED
    BY <1>1, <2>1, <2>2
<1>2. CASE Installed(p, Fresh(p)) /\ needsSave' = TRUE
  <2>1. Fresh(p) \in Seq(Copies) /\ Len(Fresh(p)) = 2
    BY FreshTyped
  <2>2. Len(Fresh(p)) \in 1 .. 2
    BY <2>1
  <2> QED
    BY <1>2, <2>1, <2>2
<1> QED
  BY <1>1, <1>2 DEF reloadPage

LEMMA ReloadedTyped ==
    ASSUME RowsTyped, RecentTyped, OutsideTyped, FlagsTyped, NEW p \in Pages, reloadPage(p)
    PROVE  /\ RowsTyped' /\ SaveTyped' /\ RecentTyped'
           /\ needsSave' \in BOOLEAN /\ bypass' = FALSE
           /\ DirtyRows' = {} /\ dirty' = FALSE /\ saving' = FALSE /\ sent' = None
           /\ queue' = <<>>
<1>1. PICK copy \in Seq(Copies) :
         /\ Len(copy) \in 1 .. 2 /\ Installed(p, copy)
         /\ needsSave' \in {needsSave, TRUE}
  BY ReloadCases
<1> QED
  BY <1>1, InstalledTyped DEF FlagsTyped

-----------------------------------------------------------------------------
(* Types.                                                                  *)

Places == {"top", "reload", "new", "nav", "thread", "events", "library", "quitting", "gone"}

LEMMA TypesTogether ==
    ASSUME at' \in Places, pageID' \in Pages, RowsTyped', SaveTyped', FlagsTyped', NavTyped',
           StacksTyped', RecentTyped', OutsideTyped', UserTyped'
    PROVE  TypeOK'
BY DEF TypeOK, Places

(* What a step leaves alone keeps its type. *)
LEMMA RowsKept == RowsTyped /\ UNCHANGED rowVars => RowsTyped'
BY DEF RowsTyped, rowVars

LEMMA SaveKept == SaveTyped /\ UNCHANGED saveVars => SaveTyped'
BY DEF SaveTyped, saveVars

LEMMA FlagsKept == FlagsTyped /\ UNCHANGED flagVars => FlagsTyped'
BY DEF FlagsTyped, flagVars

LEMMA NavKept == NavTyped /\ UNCHANGED navVars => NavTyped'
BY DEF NavTyped, navVars

LEMMA HeadersKept == StacksTyped /\ RecentTyped /\ UNCHANGED headerVars
                        => StacksTyped' /\ RecentTyped'
BY DEF StacksTyped, RecentTyped, headerVars

LEMMA OutsideKept == OutsideTyped /\ UNCHANGED <<disk, notion>> => OutsideTyped'
BY DEF OutsideTyped

LEMMA UserKept == UserTyped /\ UNCHANGED user => UserTyped'
BY DEF UserTyped, user, bounds

LEMMA NavDropped ==
    ASSUME NavTyped, navPending' \in BOOLEAN, delta' = 0, target' \in {target, None},
           newPage' = newPage
    PROVE  NavTyped'
<1>1. 0 \in -NavMax .. NavMax
  BY NavMaxAssumption
<1> QED
  BY <1>1 DEF NavTyped

LEMMA StateKept == TypeOK /\ UNCHANGED stateVars /\ at' \in Places => TypeOK'
<1> SUFFICES ASSUME TypeOK, UNCHANGED stateVars, at' \in Places PROVE TypeOK'
  OBVIOUS
<1>1. /\ pageID' = pageID /\ UNCHANGED rowVars /\ UNCHANGED saveVars /\ UNCHANGED flagVars
      /\ UNCHANGED navVars /\ UNCHANGED headerVars /\ UNCHANGED <<disk, notion>>
      /\ UNCHANGED user
  BY DEF stateVars, outside
<1> QED
  BY <1>1, TypesTogether, RowsKept, SaveKept, FlagsKept, NavKept, HeadersKept, OutsideKept,
     UserKept DEF TypeOK

LEMMA FlushTyped ==
    ASSUME TypeOK, FlushCache
    PROVE  TypeOK'
<1>1. /\ at' = "reload" /\ pageID' = pageID /\ UNCHANGED rowVars /\ UNCHANGED saveVars
      /\ UNCHANGED <<bypass, pendingReload>> /\ UNCHANGED navVars /\ notion' = notion
      /\ UNCHANGED user
  BY DEF FlushCache
<1>2. CASE /\ needsSave' = FALSE /\ disk' = [disk EXCEPT ![pageID] = Shown]
           /\ SyncCurrentPageInHistory
  <2>1. FlagsTyped'
    BY <1>1, <1>2 DEF TypeOK, FlagsTyped
  <2>2. StacksTyped' /\ RecentTyped'
    BY <1>2, AllSyncedTyped DEF TypeOK
  <2>3. OutsideTyped'
    <3>1. Shown \in Seq(Copies) /\ Len(Shown) <= 2 /\ pageID \in Pages
      BY ShownCopy DEF TypeOK
    <3>2. disk \in [Pages -> Seq(Copies)] /\ \A p \in Pages : Len(disk[p]) <= 2
      BY DEF TypeOK, OutsideTyped
    <3>3. disk' \in [Pages -> Seq(Copies)]
      BY <1>2, <3>1, <3>2
    <3>4. \A p \in Pages : disk'[p] = IF p = pageID THEN Shown ELSE disk[p]
      BY <1>2, <3>2
    <3>5. \A p \in Pages : Len(disk'[p]) <= 2
      BY <3>1, <3>2, <3>4
    <3> QED
      BY <1>1, <3>3, <3>5 DEF TypeOK, OutsideTyped
  <2> QED
    BY <1>1, <2>1, <2>2, <2>3, TypesTogether, RowsKept, SaveKept, NavKept, UserKept
       DEF TypeOK, Places
<1>3. CASE UNCHANGED <<needsSave, disk, headerVars>>
  <2>1. FlagsTyped' /\ OutsideTyped' /\ StacksTyped' /\ RecentTyped'
    BY <1>1, <1>3, OutsideKept, HeadersKept DEF TypeOK, FlagsTyped
  <2> QED
    BY <1>1, <2>1, TypesTogether, RowsKept, SaveKept, NavKept, UserKept DEF TypeOK, Places
<1> QED
  BY <1>2, <1>3 DEF FlushCache

LEMMA DueTyped ==
    ASSUME TypeOK, PendingReload
    PROVE  TypeOK'
<1>1. /\ at' = "new" /\ pageID' = pageID /\ UNCHANGED <<disk, notion>> /\ UNCHANGED user
  BY DEF PendingReload, DueReload, outside
<1>2. CASE /\ pendingReload' = FALSE
           /\ navPending' = FALSE /\ delta' = 0 /\ target' = None
           /\ reloadPage(pageID)
           /\ UNCHANGED <<newPage, back, fwd>>
  <2>1. /\ RowsTyped' /\ SaveTyped' /\ RecentTyped' /\ needsSave' \in BOOLEAN
        /\ bypass' = FALSE
    BY <1>2, ReloadedTyped DEF TypeOK
  <2>2. FlagsTyped'
    BY <1>2, <2>1 DEF FlagsTyped
  <2>3. StacksTyped'
    BY <1>2 DEF TypeOK, StacksTyped
  <2>4. NavTyped'
    BY <1>2, NavDropped DEF TypeOK
  <2> QED
    BY <1>1, <2>1, <2>2, <2>3, <2>4, TypesTogether, OutsideKept, UserKept DEF TypeOK, Places
<1>3. CASE UNCHANGED <<flagVars, rowVars, saveVars, navVars, headerVars>>
  BY <1>1, <1>3, TypesTogether, RowsKept, SaveKept, FlagsKept, NavKept, HeadersKept,
     OutsideKept, UserKept DEF TypeOK, Places
<1> QED
  BY <1>2, <1>3 DEF PendingReload, DueReload

LEMMA NewReadyTyped ==
    ASSUME TypeOK, NewPageReady
    PROVE  TypeOK'
<1>1. /\ at' = "nav" /\ pendingReload' = pendingReload
      /\ UNCHANGED <<navPending, delta, target>>
      /\ UNCHANGED <<disk, notion>> /\ UNCHANGED user
  BY DEF NewPageReady, outside
<1>2. CASE UNCHANGED <<pageID, rowVars, needsSave, bypass, newPage, headerVars>>
  <2>1. SaveTyped'
    <3>1. CASE newPage = None \/ saving
      BY <3>1, SaveKept DEF NewPageReady, TypeOK
    <3>2. CASE ~(newPage = None \/ saving) /\ dirty
      BY <3>2, DoSaveTyped DEF NewPageReady, TypeOK
    <3>3. CASE ~(newPage = None \/ saving) /\ ~dirty
      BY <3>3, ReloadedTyped DEF NewPageReady, TypeOK, NavTyped
    <3> QED
      BY <3>1, <3>2, <3>3
  <2>2. FlagsTyped' /\ NavTyped'
    BY <1>1, <1>2 DEF TypeOK, FlagsTyped, NavTyped
  <2>3. RowsTyped' /\ StacksTyped' /\ RecentTyped' /\ pageID' \in Pages
    BY <1>2, RowsKept, HeadersKept DEF TypeOK
  <2> QED
    BY <1>1, <2>1, <2>2, <2>3, TypesTogether, OutsideKept, UserKept DEF TypeOK, Places
<1>3. CASE /\ newPage # None /\ newPage' = None
           /\ back' = Pushed(back, buildCurrentHeader, NavMax)
           /\ fwd' = <<>>
           /\ pageID' = newPage
           /\ reloadPage(newPage)
  <2>1. newPage \in Pages
    BY <1>3 DEF TypeOK, NavTyped
  <2>2. /\ RowsTyped' /\ SaveTyped' /\ RecentTyped' /\ needsSave' \in BOOLEAN
        /\ bypass' = FALSE
    BY <1>3, <2>1, ReloadedTyped DEF TypeOK
  <2>3. FlagsTyped' /\ NavTyped'
    BY <1>1, <1>3, <2>2 DEF TypeOK, FlagsTyped, NavTyped
  <2>4. StacksTyped'
    BY <1>3, PushTyped DEF TypeOK
  <2> QED
    BY <1>1, <1>3, <2>1, <2>2, <2>3, <2>4, TypesTogether, OutsideKept, UserKept
       DEF TypeOK, Places
<1> QED
  BY <1>2, <1>3 DEF NewPageReady

LEMMA NavSavesTyped ==
    ASSUME TypeOK, NavSaves
    PROVE  TypeOK'
<1>1. /\ at' = "thread" /\ doSave /\ pageID' = pageID /\ UNCHANGED rowVars
      /\ UNCHANGED flagVars /\ UNCHANGED navVars /\ UNCHANGED headerVars
      /\ UNCHANGED <<disk, notion>> /\ UNCHANGED user
  BY DEF NavSaves, outside
<1>2. SaveTyped'
  BY <1>1, DoSaveTyped DEF TypeOK
<1> QED
  BY <1>1, <1>2, TypesTogether, RowsKept, FlagsKept, NavKept, HeadersKept, OutsideKept,
     UserKept DEF TypeOK, Places

(* Where a move may lead: the stacks, the page and whether it is loaded. *)
Went(m) == back' = m.back /\ fwd' = m.fwd /\ pageID' = m.at.id /\ pendingReload' = TRUE

LEMMA NavGoesCases ==
    ASSUME NavGoes
    PROVE  \/ /\ target # None /\ back' = Pushed(back, buildCurrentHeader, NavMax)
              /\ fwd' = <<>> /\ pageID' = target /\ pendingReload' = TRUE
           \/ /\ delta < 0 /\ back # <<>>
              /\ Went(BackBy(back, buildCurrentHeader, fwd, Min2(-delta, Len(back)), NavMax))
           \/ /\ delta > 0 /\ fwd # <<>>
              /\ Went(ForwardBy(back, buildCurrentHeader, fwd, Min2(delta, Len(fwd)), NavMax))
           \/ UNCHANGED <<back, fwd, pageID, pendingReload>>
BY DEF NavGoes, Went

LEMMA WentTyped ==
    ASSUME TypeOK, NavGoes
    PROVE  StacksTyped' /\ pageID' \in Pages /\ pendingReload' \in BOOLEAN
<1>1. /\ back \in Seq(Headers) /\ Len(back) <= NavMax
      /\ fwd \in Seq(Headers) /\ Len(fwd) <= NavMax
      /\ buildCurrentHeader \in Headers
      /\ delta \in -NavMax .. NavMax /\ target \in Pages \cup {None}
  BY HeaderTyped DEF TypeOK, StacksTyped, NavTyped
<1>2. CASE /\ target # None /\ back' = Pushed(back, buildCurrentHeader, NavMax)
           /\ fwd' = <<>> /\ pageID' = target /\ pendingReload' = TRUE
  BY <1>1, <1>2, PushTyped DEF TypeOK
<1>3. CASE /\ delta < 0 /\ back # <<>>
           /\ Went(BackBy(back, buildCurrentHeader, fwd, Min2(-delta, Len(back)), NavMax))
  <2> DEFINE n == Min2(-delta, Len(back))
  <2>1. n \in 1 .. Len(back)
    <3>1. Len(back) \in Nat /\ Len(back) # 0
      BY <1>1, <1>3, NotEmpty
    <3>2. delta \in Int /\ delta < 0
      BY <1>1, <1>3, NavMaxAssumption
    <3> QED
      BY <3>1, <3>2 DEF Min2
  <2>2. PICK m : m = BackBy(back, buildCurrentHeader, fwd, n, NavMax) /\ Went(m)
    BY <1>3
  <2> HIDE DEF n
  <2>3. /\ m.back \in Seq(Headers) /\ Len(m.back) <= NavMax /\ m.at \in Headers
        /\ m.fwd \in Seq(Headers) /\ Len(m.fwd) <= NavMax
    BY <1>1, <2>1, <2>2, BackByTyped, NavMaxAssumption
  <2> QED
    BY <2>2, <2>3 DEF Went, StacksTyped, Headers
<1>4. CASE /\ delta > 0 /\ fwd # <<>>
           /\ Went(ForwardBy(back, buildCurrentHeader, fwd, Min2(delta, Len(fwd)), NavMax))
  <2> DEFINE n == Min2(delta, Len(fwd))
  <2>1. n \in 1 .. Len(fwd)
    <3>1. Len(fwd) \in Nat /\ Len(fwd) # 0
      BY <1>1, <1>4, NotEmpty
    <3>2. delta \in Int /\ delta > 0
      BY <1>1, <1>4, NavMaxAssumption
    <3> QED
      BY <3>1, <3>2 DEF Min2
  <2>2. PICK m : m = ForwardBy(back, buildCurrentHeader, fwd, n, NavMax) /\ Went(m)
    BY <1>4
  <2> HIDE DEF n
  <2>3. /\ m.back \in Seq(Headers) /\ Len(m.back) <= NavMax /\ m.at \in Headers
        /\ m.fwd \in Seq(Headers) /\ Len(m.fwd) <= NavMax
    BY <1>1, <2>1, <2>2, ForwardByTyped, NavMaxAssumption
  <2> QED
    BY <2>2, <2>3 DEF Went, StacksTyped, Headers
<1>5. CASE UNCHANGED <<back, fwd, pageID, pendingReload>>
  BY <1>5 DEF TypeOK, StacksTyped, FlagsTyped
<1> QED
  BY <1>2, <1>3, <1>4, <1>5, NavGoesCases

LEMMA NavGoesTyped ==
    ASSUME TypeOK, NavGoes
    PROVE  TypeOK'
<1>1. /\ at' = "thread" /\ navPending' = FALSE /\ delta' = 0 /\ target' = None
      /\ dirty' = FALSE /\ UNCHANGED <<queue, saving, sent>> /\ UNCHANGED rowVars
      /\ UNCHANGED <<needsSave, bypass>> /\ newPage' = newPage /\ recent' = recent
      /\ UNCHANGED <<disk, notion>> /\ UNCHANGED user
  BY DEF NavGoes, outside
<1>2. SaveTyped'
  BY <1>1 DEF TypeOK, SaveTyped
<1>3. FlagsTyped' /\ RecentTyped'
  BY <1>1, WentTyped DEF TypeOK, FlagsTyped, RecentTyped
<1>4. NavTyped'
  BY <1>1, NavDropped DEF TypeOK
<1> QED
  BY <1>1, <1>2, <1>3, <1>4, WentTyped, TypesTogether, RowsKept, OutsideKept, UserKept
     DEF TypeOK, Places

LEMMA TypeTyped ==
    ASSUME TypeOK, NEW i \in 0 .. 1, Type(i)
    PROVE  TypeOK'
<1>1. /\ at' = "top" /\ edits < MaxEdits /\ edits' = edits + 1
      /\ pageID' = pageID /\ pageElmCount' = pageElmCount
      /\ UNCHANGED <<queue, saving, sent>> /\ dirty' = TRUE
      /\ UNCHANGED flagVars /\ UNCHANGED navVars /\ UNCHANGED headerVars
      /\ UNCHANGED <<disk, notion>> /\ does' = does
  BY DEF Type, Event, outside
<1> DEFINE t == [pageElm[i].text EXCEPT !.n = edits']
<1>2. /\ pageElm' = [pageElm EXCEPT ![i].text = t, ![i].dirty = TRUE]
      /\ typed' = [typed EXCEPT ![pageElm[i].page][i] = t]
  BY DEF Type
<1>3. edits' \in 0 .. MaxEdits
  BY <1>1, SessionAssumption DEF TypeOK, UserTyped
<1>4. pageElm[i] \in Rows
  BY DEF TypeOK, RowsTyped
<1>5. t \in Texts /\ pageElm[i].page \in Pages
  BY <1>3, <1>4 DEF Rows, Texts
<1> HIDE DEF t
<1>6. RowsTyped'
  BY <1>1, <1>2, <1>5 DEF TypeOK, RowsTyped, Rows
<1>7. UserTyped'
  BY <1>1, <1>2, <1>3, <1>5 DEF TypeOK, UserTyped
<1>8. SaveTyped'
  BY <1>1 DEF TypeOK, SaveTyped
<1> QED
  BY <1>1, <1>6, <1>7, <1>8, TypesTogether, FlagsKept, NavKept, HeadersKept, OutsideKept
     DEF TypeOK, Places

LEMMA SaveAskedTyped ==
    ASSUME TypeOK, Save \/ OpenLibrary
    PROVE  TypeOK'
<1>1. /\ at' \in Places /\ doSave /\ pageID' = pageID /\ UNCHANGED rowVars
      /\ UNCHANGED flagVars /\ UNCHANGED navVars /\ UNCHANGED headerVars
      /\ UNCHANGED <<disk, notion>> /\ UNCHANGED user
  BY DEF Save, OpenLibrary, Event, outside, Places
<1>2. SaveTyped'
  BY <1>1, DoSaveTyped DEF TypeOK
<1> QED
  BY <1>1, <1>2, TypesTogether, RowsKept, FlagsKept, NavKept, HeadersKept, OutsideKept,
     UserKept DEF TypeOK

(* A reload that is asked for, perhaps of another page. *)
LEMMA MovedTyped ==
    ASSUME TypeOK, NEW b \in BOOLEAN, scheduleReload(b), at' \in Places,
           \/ UNCHANGED <<pageID, back, fwd>>
           \/ back' = Pushed(back, buildCurrentHeader, NavMax) /\ fwd' = <<>> /\ pageID' \in Pages,
           NavTyped', UNCHANGED rowVars, needsSave' = needsSave, recent' = recent,
           UNCHANGED outside, UNCHANGED bounds
    PROVE  TypeOK'
<1>1. /\ SaveTyped' /\ pendingReload' \in BOOLEAN /\ bypass' \in BOOLEAN
      /\ typed' \in [Pages -> [0 .. 1 -> Texts]]
  BY ReloadScheduledTyped DEF TypeOK
<1>2. FlagsTyped' /\ RecentTyped' /\ UserTyped'
  BY <1>1 DEF TypeOK, FlagsTyped, RecentTyped, UserTyped, bounds
<1>3. StacksTyped' /\ pageID' \in Pages
  <2>1. CASE UNCHANGED <<pageID, back, fwd>>
    BY <2>1 DEF TypeOK, StacksTyped
  <2>2. CASE back' = Pushed(back, buildCurrentHeader, NavMax) /\ fwd' = <<>> /\ pageID' \in Pages
    BY <2>2, PushTyped DEF TypeOK
  <2> QED
    BY <2>1, <2>2
<1>4. UNCHANGED <<disk, notion>>
  BY DEF outside
<1> QED
  BY <1>1, <1>2, <1>3, <1>4, TypesTogether, RowsKept, OutsideKept DEF TypeOK

LEMMA BypassTyped == TypeOK => bypass \in BOOLEAN
BY DEF TypeOK, FlagsTyped

LEMMA ReloadAskedTyped ==
    ASSUME TypeOK, Reload
    PROVE  TypeOK'
<1>1. /\ scheduleReload(TRUE) /\ at' \in Places /\ UNCHANGED <<pageID, back, fwd>>
      /\ UNCHANGED navVars /\ UNCHANGED rowVars /\ needsSave' = needsSave
      /\ recent' = recent /\ UNCHANGED outside /\ UNCHANGED bounds
  BY DEF Reload, Event, Places, headerVars
<1>2. NavTyped'
  BY <1>1, NavKept DEF TypeOK
<1> QED
  BY <1>1, <1>2, MovedTyped

LEMMA RecentOpenedTyped ==
    ASSUME TypeOK, NEW p \in Pages, OpenRecent(p)
    PROVE  TypeOK'
<1>1. /\ scheduleReload(bypass) /\ at' \in Places
      /\ back' = Pushed(back, buildCurrentHeader, NavMax) /\ fwd' = <<>> /\ pageID' \in Pages
      /\ UNCHANGED navVars /\ UNCHANGED rowVars /\ needsSave' = needsSave
      /\ recent' = recent /\ UNCHANGED outside /\ UNCHANGED bounds
  BY DEF OpenRecent, Event, Places
<1>2. NavTyped'
  BY <1>1, NavKept DEF TypeOK
<1> QED
  BY <1>1, <1>2, MovedTyped, BypassTyped

LEMMA PickedTyped ==
    ASSUME TypeOK, NEW p \in Pages, Pick(p)
    PROVE  TypeOK'
<1>1. /\ scheduleReload(bypass) /\ at' \in Places
      /\ back' = Pushed(back, buildCurrentHeader, NavMax) /\ fwd' = <<>> /\ pageID' \in Pages
      /\ navPending' = FALSE /\ delta' = 0 /\ target' = target /\ newPage' = newPage
      /\ UNCHANGED rowVars /\ needsSave' = needsSave
      /\ recent' = recent /\ UNCHANGED outside /\ UNCHANGED bounds
  BY DEF Pick, Places
<1>2. NavTyped'
  BY <1>1, NavDropped DEF TypeOK
<1> QED
  BY <1>1, <1>2, MovedTyped, BypassTyped

(* A move that waits for its second, perhaps with a preview. *)
LEMMA AwaitedTyped ==
    ASSUME TypeOK, at' \in Places, RowsTyped', NavTyped', pageID' = pageID,
           UNCHANGED saveVars, UNCHANGED flagVars, UNCHANGED headerVars, UNCHANGED outside,
           UNCHANGED user
    PROVE  TypeOK'
<1>1. UNCHANGED <<disk, notion>>
  BY DEF outside
<1> QED
  BY <1>1, TypesTogether, SaveKept, FlagsKept, HeadersKept, OutsideKept, UserKept DEF TypeOK

LEMMA PressTyped ==
    ASSUME TypeOK, NEW d \in {-1, 1}, Press(d)
    PROVE  TypeOK'
<1>1. /\ at' \in Places /\ delta' = delta + d /\ navPending' = TRUE
      /\ ShowIfKnown(Peek(back, fwd, delta', None))
      /\ pageID' = pageID /\ UNCHANGED saveVars /\ UNCHANGED flagVars
      /\ UNCHANGED <<target, newPage>> /\ UNCHANGED headerVars /\ UNCHANGED outside
      /\ UNCHANGED user
  BY DEF Press, Event, Places
<1>2. /\ back \in Seq(Headers) /\ fwd \in Seq(Headers) /\ delta \in -NavMax .. NavMax
      /\ Len(back) \in Nat /\ Len(fwd) \in Nat /\ Len(back) <= NavMax /\ Len(fwd) <= NavMax
  BY LenProperties DEF TypeOK, StacksTyped, NavTyped
<1>3. \/ d = -1 /\ Len(back) > 0 /\ -delta < Len(back)
      \/ d = 1 /\ Len(fwd) > 0 /\ delta < Len(fwd)
  BY DEF Press
<1>4. delta' \in -NavMax .. NavMax /\ delta' \in Int
  BY <1>1, <1>2, <1>3, NavMaxAssumption
<1>5. RowsTyped'
  <2>1. Peek(back, fwd, delta', None) \in Headers \cup {None}
    BY <1>2, <1>4, PeekTyped
  <2> QED
    BY <1>1, <2>1, ShownTyped DEF TypeOK
<1>6. NavTyped'
  BY <1>1, <1>4 DEF TypeOK, NavTyped
<1> QED
  BY <1>1, <1>5, <1>6, AwaitedTyped

LEMMA LinkTyped ==
    ASSUME TypeOK, NEW p \in Pages, scheduleNavigateTo(p)
    PROVE  TypeOK'
<1>1. /\ at' \in Places /\ target' = p /\ delta' = 0 /\ navPending' = TRUE
      /\ ShowIfKnown(findCachedHeader(p))
      /\ pageID' = pageID /\ UNCHANGED saveVars /\ UNCHANGED flagVars
      /\ newPage' = newPage /\ UNCHANGED headerVars /\ UNCHANGED outside
      /\ UNCHANGED user
  BY DEF scheduleNavigateTo, Event, Places
<1>2. RowsTyped'
  BY <1>1, FoundTyped, ShownTyped DEF TypeOK
<1>3. 0 \in -NavMax .. NavMax
  BY NavMaxAssumption
<1>4. NavTyped'
  BY <1>1, <1>3 DEF TypeOK, NavTyped
<1> QED
  BY <1>1, <1>2, <1>4, AwaitedTyped

LEMMA NewAskedTyped ==
    ASSUME TypeOK, NEW p \in Pages, NewPage(p)
    PROVE  TypeOK'
<1>1. /\ at' \in Places /\ newPage' = p /\ pageID' = pageID /\ UNCHANGED rowVars
      /\ UNCHANGED saveVars /\ UNCHANGED flagVars /\ UNCHANGED <<navPending, delta, target>>
      /\ UNCHANGED headerVars /\ UNCHANGED outside /\ UNCHANGED user
  BY DEF NewPage, Event, Places
<1>2. NavTyped' /\ RowsTyped'
  BY <1>1, RowsKept DEF TypeOK, NavTyped
<1> QED
  BY <1>1, <1>2, AwaitedTyped

LEMMA GoneTyped ==
    ASSUME TypeOK, Gone, typed' \in {typed, notion}
    PROVE  TypeOK'
<1>1. /\ at' \in Places /\ pageElmCount' = 0 /\ queue' = <<>> /\ saving' = FALSE
      /\ sent' = None /\ pageID' = pageID /\ pageElm' = pageElm /\ dirty' = dirty
      /\ UNCHANGED flagVars /\ UNCHANGED navVars /\ UNCHANGED headerVars
      /\ UNCHANGED <<disk, notion>> /\ UNCHANGED bounds
  BY DEF Gone, Places, outside
<1>2. RowsTyped' /\ UserTyped'
  BY <1>1 DEF TypeOK, RowsTyped, UserTyped, OutsideTyped, bounds
<1>3. <<>> \in Seq(0 .. 1) /\ Len(<<>>) <= 2
  OBVIOUS
<1>4. SaveTyped'
  BY <1>1, <1>3 DEF TypeOK, SaveTyped
<1> QED
  BY <1>1, <1>2, <1>4, TypesTogether, FlagsKept, NavKept, HeadersKept, OutsideKept DEF TypeOK

LEMMA QuitTyped ==
    ASSUME TypeOK, QuitApp \/ QuitSaved
    PROVE  TypeOK'
<1>1. CASE Gone /\ typed' \in {typed, notion}
  BY <1>1, GoneTyped
<1>2. CASE /\ at' \in Places /\ doSave /\ pageID' = pageID /\ UNCHANGED rowVars
           /\ UNCHANGED user /\ UNCHANGED flagVars /\ UNCHANGED navVars
           /\ UNCHANGED headerVars /\ UNCHANGED outside
  <2>1. SaveTyped'
    BY <1>2, DoSaveTyped DEF TypeOK
  <2>2. UNCHANGED <<disk, notion>>
    BY <1>2 DEF outside
  <2> QED
    BY <1>2, <2>1, <2>2, TypesTogether, RowsKept, FlagsKept, NavKept, HeadersKept,
       OutsideKept, UserKept DEF TypeOK
<1>3. CASE at' \in Places /\ UNCHANGED stateVars
  BY <1>3, StateKept
<1> QED
  BY <1>1, <1>2, <1>3 DEF QuitApp, QuitSaved, Places, stateVars, user, bounds

LEMMA ThreadTyped ==
    ASSUME TypeOK, ThreadSlice \/ SavedFirst
    PROVE  TypeOK'
<1>1. SaveSlice /\ NothingElse /\ at' \in Places
  BY DEF ThreadSlice, SavedFirst, Places
<1> QED
  BY <1>1, SliceTyped, TypesTogether

LEMMA InitSessionTyped == Init => TypeOK
<1> SUFFICES ASSUME Init PROVE TypeOK
  OBVIOUS
<1>1. /\ at = "top" /\ does \in Scenarios /\ pageID \in Pages
      /\ notion = [p \in Pages |-> [i \in 0 .. 1 |-> Original(p)]]
      /\ typed = notion
      /\ pageElm = [i \in 0 .. 1 |-> Row(pageID, Original(pageID))]
      /\ pageElmCount = 2
      /\ dirty = FALSE /\ queue = <<>> /\ saving = FALSE /\ sent = None
      /\ needsSave = TRUE /\ bypass = FALSE /\ pendingReload = FALSE
      /\ navPending = FALSE /\ delta = 0 /\ target = None /\ newPage = None
      /\ edits = 0
  BY DEF Init
<1>2. \A p \in Pages : Original(p) \in Texts
  BY SessionAssumption DEF Original, Texts
<1>3. notion \in [Pages -> [0 .. 1 -> Texts]]
  BY <1>1, <1>2
<1>4. RowsTyped
  BY <1>1, <1>2 DEF RowsTyped, Row, Rows
<1>5. SaveTyped
  <2>1. <<>> \in Seq(0 .. 1) /\ Len(<<>>) <= 2
    OBVIOUS
  <2> QED
    BY <1>1, <2>1 DEF SaveTyped
<1>6. FlagsTyped
  BY <1>1 DEF FlagsTyped
<1>7. NavTyped
  <2>1. 0 \in -NavMax .. NavMax
    BY NavMaxAssumption
  <2> QED
    BY <1>1, <2>1 DEF NavTyped
<1>8. \A p \in Pages : HeaderOf(p) \in Headers
  BY <1>2 DEF HeaderOf, Headers
<1>9. \A p \in Pages : \A s \in Earlier(p) : s \in Seq(Headers) /\ Len(s) <= 1
  <2> SUFFICES ASSUME NEW p \in Pages, NEW s \in Earlier(p)
               PROVE  s \in Seq(Headers) /\ Len(s) <= 1
    OBVIOUS
  <2>1. s = <<>> \/ \E q \in Pages : s = <<HeaderOf(q)>>
    BY DEF Earlier
  <2>2. CASE s = <<>>
    BY <2>2
  <2>3. ASSUME NEW q \in Pages, s = <<HeaderOf(q)>> PROVE s \in Seq(Headers) /\ Len(s) <= 1
    BY <1>8, <2>3
  <2> QED
    BY <2>1, <2>2, <2>3
<1>10. StacksTyped
  <2>1. back \in Earlier(pageID) /\ fwd \in Earlier(pageID)
    BY DEF Init
  <2>2. back \in Seq(Headers) /\ Len(back) <= 1 /\ fwd \in Seq(Headers) /\ Len(fwd) <= 1
    BY <1>1, <1>9, <2>1
  <2>3. Len(back) \in Nat /\ Len(fwd) \in Nat
    BY <2>2, LenProperties
  <2> QED
    BY <2>2, <2>3, NavMaxAssumption DEF StacksTyped
<1>11. RecentTyped
  <2>1. \/ recent = <<HeaderOf(pageID)>>
        \/ RecentMax > 1 /\ \E p \in Pages : recent = <<HeaderOf(pageID), HeaderOf(p)>>
    BY DEF Init
  <2>2. CASE recent = <<HeaderOf(pageID)>>
    <3>1. recent \in Seq(Headers) /\ Len(recent) = 1
      BY <1>1, <1>8, <2>2
    <3> QED
      BY <3>1, SessionAssumption DEF RecentTyped
  <2>3. ASSUME RecentMax > 1, NEW p \in Pages, recent = <<HeaderOf(pageID), HeaderOf(p)>>
        PROVE  RecentTyped
    <3>1. recent \in Seq(Headers) /\ Len(recent) = 2
      BY <1>1, <1>8, <2>3
    <3> QED
      BY <2>3, <3>1, SessionAssumption DEF RecentTyped
  <2> QED
    BY <2>1, <2>2, <2>3
<1>12. OutsideTyped
  <2>1. PICK kept \in SUBSET Pages : disk = [p \in Pages |-> IF p \in kept THEN Fresh(p) ELSE <<>>]
    BY DEF Init
  <2>2. \A p \in Pages : notion[p][0] \in Texts /\ notion[p][1] \in Texts
    BY <1>3
  <2>3. \A p \in Pages : Fresh(p) \in Seq(Copies) /\ Len(Fresh(p)) <= 2
    BY <2>2 DEF Fresh, Row, Copies
  <2>4. <<>> \in Seq(Copies) /\ Len(<<>>) <= 2
    OBVIOUS
  <2>5. \A p \in Pages : disk[p] \in Seq(Copies) /\ Len(disk[p]) <= 2
    BY <2>1, <2>3, <2>4
  <2>6. disk \in [Pages -> Seq(Copies)]
    BY <2>1, <2>3, <2>4
  <2> QED
    BY <1>3, <2>5, <2>6 DEF OutsideTyped
<1>13. UserTyped
  BY <1>1, <1>3, SessionAssumption DEF UserTyped
<1> QED
  BY <1>1, <1>4, <1>5, <1>6, <1>7, <1>10, <1>11, <1>12, <1>13 DEF TypeOK

LEMMA NextSessionTyped == TypeOK /\ [Next]_vars => TypeOK'
<1> SUFFICES ASSUME TypeOK, [Next]_vars PROVE TypeOK'
  OBVIOUS
<1>1. CASE FlushCache \/ PendingReload \/ NewPageReady
  BY <1>1, FlushTyped, DueTyped, NewReadyTyped
<1>2. CASE NavSaves \/ NavGoes
  BY <1>2, NavSavesTyped, NavGoesTyped
<1>3. CASE NavWaits \/ NoAnswer \/ NoEvent \/ PickCancelled
  BY <1>3, StateKept DEF NavWaits, NoAnswer, NoEvent, PickCancelled, Places
<1>4. CASE ThreadSlice \/ SavedFirst
  BY <1>4, ThreadTyped
<1>5. ASSUME NEW i \in 0 .. 1, Type(i) PROVE TypeOK'
  BY <1>5, TypeTyped
<1>6. CASE Save \/ Reload \/ OpenLibrary
  BY <1>6, SaveAskedTyped, ReloadAskedTyped
<1>7. ASSUME NEW d \in {-1, 1}, Press(d) PROVE TypeOK'
  BY <1>7, PressTyped
<1>8. ASSUME NEW p \in Pages,
             scheduleNavigateTo(p) \/ OpenRecent(p) \/ NewPage(p) \/ Pick(p)
      PROVE  TypeOK'
  BY <1>8, LinkTyped, RecentOpenedTyped, NewAskedTyped, PickedTyped
<1>9. CASE QuitApp \/ QuitSaved
  BY <1>9, QuitTyped
<1>10. CASE UNCHANGED vars
  <2>1. UNCHANGED stateVars /\ at' \in Places
    BY <1>10 DEF vars, TypeOK, Places
  <2> QED
    BY <2>1, StateKept
<1> QED
  BY <1>1, <1>2, <1>3, <1>4, <1>5, <1>6, <1>7, <1>8, <1>9, <1>10 DEF Next

(* The rows, the save's queue and its request, the headers and the copies  *)
(* on disk stay what the program takes them for, and no save ends with a   *)
(* queue or a request left behind.                                         *)
THEOREM SessionTyped == Spec => []TypeOK
BY InitSessionTyped, NextSessionTyped, PTL DEF Spec

-----------------------------------------------------------------------------
(* Every dirty row is found.                                               *)

LEMMA RowsSame ==
    ASSUME UNCHANGED rowVars
    PROVE  DirtyRows' = DirtyRows
BY DEF rowVars, DirtyRows

LEMMA FoundSame ==
    ASSUME DirtyIsFound, UNCHANGED rowVars, UNCHANGED <<dirty, queue>>
    PROVE  DirtyIsFound'
BY RowsSame DEF DirtyIsFound, ToSet

LEMMA NothingToFind ==
    ASSUME DirtyRows' = {} \/ dirty' = TRUE
    PROVE  DirtyIsFound'
BY DEF DirtyIsFound

LEMMA SavedFound ==
    ASSUME DirtyIsFound, RowsTyped, UNCHANGED rowVars, doSave
    PROVE  DirtyIsFound'
<1>1. CASE UNCHANGED <<dirty, queue>>
  BY <1>1, FoundSame
<1>2. CASE queue' = Among(<<0, 1>>, DirtyRows)
  <2>1. ToSet(queue') = DirtyRows
    BY <1>2, DirtyTyped, InQueue
  <2>2. ToSet(queue)' = ToSet(queue')
    BY DEF ToSet
  <2> QED
    BY <2>1, <2>2, RowsSame DEF DirtyIsFound
<1> QED
  BY <1>1, <1>2 DEF doSave, saveVars

LEMMA ScheduledFound ==
    ASSUME DirtyIsFound, RowsTyped, UNCHANGED rowVars, NEW b, scheduleReload(b)
    PROVE  DirtyIsFound'
<1>1. doSave \/ UNCHANGED saveVars
  BY DEF scheduleReload, ReloadUnasked
<1>2. UNCHANGED saveVars => UNCHANGED <<dirty, queue>>
  BY DEF saveVars
<1> QED
  BY <1>1, <1>2, SavedFound, FoundSame

LEMMA InSet ==
    ASSUME NEW S, NEW s \in Seq(S), NEW x
    PROVE  x \in ToSet(s) <=> \E i \in 1 .. Len(s) : s[i] = x
<1>1. DOMAIN s = 1 .. Len(s)
  BY LenProperties
<1> QED
  BY <1>1 DEF ToSet

(* What is still queued after the next PATCH: every queued dirty row but   *)
(* the one that is sent.                                                   *)
LEMMA QueuedAfter ==
    ASSUME SaveTyped, RowsTyped, Still # {}, NEW k, k = Min(Still), SendsRow(k, queue[k]),
           pageElmCount' = pageElmCount
    PROVE  /\ DirtyRows' = DirtyRows \ {queue[k]}
           /\ ToSet(queue) \cap DirtyRows' \subseteq ToSet(queue')
           /\ ToSet(queue') \subseteq ToSet(queue)
<1> DEFINE i == queue[k]
           n == Len(queue)
<1>1. /\ k \in 1 .. n /\ k \in Nat /\ n \in Nat /\ i \in 0 .. 1
      /\ \A j \in 1 .. n : pageElm[queue[j]].dirty => k <= j
      /\ Len(queue') = n - k
      /\ \A j \in 1 .. n - k : queue'[j] = queue[k + j]
      /\ queue \in Seq(0 .. 1) /\ queue' \in Seq(0 .. 1)
  BY StillTyped DEF SendsRow, SaveTyped
<1>2. /\ pageElm' = [pageElm EXCEPT ![i].dirty = FALSE]
      /\ pageElm \in [0 .. 1 -> Rows] /\ pageElmCount \in 0 .. 2
  BY DEF SendsRow, RowsTyped
<1>3. \A j \in 0 .. 1 : pageElm'[j].dirty = IF j = i THEN FALSE ELSE pageElm[j].dirty
  BY <1>1, <1>2 DEF Rows
<1>4. \A j \in 0 .. pageElmCount - 1 : j \in 0 .. 1
  BY <1>2
<1>5. DirtyRows' = DirtyRows \ {i}
  BY <1>3, <1>4 DEF DirtyRows
<1>6. ASSUME NEW r \in ToSet(queue), r \in DirtyRows'
      PROVE  r \in ToSet(queue')
  <2>1. r # i /\ pageElm[r].dirty
    BY <1>5, <1>6 DEF DirtyRows
  <2>2. PICK j \in 1 .. n : r = queue[j]
    BY <1>1, <1>6, InSet
  <2>3. k <= j /\ j # k
    BY <1>1, <2>1, <2>2
  <2>4. j - k \in 1 .. n - k /\ k + (j - k) = j
    BY <1>1, <2>3
  <2>5. PICK x \in 1 .. n - k : k + x = j
    BY <2>4
  <2>6. queue'[x] = r
    BY <1>1, <2>2, <2>5
  <2>7. x \in 1 .. Len(queue')
    BY <1>1, <2>5
  <2>8. \E y \in 1 .. Len(queue') : queue'[y] = r
    BY <2>6, <2>7
  <2>9. queue' \in Seq(0 .. 1)
    BY <1>1
  <2>10. DOMAIN queue' = 1 .. Len(queue')
    BY <2>9, LenProperties
  <2> QED
    BY <2>8, <2>10 DEF ToSet
<1>7. ToSet(queue') \subseteq ToSet(queue)
  <2>0. DOMAIN queue' = 1 .. n - k
    BY <1>1, LenProperties
  <2> SUFFICES ASSUME NEW j \in 1 .. n - k PROVE queue'[j] \in ToSet(queue)
    BY <2>0 DEF ToSet
  <2>1. k + j \in 1 .. n
    BY <1>1
  <2> QED
    BY <1>1, <2>1, InSet
<1> QED
  BY <1>5, <1>6, <1>7

LEMMA PatchFound ==
    ASSUME DirtyIsFound, SaveTyped, RowsTyped, NEW flag, PatchOrEnd(flag),
           UNCHANGED <<dirty, pageElmCount>>
    PROVE  DirtyIsFound'
<1>1. CASE Still = {} /\ Ends(flag)
  <2>1. DirtyRows' = DirtyRows
    BY <1>1 DEF Ends, DirtyRows
  <2>2. \A i \in DirtyRows : i \notin ToSet(queue)
    BY <1>1 DEF DirtyRows, Still, ToSet
  <2> QED
    BY <2>1, <2>2 DEF DirtyIsFound
<1>2. ASSUME Still # {}, NEW k, k = Min(Still), SendsRow(k, queue[k])
      PROVE  DirtyIsFound'
  <2>1. /\ DirtyRows' \subseteq DirtyRows
        /\ ToSet(queue) \cap DirtyRows' \subseteq ToSet(queue')
    BY <1>2, QueuedAfter
  <2>2. ToSet(queue)' = ToSet(queue')
    BY DEF ToSet
  <2> QED
    BY <2>1, <2>2 DEF DirtyIsFound
<1> QED
  BY <1>1, <1>2, PatchCases

LEMMA ShownFound ==
    ASSUME DirtyIsFound, RowsTyped, NEW h, ShowIfKnown(h), UNCHANGED <<dirty, queue>>
    PROVE  DirtyIsFound'
<1>1. CASE UNCHANGED rowVars
  BY <1>1, FoundSame
<1>2. CASE pageElm' = [pageElm EXCEPT ![0] = Row(h.id, h.title)] /\ pageElmCount' = 1
  <2>1. ~pageElm'[0].dirty
    BY <1>2 DEF RowsTyped, Row
  <2>2. \A i \in 0 .. pageElmCount' - 1 : i = 0
    BY <1>2
  <2>3. DirtyRows' = {}
    BY <2>1, <2>2 DEF DirtyRows
  <2> QED
    BY <2>3, NothingToFind
<1> QED
  BY <1>1, <1>2 DEF ShowIfKnown, showCachedPreview

LEMMA NextFound == TypeOK /\ DirtyIsFound /\ [Next]_vars => DirtyIsFound'
<1> SUFFICES ASSUME TypeOK, DirtyIsFound, [Next]_vars PROVE DirtyIsFound'
  OBVIOUS
<1>1. RowsTyped /\ SaveTyped /\ RecentTyped /\ OutsideTyped /\ FlagsTyped /\ pageID \in Pages
      /\ NavTyped
  BY DEF TypeOK
<1>2. CASE UNCHANGED stateVars \/ FlushCache \/ \E p \in Pages : NewPage(p)
  <2>1. UNCHANGED rowVars /\ UNCHANGED <<dirty, queue>>
    BY <1>2 DEF stateVars, FlushCache, NewPage, saveVars
  <2> QED
    BY <2>1, FoundSame
<1>3. CASE PendingReload
  <2>1. CASE reloadPage(pageID)
    BY <1>1, <2>1, ReloadedTyped, NothingToFind
  <2>2. CASE UNCHANGED <<flagVars, rowVars, saveVars, navVars, headerVars>>
    BY <2>2, FoundSame DEF saveVars
  <2> QED
    BY <1>3, <2>1, <2>2 DEF PendingReload, DueReload
<1>4. CASE NewPageReady
  <2>1. CASE newPage # None /\ reloadPage(newPage)
    BY <1>1, <2>1, ReloadedTyped, NothingToFind DEF NavTyped
  <2>2. CASE UNCHANGED rowVars /\ UNCHANGED saveVars
    BY <2>2, FoundSame DEF saveVars
  <2>3. CASE UNCHANGED rowVars /\ doSave
    BY <1>1, <2>3, SavedFound
  <2> QED
    BY <1>4, <2>1, <2>2, <2>3 DEF NewPageReady
<1>5. CASE NavSaves \/ Save \/ OpenLibrary
  BY <1>1, <1>5, SavedFound DEF NavSaves, Save, OpenLibrary
<1>6. CASE NavGoes
  <2>1. UNCHANGED rowVars /\ queue' = queue /\ ~(dirty /\ DirtyRows # {})
    BY <1>6 DEF NavGoes
  <2>2. \A i \in DirtyRows : i \in ToSet(queue)
    BY <2>1 DEF DirtyIsFound
  <2> QED
    BY <2>1, <2>2, RowsSame DEF DirtyIsFound, ToSet
<1>7. CASE SaveSlice
  <2>1. CASE SaveGoesOn
    BY <1>1, <2>1, PatchFound DEF SaveGoesOn, PatchNext
  <2>2. CASE SaveFails
    BY <2>2, NothingToFind DEF SaveFails, SaveStops
  <2> QED
    BY <1>7, <2>1, <2>2 DEF SaveSlice
<1>8. ASSUME NEW i \in 0 .. 1, Type(i) PROVE DirtyIsFound'
  BY <1>8, NothingToFind DEF Type
<1>9. CASE Reload \/ \E p \in Pages : OpenRecent(p) \/ Pick(p)
  BY <1>1, <1>9, ScheduledFound DEF Reload, OpenRecent, Pick
<1>10. CASE (\E d \in {-1, 1} : Press(d)) \/ \E p \in Pages : scheduleNavigateTo(p)
  <2>1. UNCHANGED <<dirty, queue>> /\ \E h : ShowIfKnown(h)
    BY <1>10 DEF Press, scheduleNavigateTo, saveVars
  <2> QED
    BY <1>1, <2>1, ShownFound
<1>11. CASE Gone
  <2>1. pageElmCount' = 0
    BY <1>11 DEF Gone
  <2>2. DirtyRows' = {}
    BY <2>1 DEF DirtyRows
  <2> QED
    BY <2>2, NothingToFind
<1>12. CASE QuitApp \/ QuitSaved
  <2>1. CASE UNCHANGED rowVars /\ doSave
    BY <1>1, <2>1, SavedFound
  <2>2. CASE UNCHANGED rowVars /\ UNCHANGED saveVars
    BY <2>2, FoundSame DEF saveVars
  <2> QED
    BY <1>11, <1>12, <2>1, <2>2 DEF QuitApp, QuitSaved
<1>13. CASE UNCHANGED vars
  BY <1>2, <1>13 DEF vars
<1> QED
  BY <1>2, <1>3, <1>4, <1>5, <1>6, <1>7, <1>8, <1>9, <1>10, <1>12, <1>13
     DEF Next, NavWaits, NoAnswer, NoEvent, PickCancelled, ThreadSlice, SavedFirst

(* However the user goes on typing, moving and saving, a row that is to be *)
(* saved is in the queue of the save that runs, or announced to the next   *)
(* one (doSave, StopSaveForRetry, unloadPage).                             *)
THEOREM SessionFindsDirty == Spec => []DirtyIsFound
<1>1. Init => DirtyIsFound
  <2> SUFFICES ASSUME Init PROVE DirtyIsFound
    OBVIOUS
  <2>1. pageElm = [i \in 0 .. 1 |-> Row(pageID, Original(pageID))] /\ pageElmCount = 2
    BY DEF Init
  <2>2. \A i \in 0 .. 1 : ~pageElm[i].dirty
    BY <2>1 DEF Row
  <2>3. \A i \in 0 .. pageElmCount - 1 : i \in 0 .. 1
    BY <2>1
  <2> QED
    BY <2>2, <2>3 DEF DirtyIsFound, DirtyRows
<1> QED
  BY <1>1, NextFound, SessionTyped, PTL DEF Spec

-----------------------------------------------------------------------------
(* What the user typed.                                                    *)

(* The sessions in which nothing typed is lost.  Left out is what Session  *)
(* loses by (the README's table): typing during a save, a preview in place *)
(* of the rows, quitting during a save, and a reload that is due when the  *)
(* save before it fails.                                                   *)
NothingLoses ==
    \A sc \in Scenarios :
        /\ sc \cap {"type ahead", "history", "link", "quit"} = {}
        /\ "fail" \in sc => sc \cap {"reload", "recent", "library"} = {}

AllSaved == typed = notion

(* "Don't Save" was chosen, and the reload comes next. *)
Discarding == pendingReload /\ ~saving /\ at \in {"top", "reload"}

(* The text of a row is in Notion, on its way, or in a dirty row. *)
InSight(p, i) ==
    \/ typed[p][i] = notion[p][i]
    \/ sent # None /\ sent.page = p /\ sent.row = i /\ sent.text = typed[p][i]
    \/ i \in DirtyRows /\ pageElm[i].page = p /\ pageElm[i].text = typed[p][i]

SentFromRow ==
    sent # None => /\ sent.row < pageElmCount
                   /\ pageElm[sent.row].page = sent.page
                   /\ pageElm[sent.row].text = sent.text
                   /\ sent.text = typed[sent.page][sent.row]

QueueOfRows == \A i \in ToSet(queue) : i < pageElmCount

DirtyAsTyped == \A i \in DirtyRows : pageElm[i].text = typed[pageElm[i].page][i]

(* A reload is due only when everything is in Notion, or will be when the  *)
(* save that runs, and cannot fail, is over.                               *)
ReloadLosesNothing ==
    pendingReload => \/ AllSaved
                     \/ saving /\ ~dirty /\ "fail" \notin does

AllInSight == \A p \in Pages, i \in 0 .. 1 : InSight(p, i)

Running == at \notin {"quitting", "gone"} /\ (at = "library" => "library" \in does)

EditsInv == /\ SentFromRow
            /\ QueueOfRows
            /\ ~Discarding => DirtyAsTyped
            /\ ReloadLosesNothing
            /\ saving => ~dirty
            /\ AllInSight
            /\ Running

LEMMA InSightIsKept ==
    ASSUME TypeOK, DirtyIsFound, EditsInv
    PROVE  EditsKept
<1> SUFFICES ASSUME NEW p \in Pages, NEW i \in 0 .. 1 PROVE Kept(p, i)
  BY DEF EditsKept
<1>1. InSight(p, i)
  BY DEF EditsInv, AllInSight
<1>2. i \in DirtyRows => /\ i < pageElmCount /\ pageElm[i].dirty
                         /\ dirty \/ i \in ToSet(queue)
  BY DEF DirtyRows, DirtyIsFound, TypeOK, RowsTyped
<1> QED
  BY <1>1, <1>2 DEF InSight, Kept

LEMMA TextsTyped ==
    ASSUME TypeOK
    PROVE  /\ typed \in [Pages -> [0 .. 1 -> Texts]] /\ notion \in [Pages -> [0 .. 1 -> Texts]]
BY DEF TypeOK, UserTyped, OutsideTyped

LEMMA SameTexts ==
    ASSUME NEW a \in [Pages -> [0 .. 1 -> Texts]], NEW b \in [Pages -> [0 .. 1 -> Texts]],
           \A p \in Pages, i \in 0 .. 1 : a[p][i] = b[p][i]
    PROVE  a = b
<1>1. \A p \in Pages : a[p] \in [0 .. 1 -> Texts] /\ b[p] \in [0 .. 1 -> Texts]
  OBVIOUS
<1>2. \A p \in Pages : a[p] = b[p]
  BY <1>1
<1> QED
  BY <1>2

LEMMA NoSave ==
    ASSUME TypeOK, ~saving
    PROVE  sent = None /\ queue = <<>> /\ ToSet(queue) = {}
<1>1. sent = None /\ queue = <<>>
  BY DEF TypeOK, SaveTyped
<1>2. ToSet(<<>>) = {}
  BY DEF ToSet
<1> QED
  BY <1>1, <1>2

(* Without a save, and with nothing to save, everything is in Notion. *)
LEMMA IdleSaved ==
    ASSUME TypeOK, DirtyIsFound, EditsInv, ~saving, ~dirty \/ DirtyRows = {}
    PROVE  AllSaved /\ DirtyRows = {}
<1>1. DirtyRows = {}
  BY NoSave DEF DirtyIsFound
<1>2. \A p \in Pages, i \in 0 .. 1 : typed[p][i] = notion[p][i]
  BY <1>1, NoSave DEF EditsInv, AllInSight, InSight
<1> QED
  BY <1>1, <1>2, TextsTyped, SameTexts DEF AllSaved

(* Steps that leave the rows, the save and Notion alone. *)
LEMMA KeptBut ==
    ASSUME EditsInv, Discarding => Discarding', Running', ReloadLosesNothing',
           UNCHANGED <<rowVars, saveVars, typed, notion>>
    PROVE  EditsInv'
<1>1. /\ pageElm' = pageElm /\ pageElmCount' = pageElmCount
      /\ dirty' = dirty /\ queue' = queue /\ saving' = saving /\ sent' = sent
      /\ typed' = typed /\ notion' = notion
  BY DEF rowVars, saveVars
<1>2. DirtyRows' = DirtyRows
  BY <1>1 DEF DirtyRows
<1>3. ToSet(queue)' = ToSet(queue)
  BY <1>1 DEF ToSet
<1>4. SentFromRow' /\ QueueOfRows'
  BY <1>1, <1>3 DEF EditsInv, SentFromRow, QueueOfRows
<1>5. ~Discarding' => DirtyAsTyped'
  BY <1>1, <1>2 DEF EditsInv, DirtyAsTyped
<1>6. saving' => ~dirty'
  BY <1>1 DEF EditsInv
<1>7. AllInSight'
  BY <1>1, <1>2 DEF EditsInv, AllInSight, InSight
<1> QED
  BY <1>4, <1>5, <1>6, <1>7 DEF EditsInv

LEMMA QuietSafe ==
    ASSUME EditsInv, Discarding => Discarding', Running',
           UNCHANGED <<rowVars, saveVars, pendingReload, typed, notion, does>>
    PROVE  EditsInv'
<1>1. /\ dirty' = dirty /\ saving' = saving /\ pendingReload' = pendingReload
      /\ typed' = typed /\ notion' = notion /\ does' = does
  BY DEF saveVars
<1>2. ReloadLosesNothing'
  BY <1>1 DEF EditsInv, ReloadLosesNothing, AllSaved
<1> QED
  BY <1>2, KeptBut

(* Steps after which everything is in Notion, and no save runs. *)
LEMMA SavedSafe ==
    ASSUME AllSaved', sent' = None, queue' = <<>>, Discarding' \/ DirtyRows' = {},
           saving' = FALSE, Running'
    PROVE  EditsInv'
<1>1. ToSet(queue)' = {}
  BY DEF ToSet
<1>2. SentFromRow' /\ QueueOfRows' /\ ReloadLosesNothing'
  BY <1>1 DEF SentFromRow, QueueOfRows, ReloadLosesNothing
<1>3. ~Discarding' => DirtyAsTyped'
  BY DEF DirtyAsTyped
<1>4. AllInSight'
  BY DEF AllSaved, AllInSight, InSight
<1> QED
  BY <1>2, <1>3, <1>4 DEF EditsInv

(* A save starts. *)
LEMMA SaveStartsSafe ==
    ASSUME TypeOK, DirtyIsFound, EditsInv, doSave, ~Discarding, Running',
           UNCHANGED <<rowVars, typed, notion, does>>,
           \/ pendingReload' = pendingReload
           \/ dirty /\ "fail" \notin does
    PROVE  EditsInv'
<1>1. /\ pageElm' = pageElm /\ pageElmCount' = pageElmCount
      /\ typed' = typed /\ notion' = notion /\ does' = does
  BY DEF rowVars
<1>2. DirtyRows' = DirtyRows
  BY <1>1 DEF DirtyRows
<1>3. CASE UNCHANGED saveVars /\ pendingReload' = pendingReload
  BY <1>3, QuietSafe
<1>4. CASE UNCHANGED saveVars /\ saving /\ "fail" \notin does
  <2>1. ReloadLosesNothing'
    BY <1>1, <1>4 DEF saveVars, EditsInv, ReloadLosesNothing
  <2> QED
    BY <1>4, <2>1, KeptBut
<1>5. CASE ~saving /\ dirty
  <2>1. /\ dirty' = FALSE /\ queue' = Among(<<0, 1>>, DirtyRows)
        /\ saving' = (DirtyRows # {}) /\ sent' = None
    BY <1>5 DEF doSave
  <2>2. ToSet(queue') = DirtyRows
    BY <2>1, DirtyTyped, InQueue DEF TypeOK
  <2>3. ToSet(queue)' = ToSet(queue')
    BY DEF ToSet
  <2>4. SentFromRow' /\ QueueOfRows'
    BY <1>1, <2>1, <2>2, <2>3 DEF SentFromRow, QueueOfRows, DirtyRows, TypeOK, RowsTyped
  <2>5. DirtyAsTyped'
    BY <1>1, <1>2 DEF EditsInv, DirtyAsTyped
  <2>6. AllInSight'
    BY <1>1, <1>2, <1>5, NoSave DEF EditsInv, AllInSight, InSight
  <2>7. ReloadLosesNothing'
    <3>1. CASE pendingReload' = pendingReload /\ pendingReload
      BY <1>1, <1>5, <3>1 DEF EditsInv, ReloadLosesNothing, AllSaved
    <3>2. CASE "fail" \notin does /\ DirtyRows = {}
      BY <1>1, <1>5, <3>2, IdleSaved DEF ReloadLosesNothing, AllSaved
    <3>3. CASE "fail" \notin does /\ DirtyRows # {}
      BY <1>1, <2>1, <3>3 DEF ReloadLosesNothing
    <3>4. CASE ~pendingReload'
      BY <3>4 DEF ReloadLosesNothing
    <3> QED
      BY <3>1, <3>2, <3>3, <3>4
  <2> QED
    BY <2>1, <2>4, <2>5, <2>6, <2>7 DEF EditsInv
<1> QED
  BY <1>3, <1>4, <1>5 DEF doSave

(* What a session in which nothing is lost does not do. *)
LEMMA DoesNot ==
    ASSUME TypeOK, NothingLoses
    PROVE  /\ does \cap {"type ahead", "history", "link", "quit"} = {}
           /\ "fail" \in does => does \cap {"reload", "recent", "library"} = {}
BY DEF TypeOK, UserTyped, NothingLoses

(* A reload with everything saved. *)
LEMMA LoadedSafe ==
    ASSUME TypeOK, AllSaved, NEW p \in Pages, reloadPage(p), UNCHANGED <<typed, notion>>, Running'
    PROVE  EditsInv'
<1>1. DirtyRows' = {}
  BY ReloadedTyped DEF TypeOK
<1>2. sent' = None /\ queue' = <<>> /\ saving' = FALSE
  BY DEF reloadPage, Installed
<1>3. AllSaved'
  BY DEF AllSaved
<1> QED
  BY <1>1, <1>2, <1>3, SavedSafe

LEMMA DueSafe ==
    ASSUME TypeOK, EditsInv, PendingReload
    PROVE  EditsInv'
<1>1. /\ Running' /\ UNCHANGED <<typed, notion, does>>
  BY DEF PendingReload, DueReload, Running, outside, user, bounds
<1>2. CASE pendingReload /\ ~saving
  <2>1. AllSaved
    BY <1>2 DEF EditsInv, ReloadLosesNothing
  <2>2. reloadPage(pageID) /\ pageID \in Pages
    BY <1>2 DEF PendingReload, DueReload, TypeOK
  <2> QED
    BY <1>1, <2>1, <2>2, LoadedSafe
<1>3. CASE ~(pendingReload /\ ~saving)
  <2>1. UNCHANGED <<rowVars, saveVars, pendingReload>>
    BY <1>3 DEF PendingReload, DueReload, flagVars
  <2>2. ~Discarding
    BY <1>3 DEF Discarding
  <2> QED
    BY <1>1, <2>1, <2>2, QuietSafe
<1> QED
  BY <1>2, <1>3

LEMMA NewReadySafe ==
    ASSUME TypeOK, DirtyIsFound, EditsInv, NewPageReady
    PROVE  EditsInv'
<1>1. Running' /\ ~Discarding /\ UNCHANGED <<typed, notion, does, pendingReload>>
  BY DEF NewPageReady, Running, Discarding, outside, user, bounds
<1>2. CASE newPage = None \/ saving
  BY <1>1, <1>2, QuietSafe DEF NewPageReady
<1>3. CASE newPage # None /\ ~saving /\ dirty
  BY <1>1, <1>3, SaveStartsSafe DEF NewPageReady
<1>4. CASE newPage # None /\ ~saving /\ ~dirty
  <2>1. reloadPage(newPage) /\ newPage \in Pages
    BY <1>4 DEF NewPageReady, TypeOK, NavTyped
  <2>2. AllSaved
    BY <1>4, IdleSaved
  <2> QED
    BY <1>1, <2>1, <2>2, LoadedSafe
<1> QED
  BY <1>2, <1>3, <1>4

LEMMA NavGoesSafe ==
    ASSUME TypeOK, DirtyIsFound, EditsInv, NavGoes
    PROVE  EditsInv'
<1>1. /\ Running' /\ UNCHANGED <<typed, notion, rowVars, queue, saving, sent>>
      /\ ~saving /\ ~(dirty /\ DirtyRows # {})
  BY DEF NavGoes, Running, outside, user
<1>2. AllSaved /\ DirtyRows = {}
  BY <1>1, IdleSaved
<1>3. DirtyRows' = {}
  BY <1>1, <1>2 DEF DirtyRows, rowVars
<1>4. AllSaved'
  BY <1>1, <1>2 DEF AllSaved
<1>5. sent' = None /\ queue' = <<>> /\ saving' = FALSE
  <2>1. saving = FALSE
    BY <1>1 DEF TypeOK, SaveTyped
  <2> QED
    BY <1>1, <2>1, NoSave
<1> QED
  BY <1>1, <1>3, <1>4, <1>5, SavedSafe

(* Reload, a recent page or a page of the library, and what the dialog     *)
(* answers.                                                                *)
LEMMA ScheduledSafe ==
    ASSUME TypeOK, DirtyIsFound, EditsInv, NEW b, scheduleReload(b),
           at \in {"events", "library"}, at' = "top", "fail" \notin does,
           UNCHANGED <<rowVars, notion, does>>
    PROVE  EditsInv'
<1>1. Running' /\ ~Discarding
  BY DEF Running, Discarding
<1>2. CASE /\ dirty /\ ~saving /\ doSave /\ UNCHANGED typed
  BY <1>1, <1>2, SaveStartsSafe
<1>3. CASE /\ dirty /\ ~saving /\ pendingReload' = TRUE /\ typed' = notion /\ UNCHANGED saveVars
  <2>1. sent' = None /\ queue' = <<>> /\ saving' = FALSE
    <3>1. saving = FALSE
      BY <1>3 DEF TypeOK, SaveTyped
    <3> QED
      BY <1>3, <3>1, NoSave DEF saveVars
  <2>2. Discarding'
    BY <1>3, <2>1 DEF Discarding
  <2>3. AllSaved'
    BY <1>3 DEF AllSaved
  <2> QED
    BY <1>1, <2>1, <2>2, <2>3, SavedSafe
<1>4. CASE UNCHANGED <<saveVars, typed, pendingReload>>
  BY <1>1, <1>4, QuietSafe
<1>5. CASE ~(dirty /\ ~saving) /\ ReloadUnasked(b)
  <2>1. pendingReload' = TRUE /\ UNCHANGED <<saveVars, typed>>
    BY <1>5 DEF ReloadUnasked
  <2>2. CASE saving
    <3>1. UNCHANGED saveVars /\ doSave
      BY <2>1, <2>2 DEF doSave
    <3>2. ReloadLosesNothing'
      BY <2>1, <2>2 DEF saveVars, EditsInv, ReloadLosesNothing
    <3> QED
      BY <1>1, <2>1, <3>2, KeptBut
  <2>3. CASE ~saving
    <3>1. AllSaved /\ DirtyRows = {} /\ sent = None /\ queue = <<>> /\ saving = FALSE
      BY <1>5, <2>3, IdleSaved, NoSave DEF TypeOK, SaveTyped
    <3>2. AllSaved' /\ DirtyRows' = {} /\ sent' = None /\ queue' = <<>> /\ saving' = FALSE
      BY <2>1, <3>1 DEF AllSaved, DirtyRows, saveVars, rowVars
    <3> QED
      BY <1>1, <3>2, SavedSafe
  <2> QED
    BY <2>2, <2>3
<1> QED
  BY <1>2, <1>3, <1>4, <1>5 DEF scheduleReload

LEMMA TypeSafe ==
    ASSUME TypeOK, EditsInv, NothingLoses, NEW i \in 0 .. 1, Type(i)
    PROVE  EditsInv'
<1> DEFINE t == [pageElm[i].text EXCEPT !.n = edits']
           P == pageElm[i].page
<1>1. /\ i < pageElmCount /\ ~saving /\ ~pendingReload /\ at = "events" /\ at' = "top"
      /\ pageElm' = [pageElm EXCEPT ![i].text = t, ![i].dirty = TRUE]
      /\ typed' = [typed EXCEPT ![P][i] = t]
      /\ UNCHANGED <<pageElmCount, queue, saving, sent, pendingReload, notion, does>>
  BY DoesNot DEF Type, Event, flagVars, outside
<1> HIDE DEF t
<1>2. /\ pageElm \in [0 .. 1 -> Rows] /\ pageElmCount \in 0 .. 2
      /\ typed \in [Pages -> [0 .. 1 -> Texts]] /\ P \in Pages
  BY DEF TypeOK, RowsTyped, UserTyped, Rows
<1> HIDE DEF P
<1>3. pageElm'[i].page = P /\ pageElm'[i].text = t /\ pageElm'[i].dirty
  BY <1>1, <1>2 DEF P, Rows
<1>4. \A j \in 0 .. 1 : j # i => pageElm'[j] = pageElm[j]
  BY <1>1, <1>2
<1>5. /\ typed'[P][i] = t
      /\ \A p \in Pages, j \in 0 .. 1 : ~(p = P /\ j = i) => typed'[p][j] = typed[p][j]
  BY <1>1, <1>2
<1>6. \A j \in 0 .. pageElmCount - 1 : j \in 0 .. 1
  BY <1>2
<1>7. DirtyRows' = DirtyRows \cup {i}
  <2>1. i \in 0 .. pageElmCount - 1
    BY <1>1, <1>2
  <2> QED
    BY <1>1, <1>3, <1>4, <1>6, <2>1 DEF DirtyRows
<1>8. sent = None /\ queue = <<>>
  BY <1>1, NoSave
<1>9. AllInSight'
  <2> SUFFICES ASSUME NEW p \in Pages, NEW j \in 0 .. 1 PROVE InSight(p, j)'
    BY DEF AllInSight
  <2>1. InSight(p, j)
    BY DEF EditsInv, AllInSight
  <2>2. CASE p = P /\ j = i
    BY <1>3, <1>5, <1>7, <2>2 DEF InSight
  <2>3. CASE p # P /\ j = i
    BY <1>1, <1>5, <1>8, <2>1, <2>3 DEF InSight, P
  <2>4. CASE j # i
    BY <1>1, <1>4, <1>5, <1>7, <1>8, <2>1, <2>4 DEF InSight
  <2> QED
    BY <2>2, <2>3, <2>4
<1>10. DirtyAsTyped'
  <2> SUFFICES ASSUME NEW j \in DirtyRows' PROVE pageElm'[j].text = typed'[pageElm'[j].page][j]
    BY DEF DirtyAsTyped
  <2>1. CASE j = i
    BY <1>3, <1>5, <2>1
  <2>2. CASE j # i
    <3>1. j \in DirtyRows /\ j \in 0 .. 1
      BY <1>6, <1>7, <2>2 DEF DirtyRows
    <3>2. pageElm[j].text = typed[pageElm[j].page][j] /\ pageElm[j].page \in Pages
      BY <1>1, <1>2, <3>1 DEF EditsInv, Discarding, DirtyAsTyped, Rows
    <3> QED
      BY <1>4, <1>5, <2>2, <3>1, <3>2
  <2> QED
    BY <2>1, <2>2
<1>11. SentFromRow' /\ ReloadLosesNothing' /\ (saving' => ~dirty') /\ Running'
  BY <1>1, <1>8 DEF SentFromRow, ReloadLosesNothing, Running
<1>12. QueueOfRows'
  <2>1. ToSet(queue)' = {}
    BY <1>1, <1>8 DEF ToSet
  <2> QED
    BY <2>1 DEF QueueOfRows
<1> QED
  BY <1>9, <1>10, <1>11, <1>12 DEF EditsInv

(* An answer gives Notion what was sent, which is what was typed last.     *)
LEMMA AcknowledgedSafe ==
    ASSUME TypeOK, EditsInv, Acknowledged \/ UNCHANGED notion
    PROVE  /\ \A p \in Pages, i \in 0 .. 1 : notion'[p][i] \in {notion[p][i], typed[p][i]}
           /\ Acknowledged => \A p \in Pages, i \in 0 .. 1 :
                  sent # None /\ sent.page = p /\ sent.row = i => notion'[p][i] = sent.text
<1>1. CASE UNCHANGED notion /\ (Acknowledged => sent = None)
  BY <1>1
<1>2. CASE sent # None /\ notion' = [notion EXCEPT ![sent.page][sent.row] = sent.text]
  <2>1. /\ sent.page \in Pages /\ sent.row \in 0 .. 1
        /\ sent.text = typed[sent.page][sent.row]
    BY <1>2 DEF TypeOK, SaveTyped, Patches, EditsInv, SentFromRow
  <2>2. /\ notion'[sent.page][sent.row] = sent.text
        /\ \A p \in Pages, i \in 0 .. 1 :
              ~(p = sent.page /\ i = sent.row) => notion'[p][i] = notion[p][i]
    BY <1>2, <2>1, TextsTyped
  <2> QED
    BY <2>1, <2>2
<1>3. CASE sent # None /\ UNCHANGED notion /\ ~Acknowledged
  BY <1>3
<1>4. sent # None /\ Acknowledged => notion' = [notion EXCEPT ![sent.page][sent.row] = sent.text]
  BY DEF Acknowledged
<1>5. sent = None /\ Acknowledged => UNCHANGED notion
  BY DEF Acknowledged
<1> QED
  BY <1>1, <1>2, <1>3, <1>4, <1>5

LEMMA StillAllSaved ==
    ASSUME TypeOK, EditsInv, Acknowledged \/ UNCHANGED notion, UNCHANGED typed, AllSaved
    PROVE  AllSaved'
<1>1. notion' \in [Pages -> [0 .. 1 -> Texts]]
  BY TextsTyped, AcknowledgedTyped DEF TypeOK
<1>2. \A p \in Pages, i \in 0 .. 1 : notion'[p][i] = typed[p][i]
  BY AcknowledgedSafe DEF AllSaved
<1>3. notion' = typed
  BY <1>1, <1>2, TextsTyped, SameTexts
<1> QED
  BY <1>3 DEF AllSaved

LEMMA SaveEndsSafe ==
    ASSUME TypeOK, DirtyIsFound, EditsInv, saving, Acknowledged, Still = {}, NEW flag, Ends(flag),
           UNCHANGED <<dirty, pageElmCount, typed, does, pendingReload>>, Running',
           at \notin {"top", "reload"}
    PROVE  EditsInv'
<1>1. /\ pageElm' = pageElm /\ pageElmCount' = pageElmCount /\ typed' = typed
      /\ queue' = <<>> /\ sent' = None /\ saving' = FALSE /\ dirty' = dirty
  BY DEF Ends
<1>2. DirtyRows' = DirtyRows
  BY <1>1 DEF DirtyRows
<1>3. ToSet(queue)' = {}
  BY <1>1 DEF ToSet
<1>4. SentFromRow' /\ QueueOfRows'
  BY <1>1, <1>3 DEF SentFromRow, QueueOfRows
<1>5. DirtyAsTyped'
  BY <1>1, <1>2 DEF EditsInv, Discarding, DirtyAsTyped
<1>6. ASSUME NEW p \in Pages, NEW i \in 0 .. 1
      PROVE  typed[p][i] = notion'[p][i] \/ (i \in DirtyRows /\ InSight(p, i)')
  <2>1. InSight(p, i)
    BY DEF EditsInv, AllInSight
  <2> QED
    BY <1>1, <1>2, <2>1, AcknowledgedSafe DEF InSight
<1>7. AllInSight'
  BY <1>1, <1>6 DEF AllInSight, InSight
<1>8. ReloadLosesNothing'
  <2>1. CASE AllSaved
    BY <2>1, StillAllSaved DEF ReloadLosesNothing
  <2>2. CASE ~dirty
    <3>1. DirtyRows = {}
      <4>1. \A i \in DirtyRows : i \notin ToSet(queue)
        BY DEF DirtyRows, Still, ToSet
      <4> QED
        BY <2>2, <4>1 DEF DirtyIsFound
    <3>2. \A p \in Pages, i \in 0 .. 1 : notion'[p][i] = typed[p][i]
      BY <1>6, <3>1
    <3>3. notion' \in [Pages -> [0 .. 1 -> Texts]]
      BY AcknowledgedTyped DEF TypeOK
    <3>4. notion' = typed
      BY <3>2, <3>3, TextsTyped, SameTexts
    <3> QED
      BY <1>1, <3>4 DEF ReloadLosesNothing, AllSaved
  <2>3. AllSaved \/ ~dirty
    BY DEF EditsInv
  <2> QED
    BY <2>1, <2>2, <2>3
<1> QED
  BY <1>1, <1>4, <1>5, <1>7, <1>8 DEF EditsInv

LEMMA SendsSafe ==
    ASSUME TypeOK, EditsInv, saving, Acknowledged, Still # {},
           NEW k, k = Min(Still), SendsRow(k, queue[k]),
           UNCHANGED <<dirty, pageElmCount, typed, does, pendingReload>>, Running',
           at \notin {"top", "reload"}
    PROVE  EditsInv'
<1> DEFINE i == queue[k]
<1>1. /\ pageElm' = [pageElm EXCEPT ![i].dirty = FALSE]
      /\ sent' = [row |-> i, page |-> pageElm[i].page, text |-> pageElm[i].text]
      /\ saving' = saving /\ dirty' = dirty /\ pageElmCount' = pageElmCount /\ typed' = typed
  BY DEF SendsRow
<1>2. /\ i \in 0 .. 1 /\ pageElm[i].dirty /\ k \in 1 .. Len(queue) /\ queue \in Seq(0 .. 1)
  BY StillTyped DEF TypeOK, SaveTyped
<1>3. DirtyRows' = DirtyRows \ {i} /\ ToSet(queue') \subseteq ToSet(queue)
  BY QueuedAfter DEF TypeOK
<1>4. i \in ToSet(queue)
  BY <1>2, InSet
<1> HIDE DEF i
<1>5. i < pageElmCount /\ pageElmCount \in 0 .. 2
  BY <1>4 DEF EditsInv, QueueOfRows, TypeOK, RowsTyped
<1>6. i \in DirtyRows
  <2>1. i \in 0 .. pageElmCount - 1
    BY <1>2, <1>5
  <2> QED
    BY <1>2, <2>1 DEF DirtyRows
<1>7. \A j \in DirtyRows : pageElm[j].text = typed[pageElm[j].page][j]
  BY DEF EditsInv, Discarding, DirtyAsTyped
<1>8. \A j \in 0 .. 1 : pageElm'[j].page = pageElm[j].page /\ pageElm'[j].text = pageElm[j].text
  BY <1>1, <1>2 DEF TypeOK, RowsTyped, Rows
<1>9. \A j \in DirtyRows : j \in 0 .. 1
  BY <1>5 DEF DirtyRows
<1>10. SentFromRow'
  BY <1>1, <1>2, <1>5, <1>6, <1>7, <1>8 DEF SentFromRow
<1>11. QueueOfRows'
  <2>1. ToSet(queue)' = ToSet(queue')
    BY DEF ToSet
  <2> QED
    BY <1>1, <1>3, <2>1 DEF EditsInv, QueueOfRows
<1>12. DirtyAsTyped'
  BY <1>1, <1>3, <1>7, <1>8, <1>9 DEF DirtyAsTyped
<1>13. AllInSight'
  <2> SUFFICES ASSUME NEW p \in Pages, NEW j \in 0 .. 1 PROVE InSight(p, j)'
    BY DEF AllInSight
  <2>1. InSight(p, j)
    BY DEF EditsInv, AllInSight
  <2>2. CASE j \in DirtyRows /\ pageElm[j].page = p /\ pageElm[j].text = typed[p][j]
    <3>1. CASE j = i
      <4>1. sent'.page = p /\ sent'.row = j /\ sent'.text = typed'[p][j] /\ sent' \in Patches
        BY <1>1, <1>2, <2>2, <3>1 DEF Patches, TypeOK, RowsTyped, Rows
      <4>2. sent' # None
        BY <4>1, NoneIsNoPatch
      <4> QED
        BY <4>1, <4>2 DEF InSight
    <3>2. CASE j # i
      BY <1>1, <1>3, <1>8, <2>2, <3>2 DEF InSight
    <3> QED
      BY <3>1, <3>2
  <2>3. CASE typed[p][j] = notion[p][j]
    BY <1>1, <2>3, AcknowledgedSafe DEF InSight
  <2>4. CASE sent # None /\ sent.page = p /\ sent.row = j /\ sent.text = typed[p][j]
    BY <1>1, <2>4, AcknowledgedSafe DEF InSight
  <2> QED
    BY <2>1, <2>2, <2>3, <2>4 DEF InSight
<1>14. ReloadLosesNothing'
  BY <1>1, StillAllSaved DEF EditsInv, ReloadLosesNothing
<1> QED
  BY <1>1, <1>10, <1>11, <1>12, <1>13, <1>14 DEF EditsInv

LEMMA SaveFailsSafe ==
    ASSUME TypeOK, EditsInv, SaveFails, UNCHANGED pendingReload, Running',
           at \notin {"top", "reload"}
    PROVE  EditsInv'
<1> DEFINE i == sent.row
<1>1. /\ saving /\ sent # None /\ "fail" \in does /\ (Acknowledged \/ UNCHANGED notion)
      /\ pageElm' = Redirtied /\ queue' = <<>> /\ sent' = None /\ saving' = FALSE
      /\ UNCHANGED <<pageElmCount, typed, does>>
  BY DEF SaveFails, SaveStops, user, bounds
<1>2. /\ i \in 0 .. 1 /\ i < pageElmCount /\ pageElmCount \in 0 .. 2
      /\ pageElm[i].page = sent.page /\ pageElm[i].text = sent.text
      /\ sent.text = typed[sent.page][i]
  BY <1>1 DEF EditsInv, SentFromRow, TypeOK, SaveTyped, Patches, RowsTyped
<1>3. pageElm' = [pageElm EXCEPT ![i].dirty = TRUE]
  BY <1>1, <1>2 DEF Redirtied
<1> HIDE DEF i
<1>4. /\ pageElm'[i].dirty
      /\ \A j \in 0 .. 1 : pageElm'[j].page = pageElm[j].page /\ pageElm'[j].text = pageElm[j].text
      /\ \A j \in 0 .. 1 : j # i => pageElm'[j].dirty = pageElm[j].dirty
  BY <1>2, <1>3 DEF TypeOK, RowsTyped, Rows
<1>5. \A j \in 0 .. pageElmCount - 1 : j \in 0 .. 1
  BY <1>2
<1>6. DirtyRows' = DirtyRows \cup {i}
  <2>1. i \in 0 .. pageElmCount - 1
    BY <1>2
  <2> QED
    BY <1>1, <1>4, <1>5, <2>1 DEF DirtyRows
<1>7. AllInSight'
  <2> SUFFICES ASSUME NEW p \in Pages, NEW j \in 0 .. 1 PROVE InSight(p, j)'
    BY DEF AllInSight
  <2>1. InSight(p, j)
    BY DEF EditsInv, AllInSight
  <2>2. CASE typed[p][j] = notion[p][j]
    BY <1>1, <2>2, AcknowledgedSafe DEF InSight
  <2>3. CASE sent.page = p /\ sent.row = j
    BY <1>1, <1>2, <1>4, <1>6, <2>3 DEF InSight, i
  <2>4. CASE j \in DirtyRows /\ pageElm[j].page = p /\ pageElm[j].text = typed[p][j]
    BY <1>1, <1>4, <1>6, <2>4 DEF InSight
  <2> QED
    BY <2>1, <2>2, <2>3, <2>4 DEF InSight
<1>8. DirtyAsTyped'
  <2>1. \A j \in DirtyRows : pageElm[j].text = typed[pageElm[j].page][j] /\ j \in 0 .. 1
    BY <1>5 DEF EditsInv, Discarding, DirtyAsTyped, DirtyRows
  <2> QED
    BY <1>1, <1>2, <1>4, <1>6, <2>1 DEF DirtyAsTyped, i
<1>9. ReloadLosesNothing'
  BY <1>1, StillAllSaved DEF EditsInv, ReloadLosesNothing
<1>10. SentFromRow' /\ (saving' => ~dirty')
  BY <1>1 DEF SentFromRow
<1>11. QueueOfRows'
  <2>1. ToSet(queue)' = {}
    BY <1>1 DEF ToSet
  <2> QED
    BY <2>1 DEF QueueOfRows
<1> QED
  BY <1>7, <1>8, <1>9, <1>10, <1>11 DEF EditsInv

LEMMA SliceSafe ==
    ASSUME TypeOK, DirtyIsFound, EditsInv, SaveSlice, NothingElse, Running',
           at \notin {"top", "reload"}
    PROVE  EditsInv'
<1>0. UNCHANGED pendingReload
  BY DEF NothingElse
<1>1. CASE SaveGoesOn
  <2>1. /\ saving /\ Acknowledged /\ PatchOrEnd(TRUE)
        /\ UNCHANGED <<dirty, pageElmCount, typed, does>>
    BY <1>1 DEF SaveGoesOn, PatchNext, user, bounds
  <2> QED
    BY <1>0, <2>1, PatchCases, SaveEndsSafe, SendsSafe
<1>2. CASE SaveFails
  BY <1>0, <1>2, SaveFailsSafe
<1> QED
  BY <1>1, <1>2 DEF SaveSlice

LEMMA NextSafe ==
    TypeOK /\ DirtyIsFound /\ EditsInv /\ NothingLoses /\ [Next]_vars => EditsInv'
<1> SUFFICES ASSUME TypeOK, DirtyIsFound, EditsInv, NothingLoses, [Next]_vars
             PROVE  EditsInv'
  OBVIOUS
<1>0. Running
  BY DEF EditsInv
<1>1. CASE FlushCache
  BY <1>1, QuietSafe DEF FlushCache, Discarding, Running, saveVars, user, bounds
<1>2. CASE PendingReload
  BY <1>2, DueSafe
<1>3. CASE NewPageReady
  BY <1>3, NewReadySafe
<1>4. CASE NavSaves \/ Save \/ OpenLibrary
  BY <1>4, SaveStartsSafe
     DEF NavSaves, Save, OpenLibrary, Event, Discarding, Running, flagVars, outside, user, bounds
<1>5. CASE NavGoes
  BY <1>5, NavGoesSafe
<1>6. CASE NavWaits \/ NoAnswer \/ NoEvent \/ PickCancelled
  BY <1>6, QuietSafe
     DEF NavWaits, NoAnswer, NoEvent, PickCancelled, Discarding, Running, stateVars, flagVars,
         outside, user, bounds
<1>7. CASE ThreadSlice \/ SavedFirst
  <2>1. SaveSlice /\ NothingElse
    BY <1>7 DEF ThreadSlice, SavedFirst
  <2>2. UNCHANGED does
    BY <2>1 DEF SaveSlice, SaveGoesOn, SaveFails, SaveStops, user, bounds
  <2> QED
    BY <1>0, <1>7, <2>1, <2>2, SliceSafe DEF ThreadSlice, SavedFirst, Running
<1>8. ASSUME NEW i \in 0 .. 1, Type(i) PROVE EditsInv'
  BY <1>8, TypeSafe
<1>9. CASE Reload
  BY <1>9, DoesNot, ScheduledSafe DEF Reload, Event, outside, bounds
<1>10. ASSUME NEW p \in Pages, OpenRecent(p) \/ Pick(p) PROVE EditsInv'
  BY <1>0, <1>10, DoesNot, ScheduledSafe DEF OpenRecent, Pick, Event, Running, outside, bounds
<1>11. ASSUME NEW p \in Pages, scheduleNavigateTo(p) PROVE EditsInv'
  <2>1. findCachedHeader(p) = None
    BY <1>11, DoesNot DEF scheduleNavigateTo, Event
  <2>2. UNCHANGED rowVars
    BY <1>11, <2>1 DEF scheduleNavigateTo, ShowIfKnown
  <2> QED
    BY <1>11, <2>2, QuietSafe
       DEF scheduleNavigateTo, Event, Discarding, Running, flagVars, outside, user, bounds
<1>12. ASSUME NEW p \in Pages, NewPage(p) PROVE EditsInv'
  BY <1>12, QuietSafe DEF NewPage, Event, Discarding, Running, flagVars, outside, user, bounds
<1>13. CASE (\E d \in {-1, 1} : Press(d)) \/ QuitApp \/ QuitSaved
  BY <1>0, <1>13, DoesNot DEF Press, QuitApp, QuitSaved, Event, Running
<1>14. CASE UNCHANGED vars
  BY <1>0, <1>14, QuietSafe
     DEF vars, stateVars, saveVars, flagVars, outside, user, bounds, Discarding, Running
<1> QED
  BY <1>1, <1>2, <1>3, <1>4, <1>5, <1>6, <1>7, <1>8, <1>9, <1>10, <1>11, <1>12, <1>13, <1>14
     DEF Next

LEMMA InitSafe == Init => EditsInv
<1> SUFFICES ASSUME Init PROVE EditsInv
  OBVIOUS
<1>1. /\ typed = notion /\ sent = None /\ queue = <<>> /\ ~saving /\ ~pendingReload /\ at = "top"
      /\ pageElm = [i \in 0 .. 1 |-> Row(pageID, Original(pageID))] /\ pageElmCount = 2
  BY DEF Init
<1>2. \A i \in 0 .. pageElmCount - 1 : i \in 0 .. 1 /\ ~pageElm[i].dirty
  BY <1>1 DEF Row
<1>3. DirtyAsTyped
  BY <1>2 DEF DirtyAsTyped, DirtyRows
<1>4. ToSet(queue) = {}
  BY <1>1 DEF ToSet
<1> QED
  BY <1>1, <1>3, <1>4
     DEF EditsInv, SentFromRow, QueueOfRows, ReloadLosesNothing, AllInSight, InSight, Running

(* Outside the four situations Session loses text in, what the user typed  *)
(* last in a row is in Notion, on its way there, or where the next save    *)
(* finds it: through saves that fail and are retried, new pages, reloads   *)
(* and what their dialogs answer (save_pipeline.cpp, page_lifecycle.cpp).  *)
THEOREM SessionKeepsEdits == ASSUME NothingLoses PROVE Spec => []EditsKept
<1>1. Init /\ [][Next]_vars => []EditsInv
  <2>1. TypeOK /\ DirtyIsFound /\ EditsInv /\ [Next]_vars => EditsInv'
    BY NextSafe
  <2>2. Spec => []TypeOK /\ []DirtyIsFound
    BY SessionTyped, SessionFindsDirty
  <2> QED
    BY <2>1, <2>2, InitSafe, PTL DEF Spec
<1>2. TypeOK /\ DirtyIsFound /\ EditsInv => EditsKept
  BY InSightIsKept
<1>3. Spec => []TypeOK /\ []DirtyIsFound
  BY SessionTyped, SessionFindsDirty
<1> QED
  BY <1>1, <1>2, <1>3, PTL DEF Spec

-----------------------------------------------------------------------------
(* Whose rows are cached.                                                  *)

(* The sessions in which no page is cached under another's id.  Left out   *)
(* is what Session miscaches by (the README's table): typing during a save,*)
(* previews, pages opened while a save may run, and a link whose second is *)
(* over in the round in which a new page has come.                         *)
NothingMiscached ==
    \A sc \in Scenarios :
        /\ sc \cap {"type ahead", "history", "link", "recent", "library"} = {}
        /\ ~({"first link", "new"} \subseteq sc)

(* The rows are the current page's, unless its reload is due and nothing   *)
(* is to be saved or cached before it.                                     *)
RowsOwn ==
    \/ pageElmCount = 2 /\ \A i \in 0 .. 1 : pageElm[i].page = pageID
    \/ pendingReload /\ ~needsSave /\ ~saving /\ ~dirty
    \/ at = "gone"

DirtyIsReal == dirty => DirtyRows # {} \/ at = "gone"

(* What is to be cached is cached before a link is followed. *)
FlushedFirst == at \in {"reload", "new", "nav"} /\ navPending => ~needsSave \/ saving \/ dirty

OneMove == /\ newPage # None => "new" \in does
           /\ navPending => "first link" \in does
           /\ at # "library"

OwnInv == /\ RowsOwn
          /\ DirtyIsReal
          /\ FlushedFirst
          /\ OneMove
          /\ saving => ~dirty
          /\ CachedUnderOwnPage

LEMMA MovesNot ==
    ASSUME TypeOK, NothingMiscached
    PROVE  /\ does \cap {"type ahead", "history", "link", "recent", "library"} = {}
           /\ ~({"first link", "new"} \subseteq does)
BY DEF TypeOK, UserTyped, NothingMiscached

LEMMA OwnCopyLoaded ==
    ASSUME CachedUnderOwnPage, OutsideTyped, FlagsTyped, NEW p \in Pages, reloadPage(p)
    PROVE  pageElmCount' = 2 /\ \A i \in 0 .. 1 : pageElm'[i].page = p
<1>1. PICK copy \in Seq(Copies) :
         /\ Installed(p, copy)
         /\ \/ copy = Fresh(p)
            \/ copy = disk[p] /\ copy # <<>>
  BY ReloadCases
<1>2. Len(copy) = 2 /\ \A i \in 1 .. 2 : copy[i].page = p
  BY <1>1 DEF CachedUnderOwnPage, Fresh, Row
<1>3. /\ pageElm' = [i \in 0 .. 1 |-> IF i < Len(copy) THEN copy[i + 1] ELSE pageElm[i]]
      /\ pageElmCount' = Len(copy)
  BY <1>1 DEF Installed
<1>4. \A i \in 0 .. 1 : i < Len(copy) /\ i + 1 \in 1 .. 2
  BY <1>2
<1> QED
  BY <1>2, <1>3, <1>4

(* The copy made from own rows. *)
LEMMA OwnCopyMade ==
    ASSUME RowsTyped, pageElmCount = 2, \A i \in 0 .. 1 : pageElm[i].page = pageID
    PROVE  Len(Shown) = 2 /\ \A i \in 1 .. 2 : Shown[i].page = pageID
<1>1. Len(Shown) = 2 /\ \A i \in 1 .. 2 : Shown[i] = Row(pageElm[i - 1].page, pageElm[i - 1].text)
  BY ShownCopy
<1>2. \A i \in 1 .. 2 : i - 1 \in 0 .. 1
  OBVIOUS
<1> QED
  BY <1>1, <1>2 DEF Row

LEMMA OwnKept ==
    ASSUME OwnInv, at # "gone", OneMove', FlushedFirst', pendingReload => pendingReload',
           UNCHANGED <<rowVars, dirty, saving, pageID, needsSave, disk>>
    PROVE  OwnInv'
<1>1. /\ pageElm' = pageElm /\ pageElmCount' = pageElmCount /\ dirty' = dirty
      /\ saving' = saving /\ pageID' = pageID /\ needsSave' = needsSave /\ disk' = disk
  BY DEF rowVars
<1>2. RowsOwn'
  BY <1>1 DEF OwnInv, RowsOwn
<1>3. DirtyIsReal'
  BY <1>1 DEF OwnInv, DirtyIsReal, DirtyRows
<1>4. (saving' => ~dirty') /\ CachedUnderOwnPage'
  BY <1>1 DEF OwnInv, CachedUnderOwnPage
<1> QED
  BY <1>2, <1>3, <1>4 DEF OwnInv

(* A save starts; if there was something to save, it runs. *)
LEMMA OwnSaveStarts ==
    ASSUME OwnInv, TypeOK, at # "gone", doSave, OneMove', pendingReload => pendingReload',
           UNCHANGED <<rowVars, pageID, needsSave, disk>>,
           at' \in {"reload", "new", "nav"} /\ navPending' => ~needsSave \/ saving \/ dirty
    PROVE  OwnInv'
<1>1. CASE UNCHANGED saveVars
  <2>1. UNCHANGED <<dirty, saving>>
    BY <1>1 DEF saveVars
  <2>2. FlushedFirst'
    BY <2>1 DEF FlushedFirst
  <2> QED
    BY <2>1, <2>2, OwnKept
<1>2. CASE ~saving /\ dirty
  <2>1. dirty' = FALSE /\ saving' = (DirtyRows # {})
    BY <1>2 DEF doSave
  <2>2. saving' = TRUE
    BY <1>2, <2>1 DEF OwnInv, DirtyIsReal
  <2>3. /\ pageElm' = pageElm /\ pageElmCount' = pageElmCount
        /\ pageID' = pageID /\ needsSave' = needsSave /\ disk' = disk
    BY DEF rowVars
  <2>4. RowsOwn'
    BY <1>2, <2>3 DEF OwnInv, RowsOwn
  <2>5. DirtyIsReal' /\ FlushedFirst' /\ (saving' => ~dirty')
    BY <2>1, <2>2 DEF DirtyIsReal, FlushedFirst
  <2>6. CachedUnderOwnPage'
    BY <2>3 DEF OwnInv, CachedUnderOwnPage
  <2> QED
    BY <2>4, <2>5, <2>6 DEF OwnInv
<1> QED
  BY <1>1, <1>2 DEF doSave

LEMMA OwnLoaded ==
    ASSUME OwnInv, TypeOK, NEW p \in Pages, reloadPage(p), pageID' = p, UNCHANGED disk,
           OneMove', ~navPending'
    PROVE  OwnInv'
<1>1. pageElmCount' = 2 /\ \A i \in 0 .. 1 : pageElm'[i].page = pageID'
  BY OwnCopyLoaded DEF OwnInv, TypeOK
<1>2. dirty' = FALSE /\ saving' = FALSE
  BY DEF reloadPage, Installed
<1> QED
  BY <1>1, <1>2 DEF OwnInv, RowsOwn, DirtyIsReal, FlushedFirst, CachedUnderOwnPage

LEMMA OwnFlush ==
    ASSUME OwnInv, TypeOK, FlushCache
    PROVE  OwnInv'
<1>0. /\ at = "top" /\ at' = "reload"
      /\ pageElm' = pageElm /\ pageElmCount' = pageElmCount /\ dirty' = dirty
      /\ saving' = saving /\ pageID' = pageID /\ pendingReload' = pendingReload
      /\ does' = does /\ newPage' = newPage /\ navPending' = navPending
  BY DEF FlushCache, rowVars, saveVars, navVars, user, bounds
<1>1. OneMove' /\ DirtyIsReal' /\ (saving' => ~dirty')
  BY <1>0 DEF OwnInv, OneMove, DirtyIsReal, DirtyRows
<1>2. CASE needsSave /\ ~saving /\ ~dirty
  <2>1. needsSave' = FALSE /\ disk' = [disk EXCEPT ![pageID] = Shown]
    BY <1>2 DEF FlushCache
  <2>2. pageElmCount = 2 /\ \A i \in 0 .. 1 : pageElm[i].page = pageID
    BY <1>0, <1>2 DEF OwnInv, RowsOwn
  <2>3. Len(Shown) = 2 /\ \A i \in 1 .. 2 : Shown[i].page = pageID
    BY <2>2, OwnCopyMade DEF TypeOK
  <2>4. /\ disk'[pageID] = Shown
        /\ \A p \in Pages : p # pageID => disk'[p] = disk[p]
    BY <2>1 DEF TypeOK, OutsideTyped
  <2>5. CachedUnderOwnPage'
    BY <2>3, <2>4 DEF OwnInv, CachedUnderOwnPage
  <2> QED
    BY <1>0, <1>1, <2>1, <2>2, <2>5 DEF OwnInv, RowsOwn, FlushedFirst
<1>3. CASE ~(needsSave /\ ~saving /\ ~dirty)
  <2>1. needsSave' = needsSave /\ disk' = disk
    BY <1>3 DEF FlushCache
  <2>2. FlushedFirst'
    BY <1>0, <1>3, <2>1 DEF FlushedFirst
  <2> QED
    BY <1>0, <1>1, <2>1, <2>2, OwnKept DEF rowVars
<1> QED
  BY <1>2, <1>3

LEMMA OwnDue ==
    ASSUME OwnInv, TypeOK, PendingReload
    PROVE  OwnInv'
<1>0. /\ at = "reload" /\ at' = "new" /\ pageID' = pageID /\ pageID \in Pages /\ disk' = disk
      /\ does' = does
  BY DEF PendingReload, DueReload, outside, user, bounds, TypeOK
<1>1. CASE pendingReload /\ ~saving
  <2>1. navPending' = FALSE /\ newPage' = newPage /\ reloadPage(pageID)
    BY <1>1 DEF PendingReload, DueReload
  <2>2. OneMove'
    BY <1>0, <2>1 DEF OwnInv, OneMove
  <2> QED
    BY <1>0, <2>1, <2>2, OwnLoaded
<1>2. CASE ~(pendingReload /\ ~saving)
  <2>1. UNCHANGED <<flagVars, rowVars, saveVars, navVars>>
    BY <1>2 DEF PendingReload, DueReload
  <2>2. OneMove' /\ FlushedFirst'
    BY <1>0, <2>1 DEF OwnInv, OneMove, FlushedFirst, flagVars, saveVars, navVars
  <2> QED
    BY <1>0, <2>1, <2>2, OwnKept DEF flagVars, saveVars
<1> QED
  BY <1>1, <1>2

LEMMA OwnNewReady ==
    ASSUME OwnInv, TypeOK, NothingMiscached, NewPageReady
    PROVE  OwnInv'
<1>0. /\ at = "new" /\ at' = "nav" /\ disk' = disk /\ does' = does
      /\ navPending' = navPending /\ pendingReload' = pendingReload
  BY DEF NewPageReady, outside, user, bounds
<1>1. CASE newPage = None \/ saving
  <2>1. UNCHANGED <<pageID, rowVars, saveVars, needsSave, newPage>>
    BY <1>1 DEF NewPageReady
  <2>2. OneMove' /\ FlushedFirst'
    BY <1>0, <2>1 DEF OwnInv, OneMove, FlushedFirst, saveVars
  <2> QED
    BY <1>0, <2>1, <2>2, OwnKept DEF saveVars
<1>2. CASE newPage # None /\ ~saving /\ dirty
  <2>1. doSave /\ UNCHANGED <<pageID, rowVars, needsSave, newPage>>
    BY <1>2 DEF NewPageReady
  <2>2. OneMove'
    BY <1>0, <2>1 DEF OwnInv, OneMove
  <2> QED
    BY <1>0, <1>2, <2>1, <2>2, OwnSaveStarts
<1>3. CASE newPage # None /\ ~saving /\ ~dirty
  <2>1. reloadPage(newPage) /\ newPage \in Pages /\ pageID' = newPage /\ newPage' = None
    BY <1>3 DEF NewPageReady, TypeOK, NavTyped
  <2>2. ~navPending
    BY <1>3, MovesNot DEF OwnInv, OneMove
  <2>3. OneMove'
    BY <1>0, <2>1, <2>2 DEF OneMove
  <2> QED
    BY <1>0, <2>1, <2>2, <2>3, OwnLoaded
<1> QED
  BY <1>1, <1>2, <1>3

LEMMA OwnNavGoes ==
    ASSUME OwnInv, NavGoes
    PROVE  OwnInv'
<1>1. /\ at = "nav" /\ at' = "thread" /\ navPending /\ ~saving /\ ~(dirty /\ DirtyRows # {})
      /\ navPending' = FALSE /\ dirty' = FALSE /\ saving' = saving /\ needsSave' = needsSave
      /\ pageElm' = pageElm /\ pageElmCount' = pageElmCount /\ newPage' = newPage
      /\ disk' = disk /\ does' = does
  BY DEF NavGoes, rowVars, outside, user, bounds
<1>2. pendingReload' = TRUE \/ UNCHANGED <<pageID, pendingReload>>
  BY DEF NavGoes
<1>3. ~dirty /\ ~needsSave
  BY <1>1 DEF OwnInv, DirtyIsReal, FlushedFirst
<1>4. RowsOwn'
  BY <1>1, <1>2, <1>3 DEF OwnInv, RowsOwn
<1>5. OneMove' /\ DirtyIsReal' /\ FlushedFirst' /\ CachedUnderOwnPage'
  BY <1>1 DEF OwnInv, OneMove, DirtyIsReal, FlushedFirst, CachedUnderOwnPage
<1> QED
  BY <1>1, <1>4, <1>5 DEF OwnInv

LEMMA OwnType ==
    ASSUME OwnInv, TypeOK, NothingMiscached, NEW i \in 0 .. 1, Type(i)
    PROVE  OwnInv'
<1> DEFINE t == [pageElm[i].text EXCEPT !.n = edits']
<1>1. /\ at = "events" /\ at' = "top" /\ i < pageElmCount /\ ~saving /\ ~pendingReload
      /\ pageElm' = [pageElm EXCEPT ![i].text = t, ![i].dirty = TRUE] /\ dirty' = TRUE
      /\ pageElmCount' = pageElmCount /\ saving' = saving /\ pageID' = pageID
      /\ newPage' = newPage /\ navPending' = navPending /\ disk' = disk /\ does' = does
  BY MovesNot DEF Type, Event, navVars, outside
<1> HIDE DEF t
<1>2. pageElm \in [0 .. 1 -> Rows] /\ pageElmCount \in 0 .. 2
  BY DEF TypeOK, RowsTyped
<1>3. /\ \A j \in 0 .. 1 : pageElm'[j].page = pageElm[j].page
      /\ pageElm'[i].dirty
  BY <1>1, <1>2 DEF Rows
<1>4. RowsOwn'
  BY <1>1, <1>3 DEF OwnInv, RowsOwn
<1>5. DirtyIsReal'
  <2>1. i \in 0 .. pageElmCount - 1
    BY <1>1, <1>2
  <2> QED
    BY <1>1, <1>3, <2>1 DEF DirtyIsReal, DirtyRows
<1>6. OneMove' /\ FlushedFirst' /\ CachedUnderOwnPage'
  BY <1>1 DEF OwnInv, OneMove, FlushedFirst, CachedUnderOwnPage
<1> QED
  BY <1>1, <1>4, <1>5, <1>6 DEF OwnInv

LEMMA OwnSlice ==
    ASSUME OwnInv, TypeOK, SaveSlice, NothingElse, at \in {"thread", "quitting"},
           at' \in {"events", "quitting"}
    PROVE  OwnInv'
<1>1. /\ saving /\ pageElmCount' = pageElmCount /\ pageID' = pageID
      /\ newPage' = newPage /\ navPending' = navPending /\ disk' = disk /\ does' = does
  BY DEF SaveSlice, SaveGoesOn, SaveFails, SaveStops, NothingElse, navVars, user, bounds
<1>2. pageElmCount = 2 /\ (\A i \in 0 .. 1 : pageElm[i].page = pageID) /\ ~dirty
  BY <1>1 DEF OwnInv, RowsOwn
<1>3. OneMove' /\ FlushedFirst' /\ CachedUnderOwnPage'
  BY <1>1 DEF OwnInv, OneMove, FlushedFirst, CachedUnderOwnPage
<1>4. CASE SaveGoesOn
  <2>1. dirty' = dirty /\ PatchOrEnd(TRUE)
    BY <1>4 DEF SaveGoesOn, PatchNext
  <2>2. \A i \in 0 .. 1 : pageElm'[i].page = pageElm[i].page
    <3>1. CASE \E flag : Ends(flag)
      BY <3>1 DEF Ends
    <3>2. ASSUME NEW k, Still # {}, k = Min(Still), SendsRow(k, queue[k])
          PROVE  \A i \in 0 .. 1 : pageElm'[i].page = pageElm[i].page
      <4>1. queue[k] \in 0 .. 1
        BY <3>2, StillTyped DEF TypeOK
      <4> QED
        BY <3>2, <4>1 DEF SendsRow, TypeOK, RowsTyped, Rows
    <3> QED
      BY <2>1, <3>1, <3>2, PatchCases
  <2> QED
    BY <1>1, <1>2, <1>3, <2>1, <2>2 DEF OwnInv, RowsOwn, DirtyIsReal
<1>5. CASE SaveFails
  <2>1. sent # None /\ pageElm' = Redirtied /\ saving' = FALSE
    BY <1>5 DEF SaveFails, SaveStops
  <2>2. sent.row \in 0 .. 1
    BY <2>1 DEF TypeOK, SaveTyped, Patches
  <2>3. pageElm' = [pageElm EXCEPT ![sent.row].dirty = TRUE]
    BY <1>2, <2>1, <2>2 DEF Redirtied
  <2>4. (\A i \in 0 .. 1 : pageElm'[i].page = pageElm[i].page) /\ pageElm'[sent.row].dirty
    BY <2>2, <2>3 DEF TypeOK, RowsTyped, Rows
  <2>5. DirtyRows' # {}
    <3>1. sent.row \in 0 .. pageElmCount' - 1
      BY <1>1, <1>2, <2>2
    <3> QED
      BY <2>4, <3>1 DEF DirtyRows
  <2> QED
    BY <1>1, <1>2, <1>3, <2>1, <2>4, <2>5 DEF OwnInv, RowsOwn, DirtyIsReal
<1> QED
  BY <1>4, <1>5 DEF SaveSlice

LEMMA OwnReload ==
    ASSUME OwnInv, TypeOK, Reload
    PROVE  OwnInv'
<1>1. /\ at = "events" /\ at' = "top" /\ scheduleReload(TRUE)
      /\ UNCHANGED <<pageID, rowVars, needsSave, newPage, navPending, disk, does>>
  BY DEF Reload, Event, navVars, outside, bounds
<1>2. OneMove'
  BY <1>1 DEF OwnInv, OneMove
<1>3. pendingReload => pendingReload'
  BY <1>1 DEF scheduleReload, ReloadUnasked
<1>4. CASE doSave
  BY <1>1, <1>2, <1>3, <1>4, OwnSaveStarts
<1>5. CASE UNCHANGED saveVars
  <2>1. FlushedFirst'
    BY <1>1 DEF FlushedFirst
  <2> QED
    BY <1>1, <1>2, <1>3, <1>5, <2>1, OwnKept DEF saveVars
<1> QED
  BY <1>1, <1>4, <1>5 DEF scheduleReload, ReloadUnasked

LEMMA OwnGone ==
    ASSUME OwnInv, Gone
    PROVE  OwnInv'
<1>1. /\ at' = "gone" /\ saving' = FALSE /\ disk' = disk /\ does' = does
      /\ newPage' = newPage /\ navPending' = navPending
  BY DEF Gone, navVars, outside, bounds
<1> QED
  BY <1>1 DEF OwnInv, RowsOwn, DirtyIsReal, FlushedFirst, OneMove, CachedUnderOwnPage

LEMMA NextOwn == OwnInv /\ TypeOK /\ NothingMiscached /\ [Next]_vars => OwnInv'
<1> SUFFICES ASSUME OwnInv, TypeOK, NothingMiscached, [Next]_vars PROVE OwnInv'
  OBVIOUS
<1>0. OneMove
  BY DEF OwnInv
<1>1. CASE FlushCache \/ PendingReload \/ NewPageReady \/ NavGoes \/ Reload
  BY <1>1, OwnFlush, OwnDue, OwnNewReady, OwnNavGoes, OwnReload
<1>2. CASE NavSaves \/ Save
  <2>1. /\ doSave /\ at # "gone" /\ at' \in {"thread", "top"}
        /\ UNCHANGED <<rowVars, pageID, needsSave, disk, pendingReload, navVars, does>>
    BY <1>2 DEF NavSaves, Save, Event, flagVars, outside, user, bounds
  <2>2. OneMove'
    BY <1>0, <2>1 DEF OneMove, navVars
  <2> QED
    BY <2>1, <2>2, OwnSaveStarts
<1>3. CASE NavWaits \/ NoAnswer \/ NoEvent \/ PickCancelled
  <2>1. /\ at # "gone" /\ at' \in {"thread", "events", "top"} /\ UNCHANGED stateVars
    BY <1>3 DEF NavWaits, NoAnswer, NoEvent, PickCancelled
  <2>2. OneMove' /\ FlushedFirst'
    BY <1>0, <2>1 DEF OneMove, FlushedFirst, stateVars, navVars, user, bounds
  <2> QED
    BY <2>1, <2>2, OwnKept DEF stateVars, saveVars, flagVars, outside
<1>4. CASE ThreadSlice \/ SavedFirst
  BY <1>0, <1>4, OwnSlice DEF ThreadSlice, SavedFirst, OneMove
<1>5. ASSUME NEW i \in 0 .. 1, Type(i) PROVE OwnInv'
  BY <1>5, OwnType
<1>6. ASSUME NEW p \in Pages, scheduleNavigateTo(p) PROVE OwnInv'
  <2>1. findCachedHeader(p) = None /\ "first link" \in does
    BY <1>6, MovesNot DEF scheduleNavigateTo, Event
  <2>2. UNCHANGED rowVars
    BY <1>6, <2>1 DEF scheduleNavigateTo, ShowIfKnown
  <2>3. /\ at = "events" /\ at' = "top" /\ navPending' = TRUE
        /\ UNCHANGED <<pageID, saveVars, flagVars, newPage, outside, user>>
    BY <1>6 DEF scheduleNavigateTo, Event
  <2>4. OneMove' /\ FlushedFirst'
    BY <1>0, <2>1, <2>3 DEF OneMove, FlushedFirst, user, bounds
  <2> QED
    BY <2>2, <2>3, <2>4, OwnKept DEF saveVars, flagVars, outside
<1>7. ASSUME NEW p \in Pages, NewPage(p) PROVE OwnInv'
  <2>1. /\ at = "events" /\ at' = "top" /\ "new" \in does
        /\ UNCHANGED <<pageID, rowVars, saveVars, flagVars, navPending, outside, user>>
    BY <1>7 DEF NewPage, Event
  <2>2. OneMove' /\ FlushedFirst'
    BY <1>0, <2>1 DEF OneMove, FlushedFirst, user, bounds
  <2> QED
    BY <2>1, <2>2, OwnKept DEF saveVars, flagVars, outside
<1>8. CASE QuitApp \/ QuitSaved
  <2>1. CASE Gone
    BY <2>1, OwnGone
  <2>2. CASE /\ at \in {"events", "quitting"} /\ at' \in {"quitting", "top"}
             /\ UNCHANGED <<pageID, rowVars, flagVars, navVars, outside, does>>
             /\ doSave \/ UNCHANGED saveVars
    <3>1. OneMove' /\ FlushedFirst'
      BY <1>0, <2>2 DEF OneMove, FlushedFirst, navVars
    <3>2. UNCHANGED saveVars => UNCHANGED <<dirty, saving>>
      BY DEF saveVars
    <3>3. UNCHANGED <<needsSave, disk, pendingReload>>
      BY <2>2 DEF flagVars, outside
    <3> QED
      BY <2>2, <3>1, <3>2, <3>3, OwnSaveStarts, OwnKept
  <2> QED
    BY <1>8, <2>1, <2>2 DEF QuitApp, QuitSaved, user, bounds
<1>9. CASE (\E d \in {-1, 1} : Press(d)) \/ OpenLibrary \/ \E p \in Pages : OpenRecent(p) \/ Pick(p)
  BY <1>0, <1>9, MovesNot DEF Press, OpenLibrary, OpenRecent, Pick, Event, OneMove
<1>10. CASE UNCHANGED vars
  <2>1. UNCHANGED <<at, rowVars, dirty, saving, pageID, needsSave, disk, pendingReload, newPage,
                    navPending, does>>
    BY <1>10 DEF vars, stateVars, saveVars, flagVars, navVars, outside, user, bounds
  <2>2. /\ pageElm' = pageElm /\ pageElmCount' = pageElmCount /\ at' = at /\ dirty' = dirty
        /\ saving' = saving /\ pageID' = pageID /\ needsSave' = needsSave /\ disk' = disk
        /\ pendingReload' = pendingReload /\ newPage' = newPage /\ navPending' = navPending
        /\ does' = does
    BY <2>1 DEF rowVars
  <2> QED
    BY <2>2 DEF OwnInv, RowsOwn, DirtyIsReal, DirtyRows, FlushedFirst, OneMove, CachedUnderOwnPage
<1> QED
  BY <1>1, <1>2, <1>3, <1>4, <1>5, <1>6, <1>7, <1>8, <1>9, <1>10 DEF Next

LEMMA InitOwn == Init => OwnInv
<1> SUFFICES ASSUME Init PROVE OwnInv
  OBVIOUS
<1>1. /\ at = "top" /\ newPage = None /\ navPending = FALSE /\ dirty = FALSE /\ saving = FALSE
      /\ pageElm = [i \in 0 .. 1 |-> Row(pageID, Original(pageID))] /\ pageElmCount = 2
  BY DEF Init
<1>2. \A p \in Pages : disk[p] \in {Fresh(p), <<>>}
  BY DEF Init
<1>3. \A p \in Pages : Len(Fresh(p)) = 2 /\ \A i \in 1 .. 2 : Fresh(p)[i].page = p
  BY DEF Fresh, Row
<1>4. CachedUnderOwnPage
  BY <1>2, <1>3 DEF CachedUnderOwnPage
<1>5. RowsOwn
  BY <1>1 DEF RowsOwn, Row
<1> QED
  BY <1>1, <1>4, <1>5 DEF OwnInv, DirtyIsReal, FlushedFirst, OneMove

(* Outside the sessions NothingMiscached leaves out, a page's slot in the  *)
(* cache holds that page, title and body, although it is written a round   *)
(* after the save, under the id of whatever page is open then (main.cpp).  *)
THEOREM SessionCachesOwn == ASSUME NothingMiscached PROVE Spec => []CachedUnderOwnPage
<1>1. TypeOK /\ OwnInv /\ [Next]_vars => OwnInv'
  BY NextOwn
<1>2. OwnInv => CachedUnderOwnPage
  BY DEF OwnInv
<1> QED
  BY <1>1, <1>2, InitOwn, SessionTyped, PTL DEF Spec

-----------------------------------------------------------------------------
(* The cached copy of a page that was left.                                *)

(* The copy of p has the texts Notion has. *)
SlotMatches(p) ==
    disk[p] # <<>> => \A i \in 1 .. Len(disk[p]) : disk[p][i].text = notion[p][i - 1]

LeftMatch == \A p \in Pages \ {pageID} : SlotMatches(p)

(* The open page's copy is behind only while another is to come. *)
OpenMatches == SlotMatches(pageID) \/ needsSave \/ saving \/ dirty

MatchesBeforeNew ==
    at \in {"reload", "new"} /\ newPage # None /\ ~saving /\ ~dirty => SlotMatches(pageID)

(* What is cached from a reload that asks nothing is not behind either. *)
DueMatches == pendingReload /\ ~bypass => SlotMatches(pageID) /\ ~saving /\ ~dirty

RowsAsInNotion ==
    \A i \in 0 .. pageElmCount - 1 :
        \/ pageElm[i].dirty
        \/ sent # None /\ sent.row = i
        \/ pageElm[i].text = notion[pageElm[i].page][i]

(* While a new page waits its turn, what is typed is saved before a reload *)
(* can discard it.                                                         *)
NewPageSaves == newPage # None /\ "reload" \in does /\ at \in {"nav", "thread", "events"} => ~dirty

NewBeforeDiscard == pendingReload /\ ~saving /\ dirty => newPage = None

DiscardSoon == pendingReload /\ dirty => at \in {"top", "reload"} /\ ~saving

BypassReloads == bypass => "reload" \in does

CopiesInv == /\ LeftMatch /\ OpenMatches /\ MatchesBeforeNew /\ DueMatches /\ RowsAsInNotion
             /\ NewPageSaves /\ NewBeforeDiscard /\ DiscardSoon /\ BypassReloads

SessionInv == TypeOK /\ DirtyIsFound /\ EditsInv /\ OwnInv

(* Steps that leave the rows, Notion and the copies alone. *)
LEMMA CopiesKept ==
    ASSUME CopiesInv, UNCHANGED <<disk, notion, rowVars, sent, pageID>>,
           OpenMatches', MatchesBeforeNew', DueMatches', NewPageSaves', NewBeforeDiscard',
           DiscardSoon', BypassReloads'
    PROVE  CopiesInv'
<1>1. /\ disk' = disk /\ notion' = notion /\ pageElm' = pageElm /\ pageElmCount' = pageElmCount
      /\ sent' = sent /\ pageID' = pageID
  BY DEF rowVars
<1>2. LeftMatch' /\ RowsAsInNotion'
  BY <1>1 DEF CopiesInv, LeftMatch, SlotMatches, RowsAsInNotion
<1> QED
  BY <1>2 DEF CopiesInv

(* The flags as well, only the loop goes on. *)
LEMMA CopiesWait ==
    ASSUME CopiesInv, UNCHANGED <<rowVars, saveVars, flagVars, pageID, newPage, does, disk, notion>>,
           MatchesBeforeNew', NewPageSaves', DiscardSoon'
    PROVE  CopiesInv'
<1>1. /\ disk' = disk /\ notion' = notion /\ dirty' = dirty /\ saving' = saving
      /\ needsSave' = needsSave /\ bypass' = bypass /\ pendingReload' = pendingReload
      /\ newPage' = newPage /\ does' = does /\ pageID' = pageID /\ sent' = sent
  BY DEF saveVars, flagVars
<1>2. SlotMatches(pageID)' = SlotMatches(pageID)
  BY <1>1 DEF SlotMatches
<1>3. OpenMatches' /\ DueMatches' /\ NewBeforeDiscard' /\ BypassReloads'
  BY <1>1, <1>2 DEF CopiesInv, OpenMatches, DueMatches, NewBeforeDiscard, BypassReloads
<1> QED
  BY <1>1, <1>3, CopiesKept

(* A save starts while something is to be saved. *)
LEMMA CopiesSaveStarts ==
    ASSUME SessionInv, CopiesInv, doSave, dirty, ~saving, at \notin {"top", "reload", "gone"},
           UNCHANGED <<rowVars, pageID, disk, notion, does, newPage>>,
           UNCHANGED <<pendingReload, bypass>> \/ (pendingReload' /\ bypass' /\ "reload" \in does)
    PROVE  CopiesInv'
<1>1. dirty' = FALSE /\ saving' = (DirtyRows # {}) /\ sent' = None
  BY DEF doSave
<1>2. saving' = TRUE /\ sent = None
  BY <1>1, NoSave DEF SessionInv, OwnInv, DirtyIsReal
<1>3. ~pendingReload
  BY DEF CopiesInv, DiscardSoon
<1>4. OpenMatches' /\ MatchesBeforeNew' /\ NewPageSaves' /\ NewBeforeDiscard' /\ DiscardSoon'
  BY <1>1, <1>2 DEF OpenMatches, MatchesBeforeNew, NewPageSaves, NewBeforeDiscard, DiscardSoon
<1>5. DueMatches' /\ BypassReloads'
  BY <1>3 DEF CopiesInv, DueMatches, BypassReloads
<1> QED
  BY <1>1, <1>2, <1>4, <1>5, CopiesKept

(* A page is loaded from a copy that is not behind, or from Notion. *)
LEMMA CopiesLoaded ==
    ASSUME SessionInv, NEW p \in Pages, reloadPage(p), pageID' = p, UNCHANGED <<disk, notion>>,
           \A q \in Pages \ {p} : SlotMatches(q), bypass \/ SlotMatches(p),
           SlotMatches(p) \/ (newPage' = None /\ ~pendingReload')
    PROVE  CopiesInv'
<1>1. TypeOK /\ CachedUnderOwnPage
  BY DEF SessionInv, OwnInv
<1>2. PICK copy \in Seq(Copies) :
         /\ Len(copy) \in 1 .. 2 /\ Installed(p, copy)
         /\ \/ ~bypass /\ copy = disk[p] /\ copy # <<>> /\ needsSave' = needsSave
            \/ copy = Fresh(p) /\ needsSave' = TRUE
  BY <1>1, ReloadCases DEF TypeOK
<1>3. /\ pageElm' = [i \in 0 .. 1 |-> IF i < Len(copy) THEN copy[i + 1] ELSE pageElm[i]]
      /\ dirty' = FALSE /\ saving' = FALSE /\ sent' = None /\ bypass' = FALSE
  BY <1>2 DEF Installed
<1>4. pageElmCount' = 2 /\ \A i \in 0 .. 1 : pageElm'[i].page = p
  BY <1>1, OwnCopyLoaded DEF TypeOK
<1>5. Len(copy) = 2
  BY <1>2, <1>4 DEF Installed
<1>6. \A i \in 1 .. 2 : copy[i].text = notion[p][i - 1]
  <2>1. CASE copy = Fresh(p)
    BY <2>1 DEF Fresh, Row
  <2>2. CASE ~bypass /\ copy = disk[p] /\ copy # <<>>
    BY <1>5, <2>2 DEF SlotMatches
  <2> QED
    BY <1>2, <2>1, <2>2
<1>7. \A i \in 0 .. 1 : i < 2 /\ i + 1 \in 1 .. 2 /\ (i + 1) - 1 = i
  OBVIOUS
<1>8. \A i \in 0 .. 1 : pageElm'[i].text = notion[p][i]
  BY <1>3, <1>5, <1>6, <1>7
<1>9. RowsAsInNotion'
  BY <1>4, <1>8 DEF RowsAsInNotion
<1>10. \A q \in Pages : SlotMatches(q)' = SlotMatches(q)
  BY DEF SlotMatches
<1>11. LeftMatch'
  BY <1>10 DEF LeftMatch
<1>12. SlotMatches(pageID)' = SlotMatches(p)
  BY DEF SlotMatches
<1>13. OpenMatches' /\ MatchesBeforeNew' /\ DueMatches'
  <2>1. bypass => needsSave' = TRUE
    BY <1>2
  <2> QED
    BY <1>3, <1>12, <2>1 DEF OpenMatches, MatchesBeforeNew, DueMatches
<1>14. NewPageSaves' /\ NewBeforeDiscard' /\ DiscardSoon' /\ BypassReloads'
  BY <1>3 DEF NewPageSaves, NewBeforeDiscard, DiscardSoon, BypassReloads
<1> QED
  BY <1>9, <1>11, <1>13, <1>14 DEF CopiesInv

LEMMA CopiesFlush ==
    ASSUME SessionInv, CopiesInv, FlushCache
    PROVE  CopiesInv'
<1>0. /\ at = "top" /\ at' = "reload"
      /\ UNCHANGED <<rowVars, saveVars, pageID, pendingReload, bypass, notion, does, newPage>>
  BY DEF FlushCache, navVars, user, bounds
<1>1. /\ pageElm' = pageElm /\ pageElmCount' = pageElmCount /\ dirty' = dirty /\ saving' = saving
      /\ sent' = sent
  BY <1>0 DEF rowVars, saveVars
<1>2. NewPageSaves' /\ NewBeforeDiscard' /\ DiscardSoon' /\ BypassReloads' /\ RowsAsInNotion'
  BY <1>0, <1>1
     DEF CopiesInv, NewPageSaves, NewBeforeDiscard, DiscardSoon, BypassReloads, RowsAsInNotion
<1>3. CASE needsSave /\ ~saving /\ ~dirty
  <2>1. disk' = [disk EXCEPT ![pageID] = Shown]
    BY <1>3 DEF FlushCache
  <2>2. /\ disk'[pageID] = Shown
        /\ \A p \in Pages : p # pageID => disk'[p] = disk[p]
    BY <2>1 DEF SessionInv, TypeOK, OutsideTyped
  <2>3. LeftMatch'
    BY <1>0, <2>2 DEF CopiesInv, LeftMatch, SlotMatches
  <2>4. pageElmCount = 2 /\ \A i \in 0 .. 1 : pageElm[i].page = pageID
    BY <1>0, <1>3 DEF SessionInv, OwnInv, RowsOwn
  <2>5. DirtyRows = {} /\ sent = None
    BY <1>3, IdleSaved, NoSave DEF SessionInv
  <2>6. \A i \in 0 .. 1 : pageElm[i].text = notion[pageID][i]
    BY <2>4, <2>5 DEF CopiesInv, RowsAsInNotion, DirtyRows
  <2>7. Len(Shown) = 2 /\ \A i \in 1 .. 2 : Shown[i] = Row(pageElm[i - 1].page, pageElm[i - 1].text)
    BY <2>4, ShownCopy DEF SessionInv, TypeOK
  <2>8. \A i \in 1 .. 2 : i - 1 \in 0 .. 1
    OBVIOUS
  <2>9. SlotMatches(pageID)'
    BY <1>0, <2>2, <2>6, <2>7, <2>8 DEF SlotMatches, Row
  <2>10. DueMatches'
    BY <1>1, <1>3, <2>9 DEF DueMatches
  <2> QED
    BY <1>2, <2>3, <2>9, <2>10 DEF CopiesInv, OpenMatches, MatchesBeforeNew
<1>4. CASE ~(needsSave /\ ~saving /\ ~dirty)
  <2>1. needsSave' = needsSave /\ disk' = disk
    BY <1>4 DEF FlushCache
  <2>2. SlotMatches(pageID)' = SlotMatches(pageID)
    BY <1>0, <2>1 DEF SlotMatches
  <2>3. OpenMatches' /\ MatchesBeforeNew' /\ DueMatches'
    BY <1>0, <1>1, <1>4, <2>1, <2>2 DEF CopiesInv, OpenMatches, MatchesBeforeNew, DueMatches
  <2> QED
    BY <1>0, <1>1, <1>2, <2>1, <2>3, CopiesKept
<1> QED
  BY <1>3, <1>4

LEMMA CopiesDue ==
    ASSUME SessionInv, CopiesInv, PendingReload
    PROVE  CopiesInv'
<1>0. /\ at = "reload" /\ at' = "new" /\ pageID' = pageID /\ pageID \in Pages
      /\ UNCHANGED <<disk, notion, does>>
  BY DEF PendingReload, DueReload, outside, user, bounds, SessionInv, TypeOK
<1>1. CASE pendingReload /\ ~saving
  <2>1. pendingReload' = FALSE /\ newPage' = newPage /\ reloadPage(pageID)
    BY <1>1 DEF PendingReload, DueReload
  <2>2. bypass \/ SlotMatches(pageID)
    BY <1>1 DEF CopiesInv, DueMatches
  <2>3. SlotMatches(pageID) \/ newPage = None
    BY <1>0, <1>1 DEF CopiesInv, MatchesBeforeNew, NewBeforeDiscard
  <2>4. \A q \in Pages \ {pageID} : SlotMatches(q)
    BY DEF CopiesInv, LeftMatch
  <2> QED
    BY <1>0, <2>1, <2>2, <2>3, <2>4, CopiesLoaded
<1>2. CASE ~(pendingReload /\ ~saving)
  <2>1. UNCHANGED <<flagVars, rowVars, saveVars, navVars>>
    BY <1>2 DEF PendingReload, DueReload
  <2>2. SlotMatches(pageID)' = SlotMatches(pageID)
    BY <1>0 DEF SlotMatches
  <2>3. MatchesBeforeNew' /\ NewPageSaves' /\ DiscardSoon'
    BY <1>0, <1>2, <2>1, <2>2
       DEF CopiesInv, MatchesBeforeNew, NewPageSaves, DiscardSoon, flagVars, saveVars, navVars
  <2> QED
    BY <1>0, <2>1, <2>3, CopiesWait DEF navVars
<1> QED
  BY <1>1, <1>2

LEMMA CopiesNewReady ==
    ASSUME SessionInv, CopiesInv, NewPageReady
    PROVE  CopiesInv'
<1>0. /\ at = "new" /\ at' = "nav" /\ UNCHANGED <<disk, notion, does, pendingReload>>
  BY DEF NewPageReady, outside, user, bounds
<1>1. CASE newPage = None \/ saving
  <2>1. UNCHANGED <<pageID, rowVars, saveVars, needsSave, bypass, newPage>>
    BY <1>1 DEF NewPageReady
  <2>2. MatchesBeforeNew' /\ NewPageSaves' /\ DiscardSoon'
    <3>1. saving => ~dirty
      BY DEF SessionInv, OwnInv
    <3> QED
      BY <1>0, <1>1, <2>1, <3>1
         DEF CopiesInv, MatchesBeforeNew, NewPageSaves, DiscardSoon, saveVars
  <2> QED
    BY <1>0, <2>1, <2>2, CopiesWait DEF flagVars
<1>2. CASE newPage # None /\ ~saving /\ dirty
  <2>1. doSave /\ UNCHANGED <<pageID, rowVars, bypass, newPage>>
    BY <1>2 DEF NewPageReady
  <2> QED
    BY <1>0, <1>2, <2>1, CopiesSaveStarts
<1>3. CASE newPage # None /\ ~saving /\ ~dirty
  <2>1. reloadPage(newPage) /\ newPage \in Pages /\ pageID' = newPage
    BY <1>3 DEF NewPageReady, SessionInv, TypeOK, NavTyped
  <2>2. \A q \in Pages : SlotMatches(q)
    BY <1>0, <1>3 DEF CopiesInv, LeftMatch, MatchesBeforeNew
  <2> QED
    BY <1>0, <2>1, <2>2, CopiesLoaded
<1> QED
  BY <1>1, <1>2, <1>3

LEMMA CopiesNavGoes ==
    ASSUME SessionInv, CopiesInv, NavGoes
    PROVE  CopiesInv'
<1>1. /\ at = "nav" /\ at' = "thread" /\ navPending /\ ~saving /\ ~(dirty /\ DirtyRows # {})
      /\ dirty' = FALSE
      /\ UNCHANGED <<rowVars, saving, sent, needsSave, bypass, newPage, disk, notion, does>>
  BY DEF NavGoes, outside, user, bounds
<1>2. /\ pageElm' = pageElm /\ pageElmCount' = pageElmCount /\ saving' = saving /\ sent' = sent
      /\ bypass' = bypass /\ newPage' = newPage /\ disk' = disk /\ notion' = notion
      /\ does' = does
  BY <1>1 DEF rowVars
<1>3. ~dirty /\ ~needsSave
  BY <1>1 DEF SessionInv, OwnInv, DirtyIsReal, FlushedFirst
<1>4. \A q \in Pages : SlotMatches(q)
  BY <1>1, <1>3 DEF CopiesInv, LeftMatch, OpenMatches
<1>5. pageID' \in Pages
  BY NavGoesTyped DEF SessionInv, TypeOK
<1>6. \A q \in Pages : SlotMatches(q)'
  BY <1>2, <1>4 DEF SlotMatches
<1>7. SlotMatches(pageID)'
  BY <1>2, <1>4, <1>5 DEF SlotMatches
<1>8. LeftMatch' /\ OpenMatches' /\ MatchesBeforeNew' /\ DueMatches'
  BY <1>1, <1>2, <1>6, <1>7 DEF LeftMatch, OpenMatches, MatchesBeforeNew, DueMatches
<1>9. RowsAsInNotion' /\ NewPageSaves' /\ NewBeforeDiscard' /\ DiscardSoon' /\ BypassReloads'
  BY <1>1, <1>2
     DEF CopiesInv, RowsAsInNotion, NewPageSaves, NewBeforeDiscard, DiscardSoon, BypassReloads
<1> QED
  BY <1>8, <1>9 DEF CopiesInv

LEMMA CopiesType ==
    ASSUME SessionInv, CopiesInv, NothingMiscached, NEW i \in 0 .. 1, Type(i)
    PROVE  CopiesInv'
<1> DEFINE t == [pageElm[i].text EXCEPT !.n = edits']
<1>1. /\ at = "events" /\ at' = "top" /\ ~pendingReload /\ dirty' = TRUE
      /\ pageElm' = [pageElm EXCEPT ![i].text = t, ![i].dirty = TRUE]
      /\ pageElmCount' = pageElmCount /\ sent' = sent /\ pageID' = pageID
      /\ bypass' = bypass /\ pendingReload' = pendingReload
      /\ disk' = disk /\ notion' = notion /\ does' = does
  BY MovesNot DEF SessionInv, Type, Event, flagVars, outside
<1> HIDE DEF t
<1>2. pageElm \in [0 .. 1 -> Rows] /\ pageElmCount \in 0 .. 2
  BY DEF SessionInv, TypeOK, RowsTyped
<1>3. pageElm'[i].dirty /\ \A j \in 0 .. 1 : j # i => pageElm'[j] = pageElm[j]
  BY <1>1, <1>2 DEF Rows
<1>4. \A j \in 0 .. pageElmCount - 1 : j \in 0 .. 1
  BY <1>2
<1>5. RowsAsInNotion'
  BY <1>1, <1>3, <1>4 DEF CopiesInv, RowsAsInNotion
<1>6. LeftMatch'
  BY <1>1 DEF CopiesInv, LeftMatch, SlotMatches
<1>7. OpenMatches' /\ MatchesBeforeNew' /\ DueMatches' /\ NewPageSaves' /\ NewBeforeDiscard'
      /\ DiscardSoon' /\ BypassReloads'
  BY <1>1
     DEF CopiesInv, OpenMatches, MatchesBeforeNew, DueMatches, NewPageSaves, NewBeforeDiscard,
         DiscardSoon, BypassReloads
<1> QED
  BY <1>5, <1>6, <1>7 DEF CopiesInv

(* An answer changes only the text in Notion that was sent. *)
LEMMA AcknowledgedOnly ==
    ASSUME TypeOK, Acknowledged \/ UNCHANGED notion, NEW p \in Pages, NEW i \in 0 .. 1,
           sent = None \/ sent.page # p \/ sent.row # i
    PROVE  notion'[p][i] = notion[p][i]
<1>1. CASE UNCHANGED notion
  BY <1>1
<1>2. CASE sent # None /\ notion' = [notion EXCEPT ![sent.page][sent.row] = sent.text]
  <2>1. sent.page \in Pages /\ sent.row \in 0 .. 1
    BY <1>2 DEF TypeOK, SaveTyped, Patches
  <2> QED
    BY <1>2, <2>1, TextsTyped
<1> QED
  BY <1>1, <1>2 DEF Acknowledged

(* During a save what is sent is of the open page. *)
LEMMA SentIsOwn ==
    ASSUME SessionInv, saving, at # "gone"
    PROVE  /\ sent # None => sent.page = pageID
           /\ pageElmCount = 2 /\ \A i \in 0 .. 1 : pageElm[i].page = pageID
           /\ pageID \in Pages /\ ~dirty
<1>1. pageElmCount = 2 /\ (\A i \in 0 .. 1 : pageElm[i].page = pageID) /\ ~dirty
  BY DEF SessionInv, OwnInv, RowsOwn
<1>2. sent # None => sent.row \in 0 .. 1 /\ pageElm[sent.row].page = sent.page
  BY DEF SessionInv, TypeOK, SaveTyped, Patches, EditsInv, SentFromRow
<1> QED
  BY <1>1, <1>2 DEF SessionInv, TypeOK

LEMMA LeftMatchSaved ==
    ASSUME SessionInv, CopiesInv, saving, at # "gone", Acknowledged \/ UNCHANGED notion,
           UNCHANGED <<disk, pageID>>
    PROVE  LeftMatch'
<1> SUFFICES ASSUME NEW p \in Pages \ {pageID} PROVE SlotMatches(p)'
  BY DEF LeftMatch
<1>1. SlotMatches(p)
  BY DEF CopiesInv, LeftMatch
<1>2. \A i \in 0 .. 1 : notion'[p][i] = notion[p][i]
  BY SentIsOwn, AcknowledgedOnly DEF SessionInv
<1>3. disk[p] # <<>> => Len(disk[p]) = 2
  BY DEF SessionInv, OwnInv, CachedUnderOwnPage
<1>4. \A i \in 1 .. 2 : i - 1 \in 0 .. 1
  OBVIOUS
<1> QED
  BY <1>1, <1>2, <1>3, <1>4 DEF SlotMatches

LEMMA CopiesGoOn ==
    ASSUME SessionInv, CopiesInv, SaveGoesOn, NothingElse, at = "thread", at' = "events"
    PROVE  CopiesInv'
<1>1. /\ saving /\ Acknowledged /\ PatchOrEnd(TRUE)
      /\ dirty' = dirty /\ pageElmCount' = pageElmCount /\ pageID' = pageID /\ disk' = disk
      /\ bypass' = bypass /\ pendingReload' = pendingReload /\ newPage' = newPage /\ does' = does
  BY DEF SaveGoesOn, PatchNext, NothingElse, navVars, user, bounds
<1>2. /\ pageElmCount = 2 /\ (\A i \in 0 .. 1 : pageElm[i].page = pageID) /\ ~dirty
      /\ pageID \in Pages /\ (sent # None => sent.page = pageID)
  BY <1>1, SentIsOwn
<1>3. LeftMatch'
  BY <1>1, LeftMatchSaved
<1>4. MatchesBeforeNew' /\ NewPageSaves' /\ NewBeforeDiscard' /\ DiscardSoon' /\ BypassReloads'
  BY <1>1, <1>2
     DEF CopiesInv, MatchesBeforeNew, NewPageSaves, NewBeforeDiscard, DiscardSoon, BypassReloads
<1>5. DueMatches'
  BY <1>1 DEF CopiesInv, DueMatches
<1>6. ASSUME NEW i \in 0 .. 1, ~pageElm[i].dirty
      PROVE  pageElm[i].text = notion'[pageID][i]
  <2>1. CASE sent # None /\ sent.row = i
    <3>1. pageElm[i].text = sent.text
      BY <2>1 DEF SessionInv, EditsInv, SentFromRow
    <3>2. notion'[pageID][i] = sent.text
      BY <1>1, <1>2, <2>1, AcknowledgedSafe DEF SessionInv
    <3> QED
      BY <3>1, <3>2
  <2>2. CASE ~(sent # None /\ sent.row = i)
    <3>1. i \in 0 .. pageElmCount - 1
      BY <1>2
    <3>2. pageElm[i].text = notion[pageID][i]
      BY <1>2, <1>6, <2>2, <3>1 DEF CopiesInv, RowsAsInNotion
    <3>3. notion'[pageID][i] = notion[pageID][i]
      BY <1>1, <1>2, <2>2, AcknowledgedOnly DEF SessionInv
    <3> QED
      BY <3>2, <3>3
  <2> QED
    BY <2>1, <2>2
<1>7. \A i \in 0 .. pageElmCount - 1 : i \in 0 .. 1
  BY <1>2
<1>8. CASE Still = {} /\ Ends(TRUE)
  <2>1. pageElm' = pageElm /\ needsSave' = TRUE
    BY <1>8 DEF Ends
  <2>2. RowsAsInNotion'
    BY <1>1, <1>2, <1>6, <1>7, <2>1 DEF RowsAsInNotion
  <2> QED
    BY <1>3, <1>4, <1>5, <2>1, <2>2 DEF CopiesInv, OpenMatches
<1>9. ASSUME NEW k, Still # {}, k = Min(Still), SendsRow(k, queue[k])
      PROVE  CopiesInv'
  <2> DEFINE r == queue[k]
  <2>1. /\ r \in 0 .. 1 /\ pageElm' = [pageElm EXCEPT ![r].dirty = FALSE]
        /\ sent' = [row |-> r, page |-> pageElm[r].page, text |-> pageElm[r].text]
        /\ saving' = saving
    BY <1>9, StillTyped DEF SendsRow, SessionInv, TypeOK
  <2> HIDE DEF r
  <2>2. sent' # None /\ sent'.row = r
    <3>1. sent' \in Patches
      BY <2>1 DEF SessionInv, TypeOK, RowsTyped, Rows, Patches
    <3> QED
      BY <2>1, <3>1, NoneIsNoPatch
  <2>3. \A j \in 0 .. 1 : j # r => pageElm'[j] = pageElm[j]
    BY <2>1 DEF SessionInv, TypeOK, RowsTyped
  <2>4. RowsAsInNotion'
    BY <1>1, <1>2, <1>6, <1>7, <2>2, <2>3 DEF RowsAsInNotion
  <2> QED
    BY <1>1, <1>3, <1>4, <1>5, <2>1, <2>4 DEF CopiesInv, OpenMatches
<1> QED
  BY <1>1, <1>8, <1>9, PatchCases

LEMMA CopiesFails ==
    ASSUME SessionInv, CopiesInv, NothingLoses, SaveFails, NothingElse, at = "thread",
           at' = "events"
    PROVE  CopiesInv'
<1>1. /\ saving /\ sent # None /\ "fail" \in does /\ (Acknowledged \/ UNCHANGED notion)
      /\ pageElm' = Redirtied /\ sent' = None /\ saving' = FALSE /\ dirty' = TRUE
      /\ pageElmCount' = pageElmCount /\ pageID' = pageID /\ disk' = disk
      /\ bypass' = bypass /\ pendingReload' = pendingReload /\ newPage' = newPage /\ does' = does
  BY DEF SaveFails, SaveStops, NothingElse, navVars, user, bounds
<1>2. /\ pageElmCount = 2 /\ (\A i \in 0 .. 1 : pageElm[i].page = pageID) /\ ~dirty
      /\ pageID \in Pages
  BY <1>1, SentIsOwn
<1>3. LeftMatch'
  BY <1>1, LeftMatchSaved
<1>4. ~bypass /\ ~pendingReload
  BY <1>1, DoesNot DEF SessionInv, CopiesInv, BypassReloads, DueMatches
<1>5. MatchesBeforeNew' /\ NewBeforeDiscard' /\ DiscardSoon' /\ BypassReloads' /\ DueMatches'
      /\ OpenMatches'
  BY <1>1, <1>4
     DEF MatchesBeforeNew, NewBeforeDiscard, DiscardSoon, BypassReloads, DueMatches, OpenMatches
<1>6. NewPageSaves'
  BY <1>1, DoesNot DEF SessionInv, NewPageSaves
<1>7. sent.row \in 0 .. 1
  BY <1>1 DEF SessionInv, TypeOK, SaveTyped, Patches
<1>8. pageElm' = [pageElm EXCEPT ![sent.row].dirty = TRUE]
  BY <1>1, <1>2, <1>7 DEF Redirtied
<1>9. /\ pageElm'[sent.row].dirty
      /\ \A j \in 0 .. 1 : j # sent.row => pageElm'[j] = pageElm[j]
  BY <1>7, <1>8 DEF SessionInv, TypeOK, RowsTyped, Rows
<1>10. ASSUME NEW i \in 0 .. 1, i # sent.row, ~pageElm[i].dirty
       PROVE  pageElm[i].text = notion'[pageID][i]
  <2>1. i \in 0 .. pageElmCount - 1
    BY <1>2
  <2>2. pageElm[i].text = notion[pageID][i]
    BY <1>2, <1>10, <2>1 DEF CopiesInv, RowsAsInNotion
  <2>3. notion'[pageID][i] = notion[pageID][i]
    BY <1>1, <1>2, <1>10, AcknowledgedOnly DEF SessionInv
  <2> QED
    BY <2>2, <2>3
<1>11. \A i \in 0 .. pageElmCount - 1 : i \in 0 .. 1
  BY <1>2
<1>12. RowsAsInNotion'
  BY <1>1, <1>2, <1>9, <1>10, <1>11 DEF RowsAsInNotion
<1> QED
  BY <1>3, <1>5, <1>6, <1>12 DEF CopiesInv

LEMMA CopiesReload ==
    ASSUME SessionInv, CopiesInv, Reload
    PROVE  CopiesInv'
<1>1. /\ at = "events" /\ at' = "top" /\ scheduleReload(TRUE) /\ ~saving /\ "reload" \in does
      /\ UNCHANGED <<pageID, rowVars, needsSave, newPage, disk, notion, does>>
  BY DEF Reload, Event, navVars, outside, bounds
<1>2. CASE dirty /\ ~saving /\ doSave /\ pendingReload' = TRUE /\ bypass' = TRUE
  BY <1>1, <1>2, CopiesSaveStarts
<1>3. CASE UNCHANGED saveVars
  <2>1. dirty' = dirty /\ saving' = saving /\ sent' = sent
    BY <1>3 DEF saveVars
  <2>2. dirty => ~pendingReload /\ newPage = None
    BY <1>1 DEF CopiesInv, DiscardSoon, NewPageSaves
  <2>3. \/ pendingReload' = TRUE /\ bypass' = TRUE
        \/ dirty /\ pendingReload' = pendingReload /\ bypass' = FALSE
    BY <1>1, <1>3 DEF scheduleReload, ReloadUnasked
  <2>4. OpenMatches'
    BY <1>1, <2>1 DEF CopiesInv, OpenMatches, SlotMatches
  <2>5. DueMatches' /\ NewBeforeDiscard' /\ DiscardSoon' /\ BypassReloads'
    BY <1>1, <2>1, <2>2, <2>3 DEF DueMatches, NewBeforeDiscard, DiscardSoon, BypassReloads
  <2>6. MatchesBeforeNew' /\ NewPageSaves'
    BY <1>1 DEF MatchesBeforeNew, NewPageSaves
  <2> QED
    BY <1>1, <2>1, <2>4, <2>5, <2>6, CopiesKept
<1> QED
  BY <1>1, <1>2, <1>3 DEF scheduleReload, ReloadUnasked

LEMMA NextCopies ==
    SessionInv /\ CopiesInv /\ NothingLoses /\ NothingMiscached /\ [Next]_vars => CopiesInv'
<1> SUFFICES ASSUME SessionInv, CopiesInv, NothingLoses, NothingMiscached, [Next]_vars
             PROVE  CopiesInv'
  OBVIOUS
<1>0. Running /\ OneMove
  BY DEF SessionInv, EditsInv, OwnInv
<1>1. CASE FlushCache \/ PendingReload \/ NewPageReady \/ NavGoes \/ Reload
  BY <1>1, CopiesFlush, CopiesDue, CopiesNewReady, CopiesNavGoes, CopiesReload
<1>2. CASE NavSaves \/ Save
  BY <1>2, CopiesSaveStarts
     DEF NavSaves, Save, Event, flagVars, navVars, outside, user, bounds
<1>3. CASE NavWaits \/ NoAnswer \/ NoEvent \/ PickCancelled \/ UNCHANGED vars
  <2>1. UNCHANGED stateVars /\ (UNCHANGED at \/ <<at, at'>> \in
            {<<"nav", "thread">>, <<"thread", "events">>, <<"events", "top">>, <<"library", "top">>})
    BY <1>3 DEF NavWaits, NoAnswer, NoEvent, PickCancelled, vars
  <2>2. UNCHANGED <<rowVars, saveVars, flagVars, pageID, newPage, does, disk, notion>>
    BY <2>1 DEF stateVars, navVars, outside, user, bounds
  <2>3. SlotMatches(pageID)' = SlotMatches(pageID)
    BY <2>2 DEF SlotMatches
  <2>4. MatchesBeforeNew' /\ NewPageSaves'
    BY <2>1, <2>2, <2>3 DEF CopiesInv, MatchesBeforeNew, NewPageSaves, saveVars
  <2>5. DiscardSoon'
    BY <2>1, <2>2 DEF CopiesInv, DiscardSoon, saveVars, flagVars
  <2> QED
    BY <2>2, <2>4, <2>5, CopiesWait
<1>4. CASE ThreadSlice
  BY <1>4, CopiesGoOn, CopiesFails DEF ThreadSlice, SaveSlice
<1>5. ASSUME NEW i \in 0 .. 1, Type(i) PROVE CopiesInv'
  BY <1>5, CopiesType
<1>6. ASSUME NEW p \in Pages, scheduleNavigateTo(p) \/ NewPage(p) PROVE CopiesInv'
  <2>1. /\ at = "events" /\ at' = "top"
        /\ UNCHANGED <<pageID, saveVars, flagVars, disk, notion, does>>
    BY <1>6 DEF scheduleNavigateTo, NewPage, Event, outside, user, bounds
  <2>2. UNCHANGED rowVars
    BY <1>6, MovesNot DEF SessionInv, scheduleNavigateTo, NewPage, Event, ShowIfKnown
  <2>3. SlotMatches(pageID)' = SlotMatches(pageID)
    BY <2>1 DEF SlotMatches
  <2>4. /\ dirty' = dirty /\ saving' = saving /\ sent' = sent /\ needsSave' = needsSave
        /\ bypass' = bypass /\ pendingReload' = pendingReload
    BY <2>1 DEF saveVars, flagVars
  <2>5. DueMatches' /\ OpenMatches' /\ BypassReloads'
    BY <2>1, <2>3, <2>4 DEF CopiesInv, DueMatches, OpenMatches, BypassReloads
  <2>6. NewBeforeDiscard' /\ DiscardSoon' /\ MatchesBeforeNew' /\ NewPageSaves'
    BY <2>1, <2>4 DEF CopiesInv, NewBeforeDiscard, DiscardSoon, MatchesBeforeNew, NewPageSaves
  <2> QED
    BY <2>1, <2>2, <2>4, <2>5, <2>6, CopiesKept
<1>7. CASE SavedFirst \/ QuitApp \/ QuitSaved \/ OpenLibrary \/ (\E d \in {-1, 1} : Press(d))
           \/ \E p \in Pages : OpenRecent(p) \/ Pick(p)
  BY <1>0, <1>7, MovesNot, DoesNot
     DEF SessionInv, SavedFirst, QuitApp, QuitSaved, OpenLibrary, Press, OpenRecent, Pick, Event,
         Running, OneMove
<1> QED
  BY <1>1, <1>2, <1>3, <1>4, <1>5, <1>6, <1>7 DEF Next

LEMMA InitCopies == Init => CopiesInv
<1> SUFFICES ASSUME Init PROVE CopiesInv
  OBVIOUS
<1>1. /\ at = "top" /\ pageID \in Pages /\ newPage = None /\ dirty = FALSE /\ pendingReload = FALSE
      /\ bypass = FALSE /\ notion = [p \in Pages |-> [i \in 0 .. 1 |-> Original(p)]]
      /\ pageElm = [i \in 0 .. 1 |-> Row(pageID, Original(pageID))] /\ pageElmCount = 2
  BY DEF Init
<1>2. ASSUME NEW p \in Pages PROVE SlotMatches(p)
  <2>1. disk[p] \in {Fresh(p), <<>>}
    BY DEF Init
  <2>2. Len(Fresh(p)) = 2 /\ \A i \in 1 .. 2 : Fresh(p)[i].text = notion[p][i - 1]
    BY <1>1 DEF Fresh, Row
  <2> QED
    BY <2>1, <2>2 DEF SlotMatches
<1>3. \A i \in 0 .. pageElmCount - 1 : i \in 0 .. 1
  BY <1>1
<1>4. RowsAsInNotion
  BY <1>1, <1>3 DEF RowsAsInNotion, Row
<1> QED
  BY <1>1, <1>2, <1>4
     DEF CopiesInv, LeftMatch, OpenMatches, MatchesBeforeNew, DueMatches, NewPageSaves,
         NewBeforeDiscard, DiscardSoon, BypassReloads

(* Where nothing is lost or miscached, the copy of a page that was left    *)
(* has what Notion has: every save that ends asks for a new copy, and the  *)
(* loop makes it before the page goes (patchNext, the flush of main.cpp).  *)
THEOREM SessionCacheFollows ==
    ASSUME NothingLoses, NothingMiscached PROVE Spec => []CacheNotBehind
<1>1. TypeOK /\ DirtyIsFound /\ EditsInv /\ [Next]_vars => EditsInv'
  BY NextSafe
<1>2. TypeOK /\ OwnInv /\ [Next]_vars => OwnInv'
  BY NextOwn
<1>3. TypeOK /\ DirtyIsFound /\ EditsInv /\ OwnInv /\ CopiesInv /\ [Next]_vars => CopiesInv'
  BY NextCopies DEF SessionInv
<1>4. CopiesInv => CacheNotBehind
  BY DEF CopiesInv, LeftMatch, SlotMatches, CacheNotBehind
<1> QED
  BY <1>1, <1>2, <1>3, <1>4, InitSafe, InitOwn, InitCopies, SessionTyped, SessionFindsDirty, PTL
     DEF Spec
=============================================================================
