------------------------------- MODULE Blocks -------------------------------
(***************************************************************************)
(* The open page as the editor holds it: pageElm, a flat array of rows     *)
(* (app/content/blocks.h), and the cache of the children of closed         *)
(* toggles.  This module has no state: it defines the rows and what the    *)
(* functions of app/content/block_ops.cpp compute from them.               *)
(*                                                                         *)
(* A row's text, runs and emoji are one version number, ver; a row's type  *)
(* is one of a few kinds; isChild is "parent is not the page".  A Notion   *)
(* block too long for one row is a head row and the cont (isCont) rows     *)
(* below it, all with the block's id.  Rows are numbered from 1 and an     *)
(* index of 0 means what -1 means in the code.                             *)
(***************************************************************************)
EXTENDS FiniteSets, SequencesExt, Sublists

CONSTANTS MaxRows,       \* gMaxBlocks, the rows pageElm has room for
          ToggleSlots    \* kToggleCacheSlots

ASSUME BlocksAssumption == /\ MaxRows \in Nat \ {0}
                           /\ ToggleSlots \in Nat \ {0}

Page == 0                \* the page itself: the parent of top-level blocks
NoId == -1               \* the empty id of a row Notion has not answered for

Toggles == {"toggle", "toggleHeading"}        \* isToggleType
Inert   == {"divider", "childPage"}           \* no content to PATCH
Kinds   == {"title", "text", "list"} \cup Toggles \cup Inert

(* The Block() constructor. *)
BlankRow == [serial |-> 0, id |-> NoId, parent |-> Page, kind |-> "text",
             depth |-> 0, ver |-> 0, cont |-> FALSE, cut |-> FALSE,
             open |-> FALSE, hasKids |-> FALSE, partial |-> FALSE,
             dirty |-> FALSE, recreate |-> FALSE, saveFirst |-> FALSE,
             leftParent |-> FALSE, inOldParent |-> FALSE, kidsLeft |-> FALSE]

Row == [serial : Nat, id : Int, parent : Int, kind : Kinds,
        depth : Nat, ver : Nat, cont : BOOLEAN, cut : BOOLEAN,
        open : BOOLEAN, hasKids : BOOLEAN, partial : BOOLEAN,
        dirty : BOOLEAN, recreate : BOOLEAN, saveFirst : BOOLEAN,
        leftParent : BOOLEAN, inOldParent : BOOLEAN, kidsLeft : BOOLEAN]

IsToggle(r) == r.kind \in Toggles
IsChild(r)  == r.parent # Page

(***************************************************************************)
(* Lookups and extents.  An extent is given by the first row after it.     *)
(***************************************************************************)
Least(S) == IF S = {} THEN 0 ELSE CHOOSE i \in S : \A j \in S : i <= j
Greatest(S)  == IF S = {} THEN 0 ELSE CHOOSE i \in S : \A j \in S : i >= j

FindSerial(rows, s) == Least({k \in DOMAIN rows : s # 0 /\ rows[k].serial = s})

FindBlockIdx(rows, id) ==
    Least({k \in DOMAIN rows : id # NoId /\ ~rows[k].cont /\ rows[k].id = id})

(* One past the run of rows right below row i that belong to it. *)
EndOfRun(rows, i, Belongs(_)) ==
    Least({j \in i + 1 .. Len(rows) + 1 : j = Len(rows) + 1 \/ ~Belongs(rows[j])})

GroupHead(rows, i) == Greatest({h \in 1 .. i : h = 1 \/ ~rows[h].cont})
GroupEnd(rows, h)  == EndOfRun(rows, h, LAMBDA r : r.cont)
InGroup(rows, i)   == rows[i].cont \/ GroupEnd(rows, i) > i + 1

Below(rows, i, r) == IsChild(r) /\ r.depth > rows[i].depth
SubtreeEnd(rows, i) == EndOfRun(rows, i, LAMBDA r : Below(rows, i, r))
UnitEnd(rows, i)    == EndOfRun(rows, i, LAMBDA r : r.cont \/ Below(rows, i, r))
DirectChildrenEnd(rows, i) ==
    EndOfRun(rows, i, LAMBDA r : IsChild(r) /\ r.parent = rows[i].id)

SameParent(a, b) == a.parent = b.parent

(* What the block at row h says: the text of its pieces, in order. *)
Content(rows, h) == [k \in 1 .. GroupEnd(rows, h) - h |-> rows[h + k - 1].ver]

(***************************************************************************)
(* Changing the array.  Rows put in get serials no row has and no variable *)
(* still refers to: NextBlockSerial never returns a serial twice.          *)
(***************************************************************************)
Splice(rows, from, to, mid) ==
    SubSeq(rows, 1, from - 1) \o mid \o SubSeq(rows, to, Len(rows))

EraseRows(rows, from, to) == Splice(rows, from, to, <<>>)

Ascending(S) == [k \in 1 .. Cardinality(S) |->
                    CHOOSE n \in S : Cardinality({m \in S : m < n}) = k - 1]

Fresh(rs, used) ==
    LET free == Ascending((1 .. Cardinality(used) + Len(rs)) \ used)
    IN  [k \in DOMAIN rs |-> [rs[k] EXCEPT !.serial = free[k]]]

SerialsOf(rows) == {rows[k].serial : k \in DOMAIN rows}

InsertFresh(rows, at, rs, held) ==
    Splice(rows, at, at, Fresh(rs, held \cup SerialsOf(rows)))

(* insertBlockAt: a full array takes no row. *)
InsertBlockAt(rows, at, r, held) ==
    IF Len(rows) < MaxRows THEN InsertFresh(rows, at, <<r>>, held) ELSE rows

(* PackRows keeps every field of a row but its serial (and its TextEdit). *)
PackRows(rows, from, to) ==
    [k \in 1 .. to - from |-> [rows[from + k - 1] EXCEPT !.serial = 0]]

(* UnpackRows puts back what there is room for; a depth of -1 keeps each   *)
(* row's own.                                                              *)
UnpackRows(rows, packed, at, depth, held) ==
    LET room  == MaxRows - Len(rows)
        added == IF Len(packed) <= room THEN Len(packed) ELSE room
        put   == [k \in 1 .. added |->
                    [packed[k] EXCEPT !.depth = IF depth >= 0 THEN depth ELSE @]]
    IN  InsertFresh(rows, at, put, held)

(***************************************************************************)
(* The toggle cache: [id, rows] entries, most recently stored first.       *)
(***************************************************************************)
CacheEntry == [id : Int, rows : Seq(Row)]

ToggleCacheEvict(cache, id) == Among(cache, {e \in ToSet(cache) : e.id # id})

ToggleCacheStore(cache, id, packed) ==
    LET others == ToggleCacheEvict(cache, id)
    IN  <<[id |-> id, rows |-> packed]>>
          \o (IF Len(others) >= ToggleSlots THEN SubSeq(others, 1, ToggleSlots - 1)
                                            ELSE others)

ToggleCacheFind(cache, id) == Least({k \in DOMAIN cache : cache[k].id = id})

ToggleCacheHasRecreate(cache) ==
    \E e \in DOMAIN cache : \E k \in DOMAIN cache[e].rows :
        cache[e].rows[k].recreate /\ cache[e].rows[k].id # NoId

ToggleHasChildren(rows, cache, i) ==
    /\ IsToggle(rows[i])
    /\ \/ rows[i].hasKids \/ SubtreeEnd(rows, i) > i + 1
       \/ ~rows[i].open /\ ToggleCacheFind(cache, rows[i].id) # 0

(* closeToggleAt on one toggle: its direct children go to the cache.       *)
CloseOne(s, t) ==
    LET end == DirectChildrenEnd(s.rows, t)
    IN  IF end = t + 1
        THEN [s EXCEPT !.rows[t].open = FALSE]
        ELSE [rows  |-> EraseRows([s.rows EXCEPT ![t].open = FALSE], t + 1, end),
              cache |-> ToggleCacheStore(s.cache, s.rows[t].id,
                                         PackRows(s.rows, t + 1, end))]

(* closeToggleAt: the open toggles inside it first, innermost first, each  *)
(* into its own cache entry; then the toggle.                              *)
OpenInside(rows, i) == {k \in i .. SubtreeEnd(rows, i) - 1 : rows[k].open}

Innermost(rows, i) ==
    CHOOSE k \in OpenInside(rows, i) : \A j \in OpenInside(rows, i) :
        \/ SubtreeEnd(rows, k) < SubtreeEnd(rows, j)
        \/ SubtreeEnd(rows, k) = SubtreeEnd(rows, j) /\ k >= j

CloseNext(s, i) ==
    IF OpenInside(s.rows, i) = {} THEN s ELSE CloseOne(s, Innermost(s.rows, i))

CloseToggleAt(rows, cache, i) ==
    LET toClose == Cardinality(OpenInside(rows, i))
        closed[n \in 0 .. toClose] ==
            IF n = 0 THEN [rows |-> rows, cache |-> cache] ELSE CloseNext(closed[n - 1], i)
    IN  closed[toClose]

(***************************************************************************)
(* What an edit may touch (AllowEdit); the flash it shows is left out.     *)
(***************************************************************************)
AllowEdit(rows, i, kind, readOnly) ==
    /\ ~readOnly
    /\ CASE kind = "move"     -> TRUE
         [] kind = "delete"   -> ~(InGroup(rows, i) /\ rows[i].cut)
         [] kind = "split"    -> ~rows[i].cut /\ GroupEnd(rows, i) = i + 1
         [] kind = "toToggle" -> /\ ~InGroup(rows, i) /\ ~rows[i].cut
                                 /\ (IsToggle(rows[i]) \/ ~rows[i].hasKids)
         [] kind \in {"retype", "indent"} ->
                LET h == GroupHead(rows, i)
                IN  ~rows[i].cut /\ (IsToggle(rows[h]) \/ ~rows[h].hasKids)
         [] OTHER -> ~rows[i].cut                                   \* "text"
=============================================================================
