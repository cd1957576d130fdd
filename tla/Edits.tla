------------------------------- MODULE Edits -------------------------------
(***************************************************************************)
(* What each editing command does to the page: doAddBlock, doDeleteBlock,  *)
(* RetypeBlock, doIndentBlock (block_ops.cpp) and moveBlock                *)
(* (block_render.cpp), as functions of the rows and the toggle cache.  The *)
(* commands that first load a closed toggle's children (PrepareSubtree,    *)
(* pending retype, reclose) are given where there is nothing to load.      *)
(***************************************************************************)
EXTENDS Blocks

(* Mutant: the save does not see it. *)
RecreateClean(r) == [r EXCEPT !.recreate = TRUE]

(* A block to insert anew and whose old copy is then trashed. *)
Recreate(r) == [r EXCEPT !.recreate = TRUE, !.dirty = TRUE]

ReParent(r, parent, depth) == [r EXCEPT !.parent = parent, !.depth = depth]

(* A block to insert anew under another parent. *)
MovedTo(r, parent, depth) ==
    [Recreate(ReParent(r, parent, depth)) EXCEPT !.leftParent = TRUE]

(* Each row of rows from .. to - 1, changed by F; the others as they are. *)
Change(rows, from, to, F(_)) ==
    [k \in DOMAIN rows |-> IF k \in from .. to - 1 THEN F(rows[k]) ELSE rows[k]]

(***************************************************************************)
(* doAddBlock: where the row below the selected row i goes, the block it   *)
(* is inserted under and the block it is inserted after (none: at the      *)
(* parent's start, or at its end when row i has no id).                    *)
(***************************************************************************)
AddPlace(rows, i) ==
    LET cur      == rows[i]
        inToggle == IsToggle(cur) /\ cur.open
        sibling  == ~IsToggle(cur) /\ IsChild(cur) /\ cur.parent # NoId
        at       == IF cur.kind = "title" \/ inToggle \/ sibling
                    THEN i + 1 ELSE DirectChildrenEnd(rows, i)
    IN  [at     |-> EndOfRun(rows, at - 1, LAMBDA r : r.cont),
         parent |-> IF inToggle THEN cur.id ELSE IF sibling THEN cur.parent ELSE Page,
         depth  |-> IF inToggle THEN cur.depth + 1 ELSE IF sibling THEN cur.depth ELSE 0,
         after  |-> IF inToggle \/ cur.kind = "title" THEN NoId ELSE cur.id]

(***************************************************************************)
(* doDeleteBlock: one piece of a split block goes locally, the block's     *)
(* head (the next piece, when the head itself goes) saves the rest.        *)
(***************************************************************************)
PieceDeleted(rows, i) ==
    LET left == EraseRows(rows, i, i + 1)
        next == IF rows[i].cont THEN left ELSE [left EXCEPT ![i].cont = FALSE]
        head == GroupHead(next, IF rows[i].cont THEN i - 1 ELSE i)
    IN  [next EXCEPT ![head].dirty = TRUE]

DeleteEnd(rows, i) == IF IsToggle(rows[i]) THEN SubtreeEnd(rows, i) ELSE i + 1

(***************************************************************************)
(* UnitLoaded: the rows from .. to - 1 can be re-created as they stand.    *)
(* PrepareSubtree asks besides that a toggle's children came with it.      *)
(***************************************************************************)
NothingToLoad(rows, cache, from, to) ==
    \A k \in from .. to - 1 :
        IsToggle(rows[k]) /\ ~rows[k].open
            => ~rows[k].hasKids /\ ToggleCacheFind(cache, rows[k].id) = 0

UnitLoaded(rows, cache, from, to) ==
    /\ NothingToLoad(rows, cache, from, to)
    /\ \A k \in from .. to - 1 : /\ ~rows[k].cut /\ ~rows[k].partial
                                 /\ IsToggle(rows[k]) \/ ~rows[k].hasKids

PrepareSubtree(rows, cache, i) ==
    /\ UnitLoaded(rows, cache, i, SubtreeEnd(rows, i))
    /\ \A k \in i .. SubtreeEnd(rows, i) - 1 :
           IsToggle(rows[k]) /\ rows[k].hasKids => SubtreeEnd(rows, k) > k + 1

(***************************************************************************)
(* RetypeBlock on the block headed by row h.  A toggle turned into         *)
(* something else hands its children to its own parent, to be saved first; *)
(* one turned into the other kind of toggle has them re-created inside it. *)
(***************************************************************************)
MayRetype(rows, cache, i, kind, readOnly) ==
    /\ rows[i].kind \notin {"title", kind}
    /\ AllowEdit(rows, i, IF kind \in Toggles THEN "toToggle" ELSE "retype", readOnly)
    /\ LET h == GroupHead(rows, i)
       IN  IsToggle(rows[h]) => PrepareSubtree(rows, cache, h)

MoveChildrenForRetype(rows, h, kind) ==
    LET t   == rows[h]
        out == kind \notin Toggles
        Leave(c) == IF c.parent = t.id
                    THEN [c EXCEPT !.parent = t.parent, !.leftParent = TRUE] ELSE c
        Child(c) == LET m == IF out THEN [Leave(c) EXCEPT !.depth = @ - 1] ELSE c
                    IN  IF c.cont THEN m ELSE [Recreate(m) EXCEPT !.saveFirst = out]
    IN  Change([rows EXCEPT ![h].hasKids  = @ /\ ~out,
                            ![h].kidsLeft = @ \/ out],
               h + 1, SubtreeEnd(rows, h), Child)

RetypeBlock(rows, i, kind) ==
    LET h     == GroupHead(rows, i)
        moved == IF IsToggle(rows[h]) THEN MoveChildrenForRetype(rows, h, kind) ELSE rows
        head  == [moved EXCEPT ![h] = [Recreate(@) EXCEPT !.open = kind \in Toggles]]
    IN  Change(head, h, GroupEnd(rows, h), LAMBDA r : [r EXCEPT !.kind = kind])

(***************************************************************************)
(* doIndentBlock, on a page [rows, cache]: the block of row i becomes a    *)
(* child of the toggle above it.                                           *)
(***************************************************************************)
IndentParent(rows, i) ==
    LET self  == GroupHead(rows, i)
        above == rows[self - 1]
    IN  IF IsToggle(above) THEN self - 1
        ELSE IF IsChild(above) /\ above.parent # NoId
        THEN Greatest({j \in 1 .. self - 2 : rows[j].id = above.parent})
        ELSE 0

MayIndent(rows, cache, i, readOnly) ==
    /\ i > 1
    /\ AllowEdit(rows, i, "indent", readOnly)
    /\ LET t == IndentParent(rows, i)
       IN  /\ t # 0 /\ rows[t].id # NoId
           /\ NothingToLoad(rows, cache, t, t + 1)
    /\ ToggleHasChildren(rows, cache, i) => PrepareSubtree(rows, cache, i)

(* All the pieces of the block headed by row h go under the toggle at t.   *)
IndentGroup(rows, t, h) ==
    LET under == Change(rows, h, GroupEnd(rows, h),
                        LAMBDA r : ReParent(r, rows[t].id, rows[t].depth + 1))
    IN  [under EXCEPT ![h] = MovedTo(@, rows[t].id, rows[t].depth + 1)]

(* A toggle takes its children along, where they are. *)
Deeper(r, delta) ==
    LET moved == [r EXCEPT !.depth = @ + delta]
    IN  IF r.cont THEN moved ELSE Recreate(moved)

IndentSubtree(rows, t, i) ==
    LET depth == rows[t].depth + 1
        moved == Change(rows, i, SubtreeEnd(rows, i),
                        LAMBDA r : Deeper(r, depth - rows[i].depth))
    IN  [moved EXCEPT ![i] = MovedTo(rows[i], rows[t].id, depth)]

(* A single row becomes the toggle's last child. *)
IndentRow(rows, t, i) ==
    LET end == SubtreeEnd(rows, t)
        at  == IF end > i THEN end - 1 ELSE end
    IN  Splice(EraseRows(rows, i, i + 1), at, at,
               <<MovedTo(rows[i], rows[t].id, rows[t].depth + 1)>>)

doIndentBlock(p, i) ==
    LET rows   == p.rows
        t      == IndentParent(rows, i)
        self   == GroupHead(rows, i)
        opened == [rows EXCEPT ![t].open = TRUE]
    IN  [rows  |-> IF InGroup(rows, self) THEN IndentGroup(opened, t, self)
                   ELSE IF ToggleHasChildren(rows, p.cache, i)
                   THEN IndentSubtree(opened, t, i)
                   ELSE IndentRow(opened, t, i),
         cache |-> ToggleCacheEvict(p.cache, rows[t].id)]

(***************************************************************************)
(* MoveUnit: a block, its pieces and its loaded subtree change places with *)
(* the sibling unit next to them; one of the two is re-created, the        *)
(* neighbour when it can be.                                               *)
(***************************************************************************)
SiblingAbove(rows, i) ==
    Greatest({j \in 2 .. i - 1 :
                /\ rows[j].depth = rows[i].depth /\ SameParent(rows[j], rows[i])
                /\ ~rows[j].cont
                /\ \A k \in j + 1 .. i - 1 : rows[k].depth >= rows[i].depth})

SiblingBelow(rows, i) ==
    LET end == UnitEnd(rows, i)
    IN  IF end <= Len(rows) /\ rows[end].depth = rows[i].depth
           /\ SameParent(rows[end], rows[i]) THEN end ELSE 0

Carried(seq, yes) ==
    [k \in DOMAIN seq |-> IF yes /\ ~seq[k].cont THEN Recreate(seq[k]) ELSE seq[k]]

MoveUnit(p, i, up) ==
    LET rows == p.rows
        end  == UnitEnd(rows, i)
        nS   == IF up THEN SiblingAbove(rows, i) ELSE SiblingBelow(rows, i)
        nE   == IF up THEN i ELSE UnitEnd(rows, nS)
        neighbour == UnitLoaded(rows, p.cache, nS, nE)
        unit == Carried(SubSeq(rows, i, end - 1), ~neighbour)
        next == Carried(SubSeq(rows, nS, nE - 1), neighbour)
    IN  IF nS = 0 \/ (~neighbour /\ ~UnitLoaded(rows, p.cache, i, end)) THEN p
        ELSE [p EXCEPT !.rows = IF up THEN Splice(rows, nS, end, unit \o next)
                                      ELSE Splice(rows, i, nE, next \o unit)]

(* beginIndentOperation, the block being at row i already. *)
beginIndentOperation(p, i, parent, depth) ==
    [rows  |-> [p.rows EXCEPT ![i] = MovedTo(@, parent, depth)],
     cache |-> ToggleCacheEvict(p.cache, parent)]

Swapped(rows, i, j) == [rows EXCEPT ![i] = rows[j], ![j] = rows[i]]

(* Row i leaves the toggle at row t for t's own level, staying at row i. *)
OutOf(rows, i, t) ==
    LET parent == IF t = 0 THEN Page ELSE rows[t].parent
        depth  == IF t = 0 THEN 0 ELSE rows[t].depth
        moved  == [rows EXCEPT ![i] = MovedTo(@, parent, depth)]
    IN  IF t = 0 THEN moved ELSE [moved EXCEPT ![t].kidsLeft = TRUE]

(***************************************************************************)
(* moveBlock, one step up or down; p itself when there is nowhere to go.   *)
(***************************************************************************)
OnlyAsUnit(p, i) ==
    LET h == GroupHead(p.rows, i)
    IN  \/ ToggleHasChildren(p.rows, p.cache, h)
        \/ p.rows[h].hasKids \/ p.rows[h].cut \/ InGroup(p.rows, h)

OpenToggle(r) == IsToggle(r) /\ r.open /\ r.id # NoId

MoveUp(p, i) ==
    LET rows == p.rows
        b    == rows[i]
        d    == rows[i - 1]
        child == IsChild(b) /\ b.parent # NoId
    IN  IF i = 2 THEN p
        ELSE IF child /\ d.id = b.parent
        THEN [p EXCEPT !.rows = Swapped(OutOf(rows, i, i - 1), i, i - 1)]
        ELSE IF OpenToggle(d) THEN beginIndentOperation(p, i, d.id, d.depth + 1)
        ELSE IF IsChild(d) /\ d.depth > b.depth /\ d.parent # NoId
        THEN beginIndentOperation(p, i, d.parent, d.depth)
        ELSE MoveUnit(p, i, TRUE)

MoveDown(p, i) ==
    LET rows  == p.rows
        b     == rows[i]
        child == IsChild(b) /\ b.parent # NoId
        last  == i = Len(rows)
        lastChild == child /\ (last \/ ~IsChild(rows[i + 1]) \/ rows[i + 1].parent # b.parent)
    IN  IF lastChild
        THEN [p EXCEPT !.rows = OutOf(rows, i, Greatest({j \in 1 .. i - 1 : rows[j].id = b.parent}))]
        ELSE IF last THEN p
        ELSE IF OpenToggle(rows[i + 1])
        THEN beginIndentOperation([p EXCEPT !.rows = Swapped(rows, i, i + 1)], i + 1,
                                  rows[i + 1].id, rows[i + 1].depth + 1)
        ELSE MoveUnit(p, i, FALSE)

moveBlock(p, i, up) ==
    IF OnlyAsUnit(p, i) THEN MoveUnit(p, GroupHead(p.rows, i), up)
    ELSE IF up THEN MoveUp(p, i) ELSE MoveDown(p, i)
=============================================================================
