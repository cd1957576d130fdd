--------------------------- MODULE MCSavePipeline ---------------------------
(***************************************************************************)
(* Small pages for SavePipeline.  A page is given by its blocks: R makes   *)
(* the rows of a block that is shown, B the block Notion has.              *)
(***************************************************************************)
EXTENDS SavePipeline

R(id, parent, kind, depth) ==
    [BlankRow EXCEPT !.id = id, !.parent = parent, !.kind = kind, !.depth = depth]
Open(id, parent, kind, depth) ==
    [R(id, parent, kind, depth) EXCEPT !.open = TRUE, !.hasKids = TRUE]
Closed(id, parent, kind, depth) == [R(id, parent, kind, depth) EXCEPT !.hasKids = TRUE]
Piece(r) == [r EXCEPT !.cont = TRUE]

B(id, kind, pieces, parent) ==
    [kind |-> kind, body |-> [k \in 1 .. pieces |-> 0], parent |-> parent,
     gone |-> "no", of |-> id]

PageOf(rs, blk) == [rows |-> Fresh(<<R(Page, Page, "title", 0)>> \o rs, {}), blk |-> blk]

(* A list item and a paragraph. *)
PlainPage == PageOf(<<R(1, Page, "list", 0), R(2, Page, "text", 0)>>,
                    <<B(1, "list", 1, Page), B(2, "text", 1, Page)>>)

(* A block split in two pieces, and a divider. *)
SplitPage == PageOf(<<R(1, Page, "list", 0), Piece(R(1, Page, "list", 0)), R(2, Page, "divider", 0)>>,
                    <<B(1, "list", 2, Page), B(2, "divider", 1, Page)>>)

(* An open toggle with a child, and a block below it. *)
TogglePage == PageOf(<<Open(1, Page, "toggle", 0), R(2, 1, "text", 1), R(3, Page, "text", 0)>>,
                     <<B(1, "toggle", 1, Page), B(2, "text", 1, 1), B(3, "text", 1, Page)>>)

(* A closed toggle whose child is not loaded, and a block below it. *)
ClosedPage == PageOf(<<Closed(1, Page, "toggle", 0), R(3, Page, "text", 0)>>,
                     <<B(1, "toggle", 1, Page), B(2, "text", 1, 1), B(3, "text", 1, Page)>>)

(* A toggle in a toggle. *)
NestedPage == PageOf(<<Open(1, Page, "toggle", 0), Open(2, 1, "toggle", 1), R(3, 2, "text", 2)>>,
                     <<B(1, "toggle", 1, Page), B(2, "toggle", 1, 1), B(3, "text", 1, 2)>>)

EditPages    == {PlainPage, SplitPage}
MovePages    == {TogglePage, NestedPage, ClosedPage}
RetypePages  == {PlainPage, SplitPage, TogglePage, ClosedPage}
OneToggle    == {TogglePage}
Nested       == {NestedPage}
OpenOrClosed == {TogglePage, ClosedPage}
=============================================================================
