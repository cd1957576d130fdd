---------------------------- MODULE TextEditing -----------------------------
(***************************************************************************)
(* The rows of one Notion block from its rich text, and the user's edits   *)
(* of them: load (response_parser.cpp), typing, pasting, deleting, Return, *)
(* undo (content_events.cpp, block_ops.cpp), a style from the menu         *)
(* (menu.cpp), a page link (block_ops.cpp), an emoji (picker_window.cpp),  *)
(* and the save that writes the runs back (save_pipeline.cpp,              *)
(* rich_text_json.cpp).                                                    *)
(*                                                                         *)
(* want is what the user has before their eyes, a character at a time; it  *)
(* is kept without runs, positions or sequences, and is what the rows are  *)
(* held against.                                                           *)
(***************************************************************************)
EXTENDS TextRuns

CONSTANTS
    Blocks,       \* the rich texts a block may come with: [splittable, items]
    Pages, Title, \* the pages one can link to, and each one's title
    Pastes,       \* what is pasted at once
    Keys,         \* the characters typed
    Lookback,     \* kSplitLookback
    Headroom,     \* kPieceHeadroom
    MaxPieces,    \* kMaxPieces
    MaxRows,      \* gMaxBlocks
    MaxEdits,     \* bound: edits in a behaviour
    OverSame,     \* an insertion may begin with the character it replaces
    Crowded,      \* rows with links are typed in when their runs are nearly all used
    PartOfLink,   \* part of a web link may have another style than the rest
    StaleRuns,    \* Return, styles, undo and emoji also before the runs follow what TextEdit shows
    LentUnderline, \* text may come in outside a link with the link's display underline
    Unsequenced,  \* Return also in rows with emoji that have no sequence
    LowMemory     \* where memory may be short: "save", "link" (a page link's), "list" (the page list's)

ASSUME EditingAssumption ==
    /\ {Lookback, Headroom, MaxPieces, MaxEdits} \subseteq Nat /\ MaxRows \in Nat \ {0}
    /\ Headroom < MaxText
    /\ {OverSame, Crowded, PartOfLink, StaleRuns, LentUnderline, Unsequenced} \subseteq BOOLEAN
    /\ LowMemory \subseteq {"save", "link", "list"}

Links == [kind : {"none", "site"}, of : Seq(STRING)] \cup [kind : {"page"}, of : Seq(Pages)]

TextRun == [len : Nat, style : Styles, link : Links, auto : BOOLEAN]

Row == [text : Seq(STRING), runs : Seq(TextRun), emoji : Seq(Nat), face : Seq(Styles),
        runsDirty : BOOLEAN, cont : BOOLEAN, cutShort : BOOLEAN, serial : Nat]

(* An item of rich text, and what Notion, the keys and the pages give. *)
Item == [style : Styles, link : Links, text : Seq([ch : STRING, emoji : Nat])]

ASSUME InputAssumption ==
    /\ \A block \in Blocks : block.items \in Seq(Item)
    /\ Pastes \subseteq Seq(STRING) \ {<<>>} /\ Keys \cup {Emoji} \subseteq STRING /\ Emoji \notin Keys
    /\ \A page \in Pages : Title[page] \in Seq(STRING) /\ Len(Title[page]) <= MaxText

VARIABLES
    rows,         \* pageElm, as far as text goes
    undo,         \* gUndo, sUndoSerial, sUndoTyping, and what was wanted then
    want,         \* history: each row's characters as the user sees them
    edits,        \* how many edits there were
    lost          \* history: a row has needed more runs than there are, or memory there was not

vars == <<rows, undo, want, edits, lost>>

NewRow(serial, cont) ==
    [text |-> <<>>, runs |-> <<>>, emoji |-> <<>>, face |-> <<>>, runsDirty |-> FALSE,
     cont |-> cont, cutShort |-> FALSE, serial |-> serial]

-----------------------------------------------------------------------------
(* Loading: an item of rich text is [style, link, text], a character of it
   [ch, emoji].  st is the loader: the pieces done, the one being filled, the
   run of the current item in it, and whether text had to be given up. *)

RichTextChars(items) == FoldLeft(LAMBDA n, it : n + Len(it.text), 0, items)

Fill(block) == IF block.splittable /\ RichTextChars(block.items) > MaxText
               THEN MaxText - Headroom ELSE MaxText

Chars(text) == [c \in DOMAIN text |-> text[c].ch]

(* parseRunLink: a link whose text is the address. *)
IsTextUrl(it) ==
    /\ it.link.kind = "site" /\ ~UrlCut(it)
    /\ it.link.of = Chars(it.text) /\ IsUrlChars(it.link.of)

(* Where a full piece is cut: after a space near its end, but never through
   a mention. *)
CutBeside(runs, i, cut) ==
    LET rs == RunStart(runs, i)
        re == RunEnd(runs, i)
    IN  IF IsMention(runs[i]) /\ rs < cut /\ cut < re
        THEN IF rs > 0 THEN rs ELSE re ELSE cut

CutAt(c, atSpace) ==
    LET near   == Max({2, Len(c.text) - Lookback + 1}) .. Len(c.text)
        spaces == {i \in near : atSpace /\ c.text[i] = Space}
        cut[n \in 0 .. Len(c.runs)] ==
            IF n = 0 THEN IF spaces = {} THEN Len(c.text) ELSE Max(spaces)
            ELSE CutBeside(c.runs, n, cut[n - 1])
    IN  cut[Len(c.runs)]

GiveUp(st) == [st EXCEPT !.failed = TRUE]

(* SplitPiece: the piece is done up to the cut, the next goes on with the rest. *)
SplitPiece(block, st, atSpace) ==
    LET c    == st.c
        cut  == CutAt(c, atSpace)
        runs == SplitRunsAt(c.runs, cut)
        keep == Min({Sentinels(SubSeq(c.text, 1, cut)), Len(c.emoji)})
        gone == Len(c.runs) - Len(runs[2])
        done == [c EXCEPT !.text = SubSeq(c.text, 1, cut), !.runs = runs[1],
                          !.emoji = SubSeq(c.emoji, 1, keep)]
        next == [NewRow(c.serial + 1, TRUE) EXCEPT
                     !.text = SubSeq(c.text, cut + 1, Len(c.text)), !.runs = runs[2],
                     !.emoji = SubSeq(c.emoji, keep + 1, Len(c.emoji))]
    IN  IF ~block.splittable \/ c.serial >= MaxPieces \/ c.serial >= MaxRows THEN GiveUp(st)
        ELSE [st EXCEPT !.pieces = Append(@, done), !.c = next, !.item = Max({0, @ - gone})]

(* The item has a run in the piece. *)
Begun(st, it) ==
    IF st.failed \/ st.item > 0 THEN st
    ELSE [st EXCEPT !.c.runs = Append(@, Run(0, it.style, it.link, IsTextUrl(it))),
                    !.item = Len(st.c.runs) + 1]

(* Mutant: a run is begun where none is free. *)
BeginWithoutSlot(block, st, it, left) ==
    LET noRoom == it.link.kind = "page" /\ st.c.text # <<>> /\ left > Fill(block) - Len(st.c.text)
    IN  Begun(IF noRoom THEN SplitPiece(block, st, FALSE) ELSE st, it)

(* The item's run in the piece: a new run needs a slot, a mention its room. *)
BeginRun(block, st, it, left) ==
    LET noRun  == st.item = 0 /\ Len(st.c.runs) >= MaxRuns
        noRoom == it.link.kind = "page" /\ st.c.text # <<>> /\ left > Fill(block) - Len(st.c.text)
    IN  Begun(IF noRun \/ noRoom THEN SplitPiece(block, st, FALSE) ELSE st, it)

(* The next character does not fit: the text is full, or the emoji are. *)
Full(block, st, ch) ==
    Len(st.c.text) >= Fill(block) \/ (ch.ch = Emoji /\ Len(st.c.emoji) >= MaxEmoji)

(* The piece is full: the item goes on in a new one. *)
NextPiece(block, st, it, k) ==
    LET split == SplitPiece(block, st, TRUE)
    IN  IF st.c.text = <<>> THEN GiveUp(st)
        ELSE IF split.failed THEN split
        ELSE BeginRun(block, split, it, Len(it.text) - k + 1)

(* Pieces, until one has room for character k: each takes one of MaxPieces. *)
MakeRoom(block, st, it, k) ==
    LET room[n \in 0 .. MaxPieces + 1] ==
            IF n = 0 THEN st
            ELSE IF room[n - 1].failed \/ ~Full(block, room[n - 1], it.text[k]) THEN room[n - 1]
            ELSE NextPiece(block, room[n - 1], it, k)
    IN  room[MaxPieces + 1]

(* The character goes to the piece and to the item's run. *)
PutChar(st, ch) ==
    IF st.failed THEN st
    ELSE [st EXCEPT !.c.text = Append(@, ch.ch),
                    !.c.runs[st.item] = Longer(@, 1),
                    !.c.emoji = IF ch.ch = Emoji THEN Append(@, ch.emoji) ELSE @]

TakeChar(block, st, it, k) == PutChar(MakeRoom(block, st, it, k), it.text[k])

TakeItem(block, st, it) ==
    LET begun == BeginRun(block, [st EXCEPT !.item = 0], it, Len(it.text))
        taken[k \in 0 .. Len(it.text)] ==
            IF k = 0 THEN begun ELSE TakeChar(block, taken[k - 1], it, k)
    IN  IF st.failed THEN st ELSE taken[Len(it.text)]

(* BlockLoadedPartially: the piece has emoji or links it cannot give back. *)
LoadedPartially(c) ==
    Sentinels(c.text) > Len(c.emoji) \/ \E i \in DOMAIN c.runs : UrlCut(c.runs[i])

(* The pieces as rows, all of them marked when some text was left out or the
   last piece is not whole. *)
RowsOf(st) ==
    LET all == Append(st.pieces, st.c)
        cut == st.failed \/ LoadedPartially(st.c)
    IN  [i \in DOMAIN all |-> [ApplyRunStyles(all[i]) EXCEPT !.cutShort = cut]]

(***************************************************************************)
(* ParseRichTextPieces: the rows the block's text takes, in order.         *)
(***************************************************************************)
ParseRichTextPieces(block) ==
    LET read[n \in 0 .. Len(block.items)] ==
            IF n = 0
            THEN [pieces |-> <<>>, c |-> NewRow(1, FALSE), item |-> 0, failed |-> FALSE]
            ELSE TakeItem(block, read[n - 1], block.items[n])
    IN  RowsOf(read[Len(block.items)])

-----------------------------------------------------------------------------
(* What the user sees: [ch, style, link, auto, inst, emoji]; inst tells the
   links and mentions of the page apart, and style is without the underline
   that every link is shown with. *)

Seen(ch, style, link, auto, inst, emoji) ==
    [ch |-> ch, style |-> style, link |-> link, auto |-> auto, inst |-> inst, emoji |-> emoji]

(* The links given (by inst) stop following their text. *)
Freeze(w, insts) == [c \in DOMAIN w |-> IF w[c].inst \in insts THEN [w[c] EXCEPT !.auto = FALSE] ELSE w[c]]

(* A link that goes across position pos, if any. *)
Across(w, pos) ==
    IF 0 < pos /\ pos < Len(w) /\ w[pos].inst # 0 /\ w[pos].inst = w[pos + 1].inst
    THEN {w[pos].inst} ELSE {}

(* What Notion has, for rows of these lengths. *)
WantLoaded(block, loaded) ==
    LET start(i) == FoldLeft(LAMBDA n, it : n + Len(it.text), 0, SubSeq(block.items, 1, i - 1))
        all == FoldLeft(LAMBDA acc, i :
                   acc \o [c \in DOMAIN block.items[i].text |->
                       LET it == block.items[i] IN
                       Seen(it.text[c].ch, it.style, it.link, IsTextUrl(it),
                            IF it.link = NoLink THEN 0 ELSE i, it.text[c].emoji)],
                   <<>>, [i \in DOMAIN block.items |-> i])
        upto(r) == FoldLeft(LAMBDA n, b : n + Len(b.text), 0, SubSeq(loaded, 1, r))
        cuts == UNION {Across(all, upto(r)) : r \in 1 .. Len(loaded) - 1}
    IN  [r \in DOMAIN loaded |->
            SubSeq(Freeze(all, cuts), upto(r - 1) + 1,
                   IF r = Len(loaded) THEN Len(all) ELSE upto(r))]

(* The character before position s, or else the first; 0 if there is none. *)
Before(seq, s) == IF seq = <<>> THEN 0 ELSE IF s > 0 THEN s ELSE 1

StyleOf(w, c) == IF c = 0 THEN {} ELSE w[c].style

(* The character looks underlined, but only because it is a link's. *)
Lends(w, c) == c # 0 /\ w[c].link # NoLink /\ "underline" \notin w[c].style

(***************************************************************************)
(* An edit as the user means it: what comes in goes with the character     *)
(* before it (or the first one) and has this style, in a link underlined   *)
(* as the link is; a space at the edge of a link and anything beside a     *)
(* mention stay out of it; an address that is its own text follows it.     *)
(***************************************************************************)
WantEdit(w, s, e, ins, style, emoji) ==
    LET by    == IF w = <<>> THEN Seen(Space, {}, NoLink, FALSE, 0, 0) ELSE w[Before(w, s)]
        edge  == s = 0 \/ s = Len(w) \/ w[s + 1].inst # by.inst
        out   == by.link.kind = "page" \/ (edge /\ ins # <<>> /\ ins[1] = Space)
        in    == Seen(Space, (style \ Underline) \cup (by.style \cap Underline), by.link, by.auto,
                      by.inst, 0)
        apart == Seen(Space, style, NoLink, FALSE, 0, 0)
        come  == [c \in DOMAIN ins |->
                    [(IF out \/ by.link = NoLink THEN apart ELSE in)
                        EXCEPT !.ch = ins[c], !.emoji = IF ins[c] = Emoji THEN emoji ELSE 0]]
        new   == Splice(w, s, e, come)
        of(i) == Chars(SelectSeq(new, LAMBDA c : c.inst = i))
    IN  [c \in DOMAIN new |->
            IF ~new[c].auto THEN new[c]
            ELSE IF ~IsUrlChars(of(new[c].inst)) THEN [new[c] EXCEPT !.auto = FALSE]
            ELSE IF Len(of(new[c].inst)) > MaxUrl THEN new[c]
            ELSE [new[c] EXCEPT !.link = Site(of(new[c].inst))]]

(* How many runs a row of such characters needs. *)
RunsNeeded(w) ==
    Cardinality({c \in DOMAIN w : c = 1 \/
        LET a == w[c - 1]
            b == w[c]
        IN  \/ a.style # b.style \/ a.link # b.link \/ a.auto # b.auto
            \/ a.link.kind = "page" /\ a.inst # b.inst})

(* A link with two styles. *)
TwoStyled(w) ==
    \E c, d \in DOMAIN w : w[c].inst # 0 /\ w[c].inst = w[d].inst /\ w[c].style # w[d].style

(* The row as Notion reads it: a mention is one thing, whatever its text. *)
Meaning(w, sameItem(_, _)) ==
    LET first == SelectSeq([c \in DOMAIN w |-> c],
                     LAMBDA c : c = 1 \/ w[c].link.kind # "page" \/ ~sameItem(w[c - 1], w[c]))
    IN  [k \in DOMAIN first |->
            LET c == w[first[k]]
            IN  IF c.link.kind = "page"
                THEN [ch |-> "@", style |-> c.style, link |-> c.link, emoji |-> 0]
                ELSE [ch |-> c.ch, style |-> c.style, link |-> c.link, emoji |-> c.emoji]]

WantedMeaning(w) == Meaning(w, LAMBDA a, b : a.inst = b.inst)
WrittenMeaning(b) == Meaning(Written(b), LAMBDA x, y : x.item = y.item)

-----------------------------------------------------------------------------
NoUndo == [serial |-> 0, typing |-> FALSE, text |-> <<>>, runs |-> <<>>, emoji |-> <<>>, want |-> <<>>]

(* UndoBegin: typing goes on with the step it began. *)
UndoBegin(b, w, typing) ==
    IF typing /\ undo.typing /\ undo.serial = b.serial THEN undo
    ELSE [serial |-> b.serial, typing |-> typing, text |-> b.text, runs |-> b.runs,
          emoji |-> b.emoji, want |-> w]

(* The runs show what the user sees. *)
Agree(text, runs, w) == \A c \in DOMAIN text : RunOf(runs, c).style = w[c].style

Steady(r) == ~StaleRuns => Agree(rows[r].text, rows[r].runs, want[r])

(* A link is beside hardly any free run. *)
IsCrowded(b) == Len(b.runs) + 2 > MaxRuns /\ \E i \in DOMAIN b.runs : b.runs[i].link # NoLink

LastPiece(r) == ~(r < Len(rows) /\ rows[r + 1].cont)

(* One past the last row of the block at row r. *)
GroupEnd(r) == Min({k \in r + 1 .. Len(rows) + 1 : k > Len(rows) \/ ~rows[k].cont})

(* External (TextEdit): what comes in has the style of the character before
   it, or of the first one it replaces; the characters it may be. *)
Sources(text, s, e) == {Before(text, s)} \cup (IF e > s THEN {s + 1} ELSE {})

Shown(b, c) == IF c = 0 THEN {} ELSE b.face[c]

(* SyncBlockTextKeepRuns, and HandleKeyDown likewise: SyncEmojiSeqs and
   AdjustRunsForEdit see the old row, then the text is new. *)
EditRow(b, s, e, ins, shown, emoji) ==
    LET new == Splice(b.text, s, e, ins)
    IN  [b EXCEPT !.emoji = SyncEmojiSeqs(b, new, s + Len(ins), emoji),
                  !.runs  = AdjustRunsForEdit(b, new, s + Len(ins)),
                  !.text  = new, !.runsDirty = TRUE,
                  !.face  = Splice(@, s, e, [c \in DOMAIN ins |-> shown])]

(* A key, besides: what it puts beside a link is not underlined like it. *)
KeyRow(b, s, e, ins, shown) ==
    LET new == EditRow(b, s, e, ins, shown, <<>>)
    IN  [new EXCEPT !.face = ClearLinkUnderline(@, LinkUnderlined(b, new.text, s + Len(ins)))]

(* The rows a save gets to, and those of them it has no memory for. *)
Prepared(list, reached, short) ==
    [r \in DOMAIN list |-> IF r \notin reached THEN list[r]
                           ELSE IF r \in short THEN NoMemory(list[r])
                           ELSE RebuildRunsFromTE(list[r])]

Short(list) == {r \in DOMAIN list : "save" \in LowMemory /\ TakesMemory(list[r])}

Edited(r, b, w) ==
    /\ rows' = [rows EXCEPT ![r] = b]
    /\ want' = [want EXCEPT ![r] = w]

Counted(gone) ==
    /\ edits' = edits + 1
    /\ lost' = (lost \/ gone \/ \E r \in DOMAIN want' : RunsNeeded(want'[r]) > MaxRuns)

(* A row below row r. *)
Inserted(seq, at, x) == SubSeq(seq, 1, at - 1) \o <<x>> \o SubSeq(seq, at, Len(seq))

Init ==
    \E block \in Blocks :
        /\ rows = ParseRichTextPieces(block)
        /\ want = WantLoaded(block, rows)
        /\ undo = NoUndo
        /\ edits = 0
        /\ lost = FALSE

(* A key, over the selection s .. e; one that changes nothing goes unnoticed. *)
Type(r, s, e, ch) ==
    LET b    == rows[r]
        w    == want[r]
        sel  == SnapSelectionForEdit(b, s, e, "type")
        over == SubSeq(b.text, sel[1] + 1, sel[2])
    IN  /\ ~b.cutShort
        /\ Len(b.text) - Len(over) < MaxText
        /\ over # <<ch>>
        /\ ~OverSame => ~(over # <<>> /\ over[1] = ch)
        /\ ~Crowded => ~IsCrowded(b)
        /\ \E from \in Sources(b.text, sel[1], sel[2]) :
               /\ ~LentUnderline => (Lends(w, from) <=> Lends(w, Before(w, sel[1])))
               /\ Edited(r, KeyRow(b, sel[1], sel[2], <<ch>>, Shown(b, from)),
                         WantEdit(w, sel[1], sel[2], <<ch>>, StyleOf(w, from), 0))
        /\ ~PartOfLink => ~TwoStyled(want'[r])
        /\ undo' = UndoBegin(b, w, TRUE)
        /\ Counted(FALSE)

(* Cmd-V, over the selection: the style is TextEdit's, underline and all. *)
Paste(r, s, e, ins) ==
    LET b    == rows[r]
        w    == want[r]
        sel  == SnapSelectionForEdit(b, s, e, "type")
        over == SubSeq(b.text, sel[1] + 1, sel[2])
        new  == edits + 1
    IN  /\ ~b.cutShort
        /\ Len(b.text) - Len(over) + Len(ins) <= MaxText
        /\ ~OverSame => ~(over # <<>> /\ over[1] = ins[1])
        /\ ~Crowded => ~IsCrowded(b)
        /\ \E from \in Sources(b.text, sel[1], sel[2]) :
               /\ Edited(r, EditRow(b, sel[1], sel[2], ins, Shown(b, from), [k \in DOMAIN ins |-> new]),
                         WantEdit(w, sel[1], sel[2], ins, StyleOf(w, from), new))
               /\ ~LentUnderline => (Lends(w, from) => want'[r][sel[1] + 1].link # NoLink)
        /\ ~PartOfLink => ~TwoStyled(want'[r])
        /\ undo' = UndoBegin(b, w, FALSE)
        /\ Counted(FALSE)

(* InsertPickedEmoji, and the updateBlocks after it: a fresh TextEdit record
   shows the runs as the edit left them.  There is no step to undo. *)
PickEmoji(r, s, e) ==
    LET b    == rows[r]
        w    == want[r]
        sel  == SnapSelectionForEdit(b, s, e, "type")
        over == SubSeq(b.text, sel[1] + 1, sel[2])
        row  == ApplyRunStyles(EditRow(b, sel[1], sel[2], <<Emoji>>, {}, <<edits + 1>>))
        new  == IF w = <<>> THEN RunOf(row.runs, 1).style ELSE StyleOf(w, Before(w, sel[1]))
    IN  /\ ~b.cutShort
        /\ Sentinels(over) = 0 => Len(b.emoji) < MaxEmoji /\ Len(b.text) < MaxText
        /\ ~OverSame => ~(over # <<>> /\ over[1] = Emoji)
        /\ ~Crowded => ~IsCrowded(b)
        /\ Steady(r)
        /\ Edited(r, row, WantEdit(w, sel[1], sel[2], <<Emoji>>, new, edits + 1))
        /\ ~PartOfLink => ~TwoStyled(want'[r])
        /\ UNCHANGED undo
        /\ Counted(FALSE)

(* Backspace or Delete: the selection, or the character on that side. *)
Erase(r, s, e, key) ==
    LET b    == rows[r]
        sel  == SnapSelectionForEdit(b, s, e, key)
        gone == IF sel[1] < sel[2] THEN sel
                ELSE IF key = "backspace" THEN <<sel[1] - 1, sel[1]>> ELSE <<sel[1], sel[1] + 1>>
    IN  /\ ~b.cutShort
        /\ gone[1] >= 0 /\ gone[2] <= Len(b.text)
        /\ Edited(r, KeyRow(b, gone[1], gone[2], <<>>, {}),
                  WantEdit(want[r], gone[1], gone[2], <<>>, {}, 0))
        /\ undo' = UndoBegin(b, want[r], TRUE)
        /\ Counted(FALSE)

(* DivertBlockedKey: typing at the end of a full or protected block goes on
   in a new paragraph. *)
TypeBelow(r, ch) ==
    LET new == [NewRow(Len(rows) + 1, FALSE) EXCEPT !.text = <<ch>>, !.face = <<{}>>,
                                                   !.runsDirty = TRUE]
    IN  /\ rows[r].cutShort \/ Len(rows[r].text) >= MaxText
        /\ LastPiece(r)
        /\ Len(rows) < MaxRows
        /\ rows' = Inserted(rows, r + 1, new)
        /\ want' = Inserted(want, r + 1, <<Seen(ch, {}, NoLink, FALSE, 0, 0)>>)
        /\ undo' = UndoBegin(NewRow(Len(rows) + 1, FALSE), <<>>, TRUE)
        /\ Counted(FALSE)

(* A style from the menu: what the user sees, unless the row is out of runs. *)
Toggle(r, s, e, which) ==
    LET b      == rows[r]
        w      == want[r]
        chosen == {c \in DOMAIN w : \E d \in s + 1 .. e :
                       c = d \/ (w[c].link.kind = "page" /\ w[c].inst = w[d].inst)}
        adding == \E c \in chosen : which \notin w[c].style
        to(c)  == IF adding THEN w[c].style \cup {which} ELSE w[c].style \ {which}
        new    == [c \in DOMAIN w |-> IF c \in chosen THEN [w[c] EXCEPT !.style = to(c)] ELSE w[c]]
    IN  /\ ~b.cutShort
        /\ s < e
        /\ Steady(r)
        /\ ~PartOfLink => ~TwoStyled(new)
        /\ Edited(r, ToggleRunStyleBit(b, s, e, which), IF RunsNeeded(new) > MaxRuns THEN w ELSE new)
        /\ undo' = UndoBegin(b, w, FALSE)
        /\ Counted(FALSE)

(* Where an emoji has no sequence: an empty slot, or what was in it before. *)
Leftovers == {0, 99}

(* Return: the row is cut at the selection's end, the rest goes below.  The
   row counts as many sequences as it has emoji, whether they are there or not. *)
Return(r, s, e) ==
    LET b    == rows[r]
        w    == want[r]
        pos  == SnapSelectionForEdit(b, s, e, "return")[2]
        cut  == SplitRunsAt(b.runs, pos)
        n    == Sentinels(SubSeq(b.text, 1, pos))
        slots(x) == [k \in 1 .. n |-> IF k <= Len(b.emoji) THEN b.emoji[k] ELSE x]
        head(x) == [b EXCEPT !.text = SubSeq(b.text, 1, pos), !.runs = cut[1], !.emoji = slots(x)]
        tail == IF pos = Len(b.text) THEN NewRow(Len(rows) + 1, FALSE)
                ELSE [NewRow(Len(rows) + 1, FALSE) EXCEPT
                          !.text = SubSeq(b.text, pos + 1, Len(b.text)), !.runs = cut[2],
                          !.emoji = SubSeq(b.emoji, n + 1, Min({Len(b.emoji), n + MaxEmoji})),
                          !.runsDirty = TRUE]
        kept == Freeze(w, Across(w, pos))
    IN  /\ ~b.cutShort
        /\ LastPiece(r)
        /\ Len(rows) < MaxRows
        /\ Steady(r)
        /\ ~Unsequenced => n <= Len(b.emoji)
        /\ \E x \in Leftovers :
               rows' = Inserted([rows EXCEPT ![r] = ApplyRunStyles(head(x))], r + 1, ApplyRunStyles(tail))
        /\ want' = Inserted([want EXCEPT ![r] = SubSeq(kept, 1, pos)], r + 1,
                            SubSeq(kept, pos + 1, Len(kept)))
        /\ undo' = NoUndo
        /\ Counted(FALSE)

(* Where the page link goes in these runs, and how they are then. *)
LinkPlace(b, pos0) ==
    LET i  == RunAt(b.runs, pos0)
        in == 0 < i /\ RunStart(b.runs, i) < pos0 /\ pos0 < RunEnd(b.runs, i)
    IN  [pos |-> IF in /\ IsMention(b.runs[i]) THEN RunEnd(b.runs, i) ELSE pos0,
         cuts |-> in /\ ~IsMention(b.runs[i])]

(* The page's title goes in as a mention, in a paragraph of its own below
   where text or runs have no room for it. *)
LinkIn(r, pos0, page, list) ==
    LET b     == list[r]
        place == LinkPlace(b, pos0)
        pos   == place.pos
        parts == IF pos = 0 THEN <<<<>>, b.runs>> ELSE SplitRunsAt(b.runs, pos)
        link  == Run(Len(Title[page]), {}, PageLink(page), FALSE)
        fits  == /\ Len(b.text) + Len(Title[page]) <= MaxText
                 /\ Len(b.runs) + (IF place.cuts THEN 2 ELSE 1) <= MaxRuns
        new   == [b EXCEPT !.text = Splice(@, pos, pos, Title[page]),
                           !.runs = parts[1] \o <<link>> \o parts[2]]
        come  == [c \in DOMAIN Title[page] |->
                      Seen(Title[page][c], {}, PageLink(page), FALSE, 100 + edits, 0)]
        below == [NewRow(Len(rows) + 1, FALSE) EXCEPT !.text = Title[page], !.runs = <<link>>]
    IN  IF fits
        THEN /\ rows' = [k \in DOMAIN list |-> IF k = r THEN ApplyRunStyles(new) ELSE list[k]]
             /\ want' = [want EXCEPT ![r] = Splice(Freeze(@, Across(@, pos)), pos, pos, come)]
        ELSE /\ Len(rows) < MaxRows
             /\ rows' = Inserted(list, GroupEnd(r), ApplyRunStyles(below))
             /\ want' = Inserted(want, GroupEnd(r), come)

(* doInsertPageLink: the row's runs are rebuilt; prepareForPageList saves,
   forgets the undo and may free the TextEdit records; then the link goes in,
   or no page was picked, or there is no row for it. *)
InsertPageLink(r, pos, page) ==
    LET dirty == [rows[r] EXCEPT !.runsDirty = TRUE]
        bare  == {FALSE} \cup {TRUE : x \in {"link"} \cap LowMemory}
    IN  /\ ~rows[r].cutShort
        /\ \E none \in bare, freed \in {FALSE} \cup {TRUE : x \in {"list"} \cap LowMemory} :
            LET first == [rows EXCEPT ![r] = IF none THEN NoMemory(dirty) ELSE RebuildRunsFromTE(dirty)]
                due   == {k \in DOMAIN rows : first[k].runsDirty}
            IN  /\ none => TakesMemory(dirty)
                /\ \E reached \in SUBSET due : \E short \in SUBSET (reached \cap Short(first)) :
                    LET saved == Prepared(first, reached, short)
                        list  == [k \in DOMAIN rows |-> IF freed THEN ApplyRunStyles(saved[k]) ELSE saved[k]]
                    IN  /\ freed => \A k \in due \ reached : Steady(k)
                        /\ LinkIn(r, pos, page, list) \/ (rows' = list /\ UNCHANGED want)
                        /\ Counted(none \/ short # {})
        /\ undo' = NoUndo

(* DoUndo: the row and the snapshot change places. *)
Undo ==
    \E r \in DOMAIN rows :
        LET b == rows[r]
        IN  /\ undo.serial = b.serial
            /\ ~b.cutShort
            /\ ~StaleRuns => Agree(undo.text, undo.runs, undo.want)
            /\ Edited(r, ApplyRunStyles([b EXCEPT !.text = undo.text, !.runs = undo.runs,
                                                  !.emoji = undo.emoji, !.runsDirty = TRUE]), undo.want)
            /\ undo' = [serial |-> b.serial, typing |-> FALSE, text |-> b.text, runs |-> b.runs,
                        emoji |-> b.emoji, want |-> want[r]]
            /\ Counted(FALSE)

(* PrepareGroup of every row that is saved. *)
Save ==
    /\ \E r \in DOMAIN rows : rows[r].runsDirty /\ rows[r].text # <<>>
    /\ \E short \in SUBSET Short(rows) :
           /\ rows' = Prepared(rows, DOMAIN rows, short)
           /\ lost' = (lost \/ short # {})
    /\ UNCHANGED <<undo, want, edits>>

Edit ==
    \/ \E r \in DOMAIN rows :
        \/ \E s \in 0 .. Len(rows[r].text) : \E e \in s .. Len(rows[r].text) :
            \/ \E ch \in Keys : Type(r, s, e, ch)
            \/ \E ins \in Pastes : Paste(r, s, e, ins)
            \/ PickEmoji(r, s, e)
            \/ \E key \in {"backspace", "delete"} : Erase(r, s, e, key)
            \/ \E which \in {"bold", "underline"} : Toggle(r, s, e, which)
            \/ Return(r, s, e)
        \/ \E pos \in 0 .. Len(rows[r].text), page \in Pages : InsertPageLink(r, pos, page)
        \/ \E ch \in Keys : TypeBelow(r, ch)
    \/ Undo

Next == (edits < MaxEdits /\ Edit) \/ Save

Spec == Init /\ [][Next]_vars

-----------------------------------------------------------------------------
(* Each row holds what its fields can hold. *)
TypeOK ==
    /\ rows \in Seq(Row) /\ Len(rows) \in 1 .. MaxRows /\ DOMAIN want = DOMAIN rows
    /\ \A r \in DOMAIN rows :
        /\ Len(rows[r].text) <= MaxText /\ Len(rows[r].emoji) <= MaxEmoji
        /\ Len(rows[r].runs) <= MaxRuns
        /\ DOMAIN rows[r].face = DOMAIN rows[r].text
    /\ edits \in 0 .. MaxEdits /\ lost \in BOOLEAN

(* A row that has runs has one for every character: otherwise the save
   strips every style, link and mention of it (rich_text_json.cpp:113). *)
RunsMatchText ==
    \A r \in DOMAIN rows :
        rows[r].runs # <<>> => Total(rows[r].runs) = Len(rows[r].text)

(* The next save writes what the user sees: every style, link, mention and
   emoji is on its own characters, and no underline is written that is only a
   link's, through any edits, saves and undos, as long as no row has needed
   more runs than a row holds and memory was there for its styles. *)
AsMeant ==
    ~lost => \A r \in DOMAIN rows :
        rows[r].cutShort \/ WrittenMeaning(rows[r]) = WantedMeaning(want[r])

(* A mention's text is the whole title and nothing else: what gets into it is
   lost, since Notion shows the title (run_styles.h:39). *)
MentionsWhole ==
    \A r \in DOMAIN rows : rows[r].cutShort \/ \A i \in DOMAIN rows[r].runs :
        IsMention(rows[r].runs[i]) =>
            SubSeq(rows[r].text, RunStart(rows[r].runs, i) + 1, RunEnd(rows[r].runs, i))
                = Title[rows[r].runs[i].link.of[1]]

(* Every emoji outside a mention is written as the one it is, whatever
   happens to the styles. *)
EmojiKept ==
    \A r \in DOMAIN rows :
        LET written == Written(rows[r])
        IN  rows[r].cutShort \/ \A c \in DOMAIN written :
                want[r][c].link.kind # "page" => written[c].emoji = want[r][c].emoji
=============================================================================
