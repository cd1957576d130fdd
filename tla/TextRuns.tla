------------------------------ MODULE TextRuns ------------------------------
(***************************************************************************)
(* The text of one row and what is known of its characters                 *)
(* (run_styles.cpp, and the page link of block_ops.cpp): the runs, each a  *)
(* stretch with one style and one link; the emoji's sequences, in the      *)
(* order of their sentinels; and the styles TextEdit shows.  An edit       *)
(* reaches this code as the new text and the caret alone, so where it was  *)
(* is worked out again from the two texts.                                 *)
(*                                                                         *)
(* A style is a set: "bold" stands for bold and italic, "underline" is     *)
(* what TextEdit also shows a link with; the link stands for all that      *)
(* TextEdit does not hold (colour, code and strikethrough go the same      *)
(* way).  A position in TextEdit is the position in the text: the pad      *)
(* spaces of an emoji are never apart from it (SnapSelectionToEmoji).      *)
(***************************************************************************)
EXTENDS Integers, SequencesExt

CONSTANTS
    MaxRuns,      \* kMaxRuns
    MaxText,      \* kMaxTextLen - 1
    MaxEmoji,     \* kMaxEmoji
    MaxUrl,       \* kMaxUrlLen - 1
    StyleCells    \* the characters of TextEdit whose styles RebuildRunsFromTE has room for

ASSUME RunsAssumption == /\ MaxRuns \in Nat \ {0}
                         /\ {MaxText, MaxEmoji, MaxUrl, StyleCells} \subseteq Nat

Emoji == "e"      \* kEmojiSentinel: which emoji it is, the sequences tell
Space == " "

(* A link is none, a web address (a sequence of characters) or a page.     *)
NoLink == [kind |-> "none", of |-> <<>>]
Site(url) == [kind |-> "site", of |-> url]
PageLink(p) == [kind |-> "page", of |-> <<p>>]

Underline == {"underline"}
Styles == SUBSET {"bold", "underline"}

(* TextRun; auto is textUrl, "link text is the URL itself". *)
Run(len, style, link, auto) == [len |-> len, style |-> style, link |-> link, auto |-> auto]

IsMention(r) == r.link.kind = "page"

(* urlCut: a link longer than url[], never written back. *)
UrlCut(r) == r.link.kind = "site" /\ Len(r.link.of) > MaxUrl

Longer(run, n) == [run EXCEPT !.len = @ + n]

(* Where run i begins (the characters before it) and ends: textOffset. *)
RunEnd(runs, i) ==
    LET end[n \in 0 .. Len(runs)] == IF n = 0 THEN 0 ELSE end[n - 1] + runs[n].len
    IN  end[i]
RunStart(runs, i) == RunEnd(runs, i - 1)
Total(runs) == RunEnd(runs, Len(runs))

(* The run of character c, 0 if the runs do not reach it. *)
RunAt(runs, c) ==
    LET reach == {i \in DOMAIN runs : RunEnd(runs, i) >= c}
    IN  IF reach = {} THEN 0 ELSE Min(reach)

(* The character's run, plain beyond the last. *)
RunOf(runs, c) ==
    LET i == RunAt(runs, c) IN IF i = 0 THEN Run(1, {}, NoLink, FALSE) ELSE runs[i]

Sentinels(text) == Cardinality({c \in DOMAIN text : text[c] = Emoji})

(* TextEdit takes kEmojiTECells = 3 characters for an emoji. *)
Cells(text) == Len(text) + 2 * Sentinels(text)

IsUrlChars(text) == text # <<>> /\ \A c \in DOMAIN text : text[c] \notin {Space, Emoji}

(* SameRunExtras of two different runs: two mentions are never one. *)
SameExtras(a, b) ==
    /\ ~IsMention(a) /\ ~IsMention(b)
    /\ a.link = b.link /\ a.auto = b.auto

(* The text between two positions replaced. *)
Splice(seq, from, to, by) ==
    SubSeq(seq, 1, from) \o by \o SubSeq(seq, to + 1, Len(seq))

(* Mutant: what begins alike is kept first, wherever the caret is. *)
EditSpanLoose(old, new, caret) ==
    LET most == Min({Len(old), Len(new)})
        p == Max({n \in 0 .. most : SubSeq(old, 1, n) = SubSeq(new, 1, n)})
        s == Max({n \in 0 .. most - p :
                      \A i \in 0 .. n - 1 : old[Len(old) - i] = new[Len(new) - i]})
    IN  <<p, s>>

(***************************************************************************)
(* EditSpan: the edit that turned the old text into the new one and ended  *)
(* at the caret, as <<what both begin with, what both end with>>.          *)
(***************************************************************************)
EditSpan(old, new, caret) ==
    LET same(n) == \A i \in 0 .. n - 1 : old[Len(old) - i] = new[Len(new) - i]
        s == Max({n \in 0 .. Min({Len(old), Len(new) - caret}) : same(n)})
        p == Max({n \in 0 .. Min({Len(old), Len(new)}) - s :
                      SubSeq(old, 1, n) = SubSeq(new, 1, n)})
    IN  <<p, s>>

(* SyncEmojiSeqs: the emoji around the edit keep their sequences, the ones
   it brought in take ins. *)
SyncEmojiSeqs(b, new, caret, ins) ==
    LET span  == EditSpan(b.text, new, caret)
        head  == Sentinels(SubSeq(new, 1, span[1]))
        mid   == Sentinels(SubSeq(new, span[1] + 1, Len(new) - span[2]))
        tail  == Sentinels(SubSeq(new, Len(new) - span[2] + 1, Len(new)))
        first == Sentinels(b.text) - tail
        all   == SubSeq(b.emoji, 1, Min({head, Len(b.emoji)}))
                 \o [k \in 1 .. mid |-> IF k <= Len(ins) THEN ins[k] ELSE 0]
                 \o SubSeq(b.emoji, first + 1, Min({first + tail, Len(b.emoji)}))
    IN  SubSeq(all, 1, Min({MaxEmoji, Len(all)}))

(* Neighbours alike in all become one run, and empty runs go. *)
MergeRun(runs, r) ==
    LET n == Len(runs)
    IN  IF r.len = 0 THEN runs
        ELSE IF n > 0 /\ runs[n].style = r.style /\ SameExtras(runs[n], r)
        THEN [runs EXCEPT ![n] = Longer(@, r.len)]
        ELSE Append(runs, r)

MergeRuns(runs) ==
    LET merged[n \in 0 .. Len(runs)] ==
            IF n = 0 THEN <<>> ELSE MergeRun(merged[n - 1], runs[n])
    IN  merged[Len(runs)]

(* SyncTextUrl: a link whose text is the address follows the edited text,
   as far as there is room for it. *)
SyncTextUrl(runs, new) ==
    [i \in DOMAIN runs |->
        LET r    == runs[i]
            text == SubSeq(new, RunStart(runs, i) + 1, RunEnd(runs, i))
        IN  IF ~r.auto THEN r
            ELSE IF ~IsUrlChars(text) THEN [r EXCEPT !.auto = FALSE]
            ELSE IF Len(text) > MaxUrl THEN r ELSE [r EXCEPT !.link = Site(text)]]

(* The run that owns the character before position p, with text before it. *)
OwnerAt(runs, p, none) ==
    LET own == {i \in DOMAIN runs : runs[i].len > 0 /\ RunEnd(runs, i) >= p}
    IN  IF p = 0 THEN 1 ELSE IF own = {} THEN none ELSE Min(own)

(* Mutant: what is typed at the edge of a mention is taken into it. *)
StepsOutOnSpace(owner, ch) == owner.link # NoLink /\ ch = Space

(* breakOut: a space at the edge of a link and anything at that of a mention. *)
StepsOut(owner, ch) == owner.link # NoLink /\ (IsMention(owner) \/ ch = Space)

(* The runs without del characters from place p on. *)
Without(runs, p, del) ==
    [i \in DOMAIN runs |-> [runs[i] EXCEPT !.len =
        @ - Max({0, Min({RunEnd(runs, i), p + del}) - Max({RunStart(runs, i), p})})]]

(* A run put into run at, behind the first head characters of it. *)
PutInto(runs, at, head, r) ==
    SubSeq(runs, 1, at - 1)
    \o <<[runs[at] EXCEPT !.len = head], r, [runs[at] EXCEPT !.len = @ - head]>>
    \o SubSeq(runs, at + 1, Len(runs))

(* Where the edit falls in the runs: ins characters came in at p, behind the
   first head characters of run at of what the deletion leaves; owner is the
   run before them, and edge tells whether they are at one end of it. *)
EditPlace(b, new, caret) ==
    LET span == EditSpan(b.text, new, caret)
        p    == span[1]
        own  == OwnerAt(b.runs, p, 1)
        cut  == Without(b.runs, p, Len(b.text) - span[1] - span[2])
        at   == OwnerAt(cut, p, Len(cut))
    IN  [p |-> p, ins |-> Len(new) - span[1] - span[2], owner |-> b.runs[own],
         edge |-> p = 0 \/ RunEnd(b.runs, own) = p, cut |-> cut, at |-> at,
         head |-> IF p = 0 THEN 0 ELSE p - RunStart(cut, at)]

(* What is inserted steps out of the link, and there are runs for that. *)
Leaves(b, place, new) ==
    LET extra == IF place.head > 0 /\ place.head < place.cut[place.at].len THEN 2 ELSE 1
    IN  /\ StepsOut(place.owner, new[place.p + 1]) /\ place.edge
        /\ Len(b.runs) < MaxRuns /\ Len(b.runs) + extra <= MaxRuns

(* What came in joins the run before it, or steps out of a link; where no runs
   are left for that, it joins. *)
PutAt(b, place, new) ==
    IF place.ins = 0 THEN place.cut
    ELSE IF Leaves(b, place, new)
    THEN PutInto(place.cut, place.at, place.head, Run(place.ins, place.owner.style, NoLink, FALSE))
    ELSE [place.cut EXCEPT ![place.at] = Longer(@, place.ins)]

(* Runs alike become one, and an address follows its text; a single run
   without a link only has its length changed. *)
AdjustAt(b, place, new) ==
    LET owner == place.owner
        kept  == MergeRuns(PutAt(b, place, new))
    IN  IF b.runs = <<>> THEN b.runs
        ELSE IF Len(b.runs) = 1 /\ owner.link = NoLink THEN <<[owner EXCEPT !.len = Len(new)]>>
        ELSE IF kept = <<>> /\ new # <<>> THEN <<Run(Len(new), owner.style, NoLink, FALSE)>>
        ELSE SyncTextUrl(kept, new)

(***************************************************************************)
(* AdjustRunsForEdit: the runs of the row once its text is new.            *)
(***************************************************************************)
AdjustRunsForEdit(b, new, caret) == AdjustAt(b, EditPlace(b, new, caret), new)

(* Mutant: what has stepped out of a link stays underlined like it. *)
UnderlinedStill(b, new, caret) == {}

(* What has stepped out of a link that is not underlined itself: TextEdit
   shows it with the link's underline. *)
LinkUnderlinedAt(b, place, new) ==
    IF b.runs # <<>> /\ place.ins > 0 /\ Leaves(b, place, new)
           /\ "underline" \notin place.owner.style
    THEN place.p + 1 .. place.p + place.ins ELSE {}

(* The outStart and outLen of AdjustRunsForEdit. *)
LinkUnderlined(b, new, caret) == LinkUnderlinedAt(b, EditPlace(b, new, caret), new)

(* ClearLinkUnderline of these characters. *)
ClearLinkUnderline(face, chars) ==
    [c \in DOMAIN face |-> IF c \in chars THEN face[c] \ Underline ELSE face[c]]

(***************************************************************************)
(* SnapSelectionForEdit: the selection, moved or widened so that no edit   *)
(* cuts a mention.                                                         *)
(***************************************************************************)
SnapToRun(runs, i, sel, key) ==
    LET rs == RunStart(runs, i)
        re == RunEnd(runs, i)
        in(x) == rs < x /\ x < re
    IN  IF ~IsMention(runs[i]) THEN sel
        ELSE IF sel[1] # sel[2]
        THEN <<IF in(sel[1]) THEN rs ELSE sel[1], IF in(sel[2]) THEN re ELSE sel[2]>>
        ELSE IF key = "backspace" /\ rs < sel[1] /\ sel[1] <= re THEN <<rs, re>>
        ELSE IF key = "delete" /\ rs <= sel[1] /\ sel[1] < re THEN <<rs, re>>
        ELSE IF in(sel[1]) THEN <<re, re>> ELSE sel

SnapSelectionForEdit(b, s, e, key) ==
    LET sel[n \in 0 .. Len(b.runs)] ==
            IF n = 0 THEN <<s, e>> ELSE SnapToRun(b.runs, n, sel[n - 1], key)
    IN  sel[Len(b.runs)]

(***************************************************************************)
(* Runs from the styles of single characters: [style, from, link, auto],   *)
(* where from is the run a character had.  The last of cap runs takes the  *)
(* rest; one that would mix a mention or two links loses its link.         *)
(***************************************************************************)
AddChar(runs, c, cap) ==
    LET n     == Len(runs)
        last  == runs[n]
        alike == last.style = c.style /\ (last.from = c.from \/ SameExtras(last, c))
        mixed == IsMention(last) \/ IsMention(c) \/ last.link # c.link
    IN  IF n = 0 THEN <<c>>
        ELSE IF alike THEN [runs EXCEPT ![n] = Longer(@, 1)]
        ELSE IF n < cap THEN Append(runs, c)
        ELSE [runs EXCEPT ![n] = [len |-> last.len + 1, style |-> last.style, from |-> last.from,
                                  link |-> IF mixed THEN NoLink ELSE last.link,
                                  auto |-> last.auto /\ ~mixed]]

CollectRuns(chars, cap) ==
    LET collected[n \in 0 .. Len(chars)] ==
            IF n = 0 THEN <<>> ELSE AddChar(collected[n - 1], chars[n], cap)
        runs == collected[Len(chars)]
    IN  [i \in DOMAIN runs |-> Run(runs[i].len, runs[i].style, runs[i].link, runs[i].auto)]

(* Character c of row b with this style and the rest from its run. *)
Styled(b, c, style) ==
    LET r == RunOf(b.runs, c)
    IN  [len |-> 1, style |-> style, from |-> RunAt(b.runs, c), link |-> r.link, auto |-> r.auto]

(* The style of a character that TextEdit shows so: the underline of a link
   is for display, that of its run counts. *)
Annotated(r, shown) ==
    IF r.link = NoLink THEN shown ELSE (shown \ Underline) \cup (r.style \cap Underline)

(* RebuildRunsFromTE: styles as TextEdit shows them, the rest from the old runs. *)
RebuildRunsFromTE(b) ==
    IF ~b.runsDirty THEN b
    ELSE IF b.text = <<>> THEN [b EXCEPT !.runs = <<Run(0, {}, NoLink, FALSE)>>]
    ELSE LET real(c) == Annotated(RunOf(b.runs, c), b.face[c])
         IN  [b EXCEPT !.runsDirty = FALSE,
                       !.runs = CollectRuns([c \in DOMAIN b.text |-> Styled(b, c, real(c))], MaxRuns)]

(* The styles of so long a row are read into memory of their own; without it
   RebuildRunsFromTE gives up, and the row has no runs. *)
TakesMemory(b) == b.runsDirty /\ b.text # <<>> /\ Cells(b.text) > StyleCells

NoMemory(b) == [b EXCEPT !.runs = <<>>]

(* ApplyRunStyles on a fresh TextEdit record: it shows the runs' styles, and
   links underlined. *)
ApplyRunStyles(b) ==
    LET display(r) == IF r.link = NoLink THEN r.style ELSE r.style \cup Underline
    IN  [b EXCEPT !.face = [c \in DOMAIN b.text |-> display(RunOf(b.runs, c))]]

(* A selection widened to the mentions it touches. *)
WidenToMentions(b, s, e) ==
    LET touched == {i \in DOMAIN b.runs : /\ IsMention(b.runs[i])
                                          /\ RunStart(b.runs, i) < e /\ RunEnd(b.runs, i) > s}
    IN  <<Min({s} \cup {RunStart(b.runs, i) : i \in touched}),
          Max({e} \cup {RunEnd(b.runs, i) : i \in touched})>>

(***************************************************************************)
(* ToggleRunStyleBit: the selection gets the style unless all of it has    *)
(* it; a mention is styled whole, and a row with no room for the runs this *)
(* takes stays as it is.                                                   *)
(***************************************************************************)
ToggleRunStyleBit(b, s, e, which) ==
    LET base   == IF b.runs = <<>> THEN [b EXCEPT !.runs = <<Run(Len(b.text), {}, NoLink, FALSE)>>]
                  ELSE b
        wide   == WidenToMentions(base, s, e)
        chosen == (wide[1] + 1) .. wide[2]
        has(c) == RunOf(base.runs, c).style
        adding == \E c \in chosen : which \notin has(c)
        to(c)  == IF c \notin chosen THEN has(c)
                  ELSE IF adding THEN has(c) \cup {which} ELSE has(c) \ {which}
        runs   == CollectRuns([c \in DOMAIN b.text |-> Styled(base, c, to(c))], Len(b.text))
        styled == \E i \in DOMAIN runs : runs[i].style # {} \/ runs[i].link # NoLink
        done   == [b EXCEPT !.runs = runs, !.runsDirty = TRUE]
    IN  IF Len(runs) > MaxRuns THEN [base EXCEPT !.runsDirty = TRUE]
        ELSE IF styled THEN ApplyRunStyles(done)
        ELSE [done EXCEPT !.face = [c \in DOMAIN b.text |-> IF c \in (s + 1) .. e THEN {} ELSE @[c]]]

(* Mutant: a run across the cut stays whole, and the rest has none there. *)
SplitRunsWhole(runs, pos) ==
    LET n == Cardinality({i \in DOMAIN runs : RunStart(runs, i) < pos})
    IN  <<SubSeq(runs, 1, n), SubSeq(runs, n + 1, Len(runs))>>

(***************************************************************************)
(* SplitRunsAt: the runs of the first pos characters and those of the      *)
(* rest.  Each half of a run cut in two keeps style and link, but is only  *)
(* part of the address.                                                    *)
(***************************************************************************)
SplitRunsAt(runs, pos) ==
    LET n      == Cardinality({i \in DOMAIN runs : RunEnd(runs, i) <= pos})
        whole  == SubSeq(runs, 1, n)
        rest   == SubSeq(runs, n + 1, Len(runs))
        inside == n < Len(runs) /\ RunStart(runs, n + 1) < pos
        part(len) == [rest[1] EXCEPT !.len = len, !.auto = FALSE]
    IN  IF inside
        THEN <<Append(whole, part(pos - RunStart(runs, n + 1))),
               <<part(RunEnd(runs, n + 1) - pos)>> \o Tail(rest)>>
        ELSE <<whole, rest>>

(***************************************************************************)
(* What a save writes of the row (AppendRichItems): a run at a time, or    *)
(* one plain item when the runs do not add up to the text.  Per character: *)
(* style, link, and which emoji the character is (0: none or dropped).     *)
(***************************************************************************)
Written(b) ==
    LET saved == RebuildRunsFromTE(b)
        valid == saved.runs # <<>> /\ Total(saved.runs) = Len(b.text)
        runs  == IF valid THEN saved.runs ELSE <<Run(Len(b.text), {}, NoLink, FALSE)>>
        which(c) == LET k == Sentinels(SubSeq(b.text, 1, c))
                    IN  IF b.text[c] = Emoji /\ k <= Len(b.emoji) THEN b.emoji[k] ELSE 0
        link(r) == IF UrlCut(r) THEN NoLink ELSE r.link
    IN  [c \in DOMAIN b.text |->
            [ch |-> b.text[c], style |-> RunOf(runs, c).style, link |-> link(RunOf(runs, c)),
             emoji |-> which(c), item |-> RunAt(runs, c)]]
=============================================================================
