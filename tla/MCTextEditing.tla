---------------------------- MODULE MCTextEditing ---------------------------
(* Ten rich texts, each with something that an edit or the cut into rows *)
(* could tear.                                                           *)
EXTENDS TextEditing

C(ch) == [ch |-> ch, emoji |-> 0]
E(n) == [ch |-> Emoji, emoji |-> n]
Part(style, link, text) == [style |-> style, link |-> link, text |-> text]
Bold == {"bold"}
Block(items) == [splittable |-> TRUE, items |-> items]

(* Pages titled with letters, and the same with an emoji in one title. *)
PlainTitle == [p |-> <<"x", "y">>, q |-> <<"x", Space, "y">>]
EmojiTitle == [PlainTitle EXCEPT !.p = <<Emoji, "y">>]

Mention(page) == Part({}, PageLink(page),
                      [c \in DOMAIN Title[page] |->
                          IF Title[page][c] = Emoji THEN E(90) ELSE C(Title[page][c])])

(* An address that is its own text, and a word after it. *)
Address == Block(<<Part({}, Site(<<"x", "y">>), <<C("x"), C("y")>>),
                   Part({}, NoLink, <<C(Space), C("y")>>)>>)
(* The same page mentioned twice, side by side. *)
Twice == Block(<<Mention("p"), Mention("p")>>)
(* Emoji side by side, in bold and plain text. *)
Smileys == Block(<<Part(Bold, NoLink, <<C("x"), E(91)>>), Part({}, NoLink, <<E(92), C("x")>>)>>)
(* An underlined link on a word, a bold letter before it. *)
Word == Block(<<Part(Bold, NoLink, <<C("y")>>), Part(Underline, Site(<<"u">>), <<C("x"), C("x")>>)>>)
(* More text than a row holds, with a mention where the first row ends. *)
Long == Block(<<Part(Bold, NoLink, <<C("y")>>), Mention("q"), Part({}, NoLink, <<C("x"), C("x")>>)>>)
(* An address across the cut. *)
LongAddress == Block(<<Part({}, NoLink, <<C("y"), C(Space), C("y")>>),
                       Part({}, Site(<<"x", "y", "x">>), <<C("x"), C("y"), C("x")>>)>>)
(* More styles than a row holds. *)
Motley == Block([i \in 1 .. MaxRuns + 1 |-> Part(IF i % 2 = 0 THEN Bold ELSE {}, NoLink, <<C("x")>>)])
(* More than its rows hold, and more than a toggle's only one. *)
TooLong == Block(<<Part({}, NoLink, [c \in 1 .. 3 * MaxText |-> C("x")])>>)
ToggleTooLong == [splittable |-> FALSE,
                  items |-> <<Part(Bold, NoLink, [c \in 1 .. MaxText + 1 |-> C("x")])>>]
(* A link with more characters than a row remembers; and one in the first row of two. *)
TooLongLink == Part(Bold, Site([c \in 1 .. MaxUrl + 1 |-> "u"]), <<C("x")>>)
CutLink == Block(<<Part({}, NoLink, <<C("y")>>), TooLongLink>>)
CutLinkAbove == Block(<<TooLongLink, Part({}, NoLink, [c \in 1 .. MaxText |-> C("x")])>>)

AllBlocks == {Address, Twice, Smileys, Word, Long, LongAddress, Motley, TooLong, ToggleTooLong, CutLink}
OnlyCutLinkAbove == {CutLinkAbove}
Pasted == {<<"x", Space>>}
=============================================================================
