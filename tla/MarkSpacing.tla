------------------------------ MODULE MarkSpacing ------------------------------
(***************************************************************************)
(* The census's spacing walk: on each side of a lone separator or dash,    *)
(* the class of the nearest visible grapheme and whether the mark clings   *)
(* to it.  It is fed verse by verse; a side that meets the end of its      *)
(* verse is spaced, and its neighbour is read across the seam: on the left *)
(* it is carried, on the right the mark waits for the next visible verse.  *)
(*                                                                         *)
(* A grapheme is [glyph, kind], kind of "mark" (a lone candidate), "space" *)
(* "letter", "number" or "other".                                          *)
(***************************************************************************)
EXTENDS Tallies, FiniteSets

NeighbourClass(u) == IF u.kind \in {"letter", "number"} THEN u.kind ELSE "punct"

SideRead(class, form) == [class |-> class, form |-> form]

NoClass == "none"

NoSide == SideRead(NoClass, "none")

(* A seam is whitespace; at the edge of the book there is no neighbour.    *)
AcrossSeam(class) == IF class = NoClass THEN NoSide ELSE SideRead(class, "spaced")

Visible(verse) == { i \in DOMAIN verse : verse[i].kind # "space" }

Beside(verse, i, k) ==
    SideRead(NeighbourClass(verse[k]), IF k \in {i - 1, i + 1} THEN "attached" ELSE "spaced")

LeftRead(verse, i, cross) ==
    LET before == { k \in Visible(verse) : k < i } IN
    IF before = {} THEN AcrossSeam(cross) ELSE Beside(verse, i, Max(before))

(* The highlight begins at the space crossed, or at the neighbour.         *)
LeftSpan(verse, i) ==
    LET before == { k \in Visible(verse) : k < i } IN
    IF before = {} THEN <<i, i>>
    ELSE IF i - 1 \in before THEN <<i - 1, i>> ELSE <<Max(before) + 1, i>>

RightRead(verse, i) ==
    LET after == { k \in Visible(verse) : k > i } IN
    IF after = {} THEN NoSide ELSE Beside(verse, i, Min(after))

RightSpan(verse, i) ==
    LET after == { k \in Visible(verse) : k > i } IN
    IF after = {} THEN <<i, i>>
    ELSE IF i + 1 \in after THEN <<i, i + 1>> ELSE <<i, Min(after) - 1>>

(* The marks of a verse, the right side of its last visible one open.      *)
WalkOpportunities(v, verse, cross) ==
    LET IsMark(i) == verse[i].kind = "mark"
        marks == SelectSeq([i \in DOMAIN verse |-> i], IsMark) IN
    [n \in DOMAIN marks |->
        [at |-> <<v, marks[n]>>, mark |-> verse[marks[n]].glyph,
         left |-> LeftRead(verse, marks[n], cross), right |-> RightRead(verse, marks[n]),
         left_span |-> LeftSpan(verse, marks[n]), right_span |-> RightSpan(verse, marks[n])]]

NewAcc == [sites |-> <<>>, left_cross |-> NoClass, pending |-> <<>>]

ResolvePending(acc, class) ==
    [acc EXCEPT !.sites = @ \o [n \in DOMAIN acc.pending |->
                                  [acc.pending[n] EXCEPT !.right = AcrossSeam(class)]],
                !.pending = <<>>]

WithOpportunities(acc, raws, edge) ==
    [acc EXCEPT !.sites = @ \o SelectSeq(raws, LAMBDA raw : raw.right # NoSide),
                !.pending = SelectSeq(raws, LAMBDA raw : raw.right = NoSide),
                !.left_cross = edge]

VisibleVerse(acc, v, verse) ==
    WithOpportunities(ResolvePending(acc, NeighbourClass(verse[Min(Visible(verse))])),
                      WalkOpportunities(v, verse, acc.left_cross),
                      NeighbourClass(verse[Max(Visible(verse))]))

FedVerseEager(acc, v, verse) ==      \* mutant: a blank verse ends the wait of a mark
    IF Visible(verse) = {} THEN ResolvePending(acc, NoClass) ELSE VisibleVerse(acc, v, verse)

(* A verse without a visible grapheme leaves what is carried as it is.     *)
FedVerse(acc, v, verse) ==
    IF Visible(verse) = {} THEN acc ELSE VisibleVerse(acc, v, verse)

(* A book: its verses in order, whatever chapters they are in.             *)
SpacingSites(verses) ==
    LET acc[v \in 0 .. Len(verses)] ==
            IF v = 0 THEN NewAcc
            ELSE Only({ FedVerse(before, v, verses[v]) : before \in {acc[v - 1]} })
    IN ResolvePending(acc[Len(verses)], NoClass).sites
==============================================================================
