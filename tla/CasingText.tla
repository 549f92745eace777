------------------------------ MODULE CasingText ------------------------------
(***************************************************************************)
(* The casing substrate's view of a book: where each word starts, whether  *)
(* its position forces a capital, and the tallies and lowercase sites that *)
(* follow.  A chapter is mapped without knowing what entered it: its first *)
(* word is left unresolved and the gap before it is kept as a transform;   *)
(* reduction applies the transform to the state the chapter before left.   *)
(*                                                                         *)
(* A chapter is a sequence of verses, a verse a sequence of units: words,  *)
(* and the scalars of the gaps between them by what the character table    *)
(* tells the machine apart.                                                *)
(***************************************************************************)
EXTENDS Tallies

(* case is "upper", "lower", "uncased", or "mixed" for a lowercase initial  *)
(* with a capital inside, which another rule reports.                      *)
Word(w, case) == [kind |-> "word", word |-> w, case |-> case]

Space == [kind |-> "space", glyph |-> " "]

Letter == [kind |-> "letter", glyph |-> "x"]

Mark(g) == [kind |-> "mark", glyph |-> g]

Quote(g) == [kind |-> "quote", glyph |-> g]

Units ==
    [kind : {"word"}, word : STRING, case : {"upper", "lower", "uncased", "mixed"}]
        \cup [kind : {"space", "letter", "mark", "quote"}, glyph : STRING]

(***************************************************************************)
(* The pending-terminal machine, shared with the glyph substrate.          *)
(***************************************************************************)
NoPending == [glyph |-> "none", quote |-> FALSE, other |-> FALSE]

(* A terminal attaches to a letter; what follows it only adds flags.       *)
Advanced(live, letter, c) ==
    CASE c.kind \in {"space", "letter"} -> live
      [] live # NoPending /\ c.kind = "quote" -> [live EXCEPT !.quote = TRUE]
      [] live # NoPending /\ c.kind = "mark" -> [live EXCEPT !.other = TRUE]
      [] live = NoPending /\ c.kind \in {"mark", "quote"} ->
            IF letter THEN [NoPending EXCEPT !.glyph = c.glyph] ELSE NoPending

BookInitial == <<"book">>

Midflow == <<"mid">>

Forced(glyph, quoted) == <<"after", glyph, quoted>>

IsForced(pos) == pos # Midflow

PosOf(bookInitial, taken) ==
    IF bookInitial THEN BookInitial
    ELSE IF taken = NoPending \/ taken.other THEN Midflow
    ELSE Forced(taken.glyph, taken.quote)

(***************************************************************************)
(* Map: one chapter.                                                       *)
(***************************************************************************)
NoFirst == [word |-> "none", case |-> "uncased", at |-> <<>>]

Occurrence(word, pos, case) == [word |-> word, pos |-> pos, case |-> case]

(* WordStats::record: caseless words leave a key and no tally.             *)
Recorded(tally, word, pos, case) ==
    IF case = "uncased" THEN tally
    ELSE tally (+) SetToBag({Occurrence(word, pos, IF case = "upper" THEN case ELSE "lower")})

EmptyAcc ==
    [first |-> NoFirst, lead |-> [from |-> NoPending, quote |-> FALSE, other |-> FALSE],
     pending |-> NoPending, letter |-> FALSE,
     keys |-> {}, tally |-> EmptyBag, sites |-> <<>>, starts |-> 0]

(* Before the first word the gap is recorded, after it it is applied.      *)
GapScalar(acc, c) ==
    LET lead == acc.lead
        next == [acc EXCEPT !.letter = c.kind = "letter"] IN
    IF acc.first = NoFirst
    THEN [next EXCEPT !.lead = [from |-> Advanced(lead.from, acc.letter, c),
                                quote |-> lead.quote \/ c.kind = "quote",
                                other |-> lead.other \/ c.kind = "mark"]]
    ELSE [next EXCEPT !.pending = Advanced(@, acc.letter, c)]

WordStart(acc, w, at) ==
    LET pos == PosOf(FALSE, acc.pending)
        seen == [acc EXCEPT !.letter = TRUE, !.keys = @ \cup {w.word},
                            !.starts = IF w.case = "uncased" THEN @ ELSE @ + 1]
        flagged == w.case = "lower" IN
    IF acc.first = NoFirst
    THEN [seen EXCEPT !.first = [word |-> w.word, case |-> w.case, at |-> at]]
    ELSE [seen EXCEPT !.pending = NoPending,
                      !.tally = Recorded(@, w.word, pos, w.case),
                      !.sites = IF flagged
                                THEN Append(@, [at |-> at, word |-> w.word, pos |-> pos])
                                ELSE @]

(* A verse starts without the letter its predecessor may have ended on.    *)
AtPlace(acc, at) == IF at[2] = 1 THEN [acc EXCEPT !.letter = FALSE] ELSE acc

Unit(acc, u, at) == IF u.kind = "word" THEN WordStart(acc, u, at) ELSE GapScalar(acc, u)

Walked(chapter, at) ==
    LET acc[n \in 0 .. Len(at)] ==
            IF n = 0 THEN EmptyAcc
            ELSE Only({ Unit(a, chapter[at[n][1]][at[n][2]], at[n]) :
                            a \in {AtPlace(acc[n - 1], at[n])} })
    IN acc[Len(at)]

Mapped(acc) ==
    [keys |-> acc.keys, tally |-> acc.tally, sites |-> acc.sites, starts |-> acc.starts,
     lead |-> acc.lead, first |-> acc.first,
     tail |-> IF acc.first = NoFirst THEN NoPending ELSE acc.pending]

MapChapter(chapter) == Mapped(Walked(chapter, PlacesOf(chapter)))

(***************************************************************************)
(* Reduce and fold: a book.                                                *)
(***************************************************************************)
BookStart == [pending |-> NoPending, initial |-> TRUE]

(* GapEffect::apply: a live terminal is never replaced, only flagged.      *)
Applied(lead, entering) ==
    IF entering = NoPending THEN lead.from
    ELSE [entering EXCEPT !.quote = @ \/ lead.quote, !.other = @ \/ lead.other]

FirstPos(obs, entering) == PosOf(entering.initial, Applied(obs.lead, entering.pending))

LeavingAtWords(obs, entering) ==  \* mutant: a chapter without a word ends the sentence
    IF obs.first = NoFirst THEN [entering EXCEPT !.pending = obs.lead.from]
    ELSE [pending |-> obs.tail, initial |-> FALSE]

Leaving(obs, entering) ==
    IF obs.first = NoFirst
    THEN [entering EXCEPT !.pending = Applied(obs.lead, @)]
    ELSE [pending |-> obs.tail, initial |-> FALSE]

(* The chapter's words with the first one's position resolved.             *)
Reduced(obs, entering) ==
    LET f == obs.first
        pos == FirstPos(obs, entering)
        site == [at |-> f.at, word |-> f.word, pos |-> pos]
        words == [keys |-> obs.keys, starts |-> obs.starts,
                  tally |-> obs.tally, sites |-> obs.sites] IN
    IF f = NoFirst THEN words
    ELSE [words EXCEPT !.tally = Recorded(@, f.word, pos, f.case),
                       !.sites = IF f.case = "lower" THEN <<site>> \o @ ELSE @]

(* The chapters of a book in order, each under what its predecessor left.  *)
WithReduced(walk, obs) ==
    [reduced |-> Append(walk.reduced, Reduced(obs, walk.leaving)),
     leaving |-> Leaving(obs, walk.leaving)]

ReducedBook(book) ==
    LET walk[i \in 0 .. Len(book)] ==
            IF i = 0 THEN [reduced |-> <<>>, leaving |-> BookStart]
            ELSE Only({ WithReduced(w, obs) : w \in {walk[i - 1]}, obs \in {MapChapter(book[i])} })
    IN walk[Len(book)].reduced

NoWords == [keys |-> {}, tally |-> EmptyBag, starts |-> 0]

WithChapter(words, r) ==
    [keys |-> words.keys \cup r.keys, tally |-> words.tally (+) r.tally,
     starts |-> words.starts + r.starts]

FoldBook(reduced) ==
    LET fold[n \in 0 .. Len(reduced)] ==
            IF n = 0 THEN NoWords
            ELSE Only({ WithChapter(words, reduced[n]) : words \in {fold[n - 1]} })
    IN fold[Len(reduced)]
==============================================================================
