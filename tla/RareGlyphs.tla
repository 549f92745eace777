------------------------------ MODULE RareGlyphs ------------------------------
(***************************************************************************)
(* Letters that hardly occur.  The judge reads corpus-wide sums; word      *)
(* detail is kept, book by book, only for letters rare in that book, on    *)
(* the argument that a letter rare in the corpus is rare in every book.    *)
(*                                                                         *)
(* A chapter mixes words with the gap units of CasingText, whose pending   *)
(* machine decides whether a word's capital was forced.                    *)
(***************************************************************************)
EXTENDS CasingText, FiniteSets

CONSTANTS
    RareCap,        \* RARE_CAP: a letter rare in a book
    Knee,           \* recurrence_k, clamped to RareCap
    ClosurePercent  \* closure_threshold: more hapax letters and the alphabet is open

ASSUME RareGlyphAssumption ==
    /\ RareCap \in Nat \ {0}
    /\ Knee \in 1 .. RareCap
    /\ ClosurePercent \in 0 .. 100

(* A word of letters, its key in the word table, and its lowercase key; a  *)
(* titlecase letter (general category Lt) is lowered in the second alone.  *)
Spelled(surface, word, lower, title, mixed) ==
    [kind |-> "word", surface |-> surface, word |-> word, lower |-> lower,
     title |-> title, mixed |-> mixed]

GlyphUnits ==
    [kind : {"word"}, surface : Seq(STRING), word : STRING, lower : STRING,
     title : BOOLEAN, mixed : BOOLEAN]
        \cup [kind : {"space", "letter", "mark", "quote"}, glyph : STRING]

(***************************************************************************)
(* Map: one chapter.  forced is "open" for the chapter's first word, whose *)
(* position what enters the chapter decides.                               *)
(***************************************************************************)
LettersOf(u) ==
    CASE u.kind = "word" -> u.surface
      [] u.kind = "letter" -> <<u.glyph>>
      [] OTHER -> <<>>

EmptyGlyphAcc ==
    [first |-> NoFirst, lead |-> [from |-> NoPending, quote |-> FALSE, other |-> FALSE],
     pending |-> NoPending, letter |-> FALSE,
     inventory |-> EmptyBag, words |-> <<>>, surfaces |-> EmptyBag]

GlyphWord(acc, u) ==
    LET pos == PosOf(FALSE, acc.pending)
        seen == IF u.word \in DOMAIN acc.words THEN acc.words[u.word].tokens ELSE 0
        info == [tokens |-> seen + 1, title |-> u.title,
                 forced |-> IF acc.first = NoFirst THEN "open"
                            ELSE IF IsForced(pos) THEN "forced" ELSE "free"] IN
    [acc EXCEPT !.first = IF @ = NoFirst THEN [@ EXCEPT !.word = u.word] ELSE @,
                !.pending = NoPending,
                !.letter = TRUE,
                !.words = [w \in (DOMAIN @) \cup {u.word} |-> IF w = u.word THEN info ELSE @[w]],
                !.surfaces = IF u.mixed THEN @ ELSE @ (+) SetToBag({<<u.surface, u.lower>>})]

GlyphUnit(acc, u) == IF u.kind = "word" THEN GlyphWord(acc, u) ELSE GapScalar(acc, u)

CountedUnit(acc, u) ==
    GlyphUnit([acc EXCEPT !.inventory = @ (+) Counted(LettersOf(u))], u)

WalkedGlyphs(chapter, at) ==
    LET acc[n \in 0 .. Len(at)] ==
            IF n = 0 THEN EmptyGlyphAcc
            ELSE Only({ CountedUnit(a, chapter[at[n][1]][at[n][2]]) :
                            a \in {AtPlace(acc[n - 1], at[n])} })
    IN acc[Len(at)]

MappedGlyphs(acc) ==
    [inventory |-> acc.inventory, words |-> acc.words, surfaces |-> acc.surfaces,
     lead |-> acc.lead, first |-> acc.first,
     tail |-> IF acc.first = NoFirst THEN NoPending ELSE acc.pending]

MapGlyphs(chapter) == MappedGlyphs(WalkedGlyphs(chapter, PlacesOf(chapter)))

(***************************************************************************)
(* Reduce: the one open position, resolved by what enters.                 *)
(***************************************************************************)
ReduceGlyphs(obs, entering) ==
    LET forced == IF IsForced(FirstPos(obs, entering)) THEN "forced" ELSE "free" IN
    [inventory |-> obs.inventory, surfaces |-> obs.surfaces,
     words |-> [w \in DOMAIN obs.words |->
                  IF obs.words[w].forced = "open" THEN [obs.words[w] EXCEPT !.forced = forced]
                  ELSE obs.words[w]]]

WithGlyphs(walk, obs) ==
    [reduced |-> Append(walk.reduced, ReduceGlyphs(obs, walk.leaving)),
     leaving |-> Leaving(obs, walk.leaving)]

ReducedGlyphs(book) ==
    LET walk[i \in 0 .. Len(book)] ==
            IF i = 0 THEN [reduced |-> <<>>, leaving |-> BookStart]
            ELSE Only({ WithGlyphs(w, obs) : w \in {walk[i - 1]}, obs \in {MapGlyphs(book[i])} })
    IN walk[Len(book)].reduced

(***************************************************************************)
(* Fold: sums, last shapes, and the word detail of the letters rare here.  *)
(***************************************************************************)
WithShapes(table, words) ==
    [w \in (DOMAIN table) \cup DOMAIN words |->
        IF w \notin DOMAIN words THEN table[w]
        ELSE IF w \notin DOMAIN table THEN words[w]
        ELSE [words[w] EXCEPT !.tokens = @ + table[w].tokens]]

WordTable(reduced) ==
    LET table[n \in 0 .. Len(reduced)] ==
            IF n = 0 THEN <<>>
            ELSE Only({ WithShapes(t, reduced[n].words) : t \in {table[n - 1]} })
    IN table[Len(reduced)]

(* <<letter, word>> to the letter's occurrences in the word's surfaces.    *)
Attributed(surfaces) ==
    [row \in UNION { Range(s[1]) \X {s[2]} : s \in DOMAIN surfaces } |->
        BagCardinality([s \in { s \in DOMAIN surfaces : s[2] = row[2] /\ row[1] \in Range(s[1]) } |->
                            surfaces[s] * Tallied(row[1], Counted(s[1]))])]

RowsOf(reduced) == Attributed(SumOf([c \in DOMAIN reduced |-> reduced[c].surfaces]))

OfLetter(g, rows) == { r \in DOMAIN rows : r[1] = g }

RareRowsBelow(rows) ==  \* mutant: a letter at the cap is pruned
    { r \in DOMAIN rows : CopiesOf(OfLetter(r[1], rows), rows) < RareCap }

(* Word detail is kept for the letters that are rare in this book.         *)
RareRows(rows) == { r \in DOMAIN rows : CopiesOf(OfLetter(r[1], rows), rows) <= RareCap }

KeepingWords(table, words) == Restrict(table, words \cap DOMAIN table)

(* The contribution that keeps these rows of the word detail.              *)
FoldKeeping(reduced, rare) ==
    [inventory |-> SumOf([c \in DOMAIN reduced |-> reduced[c].inventory]),
     rare |-> rare,
     words |-> KeepingWords(WordTable(reduced), { r[2] : r \in DOMAIN rare })]

FoldUnpruned(reduced) == FoldKeeping(reduced, RowsOf(reduced))

Pruned(rows) == Restrict(rows, RareRows(rows))

FoldGlyphs(reduced) == FoldKeeping(reduced, Pruned(RowsOf(reduced)))

TokensOf(contribution) ==
    [w \in DOMAIN contribution.words |-> contribution.words[w].tokens]

(***************************************************************************)
(* The corpus aggregate.                                                   *)
(***************************************************************************)
NoGlyphs == [inventory |-> EmptyBag, letters |-> 0, hapax |-> 0, rare |-> EmptyBag,
             tokens |-> EmptyBag, shape |-> {}]

Absent == [inventory |-> EmptyBag, rare |-> EmptyBag, words |-> <<>>]

ShapesOf(slug, contribution) ==
    { [word |-> w, book |-> slug, title |-> contribution.words[w].title,
       forced |-> contribution.words[w].forced] : w \in DOMAIN contribution.words }

Hapaxes(letters, inventory) == { g \in letters : Tallied(g, inventory) = 1 }

HapaxShiftGrowing(moved, before, after) ==  \* mutant: a hapax that recurs still counts
    Cardinality(Hapaxes(moved, after))

(* The closure gate's totals are maintained as each letter's count moves.  *)
HapaxShift(moved, before, after) ==
    Cardinality(Hapaxes(moved, after)) - Cardinality(Hapaxes(moved, before))

ReplaceGlyphs(stats, slug, old, new) ==
    LET inventory == Replaced(stats.inventory, old.inventory, new.inventory)
        moved == Moved(old.inventory, new.inventory) IN
    [inventory |-> inventory,
     letters |-> stats.letters + CopiesOf(moved, inventory) - CopiesOf(moved, stats.inventory),
     hapax |-> stats.hapax + HapaxShift(moved, stats.inventory, inventory),
     rare |-> Replaced(stats.rare, old.rare, new.rare),
     tokens |-> Replaced(stats.tokens, TokensOf(old), TokensOf(new)),
     shape |-> (stats.shape \ ShapesOf(slug, old)) \cup ShapesOf(slug, new)]

(***************************************************************************)
(* Judge: a letter's count, if it is to be reported.                       *)
(***************************************************************************)
IsClosedAlphabet(stats) ==
    /\ stats.letters > 0
    /\ 100 * stats.hapax <= ClosurePercent * stats.letters

Containers(stats, g) == { r[2] : r \in { r \in DOMAIN stats.rare : r[1] = g } }

(* All the letter's occurrences are in the word, none in a mixed token.    *)
IsSoleContainer(stats, g, w) ==
    Tallied(<<g, w>>, stats.rare) = Tallied(g, stats.inventory)

(* One recurring word: its spelling, not a slip.                           *)
IsLexical(stats, g) ==
    \E w \in Containers(stats, g) : IsSoleContainer(stats, g, w) /\ Tallied(w, stats.tokens) >= 2

(* One capitalised hapax where no capital was forced: a name.              *)
IsProperNoun(stats, g) ==
    \E w \in Containers(stats, g) :
        /\ IsSoleContainer(stats, g, w)
        /\ Tallied(w, stats.tokens) = 1
        /\ \E s \in stats.shape :
              /\ s.word = w /\ s.title /\ s.forced = "free"
              /\ \A t \in stats.shape : t.word = w => t.book <= s.book

Silenced == 0

JudgeGlyph(stats, g) ==
    LET count == Tallied(g, stats.inventory) IN
    IF /\ IsClosedAlphabet(stats)
       /\ count \in 1 .. Knee
       /\ Containers(stats, g) # {}
       /\ ~ IsLexical(stats, g)
       /\ ~ IsProperNoun(stats, g)
    THEN count ELSE Silenced
==============================================================================
