----------------------------- MODULE PairedVerses -----------------------------
(***************************************************************************)
(* The two rules that read a reference: the proportion of a verse to the   *)
(* reference's verse of the same key, and the words copied from it.        *)
(*                                                                         *)
(* A text is a sequence of units: a token has a folded word, a case shape  *)
(* and a size in graphemes, any other unit has a size.                     *)
(***************************************************************************)
EXTENDS Tallies, FiniteSets

CONSTANTS
    Reference,    \* each book's reference: its chapters, each with its token and named verses
    VerseNames,   \* the names of a target chapter's verses, in order; a name may recur
    RatioUnit,    \* a ratio of 1
    LengthKnobs,  \* min_verses, the floor of a side, z_long and z_short
    WordKnobs     \* gate share, run bonus, least score (in percent), recurrence in 10,000

(***************************************************************************)
(* Pairing: the reference chapter with the same token, and in it the verse *)
(* with the same key and as many verses of that key before it.             *)
(***************************************************************************)
ViewOf(b, c) ==
    LET paired == { i \in DOMAIN Reference[b] : Reference[b][i].token = c } IN
    IF paired = {} THEN <<>> ELSE Reference[b][Only(paired)].verses

FirstOrdinal(v) == 0        \* mutant: a recurring key is paired with its first verse

Ordinal(v) == Cardinality({ u \in 1 .. v - 1 : VerseNames[u] = VerseNames[v] })

TextsUnder(view, name) == Selected(view, { verse \in Range(view) : verse.name = name })

NoText == <<>>

SourceOf(view, v) ==
    LET texts == TextsUnder(view, VerseNames[v]) IN
    IF Ordinal(v) < Len(texts) THEN texts[Ordinal(v) + 1].text ELSE NoText

(***************************************************************************)
(* Proportionality.                                                        *)
(***************************************************************************)
Graphemes(text) == TotalOf([i \in DOMAIN text |-> text[i].size])

RatioOf(text, source) == (Graphemes(text) * RatioUnit) \div Graphemes(source)

(* A side without graphemes says nothing.                                  *)
RatiosIn(c, chapter, view) ==
    LET paired == IndicesIn(chapter, { v \in DOMAIN chapter :
            Graphemes(chapter[v]) > 0 /\ Graphemes(SourceOf(view, v)) > 0 }) IN
    [k \in DOMAIN paired |->
        [at |-> <<c, paired[k]>>, ratio |-> RatioOf(chapter[paired[k]], SourceOf(view, paired[k]))]]

MapRatios(b, book) == FlattenSeq([c \in DOMAIN book |-> RatiosIn(c, book[c], ViewOf(b, c))])

Sample(obs) == [k \in DOMAIN obs |-> obs[k].ratio]

FoldLengths(b, book) == [present |-> book # <<>>, ratios |-> Sample(MapRatios(b, book))]

(* Twice the median: the middle value, or the two around the middle.       *)
MedianTwice(values) ==
    LET sorted == SortSeq(values, <) IN
    sorted[(Len(sorted) + 1) \div 2] + sorted[Len(sorted) \div 2 + 1]

MadOf(deviations) == IF deviations = <<>> THEN 0 ELSE MedianTwice(deviations)

NoSpread == [count |-> 0, med |-> 0, mad_above |-> 0, mad_below |-> 0,
             n_above |-> 0, n_below |-> 0, mad_symmetric |-> 0]

(* The median is twice, a deviation from it twice and a MAD four times what *)
(* the code's are.                                                         *)
SpreadAround(med, ratios) ==
    LET off == [k \in DOMAIN ratios |-> 2 * ratios[k] - med]
        above == SelectSeq(off, LAMBDA d : d > 0)
        below == SelectSeq([k \in DOMAIN off |-> -off[k]], LAMBDA d : d > 0) IN
    [count |-> Len(ratios), med |-> med, mad_above |-> MadOf(above), mad_below |-> MadOf(below),
     n_above |-> Len(above), n_below |-> Len(below),
     mad_symmetric |-> MadOf([k \in DOMAIN off |-> IF off[k] < 0 THEN -off[k] ELSE off[k]])]

SpreadOf(ratios) == IF ratios = <<>> THEN NoSpread ELSE SpreadAround(MedianTwice(ratios), ratios)

NoLengths == [per_book |-> <<>>, book |-> <<>>, project |-> NoSpread]

(* The samples of all books in the order of the books.                     *)
Samples(per_book) ==
    FlattenSeq([i \in 1 .. Cardinality(DOMAIN per_book) |->
        per_book[CHOOSE b \in DOMAIN per_book : Cardinality({ a \in DOMAIN per_book : a <= b }) = i]])

WithBook(table, b, present, value) ==
    [a \in ((DOMAIN table) \ {b}) \cup (IF present THEN {b} ELSE {}) |->
        IF a = b THEN value ELSE table[a]]

(* A median is not a sum: the pooled spread is computed anew, if the book's *)
(* ratios moved.                                                           *)
ReplaceLengths(stats, b, old, new) ==
    LET per_book == WithBook(stats.per_book, b, new.present, new.ratios) IN
    [per_book |-> per_book,
     book |-> WithBook(stats.book, b, new.present, SpreadOf(new.ratios)),
     project |-> IF old = new THEN stats.project ELSE SpreadOf(Samples(per_book))]

LengthDeltaOwn(before, after, b, old, new) == IF old = new THEN {} ELSE {b}    \* mutant

(* The pooled spread is a judge input of every book.                       *)
LengthDelta(before, after, b, old, new) ==
    IF after.project # before.project THEN DOMAIN after.book
    ELSE IF old # new THEN {b} ELSE {}

(* A side with few deviations, or none of size, uses the pooled one; 0 is  *)
(* a side that cannot judge.                                               *)
SideOr(n, mad, symmetric) == IF n >= LengthKnobs.side /\ mad > 0 THEN mad ELSE symmetric

Unjudged == [med |-> 0, above |-> 0, below |-> 0]

Gated(spread) ==
    IF spread.count = 0 \/ spread.count < LengthKnobs.verses THEN Unjudged
    ELSE [med |-> spread.med,
          above |-> SideOr(spread.n_above, spread.mad_above, spread.mad_symmetric),
          below |-> SideOr(spread.n_below, spread.mad_below, spread.mad_symmetric)]

JudgeLengths(stats, b) ==
    [book |-> IF b \in DOMAIN stats.book THEN Gated(stats.book[b]) ELSE Unjudged,
     project |-> Gated(stats.project)]

(* MAD_TO_SIGMA is 0.6745; thresholds are whole here.                      *)
Exceeds(deviation, mad, z) == mad > 0 /\ 2 * 6745 * deviation > 10000 * z * mad

SideZ(r, unit) ==
    IF 2 * r > unit.med THEN [off |-> 2 * r - unit.med, mad |-> unit.above, z |-> LengthKnobs.long]
    ELSE [off |-> unit.med - 2 * r, mad |-> unit.below, z |-> LengthKnobs.short]

(* The scopes in which a ratio is an outlier, with its deviation in each.  *)
ScopesOf(r, outcome) ==
    { <<scope, SideZ(r, outcome[scope])>> :
        scope \in { scope \in DOMAIN outcome :
            LET side == SideZ(r, outcome[scope]) IN Exceeds(side.off, side.mad, side.z) } }

Outliers(obs, outcome) ==
    LET scoped == [k \in DOMAIN obs |->
            [at |-> obs[k].at, scopes |-> ScopesOf(obs[k].ratio, outcome)]] IN
    Selected(scoped, { finding \in Range(scoped) : finding.scopes # {} })

LengthFindings(stats, b, book) == Outliers(MapRatios(b, book), JudgeLengths(stats, b))

(***************************************************************************)
(* Untranslated words.                                                     *)
(***************************************************************************)
Tokens(text) == Selected(text, { u \in Range(text) : u.kind = "token" })

CopiedFrom(tokens, words) ==
    IndicesIn(tokens, { i \in DOMAIN tokens : tokens[i].word \in words })

IsName(token) == token.shape \in {"title", "caps"}

WordsAt(c, v, tokens, source) ==
    LET copied == CopiedFrom(tokens, { t.word : t \in Range(source) }) IN
    [at |-> <<c, v>>, total |-> Len(tokens),
     copied |-> [k \in DOMAIN copied |->
         [index |-> copied[k], word |-> tokens[copied[k]].word, name |-> IsName(tokens[copied[k]])]]]

WordsIn(c, chapter, view) ==
    LET paired == IndicesIn(chapter, { v \in DOMAIN chapter :
            Tokens(chapter[v]) # <<>> /\ Tokens(SourceOf(view, v)) # <<>> }) IN
    [k \in DOMAIN paired |->
        WordsAt(c, paired[k], Tokens(chapter[paired[k]]), Tokens(SourceOf(view, paired[k])))]

MapWords(b, book) == FlattenSeq([c \in DOMAIN book |-> WordsIn(c, book[c], ViewOf(b, c))])

CopiedWords(obs) ==
    FlattenSeq([k \in DOMAIN obs |-> [i \in DOMAIN obs[k].copied |-> obs[k].copied[i].word]])

NoCopies == [tokens |-> 0, copied |-> 0, words |-> EmptyBag]

FoldObserved(obs) ==
    [tokens |-> TotalOf([k \in DOMAIN obs |-> obs[k].total]),
     copied |-> TotalOf([k \in DOMAIN obs |-> Len(obs[k].copied)]),
     words |-> Counted(CopiedWords(obs))]

FoldWords(b, book) == FoldObserved(MapWords(b, book))

ReplaceWords(stats, old, new) ==
    [tokens |-> stats.tokens - old.tokens + new.tokens,
     copied |-> stats.copied - old.copied + new.copied,
     words |-> Replaced(stats.words, old.words, new.words)]

IsSilenced(stats) ==
    stats.tokens > 0 /\ 100 * stats.copied >= WordKnobs.gate * stats.tokens

(* A word that recurs is a name or a loan, not a gap.                      *)
Excused(stats) ==
    { w \in DOMAIN stats.words : 10000 * stats.words[w] >= WordKnobs.recurrence * stats.tokens }

AdjustedFirstCopied(copied, excused) ==   \* mutant: a name ends the run it begins
    IF copied # <<>> /\ copied[1].name THEN <<>>
    ELSE Selected(copied, { t \in Range(copied) : t.word \notin excused })

Adjusted(copied, excused) ==
    Selected(copied, { t \in Range(copied) : t.word \notin excused /\ ~ t.name })

(* The runs of adjacent tokens: <<first, length>> in what is left.         *)
CopiedRuns(left) ==
    LET starts == IndicesIn(left, { i \in DOMAIN left :
            i = 1 \/ left[i].index # left[i - 1].index + 1 }) IN
    [k \in DOMAIN starts |->
        <<starts[k], (IF k = Len(starts) THEN Len(left) + 1 ELSE starts[k + 1]) - starts[k]>>]

LongestOf(runs) ==
    LET longest == CHOOSE k \in DOMAIN runs :
            /\ \A j \in DOMAIN runs : runs[j][2] <= runs[k][2]
            /\ \A j \in 1 .. k - 1 : runs[j][2] < runs[k][2]
    IN runs[longest]

Emits(left, total, run) ==
    left * (100 + WordKnobs.bonus * (run - 1)) >= WordKnobs.score * total

WholeVerse == <<0, 0>>

AnchorRange(left, run) ==
    IF run[2] >= 2 THEN <<left[run[1]].index, left[run[1] + run[2] - 1].index>> ELSE WholeVerse

FoundIn(o, left, run) ==
    IF Emits(Len(left), o.total, run[2])
    THEN << [at |-> o.at, range |-> AnchorRange(left, run), run |-> run[2], copied |-> Len(left)] >>
    ELSE <<>>

JudgedWith(o, left) == IF left = <<>> THEN <<>> ELSE FoundIn(o, left, LongestOf(CopiedRuns(left)))

Copies(obs, excused) ==
    FlattenSeq([k \in DOMAIN obs |-> JudgedWith(obs[k], Adjusted(obs[k].copied, excused))])

WordFindings(stats, b, book) ==
    IF IsSilenced(stats) THEN <<>> ELSE Copies(MapWords(b, book), Excused(stats))
==============================================================================
