----------------------------- MODULE RepeatedText -----------------------------
(***************************************************************************)
(* The lexical substrates: doubled words and runs of a repeated letter.    *)
(* Neither lets anything cross a chapter seam, so a chapter's observation  *)
(* is final; a doubled word may straddle a verse, a run may not.           *)
(*                                                                         *)
(* A verse is a sequence of graphemes: letters with a folded and a written *)
(* form, spaces, and marks.  A word token is a maximal run of letters that *)
(* join, or a single letter of a script whose letters stand alone.         *)
(***************************************************************************)
EXTENDS Tallies, FiniteSets

Grapheme(g, folded, joins) ==
    [kind |-> "letter", glyph |-> g, folded |-> folded, joins |-> joins]

IsLetterAt(verse, i) == i \in DOMAIN verse /\ verse[i].kind = "letter"

(* The letters at i and at i + 1 are of one word.                          *)
Joined(verse, i) ==
    IsLetterAt(verse, i) /\ IsLetterAt(verse, i + 1) /\ verse[i].joins /\ verse[i + 1].joins

(* The word tokens of a verse, as index pairs, in text order.              *)
EndOfWord(verse, i) ==
    CHOOSE j \in i .. Len(verse) :
        (\A k \in i .. j - 1 : Joined(verse, k)) /\ ~ Joined(verse, j)

WordsFrom(verse, starts) == [k \in DOMAIN starts |-> <<starts[k], EndOfWord(verse, starts[k])>>]

WordsOf(verse) ==
    Only({ WordsFrom(verse, starts) : starts \in
             {IndicesIn(verse, { i \in DOMAIN verse : IsLetterAt(verse, i) /\ ~ Joined(verse, i - 1) })} })

Folded(verse, w) == [i \in 1 .. w[2] - w[1] + 1 |-> verse[w[1] + i - 1].folded]

AllSpace(verse, from, to) == \A i \in from .. to : verse[i].kind = "space"

(***************************************************************************)
(* Doubled words.                                                          *)
(***************************************************************************)
NoTail == [verse |-> 0, word |-> <<0, 0>>]

(* scan_verse: a non-empty gap of whitespace between equal words.          *)
AreDoubled(verse, a, b) ==
    /\ a[2] + 1 < b[1] /\ AllSpace(verse, a[2] + 1, b[1] - 1)
    /\ Folded(verse, a) = Folded(verse, b)

WithinVerse(v, verse, words) ==
    { [first |-> <<v, words[i]>>, second |-> <<v, words[i + 1]>>] :
        i \in { i \in 1 .. Len(words) - 1 : AreDoubled(verse, words[i], words[i + 1]) } }

(* The carried last word meets this verse's first one.                     *)
MeetsTail(before, tail, verse, first) ==
    /\ AllSpace(before, tail[2] + 1, Len(before))
    /\ AllSpace(verse, 1, first[1] - 1)
    /\ Folded(before, tail) = Folded(verse, first)

AcrossVerses(chapter, tail, v, words) ==
    IF /\ tail # NoTail /\ words # <<>>
       /\ MeetsTail(chapter[tail.verse], tail.word, chapter[v], Head(words))
    THEN { [first |-> <<tail.verse, tail.word>>, second |-> <<v, Head(words)>>] }
    ELSE {}

(* A verse with no word breaks adjacency.                                  *)
LastWordOf(v, words) == IF words = <<>> THEN NoTail ELSE [verse |-> v, word |-> Last(words)]

WithVerseOverGaps(r, chapter, v, words) ==  \* mutant: the carry outlives a wordless verse
    [hits |-> r.hits \cup AcrossVerses(chapter, r.tail, v, words)
                     \cup WithinVerse(v, chapter[v], words),
     tail |-> IF words = <<>> THEN r.tail ELSE LastWordOf(v, words)]

WithVerse(r, chapter, v, words) ==
    [hits |-> r.hits \cup AcrossVerses(chapter, r.tail, v, words)
                     \cup WithinVerse(v, chapter[v], words),
     tail |-> LastWordOf(v, words)]

DuplicateHits(chapter) ==
    LET walk[v \in 0 .. Len(chapter)] ==
            IF v = 0 THEN [hits |-> {}, tail |-> NoTail]
            ELSE Only({ WithVerse(r, chapter, v, words) :
                            r \in {walk[v - 1]}, words \in {WordsOf(chapter[v])} })
    IN walk[Len(chapter)].hits

(***************************************************************************)
(* Runs of three or more equal letters.                                    *)
(***************************************************************************)
Threshold == 3

NoRun == [start |-> 0, glyph |-> "", len |-> 0]

Flushed(spans, run) ==
    IF run.len >= Threshold THEN Append(spans, <<run.start, run.start + run.len - 1>>) ELSE spans

WithLetter(r, i, letter) ==
    IF letter # "" /\ letter = r.run.glyph
    THEN [r EXCEPT !.run.len = @ + 1]
    ELSE [spans |-> Flushed(r.spans, r.run),
          run |-> IF letter = "" THEN NoRun ELSE [start |-> i, glyph |-> letter, len |-> 1]]

Finished(r) == Flushed(r.spans, r.run)

(* scan_repeated_character_run, over the written or the folded letters.    *)
ScanRuns(letters) ==
    LET walk[i \in 0 .. Len(letters)] ==
            IF i = 0 THEN [spans |-> <<>>, run |-> NoRun]
            ELSE Only({ WithLetter(r, i, letters[i]) : r \in {walk[i - 1]} })
    IN Finished(walk[Len(letters)])

WrittenLetters(verse) == [i \in DOMAIN verse |-> IF verse[i].kind = "letter" THEN verse[i].glyph ELSE ""]

(* The first word token that holds the whole run, if one does.             *)
NoWord == <<>>

WordHolding(verse, words, run) ==
    LET holding == { i \in DOMAIN words : words[i][1] <= run[1] /\ run[2] <= words[i][2] } IN
    IF holding = {} THEN NoWord ELSE Folded(verse, words[Min(holding)])

RunKey(verse, words, run) ==
    [cluster |-> verse[run[1]].folded, word |-> WordHolding(verse, words, run)]

SitesIn(v, verse, words) ==
    { [verse |-> v, span |-> run, key |-> RunKey(verse, words, run)] :
        run \in Range(ScanRuns(WrittenLetters(verse))) }

RunSites(chapter) ==
    UNION { SitesIn(v, chapter[v], WordsOf(chapter[v])) : v \in DOMAIN chapter }

(* The folded words that hold a run: the other recurrence axis.            *)
HoldingRuns(words) == { w \in words : ScanRuns(w) # <<>> }

FoldedWords(verse, words) == [i \in DOMAIN words |-> Folded(verse, words[i])]

RunWords(verse) ==
    Only({ Selected(words, HoldingRuns(Range(words))) :
             words \in {FoldedWords(verse, w) : w \in {WordsOf(verse)}} })

ClustersOf(verse, runs) == [i \in DOMAIN runs |-> verse[runs[i][1]].folded]

RunClusters(verse) ==
    Only({ ClustersOf(verse, ScanRuns(letters)) : letters \in {WrittenLetters(verse)} })

(* Whitespace chunks, the denominator of a cluster's rate.                 *)
Chunks(verse) ==
    Cardinality({ i \in DOMAIN verse : /\ verse[i].kind # "space"
                                       /\ (i = 1 \/ verse[i - 1].kind = "space") })

(***************************************************************************)
(* A book's addends and the corpus aggregate.  The delta of a replacement  *)
(* is empty: the denominator moves with any verse, so only "everything"    *)
(* would be right, and every key is judged on every call.                  *)
(***************************************************************************)
NoRuns == [units |-> 0, clusters |-> EmptyBag, words |-> EmptyBag]

VerseAddend(verse) ==
    [units |-> Chunks(verse), clusters |-> Counted(RunClusters(verse)),
     words |-> Counted(RunWords(verse))]

SumOfRuns(addends) ==
    [units |-> TotalOf([i \in DOMAIN addends |-> addends[i].units]),
     clusters |-> SumOf([i \in DOMAIN addends |-> addends[i].clusters]),
     words |-> SumOf([i \in DOMAIN addends |-> addends[i].words])]

MapRuns(chapter) ==
    Only({ SumOfRuns(verses) :
             verses \in {[v \in DOMAIN chapter |-> Only({ VerseAddend(w) : w \in {chapter[v]} })]} })

FoldRuns(book) ==
    Only({ SumOfRuns(mapped) : mapped \in {[c \in DOMAIN book |-> MapRuns(book[c])]} })

ReplaceRuns(stats, old, new) ==
    [units |-> stats.units + new.units - old.units,
     clusters |-> Replaced(stats.clusters, old.clusters, new.clusters),
     words |-> Replaced(stats.words, old.words, new.words)]
==============================================================================
