----------------------------- MODULE RuleEvidence -----------------------------
(***************************************************************************)
(* The statistical rules at work on an edited corpus: each maps a chapter  *)
(* alone, carries a state over the seams or clears it, folds a book, and   *)
(* keeps a corpus aggregate in which an edited book's addend is replaced.  *)
(*                                                                         *)
(* One rule at a time, over its own alphabet; an editor types a unit,      *)
(* replaces or deletes the last one, breaks a verse or a chapter, and      *)
(* removes a book.  After every edit the properties compare what the rule  *)
(* keeps with a reading of the whole corpus that knows neither the         *)
(* chapters nor the edits.                                                 *)
(***************************************************************************)
EXTENDS RareGlyphs, Brackets, RepeatedText, ScriptMixing, NormalForms, MixedShapes, NonletterRuns,
        PairedVerses, VerseScans, MarkSpacing, WordBreaks, GraphemeClusters, TokenStreams

CONSTANTS
    Rules,         \* of "casing", "brackets", "runs", "scripts", "forms", "glyphs", "nonletters",
                   \* "shapes", "lengths", "words"; of what has no aggregate: "scans", "spacing",
                   \* "tokens", "clusters"
    Alphabet(_),   \* the units a rule's texts are made of
    BookCount(_),  \* how many books its corpora may have
    MaxSize(_)     \* bounds a corpus: its units and its verses

(* A reference corpus is one too: it has the book, empty perhaps, that a   *)
(* book is measured by, its verses are listed, and no chapter opens twice. *)
ASSUME ReferenceAssumption ==
    /\ \A b \in DOMAIN Reference : \A i, k \in DOMAIN Reference[b] :
          Reference[b][i].token = Reference[b][k].token => i = k
    /\ \A r \in Rules \cap {"lengths", "words"} : \A b \in 1 .. BookCount(r) :
          /\ b \in DOMAIN Reference
          /\ Reference[b] \in Seq(Range(Reference[b]))
          /\ \A i \in DOMAIN Reference[b] :
                Reference[b][i].verses \in Seq(Range(Reference[b][i].verses))

VARIABLES
    rule,     \* the rule under way
    corpus,   \* each book's chapters of verses of units; no chapters: no book
    stats,    \* SubstrateCache::corpus_stats of the rule
    delta     \* the keys the last replacement named (UpdateOutcome)

vars == <<rule, corpus, stats, delta>>

NoBook == <<>>

Blank == <<>>

(* Nothing of these is summed over books: casing's aggregate is modelled   *)
(* apart, a scan and a segmentation are of a verse, and the census reads   *)
(* the corpus.                                                             *)
Stateless == {"casing", "scans", "spacing", "tokens", "clusters"}

(* What the rules are, and what their units are made of: a token of the     *)
(* scripts rule is the finite set of the scripts of its characters.        *)
ASSUME RulesAssumption ==
    /\ Rules \subseteq Stateless \cup {"brackets", "runs", "scripts", "forms", "glyphs", "nonletters",
                                      "shapes", "lengths", "words"}
    /\ \A r \in Rules : BookCount(r) \in Nat
    /\ "scripts" \in Rules => \A u \in Alphabet("scripts") : IsFiniteSet(u)
    /\ "glyphs" \in Rules => \A u \in Alphabet("glyphs") : u \in GlyphUnits

SizeOf(book) == Len(FlattenSeq(book)) + Len(FlattenSeq(FlattenSeq(book)))

CorpusSize == TotalOf([b \in DOMAIN corpus |-> SizeOf(corpus[b])])

(***************************************************************************)
(* A book's contribution, and its replacement in the aggregate.            *)
(***************************************************************************)
Contribution(r, b, book) ==
    CASE r \in Stateless -> Blank
      [] r = "brackets" -> Addends(BookMatch(book))
      [] r = "runs"     -> FoldRuns(book)
      [] r = "scripts"  -> FoldScripts(book)
      [] r = "forms"    -> FoldForms(book)
      [] r = "glyphs"   -> IF book = NoBook THEN Absent ELSE FoldGlyphs(ReducedGlyphs(book))
      [] r = "nonletters" -> FoldNonletters(book)
      [] r = "shapes"   -> FoldShapes(book)
      [] r = "lengths"  -> FoldLengths(b, book)
      [] r = "words"    -> FoldWords(b, book)

NoStats(r) ==
    CASE r \in Stateless -> Blank
      [] r = "brackets" -> NoAddends
      [] r = "runs"     -> NoRuns
      [] r = "scripts"  -> NoScripts
      [] r = "forms"    -> NoForms
      [] r = "glyphs"   -> NoGlyphs
      [] r \in {"nonletters", "shapes"} -> EmptyBag
      [] r = "lengths"  -> NoLengths
      [] r = "words"    -> NoCopies

NextStats(r, b, present, old, new) ==
    CASE r \in Stateless -> Blank
      [] r = "brackets" -> ReplaceBrackets(stats, old, new)
      [] r = "runs"     -> ReplaceRuns(stats, old, new)
      [] r = "scripts"  -> ReplaceScripts(stats, b, present, old, new)
      [] r = "forms"    -> ReplaceForms(stats, old, new)
      [] r = "glyphs"   -> ReplaceGlyphs(stats, b, old, new)
      [] r \in {"nonletters", "shapes"} -> Replaced(stats, old, new)
      [] r = "lengths"  -> ReplaceLengths(stats, b, old, new)
      [] r = "words"    -> ReplaceWords(stats, old, new)

(* Casing, runs and glyphs name no key, and what the words rule names is   *)
(* not used: their judges read totals that any edit moves, and every key   *)
(* is judged on every call.                                                *)
NamedKeys(r, b, next, old, new) ==
    CASE r = "brackets" -> BracketDelta(old, new)
      [] r = "scripts"  -> ScriptDelta(stats, next, old, new)
      [] r = "forms"    -> FormDelta(old, new)
      [] r = "nonletters" -> NonletterDelta(next, old, new)
      [] r = "shapes"   -> ShapeDelta(old, new)
      [] r = "lengths"  -> LengthDelta(stats, next, b, old, new)
      [] r \in Stateless \cup {"runs", "glyphs", "words"} -> {}

(* replace_book_in_corpus_stats, on a book's old and new addend.           *)
ReplaceBook(b, book) ==
    \E addend \in {[w \in {corpus[b], book} |-> Contribution(rule, b, w)]} :
        /\ stats' = NextStats(rule, b, book # NoBook, addend[corpus[b]], addend[book])
        /\ delta' = NamedKeys(rule, b, stats', addend[corpus[b]], addend[book])

(***************************************************************************)
(* The editor.  An edit says what a book becomes; its replacement in the   *)
(* aggregate is part of the same step.                                     *)
(***************************************************************************)
Init ==
    /\ rule \in Rules
    /\ corpus = [b \in 1 .. BookCount(rule) |-> NoBook]
    /\ stats = NoStats(rule)
    /\ delta = {}

HasRoom == CorpusSize < MaxSize(rule)

WithLastVerse(book, verse) ==
    Append(Front(book), Append(Front(Last(book)), verse))

LastVerse(b) == Last(Last(corpus[b]))

Becomes(b, book) == corpus' = [corpus EXCEPT ![b] = book]

AddBook(b) == HasRoom /\ corpus[b] = NoBook /\ Becomes(b, << <<Blank>> >>)

RemoveBook(b) == corpus[b] # NoBook /\ Becomes(b, NoBook)

AddUnit(b, u) ==
    HasRoom /\ corpus[b] # NoBook /\ Becomes(b, WithLastVerse(corpus[b], Append(LastVerse(b), u)))

EndVerse(b) ==
    /\ HasRoom /\ corpus[b] # NoBook
    /\ Becomes(b, Append(Front(corpus[b]), Append(Last(corpus[b]), Blank)))

EndChapter(b) ==
    HasRoom /\ corpus[b] # NoBook /\ Becomes(b, Append(corpus[b], <<Blank>>))

DeleteUnit(b) ==
    /\ corpus[b] # NoBook /\ LastVerse(b) # Blank
    /\ Becomes(b, WithLastVerse(corpus[b], Front(LastVerse(b))))

ReplaceUnit(b, u) ==
    /\ corpus[b] # NoBook /\ LastVerse(b) # Blank /\ Last(LastVerse(b)) # u
    /\ Becomes(b, WithLastVerse(corpus[b], Append(Front(LastVerse(b)), u)))

Edit(b) ==
    \/ AddBook(b)
    \/ RemoveBook(b)
    \/ EndVerse(b)
    \/ EndChapter(b)
    \/ DeleteUnit(b)
    \/ \E u \in Alphabet(rule) : AddUnit(b, u) \/ ReplaceUnit(b, u)

Next == \E b \in DOMAIN corpus : Edit(b) /\ ReplaceBook(b, corpus'[b]) /\ UNCHANGED rule

Spec == Init /\ [][Next]_vars

(***************************************************************************)
(* A corpus read without chapters.                                         *)
(***************************************************************************)
SpotsIn(c, at) == [k \in DOMAIN at |-> <<c>> \o at[k]]

(* The places <<chapter, verse, index>> of a book, in order.               *)
Spots(book) == FlattenSeq([c \in DOMAIN book |-> SpotsIn(c, PlacesOf(book[c]))])

At(b, p) == corpus[b][p[1]][p[2]][p[3]]

OfKind(b, kinds) == { p \in Range(Spots(corpus[b])) : At(b, p).kind \in kinds }

Words(b) == OfKind(b, {"word"})

Earlier(p, q) == Before(p, q)

(* What stands before p and after every word before p.                     *)
GapBefore(marks, words, p) ==
    { g \in marks : Earlier(g, p) /\ \A w \in words : Earlier(w, p) => Earlier(w, g) }

OnLetter(b, g) == g[3] > 1 /\ corpus[b][g[1]][g[2]][g[3] - 1].kind \in {"word", "letter"}

AfterTerminal(b, terminal, later) ==
    IF "mark" \in later THEN Midflow ELSE Forced(At(b, terminal).glyph, "quote" \in later)

AfterGap(b, gap, terminals) ==
    IF terminals = {} THEN Midflow
    ELSE LET terminal == First(terminals) IN
         AfterTerminal(b, terminal, { At(b, g).kind : g \in { g \in gap : Earlier(terminal, g) } })

InGap(b, gap) == AfterGap(b, gap, { g \in gap : OnLetter(b, g) })

(* The position of the word at p: what ended the text since the last word. *)
LookBack(b, marks, words, p) ==
    IF \A w \in words : ~ Earlier(w, p) THEN BookInitial
    ELSE InGap(b, GapBefore(marks, words, p))

Positions(b, marks, words) == [p \in words |-> LookBack(b, marks, words, p)]

ReadOccurrence(b, pos, p) ==
    Occurrence(At(b, p).word, pos[p], IF At(b, p).case = "upper" THEN "upper" ELSE "lower")

ReadTally(occurrences) ==
    [o \in Range(occurrences) |-> Cardinality({ p \in DOMAIN occurrences : occurrences[p] = o })]

ReadSites(b, pos, places) ==
    [i \in DOMAIN places |->
        [at |-> Tail(places[i]), word |-> At(b, places[i]).word, pos |-> pos[places[i]]]]

LowerSpots(b, c) ==
    LET IsLower(p) == p[1] = c /\ At(b, p).kind = "word" /\ At(b, p).case = "lower" IN
    SelectSeq(Spots(corpus[b]), IsLower)

ReadsAs(b, reduced, pos) ==
    /\ FoldBook(reduced).tally =
          ReadTally([p \in { p \in DOMAIN pos : At(b, p).case # "uncased" } |->
                        ReadOccurrence(b, pos, p)])
    /\ \A c \in DOMAIN corpus[b] : reduced[c].sites = ReadSites(b, pos, LowerSpots(b, c))

(* Wherever a book is cut into verses and chapters, each of its words is   *)
(* tallied, and each lowercase start kept, under the position a reader of  *)
(* the whole book gives it: the first mark written on a letter since the   *)
(* word before, however many chapters back, unless another mark follows.   *)
WordsKeepTheirPosition ==
    rule = "casing" => \A b \in DOMAIN corpus :
        ReadsAs(b, ReducedBook(corpus[b]), Positions(b, OfKind(b, {"mark", "quote"}), Words(b)))

(* A book as one line: every verse and chapter break is a space.           *)
JoinedLine(verses) ==
    LET line[n \in 0 .. Len(verses)] ==
            IF n = 0 THEN <<>>
            ELSE line[n - 1] \o (IF n = 1 THEN <<>> ELSE <<Gap>>) \o verses[n]
    IN line[Len(verses)]

Lines == [b \in DOMAIN corpus |-> JoinedLine(FlattenSeq(corpus[b]))]

(* The members of all runs, as places <<book, index in the book's line>>.   *)
Members(line) ==
    UNION { {b} \X { i \in DOMAIN line[b] : IsCandidate(line[b][i]) } : b \in DOMAIN line }

SideOf(line, i) ==
    IF i \notin DOMAIN line THEN "boundary"
    ELSE IF IsCandidate(line[i]) THEN "internal"
    ELSE OuterOf(line[i])

RunAround(all, p) ==
    { q \in all : /\ q[1] = p[1]
                  /\ \A i \in (p[2] .. q[2]) \cup (q[2] .. p[2]) : <<p[1], i>> \in all }

(* Each member with its neighbours and its run.                            *)
Reading(line, all) ==
    [unit |-> [p \in all |-> line[p[1]][p[2]]],
     start |-> [p \in all |-> SideOf(line[p[1]], p[2] - 1)],
     end |-> [p \in all |-> SideOf(line[p[1]], p[2] + 1)],
     run |-> [p \in all |-> RunAround(all, p)]]

(* What a channel sees at each member: <<pool, form>>, or nothing.         *)
Unseen == <<"none", "none">>

SideSeen(side) == IF IsObservable(side) THEN <<"side", side>> ELSE Unseen

JointSeen(start, end) ==
    IF HasTopology(start, end) THEN <<TopoClass(start, end), Topology(start, end)>>
    ELSE Unseen

PairSeen(t, p) ==
    IF t.end[p] = "internal" THEN <<"pair", PoolKey(t.unit[<<p[1], p[2] + 1>>])>> ELSE Unseen

RunSeen(t, p) ==
    IF t.start[p] # "internal" /\ \A q \in t.run[p] : t.unit[q] = t.unit[p]
    THEN <<"run", AtMost(Cardinality(t.run[p]), RunSlots)>> ELSE Unseen

SeenIn(t, all) ==
    [start |-> [p \in all |-> SideSeen(t.start[p])],
     end |-> [p \in all |-> SideSeen(t.end[p])],
     topology |-> [p \in all |-> JointSeen(t.start[p], t.end[p])],
     pair |-> [p \in all |-> PairSeen(t, p)],
     continuation |-> [p \in all |-> RunSeen(t, p)]]

Floor == [start |-> Support.pool, end |-> Support.pool, topology |-> Support.pool,
          pair |-> Support.leads, continuation |-> Support.runs]

RateIn(pool, seen, form, floor) ==
    IF Cardinality(pool) < floor THEN Abstains
    ELSE [count |-> Cardinality({ q \in pool : seen[q][2] = form }), total |-> Cardinality(pool)]

(* The other occurrences of the glyph at p, and those of its form there.   *)
Rate(t, seen, p, floor) ==
    IF seen[p] = Unseen THEN Abstains
    ELSE RateIn({ q \in (DOMAIN seen) \ {p} :
                     t.unit[q].glyph = t.unit[p].glyph /\ seen[q][1] = seen[p][1] },
                seen, seen[p][2], floor)

IsLike(u, w) == IF u.kind = "digit" THEN w.kind = "digit" ELSE w.glyph = u.glyph

Rarity(t, p, all) ==
    IF Cardinality(all) < Support.exposure THEN Abstains
    ELSE [count |-> Cardinality({ t.run[q] : q \in
                        { q \in all \ t.run[p] : IsLike(t.unit[p], t.unit[q]) } }),
          total |-> Cardinality(all)]

Judged(t, seen, p) ==
    { j \in {<<"rarity", Rarity(t, p, DOMAIN t.unit)>>}
              \cup { <<name, Rate(t, seen[name], p, Floor[name])>> :
                       name \in { name \in DOMAIN seen :
                                    name = "continuation" => Cardinality(t.run[p]) > 1 } } :
        j[2] # Abstains }

JudgedAlong(t, seen, p) ==
    [k \in 1 .. Cardinality(t.run[p]) |-> Judged(t, seen, <<p[1], p[2] + k - 1>>)]

RunStarts(t, b, line) ==
    LET IsStart(p) == p \in DOMAIN t.unit /\ t.start[p] # "internal" IN
    SelectSeq([i \in DOMAIN line |-> <<b, i>>], IsStart)

ReadRuns(t, seen, starts) == [i \in DOMAIN starts |-> JudgedAlong(t, seen, starts[i])]

JudgedAsRead(line, t, seen) ==
    \A b \in DOMAIN corpus :
        JudgedRuns(stats, corpus[b]) = ReadRuns(t, seen, RunStarts(t, b, line[b]))

ReadTheLines(line, t) == JudgedAsRead(line, t, SeenIn(t, DOMAIN t.unit))

(* A run's member is judged by the other occurrences of its glyph in the   *)
(* whole corpus, each read with the neighbours it has in its book written  *)
(* as one line: the member itself is in neither count of a rate, and only  *)
(* the two ends of a book have no neighbour.                               *)
RunsKeepTheirNeighbours ==
    rule = "nonletters" => ReadTheLines(Lines, Reading(Lines, Members(Lines)))

(* The reference's verses of a book, and the target's before the one at p.  *)
ReferenceLine ==
    Tabled([b \in DOMAIN Reference |->
        FlattenSeq([i \in DOMAIN Reference[b] |->
            [k \in DOMAIN Reference[b][i].verses |->
                [key |-> <<Reference[b][i].token, Reference[b][i].verses[k].name>>,
                 text |-> Reference[b][i].verses[k].text]]])])

VersePlaces(b) == Range(PlacesOf(corpus[b]))

KeyAt(p) == <<p[1], VerseNames[p[2]]>>

Twins(b, p) ==
    { q \in VersePlaces(b) : KeyAt(q) = KeyAt(p) /\ (q[1] < p[1] \/ (q[1] = p[1] /\ q[2] < p[2])) }

(* The texts, one or none, a reader of both corpora puts beside the verse. *)
PairOf(b, p, line) ==
    { line[i].text : i \in { i \in DOMAIN line :
        /\ line[i].key = KeyAt(p)
        /\ Cardinality({ k \in 1 .. i - 1 : line[k].key = KeyAt(p) }) = Cardinality(Twins(b, p)) } }

VerseAt(b, p) == corpus[b][p[1]][p[2]]

ReadRatios(b, line) ==
    UNION { { [at |-> p, of |-> Graphemes(source)] :
                source \in { source \in PairOf(b, p, line) :
                    Graphemes(source) > 0 /\ Graphemes(VerseAt(b, p)) > 0 } } :
            p \in VersePlaces(b) }

RatiosAreRead(b, obs, read) ==
    /\ { o.at : o \in Range(obs) } = { r.at : r \in read } /\ Len(obs) = Cardinality(read)
    /\ \A o \in Range(obs), r \in read : o.at = r.at =>
          o.ratio * r.of = RatioUnit * Graphemes(VerseAt(b, o.at))

(* A verse is measured by the reference's verse of its key; where a key    *)
(* recurs, first by first and second by second, counted over the books,    *)
(* though a chapter is mapped alone and the reference may hold its         *)
(* chapters and verses in another order.                                   *)
PairsKeepTheirVerse ==
    rule = "lengths" => \A b \in DOMAIN corpus : \A obs \in {MapRatios(b, corpus[b])} :
        \A read \in {ReadRatios(b, ReferenceLine[b])} : RatiosAreRead(b, obs, read)

(* The verse of the book a place is in.                                    *)
VerseNumber(b, p) == p[2] + TotalOf([c \in 1 .. p[1] - 1 |-> Len(corpus[b][c])])

VisibleSpots(b) ==
    LET IsVisible(p) == At(b, p).kind # "space" IN SelectSeq(Spots(corpus[b]), IsVisible)

Touch(p, q) == Front(p) = Front(q) /\ q[3] \in {p[3] - 1, p[3] + 1}

SideToward(b, p, q) ==
    SideRead(NeighbourClass(At(b, q)), IF Touch(p, q) THEN "attached" ELSE "spaced")

SidesRead(b, shown, i) ==
    [at |-> <<VerseNumber(b, shown[i]), shown[i][3]>>,
     left |-> IF i = 1 THEN NoSide ELSE SideToward(b, shown[i], shown[i - 1]),
     right |-> IF i = Len(shown) THEN NoSide ELSE SideToward(b, shown[i], shown[i + 1])]

MarksRead(b, shown) ==
    LET IsMark(i) == At(b, shown[i]).kind = "mark"
        marks == SelectSeq([i \in DOMAIN shown |-> i], IsMark) IN
    [n \in DOMAIN marks |-> SidesRead(b, shown, marks[n])]

(* A mark's two sides are the visible graphemes before and after it in the *)
(* book, however many breaks and blank verses lie between; it clings to    *)
(* one only within its verse, abstains only at the book's two ends, and    *)
(* the sites keep the order of the text though a right side comes late.    *)
MarksKeepTheirNeighbours ==
    rule = "spacing" => \A b \in DOMAIN corpus :
        \A sites \in {SpacingSites(FlattenSeq(corpus[b]))} :
            [n \in DOMAIN sites |->
                [at |-> sites[n].at, left |-> sites[n].left, right |-> sites[n].right]]
            = MarksRead(b, VisibleSpots(b))

(* A chapter or a verse is read alone, but what it is judged on is that of *)
(* the book: a word's position, a run's or a mark's neighbours, a verse's  *)
(* pair.                                                                   *)
SeamsCarryTheContext ==
    /\ WordsKeepTheirPosition
    /\ RunsKeepTheirNeighbours
    /\ PairsKeepTheirVerse
    /\ MarksKeepTheirNeighbours

DelimiterPlaces(b) ==
    Selected(Spots(corpus[b]), { p \in Range(Spots(corpus[b])) : IsDelimiter(At(b, p)) })

PairsWell(b, match, places) ==
    /\ match.pairs = CensusMatch(match.events)
    /\ DOMAIN match.events = DOMAIN places
    /\ match.orphans = (DOMAIN match.events) \ MatchedEvents(match)
    /\ \A p, q \in match.pairs : p[1] < q[1] => p[2] < q[1] \/ q[2] < p[2]
    /\ \A p \in match.pairs :
          Distance(match, p) =
              VerseNumber(b, places[p[2]]) - VerseNumber(b, places[p[1]])

(* The chapter-wise reduction pairs the brackets the census's whole-book   *)
(* matcher pairs, however many chapters an opener waits; every delimiter   *)
(* is in one pair or an orphan, pairs nest, and a distance counts the      *)
(* verses of the book between an opener and its closer.                    *)
BracketsPairAsTheCensus ==
    rule = "brackets" => \A b \in DOMAIN corpus :
        PairsWell(b, BookMatch(corpus[b]), DelimiterPlaces(b))

OnlySpaceBetween(chapter, s, t) ==
    \/ /\ s[1] = t[1] /\ s[2][2] + 1 < t[2][1]
       /\ AllSpace(chapter[s[1]], s[2][2] + 1, t[2][1] - 1)
    \/ /\ s[1] + 1 = t[1]
       /\ AllSpace(chapter[s[1]], s[2][2] + 1, Len(chapter[s[1]]))
       /\ AllSpace(chapter[t[1]], 1, t[2][1] - 1)

SameWord(chapter, s, t) ==
    Folded(chapter[s[1]], s[2]) = Folded(chapter[t[1]], t[2])

WordTokens(chapter) == UNION { {v} \X Range(WordsOf(chapter[v])) : v \in DOMAIN chapter }

DoubledIn(chapter, tokens) ==
    { h \in [first : tokens, second : tokens] :
        OnlySpaceBetween(chapter, h.first, h.second) /\ SameWord(chapter, h.first, h.second) }

IsMaximal(letters, i, j) ==
    /\ letters[i] # "" /\ \A k \in i .. j : letters[k] = letters[i]
    /\ i = 1 \/ letters[i - 1] # letters[i]
    /\ j = Len(letters) \/ letters[j + 1] # letters[i]

MaximalRuns(letters) ==
    { r \in (DOMAIN letters) \X (DOMAIN letters) :
        r[2] - r[1] + 1 >= Threshold /\ IsMaximal(letters, r[1], r[2]) }

(* A word doubled over a verse break is found as if the break were a       *)
(* space; a verse without a word between them, a mark, or a chapter's end  *)
(* keeps the two apart.  The runs of a repeated letter are the maximal     *)
(* ones of three or more, at a verse's end too, and each is counted in     *)
(* the aggregate that judges it.                                           *)
DoublesAreThoseOfTheText ==
    rule = "runs" => \A b \in DOMAIN corpus : \A chapter \in Range(corpus[b]) :
        /\ \A tokens \in {WordTokens(chapter)} :
              DuplicateHits(chapter) = DoubledIn(chapter, tokens)
        /\ \A letters \in { WrittenLetters(verse) : verse \in Range(chapter) } :
              Range(ScanRuns(letters)) = MaximalRuns(letters)
        /\ \A s \in RunSites(chapter) : Tallied(s.key.cluster, stats.clusters) > 0

(* The tokens of a verse that count: copied, no name, no recurring word.   *)
Counting(tokens, source, excused) ==
    { i \in DOMAIN tokens :
        /\ \E t \in Range(source) : t.word = tokens[i].word
        /\ tokens[i].word \notin excused /\ tokens[i].shape \notin {"title", "caps"} }

Stretches(counting) == { s \in counting \X counting : s[1] <= s[2] /\ s[1] .. s[2] \subseteq counting }

Extent(s) == s[2] - s[1] + 1

(* The first of the longest.                                               *)
LongestStretch(stretches) ==
    CHOOSE s \in stretches : \A t \in stretches :
        Extent(s) > Extent(t) \/ (Extent(s) = Extent(t) /\ s[1] <= t[1])

PasteAt(p, counting, total, s) ==
    IF Emits(Cardinality(counting), total, Extent(s))
    THEN {[at |-> p, range |-> IF s[1] = s[2] THEN WholeVerse ELSE s,
           run |-> Extent(s), copied |-> Cardinality(counting)]}
    ELSE {}

PasteOver(p, tokens, source, excused) ==
    LET counting == Counting(tokens, source, excused) IN
    IF counting = {} THEN {}
    ELSE PasteAt(p, counting, Len(tokens), LongestStretch(Stretches(counting)))

ReadPastes(b, line, excused) ==
    UNION { UNION { PasteOver(p, Tokens(VerseAt(b, p)), Tokens(source), excused) :
                      source \in PairOf(b, p, line) } : p \in VersePlaces(b) }

(* A word copied from the reference counts against its verse unless it is  *)
(* a name or recurs in the corpus; the finding stands at the longest       *)
(* stretch of such words, and a name at its head or in its middle neither  *)
(* counts nor takes the words beside it away.                              *)
PastesAreThoseOfTheText ==
    rule = "words" => \A b \in DOMAIN corpus :
        \A found \in {WordFindings(stats, b, corpus[b])} :
        /\ Range(found) = (IF IsSilenced(stats) THEN {}
                           ELSE ReadPastes(b, ReferenceLine[b], Excused(stats)))
        /\ Len(found) = Cardinality(Range(found))

(* What a rule reports as repeated or copied is what the text repeats or   *)
(* copies, wherever verses end and reports begin.                          *)
RepeatsAreThoseOfTheText == DoublesAreThoseOfTheText /\ PastesAreThoseOfTheText

(***************************************************************************)
(* The aggregates.                                                         *)
(***************************************************************************)
Present == { b \in DOMAIN corpus : corpus[b] # NoBook }

SumOfShares(a) ==
    CASE rule = "brackets" ->
            [events |-> SumOf([b \in DOMAIN a |-> a[b].events]),
             matched |-> SumOf([b \in DOMAIN a |-> a[b].matched]),
             distances |-> SumOf([b \in DOMAIN a |-> a[b].distances])]
      [] rule = "runs" -> SumOfRuns(a)
      [] rule = "scripts" ->
            [books |-> Present,
             signatures |-> SumOf([b \in DOMAIN a |-> a[b].signatures]),
             breadth |-> SumOf([b \in DOMAIN a |-> SetToBag(DOMAIN a[b].signatures)]),
             scripts |-> SumOf([b \in DOMAIN a |-> a[b].scripts])]
      [] rule \in {"forms", "nonletters", "shapes"} -> SumOf(a)
      [] rule = "words" ->
            [tokens |-> TotalOf([b \in DOMAIN a |-> a[b].tokens]),
             copied |-> TotalOf([b \in DOMAIN a |-> a[b].copied]),
             words |-> SumOf([b \in DOMAIN a |-> a[b].words])]
      [] rule = "lengths" ->
            [per_book |-> [b \in Present |-> a[b].ratios],
             book |-> [b \in Present |-> SpreadOf(a[b].ratios)],
             project |-> SpreadOf(FlattenSeq([b \in DOMAIN a |-> a[b].ratios]))]

SumOfGlyphs(a, inventory) ==
    [inventory |-> inventory,
     letters |-> BagCardinality(inventory),
     hapax |-> Cardinality({ g \in DOMAIN inventory : inventory[g] = 1 }),
     rare |-> SumOf([b \in DOMAIN a |-> a[b].rare]),
     tokens |-> SumOf([b \in DOMAIN a |-> TokensOf(a[b])]),
     shape |-> UNION { ShapesOf(b, a[b]) : b \in Present }]

(* What a fresh fold of the whole corpus would hold.                       *)
FreshStats(a) ==
    CASE rule \in Stateless -> Blank
      [] rule = "glyphs" -> SumOfGlyphs(a, SumOf([b \in DOMAIN a |-> a[b].inventory]))
      [] OTHER -> SumOfShares(a)

(* However a corpus was edited, the aggregate an edit was folded into is   *)
(* the one a fresh analysis would build: the counts, the books a signature *)
(* is in, the letters that occur once.                                     *)
StatsAreFresh ==
    \A addends \in {[b \in DOMAIN corpus |-> Contribution(rule, b, corpus[b])]} :
        stats = FreshStats(addends)

(* The chapters an edit left alone, as <<book, chapter>>.                  *)
Untouched ==
    { at \in UNION { {b} \X DOMAIN corpus[b] : b \in DOMAIN corpus } :
        at[2] \in DOMAIN corpus'[at[1]] /\ corpus'[at[1]][at[2]] = corpus[at[1]][at[2]] }

(* A book replacement names every key that a site in the corpus still has  *)
(* and whose evidence moved, however far from the edit the site is: the    *)
(* dominant script's tokens, the number of books, the median of all        *)
(* verses, a word's shapes elsewhere.  These are the six rules whose delta *)
(* is exact: that of casing, repeated text and rare glyphs is empty, that  *)
(* of untranslated words leaves a book out and is not used.                *)
DeltaNamesWhatMoved ==
    [][ /\ rule = "scripts" =>
            \A sig \in DOMAIN stats'.signatures :
                ScriptEvidence(stats, sig) # ScriptEvidence(stats', sig) => sig \in delta'
        /\ rule = "brackets" =>
            \A f \in Range(FamilyOf) :
                BracketEvidence(stats, f) # BracketEvidence(stats', f) => f \in delta'
        /\ rule = "forms" =>
            (JudgeForms(stats) # JudgeForms(stats') => delta' # {})
        /\ rule = "nonletters" =>
            \A g \in Identities(stats') :
                IdentityEvidence(stats, g) # IdentityEvidence(stats', g) => g \in delta'
        /\ rule = "shapes" =>
            \A at \in Untouched : LET chapter == corpus[at[1]][at[2]] IN
                ShapeFindings(stats, chapter) # ShapeFindings(stats', chapter) =>
                    OwedBy(chapter, delta')
        /\ rule = "lengths" =>
            \A b \in DOMAIN corpus : corpus'[b] = corpus[b] =>
                (LengthFindings(stats, b, corpus[b]) # LengthFindings(stats', b, corpus[b]) =>
                    b \in delta') ]_vars

Everywhere == UNION { { <<b>> \o p : p \in Range(Spots(corpus[b])) } : b \in DOMAIN corpus }

WrittenAs(all, raw) == { p \in all : At(p[1], Tail(p)) = raw }

(* The usual form of two with the same places' worth of text.              *)
Outranks(these, those) ==
    \/ Cardinality(these) > Cardinality(those)
    \/ /\ Cardinality(these) = Cardinality(those)
       /\ Earlier(First(these), First(those))

Deviants(written) ==
    UNION { written[s] : s \in { s \in DOMAIN written :
        \E r \in (DOMAIN written) \ {s} :
            Nfc[r] = Nfc[s] /\ Outranks(written[r], written[s]) } }

FormsWritten(all) ==
    [raw \in { At(p[1], Tail(p)) : p \in all } |-> WrittenAs(all, raw)]

FindingAt(deviant) ==
    IF deviant = {} THEN NoFinding
    ELSE [affected |-> Cardinality(deviant), at |-> First(deviant)]

(* The one normalization finding stands at the first occurrence, in the    *)
(* corpus's order, of a form another form of its grapheme outnumbers or,   *)
(* in equal numbers, precedes; the judge's order-free total counts these   *)
(* occurrences.                                                            *)
AnchorIsTheFirstDeviant ==
    rule = "forms" =>
        NormalFinding(corpus, stats) = FindingAt(Deviants(FormsWritten(Everywhere)))

(***************************************************************************)
(* What is done the shorter way: rare letters, gated scans, segmentation.  *)
(***************************************************************************)
(* The aggregate of a corpus in which no book drops any word detail.       *)
WithWordsOf(whole) ==
    [stats EXCEPT !.rare = SumOf([b \in DOMAIN whole |-> whole[b].rare]),
                  !.tokens = SumOf([b \in DOMAIN whole |-> TokensOf(whole[b])]),
                  !.shape = UNION { ShapesOf(b, whole[b]) : b \in Present }]

UnprunedStats ==
    WithWordsOf([b \in DOMAIN corpus |->
                    IF b \in Present THEN FoldUnpruned(ReducedGlyphs(corpus[b])) ELSE Absent])

(* Every word of the corpus under the key w is spelled with the letter.    *)
AlwaysSpelledWith(g, w) ==
    \A b \in DOMAIN corpus : \A p \in Words(b) :
        w \in {At(b, p).word, At(b, p).lower} => g \in Range(At(b, p).surface)

(* The letters whose verdict the two aggregates agree on.                  *)
JudgedAlike(unpruned) ==
    { g \in DOMAIN stats.inventory : JudgeGlyph(stats, g) = JudgeGlyph(unpruned, g) }

ShowingNothing(unpruned) ==
    \A g \in DOMAIN stats.inventory :
        (\A w \in Containers(unpruned, g) : AlwaysSpelledWith(g, w)) => g \in JudgedAlike(unpruned)

(* Word detail is dropped, book by book, for letters common in the book.   *)
(* For a letter its words are always spelled with, no verdict shows it:    *)
(* the letter is rare in every book, and its words with it.                *)
DroppedWordsAreUnobservable == rule = "glyphs" => ShowingNothing(UnprunedStats)

(* A verse's mask skips most of the twelve scans; the records are those of *)
(* every scan run on every verse.  One pass counts what a scan re-reads:   *)
(* runs, the scalar before a mark, the first numeral system.               *)
GatesHideNothing ==
    rule = "scans" => \A b \in DOMAIN corpus : \A verse \in Range(FlattenSeq(corpus[b])) :
        \A text \in {FlattenSeq(verse)} :
            VerseRecords(text) = Reported(DOMAIN GateOf, text)

TextsOf(chapter) == [v \in DOMAIN chapter |-> FlattenSeq(chapter[v])]

StreamsHold(texts, tokens) ==
    \A streams \in {BuildStreams(tokens)} : \A v \in DOMAIN texts :
        StreamedVerse(streams, v) = tokens[v]

(* Words are those of the library whichever path a verse or a book takes   *)
(* to them, and a chapter's participants read back what was segmented.     *)
WordsAreTheLibrarys ==
    rule = "tokens" => \A b \in DOMAIN corpus : \A chapter \in Range(corpus[b]) :
        \A texts \in {TextsOf(chapter)} :
            /\ \A v \in DOMAIN texts :
                  TokenizeHandRolled(texts[v]) = TokenizeOracle(texts[v])
            /\ BookTokens(texts) = [v \in DOMAIN texts |-> TokenizeInto(texts[v])]
            /\ StreamsHold(texts, [v \in DOMAIN texts |-> TokenizeInto(texts[v])])

(* The walk over bases and extenders cuts a verse where the library does.  *)
ClustersAreTheLibrarys ==
    rule = "clusters" => \A b \in DOMAIN corpus : \A verse \in Range(FlattenSeq(corpus[b])) :
        \A text \in {FlattenSeq(verse)} :
            Segment(text) = LibraryClusters(text)

(* What is dropped, skipped, packed or cut short for speed is not seen: in *)
(* verdicts, in the records of a verse, in its words and its graphemes.    *)
PruningIsUnobservable ==
    /\ DroppedWordsAreUnobservable
    /\ GatesHideNothing
    /\ WordsAreTheLibrarys
    /\ ClustersAreTheLibrarys

(* "The closure gate, the knee, and both discounts are all sound corpus-   *)
(* wide sums over the merged per-book tables" (rare_glyph.rs:69): the      *)
(* verdict of every rare letter is that of a corpus nothing was dropped    *)
(* from.  A capital is not in every word of its lowercase key.             *)
DiscountsAreCorpusWide ==
    rule = "glyphs" => JudgedAlike(UnprunedStats) = DOMAIN stats.inventory
==============================================================================
