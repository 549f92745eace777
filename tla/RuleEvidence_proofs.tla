-------------------------- MODULE RuleEvidence_proofs --------------------------
(***************************************************************************)
(* The rules over a corpus that is edited a book at a time, for every      *)
(* alphabet, every number of books and texts of any length.                *)
(*                                                                         *)
(* Typed gives every book of the corpus its units.  From it, what a book   *)
(* contributes to each rule's statistics is tallies, sequences of lengths  *)
(* or sets of words (one lemma per fold, by recursion over units, words,   *)
(* verses and chapters), so that patching the statistics for one book and  *)
(* summing them afresh agree: Fresh.  What the statistics are summed of    *)
(* names what moved: DeltaNames.  PairedAsTheCensus follows the reduction  *)
(* of a book chapter by chapter along a census of all its events,          *)
(* AnchorFirst shows that the merged table of written forms accounts for   *)
(* every unit of the corpus, and DoublesRead that the scans for repeated   *)
(* letters and doubled words find what stands in the text, all of it.      *)
(***************************************************************************)
EXTENDS RuleEvidence, DataInduction

(***************************************************************************)
(* The corpus.                                                             *)
(***************************************************************************)
Chapters(r) == Seq(Seq(Alphabet(r))) \ { << >> }

Books(r) == Seq(Chapters(r))

CorpusTyped ==
    /\ rule \in Rules
    /\ corpus \in [1 .. BookCount(rule) -> Books(rule)]

(* Replacing the last verse of a book of the generator leaves one.         *)
LEMMA WithLastVerseIn ==
    ASSUME NEW r, NEW book \in Books(r), book # << >>, NEW verse \in Seq(Alphabet(r))
    PROVE  WithLastVerse(book, verse) \in Books(r)
<1> DEFINE V == Seq(Alphabet(r))
<1>1. Last(book) \in Chapters(r)
  BY LastIn DEF Books
<1>2. Last(book) \in Seq(V)
  BY <1>1 DEF Chapters
<1>3. Front(Last(book)) \in Seq(V)
  BY <1>2, FrontIn
<1> DEFINE chapter == Append(Front(Last(book)), verse)
<1>4. chapter \in Seq(V) /\ chapter # << >>
  <2> DEFINE front == Front(Last(book))
  <2>1. front \in Seq(V) /\ verse \in V
    BY <1>3
  <2> HIDE DEF front, V
  <2>2. Append(front, verse) \in Seq(V) /\ Append(front, verse) # << >>
    BY <2>1
  <2>3. QED
    BY <2>2 DEF front
<1>5. chapter \in Chapters(r)
  BY <1>4 DEF Chapters
<1>6. Front(book) \in Seq(Chapters(r))
  BY FrontIn DEF Books
<1> HIDE DEF chapter
<1>7. Append(Front(book), chapter) \in Seq(Chapters(r))
  BY <1>5, <1>6
<1>8. QED
  BY <1>7 DEF WithLastVerse, chapter, Books

LEMMA LastVerseIn ==
    ASSUME CorpusTyped, NEW b \in DOMAIN corpus, corpus[b] # NoBook
    PROVE  LastVerse(b) \in Seq(Alphabet(rule))
<1>1. corpus[b] \in Seq(Chapters(rule)) /\ corpus[b] # << >>
  BY DEF CorpusTyped, Books, NoBook
<1>2. Last(corpus[b]) \in Chapters(rule)
  BY <1>1, LastIn
<1>3. Last(corpus[b]) \in Seq(Seq(Alphabet(rule))) /\ Last(corpus[b]) # << >>
  BY <1>2 DEF Chapters
<1>4. QED
  BY <1>3, LastIn DEF LastVerse

LEMMA OneVerse ==
    ASSUME NEW r
    PROVE  <<Blank>> \in Chapters(r)
<1> DEFINE V == Seq(Alphabet(r))
<1>1. Blank \in V
  BY DEF Blank
<1> HIDE DEF V
<1>2. <<Blank>> \in Seq(V) /\ <<Blank>> # << >>
  BY <1>1
<1>3. QED
  BY <1>2 DEF V, Chapters

(* What an edit writes is a book.                                          *)
LEMMA EditWritesABook ==
    ASSUME CorpusTyped, NEW b \in DOMAIN corpus, Edit(b)
    PROVE  \E book \in Books(rule) : corpus' = [corpus EXCEPT ![b] = book]
<1> DEFINE Writes(book) == book \in Books(rule) /\ corpus' = [corpus EXCEPT ![b] = book]
<1> SUFFICES \E book : Writes(book)
  OBVIOUS
<1>1. corpus[b] \in Books(rule)
  BY DEF CorpusTyped
<1>2. NoBook \in Books(rule)
  BY DEF NoBook, Books
<1>3. CASE AddBook(b)
  <2>1. << <<Blank>> >> \in Books(rule)
    BY OneVerse DEF Books
  <2>2. QED
    BY <1>3, <2>1 DEF AddBook, Becomes
<1>4. CASE RemoveBook(b)
  BY <1>2, <1>4 DEF RemoveBook, Becomes
<1>5. CASE EndVerse(b)
  <2>1. corpus[b] # << >>
    BY <1>5 DEF EndVerse, NoBook
  <2> DEFINE V == Seq(Alphabet(rule))
             last == Last(corpus[b])
             front == Front(corpus[b])
             chapter == Append(last, Blank)
  <2>2. last \in Seq(V) /\ Blank \in V
    <3>1. last \in Chapters(rule)
      BY <1>1, <2>1, LastIn DEF Books
    <3>2. QED
      BY <3>1 DEF Chapters, Blank
  <2>3. chapter \in Seq(V) /\ chapter # << >>
    <3> HIDE DEF V, last
    <3>1. QED
      BY <2>2
  <2>4. front \in Seq(Chapters(rule))
    BY <1>1, FrontIn DEF Books
  <2>5. chapter \in Chapters(rule)
    BY <2>3 DEF Chapters
  <2>6. Append(front, chapter) \in Books(rule)
    <3> HIDE DEF front, chapter
    <3>1. QED
      BY <2>4, <2>5 DEF Books
  <2>7. QED
    BY <1>5, <2>6 DEF EndVerse, Becomes
<1>6. CASE EndChapter(b)
  <2>1. Append(corpus[b], <<Blank>>) \in Books(rule)
    BY <1>1, OneVerse DEF Books
  <2>2. QED
    BY <1>6, <2>1 DEF EndChapter, Becomes
<1>7. CASE DeleteUnit(b)
  <2>1. Front(LastVerse(b)) \in Seq(Alphabet(rule))
    BY <1>7, LastVerseIn, FrontIn DEF DeleteUnit
  <2>2. WithLastVerse(corpus[b], Front(LastVerse(b))) \in Books(rule)
    BY <1>1, <1>7, <2>1, WithLastVerseIn DEF DeleteUnit, NoBook
  <2>3. QED
    BY <1>7, <2>2 DEF DeleteUnit, Becomes
<1>8. ASSUME NEW u \in Alphabet(rule), AddUnit(b, u)
      PROVE  \E book : Writes(book)
  <2> DEFINE verse == Append(LastVerse(b), u)
  <2>1. verse \in Seq(Alphabet(rule))
    BY <1>8, LastVerseIn DEF AddUnit
  <2>2. WithLastVerse(corpus[b], verse) \in Books(rule)
    BY <1>1, <1>8, <2>1, WithLastVerseIn DEF AddUnit, NoBook
  <2>3. QED
    BY <1>8, <2>2 DEF AddUnit, Becomes
<1>9. ASSUME NEW u \in Alphabet(rule), ReplaceUnit(b, u)
      PROVE  \E book : Writes(book)
  <2> DEFINE verse == Append(Front(LastVerse(b)), u)
  <2>1. Front(LastVerse(b)) \in Seq(Alphabet(rule))
    BY <1>9, LastVerseIn, FrontIn DEF ReplaceUnit
  <2>2. verse \in Seq(Alphabet(rule))
    BY <2>1
  <2>3. WithLastVerse(corpus[b], verse) \in Books(rule)
    BY <1>1, <1>9, <2>2, WithLastVerseIn DEF ReplaceUnit, NoBook
  <2>4. QED
    BY <1>9, <2>3 DEF ReplaceUnit, Becomes
<1>10. QED
  BY <1>3, <1>4, <1>5, <1>6, <1>7, <1>8, <1>9 DEF Edit

(***************************************************************************)
(* Brackets: what a chapter's reduction and a book's are made of.          *)
(***************************************************************************)
Families == { FamilyOf[g] : g \in DOMAIN FamilyOf }

BracketEvents == [verse : Nat, at : Nat, family : Families, open : BOOLEAN]

Openers == [chapter : Nat, idx : Nat, family : Families]

BracketObservations == [token : Nat, verses : Nat, events : Seq(BracketEvents)]

ReducedBracketChapters ==
    [token : Nat, verses : Nat, events : Seq(BracketEvents),
     resolutions : Seq([open : Openers, close : Nat]), orphans : SUBSET Nat, leaving : Seq(Openers)]

Opening(obs, entering) ==
    [token |-> obs.token, verses |-> obs.verses, events |-> obs.events,
     resolutions |-> << >>, orphans |-> {}, leaving |-> entering]

(* A bracket event keeps a reduced chapter a reduced chapter.              *)
LEMMA EventKeeps ==
    ASSUME NEW obs \in BracketObservations, NEW r \in ReducedBracketChapters, r.events = obs.events,
           NEW n \in 1 .. Len(obs.events)
    PROVE  /\ WithEvent(r, n) \in ReducedBracketChapters
           /\ WithEvent(r, n).events = obs.events
<1> DEFINE e == r.events[n]
           opener == [chapter |-> r.token, idx |-> n, family |-> e.family]
<1>1. n \in Nat /\ obs.events \in Seq(BracketEvents) /\ n \in 1 .. Len(r.events)
  BY DEF BracketObservations
<1>2. e \in BracketEvents
  BY <1>1 DEF ReducedBracketChapters
<1>3. /\ r.leaving \in Seq(Openers) /\ r.orphans \in SUBSET Nat
      /\ r.resolutions \in Seq([open : Openers, close : Nat])
  BY DEF ReducedBracketChapters
<1>4. CASE e.open
  <2>1. Append(r.leaving, opener) \in Seq(Openers)
    <3>1. opener \in Openers
      BY <1>1, <1>2 DEF Openers, ReducedBracketChapters, BracketEvents
    <3> HIDE DEF opener
    <3>2. QED
      BY <1>3, <3>1
  <2>2. WithEvent(r, n) = [r EXCEPT !.leaving = Append(@, opener)]
    BY <1>4 DEF WithEvent
  <2> HIDE DEF opener, e
  <2>3. QED
    BY <2>1, <2>2 DEF ReducedBracketChapters
<1>5. CASE ~ e.open /\ Matches(r.leaving, e)
  <2> DEFINE resolution == [open |-> Last(r.leaving), close |-> n]
  <2>1. r.leaving # << >>
    BY <1>5 DEF Matches
  <2>2. Last(r.leaving) \in Openers /\ Front(r.leaving) \in Seq(Openers)
    BY <1>3, <2>1, LastIn, FrontIn
  <2>3. Append(r.resolutions, resolution) \in Seq([open : Openers, close : Nat])
    <3>1. resolution \in [open : Openers, close : Nat]
      BY <1>1, <2>2
    <3> HIDE DEF resolution
    <3>2. QED
      BY <1>3, <3>1
  <2>4. WithEvent(r, n) = [r EXCEPT !.leaving = Front(@),
                                            !.resolutions = Append(@, resolution)]
    BY <1>5 DEF WithEvent
  <2> HIDE DEF resolution, e
  <2>5. QED
    BY <2>2, <2>3, <2>4 DEF ReducedBracketChapters
<1>6. CASE ~ e.open /\ ~ Matches(r.leaving, e)
  <2>1. WithEvent(r, n) = [r EXCEPT !.orphans = @ \cup {n}]
    BY <1>6 DEF WithEvent
  <2> HIDE DEF e
  <2>2. r.orphans \cup {n} \in SUBSET Nat
    BY <1>1, <1>3
  <2>3. QED
    BY <2>1, <2>2 DEF ReducedBracketChapters
<1>7. QED
  BY <1>4, <1>5, <1>6

LEMMA EventOnce ==
    ASSUME NEW x, NEW n
    PROVE  Only({ WithEvent(r, n) : r \in {x} })
             = WithEvent(x, n)
<1> DEFINE made == { WithEvent(r, n) : r \in {x} }
           one == WithEvent(x, n)
<1>1. made = {one}
  OBVIOUS
<1> HIDE DEF made, one
<1>2. Only(made) = one
  BY <1>1, OnlyIs
<1>3. QED
  BY <1>2 DEF made, one

IsReducing(walk, obs, entering) ==
    /\ walk \in [0 .. Len(obs.events) -> { r \in ReducedBracketChapters : r.events = obs.events }]
    /\ walk[0] = Opening(obs, entering)
    /\ \A n \in 1 .. Len(obs.events) : walk[n] = WithEvent(walk[n - 1], n)
    /\ ReduceBrackets(obs, entering) = walk[Len(obs.events)]

(* ReduceBrackets reaches its end one event at a time.                     *)
LEMMA ReducingSteps ==
    ASSUME NEW obs \in BracketObservations, NEW entering \in Seq(Openers)
    PROVE  \E walk : IsReducing(walk, obs, entering)
<1> DEFINE T == { r \in ReducedBracketChapters : r.events = obs.events }
           a == Opening(obs, entering)
           m == Len(obs.events)
           F(x, n) == WithEvent(x, n)
           Once(f, n) == Only({ WithEvent(r, n) : r \in {f[n - 1]} })
           Body(f) == [n \in 0 .. m |-> IF n = 0 THEN a ELSE Once(f, n)]
           chosen == CHOOSE f : f = Body(f)
           step == [e \in T \X (1 .. m) |-> F(e[1], e[2])]
<1>1. m \in Nat
  BY DEF BracketObservations
<1>2. a \in T
  <2>1. << >> \in Seq([open : Openers, close : Nat])
    OBVIOUS
  <2>2. QED
    BY <2>1 DEF Opening, BracketObservations, ReducedBracketChapters
<1>3. ASSUME NEW x \in T, NEW n \in 1 .. m
      PROVE  F(x, n) \in T
  BY <1>3, EventKeeps
<1>4. \A f, n : Once(f, n) = F(f[n - 1], n)
  BY EventOnce
<1>5. ReduceBrackets(obs, entering) = chosen[m]
  BY DEF ReduceBrackets, Opening
<1> HIDE DEF T, a, m, F, Once
<1>6. step \in [T \X (1 .. m) -> T] /\ \A x \in T : \A n \in 1 .. m : step[x, n] = F(x, n)
  BY <1>3
<1> HIDE DEF step
<1>7. PICK g : IsRun(g, T, a, m, step)
  BY <1>1, <1>2, <1>6, Recursion
<1>8. g \in [0 .. m -> T] /\ g[0] = a /\ \A n \in 1 .. m : g[n] = F(g[n - 1], n)
  <2>1. \A n \in 1 .. m : n - 1 \in 0 .. m
    BY <1>1
  <2>2. QED
    BY <1>6, <1>7, <2>1 DEF IsRun
<1>9. g = Body(g)
  <2>1. \A n \in 0 .. m : n = 0 \/ n \in 1 .. m
    BY <1>1
  <2>2. QED
    BY <1>4, <1>8, <2>1
<1>10. chosen = Body(chosen)
  <2> HIDE DEF Body
  <2>1. QED
    BY <1>9
<1> HIDE DEF chosen
<1>11. /\ chosen = [n \in 0 .. m |-> chosen[n]] /\ chosen[0] = a
       /\ \A n \in 1 .. m : chosen[n] = F(chosen[n - 1], n)
  <2>1. 0 \in 0 .. m /\ \A n \in 1 .. m : n \in 0 .. m /\ n # 0
    BY <1>1
  <2>2. QED
    BY <1>4, <1>10, <2>1
<1>12. IsRun(chosen, T, a, m, step)
  <2>1. IsChosen(chosen, T, a, m, step)
    BY <1>6, <1>11 DEF IsChosen
  <2>2. QED
    BY <1>1, <1>2, <1>6, <2>1, ChosenRun
<1>13. QED
  BY <1>5, <1>11, <1>12 DEF IsReducing, IsRun, T, a, m, F

LEMMA BracketsMapped ==
    ASSUME NEW T, NEW chapter \in Seq(Seq(T)), NEW token \in Nat
    PROVE  /\ MapBrackets(token, chapter) \in BracketObservations
           /\ MapBrackets(token, chapter).token = token
<1> DEFINE delimiters == { p \in Range(PlacesOf(chapter)) : IsDelimiter(chapter[p[1]][p[2]]) }
           at == Selected(PlacesOf(chapter), delimiters)
           events == Delimiters(chapter, at)
<1>1. MapBrackets(token, chapter) = [token |-> token, verses |-> Len(chapter), events |-> events]
  BY DEF MapBrackets
<1>2. PlacesOf(chapter) \in Seq(PlacesIn(chapter))
  BY PlacesAre
<1>3. at \in Seq(delimiters)
  <2> HIDE DEF delimiters
  <2>1. at \in Seq(PlacesIn(chapter))
    BY <1>2, SelectedElements
  <2>2. \A i \in 1 .. Len(at) : at[i] \in delimiters
    BY <1>2, SelectedElements
  <2> HIDE DEF at
  <2>3. QED
    BY <2>1, <2>2
<1>4. \A p \in delimiters : p \in PlacesIn(chapter) /\ IsDelimiter(chapter[p[1]][p[2]])
  BY <1>2 DEF Range
<1> HIDE DEF at, delimiters
<1>5. events \in Seq(BracketEvents)
  <2>1. events = [k \in 1 .. Len(at) |->
                     Delimiter(at[k][1], at[k][2], chapter[at[k][1]][at[k][2]].glyph)]
    BY <1>3 DEF Delimiters
  <2>2. ASSUME NEW p \in delimiters
        PROVE  Delimiter(p[1], p[2], chapter[p[1]][p[2]].glyph) \in BracketEvents
    <3>1. p[1] \in Nat /\ p[2] \in Nat
      BY <1>4, PlacesAre
    <3>2. chapter[p[1]][p[2]].glyph \in DOMAIN FamilyOf
      BY <1>4 DEF IsDelimiter
    <3> DEFINE g == chapter[p[1]][p[2]].glyph
    <3>3. FamilyOf[g] \in Families
      BY <3>2 DEF Families
    <3>4. IsOpen(g) \in BOOLEAN
      BY DEF IsOpen
    <3> HIDE DEF g
    <3>5. Delimiter(p[1], p[2], g) \in BracketEvents
      BY <3>1, <3>3, <3>4 DEF Delimiter, BracketEvents
    <3>6. QED
      BY <3>5 DEF g
  <2> HIDE DEF events
  <2>3. Len(at) \in Nat /\ \A k \in 1 .. Len(at) : at[k] \in delimiters
    BY <1>3
  <2>4. QED
    BY <2>1, <2>2, <2>3
<1> HIDE DEF events
<1>6. Len(chapter) \in Nat
  OBVIOUS
<1>7. QED
  BY <1>1, <1>5, <1>6 DEF BracketObservations

LEMMA BracketsReduced ==
    ASSUME NEW obs \in BracketObservations, NEW entering \in Seq(Openers)
    PROVE  ReduceBrackets(obs, entering) \in ReducedBracketChapters
<1> DEFINE T == { r \in ReducedBracketChapters : r.events = obs.events }
           m == Len(obs.events)
<1>1. PICK walk : IsReducing(walk, obs, entering)
  BY ReducingSteps
<1>2. m \in 0 .. m
  <2>1. m \in Nat
    BY DEF BracketObservations
  <2> HIDE DEF m
  <2>2. QED
    BY <2>1
<1>3. walk \in [0 .. m -> T] /\ ReduceBrackets(obs, entering) = walk[m]
  BY <1>1 DEF IsReducing
<1> HIDE DEF T, m
<1>4. walk[m] \in T
  BY <1>2, <1>3
<1>5. QED
  BY <1>3, <1>4 DEF T

LeftOpen(reduced) == IF reduced = << >> THEN << >> ELSE Last(reduced).leaving

LEMMA ReducedKeeps ==
    ASSUME NEW reduced \in Seq(ReducedBracketChapters), NEW obs \in BracketObservations
    PROVE  /\ WithBrackets(reduced, obs) \in Seq(ReducedBracketChapters)
           /\ WithBrackets(reduced, obs)
                = Append(reduced, ReduceBrackets(obs, LeftOpen(reduced)))
           /\ LeftOpen(reduced) \in Seq(Openers)
<1>1. LeftOpen(reduced) \in Seq(Openers)
  <2>1. CASE reduced = << >>
    BY <2>1 DEF LeftOpen
  <2>2. CASE reduced # << >>
    <3>1. Last(reduced) \in ReducedBracketChapters
      BY <2>2, LastIn
    <3>2. QED
      BY <2>2, <3>1 DEF LeftOpen, ReducedBracketChapters
  <2>3. QED
    BY <2>1, <2>2
<1>2. WithBrackets(reduced, obs)
        = Append(reduced, ReduceBrackets(obs, LeftOpen(reduced)))
  BY DEF WithBrackets, LeftOpen
<1>3. ReduceBrackets(obs, LeftOpen(reduced)) \in ReducedBracketChapters
  BY <1>1, BracketsReduced
<1>4. QED
  BY <1>1, <1>2, <1>3

LEMMA BracketsOnce ==
    ASSUME NEW x, NEW y
    PROVE  Only({ WithBrackets(reduced, obs) : reduced \in {x}, obs \in {y} })
             = WithBrackets(x, y)
<1> DEFINE made == { WithBrackets(reduced, obs) : reduced \in {x}, obs \in {y} }
           one == WithBrackets(x, y)
<1>1. made = {one}
  OBVIOUS
<1> HIDE DEF made, one
<1>2. Only(made) = one
  BY <1>1, OnlyIs
<1>3. QED
  BY <1>2 DEF made, one

IsBookOfBrackets(walk, chapters) ==
    /\ walk \in [0 .. Len(chapters) -> Seq(ReducedBracketChapters)]
    /\ walk[0] = << >>
    /\ \A n \in 1 .. Len(chapters) : walk[n] = WithBrackets(walk[n - 1], MapBrackets(n, chapters[n]))
    /\ ReducedBrackets(chapters) = walk[Len(chapters)]

(* The chapters of a book are reduced one at a time.                       *)
LEMMA BookOfBracketsSteps ==
    ASSUME NEW U, NEW chapters \in Seq(Seq(Seq(U)))
    PROVE  \E walk : IsBookOfBrackets(walk, chapters)
<1> DEFINE T == Seq(ReducedBracketChapters)
           a == << >>
           m == Len(chapters)
           F(x, n) == WithBrackets(x, MapBrackets(n, chapters[n]))
           Once(f, n) == Only({ WithBrackets(reduced, obs) : reduced \in {f[n - 1]}, obs \in {MapBrackets(n, chapters[n])} })
           Body(f) == [n \in 0 .. m |-> IF n = 0 THEN a ELSE Once(f, n)]
           chosen == CHOOSE f : f = Body(f)
           step == [e \in T \X (1 .. m) |-> F(e[1], e[2])]
<1>1. m \in Nat
  OBVIOUS
<1>2. a \in T
  OBVIOUS
<1>3. ASSUME NEW x \in T, NEW n \in 1 .. m
      PROVE  F(x, n) \in T
  <2>1. n \in Nat /\ chapters[n] \in Seq(Seq(U))
    OBVIOUS
  <2>2. MapBrackets(n, chapters[n]) \in BracketObservations
    BY <2>1, BracketsMapped
  <2>3. QED
    BY <2>2, ReducedKeeps
<1>4. \A f, n : Once(f, n) = F(f[n - 1], n)
  BY BracketsOnce
<1>5. ReducedBrackets(chapters) = chosen[m]
  BY DEF ReducedBrackets
<1> HIDE DEF T, a, m, F, Once
<1>6. step \in [T \X (1 .. m) -> T] /\ \A x \in T : \A n \in 1 .. m : step[x, n] = F(x, n)
  BY <1>3
<1> HIDE DEF step
<1>7. PICK g : IsRun(g, T, a, m, step)
  BY <1>1, <1>2, <1>6, Recursion
<1>8. g \in [0 .. m -> T] /\ g[0] = a /\ \A n \in 1 .. m : g[n] = F(g[n - 1], n)
  <2>1. \A n \in 1 .. m : n - 1 \in 0 .. m
    BY <1>1
  <2>2. QED
    BY <1>6, <1>7, <2>1 DEF IsRun
<1>9. g = Body(g)
  <2>1. \A n \in 0 .. m : n = 0 \/ n \in 1 .. m
    BY <1>1
  <2>2. QED
    BY <1>4, <1>8, <2>1
<1>10. chosen = Body(chosen)
  <2> HIDE DEF Body
  <2>1. QED
    BY <1>9
<1> HIDE DEF chosen
<1>11. /\ chosen = [n \in 0 .. m |-> chosen[n]] /\ chosen[0] = a
       /\ \A n \in 1 .. m : chosen[n] = F(chosen[n - 1], n)
  <2>1. 0 \in 0 .. m /\ \A n \in 1 .. m : n \in 0 .. m /\ n # 0
    BY <1>1
  <2>2. QED
    BY <1>4, <1>10, <2>1
<1>12. IsRun(chosen, T, a, m, step)
  <2>1. IsChosen(chosen, T, a, m, step)
    BY <1>6, <1>11 DEF IsChosen
  <2>2. QED
    BY <1>1, <1>2, <1>6, <2>1, ChosenRun
<1>13. QED
  BY <1>5, <1>11, <1>12 DEF IsBookOfBrackets, IsRun, T, a, m, F

IsMatch(match) == match.events \in Seq(BracketEvents) /\ IsFiniteSet(match.pairs)

(* What a book is matched to is a match, for every text.                   *)
LEMMA BookMatched ==
    ASSUME NEW U, NEW book \in Seq(Seq(Seq(U)))
    PROVE  IsMatch(BookMatch(book))
<1> DEFINE reduced == ReducedBrackets(book)
           m == Len(reduced)
           match == FoldBrackets(reduced)
<1>1. reduced \in Seq(ReducedBracketChapters)
  <2> DEFINE n == Len(book)
             T == Seq(ReducedBracketChapters)
  <2>1. PICK walk : IsBookOfBrackets(walk, book)
    BY BookOfBracketsSteps
  <2>2. walk \in [0 .. n -> T] /\ ReducedBrackets(book) = walk[n]
    BY <2>1 DEF IsBookOfBrackets
  <2>3. n \in 0 .. n
    <3>1. n \in Nat
      OBVIOUS
    <3> HIDE DEF n
    <3>2. QED
      BY <3>1
  <2> HIDE DEF n, T, reduced
  <2>4. walk[n] \in T
    BY <2>2, <2>3
  <2>5. QED
    BY <2>2, <2>4 DEF T, reduced
<1> HIDE DEF reduced
<1>2. m \in Nat /\ DOMAIN reduced = 1 .. m /\ \A i \in 1 .. m : reduced[i] \in ReducedBracketChapters
  BY <1>1
<1>3. ASSUME NEW i \in 1 .. m
      PROVE  Widened(reduced, i) \in Seq(BracketEvents)
  <2> DEFINE base == VerseBase(reduced, i)
             events == reduced[i].events
  <2>1. base \in Nat
    <3>1. [k \in 1 .. i - 1 |-> reduced[k].verses] \in Seq(Nat)
      <4>1. i - 1 \in Nat /\ \A k \in 1 .. i - 1 : k \in 1 .. m
        BY <1>2
      <4>2. \A k \in 1 .. i - 1 : reduced[k].verses \in Nat
        BY <1>2, <4>1 DEF ReducedBracketChapters
      <4>3. QED
        BY <4>1, <4>2
    <3>2. QED
      BY <3>1, TotalNat DEF VerseBase
  <2>2. events \in Seq(BracketEvents)
    BY <1>2 DEF ReducedBracketChapters
  <2>3. Widened(reduced, i) = [j \in DOMAIN events |-> [events[j] EXCEPT !.verse = @ + base]]
    BY DEF Widened
  <2> HIDE DEF base, events
  <2>4. \A j \in DOMAIN events : [events[j] EXCEPT !.verse = @ + base] \in BracketEvents
    <3> SUFFICES ASSUME NEW j \in DOMAIN events
                 PROVE  [events[j] EXCEPT !.verse = @ + base] \in BracketEvents
      OBVIOUS
    <3>1. events[j] \in BracketEvents
      BY <2>2
    <3>2. events[j].verse + base \in Nat
      BY <2>1, <3>1 DEF BracketEvents
    <3>3. QED
      BY <3>1, <3>2 DEF BracketEvents
  <2>5. QED
    BY <2>2, <2>3, <2>4
<1>4. match.events \in Seq(BracketEvents)
  <2> DEFINE parts == [i \in DOMAIN reduced |-> Widened(reduced, i)]
  <2>1. parts \in Seq(Seq(BracketEvents))
    BY <1>2, <1>3
  <2>2. match.events = FlattenSeq(parts)
    BY DEF FoldBrackets
  <2> HIDE DEF parts
  <2>3. QED
    BY <2>1, <2>2, FlattenedIn
<1>5. IsFiniteSet(match.pairs)
  <2> DEFINE of == [i \in 1 .. m |-> Pairs(reduced, i)]
             all == { of[i] : i \in 1 .. m }
  <2>1. ASSUME NEW i \in 1 .. m
        PROVE  IsFiniteSet(Pairs(reduced, i))
    <3> DEFINE R == Range(reduced[i].resolutions)
               f == [r \in R |-> <<Opener(reduced, r.open), EventBase(reduced, i) + r.close>>]
    <3>1. IsFiniteSet(R)
      <4>1. reduced[i].resolutions \in Seq([open : Openers, close : Nat])
        BY <1>2 DEF ReducedBracketChapters
      <4>2. QED
        BY <4>1, RangeFinite
    <3>2. Pairs(reduced, i) = { f[r] : r \in R }
      BY DEF Pairs
    <3> HIDE DEF R, f
    <3>3. QED
      BY <3>1, <3>2, ImageFinite
  <2>2. IsFiniteSet(1 .. m)
    BY <1>2, FS_Interval
  <2>3. match.pairs = UNION all
    <3>1. match.pairs = UNION { Pairs(reduced, i) : i \in DOMAIN reduced }
      BY DEF FoldBrackets
    <3>2. all = { Pairs(reduced, i) : i \in DOMAIN reduced }
      BY <1>2
    <3> HIDE DEF all
    <3>3. QED
      BY <3>1, <3>2
  <2>4. IsFiniteSet(all)
    <3> HIDE DEF of
    <3>1. QED
      BY <2>2, ImageFinite
  <2>5. \A X \in all : IsFiniteSet(X)
    BY <2>1
  <2> HIDE DEF all
  <2>6. QED
    BY <2>3, <2>4, <2>5, FS_UNION
<1>6. BookMatch(book) = match
  BY DEF BookMatch, reduced
<1> HIDE DEF match
<1>7. IsMatch(match)
  BY <1>4, <1>5 DEF IsMatch
<1>8. QED
  BY <1>6, <1>7

(* What a family contributes is counts.                                    *)
LEMMA FamilyCounted ==
    ASSUME NEW match, IsMatch(match), NEW f \in { e.family : e \in Range(match.events) }
    PROVE  /\ FamilyAddend(match, f).events \in Nat \ {0}
           /\ FamilyAddend(match, f).matched \in Nat
           /\ IsTally(FamilyAddend(match, f).distances)
<1> DEFINE mine == { i \in DOMAIN match.events : match.events[i].family = f }
           pairs == { p \in match.pairs : p[1] \in mine }
           distances == [d \in { Distance(match, p) : p \in pairs } |->
                            Cardinality({ p \in pairs : Distance(match, p) = d })]
<1>1. FamilyAddend(match, f) = [events |-> Cardinality(mine),
                                matched |-> Cardinality(mine \cap MatchedEvents(match)),
                                distances |-> distances]
  BY DEF FamilyAddend
<1>2. IsFiniteSet(DOMAIN match.events) /\ IsFiniteSet(match.pairs)
  BY RangeFinite DEF IsMatch
<1>3. mine # {}
  BY DEF Range
<1>4. mine \subseteq DOMAIN match.events /\ pairs \subseteq match.pairs
  OBVIOUS
<1> HIDE DEF mine
<1>5. Cardinality(mine) \in Nat \ {0} /\ Cardinality(mine \cap MatchedEvents(match)) \in Nat
  <2>1. IsFiniteSet(mine)
    BY <1>2, <1>4, FS_Subset
  <2>2. IsFiniteSet(mine \cap MatchedEvents(match))
    BY <2>1, FS_Subset
  <2>3. QED
    BY <1>3, <2>1, <2>2, CountPositive, FS_CardinalityType
<1>6. IsFiniteSet(pairs)
  BY <1>2, <1>4, FS_Subset
<1> HIDE DEF pairs
<1>7. IsTally(distances)
  <2> DEFINE g == [p \in pairs |-> Distance(match, p)]
             D == { g[p] : p \in pairs }
             ApartBy(d) == { p \in pairs : Distance(match, p) = d }
  <2>1. IsFiniteSet(D)
    <3> HIDE DEF g
    <3>1. QED
      BY <1>6, ImageFinite
  <2>2. ASSUME NEW d \in D
        PROVE  Cardinality(ApartBy(d)) \in Nat \ {0}
    <3>1. ApartBy(d) # {} /\ ApartBy(d) \subseteq pairs
      OBVIOUS
    <3> HIDE DEF At
    <3>2. IsFiniteSet(ApartBy(d))
      BY <1>6, <3>1, FS_Subset
    <3>3. QED
      BY <3>1, <3>2, CountPositive
  <2>3. distances = [d \in D |-> Cardinality(ApartBy(d))]
    OBVIOUS
  <2> HIDE DEF D, At, distances
  <2>4. distances \in [D -> Nat \ {0}]
    BY <2>2, <2>3
  <2>5. QED
    BY <2>1, <2>4, TallyOf
<1> HIDE DEF distances
<1>8. QED
  BY <1>1, <1>5, <1>7

AreBracketTallies(x) == IsTally(x.events) /\ IsTally(x.matched) /\ IsTally(x.distances)

(* What a book contributes to the bracket statistics is tallies.           *)
LEMMA BracketsCounted ==
    ASSUME NEW match, IsMatch(match)
    PROVE  AreBracketTallies(Addends(match))
<1> DEFINE families == { e.family : e \in Range(match.events) }
           of == [f \in families |-> FamilyAddend(match, f)]
           matched == { f \in families : of[f].matched > 0 }
           keys == UNION { {f} \X DOMAIN of[f].distances : f \in families }
<1>1. Addends(match) = [events |-> [f \in families |-> of[f].events],
                        matched |-> [f \in matched |-> of[f].matched],
                        distances |-> [k \in keys |-> of[k[1]].distances[k[2]]]]
  BY DEF Addends
<1>2. \A f \in families : /\ of[f].events \in Nat \ {0} /\ of[f].matched \in Nat
                          /\ IsTally(of[f].distances)
  BY FamilyCounted
<1>3. IsFiniteSet(families)
  <2> DEFINE g == [e \in Range(match.events) |-> e.family]
  <2>1. IsFiniteSet(Range(match.events))
    BY RangeFinite DEF IsMatch
  <2>2. families = { g[e] : e \in Range(match.events) }
    OBVIOUS
  <2> HIDE DEF g, families
  <2>3. QED
    BY <2>1, <2>2, ImageFinite
<1>4. matched \subseteq families
  OBVIOUS
<1>5. \A f \in matched : of[f].matched \in Nat \ {0}
  BY <1>2
<1> HIDE DEF families, of, matched
<1>6. IsTally([f \in families |-> of[f].events])
  BY <1>2, <1>3, TallyOf
<1>7. IsTally([f \in matched |-> of[f].matched])
  <2>1. IsFiniteSet(matched)
    BY <1>3, <1>4, FS_Subset
  <2>2. QED
    BY <1>5, <2>1, TallyOf
<1>8. IsTally([k \in keys |-> of[k[1]].distances[k[2]]])
  <2>1. IsFiniteSet(keys)
    <3> DEFINE part == [f \in families |-> {f} \X DOMAIN of[f].distances]
               all == { part[f] : f \in families }
    <3>1. \A f \in families : IsFiniteSet({f} \X DOMAIN of[f].distances)
      BY <1>2, TallyIs, FS_Singleton, FS_Product
    <3>2. keys = UNION all /\ \A X \in all : IsFiniteSet(X)
      BY <3>1
    <3>3. IsFiniteSet(all)
      <4> HIDE DEF part
      <4>1. QED
        BY <1>3, ImageFinite
    <3> HIDE DEF all, keys
    <3>4. QED
      BY <3>2, <3>3, FS_UNION
  <2>2. ASSUME NEW k \in keys
        PROVE  of[k[1]].distances[k[2]] \in Nat \ {0}
    <3>1. k[1] \in families /\ k[2] \in DOMAIN of[k[1]].distances
      <4>1. PICK f \in families : k \in {f} \X DOMAIN of[f].distances
        OBVIOUS
      <4>2. QED
        BY <4>1
    <3> DEFINE d == of[k[1]].distances
    <3>2. d \in [DOMAIN d -> Nat \ {0}]
      BY <1>2, <3>1, TallyIs
    <3>3. k[2] \in DOMAIN d
      BY <3>1
    <3> HIDE DEF d
    <3>4. d[k[2]] \in Nat \ {0}
      BY <3>2, <3>3
    <3>5. QED
      BY <3>4 DEF d
  <2> HIDE DEF keys
  <2>3. [k \in keys |-> of[k[1]].distances[k[2]]] \in [keys -> Nat \ {0}]
    BY <2>2
  <2>4. QED
    BY <2>1, <2>3, TallyOf
<1> HIDE DEF keys
<1>9. QED
  BY <1>1, <1>6, <1>7, <1>8 DEF AreBracketTallies

(***************************************************************************)
(* Doubled words and repeated letters: what a book adds.                   *)
(***************************************************************************)
Scans(letters) ==
    [spans : Seq(Int \X Int), run : [start : Nat, glyph : {""} \cup Range(letters), len : Nat]]

LEMMA RunFlushed ==
    ASSUME NEW letters, NEW r \in Scans(letters)
    PROVE  Flushed(r.spans, r.run) \in Seq(Int \X Int)
<1>1. r.spans \in Seq(Int \X Int) /\ r.run.start \in Nat /\ r.run.len \in Nat
  BY DEF Scans
<1>2. <<r.run.start, r.run.start + r.run.len - 1>> \in Int \X Int
  BY <1>1
<1> DEFINE span == <<r.run.start, r.run.start + r.run.len - 1>>
<1> HIDE DEF span
<1>3. Append(r.spans, span) \in Seq(Int \X Int)
  BY <1>1, <1>2 DEF span
<1>4. QED
  BY <1>1, <1>3 DEF Flushed, span

(* A letter keeps a scan for runs a scan.                                  *)
LEMMA LetterKeeps ==
    ASSUME NEW T, NEW letters \in Seq(T), NEW x \in Scans(letters), NEW n \in 1 .. Len(letters)
    PROVE  WithLetter(x, n, letters[n]) \in Scans(letters)
<1>1. letters[n] \in Range(letters) /\ n \in Nat
  BY LengthIn DEF Range
<1>2. x.run.len + 1 \in Nat /\ x.run.start \in Nat
  <2>1. x.run \in [start : Nat, glyph : {""} \cup Range(letters), len : Nat]
    BY DEF Scans
  <2>2. x.run.len \in Nat /\ x.run.start \in Nat
    BY <2>1
  <2>3. QED
    BY <2>2
<1>3. [x EXCEPT !.run.len = @ + 1] \in Scans(letters)
  BY <1>2 DEF Scans
<1>4. NoRun \in [start : Nat, glyph : {""} \cup Range(letters), len : Nat]
  BY DEF NoRun
<1>5. [start |-> n, glyph |-> letters[n], len |-> 1]
        \in [start : Nat, glyph : {""} \cup Range(letters), len : Nat]
  BY <1>1
<1>6. Flushed(x.spans, x.run) \in Seq(Int \X Int)
  BY RunFlushed
<1> DEFINE f == Flushed(x.spans, x.run)
           r == IF letters[n] = "" THEN NoRun ELSE [start |-> n, glyph |-> letters[n], len |-> 1]
<1>7. r \in [start : Nat, glyph : {""} \cup Range(letters), len : Nat]
  BY <1>4, <1>5
<1> HIDE DEF r, f
<1>8. [spans |-> f, run |-> r] \in Scans(letters)
  BY <1>6, <1>7 DEF Scans, f
<1>9. QED
  BY <1>3, <1>8 DEF WithLetter, f, r

LEMMA LetterOnce ==
    ASSUME NEW x, NEW n, NEW c
    PROVE  Only({ WithLetter(r, n, c) : r \in {x} })
             = WithLetter(x, n, c)
<1> DEFINE made == { WithLetter(r, n, c) : r \in {x} }
           one == WithLetter(x, n, c)
<1>1. made = {one}
  OBVIOUS
<1> HIDE DEF made, one
<1>2. Only(made) = one
  BY <1>1, OnlyIs
<1>3. QED
  BY <1>2 DEF made, one

IsScanning(walk, letters) ==
    /\ walk \in [0 .. Len(letters) -> Scans(letters)]
    /\ walk[0] = [spans |-> << >>, run |-> NoRun]
    /\ \A n \in 1 .. Len(letters) : walk[n] = WithLetter(walk[n - 1], n, letters[n])
    /\ ScanRuns(letters) = Finished(walk[Len(letters)])

(* The letters of a word are scanned one at a time.                        *)
LEMMA ScanningSteps ==
    ASSUME NEW U, NEW letters \in Seq(U)
    PROVE  \E walk : IsScanning(walk, letters)
<1> DEFINE T == Scans(letters)
           a == [spans |-> << >>, run |-> NoRun]
           m == Len(letters)
           F(x, n) == WithLetter(x, n, letters[n])
           Once(f, n) == Only({ WithLetter(r, n, letters[n]) : r \in {f[n - 1]} })
           Body(f) == [n \in 0 .. m |-> IF n = 0 THEN a ELSE Once(f, n)]
           chosen == CHOOSE f : f = Body(f)
           step == [e \in T \X (1 .. m) |-> F(e[1], e[2])]
<1>1. m \in Nat
  BY LengthIn
<1>2. a \in T
  <2>1. << >> \in Seq(Int \X Int)
    OBVIOUS
  <2>2. QED
    BY <2>1 DEF Scans, NoRun
<1>3. ASSUME NEW x \in T, NEW n \in 1 .. m
      PROVE  F(x, n) \in T
  BY LetterKeeps
<1>4. \A f, n : Once(f, n) = F(f[n - 1], n)
  BY LetterOnce
<1>5. ScanRuns(letters) = Finished(chosen[m])
  BY DEF ScanRuns
<1> HIDE DEF T, a, m, F, Once
<1>6. step \in [T \X (1 .. m) -> T] /\ \A x \in T : \A n \in 1 .. m : step[x, n] = F(x, n)
  BY <1>3
<1> HIDE DEF step
<1>7. PICK g : IsRun(g, T, a, m, step)
  BY <1>1, <1>2, <1>6, Recursion
<1>8. g \in [0 .. m -> T] /\ g[0] = a /\ \A n \in 1 .. m : g[n] = F(g[n - 1], n)
  <2>1. \A n \in 1 .. m : n - 1 \in 0 .. m
    BY <1>1
  <2>2. QED
    BY <1>6, <1>7, <2>1 DEF IsRun
<1>9. g = Body(g)
  <2>1. \A n \in 0 .. m : n = 0 \/ n \in 1 .. m
    BY <1>1
  <2>2. QED
    BY <1>4, <1>8, <2>1
<1>10. chosen = Body(chosen)
  <2> HIDE DEF Body
  <2>1. QED
    BY <1>9
<1> HIDE DEF chosen
<1>11. /\ chosen = [n \in 0 .. m |-> chosen[n]] /\ chosen[0] = a
       /\ \A n \in 1 .. m : chosen[n] = F(chosen[n - 1], n)
  <2>1. 0 \in 0 .. m /\ \A n \in 1 .. m : n \in 0 .. m /\ n # 0
    BY <1>1
  <2>2. QED
    BY <1>4, <1>10, <2>1
<1>12. IsRun(chosen, T, a, m, step)
  <2>1. IsChosen(chosen, T, a, m, step)
    BY <1>6, <1>11 DEF IsChosen
  <2>2. QED
    BY <1>1, <1>2, <1>6, <2>1, ChosenRun
<1>13. QED
  BY <1>5, <1>11, <1>12 DEF IsScanning, IsRun, T, a, m, F

LEMMA RunsScanned ==
    ASSUME NEW U, NEW letters \in Seq(U)
    PROVE  ScanRuns(letters) \in Seq(Int \X Int)
<1> DEFINE m == Len(letters)
<1>1. PICK walk : IsScanning(walk, letters)
  BY ScanningSteps
<1>2. m \in 0 .. m
  BY LengthIn
<1>3. walk \in [0 .. m -> Scans(letters)] /\ ScanRuns(letters) = Finished(walk[m])
  BY <1>1 DEF IsScanning
<1> HIDE DEF m
<1>4. walk[m] \in Scans(letters)
  BY <1>2, <1>3
<1>5. QED
  BY <1>3, <1>4, RunFlushed DEF Finished

IsRunAddend(x) == x.units \in Nat /\ IsTally(x.clusters) /\ IsTally(x.words)

(* What a verse contributes to the run statistics is tallies.              *)
LEMMA VerseRunsCounted ==
    ASSUME NEW U, NEW verse \in Seq(U)
    PROVE  IsRunAddend(VerseAddend(verse))
<1>1. Len(verse) \in Nat /\ DOMAIN verse = 1 .. Len(verse)
  BY LengthIn
<1>2. Chunks(verse) \in Nat
  <2> DEFINE chunks == { i \in DOMAIN verse : /\ verse[i].kind # "space"
                                              /\ (i = 1 \/ verse[i - 1].kind = "space") }
  <2>1. IsFiniteSet(DOMAIN verse) /\ chunks \subseteq DOMAIN verse
    BY RangeFinite
  <2> HIDE DEF chunks
  <2>2. Cardinality(chunks) \in Nat
    BY <2>1, FS_Subset, FS_CardinalityType
  <2>3. QED
    BY <2>2 DEF Chunks, chunks
<1>3. IsTally(Counted(RunClusters(verse)))
  <2> DEFINE letters == WrittenLetters(verse)
             runs == ScanRuns(letters)
             clusters == ClustersOf(verse, runs)
             made == { ClustersOf(verse, ScanRuns(w)) : w \in {letters} }
  <2>1. letters = [i \in 1 .. Len(verse) |-> letters[i]]
    BY <1>1 DEF WrittenLetters
  <2> HIDE DEF letters
  <2>2. runs \in Seq(Int \X Int)
    BY <1>1, <2>1, SequenceOf, RunsScanned
  <2>3. made = {clusters}
    OBVIOUS
  <2> HIDE DEF made
  <2>4. RunClusters(verse) = clusters
    BY <2>3, OnlyIs DEF RunClusters, made, letters
  <2> HIDE DEF runs
  <2>5. Len(runs) \in Nat /\ clusters = [i \in 1 .. Len(runs) |-> clusters[i]]
    BY <2>2, LengthIn DEF ClustersOf
  <2> HIDE DEF clusters
  <2>6. QED
    BY <2>4, <2>5, SequenceOf, CountedIs
<1>4. IsTally(Counted(RunWords(verse)))
  <2> DEFINE of == WordsOf(verse)
             words == FoldedWords(verse, of)
             some == Selected(words, HoldingRuns(Range(words)))
             all == { FoldedWords(verse, w) : w \in {of} }
             made == { Selected(w, HoldingRuns(Range(w))) : w \in all }
  <2>1. \E m \in Nat : DOMAIN of = 1 .. m
    <3> DEFINE S == { i \in DOMAIN verse : IsLetterAt(verse, i) /\ ~ Joined(verse, i - 1) }
               starts == IndicesIn(verse, S)
               once == { WordsFrom(verse, w) : w \in {starts} }
    <3>1. once = {WordsFrom(verse, starts)}
      OBVIOUS
    <3>2. of = Only(once)
      BY DEF WordsOf
    <3> HIDE DEF once, of, S
    <3>3. of = WordsFrom(verse, starts)
      BY <3>1, <3>2, OnlyIs
    <3>4. starts \in Seq(1 .. Len(verse))
      BY IndicesAre
    <3> HIDE DEF starts
    <3>5. Len(starts) \in Nat /\ DOMAIN of = 1 .. Len(starts)
      BY <3>3, <3>4, LengthIn DEF WordsFrom
    <3>6. QED
      BY <3>5
  <2>2. PICK m \in Nat : DOMAIN of = 1 .. m
    BY <2>1
  <2>3. made = {some}
    <3>1. all = {words}
      OBVIOUS
    <3> HIDE DEF all, words
    <3>2. QED
      BY <3>1
  <2>4. RunWords(verse) = Only(made)
    BY DEF RunWords
  <2> HIDE DEF made, of
  <2>5. words = [i \in 1 .. m |-> words[i]]
    BY <2>2 DEF FoldedWords
  <2> HIDE DEF words
  <2>6. words \in Seq({ words[i] : i \in 1 .. m })
    BY <2>5, SequenceOf
  <2>7. some \in Seq({ words[i] : i \in 1 .. m })
    BY <2>6, SelectedElements
  <2> HIDE DEF some
  <2>8. RunWords(verse) = some
    BY <2>3, <2>4, OnlyIs
  <2>9. QED
    BY <2>7, <2>8, CountedIs
<1>5. QED
  BY <1>2, <1>3, <1>4 DEF VerseAddend, IsRunAddend

(* The sum of addends is one.                                              *)
LEMMA RunsSummed ==
    ASSUME NEW m \in Nat, NEW a, DOMAIN a = 1 .. m, \A k \in 1 .. m : IsRunAddend(a[k])
    PROVE  IsRunAddend(SumOfRuns(a))
<1> DEFINE units == [i \in 1 .. m |-> a[i].units]
           clusters == [i \in 1 .. m |-> a[i].clusters]
           words == [i \in 1 .. m |-> a[i].words]
<1>1. SumOfRuns(a) = [units |-> TotalOf(units), clusters |-> SumOf(clusters), words |-> SumOf(words)]
  BY DEF SumOfRuns
<1>2. units \in Seq(Nat)
  BY DEF IsRunAddend
<1>3. AreTallies(clusters, m) /\ AreTallies(words, m)
  BY DEF IsRunAddend, AreTallies
<1> HIDE DEF units, clusters, words
<1>4. QED
  BY <1>1, <1>2, <1>3, TotalNat, SumOfTallies DEF IsRunAddend

LEMMA VerseAddendOnce ==
    ASSUME NEW x
    PROVE  Only({ VerseAddend(w) : w \in {x} })
             = VerseAddend(x)
<1> DEFINE made == { VerseAddend(w) : w \in {x} }
           one == VerseAddend(x)
<1>1. made = {one}
  OBVIOUS
<1> HIDE DEF made, one
<1>2. Only(made) = one
  BY <1>1, OnlyIs
<1>3. QED
  BY <1>2 DEF made, one

LEMMA RunsOnce ==
    ASSUME NEW x
    PROVE  Only({ SumOfRuns(v) : v \in {x} })
             = SumOfRuns(x)
<1> DEFINE made == { SumOfRuns(v) : v \in {x} }
           one == SumOfRuns(x)
<1>1. made = {one}
  OBVIOUS
<1> HIDE DEF made, one
<1>2. Only(made) = one
  BY <1>1, OnlyIs
<1>3. QED
  BY <1>2 DEF made, one

(* What a chapter contributes to the run statistics is tallies.            *)
LEMMA ChapterRunsCounted ==
    ASSUME NEW U, NEW chapter \in Seq(Seq(U))
    PROVE  IsRunAddend(MapRuns(chapter))
<1> DEFINE verses == [v \in DOMAIN chapter |-> Only({ VerseAddend(w) : w \in {chapter[v]} })]
<1>1. Len(chapter) \in Nat /\ DOMAIN chapter = 1 .. Len(chapter)
  BY LengthIn
<1>2. \A v \in DOMAIN chapter : IsRunAddend(VerseAddend(chapter[v]))
  BY VerseRunsCounted
<1>3. \A v \in DOMAIN chapter : verses[v] = VerseAddend(chapter[v])
  BY VerseAddendOnce
<1>4. MapRuns(chapter) = Only({ SumOfRuns(v) : v \in {verses} })
  BY DEF MapRuns
<1>5. DOMAIN verses = DOMAIN chapter
  OBVIOUS
<1> HIDE DEF verses
<1>6. IsRunAddend(SumOfRuns(verses))
  BY <1>1, <1>2, <1>3, <1>5, RunsSummed
<1>7. QED
  BY <1>4, <1>6, RunsOnce

(* What a book contributes to the run statistics is tallies.               *)
LEMMA RunsFolded ==
    ASSUME NEW U, NEW book \in Seq(Seq(Seq(U)))
    PROVE  IsRunAddend(FoldRuns(book))
<1> DEFINE mapped == [c \in DOMAIN book |-> MapRuns(book[c])]
<1>1. Len(book) \in Nat /\ DOMAIN book = 1 .. Len(book)
  BY LengthIn
<1>2. ASSUME NEW c \in DOMAIN book
      PROVE  IsRunAddend(MapRuns(book[c]))
  BY <1>1, ChapterRunsCounted
<1>3. FoldRuns(book) = Only({ SumOfRuns(v) : v \in {mapped} })
  BY DEF FoldRuns
<1>4. DOMAIN mapped = 1 .. Len(book) /\ \A c \in 1 .. Len(book) : IsRunAddend(mapped[c])
  BY <1>1, <1>2
<1> HIDE DEF mapped
<1>5. IsRunAddend(SumOfRuns(mapped))
  BY <1>1, <1>4, RunsSummed
<1>6. QED
  BY <1>3, <1>5, RunsOnce

(***************************************************************************)
(* Scripts and raw forms: what a book adds.                                *)
(***************************************************************************)
IsScriptAddend(x) == IsTally(x.scripts) /\ IsTally(x.signatures)

(* What a book contributes to the script statistics is tallies.            *)
LEMMA ScriptsFolded ==
    ASSUME NEW U, \A u \in U : IsFiniteSet(u), NEW book \in Seq(Seq(Seq(U)))
    PROVE  IsScriptAddend(FoldScripts(book))
<1> DEFINE m == Len(book)
           mapped == [c \in DOMAIN book |-> MapScripts(book[c])]
           scripts == [c \in 1 .. m |-> MapScripts(book[c]).scripts]
           signatures == [c \in 1 .. m |-> MapScripts(book[c]).signatures]
<1>1. m \in Nat /\ DOMAIN book = 1 .. m
  BY LengthIn
<1>2. ASSUME NEW c \in 1 .. m
      PROVE  IsScriptAddend(MapScripts(book[c]))
  <2> DEFINE tokens == FlattenSeq(book[c])
             n == Len(tokens)
             bags == [i \in DOMAIN tokens |-> SetToBag(tokens[i])]
             mixed == Selected(tokens, { t \in Range(tokens) : IsMixed(t) })
  <2>1. book[c] \in Seq(Seq(U))
    BY <1>1
  <2>2. tokens \in Seq(U)
    BY <2>1, FlattenedIn
  <2>3. MapScripts(book[c]) = [scripts |-> SumOf(bags), signatures |-> Counted(mixed)]
    BY DEF MapScripts, MapTokens
  <2> HIDE DEF tokens
  <2>4. n \in Nat /\ DOMAIN tokens = 1 .. n /\ \A i \in 1 .. n : tokens[i] \in U
    BY <2>2, LengthIn
  <2>5. AreTallies(bags, n)
    <3>1. bags = [i \in 1 .. n |-> bags[i]] /\ \A i \in 1 .. n : bags[i] = SetToBag(tokens[i])
      BY <2>4
    <3> HIDE DEF bags
    <3>2. \A i \in 1 .. n : IsTally(bags[i])
      <4>1. \A i \in 1 .. n : IsFiniteSet(tokens[i])
        BY <2>4
      <4>2. 1 \in Nat \ {0}
        OBVIOUS
      <4>3. QED
        BY <3>1, <4>1, <4>2, TimesIs
    <3>3. QED
      BY <2>4, <3>1, <3>2 DEF AreTallies
  <2>6. mixed \in Seq(U)
    BY <2>2, SelectedElements
  <2> HIDE DEF bags, mixed
  <2>7. QED
    BY <2>3, <2>5, <2>6, SumOfTallies, CountedIs DEF IsScriptAddend
<1>3. FoldScripts(book) = [scripts |-> SumOf(scripts), signatures |-> SumOf(signatures)]
  <2>1. FoldScripts(book) = [scripts |-> SumOf([c \in DOMAIN mapped |-> mapped[c].scripts]),
                             signatures |-> SumOf([c \in DOMAIN mapped |-> mapped[c].signatures])]
    BY DEF FoldScripts, FoldMapped
  <2>2. [c \in DOMAIN mapped |-> mapped[c].scripts] = scripts
    BY <1>1
  <2>3. [c \in DOMAIN mapped |-> mapped[c].signatures] = signatures
    BY <1>1
  <2> HIDE DEF scripts, signatures, mapped
  <2>4. QED
    BY <2>1, <2>2, <2>3
<1>4. AreTallies(scripts, m) /\ AreTallies(signatures, m)
  BY <1>1, <1>2 DEF IsScriptAddend, AreTallies
<1> HIDE DEF scripts, signatures
<1>5. QED
  BY <1>3, <1>4, SumOfTallies DEF IsScriptAddend

FormRows(U, P) == UNION { [D -> [count : Nat \ {0}, first : P]] : D \in FiniteSubsets(U) }

LEMMA FormRowsAre ==
    ASSUME NEW U, NEW P, NEW rows \in FormRows(U, P)
    PROVE  /\ DOMAIN rows \in FiniteSubsets(U)
           /\ rows \in [DOMAIN rows -> [count : Nat \ {0}, first : P]]
<1>1. PICK D \in FiniteSubsets(U) : rows \in [D -> [count : Nat \ {0}, first : P]]
  BY DEF FormRows
<1>2. QED
  BY <1>1

(* A unit keeps a table of written forms a table of forms.                 *)
LEMMA FormKeeps ==
    ASSUME NEW U, NEW P, NEW rows \in FormRows(U, P), NEW raw \in U, NEW at \in P
    PROVE  WithForm(rows, raw, at) \in FormRows(U, P)
<1> DEFINE D == DOMAIN rows
           V == [count : Nat \ {0}, first : P]
<1>1. D \in SUBSET U /\ IsFiniteSet(D) /\ rows \in [D -> V]
  BY FormRowsAre DEF FiniteSubsets
<1>2. CASE raw \in D
  <2> DEFINE next == [rows EXCEPT ![raw].count = @ + 1]
  <2>1. rows[raw] \in V
    BY <1>1, <1>2
  <2>2. [rows[raw] EXCEPT !.count = @ + 1] \in V
    BY <2>1
  <2>3. next = [rows EXCEPT ![raw] = [rows[raw] EXCEPT !.count = @ + 1]]
    BY <1>1
  <2>4. next \in [D -> V]
    <3> HIDE DEF V, D, next
    <3>1. QED
      BY <1>1, <1>2, <2>2, <2>3
  <2>5. WithForm(rows, raw, at) = next
    BY <1>2 DEF WithForm
  <2>6. D \in FiniteSubsets(U)
    BY <1>1 DEF FiniteSubsets
  <2> HIDE DEF D, next
  <2>7. QED
    BY <2>4, <2>5, <2>6 DEF FormRows
<1>3. CASE raw \notin D
  <2> DEFINE E == D \cup {raw}
             next == [r \in E |-> IF r = raw THEN [count |-> 1, first |-> at] ELSE rows[r]]
  <2>1. WithForm(rows, raw, at) = next
    BY <1>3 DEF WithForm
  <2>2. E \in FiniteSubsets(U)
    BY <1>1, FS_AddElement DEF FiniteSubsets
  <2>3. next \in [E -> V]
    <3>1. [count |-> 1, first |-> at] \in V
      OBVIOUS
    <3> HIDE DEF V
    <3>2. QED
      BY <1>1, <3>1
  <2> HIDE DEF E, next
  <2>4. QED
    BY <2>1, <2>2, <2>3 DEF FormRows
<1>4. QED
  BY <1>2, <1>3

LEMMA FormOnce ==
    ASSUME NEW x, NEW y, NEW z
    PROVE  Only({ WithForm(r, y, z) : r \in {x} })
             = WithForm(x, y, z)
<1> DEFINE made == { WithForm(r, y, z) : r \in {x} }
           one == WithForm(x, y, z)
<1>1. made = {one}
  OBVIOUS
<1> HIDE DEF made, one
<1>2. Only(made) = one
  BY <1>1, OnlyIs
<1>3. QED
  BY <1>2 DEF made, one

IsForms(walk, chapter, at, U, P) ==
    /\ walk \in [0 .. Len(at) -> FormRows(U, P)]
    /\ walk[0] = << >>
    /\ \A n \in 1 .. Len(at) : walk[n] = WithForm(walk[n - 1], chapter[at[n][1]][at[n][2]], at[n])
    /\ FormsAt(chapter, at) = walk[Len(at)]

(* The units of a chapter enter its table of forms one at a time.          *)
LEMMA FormsSteps ==
    ASSUME NEW U, NEW P, NEW chapter, NEW at \in Seq(P), \A p \in P : chapter[p[1]][p[2]] \in U
    PROVE  \E walk : IsForms(walk, chapter, at, U, P)
<1> DEFINE T == FormRows(U, P)
           a == << >>
           m == Len(at)
           F(x, n) == WithForm(x, chapter[at[n][1]][at[n][2]], at[n])
           Once(f, n) == Only({ WithForm(r, chapter[at[n][1]][at[n][2]], at[n]) : r \in {f[n - 1]} })
           Body(f) == [n \in 0 .. m |-> IF n = 0 THEN a ELSE Once(f, n)]
           chosen == CHOOSE f : f = Body(f)
           step == [e \in T \X (1 .. m) |-> F(e[1], e[2])]
<1>1. m \in Nat
  BY LengthIn
<1>2. a \in T
  <2>1. << >> \in [{} -> [count : Nat \ {0}, first : P]]
    OBVIOUS
  <2>2. {} \in FiniteSubsets(U)
    BY FS_EmptySet DEF FiniteSubsets
  <2>3. QED
    BY <2>1, <2>2 DEF FormRows
<1>3. ASSUME NEW x \in T, NEW n \in 1 .. m
      PROVE  F(x, n) \in T
  <2>1. at[n] \in P
    BY LengthIn
  <2>2. QED
    BY <2>1, FormKeeps
<1>4. \A f, n : Once(f, n) = F(f[n - 1], n)
  BY FormOnce
<1>5. FormsAt(chapter, at) = chosen[m]
  BY DEF FormsAt
<1> HIDE DEF T, a, m, F, Once
<1>6. step \in [T \X (1 .. m) -> T] /\ \A x \in T : \A n \in 1 .. m : step[x, n] = F(x, n)
  BY <1>3
<1> HIDE DEF step
<1>7. PICK g : IsRun(g, T, a, m, step)
  BY <1>1, <1>2, <1>6, Recursion
<1>8. g \in [0 .. m -> T] /\ g[0] = a /\ \A n \in 1 .. m : g[n] = F(g[n - 1], n)
  <2>1. \A n \in 1 .. m : n - 1 \in 0 .. m
    BY <1>1
  <2>2. QED
    BY <1>6, <1>7, <2>1 DEF IsRun
<1>9. g = Body(g)
  <2>1. \A n \in 0 .. m : n = 0 \/ n \in 1 .. m
    BY <1>1
  <2>2. QED
    BY <1>4, <1>8, <2>1
<1>10. chosen = Body(chosen)
  <2> HIDE DEF Body
  <2>1. QED
    BY <1>9
<1> HIDE DEF chosen
<1>11. /\ chosen = [n \in 0 .. m |-> chosen[n]] /\ chosen[0] = a
       /\ \A n \in 1 .. m : chosen[n] = F(chosen[n - 1], n)
  <2>1. 0 \in 0 .. m /\ \A n \in 1 .. m : n \in 0 .. m /\ n # 0
    BY <1>1
  <2>2. QED
    BY <1>4, <1>10, <2>1
<1>12. IsRun(chosen, T, a, m, step)
  <2>1. IsChosen(chosen, T, a, m, step)
    BY <1>6, <1>11 DEF IsChosen
  <2>2. QED
    BY <1>1, <1>2, <1>6, <2>1, ChosenRun
<1>13. QED
  BY <1>5, <1>11, <1>12 DEF IsForms, IsRun, T, a, m, F

LEMMA FormsMapped ==
    ASSUME NEW U, NEW chapter \in Seq(Seq(U))
    PROVE  MapForms(chapter) \in FormRows(U, PlacesIn(chapter))
<1> DEFINE at == PlacesOf(chapter)
           m == Len(at)
           P == PlacesIn(chapter)
<1>1. at \in Seq(P) /\ \A p \in P : chapter[p[1]][p[2]] \in U
  BY PlacesAre
<1>2. MapForms(chapter) = FormsAt(chapter, at)
  BY DEF MapForms
<1> HIDE DEF at, P
<1>3. PICK walk : IsForms(walk, chapter, at, U, P)
  BY <1>1, FormsSteps
<1>4. m \in 0 .. m
  BY <1>1, LengthIn
<1>5. walk \in [0 .. m -> FormRows(U, P)] /\ FormsAt(chapter, at) = walk[m]
  BY <1>3 DEF IsForms
<1> HIDE DEF m
<1>6. walk[m] \in FormRows(U, P)
  BY <1>4, <1>5
<1>7. QED
  BY <1>2, <1>5, <1>6 DEF P

(* What a book contributes to the written forms is a tally.                *)
LEMMA FormsFolded ==
    ASSUME NEW U, NEW book \in Seq(Seq(Seq(U)))
    PROVE  IsTally(FoldForms(book))
<1> DEFINE m == Len(book)
           rows == [c \in DOMAIN book |-> CountsOf(MapForms(book[c]))]
           perRaw == SumOf(rows)
           key == [raw \in DOMAIN perRaw |-> <<Nfc[raw], raw>>]
           keys == { key[raw] : raw \in DOMAIN perRaw }
<1>1. m \in Nat /\ DOMAIN book = 1 .. m
  BY LengthIn
<1>2. ASSUME NEW c \in 1 .. m
      PROVE  IsTally(CountsOf(MapForms(book[c])))
  <2> DEFINE forms == MapForms(book[c])
             D == DOMAIN forms
  <2>1. book[c] \in Seq(Seq(U))
    BY <1>1
  <2>2. D \in FiniteSubsets(U) /\ forms \in [D -> [count : Nat \ {0}, first : PlacesIn(book[c])]]
    BY <2>1, FormsMapped, FormRowsAre
  <2> HIDE DEF forms, D
  <2>3. [raw \in D |-> forms[raw].count] \in [D -> Nat \ {0}] /\ IsFiniteSet(D)
    BY <2>2 DEF FiniteSubsets
  <2>4. QED
    BY <2>3, TallyOf DEF CountsOf, D, forms
<1>3. AreTallies(rows, m)
  BY <1>1, <1>2 DEF AreTallies
<1> HIDE DEF rows
<1>4. IsTally(perRaw)
  BY <1>3, SumOfTallies
<1>5. FoldForms(book) = [k \in keys |-> perRaw[k[2]]]
  BY DEF FoldForms, rows
<1> HIDE DEF perRaw
<1>6. perRaw \in [DOMAIN perRaw -> Nat \ {0}] /\ IsFiniteSet(DOMAIN perRaw)
  BY <1>4, TallyIs
<1>7. IsFiniteSet(keys)
  <2> HIDE DEF key
  <2>1. QED
    BY <1>6, ImageFinite
<1>8. [k \in keys |-> perRaw[k[2]]] \in [keys -> Nat \ {0}]
  BY <1>6
<1> HIDE DEF keys
<1>9. QED
  BY <1>5, <1>7, <1>8, TallyOf

(***************************************************************************)
(* Rare letters: what a book adds.                                         *)
(***************************************************************************)
GlyphNames == STRING \cup {"none"}

PendingMarks == [glyph : GlyphNames, quote : BOOLEAN, other : BOOLEAN]

LeadingGaps == [from : PendingMarks, quote : BOOLEAN, other : BOOLEAN]

OpenWords == [word : GlyphNames, case : {"uncased"}, at : {<< >>}]

Inventories == BagsOver(STRING)

Surfaces == BagsOver(Seq(STRING) \X STRING)

WordInfos == [tokens : Nat \ {0}, title : BOOLEAN, forced : {"open", "forced", "free"}]

WordTables == UNION { [D -> WordInfos] : D \in FiniteSubsets(STRING) }

GlyphWalks ==
    [first : OpenWords, lead : LeadingGaps, pending : PendingMarks, letter : BOOLEAN,
     inventory : Inventories, words : WordTables, surfaces : Surfaces]

GlyphObservations ==
    [inventory : Inventories, words : WordTables, surfaces : Surfaces,
     lead : LeadingGaps, first : OpenWords, tail : PendingMarks]

EnteringGaps == [pending : PendingMarks, initial : BOOLEAN]

ReducedGlyphChapters == [inventory : Inventories, surfaces : Surfaces, words : WordTables]

(* A table of words is a function on finitely many of them.                *)
LEMMA WordTableIs ==
    ASSUME NEW t \in WordTables
    PROVE  /\ DOMAIN t \in FiniteSubsets(STRING) /\ DOMAIN t \subseteq STRING
           /\ IsFiniteSet(DOMAIN t) /\ t \in [DOMAIN t -> WordInfos]
<1>1. PICK D \in FiniteSubsets(STRING) : t \in [D -> WordInfos]
  BY DEF WordTables
<1>2. QED
  BY <1>1 DEF FiniteSubsets

LEMMA WordTableOf ==
    ASSUME NEW D, D \subseteq STRING, IsFiniteSet(D), NEW t \in [D -> WordInfos]
    PROVE  t \in WordTables
BY DEF WordTables, FiniteSubsets

LEMMA NoGlyphsIn ==
    /\ NoPending \in PendingMarks /\ NoFirst \in OpenWords /\ BookStart \in EnteringGaps
    /\ << >> \in WordTables
<1>1. NoPending \in PendingMarks
  BY DEF NoPending, PendingMarks, GlyphNames
<1>2. NoFirst \in OpenWords
  BY DEF NoFirst, OpenWords, GlyphNames
<1>3. << >> \in WordTables
  <2>1. << >> \in [{} -> WordInfos] /\ IsFiniteSet({})
    BY FS_EmptySet
  <2>2. QED
    BY <2>1, WordTableOf
<1>4. QED
  BY <1>1, <1>2, <1>3 DEF BookStart, EnteringGaps

LEMMA GapAdvances ==
    ASSUME NEW live \in PendingMarks, NEW letter \in BOOLEAN, NEW c \in GlyphUnits, c.kind # "word"
    PROVE  Advanced(live, letter, c) \in PendingMarks
<1>1. c.kind \in {"space", "letter", "mark", "quote"} /\ c.glyph \in GlyphNames
  BY DEF GlyphUnits, GlyphNames
<1>2. CASE c.kind \in {"space", "letter"}
  BY <1>2 DEF Advanced
<1>3. CASE live # NoPending /\ c.kind \in {"mark", "quote"}
  BY <1>3 DEF Advanced, PendingMarks
<1>4. CASE live = NoPending /\ c.kind \in {"mark", "quote"}
  BY <1>1, <1>4, NoGlyphsIn DEF Advanced, PendingMarks
<1>5. QED
  BY <1>1, <1>2, <1>3, <1>4

LEMMA GapScalarKeeps ==
    ASSUME NEW acc \in GlyphWalks, NEW c \in GlyphUnits, c.kind # "word"
    PROVE  GapScalar(acc, c) \in GlyphWalks
<1> DEFINE next == [acc EXCEPT !.letter = c.kind = "letter"]
           lead == [from |-> Advanced(acc.lead.from, acc.letter, c),
                    quote |-> acc.lead.quote \/ c.kind = "quote",
                    other |-> acc.lead.other \/ c.kind = "mark"]
<1>1. /\ acc.lead \in LeadingGaps /\ acc.lead.from \in PendingMarks /\ acc.pending \in PendingMarks
      /\ acc.letter \in BOOLEAN
  BY DEF GlyphWalks, LeadingGaps
<1>2. next \in GlyphWalks /\ next.pending = acc.pending
  BY DEF GlyphWalks
<1>3. lead \in LeadingGaps
  BY <1>1, GapAdvances DEF LeadingGaps
<1>4. Advanced(acc.pending, acc.letter, c) \in PendingMarks
  BY <1>1, GapAdvances
<1>5. GapScalar(acc, c) = IF acc.first = NoFirst
                          THEN [next EXCEPT !.lead = lead]
                          ELSE [next EXCEPT !.pending = Advanced(acc.pending, acc.letter, c)]
  BY <1>2 DEF GapScalar
<1> HIDE DEF next, lead
<1>6. [next EXCEPT !.lead = lead] \in GlyphWalks
  BY <1>2, <1>3 DEF GlyphWalks
<1>7. [next EXCEPT !.pending = Advanced(acc.pending, acc.letter, c)] \in GlyphWalks
  BY <1>2, <1>4 DEF GlyphWalks
<1>8. QED
  BY <1>5, <1>6, <1>7

LEMMA GlyphWordKeeps ==
    ASSUME NEW acc \in GlyphWalks, NEW u \in GlyphUnits, u.kind = "word"
    PROVE  GlyphWord(acc, u) \in GlyphWalks
<1> DEFINE pos == PosOf(FALSE, acc.pending)
           seen == IF u.word \in DOMAIN acc.words THEN acc.words[u.word].tokens ELSE 0
           forced == IF acc.first = NoFirst THEN "open"
                     ELSE IF IsForced(pos) THEN "forced" ELSE "free"
           info == [tokens |-> seen + 1, title |-> u.title, forced |-> forced]
           first == IF acc.first = NoFirst THEN [NoFirst EXCEPT !.word = u.word] ELSE acc.first
           D == (DOMAIN acc.words) \cup {u.word}
           words == [w \in D |-> IF w = u.word THEN info ELSE acc.words[w]]
           surface == SetToBag({<<u.surface, u.lower>>})
           surfaces == IF u.mixed THEN acc.surfaces ELSE acc.surfaces (+) surface
           next == [acc EXCEPT !.first = first, !.pending = NoPending, !.letter = TRUE,
                               !.words = words, !.surfaces = surfaces]
<1>1. u.word \in STRING /\ u.surface \in Seq(STRING) /\ u.lower \in STRING /\ u.title \in BOOLEAN
  BY DEF GlyphUnits
<1>2. acc.words \in WordTables /\ acc.surfaces \in Surfaces /\ acc.first \in OpenWords
  BY DEF GlyphWalks
<1>3. IsFiniteSet(DOMAIN acc.words) /\ acc.words \in [DOMAIN acc.words -> WordInfos]
      /\ DOMAIN acc.words \subseteq STRING
  BY <1>2, WordTableIs
<1>4. seen \in Nat
  <2>1. \A w \in DOMAIN acc.words : acc.words[w].tokens \in Nat
    BY <1>3 DEF WordInfos
  <2>2. QED
    BY <2>1
<1>5. GlyphWord(acc, u) = next
  <2>1. [acc EXCEPT !.first = IF @ = NoFirst THEN [@ EXCEPT !.word = u.word] ELSE @,
                    !.pending = NoPending,
                    !.letter = TRUE,
                    !.words = [w \in (DOMAIN @) \cup {u.word} |-> IF w = u.word THEN info ELSE @[w]],
                    !.surfaces = IF u.mixed THEN @ ELSE @ (+) surface] = next
    <3> HIDE DEF info, surface
    <3>1. acc.first = NoFirst => [acc.first EXCEPT !.word = u.word] = [NoFirst EXCEPT !.word = u.word]
      OBVIOUS
    <3>2. QED
      BY <3>1
  <2>2. QED
    BY <2>1 DEF GlyphWord
<1>6. info \in WordInfos
  <2>1. forced \in {"open", "forced", "free"}
    OBVIOUS
  <2> HIDE DEF forced, seen
  <2>2. seen + 1 \in Nat \ {0}
    BY <1>4
  <2>3. QED
    BY <1>1, <2>1, <2>2 DEF WordInfos
<1> HIDE DEF seen, forced, info
<1>7. words \in WordTables
  <2>1. D \subseteq STRING /\ IsFiniteSet(D)
    BY <1>1, <1>3, FS_AddElement
  <2>2. words \in [D -> WordInfos]
    BY <1>3, <1>6
  <2> HIDE DEF D, words
  <2>3. QED
    BY <2>1, <2>2, WordTableOf
<1>8. surfaces \in Surfaces
  <2> DEFINE e == <<u.surface, u.lower>>
  <2>1. e \in Seq(STRING) \X STRING
    BY <1>1
  <2> HIDE DEF e
  <2>2. surface \in Surfaces
    BY <2>1, BagOfOne DEF Surfaces, e
  <2> HIDE DEF surface
  <2>3. QED
    BY <1>2, <2>2, BagSum DEF Surfaces
<1>9. first \in OpenWords
  BY <1>1, <1>2 DEF OpenWords, GlyphNames, NoFirst
<1>10. NoPending \in PendingMarks
  BY NoGlyphsIn
<1> HIDE DEF first, words, surfaces
<1>11. next \in GlyphWalks
  BY <1>7, <1>8, <1>9, <1>10 DEF GlyphWalks
<1>12. QED
  BY <1>5, <1>11

(* The letters of a unit.                                                  *)
LEMMA LettersIn ==
    ASSUME NEW u \in GlyphUnits
    PROVE  Counted(LettersOf(u)) \in Inventories
<1>1. LettersOf(u) \in Seq(STRING)
  <2>1. CASE u.kind = "word"
    <3>1. u.surface \in Seq(STRING)
      BY <2>1 DEF GlyphUnits
    <3>2. QED
      BY <2>1, <3>1 DEF LettersOf
  <2>2. CASE u.kind # "word"
    <3>1. u.glyph \in STRING
      BY <2>2 DEF GlyphUnits
    <3>2. <<u.glyph>> \in Seq(STRING) /\ << >> \in Seq(STRING)
      BY <3>1
    <3>3. QED
      BY <2>2, <3>2 DEF LettersOf
  <2>3. QED
    BY <2>1, <2>2
<1> DEFINE s == LettersOf(u)
<1> HIDE DEF s
<1>2. s \in Seq(STRING)
  BY <1>1 DEF s
<1>3. IsTally(Counted(s))
  BY <1>2, CountedIs
<1>4. DOMAIN Counted(s) \subseteq STRING
  BY <1>2 DEF Counted, Range
<1>5. QED
  BY <1>3, <1>4, TallyIn DEF Inventories, s

(* A unit keeps a walk over glyphs typed, whatever gap and word are open.  *)
LEMMA GlyphUnitKeeps ==
    ASSUME NEW acc \in GlyphWalks, NEW u \in GlyphUnits, NEW at
    PROVE  CountedUnit(AtPlace(acc, at), u) \in GlyphWalks
<1> DEFINE placed == AtPlace(acc, at)
           inventory == placed.inventory (+) Counted(LettersOf(u))
           next == [placed EXCEPT !.inventory = inventory]
<1>1. placed \in GlyphWalks
  BY DEF AtPlace, GlyphWalks
<1> HIDE DEF placed
<1>2. inventory \in Inventories
  <2>1. placed.inventory \in Inventories /\ Counted(LettersOf(u)) \in Inventories
    BY <1>1, LettersIn DEF GlyphWalks
  <2> DEFINE more == Counted(LettersOf(u))
  <2> HIDE DEF more
  <2>2. placed.inventory (+) more \in Inventories
    BY <2>1, BagSum DEF Inventories, more
  <2>3. QED
    BY <2>2 DEF more
<1>3. CountedUnit(placed, u) = GlyphUnit(next, u)
  <2>1. [placed EXCEPT !.inventory = @ (+) Counted(LettersOf(u))] = next
    OBVIOUS
  <2> HIDE DEF next
  <2>2. QED
    BY <2>1 DEF CountedUnit
<1> HIDE DEF inventory
<1>4. next \in GlyphWalks
  BY <1>1, <1>2 DEF GlyphWalks
<1> HIDE DEF next
<1>5. GlyphUnit(next, u) \in GlyphWalks
  BY <1>4, GapScalarKeeps, GlyphWordKeeps DEF GlyphUnit
<1>6. QED
  BY <1>3, <1>5 DEF placed

LEMMA GlyphOnce ==
    ASSUME NEW x, NEW u
    PROVE  Only({ CountedUnit(a, u) : a \in {x} })
             = CountedUnit(x, u)
<1> DEFINE made == { CountedUnit(a, u) : a \in {x} }
           one == CountedUnit(x, u)
<1>1. made = {one}
  OBVIOUS
<1> HIDE DEF made, one
<1>2. Only(made) = one
  BY <1>1, OnlyIs
<1>3. QED
  BY <1>2 DEF made, one

IsGlyphs(walk, chapter, at) ==
    /\ walk \in [0 .. Len(at) -> GlyphWalks]
    /\ walk[0] = EmptyGlyphAcc
    /\ \A n \in 1 .. Len(at) : walk[n] = CountedUnit(AtPlace(walk[n - 1], at[n]), chapter[at[n][1]][at[n][2]])
    /\ WalkedGlyphs(chapter, at) = walk[Len(at)]

(* The units of a chapter are walked one at a time.                        *)
LEMMA GlyphsSteps ==
    ASSUME NEW chapter, NEW at \in Seq(PlacesIn(chapter)),
           \A p \in PlacesIn(chapter) : chapter[p[1]][p[2]] \in GlyphUnits
    PROVE  \E walk : IsGlyphs(walk, chapter, at)
<1> DEFINE T == GlyphWalks
           a == EmptyGlyphAcc
           m == Len(at)
           F(x, n) == CountedUnit(AtPlace(x, at[n]), chapter[at[n][1]][at[n][2]])
           Once(f, n) == Only({ CountedUnit(acc, chapter[at[n][1]][at[n][2]]) : acc \in {AtPlace(f[n - 1], at[n])} })
           Body(f) == [n \in 0 .. m |-> IF n = 0 THEN a ELSE Once(f, n)]
           chosen == CHOOSE f : f = Body(f)
           step == [e \in T \X (1 .. m) |-> F(e[1], e[2])]
<1>1. m \in Nat
  BY LengthIn
<1>2. a \in T
  <2>1. EmptyBag \in Inventories /\ EmptyBag \in Surfaces
    BY EmptyBagIs DEF Inventories, Surfaces
  <2>2. [from |-> NoPending, quote |-> FALSE, other |-> FALSE] \in LeadingGaps
    BY NoGlyphsIn DEF LeadingGaps
  <2>3. QED
    BY <2>1, <2>2, NoGlyphsIn DEF EmptyGlyphAcc, GlyphWalks
<1>3. ASSUME NEW x \in T, NEW n \in 1 .. m
      PROVE  F(x, n) \in T
  <2>1. at[n] \in PlacesIn(chapter)
    BY LengthIn
  <2>2. QED
    BY <2>1, GlyphUnitKeeps
<1>4. \A f, n : Once(f, n) = F(f[n - 1], n)
  BY GlyphOnce
<1>5. WalkedGlyphs(chapter, at) = chosen[m]
  BY DEF WalkedGlyphs
<1> HIDE DEF T, a, m, F, Once
<1>6. step \in [T \X (1 .. m) -> T] /\ \A x \in T : \A n \in 1 .. m : step[x, n] = F(x, n)
  BY <1>3
<1> HIDE DEF step
<1>7. PICK g : IsRun(g, T, a, m, step)
  BY <1>1, <1>2, <1>6, Recursion
<1>8. g \in [0 .. m -> T] /\ g[0] = a /\ \A n \in 1 .. m : g[n] = F(g[n - 1], n)
  <2>1. \A n \in 1 .. m : n - 1 \in 0 .. m
    BY <1>1
  <2>2. QED
    BY <1>6, <1>7, <2>1 DEF IsRun
<1>9. g = Body(g)
  <2>1. \A n \in 0 .. m : n = 0 \/ n \in 1 .. m
    BY <1>1
  <2>2. QED
    BY <1>4, <1>8, <2>1
<1>10. chosen = Body(chosen)
  <2> HIDE DEF Body
  <2>1. QED
    BY <1>9
<1> HIDE DEF chosen
<1>11. /\ chosen = [n \in 0 .. m |-> chosen[n]] /\ chosen[0] = a
       /\ \A n \in 1 .. m : chosen[n] = F(chosen[n - 1], n)
  <2>1. 0 \in 0 .. m /\ \A n \in 1 .. m : n \in 0 .. m /\ n # 0
    BY <1>1
  <2>2. QED
    BY <1>4, <1>10, <2>1
<1>12. IsRun(chosen, T, a, m, step)
  <2>1. IsChosen(chosen, T, a, m, step)
    BY <1>6, <1>11 DEF IsChosen
  <2>2. QED
    BY <1>1, <1>2, <1>6, <2>1, ChosenRun
<1>13. QED
  BY <1>5, <1>11, <1>12 DEF IsGlyphs, IsRun, T, a, m, F

LEMMA GlyphsMapped ==
    ASSUME NEW chapter \in Seq(Seq(GlyphUnits))
    PROVE  MapGlyphs(chapter) \in GlyphObservations
<1> DEFINE at == PlacesOf(chapter)
           m == Len(at)
           acc == WalkedGlyphs(chapter, at)
<1>1. at \in Seq(PlacesIn(chapter)) /\ \A p \in PlacesIn(chapter) : chapter[p[1]][p[2]] \in GlyphUnits
  BY PlacesAre
<1>2. MapGlyphs(chapter) = MappedGlyphs(acc)
  BY DEF MapGlyphs
<1> HIDE DEF at
<1>3. PICK walk : IsGlyphs(walk, chapter, at)
  BY <1>1, GlyphsSteps
<1>4. m \in 0 .. m
  BY <1>1, LengthIn
<1>5. walk \in [0 .. m -> GlyphWalks] /\ acc = walk[m]
  BY <1>3 DEF IsGlyphs
<1> HIDE DEF m, acc
<1>6. acc \in GlyphWalks
  BY <1>4, <1>5
<1>7. MappedGlyphs(acc) \in GlyphObservations
  BY <1>6, NoGlyphsIn DEF MappedGlyphs, GlyphWalks, GlyphObservations
<1>8. QED
  BY <1>2, <1>7

(* A chapter reduced on what the one before left open is typed, and so is  *)
(* what it leaves.                                                         *)
LEMMA GlyphsReduced ==
    ASSUME NEW obs \in GlyphObservations, NEW entering \in EnteringGaps
    PROVE  /\ ReduceGlyphs(obs, entering) \in ReducedGlyphChapters
           /\ Leaving(obs, entering) \in EnteringGaps
<1>1. /\ obs.lead \in LeadingGaps /\ obs.lead.from \in PendingMarks /\ obs.tail \in PendingMarks
      /\ obs.lead.quote \in BOOLEAN /\ obs.lead.other \in BOOLEAN
      /\ entering.pending \in PendingMarks /\ entering.initial \in BOOLEAN
      /\ obs.inventory \in Inventories /\ obs.surfaces \in Surfaces /\ obs.words \in WordTables
  BY DEF GlyphObservations, LeadingGaps, EnteringGaps
<1>2. Applied(obs.lead, entering.pending) \in PendingMarks
  BY <1>1 DEF Applied, PendingMarks
<1>3. Leaving(obs, entering) \in EnteringGaps
  <2>1. [entering EXCEPT !.pending = Applied(obs.lead, @)] \in EnteringGaps
    BY <1>2 DEF EnteringGaps
  <2>2. [pending |-> obs.tail, initial |-> FALSE] \in EnteringGaps
    BY <1>1 DEF EnteringGaps
  <2>3. QED
    BY <2>1, <2>2 DEF Leaving
<1> DEFINE forced == IF IsForced(FirstPos(obs, entering)) THEN "forced" ELSE "free"
           D == DOMAIN obs.words
           words == [w \in D |-> IF obs.words[w].forced = "open" THEN [obs.words[w] EXCEPT !.forced = forced]
                                 ELSE obs.words[w]]
<1>4. ReduceGlyphs(obs, entering) = [inventory |-> obs.inventory, surfaces |-> obs.surfaces, words |-> words]
  BY DEF ReduceGlyphs
<1>5. forced \in {"open", "forced", "free"}
  OBVIOUS
<1> HIDE DEF forced
<1>6. words \in WordTables
  <2>1. D \subseteq STRING /\ IsFiniteSet(D) /\ obs.words \in [D -> WordInfos]
    BY <1>1, WordTableIs
  <2>2. words \in [D -> WordInfos]
    <3>1. ASSUME NEW w \in D
          PROVE  [obs.words[w] EXCEPT !.forced = forced] \in WordInfos /\ obs.words[w] \in WordInfos
      BY <1>5, <2>1 DEF WordInfos
    <3>2. QED
      BY <3>1
  <2> HIDE DEF D, words
  <2>3. QED
    BY <2>1, <2>2, WordTableOf
<1> HIDE DEF words
<1>7. QED
  BY <1>1, <1>3, <1>4, <1>6 DEF ReducedGlyphChapters

GlyphReductions == [reduced : Seq(ReducedGlyphChapters), leaving : EnteringGaps]

LEMMA GlyphReductionKeeps ==
    ASSUME NEW walk \in GlyphReductions, NEW obs \in GlyphObservations
    PROVE  WithGlyphs(walk, obs) \in GlyphReductions
<1> DEFINE r == ReduceGlyphs(obs, walk.leaving)
           next == Append(walk.reduced, r)
<1>1. walk.reduced \in Seq(ReducedGlyphChapters) /\ walk.leaving \in EnteringGaps
  BY DEF GlyphReductions
<1>2. r \in ReducedGlyphChapters /\ Leaving(obs, walk.leaving) \in EnteringGaps
  BY <1>1, GlyphsReduced
<1> HIDE DEF r
<1>3. next \in Seq(ReducedGlyphChapters)
  BY <1>1, <1>2
<1>4. WithGlyphs(walk, obs) = [reduced |-> next, leaving |-> Leaving(obs, walk.leaving)]
  BY DEF WithGlyphs, r
<1> HIDE DEF next
<1>5. QED
  BY <1>2, <1>3, <1>4 DEF GlyphReductions

LEMMA GlyphsOnce ==
    ASSUME NEW x, NEW y
    PROVE  Only({ WithGlyphs(w, obs) : w \in {x}, obs \in {y} })
             = WithGlyphs(x, y)
<1> DEFINE made == { WithGlyphs(w, obs) : w \in {x}, obs \in {y} }
           one == WithGlyphs(x, y)
<1>1. made = {one}
  OBVIOUS
<1> HIDE DEF made, one
<1>2. Only(made) = one
  BY <1>1, OnlyIs
<1>3. QED
  BY <1>2 DEF made, one

IsGlyphBook(walk, book) ==
    /\ walk \in [0 .. Len(book) -> GlyphReductions]
    /\ walk[0] = [reduced |-> << >>, leaving |-> BookStart]
    /\ \A n \in 1 .. Len(book) : walk[n] = WithGlyphs(walk[n - 1], MapGlyphs(book[n]))
    /\ ReducedGlyphs(book) = walk[Len(book)].reduced

(* The chapters of a book are reduced for glyphs one at a time.            *)
LEMMA GlyphBookSteps ==
    ASSUME NEW book \in Seq(Seq(Seq(GlyphUnits)))
    PROVE  \E walk : IsGlyphBook(walk, book)
<1> DEFINE T == GlyphReductions
           a == [reduced |-> << >>, leaving |-> BookStart]
           m == Len(book)
           F(x, n) == WithGlyphs(x, MapGlyphs(book[n]))
           Once(f, n) == Only({ WithGlyphs(w, obs) : w \in {f[n - 1]}, obs \in {MapGlyphs(book[n])} })
           Body(f) == [n \in 0 .. m |-> IF n = 0 THEN a ELSE Once(f, n)]
           chosen == CHOOSE f : f = Body(f)
           step == [e \in T \X (1 .. m) |-> F(e[1], e[2])]
<1>1. m \in Nat
  BY LengthIn
<1>2. a \in T
  <2>1. << >> \in Seq(ReducedGlyphChapters)
    OBVIOUS
  <2>2. QED
    BY <2>1, NoGlyphsIn DEF GlyphReductions
<1>3. ASSUME NEW x \in T, NEW n \in 1 .. m
      PROVE  F(x, n) \in T
  <2>1. book[n] \in Seq(Seq(GlyphUnits))
    BY LengthIn
  <2>2. QED
    BY <2>1, GlyphsMapped, GlyphReductionKeeps
<1>4. \A f, n : Once(f, n) = F(f[n - 1], n)
  BY GlyphsOnce
<1>5. ReducedGlyphs(book) = chosen[m].reduced
  BY DEF ReducedGlyphs
<1> HIDE DEF T, a, m, F, Once
<1>6. step \in [T \X (1 .. m) -> T] /\ \A x \in T : \A n \in 1 .. m : step[x, n] = F(x, n)
  BY <1>3
<1> HIDE DEF step
<1>7. PICK g : IsRun(g, T, a, m, step)
  BY <1>1, <1>2, <1>6, Recursion
<1>8. g \in [0 .. m -> T] /\ g[0] = a /\ \A n \in 1 .. m : g[n] = F(g[n - 1], n)
  <2>1. \A n \in 1 .. m : n - 1 \in 0 .. m
    BY <1>1
  <2>2. QED
    BY <1>6, <1>7, <2>1 DEF IsRun
<1>9. g = Body(g)
  <2>1. \A n \in 0 .. m : n = 0 \/ n \in 1 .. m
    BY <1>1
  <2>2. QED
    BY <1>4, <1>8, <2>1
<1>10. chosen = Body(chosen)
  <2> HIDE DEF Body
  <2>1. QED
    BY <1>9
<1> HIDE DEF chosen
<1>11. /\ chosen = [n \in 0 .. m |-> chosen[n]] /\ chosen[0] = a
       /\ \A n \in 1 .. m : chosen[n] = F(chosen[n - 1], n)
  <2>1. 0 \in 0 .. m /\ \A n \in 1 .. m : n \in 0 .. m /\ n # 0
    BY <1>1
  <2>2. QED
    BY <1>4, <1>10, <2>1
<1>12. IsRun(chosen, T, a, m, step)
  <2>1. IsChosen(chosen, T, a, m, step)
    BY <1>6, <1>11 DEF IsChosen
  <2>2. QED
    BY <1>1, <1>2, <1>6, <2>1, ChosenRun
<1>13. QED
  BY <1>5, <1>11, <1>12 DEF IsGlyphBook, IsRun, T, a, m, F

LEMMA BookOfGlyphs ==
    ASSUME NEW book \in Seq(Seq(Seq(GlyphUnits)))
    PROVE  ReducedGlyphs(book) \in Seq(ReducedGlyphChapters)
<1> DEFINE m == Len(book)
<1>1. PICK walk : IsGlyphBook(walk, book)
  BY GlyphBookSteps
<1>2. m \in 0 .. m
  BY LengthIn
<1>3. walk \in [0 .. m -> GlyphReductions] /\ ReducedGlyphs(book) = walk[m].reduced
  BY <1>1 DEF IsGlyphBook
<1> HIDE DEF m
<1>4. walk[m] \in GlyphReductions
  BY <1>2, <1>3
<1>5. QED
  BY <1>3, <1>4 DEF GlyphReductions

(* The words of a chapter keep the table of words typed.                   *)
LEMMA ShapesKeep ==
    ASSUME NEW table \in WordTables, NEW words \in WordTables
    PROVE  WithShapes(table, words) \in WordTables
<1> DEFINE D == (DOMAIN table) \cup DOMAIN words
           next == [w \in D |-> IF w \notin DOMAIN words THEN table[w]
                                ELSE IF w \notin DOMAIN table THEN words[w]
                                ELSE [words[w] EXCEPT !.tokens = @ + table[w].tokens]]
<1>1. /\ DOMAIN table \subseteq STRING /\ IsFiniteSet(DOMAIN table)
      /\ DOMAIN words \subseteq STRING /\ IsFiniteSet(DOMAIN words)
      /\ \A w \in DOMAIN table : table[w] \in WordInfos
      /\ \A w \in DOMAIN words : words[w] \in WordInfos
  BY WordTableIs
<1>2. D \subseteq STRING /\ IsFiniteSet(D)
  BY <1>1, FS_Union
<1>3. ASSUME NEW w \in (DOMAIN words) \cap DOMAIN table
      PROVE  [words[w] EXCEPT !.tokens = @ + table[w].tokens] \in WordInfos
  <2>1. words[w] \in WordInfos /\ table[w].tokens \in Nat \ {0} /\ words[w].tokens \in Nat \ {0}
    BY <1>1 DEF WordInfos
  <2>2. words[w].tokens + table[w].tokens \in Nat \ {0}
    BY <2>1
  <2>3. QED
    BY <2>1, <2>2 DEF WordInfos
<1>4. next \in [D -> WordInfos]
  BY <1>1, <1>3
<1>5. WithShapes(table, words) = next
  BY DEF WithShapes
<1> HIDE DEF D, next
<1>6. QED
  BY <1>2, <1>4, <1>5, WordTableOf

LEMMA ShapesOnce ==
    ASSUME NEW x, NEW y
    PROVE  Only({ WithShapes(t, y) : t \in {x} })
             = WithShapes(x, y)
<1> DEFINE made == { WithShapes(t, y) : t \in {x} }
           one == WithShapes(x, y)
<1>1. made = {one}
  OBVIOUS
<1> HIDE DEF made, one
<1>2. Only(made) = one
  BY <1>1, OnlyIs
<1>3. QED
  BY <1>2 DEF made, one

IsTable(walk, reduced) ==
    /\ walk \in [0 .. Len(reduced) -> WordTables]
    /\ walk[0] = << >>
    /\ \A n \in 1 .. Len(reduced) : walk[n] = WithShapes(walk[n - 1], reduced[n].words)
    /\ WordTable(reduced) = walk[Len(reduced)]

(* The table of words takes one chapter at a time.                         *)
LEMMA TableSteps ==
    ASSUME NEW reduced \in Seq(ReducedGlyphChapters)
    PROVE  \E walk : IsTable(walk, reduced)
<1> DEFINE T == WordTables
           a == << >>
           m == Len(reduced)
           F(x, n) == WithShapes(x, reduced[n].words)
           Once(f, n) == Only({ WithShapes(t, reduced[n].words) : t \in {f[n - 1]} })
           Body(f) == [n \in 0 .. m |-> IF n = 0 THEN a ELSE Once(f, n)]
           chosen == CHOOSE f : f = Body(f)
           step == [e \in T \X (1 .. m) |-> F(e[1], e[2])]
<1>1. m \in Nat
  BY LengthIn
<1>2. a \in T
  BY NoGlyphsIn
<1>3. ASSUME NEW x \in T, NEW n \in 1 .. m
      PROVE  F(x, n) \in T
  <2>1. reduced[n] \in ReducedGlyphChapters
    BY LengthIn
  <2>2. QED
    BY <2>1, ShapesKeep DEF ReducedGlyphChapters
<1>4. \A f, n : Once(f, n) = F(f[n - 1], n)
  BY ShapesOnce
<1>5. WordTable(reduced) = chosen[m]
  BY DEF WordTable
<1> HIDE DEF T, a, m, F, Once
<1>6. step \in [T \X (1 .. m) -> T] /\ \A x \in T : \A n \in 1 .. m : step[x, n] = F(x, n)
  BY <1>3
<1> HIDE DEF step
<1>7. PICK g : IsRun(g, T, a, m, step)
  BY <1>1, <1>2, <1>6, Recursion
<1>8. g \in [0 .. m -> T] /\ g[0] = a /\ \A n \in 1 .. m : g[n] = F(g[n - 1], n)
  <2>1. \A n \in 1 .. m : n - 1 \in 0 .. m
    BY <1>1
  <2>2. QED
    BY <1>6, <1>7, <2>1 DEF IsRun
<1>9. g = Body(g)
  <2>1. \A n \in 0 .. m : n = 0 \/ n \in 1 .. m
    BY <1>1
  <2>2. QED
    BY <1>4, <1>8, <2>1
<1>10. chosen = Body(chosen)
  <2> HIDE DEF Body
  <2>1. QED
    BY <1>9
<1> HIDE DEF chosen
<1>11. /\ chosen = [n \in 0 .. m |-> chosen[n]] /\ chosen[0] = a
       /\ \A n \in 1 .. m : chosen[n] = F(chosen[n - 1], n)
  <2>1. 0 \in 0 .. m /\ \A n \in 1 .. m : n \in 0 .. m /\ n # 0
    BY <1>1
  <2>2. QED
    BY <1>4, <1>10, <2>1
<1>12. IsRun(chosen, T, a, m, step)
  <2>1. IsChosen(chosen, T, a, m, step)
    BY <1>6, <1>11 DEF IsChosen
  <2>2. QED
    BY <1>1, <1>2, <1>6, <2>1, ChosenRun
<1>13. QED
  BY <1>5, <1>11, <1>12 DEF IsTable, IsRun, T, a, m, F

LEMMA TableIn ==
    ASSUME NEW reduced \in Seq(ReducedGlyphChapters)
    PROVE  WordTable(reduced) \in WordTables
<1> DEFINE m == Len(reduced)
<1>1. PICK walk : IsTable(walk, reduced)
  BY TableSteps
<1>2. m \in 0 .. m
  BY LengthIn
<1>3. walk \in [0 .. m -> WordTables] /\ WordTable(reduced) = walk[m]
  BY <1>1 DEF IsTable
<1> HIDE DEF m
<1>4. QED
  BY <1>2, <1>3

(* A letter's rows count occurrences that are there.                       *)
LEMMA RowsCounted ==
    ASSUME NEW surfaces \in Surfaces
    PROVE  IsTally(Attributed(surfaces))
<1> DEFINE S == DOMAIN surfaces
           part == [s \in S |-> Range(s[1]) \X {s[2]}]
           all == { part[s] : s \in S }
           rows == UNION all
           Holding(row) == { s \in S : s[2] = row[2] /\ row[1] \in Range(s[1]) }
           Count(row, s) == surfaces[s] * Tallied(row[1], Counted(s[1]))
           bag(row) == [s \in Holding(row) |-> Count(row, s)]
<1>1. /\ S \subseteq Seq(STRING) \X STRING /\ IsFiniteSet(S)
      /\ \A s \in S : surfaces[s] \in Nat \ {0}
  BY BagIs DEF Surfaces
<1>2. Attributed(surfaces) = [row \in rows |-> BagCardinality(bag(row))]
  <2>1. all = { Range(s[1]) \X {s[2]} : s \in S }
    OBVIOUS
  <2> HIDE DEF all
  <2>2. QED
    BY <2>1 DEF Attributed
<1>3. IsFiniteSet(rows)
  <2>1. \A s \in S : IsFiniteSet(Range(s[1]) \X {s[2]})
    <3> SUFFICES ASSUME NEW s \in S
                 PROVE  IsFiniteSet(Range(s[1]) \X {s[2]})
      OBVIOUS
    <3>1. s[1] \in Seq(STRING)
      BY <1>1
    <3>2. QED
      BY <3>1, RangeFinite, FS_Singleton, FS_Product
  <2>2. \A X \in all : IsFiniteSet(X)
    BY <2>1
  <2>3. IsFiniteSet(all)
    <3> HIDE DEF part, S
    <3>1. QED
      BY <1>1, ImageFinite
  <2> HIDE DEF all
  <2>4. QED
    BY <2>2, <2>3, FS_UNION
<1>4. ASSUME NEW row \in rows
      PROVE  BagCardinality(bag(row)) \in Nat \ {0}
  <2> DEFINE H == Holding(row)
  <2>1. H \subseteq S /\ IsFiniteSet(H)
    BY <1>1, FS_Subset
  <2>2. H # {}
    <3>1. PICK s \in S : row \in Range(s[1]) \X {s[2]}
      OBVIOUS
    <3>2. s \in H
      BY <3>1
    <3>3. QED
      BY <3>2
  <2>3. ASSUME NEW s \in H
        PROVE  Count(row, s) \in Nat \ {0}
    <3>1. s[1] \in Seq(STRING) /\ surfaces[s] \in Nat \ {0} /\ row[1] \in Range(s[1])
      BY <1>1
    <3> DEFINE c == Counted(s[1])
    <3>2. row[1] \in DOMAIN c
      BY <3>1 DEF Counted
    <3>3. IsTally(c)
      BY <3>1, CountedIs
    <3> HIDE DEF c
    <3>4. Tallied(row[1], c) \in Nat \ {0}
      BY <3>2, <3>3, TallyIs
    <3> DEFINE x == Tallied(row[1], c)
               y == surfaces[s]
    <3>5. x \in Nat \ {0} /\ y \in Nat \ {0}
      BY <3>1, <3>4
    <3> HIDE DEF x, y
    <3>6. y * x \in Nat \ {0}
      BY <3>5
    <3>7. QED
      BY <3>6 DEF x, y, c
  <2>4. bag(row) \in [H -> Nat \ {0}]
    BY <2>3
  <2>5. DOMAIN bag(row) = H
    OBVIOUS
  <2> DEFINE b == bag(row)
  <2> HIDE DEF H, b
  <2>6. IsTally(b)
    BY <2>1, <2>4, TallyOf DEF b
  <2>7. BagCardinality(b) \in Nat /\ (BagCardinality(b) = 0 <=> DOMAIN b = {})
    BY <2>6, CardinalityIs DEF IsTally
  <2>8. DOMAIN b # {}
    BY <2>2, <2>5 DEF b, H
  <2>9. QED
    BY <2>7, <2>8 DEF b
<1> HIDE DEF rows
<1>5. [row \in rows |-> BagCardinality(bag(row))] \in [rows -> Nat \ {0}]
  BY <1>4
<1> DEFINE whole == [row \in rows |-> BagCardinality(bag(row))]
<1> HIDE DEF whole
<1>6. IsTally(whole)
  BY <1>3, <1>5, TallyOf DEF whole
<1>7. QED
  BY <1>2, <1>6 DEF whole

IsGlyphAddend(x) ==
    /\ x.inventory \in Inventories /\ IsTally(x.rare) /\ x.words \in WordTables

LEMMA TokensTallied ==
    ASSUME NEW x, IsGlyphAddend(x)
    PROVE  IsTally(TokensOf(x))
<1>1. x.words \in [DOMAIN x.words -> WordInfos] /\ IsFiniteSet(DOMAIN x.words)
  BY WordTableIs DEF IsGlyphAddend
<1>2. TokensOf(x) \in [DOMAIN x.words -> Nat \ {0}]
  BY <1>1 DEF TokensOf, WordInfos
<1>3. QED
  BY <1>1, <1>2, TallyOf

(* What a book contributes to the glyph statistics is tallies and a set of *)
(* words.                                                                  *)
LEMMA GlyphsFolded ==
    ASSUME NEW reduced \in Seq(ReducedGlyphChapters)
    PROVE  IsGlyphAddend(FoldGlyphs(reduced))
<1> DEFINE m == Len(reduced)
           inventories == [c \in DOMAIN reduced |-> reduced[c].inventory]
           surfaces == [c \in DOMAIN reduced |-> reduced[c].surfaces]
           rows == RowsOf(reduced)
           rare == Pruned(rows)
           words == KeepingWords(WordTable(reduced), { r[2] : r \in DOMAIN rare })
<1>1. m \in Nat /\ DOMAIN reduced = 1 .. m /\ \A c \in 1 .. m : reduced[c] \in ReducedGlyphChapters
  BY LengthIn
<1>2. FoldGlyphs(reduced) = [inventory |-> SumOf(inventories), rare |-> rare, words |-> words]
  BY DEF FoldGlyphs, FoldKeeping
<1>3. inventories \in Seq(Inventories) /\ surfaces \in Seq(Surfaces)
  BY <1>1 DEF ReducedGlyphChapters
<1> HIDE DEF inventories
<1>4. SumOf(inventories) \in Inventories
  BY <1>3, SumIn DEF Inventories
<1>5. IsTally(rows)
  <2>1. rows = Attributed(SumOf(surfaces))
    BY DEF RowsOf
  <2> HIDE DEF rows, surfaces
  <2>2. SumOf(surfaces) \in Surfaces
    BY <1>3, SumIn DEF Surfaces
  <2> DEFINE sum == SumOf(surfaces)
  <2> HIDE DEF sum
  <2>3. IsTally(Attributed(sum))
    BY <2>2, RowsCounted DEF sum
  <2>4. QED
    BY <2>1, <2>3 DEF sum
<1> HIDE DEF rows
<1>6. IsTally(rare)
  <2>1. RareRows(rows) \in SUBSET DOMAIN rows
    BY DEF RareRows
  <2>2. QED
    BY <1>5, <2>1, PartOfTally DEF Pruned
<1> HIDE DEF rare
<1>7. words \in WordTables
  <2> DEFINE t == WordTable(reduced)
             D == { r[2] : r \in DOMAIN rare } \cap DOMAIN t
  <2>1. t \in WordTables
    BY TableIn
  <2>2. words = Restrict(t, D)
    BY DEF KeepingWords
  <2> HIDE DEF t, words
  <2>3. DOMAIN t \subseteq STRING /\ IsFiniteSet(DOMAIN t) /\ t \in [DOMAIN t -> WordInfos]
    BY <2>1, WordTableIs
  <2>4. D \subseteq DOMAIN t
    OBVIOUS
  <2> HIDE DEF D
  <2>5. Restrict(t, D) \in [D -> WordInfos] /\ IsFiniteSet(D) /\ D \subseteq STRING
    BY <2>3, <2>4, FS_Subset DEF Restrict
  <2>6. QED
    BY <2>2, <2>5, WordTableOf
<1>8. QED
  BY <1>2, <1>4, <1>6, <1>7 DEF IsGlyphAddend

LEMMA AbsentIs == IsGlyphAddend(Absent) /\ DOMAIN Absent.words = {}
<1>1. EmptyBag \in Inventories /\ IsTally(EmptyBag)
  BY EmptyBagIs, EmptyTally DEF Inventories
<1>2. << >> \in WordTables
  BY NoGlyphsIn
<1>3. Absent.inventory = EmptyBag /\ Absent.rare = EmptyBag /\ Absent.words = << >>
  BY DEF Absent
<1>4. DOMAIN << >> = {}
  OBVIOUS
<1>5. QED
  BY <1>1, <1>2, <1>3, <1>4 DEF IsGlyphAddend

(***************************************************************************)
(* The totals the closure gate reads are maintained key by key.            *)
(***************************************************************************)
OnceOnly(t) == { g \in DOMAIN t : t[g] = 1 }

(* The number of words seen once moves by the shift counted on the moved   *)
(* words.                                                                  *)
LEMMA HapaxesShift ==
    ASSUME NEW t, NEW u, IsTally(t), IsTally(u), NEW S, AgreeBut(t, u, S)
    PROVE  Cardinality(OnceOnly(u)) = Cardinality(OnceOnly(t)) + HapaxShift(S, t, u)
<1>1. /\ Hapaxes(S, t) = OnceOnly(t) \cap S /\ Hapaxes(S, u) = OnceOnly(u) \cap S
      /\ OnceOnly(t) \ S = OnceOnly(u) \ S
  <2>1. \A g : g \in OnceOnly(t) <=> Tallied(g, t) = 1
    BY DEF OnceOnly, Tallied
  <2>2. \A g : g \in OnceOnly(u) <=> Tallied(g, u) = 1
    BY DEF OnceOnly, Tallied
  <2>3. QED
    BY <2>1, <2>2 DEF Hapaxes, AgreeBut
<1>2. IsFiniteSet(OnceOnly(t)) /\ IsFiniteSet(OnceOnly(u))
  <2>1. IsFiniteSet(DOMAIN t) /\ IsFiniteSet(DOMAIN u)
    BY TallyIs
  <2>2. OnceOnly(t) \subseteq DOMAIN t /\ OnceOnly(u) \subseteq DOMAIN u
    BY DEF OnceOnly
  <2>3. QED
    BY <2>1, <2>2, FS_Subset
<1> DEFINE X == OnceOnly(t)
           Y == OnceOnly(u)
<1>3. /\ Cardinality(X \ S) = Cardinality(X) - Cardinality(X \cap S)
      /\ Cardinality(Y \ S) = Cardinality(Y) - Cardinality(Y \cap S)
      /\ Cardinality(X \cap S) \in Nat /\ Cardinality(Y \cap S) \in Nat
      /\ Cardinality(X) \in Nat /\ Cardinality(Y) \in Nat
  <2>1. IsFiniteSet(X \cap S) /\ IsFiniteSet(Y \cap S)
    BY <1>2, FS_Subset
  <2>2. QED
    BY <1>2, <2>1, FS_Difference, FS_CardinalityType
<1>4. HapaxShift(S, t, u) = Cardinality(Y \cap S) - Cardinality(X \cap S)
  BY <1>1 DEF HapaxShift
<1>5. X \ S = Y \ S
  BY <1>1
<1> HIDE DEF X, Y
<1> DEFINE x == Cardinality(X)
           y == Cardinality(Y)
           xs == Cardinality(X \cap S)
           ys == Cardinality(Y \cap S)
<1>6. y = x + HapaxShift(S, t, u)
  <2>1. x - xs = y - ys
    BY <1>3, <1>5
  <2>2. x \in Nat /\ y \in Nat /\ xs \in Nat /\ ys \in Nat /\ HapaxShift(S, t, u) = ys - xs
    BY <1>3, <1>4
  <2> HIDE DEF x, y, xs, ys
  <2>3. QED
    BY <2>1, <2>2
<1>7. QED
  BY <1>6 DEF X, Y

(***************************************************************************)
(* A book's glyphs are replaced in the aggregate.                          *)
(***************************************************************************)
AllShapes(a, P) == UNION { ShapesOf(b, a[b]) : b \in P }

(* Which books are there, and which are to be.                             *)
PresentBut(P, Q, a, v, i) ==
    /\ P \ {i} = Q \ {i}
    /\ i \notin P => DOMAIN a[i].words = {}
    /\ i \notin Q => DOMAIN v[i].words = {}
    /\ \A b \in P \ {i} : a[b] = v[b]

(* The words of the corpus, when a book's are taken out and put in again.  *)
LEMMA ShapesReplaced ==
    ASSUME NEW P, NEW Q, NEW a, NEW v, NEW i, PresentBut(P, Q, a, v, i)
    PROVE  (AllShapes(a, P) \ ShapesOf(i, a[i])) \cup ShapesOf(i, v[i]) = AllShapes(v, Q)
<1>1. \A b, x : \A s \in ShapesOf(b, x) : s.book = b
  BY DEF ShapesOf
<1>2. i \notin P => ShapesOf(i, a[i]) = {}
  BY DEF PresentBut, ShapesOf
<1>3. i \notin Q => ShapesOf(i, v[i]) = {}
  BY DEF PresentBut, ShapesOf
<1> DEFINE f == [b \in P |-> ShapesOf(b, a[b])]
           g == [b \in Q |-> ShapesOf(b, v[b])]
<1>4. AllShapes(a, P) = UNION { f[b] : b \in P } /\ AllShapes(v, Q) = UNION { g[b] : b \in Q }
  BY DEF AllShapes
<1>5. \A b \in P : \A s \in f[b] : s.book = b
  BY <1>1
<1>6. \A b \in P \ {i} : b \in Q /\ f[b] = g[b]
  BY DEF PresentBut
<1>7. \A b \in Q \ {i} : b \in P
  BY DEF PresentBut
<1>8. i \in P => f[i] = ShapesOf(i, a[i])
  OBVIOUS
<1>9. i \in Q => g[i] = ShapesOf(i, v[i])
  OBVIOUS
<1>10. \A s \in ShapesOf(i, a[i]) : s.book = i
  BY <1>1
<1> DEFINE old == ShapesOf(i, a[i])
           new == ShapesOf(i, v[i])
<1> HIDE DEF f, g, old, new
<1>11. ASSUME NEW s, s \in UNION { g[b] : b \in Q }
       PROVE  s \in ((UNION { f[b] : b \in P }) \ old) \cup new
  <2>1. PICK b \in Q : s \in g[b]
    BY <1>11
  <2>2. CASE b = i
    BY <1>9, <2>1, <2>2 DEF new
  <2>3. CASE b # i
    <3>1. b \in P /\ s \in f[b]
      BY <1>6, <1>7, <2>1, <2>3
    <3>2. s.book = b
      BY <1>5, <3>1
    <3>3. s \notin old
      BY <1>10, <2>3, <3>2 DEF old
    <3>4. QED
      BY <3>1, <3>3
  <2>4. QED
    BY <2>2, <2>3
<1>12. ASSUME NEW s, s \in ((UNION { f[b] : b \in P }) \ old) \cup new
       PROVE  s \in UNION { g[b] : b \in Q }
  <2>1. CASE s \in new
    <3>1. i \in Q /\ s \in g[i]
      BY <1>3, <1>9, <2>1 DEF new
    <3>2. QED
      BY <3>1
  <2>2. CASE s \notin new
    <3>1. PICK b \in P : s \in f[b]
      BY <1>12, <2>2
    <3>2. b # i
      BY <1>8, <1>12, <2>2, <3>1 DEF old
    <3>3. b \in Q /\ s \in g[b]
      BY <1>6, <3>1, <3>2
    <3>4. QED
      BY <3>3
  <2>3. QED
    BY <2>1, <2>2
<1>13. QED
  BY <1>4, <1>11, <1>12 DEF old, new

GlyphSums(a, P, inventory) ==
    [inventory |-> inventory,
     letters |-> BagCardinality(inventory),
     hapax |-> Cardinality({ g \in DOMAIN inventory : inventory[g] = 1 }),
     rare |-> SumOf([b \in DOMAIN a |-> a[b].rare]),
     tokens |-> SumOf([b \in DOMAIN a |-> TokensOf(a[b])]),
     shape |-> UNION { ShapesOf(b, a[b]) : b \in P }]

GlyphsOf(a, P) == GlyphSums(a, P, SumOf([b \in DOMAIN a |-> a[b].inventory]))

AreGlyphAddends(a, m) == m \in Nat /\ DOMAIN a = 1 .. m /\ \A b \in 1 .. m : IsGlyphAddend(a[b])

LEMMA GlyphTallies ==
    ASSUME NEW m, NEW a, AreGlyphAddends(a, m)
    PROVE  /\ AreTallies([b \in DOMAIN a |-> a[b].inventory], m)
           /\ AreTallies([b \in DOMAIN a |-> a[b].rare], m)
           /\ AreTallies([b \in DOMAIN a |-> TokensOf(a[b])], m)
<1>1. \A b \in 1 .. m : /\ IsTally(a[b].inventory) /\ IsTally(a[b].rare)
                        /\ IsTally(TokensOf(a[b]))
  BY TokensTallied, TallyIn DEF AreGlyphAddends, IsGlyphAddend, Inventories
<1>2. m \in Nat /\ DOMAIN a = 1 .. m
  BY DEF AreGlyphAddends
<1>3. QED
  BY <1>1, <1>2 DEF AreTallies

(* The glyph statistics patched for one book are those of the books as they*)
(* now are.                                                                *)
LEMMA GlyphsReplaced ==
    ASSUME NEW m, NEW a, NEW v, AreGlyphAddends(a, m), AreGlyphAddends(v, m),
           NEW i, SameBut(a, v, m, i), NEW P, NEW Q, PresentBut(P, Q, a, v, i)
    PROVE  ReplaceGlyphs(GlyphsOf(a, P), i, a[i], v[i]) = GlyphsOf(v, Q)
<1> DEFINE A == [b \in DOMAIN a |-> a[b].inventory]
           V == [b \in DOMAIN v |-> v[b].inventory]
           R == [b \in DOMAIN a |-> a[b].rare]
           S == [b \in DOMAIN v |-> v[b].rare]
           T == [b \in DOMAIN a |-> TokensOf(a[b])]
           U == [b \in DOMAIN v |-> TokensOf(v[b])]
           old == SumOf(A)
           new == SumOf(V)
           moved == Moved(a[i].inventory, v[i].inventory)
           sums == GlyphsOf(a, P)
<1>1. DOMAIN a = 1 .. m /\ DOMAIN v = 1 .. m /\ i \in 1 .. m /\ \A b \in 1 .. m : b # i => a[b] = v[b]
  BY DEF AreGlyphAddends, SameBut
<1>2. SameBut(A, V, m, i) /\ SameBut(R, S, m, i) /\ SameBut(T, U, m, i)
  BY <1>1 DEF SameBut
<1>3. /\ A[i] = a[i].inventory /\ V[i] = v[i].inventory /\ R[i] = a[i].rare /\ S[i] = v[i].rare
      /\ T[i] = TokensOf(a[i]) /\ U[i] = TokensOf(v[i])
  BY <1>1
<1>4. /\ AreTallies(A, m) /\ AreTallies(V, m) /\ AreTallies(R, m) /\ AreTallies(S, m)
      /\ AreTallies(T, m) /\ AreTallies(U, m)
  BY GlyphTallies
<1>5. /\ sums.inventory = old /\ sums.letters = BagCardinality(old)
      /\ sums.hapax = Cardinality(OnceOnly(old)) /\ sums.rare = SumOf(R)
      /\ sums.tokens = SumOf(T) /\ sums.shape = AllShapes(a, P)
  BY DEF GlyphsOf, GlyphSums, OnceOnly, AllShapes
<1>6. GlyphsOf(v, Q) = [inventory |-> new, letters |-> BagCardinality(new),
                        hapax |-> Cardinality(OnceOnly(new)), rare |-> SumOf(S), tokens |-> SumOf(U),
                        shape |-> AllShapes(v, Q)]
  BY DEF GlyphsOf, GlyphSums, OnceOnly, AllShapes
<1> HIDE DEF A, V, R, S, T, U, sums
<1>7. /\ Replaced(old, a[i].inventory, v[i].inventory) = new
      /\ Replaced(SumOf(R), a[i].rare, v[i].rare) = SumOf(S)
      /\ Replaced(SumOf(T), TokensOf(a[i]), TokensOf(v[i])) = SumOf(U)
  BY <1>2, <1>3, <1>4, SumReplaced
<1>8. IsTally(old) /\ IsTally(new)
  BY <1>4, SumOfTallies
<1> HIDE DEF old, new
<1>9. AgreeBut(old, new, moved)
  BY <1>7, UnmovedKey DEF AgreeBut
<1> HIDE DEF moved
<1>10. /\ BagCardinality(new) = BagCardinality(old) + CopiesOf(moved, new) - CopiesOf(moved, old)
       /\ Cardinality(OnceOnly(new)) = Cardinality(OnceOnly(old)) + HapaxShift(moved, old, new)
  BY <1>8, <1>9, LettersShift, HapaxesShift
<1>11. (AllShapes(a, P) \ ShapesOf(i, a[i])) \cup ShapesOf(i, v[i]) = AllShapes(v, Q)
  BY ShapesReplaced
<1>12. ReplaceGlyphs(sums, i, a[i], v[i]) =
         [inventory |-> new,
          letters |-> BagCardinality(old) + CopiesOf(moved, new) - CopiesOf(moved, old),
          hapax |-> Cardinality(OnceOnly(old)) + HapaxShift(moved, old, new),
          rare |-> SumOf(S), tokens |-> SumOf(U),
          shape |-> (AllShapes(a, P) \ ShapesOf(i, a[i])) \cup ShapesOf(i, v[i])]
  BY <1>5, <1>7 DEF ReplaceGlyphs, moved
<1>13. QED
  BY <1>6, <1>10, <1>11, <1>12 DEF sums

(***************************************************************************)
(* Runs of nonletters: what a book adds.                                   *)
(***************************************************************************)
RunSides == {"letter", "spaced", "deferred"}

NonletterRunsOf(U) ==
    [verse : Nat, span : Nat \X Nat, glyphs : Seq(U) \ {<< >>}, start : RunSides, end : RunSides]

LEMMA VerseRunsIn ==
    ASSUME NEW U, NEW chapter \in Seq(Seq(U)), NEW v \in DOMAIN chapter
    PROVE  VerseRuns(chapter, v, RunsOf(chapter[v])) \in Seq(NonletterRunsOf(U))
<1> DEFINE verse == chapter[v]
           m == Len(verse)
           C == { i \in DOMAIN verse : IsCandidate(verse[i]) }
           S == { i \in DOMAIN verse : IsCandidate(verse[i]) /\ (i = 1 \/ ~ IsCandidate(verse[i - 1])) }
           starts == IndicesIn(verse, S)
           spans == RunsFrom(verse, starts)
           runs == VerseRuns(chapter, v, spans)
<1>1. verse \in Seq(U) /\ v \in Nat /\ v \in 1 .. Len(chapter)
  BY LengthIn
<1> HIDE DEF verse
<1>2. m \in Nat /\ DOMAIN verse = 1 .. m
  BY <1>1, LengthIn
<1>3. starts \in Seq(1 .. m) /\ \A k \in DOMAIN starts : starts[k] \in S
  <2> HIDE DEF S
  <2>1. QED
    BY <1>1, IndicesAre
<1>4. S \subseteq C
  OBVIOUS
<1> HIDE DEF S, starts, m
<1>5. ASSUME NEW i \in C
      PROVE  EndOfRun(verse, i) \in i .. m
  <2>1. i \in 1 .. m
    BY <1>2
  <2>2. PICK j \in i .. m : i .. j \subseteq C /\ (j = m \/ j + 1 \notin C)
    <3> HIDE DEF C
    <3>1. QED
      BY <1>2, <1>5, <2>1, EndExists
  <2>3. \A k \in i .. j : IsCandidate(verse[k])
    BY <2>2
  <2>4. j = m \/ ~ IsCandidate(verse[j + 1])
    <3>1. j # m => j + 1 \in 1 .. m
      BY <1>2, <2>1
    <3>2. QED
      BY <1>2, <2>2, <3>1
  <2>5. QED
    BY <2>3, <2>4 DEF EndOfRun, m
<1>6. ASSUME NEW i \in C
      PROVE  Run(chapter, v, <<i, EndOfRun(verse, i)>>) \in NonletterRunsOf(U)
  <2> DEFINE j == EndOfRun(verse, i)
             glyphs == SubSeq(verse, i, j)
             start == IF i > 1 THEN OuterOf(verse[i - 1]) ELSE IF v > 1 THEN "spaced" ELSE "deferred"
             end == IF j < Len(verse) THEN OuterOf(verse[j + 1])
                    ELSE IF v < Len(chapter) THEN "spaced" ELSE "deferred"
  <2>1. i \in 1 .. m /\ j \in i .. m
    BY <1>2, <1>5
  <2>2. start \in RunSides /\ end \in RunSides
    BY DEF OuterOf, RunSides
  <2>3. Run(chapter, v, <<i, j>>)
          = [verse |-> v, span |-> <<i, j>>, glyphs |-> glyphs, start |-> start, end |-> end]
    BY DEF Run, verse
  <2> HIDE DEF start, end, j
  <2>4. glyphs \in Seq(U) \ {<< >>}
    <3>1. i \in Int /\ j \in Int /\ i <= j /\ 1 <= i /\ j <= Len(verse)
      BY <1>2, <2>1 DEF m
    <3>2. glyphs = [k \in 1 .. j - i + 1 |-> verse[i + k - 1]]
      BY <1>1, <3>1
    <3>3. \A k \in 1 .. j - i + 1 : verse[i + k - 1] \in U
      <4>1. \A k \in 1 .. j - i + 1 : i + k - 1 \in 1 .. Len(verse)
        BY <1>2, <3>1 DEF m
      <4>2. QED
        BY <1>1, <4>1
    <3>4. j - i + 1 \in Nat \ {0}
      BY <3>1
    <3> DEFINE n == j - i + 1
    <3> HIDE DEF n, glyphs
    <3>5. glyphs \in [1 .. n -> U] /\ n \in Nat \ {0}
      BY <3>2, <3>3, <3>4 DEF n
    <3>6. glyphs \in Seq(U) /\ Len(glyphs) = n
      BY <3>5
    <3>7. QED
      BY <3>5, <3>6
  <2>5. i \in Nat /\ j \in Nat
    BY <1>2, <2>1
  <2> HIDE DEF glyphs
  <2>6. QED
    BY <1>1, <2>2, <2>3, <2>4, <2>5 DEF NonletterRunsOf, j
<1>7. Len(starts) \in Nat /\ DOMAIN starts = 1 .. Len(starts) /\ \A k \in 1 .. Len(starts) : starts[k] \in C
  BY <1>3, <1>4, LengthIn
<1>8. runs = [k \in 1 .. Len(starts) |->
                 Run(chapter, v, <<starts[k], EndOfRun(verse, starts[k])>>)]
  BY <1>7 DEF VerseRuns, RunsFrom
<1> HIDE DEF C, runs
<1>9. runs \in Seq(NonletterRunsOf(U))
  BY <1>6, <1>7, <1>8
<1>10. QED
  BY <1>9 DEF RunsOf, runs, verse, starts, S

LEMMA MembersFinite ==
    ASSUME NEW run, NEW k
    PROVE  IsFiniteSet(MemberCounts(run, k))
<1> DEFINE g == run.glyphs[k].glyph
           start == StartOf(run, k)
           end == EndOf(run, k)
           A == {<<g, "count">>, <<g, "start", start>>, <<g, "end", end>>, TopoKey(g, start, end)}
           B == {<<g, "leads">>, <<g, "pair", PoolKey(run.glyphs[k + 1])>>,
                 <<g, "same", AtMost(Len(run.glyphs), RunSlots)>>,
                 <<g, "same", AtMost(Len(run.glyphs), RunSlots)>>}
<1>1. IsFiniteSet(A) /\ IsFiniteSet(B)
  BY OneFinite
<1>2. MemberCounts(run, k) \subseteq A \cup B
  <2>1. MemberCounts(run, k) =
          {<<g, "count">>}
          \cup { <<g, "start", s>> : s \in { s \in {start} : IsObservable(s) } }
          \cup { <<g, "end", s>> : s \in { s \in {end} : IsObservable(s) } }
          \cup (IF "deferred" \notin {start, end} /\ HasTopology(start, end)
                THEN {TopoKey(g, start, end)} ELSE {})
          \cup (IF IsLast(run, k) THEN {}
                ELSE {<<g, "leads">>, <<g, "pair", PoolKey(run.glyphs[k + 1])>>})
          \cup (IF IsFirst(k) /\ AllSame(run)
                THEN {<<g, "same", AtMost(Len(run.glyphs), RunSlots)>>} ELSE {})
    BY DEF MemberCounts
  <2> HIDE DEF g, start, end
  <2>2. QED
    BY <2>1
<1>3. QED
  BY <1>1, <1>2, FS_Union, FS_Subset

(* What a run contributes is a tally.                                      *)
LEMMA RunTallied ==
    ASSUME NEW U, NEW run \in NonletterRunsOf(U)
    PROVE  IsTally(RunTally(run))
<1> DEFINE glyphs == run.glyphs
           n == Len(glyphs)
           members == [k \in DOMAIN run.glyphs |-> SetToBag(MemberCounts(run, k))]
           counts == SetToBag(RunCounts(run))
           exposure == Times(Len(run.glyphs), {<<"", "exposure">>})
<1>1. glyphs \in Seq(U) /\ glyphs # << >>
  BY DEF NonletterRunsOf
<1>2. n \in Nat \ {0} /\ DOMAIN glyphs = 1 .. n
  <2> HIDE DEF glyphs
  <2>1. QED
    BY <1>1
<1>3. 1 \in Nat \ {0}
  OBVIOUS
<1>4. AreTallies(members, n)
  <2>1. \A k \in 1 .. n : IsTally(SetToBag(MemberCounts(run, k)))
    BY <1>3, MembersFinite, TimesIs
  <2>2. QED
    BY <1>2, <2>1 DEF AreTallies
<1>5. IsTally(counts)
  <2> DEFINE f == [u \in Range(glyphs) |-> <<u.glyph, "runs">>]
             some == IF \E u \in Range(glyphs) : u.kind = "digit" THEN {<<"", "digit runs">>} ELSE {}
  <2>1. IsFiniteSet(Range(glyphs))
    BY <1>1, RangeFinite
  <2>2. IsFiniteSet({ f[u] : u \in Range(glyphs) })
    <3> HIDE DEF f, glyphs
    <3>1. QED
      BY <2>1, ImageFinite
  <2>3. IsFiniteSet(some)
    BY FS_Singleton, FS_EmptySet
  <2>4. RunCounts(run) = { f[u] : u \in Range(glyphs) } \cup some
    BY DEF RunCounts
  <2> HIDE DEF f, some, glyphs
  <2>5. IsFiniteSet(RunCounts(run))
    BY <2>2, <2>3, <2>4, FS_Union
  <2>6. QED
    BY <1>3, <2>5, TimesIs
<1>6. IsTally(exposure)
  BY <1>2, FS_Singleton, TimesIs
<1>7. RunTally(run) = SumOf(members) (+) counts (+) exposure
  BY DEF RunTally
<1> HIDE DEF members, counts, exposure
<1>8. IsTally(SumOf(members))
  BY <1>4, SumOfTallies
<1>9. QED
  BY <1>5, <1>6, <1>7, <1>8, TallySum

Observing(token, obs) == obs.token = token /\ IsTally(obs.tally)

LEMMA RunsObserved ==
    ASSUME NEW U, NEW chapter \in Seq(Seq(U)), NEW token
    PROVE  Observing(token, MapRunsOf(token, chapter))
<1> DEFINE of == [v \in DOMAIN chapter |-> VerseRuns(chapter, v, RunsOf(chapter[v]))]
           runs == FlattenSeq(of)
           m == Len(runs)
           tallies == [i \in DOMAIN runs |-> RunTally(runs[i])]
<1>1. of \in Seq(Seq(NonletterRunsOf(U)))
  <2>1. \A v \in DOMAIN chapter : VerseRuns(chapter, v, RunsOf(chapter[v])) \in Seq(NonletterRunsOf(U))
    BY VerseRunsIn
  <2>2. DOMAIN chapter = 1 .. Len(chapter) /\ Len(chapter) \in Nat
    BY LengthIn
  <2>3. QED
    BY <2>1, <2>2
<1>2. MapRunsOf(token, chapter) = Observed(token, runs)
  BY DEF MapRunsOf
<1> HIDE DEF of
<1>3. runs \in Seq(NonletterRunsOf(U))
  BY <1>1, FlattenedIn
<1> HIDE DEF runs
<1>4. m \in Nat /\ DOMAIN runs = 1 .. m /\ \A i \in 1 .. m : runs[i] \in NonletterRunsOf(U)
  BY <1>3, LengthIn
<1>5. AreTallies(tallies, m)
  <2>1. \A i \in 1 .. m : IsTally(RunTally(runs[i]))
    BY <1>4, RunTallied
  <2>2. QED
    BY <1>4, <2>1 DEF AreTallies
<1>6. Observed(token, runs).token = token /\ Observed(token, runs).tally = SumOf(tallies)
  BY DEF Observed
<1> HIDE DEF tallies
<1>7. QED
  BY <1>2, <1>5, <1>6, SumOfTallies DEF Observing

(* The observations of a book's chapters.                                  *)
RunObservations(book) == { MapRunsOf(c, book[c]) : c \in DOMAIN book }

Resolutions(O) ==
    [token : Nat, obs : O, end : {"boundary", "spaced"}, start : {"boundary", "spaced"}]

RunReductions(O) == [reduced : Seq(Resolutions(O)), leaving : [seen : BOOLEAN, pending : Nat]]

LEMMA RunReductionKeeps ==
    ASSUME NEW O, NEW obs \in O, obs.token \in Nat, NEW walk \in RunReductions(O)
    PROVE  WithRuns(walk, obs) \in RunReductions(O)
<1> DEFINE before == walk.reduced
           entering == walk.leaving
           resolved == [i \in DOMAIN before |-> ResolvedTail(before[i], entering)]
           last == [token |-> obs.token, obs |-> obs, end |-> "boundary",
                    start |-> IF SeenPrevious(entering) THEN "spaced" ELSE "boundary"]
           next == Append(resolved, last)
<1>1. before \in Seq(Resolutions(O))
  BY DEF RunReductions
<1>2. WithRuns(walk, obs) = [reduced |-> next, leaving |-> LeavingRuns(obs)]
  BY DEF WithRuns, ReduceRuns
<1>3. LeavingRuns(obs) \in [seen : BOOLEAN, pending : Nat]
  BY DEF LeavingRuns
<1>4. last \in Resolutions(O)
  BY DEF Resolutions
<1> HIDE DEF before, entering, last
<1>5. resolved \in Seq(Resolutions(O))
  <2>1. \A i \in DOMAIN before : ResolvedTail(before[i], entering) \in Resolutions(O)
    <3> SUFFICES ASSUME NEW i \in DOMAIN before
                 PROVE  ResolvedTail(before[i], entering) \in Resolutions(O)
      OBVIOUS
    <3>1. before[i] \in Resolutions(O)
      BY <1>1
    <3>2. QED
      BY <3>1 DEF ResolvedTail, Resolutions
  <2>2. Len(before) \in Nat /\ DOMAIN before = 1 .. Len(before)
    BY <1>1, LengthIn
  <2>3. QED
    BY <2>1, <2>2
<1> HIDE DEF resolved
<1>6. next \in Seq(Resolutions(O))
  BY <1>4, <1>5
<1> HIDE DEF next
<1>7. QED
  BY <1>2, <1>3, <1>6 DEF RunReductions

LEMMA RunReductionOnce ==
    ASSUME NEW x, NEW y
    PROVE  Only({ WithRuns(w, obs) : w \in {x}, obs \in {y} })
             = WithRuns(x, y)
<1> DEFINE made == { WithRuns(w, obs) : w \in {x}, obs \in {y} }
           one == WithRuns(x, y)
<1>1. made = {one}
  OBVIOUS
<1> HIDE DEF made, one
<1>2. Only(made) = one
  BY <1>1, OnlyIs
<1>3. QED
  BY <1>2 DEF made, one

IsRunBook(walk, book) ==
    /\ walk \in [0 .. Len(book) -> RunReductions(RunObservations(book))]
    /\ walk[0] = [reduced |-> << >>, leaving |-> NoneSeen]
    /\ \A n \in 1 .. Len(book) : walk[n] = WithRuns(walk[n - 1], MapRunsOf(n, book[n]))
    /\ ReducedRuns(book) = walk[Len(book)].reduced

(* The chapters of a book are reduced for runs one at a time.              *)
LEMMA RunBookSteps ==
    ASSUME NEW U, NEW book \in Seq(Seq(Seq(U)))
    PROVE  \E walk : IsRunBook(walk, book)
<1> DEFINE T == RunReductions(RunObservations(book))
           a == [reduced |-> << >>, leaving |-> NoneSeen]
           m == Len(book)
           F(x, n) == WithRuns(x, MapRunsOf(n, book[n]))
           Once(f, n) == Only({ WithRuns(w, obs) : w \in {f[n - 1]}, obs \in {MapRunsOf(n, book[n])} })
           Body(f) == [n \in 0 .. m |-> IF n = 0 THEN a ELSE Once(f, n)]
           chosen == CHOOSE f : f = Body(f)
           step == [e \in T \X (1 .. m) |-> F(e[1], e[2])]
<1>1. m \in Nat
  BY LengthIn
<1>2. a \in T
  <2>1. << >> \in Seq(Resolutions(RunObservations(book)))
    OBVIOUS
  <2>2. QED
    BY <2>1 DEF NoneSeen, RunReductions
<1>3. ASSUME NEW x \in T, NEW n \in 1 .. m
      PROVE  F(x, n) \in T
  <2> DEFINE O == RunObservations(book)
             obs == MapRunsOf(n, book[n])
  <2>1. n \in Nat /\ n \in DOMAIN book /\ book[n] \in Seq(Seq(U))
    BY LengthIn
  <2>2. obs \in O
    BY <2>1 DEF RunObservations
  <2>3. obs.token = n
    BY <2>1, RunsObserved DEF Observing
  <2> HIDE DEF O, obs
  <2>4. x \in RunReductions(O)
    BY DEF O
  <2>5. WithRuns(x, obs) \in RunReductions(O)
    BY <2>1, <2>2, <2>3, <2>4, RunReductionKeeps
  <2>6. QED
    BY <2>5 DEF O, obs
<1>4. \A f, n : Once(f, n) = F(f[n - 1], n)
  BY RunReductionOnce
<1>5. ReducedRuns(book) = chosen[m].reduced
  BY DEF ReducedRuns
<1> HIDE DEF T, a, m, F, Once
<1>6. step \in [T \X (1 .. m) -> T] /\ \A x \in T : \A n \in 1 .. m : step[x, n] = F(x, n)
  BY <1>3
<1> HIDE DEF step
<1>7. PICK g : IsRun(g, T, a, m, step)
  BY <1>1, <1>2, <1>6, Recursion
<1>8. g \in [0 .. m -> T] /\ g[0] = a /\ \A n \in 1 .. m : g[n] = F(g[n - 1], n)
  <2>1. \A n \in 1 .. m : n - 1 \in 0 .. m
    BY <1>1
  <2>2. QED
    BY <1>6, <1>7, <2>1 DEF IsRun
<1>9. g = Body(g)
  <2>1. \A n \in 0 .. m : n = 0 \/ n \in 1 .. m
    BY <1>1
  <2>2. QED
    BY <1>4, <1>8, <2>1
<1>10. chosen = Body(chosen)
  <2> HIDE DEF Body
  <2>1. QED
    BY <1>9
<1> HIDE DEF chosen
<1>11. /\ chosen = [n \in 0 .. m |-> chosen[n]] /\ chosen[0] = a
       /\ \A n \in 1 .. m : chosen[n] = F(chosen[n - 1], n)
  <2>1. 0 \in 0 .. m /\ \A n \in 1 .. m : n \in 0 .. m /\ n # 0
    BY <1>1
  <2>2. QED
    BY <1>4, <1>10, <2>1
<1>12. IsRun(chosen, T, a, m, step)
  <2>1. IsChosen(chosen, T, a, m, step)
    BY <1>6, <1>11 DEF IsChosen
  <2>2. QED
    BY <1>1, <1>2, <1>6, <2>1, ChosenRun
<1>13. QED
  BY <1>5, <1>11, <1>12 DEF IsRunBook, IsRun, T, a, m, F

LEMMA EdgesTallied ==
    ASSUME NEW r
    PROVE  IsTally(EdgeCounts(r))
<1>1. 1 \in Nat \ {0}
  OBVIOUS
<1>2. \A g, name, side : IsFiniteSet(SideCount(g, name, side))
  BY FS_EmptySet, FS_Singleton DEF SideCount
<1>3. \A g, start, end : IsFiniteSet(JointCount(g, start, end))
  BY FS_EmptySet, FS_Singleton DEF JointCount
<1>4. IsTally(LeadCounts(r.obs.lead, r))
  <2> DEFINE lead == r.obs.lead
             A == SideCount(lead.glyph, "start", r.start)
             B == JointCount(lead.glyph, r.start, IF lead.other = "open" THEN r.end ELSE lead.other)
  <2>1. IsFiniteSet(A) /\ IsFiniteSet(B)
    BY <1>2, <1>3
  <2>2. LeadCounts(lead, r) = IF lead = NoEdge THEN EmptyBag ELSE SetToBag(A \cup B)
    BY DEF LeadCounts
  <2> HIDE DEF A, B, lead
  <2>3. IsTally(SetToBag(A \cup B)) /\ IsTally(EmptyBag)
    BY <1>1, <2>1, FS_Union, TimesIs, EmptyTally
  <2>4. QED
    BY <2>2, <2>3 DEF lead
<1>5. IsTally(TailCounts(r.obs.tail, r))
  <2> DEFINE tail == r.obs.tail
             A == SideCount(tail.glyph, "end", r.end)
             B == IF tail.other = "open" THEN {} ELSE JointCount(tail.glyph, tail.other, r.end)
  <2>1. IsFiniteSet(A) /\ IsFiniteSet(B)
    BY <1>2, <1>3, FS_EmptySet
  <2>2. TailCounts(tail, r) = IF tail = NoEdge THEN EmptyBag ELSE SetToBag(A \cup B)
    BY DEF TailCounts
  <2> HIDE DEF A, B, tail
  <2>3. IsTally(SetToBag(A \cup B)) /\ IsTally(EmptyBag)
    BY <1>1, <2>1, FS_Union, TimesIs, EmptyTally
  <2>4. QED
    BY <2>2, <2>3 DEF tail
<1>6. QED
  BY <1>4, <1>5, TallySum DEF EdgeCounts

(* What a book contributes to the run profile is a tally.                  *)
LEMMA NonlettersFolded ==
    ASSUME NEW U, NEW book \in Seq(Seq(Seq(U)))
    PROVE  IsTally(FoldNonletters(book))
<1> DEFINE O == RunObservations(book)
           n == Len(book)
           reduced == ReducedRuns(book)
           m == Len(reduced)
           tallies == [c \in DOMAIN reduced |-> reduced[c].obs.tally (+) EdgeCounts(reduced[c])]
<1>1. reduced \in Seq(Resolutions(O))
  <2>1. PICK walk : IsRunBook(walk, book)
    BY RunBookSteps
  <2>2. n \in 0 .. n
    BY LengthIn
  <2>3. walk \in [0 .. n -> RunReductions(O)] /\ reduced = walk[n].reduced
    BY <2>1 DEF IsRunBook
  <2> HIDE DEF n, O, reduced
  <2>4. walk[n] \in RunReductions(O)
    BY <2>2, <2>3
  <2>5. QED
    BY <2>3, <2>4 DEF RunReductions
<1>2. FoldNonletters(book) = SumOf(tallies)
  BY DEF FoldNonletters, FoldRunsOf
<1> HIDE DEF reduced
<1>3. m \in Nat /\ DOMAIN reduced = 1 .. m /\ \A c \in 1 .. m : reduced[c] \in Resolutions(O)
  BY <1>1, LengthIn
<1>4. \A obs \in O : IsTally(obs.tally)
  <2>1. \A c \in DOMAIN book : IsTally(MapRunsOf(c, book[c]).tally)
    <3> SUFFICES ASSUME NEW c \in DOMAIN book
                 PROVE  IsTally(MapRunsOf(c, book[c]).tally)
      OBVIOUS
    <3>1. book[c] \in Seq(Seq(U))
      OBVIOUS
    <3>2. QED
      BY <3>1, RunsObserved DEF Observing
  <2>2. QED
    BY <2>1 DEF RunObservations
<1>5. \A c \in 1 .. m : IsTally(reduced[c].obs.tally (+) EdgeCounts(reduced[c]))
  <2>1. \A c \in 1 .. m : IsTally(reduced[c].obs.tally)
    <3> HIDE DEF O
    <3>1. \A c \in 1 .. m : reduced[c].obs \in O
      BY <1>3 DEF Resolutions
    <3>2. QED
      BY <1>4, <3>1
  <2>2. QED
    BY <2>1, EdgesTallied, TallySum
<1>6. AreTallies(tallies, m)
  BY <1>3, <1>5 DEF AreTallies
<1> HIDE DEF tallies
<1>7. QED
  BY <1>2, <1>6, SumOfTallies

(***************************************************************************)
(* Word shapes: what a book adds.                                          *)
(***************************************************************************)
ShapedWords(U) == { u.word : u \in U } \X {"lower", "caps", "title", "mixed"}

LEMMA ShapesMapped ==
    ASSUME NEW U, NEW chapter \in Seq(Seq(U))
    PROVE  MapShapes(chapter) \in Seq(ShapedWords(U))
<1> DEFINE of == [v \in DOMAIN chapter |-> ShapedIn(chapter[v])]
<1>1. ASSUME NEW v \in DOMAIN chapter
      PROVE  ShapedIn(chapter[v]) \in Seq(ShapedWords(U))
  <2> DEFINE verse == chapter[v]
             S == { u \in Range(verse) : Cased(u.letters) # << >> }
             shaped == Selected(verse, S)
             n == Len(shaped)
             made == [i \in DOMAIN shaped |-> <<shaped[i].word, ShapeOf(Cased(shaped[i].letters))>>]
  <2>1. verse \in Seq(U)
    BY LengthIn
  <2> HIDE DEF S
  <2>2. shaped \in Seq(U)
    BY <2>1, SelectedElements
  <2>3. ShapedIn(verse) = made
    BY DEF ShapedIn, S
  <2> HIDE DEF shaped, verse
  <2>4. n \in Nat /\ DOMAIN shaped = 1 .. n /\ \A i \in 1 .. n : shaped[i] \in U
    BY <2>2, LengthIn
  <2>5. \A cased : ShapeOf(cased) \in {"lower", "caps", "title", "mixed"}
    BY DEF ShapeOf
  <2>6. made \in [1 .. n -> ShapedWords(U)]
    <3>1. \A i \in 1 .. n : <<shaped[i].word, ShapeOf(Cased(shaped[i].letters))>> \in ShapedWords(U)
      BY <2>4, <2>5 DEF ShapedWords
    <3>2. QED
      BY <2>4, <3>1
  <2> HIDE DEF made, n
  <2>7. made \in Seq(ShapedWords(U))
    BY <2>4, <2>6
  <2>8. QED
    BY <2>3, <2>7 DEF verse
<1>2. Len(chapter) \in Nat /\ DOMAIN chapter = 1 .. Len(chapter)
  BY LengthIn
<1>3. of \in Seq(Seq(ShapedWords(U)))
  BY <1>1, <1>2
<1> HIDE DEF of
<1>4. FlattenSeq(of) \in Seq(ShapedWords(U))
  BY <1>3, FlattenedIn
<1>5. QED
  BY <1>4 DEF MapShapes, of

(* What a book contributes to the word shapes is a tally.                  *)
LEMMA ShapesFolded ==
    ASSUME NEW U, NEW book \in Seq(Seq(Seq(U)))
    PROVE  IsTally(FoldShapes(book))
<1> DEFINE of == [c \in DOMAIN book |-> MapShapes(book[c])]
<1>1. Len(book) \in Nat /\ DOMAIN book = 1 .. Len(book)
  BY LengthIn
<1>2. of \in Seq(Seq(ShapedWords(U)))
  <2>1. \A c \in DOMAIN book : MapShapes(book[c]) \in Seq(ShapedWords(U))
    BY <1>1, ShapesMapped
  <2>2. QED
    BY <1>1, <2>1
<1> HIDE DEF of
<1>3. FlattenSeq(of) \in Seq(ShapedWords(U))
  BY <1>2, FlattenedIn
<1>4. IsTally(Counted(FlattenSeq(of)))
  <2> DEFINE s == FlattenSeq(of)
  <2> HIDE DEF s
  <2>1. s \in Seq(ShapedWords(U))
    BY <1>3 DEF s
  <2>2. IsTally(Counted(s))
    BY <2>1, CountedIs
  <2>3. QED
    BY <2>2 DEF s
<1>5. QED
  BY <1>4 DEF FoldShapes, of

(***************************************************************************)
(* Words copied from the reference: what a book adds.                      *)
(***************************************************************************)
CopiedVerses(U) ==
    [at : Nat \X Nat, total : Nat,
     copied : Seq([index : Nat, word : { u.word : u \in U }, name : BOOLEAN])]

LEMMA TokensAre ==
    ASSUME NEW U, NEW text \in Seq(U)
    PROVE  Tokens(text) \in Seq(U)
<1> DEFINE S == { u \in Range(text) : u.kind = "token" }
<1> HIDE DEF S
<1>1. Selected(text, S) \in Seq(U)
  BY SelectedElements
<1>2. QED
  BY <1>1 DEF Tokens, S

(* A verse read beside its source is its words and those copied.           *)
LEMMA VerseCopies ==
    ASSUME NEW U, NEW tokens \in Seq(U), NEW c \in Nat, NEW v \in Nat, NEW source
    PROVE  WordsAt(c, v, tokens, source) \in CopiedVerses(U)
<1> DEFINE words == { t.word : t \in Range(source) }
           W == [index : Nat, word : { u.word : u \in U }, name : BOOLEAN]
           copied == CopiedFrom(tokens, words)
           n == Len(copied)
           made == [k \in DOMAIN copied |-> [index |-> copied[k], word |-> tokens[copied[k]].word,
                                             name |-> IsName(tokens[copied[k]])]]
<1>1. Len(tokens) \in Nat /\ \A i \in 1 .. Len(tokens) : i \in Nat /\ tokens[i] \in U
  BY LengthIn
<1>2. WordsAt(c, v, tokens, source) = [at |-> <<c, v>>, total |-> Len(tokens), copied |-> made]
  BY DEF WordsAt
<1>3. copied \in Seq(1 .. Len(tokens))
  <2> DEFINE S == { i \in DOMAIN tokens : tokens[i].word \in words }
  <2>1. copied = IndicesIn(tokens, S)
    BY DEF CopiedFrom
  <2> HIDE DEF S
  <2>2. QED
    BY <2>1, IndicesAre
<1> HIDE DEF copied
<1>4. n \in Nat /\ DOMAIN copied = 1 .. n /\ \A k \in 1 .. n : copied[k] \in 1 .. Len(tokens)
  BY <1>3, LengthIn
<1>5. ASSUME NEW i \in 1 .. Len(tokens)
      PROVE  [index |-> i, word |-> tokens[i].word, name |-> IsName(tokens[i])] \in W
  BY <1>1 DEF IsName
<1>6. made \in [1 .. n -> W]
  <2> HIDE DEF W
  <2>1. QED
    BY <1>4, <1>5
<1> HIDE DEF made, n, W
<1>7. made \in Seq(W)
  BY <1>4, <1>6
<1>8. QED
  BY <1>1, <1>2, <1>7 DEF CopiedVerses, W

(* What a chapter is mapped to, whatever it is paired with.                *)
LEMMA ChapterCopies ==
    ASSUME NEW U, NEW chapter \in Seq(Seq(U)), NEW c \in Nat, NEW view
    PROVE  WordsIn(c, chapter, view) \in Seq(CopiedVerses(U))
<1> DEFINE S == { v \in DOMAIN chapter :
                    Tokens(chapter[v]) # << >> /\ Tokens(SourceOf(view, v)) # << >> }
           paired == IndicesIn(chapter, S)
           n == Len(paired)
           made == [k \in DOMAIN paired |->
                      WordsAt(c, paired[k], Tokens(chapter[paired[k]]), Tokens(SourceOf(view, paired[k])))]
<1>1. WordsIn(c, chapter, view) = made
  BY DEF WordsIn
<1> HIDE DEF S
<1>2. paired \in Seq(1 .. Len(chapter))
  BY IndicesAre
<1> HIDE DEF paired
<1>3. n \in Nat /\ DOMAIN paired = 1 .. n /\ \A k \in 1 .. n : paired[k] \in 1 .. Len(chapter)
  BY <1>2, LengthIn
<1>4. ASSUME NEW v \in 1 .. Len(chapter)
      PROVE  WordsAt(c, v, Tokens(chapter[v]), Tokens(SourceOf(view, v))) \in CopiedVerses(U)
  <2>1. v \in Nat /\ chapter[v] \in Seq(U)
    BY LengthIn
  <2>2. Tokens(chapter[v]) \in Seq(U)
    BY <2>1, TokensAre
  <2>3. QED
    BY <2>1, <2>2, VerseCopies
<1>5. made \in [1 .. n -> CopiedVerses(U)]
  BY <1>3, <1>4
<1> HIDE DEF made, n
<1>6. made \in Seq(CopiedVerses(U))
  BY <1>3, <1>5
<1>7. QED
  BY <1>1, <1>6

LEMMA CopiesMapped ==
    ASSUME NEW U, NEW book \in Seq(Seq(Seq(U))), NEW b
    PROVE  MapWords(b, book) \in Seq(CopiedVerses(U))
<1> DEFINE of == [c \in DOMAIN book |-> WordsIn(c, book[c], ViewOf(b, c))]
<1>1. Len(book) \in Nat /\ DOMAIN book = 1 .. Len(book)
  BY LengthIn
<1>2. \A c \in DOMAIN book : c \in Nat /\ book[c] \in Seq(Seq(U))
  BY LengthIn
<1>3. of \in Seq(Seq(CopiedVerses(U)))
  <2>1. \A c \in DOMAIN book : of[c] \in Seq(CopiedVerses(U))
    BY <1>2, ChapterCopies
  <2>2. of = [c \in 1 .. Len(book) |-> of[c]]
    BY <1>1
  <2> HIDE DEF of
  <2>3. QED
    BY <1>1, <2>1, <2>2
<1> HIDE DEF of
<1>4. FlattenSeq(of) \in Seq(CopiedVerses(U))
  BY <1>3, FlattenedIn
<1>5. QED
  BY <1>4 DEF MapWords, of

IsWordAddend(x) == x.tokens \in Nat /\ x.copied \in Nat /\ IsTally(x.words)

(* What a book contributes to the copied words is tallies.                 *)
LEMMA WordsFolded ==
    ASSUME NEW U, NEW book \in Seq(Seq(Seq(U))), NEW b
    PROVE  IsWordAddend(FoldWords(b, book))
<1> DEFINE obs == MapWords(b, book)
           n == Len(obs)
           W == { u.word : u \in U }
           totals == [k \in DOMAIN obs |-> obs[k].total]
           lengths == [k \in DOMAIN obs |-> Len(obs[k].copied)]
           words == [k \in DOMAIN obs |-> [i \in DOMAIN obs[k].copied |-> obs[k].copied[i].word]]
<1>1. obs \in Seq(CopiedVerses(U))
  BY CopiesMapped
<1>2. FoldWords(b, book) = [tokens |-> TotalOf(totals), copied |-> TotalOf(lengths),
                            words |-> Counted(FlattenSeq(words))]
  BY DEF FoldWords, FoldObserved, CopiedWords
<1> HIDE DEF obs
<1>3. n \in Nat /\ DOMAIN obs = 1 .. n /\ \A k \in 1 .. n : obs[k] \in CopiedVerses(U)
  BY <1>1, LengthIn
<1>4. ASSUME NEW k \in 1 .. n
      PROVE  /\ obs[k].total \in Nat /\ Len(obs[k].copied) \in Nat
             /\ [i \in DOMAIN obs[k].copied |-> obs[k].copied[i].word] \in Seq(W)
  <2> DEFINE copied == obs[k].copied
             l == Len(copied)
             made == [i \in DOMAIN copied |-> copied[i].word]
  <2>1. obs[k].total \in Nat /\ copied \in Seq([index : Nat, word : W, name : BOOLEAN])
    BY <1>3 DEF CopiedVerses
  <2> HIDE DEF copied, W
  <2>2. l \in Nat /\ DOMAIN copied = 1 .. l
        /\ \A i \in 1 .. l : copied[i] \in [index : Nat, word : W, name : BOOLEAN]
    BY <2>1, LengthIn
  <2>3. made \in [1 .. l -> W]
    BY <2>2
  <2> HIDE DEF made
  <2>4. made \in Seq(W)
    <3> HIDE DEF l
    <3>1. QED
      BY <2>2, <2>3
  <2>5. QED
    BY <2>1, <2>2, <2>4 DEF copied, made
<1>5. totals \in Seq(Nat) /\ lengths \in Seq(Nat) /\ words \in Seq(Seq(W))
  <2> HIDE DEF W
  <2>1. totals \in [1 .. n -> Nat] /\ lengths \in [1 .. n -> Nat] /\ words \in [1 .. n -> Seq(W)]
    BY <1>3, <1>4
  <2> HIDE DEF totals, lengths, words, n
  <2>2. n \in Nat
    BY <1>3
  <2> DEFINE X == Seq(W)
  <2> HIDE DEF X
  <2>3. words \in [1 .. n -> X]
    BY <2>1 DEF X
  <2>4. words \in Seq(X)
    BY <2>2, <2>3
  <2>5. totals \in Seq(Nat) /\ lengths \in Seq(Nat)
    BY <2>1, <2>2
  <2>6. QED
    BY <2>4, <2>5 DEF X
<1> HIDE DEF totals, lengths, words, W
<1>6. TotalOf(totals) \in Nat /\ TotalOf(lengths) \in Nat
  BY <1>5, TotalNat
<1>7. IsTally(Counted(FlattenSeq(words)))
  <2> DEFINE s == FlattenSeq(words)
  <2>1. s \in Seq(W)
    BY <1>5, FlattenedIn
  <2> HIDE DEF s
  <2>2. IsTally(Counted(s))
    BY <2>1, CountedIs
  <2>3. QED
    BY <2>2 DEF s
<1>8. QED
  BY <1>2, <1>6, <1>7 DEF IsWordAddend

(***************************************************************************)
(* Proportions: the samples of the books that are there, in their order.   *)
(***************************************************************************)
LEMMA RatiosSampled ==
    ASSUME NEW U, NEW book \in Seq(Seq(Seq(U))), NEW b
    PROVE  /\ IsSequence(FoldLengths(b, book).ratios)
           /\ FoldLengths(b, book).present = (book # << >>)
           /\ book = << >> => FoldLengths(b, book).ratios = << >>
<1> DEFINE n == Len(book)
           of == [c \in DOMAIN book |-> RatiosIn(c, book[c], ViewOf(b, c))]
           obs == FlattenSeq(of)
           m == Len(obs)
           ratios == [k \in DOMAIN obs |-> obs[k].ratio]
<1>1. n \in Nat /\ DOMAIN book = 1 .. n
  BY LengthIn
<1>2. ASSUME NEW c \in 1 .. n, NEW view
      PROVE  IsSequence(RatiosIn(c, book[c], view))
  <2> DEFINE chapter == book[c]
             S == { v \in DOMAIN chapter :
                      Graphemes(chapter[v]) > 0 /\ Graphemes(SourceOf(view, v)) > 0 }
             paired == IndicesIn(chapter, S)
             l == Len(paired)
             made == [k \in DOMAIN paired |->
                        [at |-> <<c, paired[k]>>,
                         ratio |-> RatioOf(chapter[paired[k]], SourceOf(view, paired[k]))]]
  <2>1. chapter \in Seq(Seq(U))
    BY LengthIn
  <2>2. RatiosIn(c, chapter, view) = made
    BY DEF RatiosIn
  <2> HIDE DEF S, chapter
  <2>3. paired \in Seq(1 .. Len(chapter))
    BY <2>1, IndicesAre
  <2> HIDE DEF paired
  <2>4. l \in Nat /\ DOMAIN paired = 1 .. l
    BY <2>3, LengthIn
  <2>5. made = [k \in 1 .. l |-> made[k]]
    BY <2>4
  <2> HIDE DEF made, l
  <2>6. made \in Seq({ made[k] : k \in 1 .. l })
    BY <2>4, <2>5, SequenceOf
  <2>7. QED
    BY <2>2, <2>6 DEF chapter, IsSequence
<1>3. AreSequences(of, n)
  BY <1>1, <1>2 DEF AreSequences
<1>4. FoldLengths(b, book) = [present |-> book # << >>, ratios |-> ratios]
  BY DEF FoldLengths, Sample, MapRatios
<1>5. book = << >> => of = << >>
  OBVIOUS
<1> HIDE DEF of
<1>6. PICK T : of \in Seq(Seq(T))
  BY <1>3, SequencesIn
<1>7. obs \in Seq(T)
  BY <1>6, FlattenedIn
<1>8. of = << >> => obs = << >>
  <2>1. ASSUME of = << >>
        PROVE  FlattenSeq(of) = << >>
    <3>1. PICK flat : IsFlattening(flat, T, of)
      BY <1>6, FlattenedSteps
    <3>2. Len(of) = 0
      BY <2>1
    <3>3. QED
      BY <3>1, <3>2 DEF IsFlattening
  <2>2. QED
    BY <2>1
<1>9. obs = << >> => ratios = << >>
  OBVIOUS
<1> HIDE DEF obs
<1>10. m \in Nat /\ DOMAIN obs = 1 .. m
  BY <1>7, LengthIn
<1>11. ratios = [k \in 1 .. m |-> ratios[k]]
  BY <1>10
<1> HIDE DEF ratios, m
<1>12. ratios \in Seq({ ratios[k] : k \in 1 .. m })
  BY <1>10, <1>11, SequenceOf
<1>13. IsSequence(ratios)
  BY <1>12 DEF IsSequence
<1>14. QED
  BY <1>4, <1>5, <1>8, <1>9, <1>13



IsLengthAddend(x) ==
    /\ x = [present |-> x.present, ratios |-> x.ratios]
    /\ IsSequence(x.ratios)
    /\ ~ x.present => x.ratios = << >>

AreLengthAddends(a, m) ==
    m \in Nat /\ DOMAIN a = 1 .. m /\ \A b \in 1 .. m : IsLengthAddend(a[b])

LengthsOf(a, P) ==
    [per_book |-> [b \in P |-> a[b].ratios],
     book |-> [b \in P |-> SpreadOf(a[b].ratios)],
     project |-> SpreadOf(FlattenSeq([b \in DOMAIN a |-> a[b].ratios]))]

(* The samples of the books that are there, in order, are those of every   *)
(* book: an absent one has none.                                           *)
LEMMA SamplesAre ==
    ASSUME NEW m, NEW a, AreLengthAddends(a, m), NEW P, P = { b \in 1 .. m : a[b].present }
    PROVE  Samples([b \in P |-> a[b].ratios]) = FlattenSeq([b \in DOMAIN a |-> a[b].ratios])
<1> DEFINE f == [b \in 1 .. m |-> a[b].ratios]
           g == [b \in P |-> a[b].ratios]
<1>1. AreSequences(f, m)
  <2>1. \A b \in 1 .. m : IsSequence(f[b])
    BY DEF AreLengthAddends, IsLengthAddend
  <2>2. m \in Nat /\ f = [k \in 1 .. m |-> f[k]]
    BY DEF AreLengthAddends
  <2> HIDE DEF f
  <2>3. QED
    BY <2>1, <2>2 DEF AreSequences
<1>2. P \in SUBSET (1 .. m) /\ \A b \in 1 .. m : b \notin P => f[b] = << >>
  BY DEF AreLengthAddends, IsLengthAddend
<1>3. DOMAIN g = P /\ \A b \in P : g[b] = f[b]
  BY <1>2
<1>4. [b \in DOMAIN a |-> a[b].ratios] = f
  BY DEF AreLengthAddends
<1> HIDE DEF f, g
<1>5. FlattenSeq([i \in 1 .. Cardinality(P) |-> f[OfRank(P, i)]]) = FlattenSeq(f)
  BY <1>1, <1>2, RanksFlatten
<1>6. Samples(g) = FlattenSeq([i \in 1 .. Cardinality(P) |-> g[OfRank(P, i)]])
  BY <1>3 DEF Samples, OfRank
<1>7. \A i \in 1 .. Cardinality(P) : g[OfRank(P, i)] = f[OfRank(P, i)]
  <2> SUFFICES ASSUME NEW i \in 1 .. Cardinality(P)
               PROVE  OfRank(P, i) \in P
    BY <1>3
  <2>1. \E b \in P : Cardinality({ a_1 \in P : a_1 <= b }) = i
    BY <1>1, <1>2, RankReached DEF AreSequences
  <2>2. QED
    BY <2>1 DEF OfRank
<1>8. [i \in 1 .. Cardinality(P) |-> g[OfRank(P, i)]] = [i \in 1 .. Cardinality(P) |-> f[OfRank(P, i)]]
  BY <1>7
<1>9. Samples(g) = FlattenSeq(f)
  BY <1>5, <1>6, <1>8
<1>10. QED
  BY <1>4, <1>9 DEF g

(* The length samples patched for one book are those of the books as they  *)
(* now are.                                                                *)
LEMMA LengthsReplaced ==
    ASSUME NEW m, NEW a, NEW v, AreLengthAddends(a, m), AreLengthAddends(v, m),
           NEW i, SameBut(a, v, m, i),
           NEW P, P = { b \in 1 .. m : a[b].present }, NEW Q, Q = { b \in 1 .. m : v[b].present }
    PROVE  ReplaceLengths(LengthsOf(a, P), i, a[i], v[i]) = LengthsOf(v, Q)
<1>1. DOMAIN a = 1 .. m /\ DOMAIN v = 1 .. m /\ i \in 1 .. m /\ \A b \in 1 .. m : b # i => a[b] = v[b]
  BY DEF AreLengthAddends, SameBut
<1>2. P \ {i} = Q \ {i} /\ (i \in Q <=> v[i].present) /\ \A b \in Q : b # i => a[b] = v[b] /\ b \in P
  BY <1>1
<1> DEFINE p == [b \in P |-> a[b].ratios]
           s == [b \in P |-> SpreadOf(a[b].ratios)]
           q == [b \in Q |-> v[b].ratios]
           t == [b \in Q |-> SpreadOf(v[b].ratios)]
<1>3. /\ DOMAIN p = P /\ DOMAIN s = P
      /\ \A b \in Q : b # i => p[b] = v[b].ratios /\ s[b] = SpreadOf(v[b].ratios)
  BY <1>2
<1>4. (P \ {i}) \cup (IF v[i].present THEN {i} ELSE {}) = Q
  BY <1>2
<1> HIDE DEF p, s
<1>5. WithBook(p, i, v[i].present, v[i].ratios) = q
  <2>1. WithBook(p, i, v[i].present, v[i].ratios)
          = [b \in Q |-> IF b = i THEN v[i].ratios ELSE p[b]]
    BY <1>3, <1>4 DEF WithBook
  <2>2. QED
    BY <1>3, <2>1
<1>6. WithBook(s, i, v[i].present, SpreadOf(v[i].ratios)) = t
  <2>1. WithBook(s, i, v[i].present, SpreadOf(v[i].ratios))
          = [b \in Q |-> IF b = i THEN SpreadOf(v[i].ratios) ELSE s[b]]
    BY <1>3, <1>4 DEF WithBook
  <2>2. QED
    BY <1>3, <2>1
<1> DEFINE x == FlattenSeq([b \in DOMAIN a |-> a[b].ratios])
           y == FlattenSeq([b \in DOMAIN v |-> v[b].ratios])
<1>7. Samples(q) = y
  BY SamplesAre
<1>8. a[i] = v[i] => x = y
  <2>1. ASSUME a[i] = v[i]
        PROVE  [b \in DOMAIN a |-> a[b].ratios] = [b \in DOMAIN v |-> v[b].ratios]
    BY <1>1, <2>1
  <2>2. QED
    BY <2>1
<1>9. LengthsOf(a, P) = [per_book |-> p, book |-> s, project |-> SpreadOf(x)]
  BY DEF LengthsOf, p, s
<1>10. LengthsOf(v, Q) = [per_book |-> q, book |-> t, project |-> SpreadOf(y)]
  BY DEF LengthsOf
<1> HIDE DEF q, t, x, y
<1>11. ReplaceLengths(LengthsOf(a, P), i, a[i], v[i])
         = [per_book |-> q, book |-> t,
            project |-> IF a[i] = v[i] THEN SpreadOf(x) ELSE SpreadOf(Samples(q))]
  BY <1>5, <1>6, <1>9 DEF ReplaceLengths
<1>12. QED
  BY <1>7, <1>8, <1>10, <1>11

BracketsOf(a) ==
    [events |-> SumOf([b \in DOMAIN a |-> a[b].events]),
     matched |-> SumOf([b \in DOMAIN a |-> a[b].matched]),
     distances |-> SumOf([b \in DOMAIN a |-> a[b].distances])]

AreBracketsAddends(a, m) == m \in Nat /\ DOMAIN a = 1 .. m /\ \A b \in 1 .. m : AreBracketTallies(a[b])

(* The bracket statistics patched for one book are those of the books as   *)
(* they now are.                                                           *)
LEMMA BracketsReplaced ==
    ASSUME NEW m, NEW a, NEW v, AreBracketsAddends(a, m), AreBracketsAddends(v, m),
           NEW i, SameBut(a, v, m, i)
    PROVE  ReplaceBrackets(BracketsOf(a), a[i], v[i]) = BracketsOf(v)
<1> DEFINE A == [b \in DOMAIN a |-> a[b].events]
           B == [b \in DOMAIN v |-> v[b].events]
           C == [b \in DOMAIN a |-> a[b].matched]
           D == [b \in DOMAIN v |-> v[b].matched]
           E == [b \in DOMAIN a |-> a[b].distances]
           F == [b \in DOMAIN v |-> v[b].distances]
<1>1. DOMAIN a = 1 .. m /\ DOMAIN v = 1 .. m /\ i \in 1 .. m /\ \A b \in 1 .. m : b # i => a[b] = v[b]
  BY DEF AreBracketsAddends, SameBut
<1>2. SameBut(A, B, m, i) /\ SameBut(C, D, m, i) /\ SameBut(E, F, m, i)
  BY <1>1 DEF SameBut
<1>3. /\ A[i] = a[i].events /\ B[i] = v[i].events
      /\ C[i] = a[i].matched /\ D[i] = v[i].matched
      /\ E[i] = a[i].distances /\ F[i] = v[i].distances
  BY <1>1
<1>4. /\ AreTallies(A, m) /\ AreTallies(B, m)
      /\ AreTallies(C, m) /\ AreTallies(D, m)
      /\ AreTallies(E, m) /\ AreTallies(F, m)
  BY <1>1 DEF AreTallies, AreBracketsAddends, AreBracketTallies
<1>5. /\ BracketsOf(a) = [events |-> SumOf(A), matched |-> SumOf(C), distances |-> SumOf(E)]
      /\ BracketsOf(v) = [events |-> SumOf(B), matched |-> SumOf(D), distances |-> SumOf(F)]
  BY DEF BracketsOf
<1> HIDE DEF A, B, C, D, E, F
<1>6. /\ Replaced(SumOf(A), a[i].events, v[i].events) = SumOf(B)
      /\ Replaced(SumOf(C), a[i].matched, v[i].matched) = SumOf(D)
      /\ Replaced(SumOf(E), a[i].distances, v[i].distances) = SumOf(F)
  BY <1>2, <1>3, <1>4, SumReplaced
<1>7. QED
  BY <1>5, <1>6 DEF ReplaceBrackets

RepeatsOf(a) ==
    [units |-> TotalOf([b \in DOMAIN a |-> a[b].units]),
     clusters |-> SumOf([b \in DOMAIN a |-> a[b].clusters]),
     words |-> SumOf([b \in DOMAIN a |-> a[b].words])]

AreRepeatsAddends(a, m) == m \in Nat /\ DOMAIN a = 1 .. m /\ \A b \in 1 .. m : IsRunAddend(a[b])

(* The run statistics patched for one book are those of the books as they  *)
(* now are.                                                                *)
LEMMA RepeatsReplaced ==
    ASSUME NEW m, NEW a, NEW v, AreRepeatsAddends(a, m), AreRepeatsAddends(v, m),
           NEW i, SameBut(a, v, m, i)
    PROVE  ReplaceRuns(RepeatsOf(a), a[i], v[i]) = RepeatsOf(v)
<1> DEFINE A == [b \in DOMAIN a |-> a[b].clusters]
           B == [b \in DOMAIN v |-> v[b].clusters]
           C == [b \in DOMAIN a |-> a[b].words]
           D == [b \in DOMAIN v |-> v[b].words]
           t0 == [b \in DOMAIN a |-> a[b].units]
           w0 == [b \in DOMAIN v |-> v[b].units]
<1>1. DOMAIN a = 1 .. m /\ DOMAIN v = 1 .. m /\ i \in 1 .. m /\ \A b \in 1 .. m : b # i => a[b] = v[b]
  BY DEF AreRepeatsAddends, SameBut
<1>2. SameBut(A, B, m, i) /\ SameBut(C, D, m, i)
  BY <1>1 DEF SameBut
<1>3. /\ A[i] = a[i].clusters /\ B[i] = v[i].clusters
      /\ C[i] = a[i].words /\ D[i] = v[i].words
      /\ t0[i] = a[i].units /\ w0[i] = v[i].units
  BY <1>1
<1>4. /\ AreTallies(A, m) /\ AreTallies(B, m)
      /\ AreTallies(C, m) /\ AreTallies(D, m)
  BY <1>1 DEF AreTallies, AreRepeatsAddends, IsRunAddend
<1>7. /\ TotalOf(w0) = TotalOf(t0) - t0[i] + w0[i] /\ TotalOf(t0) \in Int /\ t0[i] \in Int /\ w0[i] \in Int
  <2>1. t0 \in Seq(Int) /\ w0 \in Seq(Int) /\ Exchanged(t0, w0, i) /\ t0[i] \in Int /\ w0[i] \in Int
    <3>1. m \in Nat /\ (\A b \in 1 .. m : a[b].units \in Int /\ v[b].units \in Int)
      BY DEF AreRepeatsAddends, IsRunAddend
    <3>2. t0 \in [1 .. m -> Int] /\ w0 \in [1 .. m -> Int] /\ \A b \in 1 .. m : b # i => t0[b] = w0[b]
      BY <1>1, <3>1
    <3> HIDE DEF t0, w0
    <3>3. t0 \in Seq(Int) /\ w0 \in Seq(Int) /\ Len(t0) = m /\ Len(w0) = m
      BY <3>1, <3>2
    <3>4. QED
      BY <1>1, <3>2, <3>3 DEF Exchanged
  <2> HIDE DEF t0, w0
  <2>2. QED
    BY <2>1, TotalExchanged, TotalIn
<1>5. /\ RepeatsOf(a) = [units |-> TotalOf(t0), clusters |-> SumOf(A), words |-> SumOf(C)]
      /\ RepeatsOf(v) = [units |-> TotalOf(w0), clusters |-> SumOf(B), words |-> SumOf(D)]
  BY DEF RepeatsOf
<1> HIDE DEF A, B, C, D, t0, w0
<1>6. /\ Replaced(SumOf(A), a[i].clusters, v[i].clusters) = SumOf(B)
      /\ Replaced(SumOf(C), a[i].words, v[i].words) = SumOf(D)
  BY <1>2, <1>3, <1>4, SumReplaced
<1>8. ReplaceRuns(RepeatsOf(a), a[i], v[i]) =
        [units |-> TotalOf(t0) + v[i].units - a[i].units, clusters |-> SumOf(B), words |-> SumOf(D)]
  BY <1>5, <1>6 DEF ReplaceRuns
<1>9. /\ TotalOf(t0) + v[i].units - a[i].units = TotalOf(w0)
  <2>1. TotalOf(t0) + v[i].units - a[i].units = TotalOf(w0)
    <3> DEFINE p == TotalOf(t0)
               q == a[i].units
               r == v[i].units
    <3>1. TotalOf(w0) = p - q + r /\ p \in Int /\ q \in Int /\ r \in Int
      BY <1>3, <1>7
    <3> HIDE DEF p, q, r
    <3>2. p + r - q = p - q + r
      BY <3>1
    <3>3. QED
      BY <3>1, <3>2 DEF p, q, r
  <2>2. QED
    BY <2>1
<1>10. QED
  BY <1>5, <1>8, <1>9

CopiedOf(a) ==
    [tokens |-> TotalOf([b \in DOMAIN a |-> a[b].tokens]),
     copied |-> TotalOf([b \in DOMAIN a |-> a[b].copied]),
     words |-> SumOf([b \in DOMAIN a |-> a[b].words])]

AreCopiedAddends(a, m) == m \in Nat /\ DOMAIN a = 1 .. m /\ \A b \in 1 .. m : IsWordAddend(a[b])

(* The tallies of copied words patched for one book are those of the books *)
(* as they now are.                                                        *)
LEMMA CopiedReplaced ==
    ASSUME NEW m, NEW a, NEW v, AreCopiedAddends(a, m), AreCopiedAddends(v, m),
           NEW i, SameBut(a, v, m, i)
    PROVE  ReplaceWords(CopiedOf(a), a[i], v[i]) = CopiedOf(v)
<1> DEFINE A == [b \in DOMAIN a |-> a[b].words]
           B == [b \in DOMAIN v |-> v[b].words]
           t0 == [b \in DOMAIN a |-> a[b].tokens]
           w0 == [b \in DOMAIN v |-> v[b].tokens]
           t1 == [b \in DOMAIN a |-> a[b].copied]
           w1 == [b \in DOMAIN v |-> v[b].copied]
<1>1. DOMAIN a = 1 .. m /\ DOMAIN v = 1 .. m /\ i \in 1 .. m /\ \A b \in 1 .. m : b # i => a[b] = v[b]
  BY DEF AreCopiedAddends, SameBut
<1>2. SameBut(A, B, m, i)
  BY <1>1 DEF SameBut
<1>3. /\ A[i] = a[i].words /\ B[i] = v[i].words
      /\ t0[i] = a[i].tokens /\ w0[i] = v[i].tokens
      /\ t1[i] = a[i].copied /\ w1[i] = v[i].copied
  BY <1>1
<1>4. /\ AreTallies(A, m) /\ AreTallies(B, m)
  BY <1>1 DEF AreTallies, AreCopiedAddends, IsWordAddend
<1>7. /\ TotalOf(w0) = TotalOf(t0) - t0[i] + w0[i] /\ TotalOf(t0) \in Int /\ t0[i] \in Int /\ w0[i] \in Int
      /\ TotalOf(w1) = TotalOf(t1) - t1[i] + w1[i] /\ TotalOf(t1) \in Int /\ t1[i] \in Int /\ w1[i] \in Int
  <2>1. t0 \in Seq(Int) /\ w0 \in Seq(Int) /\ Exchanged(t0, w0, i) /\ t0[i] \in Int /\ w0[i] \in Int
    <3>1. m \in Nat /\ (\A b \in 1 .. m : a[b].tokens \in Int /\ v[b].tokens \in Int)
      BY DEF AreCopiedAddends, IsWordAddend
    <3>2. t0 \in [1 .. m -> Int] /\ w0 \in [1 .. m -> Int] /\ \A b \in 1 .. m : b # i => t0[b] = w0[b]
      BY <1>1, <3>1
    <3> HIDE DEF t0, w0
    <3>3. t0 \in Seq(Int) /\ w0 \in Seq(Int) /\ Len(t0) = m /\ Len(w0) = m
      BY <3>1, <3>2
    <3>4. QED
      BY <1>1, <3>2, <3>3 DEF Exchanged
  <2>2. t1 \in Seq(Int) /\ w1 \in Seq(Int) /\ Exchanged(t1, w1, i) /\ t1[i] \in Int /\ w1[i] \in Int
    <3>1. m \in Nat /\ (\A b \in 1 .. m : a[b].copied \in Int /\ v[b].copied \in Int)
      BY DEF AreCopiedAddends, IsWordAddend
    <3>2. t1 \in [1 .. m -> Int] /\ w1 \in [1 .. m -> Int] /\ \A b \in 1 .. m : b # i => t1[b] = w1[b]
      BY <1>1, <3>1
    <3> HIDE DEF t1, w1
    <3>3. t1 \in Seq(Int) /\ w1 \in Seq(Int) /\ Len(t1) = m /\ Len(w1) = m
      BY <3>1, <3>2
    <3>4. QED
      BY <1>1, <3>2, <3>3 DEF Exchanged
  <2> HIDE DEF t0, w0, t1, w1
  <2>3. QED
    BY <2>1, <2>2, TotalExchanged, TotalIn
<1>5. /\ CopiedOf(a) = [tokens |-> TotalOf(t0), copied |-> TotalOf(t1), words |-> SumOf(A)]
      /\ CopiedOf(v) = [tokens |-> TotalOf(w0), copied |-> TotalOf(w1), words |-> SumOf(B)]
  BY DEF CopiedOf
<1> HIDE DEF A, B, t0, w0, t1, w1
<1>6. /\ Replaced(SumOf(A), a[i].words, v[i].words) = SumOf(B)
  BY <1>2, <1>3, <1>4, SumReplaced
<1>8. ReplaceWords(CopiedOf(a), a[i], v[i]) =
        [tokens |-> TotalOf(t0) - a[i].tokens + v[i].tokens, copied |-> TotalOf(t1) - a[i].copied + v[i].copied, words |-> SumOf(B)]
  BY <1>5, <1>6 DEF ReplaceWords
<1>9. /\ TotalOf(t0) - a[i].tokens + v[i].tokens = TotalOf(w0)
      /\ TotalOf(t1) - a[i].copied + v[i].copied = TotalOf(w1)
  <2>1. TotalOf(t0) - a[i].tokens + v[i].tokens = TotalOf(w0)
    <3> DEFINE p == TotalOf(t0)
               q == a[i].tokens
               r == v[i].tokens
    <3>1. TotalOf(w0) = p - q + r /\ p \in Int /\ q \in Int /\ r \in Int
      BY <1>3, <1>7
    <3> HIDE DEF p, q, r
    <3>2. p - q + r = p - q + r
      BY <3>1
    <3>3. QED
      BY <3>1, <3>2 DEF p, q, r
  <2>2. TotalOf(t1) - a[i].copied + v[i].copied = TotalOf(w1)
    <3> DEFINE p == TotalOf(t1)
               q == a[i].copied
               r == v[i].copied
    <3>1. TotalOf(w1) = p - q + r /\ p \in Int /\ q \in Int /\ r \in Int
      BY <1>3, <1>7
    <3> HIDE DEF p, q, r
    <3>2. p - q + r = p - q + r
      BY <3>1
    <3>3. QED
      BY <3>1, <3>2 DEF p, q, r
  <2>3. QED
    BY <2>1, <2>2
<1>10. QED
  BY <1>5, <1>8, <1>9

ScriptsOf(a, P) ==
    [books |-> P,
     signatures |-> SumOf([b \in DOMAIN a |-> a[b].signatures]),
     breadth |-> SumOf([b \in DOMAIN a |-> SetToBag(DOMAIN a[b].signatures)]),
     scripts |-> SumOf([b \in DOMAIN a |-> a[b].scripts])]

AreScriptAddends(a, m) == m \in Nat /\ DOMAIN a = 1 .. m /\ \A b \in 1 .. m : IsScriptAddend(a[b])

(* The script statistics patched for one book are those of the books as they*)
(* now are.                                                                *)
LEMMA ScriptsReplaced ==
    ASSUME NEW m, NEW a, NEW v, AreScriptAddends(a, m), AreScriptAddends(v, m),
           NEW i, SameBut(a, v, m, i), NEW P, NEW Q, P \ {i} = Q \ {i}
    PROVE  ReplaceScripts(ScriptsOf(a, P), i, i \in Q, a[i], v[i]) = ScriptsOf(v, Q)
<1> DEFINE A == [b \in DOMAIN a |-> a[b].signatures]
           B == [b \in DOMAIN v |-> v[b].signatures]
           C == [b \in DOMAIN a |-> SetToBag(DOMAIN a[b].signatures)]
           D == [b \in DOMAIN v |-> SetToBag(DOMAIN v[b].signatures)]
           E == [b \in DOMAIN a |-> a[b].scripts]
           F == [b \in DOMAIN v |-> v[b].scripts]
<1>1. DOMAIN a = 1 .. m /\ DOMAIN v = 1 .. m /\ i \in 1 .. m /\ \A b \in 1 .. m : b # i => a[b] = v[b]
  BY DEF AreScriptAddends, SameBut
<1>2. SameBut(A, B, m, i) /\ SameBut(C, D, m, i) /\ SameBut(E, F, m, i)
  BY <1>1 DEF SameBut
<1>3. /\ A[i] = a[i].signatures /\ B[i] = v[i].signatures
      /\ C[i] = Times(1, DOMAIN a[i].signatures) /\ D[i] = Times(1, DOMAIN v[i].signatures)
      /\ E[i] = a[i].scripts /\ F[i] = v[i].scripts
  <2>1. \A S : SetToBag(S) = Times(1, S)
    BY DEF SetToBag, Times
  <2>2. QED
    BY <1>1, <2>1
<1>4. /\ AreTallies(A, m) /\ AreTallies(B, m) /\ AreTallies(E, m) /\ AreTallies(F, m)
  BY <1>1 DEF AreTallies, AreScriptAddends, IsScriptAddend
<1>5. AreTallies(C, m) /\ AreTallies(D, m)
  <2>1. \A b \in 1 .. m : IsFiniteSet(DOMAIN a[b].signatures) /\ IsFiniteSet(DOMAIN v[b].signatures)
    BY TallyIs DEF AreScriptAddends, IsScriptAddend
  <2>2. \A b \in 1 .. m : IsTally(SetToBag(DOMAIN a[b].signatures)) /\ IsTally(SetToBag(DOMAIN v[b].signatures))
    <3>1. 1 \in Nat \ {0}
      OBVIOUS
    <3>2. QED
      BY <2>1, <3>1, TimesIs
  <2>3. m \in Nat
    BY DEF AreScriptAddends
  <2>4. QED
    BY <1>1, <2>2, <2>3 DEF AreTallies
<1>6. /\ ScriptsOf(a, P) = [books |-> P, signatures |-> SumOf(A), breadth |-> SumOf(C),
                            scripts |-> SumOf(E)]
      /\ ScriptsOf(v, Q) = [books |-> Q, signatures |-> SumOf(B), breadth |-> SumOf(D),
                            scripts |-> SumOf(F)]
  BY DEF ScriptsOf
<1> HIDE DEF A, B, C, D, E, F
<1>7. /\ Replaced(SumOf(A), a[i].signatures, v[i].signatures) = SumOf(B)
      /\ Replaced(SumOf(C), Times(1, DOMAIN a[i].signatures), Times(1, DOMAIN v[i].signatures)) = SumOf(D)
      /\ Replaced(SumOf(E), a[i].scripts, v[i].scripts) = SumOf(F)
  BY <1>2, <1>3, <1>4, <1>5, SumReplaced
<1>8. Q = IF i \in Q THEN P \cup {i} ELSE P \ {i}
  OBVIOUS
<1>9. ReplaceScripts(ScriptsOf(a, P), i, i \in Q, a[i], v[i])
        = [books |-> IF i \in Q THEN P \cup {i} ELSE P \ {i}, signatures |-> SumOf(B),
           breadth |-> SumOf(D), scripts |-> SumOf(F)]
  BY <1>6, <1>7 DEF ReplaceScripts
<1>10. QED
  BY <1>6, <1>8, <1>9

(***************************************************************************)
(* Nothing: the sums of nothing, and the addends of no book.               *)
(***************************************************************************)
LEMMA NothingBracketed == Addends(BookMatch(<< >>)) = NoAddends
<1>1. ReducedBrackets(<< >>) = << >>
  <2>1. << >> \in Seq(Seq(Seq({}))) /\ Len(<< >>) = 0
    OBVIOUS
  <2>2. PICK walk : IsBookOfBrackets(walk, << >>)
    BY <2>1, BookOfBracketsSteps
  <2>3. QED
    BY <2>1, <2>2 DEF IsBookOfBrackets
<1> DEFINE match == BookMatch(<< >>)
<1>2. match.events = << >>
  <2>1. [i \in DOMAIN << >> |-> Widened(<< >>, i)] = << >>
    OBVIOUS
  <2>2. FoldBrackets(<< >>).events = FlattenSeq([i \in DOMAIN << >> |-> Widened(<< >>, i)])
    BY DEF FoldBrackets
  <2>3. FoldBrackets(<< >>).events = << >>
    BY <2>1, <2>2, SumsOfNothing
  <2>4. QED
    BY <1>1, <2>3 DEF BookMatch
<1> HIDE DEF match
<1> DEFINE families == { e.family : e \in Range(match.events) }
           of == [f \in families |-> FamilyAddend(match, f)]
           matched == { f \in families : of[f].matched > 0 }
           keys == UNION { {f} \X DOMAIN of[f].distances : f \in families }
<1>3. Addends(match) = [events |-> [f \in families |-> of[f].events],
                        matched |-> [f \in matched |-> of[f].matched],
                        distances |-> [k \in keys |-> of[k[1]].distances[k[2]]]]
  BY DEF Addends
<1>4. families = {}
  BY <1>2 DEF Range
<1> HIDE DEF families, of
<1>5. matched = {} /\ keys = {}
  BY <1>4
<1> HIDE DEF matched, keys
<1>6. \A x : [f \in {} |-> x[f]] = EmptyBag
  BY DEF EmptyBag, SetToBag
<1>7. /\ [f \in families |-> of[f].events] = EmptyBag
      /\ [f \in matched |-> of[f].matched] = EmptyBag
      /\ [k \in keys |-> of[k[1]].distances[k[2]]] = EmptyBag
  BY <1>4, <1>5 DEF EmptyBag, SetToBag
<1>8. QED
  BY <1>3, <1>7 DEF NoAddends, match

LEMMA NothingRepeated == FoldRuns(<< >>) = NoRuns
<1> DEFINE made == { SumOfRuns(mapped) : mapped \in {[c \in DOMAIN << >> |-> MapRuns(<< >>[c])]} }
           one == SumOfRuns(<< >>)
<1>1. [c \in DOMAIN << >> |-> MapRuns(<< >>[c])] = << >>
  OBVIOUS
<1>2. made = {one}
  BY <1>1
<1>3. FoldRuns(<< >>) = Only(made)
  BY DEF FoldRuns
<1>4. one = NoRuns
  <2>1. /\ [i \in DOMAIN << >> |-> << >>[i].units] = << >>
        /\ [i \in DOMAIN << >> |-> << >>[i].clusters] = << >>
        /\ [i \in DOMAIN << >> |-> << >>[i].words] = << >>
    OBVIOUS
  <2>2. QED
    BY <2>1, SumsOfNothing DEF SumOfRuns, NoRuns
<1> HIDE DEF made, one
<1>5. Only(made) = one
  BY <1>2, OnlyIs
<1>6. QED
  BY <1>3, <1>4, <1>5

(* A book that is not there contributes nothing.                           *)
LEMMA NothingFolded ==
    /\ FoldScripts(<< >>) = [scripts |-> EmptyBag, signatures |-> EmptyBag]
    /\ FoldForms(<< >>) = EmptyBag
    /\ FoldShapes(<< >>) = EmptyBag
    /\ \A b : FoldWords(b, << >>) = NoCopies
<1>1. FoldScripts(<< >>) = [scripts |-> EmptyBag, signatures |-> EmptyBag]
  <2>1. /\ [c \in DOMAIN << >> |-> MapScripts(<< >>[c])] = << >>
        /\ [c \in DOMAIN << >> |-> << >>[c].scripts] = << >>
        /\ [c \in DOMAIN << >> |-> << >>[c].signatures] = << >>
    OBVIOUS
  <2>2. QED
    BY <2>1, SumsOfNothing DEF FoldScripts, FoldMapped
<1>2. FoldForms(<< >>) = EmptyBag
  <2> DEFINE perRaw == SumOf([c \in DOMAIN << >> |-> CountsOf(MapForms(<< >>[c]))])
             D == { <<Nfc[raw], raw>> : raw \in DOMAIN perRaw }
  <2>1. FoldForms(<< >>) = [k \in D |-> perRaw[k[2]]]
    BY DEF FoldForms
  <2>2. [c \in DOMAIN << >> |-> CountsOf(MapForms(<< >>[c]))] = << >>
    OBVIOUS
  <2>3. perRaw = EmptyBag
    BY <2>2, SumsOfNothing
  <2> HIDE DEF perRaw
  <2>4. DOMAIN perRaw = {}
    BY <2>3 DEF EmptyBag, SetToBag
  <2>5. D = {}
    BY <2>4
  <2> HIDE DEF D
  <2>6. QED
    BY <2>1, <2>5 DEF EmptyBag, SetToBag
<1>3. FoldShapes(<< >>) = EmptyBag
  <2>1. [c \in DOMAIN << >> |-> MapShapes(<< >>[c])] = << >>
    OBVIOUS
  <2>2. QED
    BY <2>1, SumsOfNothing DEF FoldShapes
<1>4. ASSUME NEW b
      PROVE  FoldWords(b, << >>) = NoCopies
  <2>1. [c \in DOMAIN << >> |-> WordsIn(c, << >>[c], ViewOf(b, c))] = << >>
    OBVIOUS
  <2>2. MapWords(b, << >>) = << >>
    BY <2>1, SumsOfNothing DEF MapWords
  <2>3. /\ [k \in DOMAIN << >> |-> << >>[k].total] = << >>
        /\ [k \in DOMAIN << >> |-> Len(<< >>[k].copied)] = << >>
        /\ [k \in DOMAIN << >> |-> [i \in DOMAIN << >>[k].copied |-> << >>[k].copied[i].word]] = << >>
    OBVIOUS
  <2>4. FoldObserved(<< >>) = NoCopies
    BY <2>3, SumsOfNothing DEF FoldObserved, CopiedWords, NoCopies
  <2>5. QED
    BY <2>2, <2>4 DEF FoldWords
<1>5. QED
  BY <1>1, <1>2, <1>3, <1>4

LEMMA NothingObserved == FoldNonletters(<< >>) = EmptyBag
<1>1. ReducedRuns(<< >>) = << >>
  <2>1. << >> \in Seq(Seq(Seq({}))) /\ Len(<< >>) = 0
    OBVIOUS
  <2>2. PICK walk : IsRunBook(walk, << >>)
    BY <2>1, RunBookSteps
  <2>3. walk[0].reduced = << >> /\ ReducedRuns(<< >>) = walk[Len(<< >>)].reduced
    BY <2>2 DEF IsRunBook
  <2>4. QED
    BY <2>1, <2>3
<1>2. [c \in DOMAIN << >> |-> << >>[c].obs.tally (+) EdgeCounts(<< >>[c])] = << >>
  OBVIOUS
<1>3. QED
  BY <1>1, <1>2, SumsOfNothing DEF FoldNonletters, FoldRunsOf

(* A book of the generator is a book over the alphabet.                    *)
LEMMA BookIn ==
    ASSUME NEW r, NEW book \in Books(r)
    PROVE  book \in Seq(Seq(Seq(Alphabet(r))))
<1> DEFINE T == Seq(Seq(Alphabet(r)))
<1>1. book \in Seq(T \ { << >> })
  BY DEF Books, Chapters
<1> HIDE DEF T
<1>2. book \in Seq(T)
  BY <1>1
<1>3. QED
  BY <1>2 DEF T

(* What a book contributes, rule by rule.                                  *)
LEMMA ContributionIs ==
    ASSUME NEW b, NEW book
    PROVE  /\ \A r \in Stateless : Contribution(r, b, book) = Blank
           /\ Contribution("brackets", b, book) = Addends(BookMatch(book))
           /\ Contribution("runs", b, book) = FoldRuns(book)
           /\ Contribution("scripts", b, book) = FoldScripts(book)
           /\ Contribution("forms", b, book) = FoldForms(book)
           /\ Contribution("glyphs", b, book)
                = IF book = NoBook THEN Absent ELSE FoldGlyphs(ReducedGlyphs(book))
           /\ Contribution("nonletters", b, book) = FoldNonletters(book)
           /\ Contribution("shapes", b, book) = FoldShapes(book)
           /\ Contribution("lengths", b, book) = FoldLengths(b, book)
           /\ Contribution("words", b, book) = FoldWords(b, book)
BY DEF Contribution, Stateless

AddendsOf(r, c) == [b \in DOMAIN c |-> Contribution(r, b, c[b])]

PresentIn(c) == { b \in DOMAIN c : c[b] # NoBook }

(* FreshStats of a rule and the books that are there.                      *)
FreshOf(r, a, P) ==
    CASE r \in Stateless -> Blank
      [] r = "brackets" -> BracketsOf(a)
      [] r = "runs" -> RepeatsOf(a)
      [] r = "scripts" -> ScriptsOf(a, P)
      [] r \in {"forms", "nonletters", "shapes"} -> SumOf(a)
      [] r = "glyphs" -> GlyphsOf(a, P)
      [] r = "words" -> CopiedOf(a)
      [] r = "lengths" -> LengthsOf(a, P)

RuleNames ==
    Stateless \cup {"brackets", "runs", "scripts", "forms", "glyphs", "nonletters", "shapes",
                    "lengths", "words"}

(* What a build from nothing sums, rule by rule.                           *)
LEMMA FreshIs ==
    ASSUME NEW a, NEW P
    PROVE  /\ \A r \in Stateless : FreshOf(r, a, P) = Blank
           /\ FreshOf("brackets", a, P) = BracketsOf(a)
           /\ FreshOf("runs", a, P) = RepeatsOf(a)
           /\ FreshOf("scripts", a, P) = ScriptsOf(a, P)
           /\ \A r \in {"forms", "nonletters", "shapes"} : FreshOf(r, a, P) = SumOf(a)
           /\ FreshOf("glyphs", a, P) = GlyphsOf(a, P)
           /\ FreshOf("words", a, P) = CopiedOf(a)
           /\ FreshOf("lengths", a, P) = LengthsOf(a, P)
BY DEF FreshOf, Stateless

(* A build from nothing sums what each book contributes.                   *)
LEMMA FreshStatsAre ==
    ASSUME rule \in RuleNames, NEW a
    PROVE  FreshStats(a) = FreshOf(rule, a, Present)
<1>1. CASE rule \in Stateless
  <2>1. FreshOf(rule, a, Present) = Blank
    BY <1>1, FreshIs
  <2>2. FreshStats(a) = Blank
    BY <1>1 DEF FreshStats, Stateless
  <2>3. QED
    BY <2>1, <2>2
<1>2. CASE rule = "brackets"
  BY <1>2, FreshIs DEF FreshStats, SumOfShares, Stateless, BracketsOf
<1>3. CASE rule = "runs"
  BY <1>3, FreshIs DEF FreshStats, SumOfShares, Stateless, RepeatsOf, SumOfRuns
<1>4. CASE rule = "scripts"
  BY <1>4, FreshIs DEF FreshStats, SumOfShares, Stateless, ScriptsOf
<1>5. CASE rule \in {"forms", "nonletters", "shapes"}
  BY <1>5, FreshIs DEF FreshStats, SumOfShares, Stateless
<1>6. CASE rule = "glyphs"
  BY <1>6, FreshIs DEF FreshStats, SumOfGlyphs, Stateless, GlyphsOf, GlyphSums
<1>7. CASE rule = "words"
  BY <1>7, FreshIs DEF FreshStats, SumOfShares, Stateless, CopiedOf
<1>8. CASE rule = "lengths"
  BY <1>8, FreshIs DEF FreshStats, SumOfShares, Stateless, LengthsOf
<1>9. QED
  BY <1>1, <1>2, <1>3, <1>4, <1>5, <1>6, <1>7, <1>8 DEF RuleNames

(* How each rule patches its statistics for one book.                      *)
LEMMA NextStatsAre ==
    ASSUME NEW b, NEW present, NEW old, NEW new
    PROVE  /\ \A r \in Stateless : NextStats(r, b, present, old, new) = Blank
           /\ NextStats("brackets", b, present, old, new) = ReplaceBrackets(stats, old, new)
           /\ NextStats("runs", b, present, old, new) = ReplaceRuns(stats, old, new)
           /\ NextStats("scripts", b, present, old, new) = ReplaceScripts(stats, b, present, old, new)
           /\ NextStats("forms", b, present, old, new) = ReplaceForms(stats, old, new)
           /\ NextStats("glyphs", b, present, old, new) = ReplaceGlyphs(stats, b, old, new)
           /\ \A r \in {"nonletters", "shapes"} :
                 NextStats(r, b, present, old, new) = Replaced(stats, old, new)
           /\ NextStats("lengths", b, present, old, new) = ReplaceLengths(stats, b, old, new)
           /\ NextStats("words", b, present, old, new) = ReplaceWords(stats, old, new)
BY DEF NextStats, Stateless

(* What each rule starts from.                                             *)
LEMMA NoStatsAre ==
    /\ \A r \in Stateless : NoStats(r) = Blank
    /\ NoStats("brackets") = NoAddends
    /\ NoStats("runs") = NoRuns
    /\ NoStats("scripts") = NoScripts
    /\ NoStats("forms") = NoForms
    /\ NoStats("glyphs") = NoGlyphs
    /\ \A r \in {"nonletters", "shapes"} : NoStats(r) = EmptyBag
    /\ NoStats("lengths") = NoLengths
    /\ NoStats("words") = NoCopies
BY DEF NoStats, Stateless

(* What is assumed of the rules and of their alphabets.                    *)
LEMMA RulesNamed ==
    ASSUME NEW r \in Rules
    PROVE  /\ r \in RuleNames /\ BookCount(r) \in Nat
           /\ r = "scripts" => \A u \in Alphabet(r) : IsFiniteSet(u)
           /\ r = "glyphs" => \A u \in Alphabet(r) : u \in GlyphUnits
BY RulesAssumption DEF RuleNames

LEMMA GlyphContributed ==
    ASSUME NEW b, NEW U, \A u \in U : u \in GlyphUnits, NEW book \in Seq(Seq(Seq(U)))
    PROVE  IsGlyphAddend(Contribution("glyphs", b, book))
<1> DEFINE S == Seq(Seq(U))
           T == Seq(Seq(GlyphUnits))
<1>1. S \subseteq T
  <2>1. U \subseteq GlyphUnits
    OBVIOUS
  <2> DEFINE V == Seq(U)
             G == Seq(GlyphUnits)
  <2>2. V \subseteq G
    BY <2>1
  <2> HIDE DEF V, G
  <2>3. Seq(V) \subseteq Seq(G)
    BY <2>2
  <2>4. QED
    BY <2>3 DEF V, G
<1>2. book \in Seq(S)
  OBVIOUS
<1> HIDE DEF S, T
<1>3. book \in Seq(T)
  BY <1>1, <1>2
<1>4. book \in Seq(Seq(Seq(GlyphUnits)))
  BY <1>3 DEF T
<1>5. IsGlyphAddend(FoldGlyphs(ReducedGlyphs(book)))
  BY <1>4, BookOfGlyphs, GlyphsFolded
<1>6. QED
  BY <1>5, AbsentIs, ContributionIs

(***************************************************************************)
(* One book exchanged.                                                     *)
(***************************************************************************)
Corpora(r) == [1 .. BookCount(r) -> Books(r)]

(* Between two corpora that differ in a book, so do the addends.           *)
LEMMA AddendsExchanged ==
    ASSUME NEW r \in Rules, NEW c \in Corpora(r), NEW d \in Corpora(r), NEW i \in 1 .. BookCount(r),
           \A b \in 1 .. BookCount(r) : b # i => c[b] = d[b]
    PROVE  /\ SameBut(AddendsOf(r, c), AddendsOf(r, d), BookCount(r), i)
           /\ AddendsOf(r, c)[i] = Contribution(r, i, c[i])
           /\ AddendsOf(r, d)[i] = Contribution(r, i, d[i])
           /\ PresentIn(c) \ {i} = PresentIn(d) \ {i}
           /\ i \in PresentIn(c) <=> c[i] # NoBook
           /\ i \in PresentIn(d) <=> d[i] # NoBook
<1>1. DOMAIN c = 1 .. BookCount(r) /\ DOMAIN d = 1 .. BookCount(r)
  BY DEF Corpora
<1>2. QED
  BY <1>1 DEF AddendsOf, PresentIn, SameBut

(* Every addend is of the kind its rule sums.                              *)
LEMMA AddendsTyped ==
    ASSUME NEW r \in Rules, NEW c \in Corpora(r)
    PROVE  LET m == BookCount(r)
               a == AddendsOf(r, c) IN
           /\ m \in Nat /\ DOMAIN a = 1 .. m /\ a = [b \in 1 .. m |-> a[b]]
           /\ r = "brackets" => AreBracketsAddends(a, m)
           /\ r = "runs" => AreRepeatsAddends(a, m)
           /\ r = "scripts" => AreScriptAddends(a, m)
           /\ r \in {"forms", "nonletters", "shapes"} => AreTallies(a, m)
           /\ r = "glyphs" => AreGlyphAddends(a, m)
           /\ r = "words" => AreCopiedAddends(a, m)
           /\ r = "lengths" => /\ AreLengthAddends(a, m)
                               /\ PresentIn(c) = { b \in 1 .. m : a[b].present }
<1> DEFINE m == BookCount(r)
           a == AddendsOf(r, c)
           U == Alphabet(r)
<1>1. m \in Nat /\ DOMAIN c = 1 .. m /\ \A b \in 1 .. m : c[b] \in Seq(Seq(Seq(U)))
  BY BookIn, RulesNamed DEF Corpora
<1>2. /\ DOMAIN a = 1 .. m /\ a = [b \in 1 .. m |-> a[b]]
      /\ \A b \in 1 .. m : a[b] = Contribution(r, b, c[b])
  BY <1>1 DEF AddendsOf
<1> HIDE DEF m, a
<1>3. ASSUME r = "brackets"
      PROVE  AreBracketsAddends(a, m)
  <2>1. \A b \in 1 .. m : a[b] = Addends(BookMatch(c[b]))
    BY <1>2, <1>3, ContributionIs
  <2>2. \A b \in 1 .. m : AreBracketTallies(Addends(BookMatch(c[b])))
    BY <1>1, BookMatched, BracketsCounted
  <2>3. QED
    BY <1>1, <1>2, <2>1, <2>2 DEF AreBracketsAddends
<1>4. ASSUME r = "runs"
      PROVE  AreRepeatsAddends(a, m)
  <2>1. \A b \in 1 .. m : a[b] = FoldRuns(c[b])
    BY <1>2, <1>4, ContributionIs
  <2>2. \A b \in 1 .. m : IsRunAddend(FoldRuns(c[b]))
    BY <1>1, RunsFolded
  <2>3. QED
    BY <1>1, <1>2, <2>1, <2>2 DEF AreRepeatsAddends
<1>5. ASSUME r = "scripts"
      PROVE  AreScriptAddends(a, m)
  <2>1. \A b \in 1 .. m : a[b] = FoldScripts(c[b])
    BY <1>2, <1>5, ContributionIs
  <2>2. \A u \in U : IsFiniteSet(u)
    BY <1>5, RulesNamed
  <2> HIDE DEF U
  <2>3. \A b \in 1 .. m : IsScriptAddend(FoldScripts(c[b]))
    BY <1>1, <2>2, ScriptsFolded
  <2>4. QED
    BY <1>1, <1>2, <2>1, <2>3 DEF AreScriptAddends
<1>6. ASSUME r \in {"forms", "nonletters", "shapes"}
      PROVE  AreTallies(a, m)
  <2>1. \A b \in 1 .. m : a[b] \in {FoldForms(c[b]), FoldNonletters(c[b]), FoldShapes(c[b])}
    BY <1>2, <1>6, ContributionIs
  <2>2. \A b \in 1 .. m : /\ IsTally(FoldForms(c[b])) /\ IsTally(FoldNonletters(c[b]))
                          /\ IsTally(FoldShapes(c[b]))
    BY <1>1, FormsFolded, NonlettersFolded, ShapesFolded
  <2>3. QED
    BY <1>1, <1>2, <2>1, <2>2 DEF AreTallies
<1>7. ASSUME r = "glyphs"
      PROVE  AreGlyphAddends(a, m)
  <2>1. \A u \in U : u \in GlyphUnits
    BY <1>7, RulesNamed
  <2> HIDE DEF U
  <2>2. \A b \in 1 .. m : IsGlyphAddend(Contribution("glyphs", b, c[b]))
    BY <1>1, <2>1, GlyphContributed
  <2>3. QED
    BY <1>1, <1>2, <1>7, <2>2 DEF AreGlyphAddends
<1>8. ASSUME r = "words"
      PROVE  AreCopiedAddends(a, m)
  <2>1. \A b \in 1 .. m : a[b] = FoldWords(b, c[b])
    BY <1>2, <1>8, ContributionIs
  <2>2. \A b \in 1 .. m : IsWordAddend(FoldWords(b, c[b]))
    BY <1>1, WordsFolded
  <2>3. QED
    BY <1>1, <1>2, <2>1, <2>2 DEF AreCopiedAddends
<1>9. ASSUME r = "lengths"
      PROVE  AreLengthAddends(a, m) /\ PresentIn(c) = { b \in 1 .. m : a[b].present }
  <2>1. \A b \in 1 .. m : a[b] = FoldLengths(b, c[b])
    BY <1>2, <1>9, ContributionIs
  <2>2. \A b \in 1 .. m : /\ IsSequence(FoldLengths(b, c[b]).ratios)
                          /\ FoldLengths(b, c[b]).present = (c[b] # << >>)
                          /\ c[b] = << >> => FoldLengths(b, c[b]).ratios = << >>
    BY <1>1, RatiosSampled
  <2>3. \A b \in 1 .. m : FoldLengths(b, c[b])
            = [present |-> FoldLengths(b, c[b]).present, ratios |-> FoldLengths(b, c[b]).ratios]
    BY DEF FoldLengths
  <2>4. \A b \in 1 .. m : IsLengthAddend(a[b]) /\ a[b].present = (c[b] # << >>)
    BY <2>1, <2>2, <2>3 DEF IsLengthAddend
  <2>5. QED
    BY <1>1, <1>2, <2>4 DEF AreLengthAddends, PresentIn, NoBook
<1>10. QED
  BY <1>1, <1>2, <1>3, <1>4, <1>5, <1>6, <1>7, <1>8, <1>9 DEF m, a

(* Whatever the rule, an exchange keeps the aggregate fresh.               *)
LEMMA FreshReplaced ==
    ASSUME NEW r \in Rules, NEW c \in Corpora(r), NEW d \in Corpora(r), NEW i \in 1 .. BookCount(r),
           \A b \in 1 .. BookCount(r) : b # i => c[b] = d[b],
           stats = FreshOf(r, AddendsOf(r, c), PresentIn(c))
    PROVE  NextStats(r, i, d[i] # NoBook, Contribution(r, i, c[i]), Contribution(r, i, d[i]))
             = FreshOf(r, AddendsOf(r, d), PresentIn(d))
<1> DEFINE m == BookCount(r)
           a == AddendsOf(r, c)
           v == AddendsOf(r, d)
           P == PresentIn(c)
           Q == PresentIn(d)
           next == NextStats(r, i, d[i] # NoBook, Contribution(r, i, c[i]), Contribution(r, i, d[i]))
<1>1. /\ SameBut(a, v, m, i) /\ a[i] = Contribution(r, i, c[i]) /\ v[i] = Contribution(r, i, d[i])
      /\ P \ {i} = Q \ {i} /\ (i \in P <=> c[i] # NoBook) /\ (i \in Q <=> d[i] # NoBook)
  BY AddendsExchanged
<1>2. r \in RuleNames
  BY RulesNamed
<1>3. (d[i] # NoBook) = (i \in Q)
  BY <1>1
<1>4. next = NextStats(r, i, i \in Q, a[i], v[i])
  BY <1>1, <1>3
<1>5. /\ r = "brackets" => AreBracketsAddends(a, m) /\ AreBracketsAddends(v, m)
      /\ r = "runs" => AreRepeatsAddends(a, m) /\ AreRepeatsAddends(v, m)
      /\ r = "scripts" => AreScriptAddends(a, m) /\ AreScriptAddends(v, m)
      /\ r \in {"forms", "nonletters", "shapes"} => AreTallies(a, m) /\ AreTallies(v, m)
      /\ r = "glyphs" => AreGlyphAddends(a, m) /\ AreGlyphAddends(v, m)
      /\ r = "words" => AreCopiedAddends(a, m) /\ AreCopiedAddends(v, m)
      /\ r = "lengths" => /\ AreLengthAddends(a, m) /\ AreLengthAddends(v, m)
                          /\ P = { b \in 1 .. m : a[b].present }
                          /\ Q = { b \in 1 .. m : v[b].present }
  BY AddendsTyped
<1>6. r = "glyphs" => PresentBut(P, Q, a, v, i)
  <2> SUFFICES ASSUME r = "glyphs"
               PROVE  PresentBut(P, Q, a, v, i)
    OBVIOUS
  <2>1. /\ c[i] = NoBook => a[i] = Absent
        /\ d[i] = NoBook => v[i] = Absent
    BY <1>1, ContributionIs
  <2>2. \A b \in P \ {i} : a[b] = v[b]
    <3>1. DOMAIN c = 1 .. m
      BY DEF Corpora
    <3>2. \A b \in P : b \in 1 .. m
      BY <3>1 DEF PresentIn
    <3> HIDE DEF P, m, a, v
    <3>3. QED
      BY <1>1, <3>2 DEF SameBut
  <2> HIDE DEF P, Q, a, v
  <2>3. QED
    BY <1>1, <2>1, <2>2, AbsentIs DEF PresentBut
<1>7. stats = FreshOf(r, a, P)
  OBVIOUS
<1>8. next = FreshOf(r, v, Q)
  <2> HIDE DEF m, a, v, P, Q, next
  <2>1. CASE r \in Stateless
    <3>1. next = Blank
      BY <1>4, <2>1 DEF NextStats, Stateless
    <3>2. FreshOf(r, v, Q) = Blank
      BY <2>1, FreshIs
    <3>3. QED
      BY <3>1, <3>2
  <2>2. CASE r = "brackets"
    <3>1. stats = BracketsOf(a) /\ next = ReplaceBrackets(stats, a[i], v[i])
      BY <1>4, <1>7, <2>2, FreshIs, NextStatsAre
    <3>2. QED
      BY <1>1, <1>5, <2>2, <3>1, FreshIs, BracketsReplaced
  <2>3. CASE r = "runs"
    <3>1. stats = RepeatsOf(a) /\ next = ReplaceRuns(stats, a[i], v[i])
      BY <1>4, <1>7, <2>3, FreshIs, NextStatsAre
    <3>2. QED
      BY <1>1, <1>5, <2>3, <3>1, FreshIs, RepeatsReplaced
  <2>4. CASE r = "scripts"
    <3>1. stats = ScriptsOf(a, P) /\ next = ReplaceScripts(stats, i, i \in Q, a[i], v[i])
      BY <1>4, <1>7, <2>4, FreshIs, NextStatsAre
    <3>2. QED
      BY <1>1, <1>5, <2>4, <3>1, FreshIs, ScriptsReplaced
  <2>5. CASE r \in {"forms", "nonletters", "shapes"}
    <3>1. stats = SumOf(a) /\ next = Replaced(stats, a[i], v[i])
      BY <1>4, <1>7, <2>5, FreshIs, NextStatsAre DEF ReplaceForms
    <3>2. QED
      BY <1>1, <1>5, <2>5, <3>1, FreshIs, SumReplaced
  <2>6. CASE r = "glyphs"
    <3>1. stats = GlyphsOf(a, P) /\ next = ReplaceGlyphs(stats, i, a[i], v[i])
      BY <1>4, <1>7, <2>6, FreshIs, NextStatsAre
    <3>2. QED
      BY <1>1, <1>5, <1>6, <2>6, <3>1, FreshIs, GlyphsReplaced
  <2>7. CASE r = "words"
    <3>1. stats = CopiedOf(a) /\ next = ReplaceWords(stats, a[i], v[i])
      BY <1>4, <1>7, <2>7, FreshIs, NextStatsAre
    <3>2. QED
      BY <1>1, <1>5, <2>7, <3>1, FreshIs, CopiedReplaced
  <2>8. CASE r = "lengths"
    <3>1. stats = LengthsOf(a, P) /\ next = ReplaceLengths(stats, i, a[i], v[i])
      BY <1>4, <1>7, <2>8, FreshIs, NextStatsAre
    <3>2. QED
      BY <1>1, <1>5, <2>8, <3>1, FreshIs, LengthsReplaced
  <2>9. QED
    BY <1>2, <2>1, <2>2, <2>3, <2>4, <2>5, <2>6, <2>7, <2>8 DEF RuleNames
<1>9. QED
  BY <1>8

(***************************************************************************)
(* No book at all.                                                         *)
(***************************************************************************)
LEMMA FreshOfNothing ==
    ASSUME NEW r \in Rules, NEW c, c = [b \in 1 .. BookCount(r) |-> NoBook]
    PROVE  FreshOf(r, AddendsOf(r, c), PresentIn(c)) = NoStats(r)
<1> DEFINE m == BookCount(r)
           a == AddendsOf(r, c)
           P == PresentIn(c)
<1>1. m \in Nat /\ r \in RuleNames
  BY RulesNamed
<1>2. P = {}
  BY DEF PresentIn
<1>3. /\ a = [b \in 1 .. m |-> a[b]] /\ DOMAIN a = 1 .. m
      /\ \A b \in 1 .. m : a[b] = Contribution(r, b, << >>)
  BY DEF AddendsOf, NoBook
<1> HIDE DEF m, a, P
<1>4. /\ SumOf([n \in 1 .. m |-> EmptyBag]) = EmptyBag /\ TotalOf([n \in 1 .. m |-> 0]) = 0
      /\ FlattenSeq([n \in 1 .. m |-> << >>]) = << >>
  BY <1>1, SumOfEmpty, TotalOfZeros, FlattenedNothing
<1>5. CASE r \in Stateless
  BY <1>5, FreshIs, NoStatsAre DEF a, P
<1>6. CASE r = "brackets"
  <2>1. \A b \in 1 .. m : a[b] = NoAddends
    BY <1>3, <1>6, ContributionIs, NothingBracketed
  <2>2. \A b \in 1 .. m : a[b].events = EmptyBag /\ a[b].matched = EmptyBag /\ a[b].distances = EmptyBag
    BY <2>1 DEF NoAddends
  <2>3. /\ [b \in DOMAIN a |-> a[b].events] = [n \in 1 .. m |-> EmptyBag]
        /\ [b \in DOMAIN a |-> a[b].matched] = [n \in 1 .. m |-> EmptyBag]
        /\ [b \in DOMAIN a |-> a[b].distances] = [n \in 1 .. m |-> EmptyBag]
    BY <1>3, <2>2
  <2>4. BracketsOf(a) = NoAddends
    BY <1>4, <2>3 DEF BracketsOf, NoAddends
  <2>5. QED
    BY <1>6, <2>4, FreshIs, NoStatsAre DEF a, P
<1>7. CASE r = "runs"
  <2>1. \A b \in 1 .. m : a[b] = NoRuns
    BY <1>3, <1>7, ContributionIs, NothingRepeated
  <2>2. \A b \in 1 .. m : a[b].units = 0 /\ a[b].clusters = EmptyBag /\ a[b].words = EmptyBag
    BY <2>1 DEF NoRuns
  <2>3. /\ [b \in DOMAIN a |-> a[b].units] = [n \in 1 .. m |-> 0]
        /\ [b \in DOMAIN a |-> a[b].clusters] = [n \in 1 .. m |-> EmptyBag]
        /\ [b \in DOMAIN a |-> a[b].words] = [n \in 1 .. m |-> EmptyBag]
    BY <1>3, <2>2
  <2>4. RepeatsOf(a) = NoRuns
    BY <1>4, <2>3 DEF RepeatsOf, NoRuns
  <2>5. QED
    BY <1>7, <2>4, FreshIs, NoStatsAre DEF a, P
<1>8. CASE r = "scripts"
  <2>1. \A b \in 1 .. m : a[b] = [scripts |-> EmptyBag, signatures |-> EmptyBag]
    BY <1>3, <1>8, ContributionIs, NothingFolded
  <2>2. \A b \in 1 .. m : a[b].scripts = EmptyBag /\ a[b].signatures = EmptyBag
    BY <2>1
  <2>3. SetToBag(DOMAIN EmptyBag) = EmptyBag
    BY DEF EmptyBag, SetToBag
  <2>4. /\ [b \in DOMAIN a |-> a[b].scripts] = [n \in 1 .. m |-> EmptyBag]
        /\ [b \in DOMAIN a |-> a[b].signatures] = [n \in 1 .. m |-> EmptyBag]
        /\ [b \in DOMAIN a |-> SetToBag(DOMAIN a[b].signatures)] = [n \in 1 .. m |-> EmptyBag]
    BY <1>3, <2>2, <2>3
  <2>5. ScriptsOf(a, P) = NoScripts
    BY <1>2, <1>4, <2>4 DEF ScriptsOf, NoScripts
  <2>6. QED
    BY <1>8, <2>5, FreshIs, NoStatsAre DEF a, P
<1>9. CASE r \in {"forms", "nonletters", "shapes"}
  <2>1. \A b \in 1 .. m : a[b] = EmptyBag
    BY <1>3, <1>9, ContributionIs, NothingFolded, NothingObserved
  <2>2. a = [n \in 1 .. m |-> EmptyBag]
    BY <1>3, <2>1
  <2>3. SumOf(a) = EmptyBag
    BY <1>4, <2>2
  <2>4. NoStats(r) = EmptyBag
    BY <1>9, NoStatsAre DEF NoForms
  <2>5. FreshOf(r, a, P) = SumOf(a)
    BY <1>9, FreshIs
  <2>6. QED
    BY <2>3, <2>4, <2>5 DEF a, P
<1>10. CASE r = "glyphs"
  <2>1. \A b \in 1 .. m : a[b] = Absent
    BY <1>3, <1>10, ContributionIs DEF NoBook
  <2>2. \A b \in 1 .. m : /\ a[b].inventory = EmptyBag /\ a[b].rare = EmptyBag
                          /\ TokensOf(a[b]) = EmptyBag
    <3>1. TokensOf(Absent) = EmptyBag
      <4>1. DOMAIN Absent.words = {}
        BY AbsentIs
      <4>2. QED
        BY <4>1 DEF TokensOf, EmptyBag, SetToBag
    <3>2. Absent.inventory = EmptyBag /\ Absent.rare = EmptyBag
      BY DEF Absent
    <3>3. QED
      BY <2>1, <3>1, <3>2
  <2>3. /\ [b \in DOMAIN a |-> a[b].inventory] = [n \in 1 .. m |-> EmptyBag]
        /\ [b \in DOMAIN a |-> a[b].rare] = [n \in 1 .. m |-> EmptyBag]
        /\ [b \in DOMAIN a |-> TokensOf(a[b])] = [n \in 1 .. m |-> EmptyBag]
    BY <1>3, <2>2
  <2>4. UNION { ShapesOf(b, a[b]) : b \in P } = {}
    BY <1>2
  <2>5. BagCardinality(EmptyBag) = 0
    <3>1. EmptyBag \in BagsOver({}) /\ DOMAIN EmptyBag = {}
      BY EmptyBagIs DEF EmptyBag, SetToBag
    <3>2. QED
      BY <3>1, CardinalityIs
  <2>6. Cardinality({ g \in DOMAIN EmptyBag : EmptyBag[g] = 1 }) = 0
    <3>1. DOMAIN EmptyBag = {}
      BY DEF EmptyBag, SetToBag
    <3>2. { g \in DOMAIN EmptyBag : EmptyBag[g] = 1 } = {}
      BY <3>1
    <3>3. QED
      BY <3>2, FS_EmptySet
  <2>7. GlyphsOf(a, P) = NoGlyphs
    BY <1>4, <2>3, <2>4, <2>5, <2>6 DEF GlyphsOf, GlyphSums, NoGlyphs
  <2>8. QED
    BY <1>10, <2>7, FreshIs, NoStatsAre DEF a, P
<1>11. CASE r = "words"
  <2>1. \A b \in 1 .. m : a[b] = NoCopies
    BY <1>3, <1>11, ContributionIs, NothingFolded
  <2>2. \A b \in 1 .. m : a[b].tokens = 0 /\ a[b].copied = 0 /\ a[b].words = EmptyBag
    BY <2>1 DEF NoCopies
  <2>3. /\ [b \in DOMAIN a |-> a[b].tokens] = [n \in 1 .. m |-> 0]
        /\ [b \in DOMAIN a |-> a[b].copied] = [n \in 1 .. m |-> 0]
        /\ [b \in DOMAIN a |-> a[b].words] = [n \in 1 .. m |-> EmptyBag]
    BY <1>3, <2>2
  <2>4. CopiedOf(a) = NoCopies
    BY <1>4, <2>3 DEF CopiedOf, NoCopies
  <2>5. QED
    BY <1>11, <2>4, FreshIs, NoStatsAre DEF a, P
<1>12. CASE r = "lengths"
  <2>1. \A b \in 1 .. m : a[b].ratios = << >>
    <3>1. << >> \in Seq(Seq(Seq({})))
      OBVIOUS
    <3>2. \A b : FoldLengths(b, << >>).ratios = << >>
      BY <3>1, RatiosSampled
    <3>3. QED
      BY <1>3, <1>12, <3>2, ContributionIs
  <2>2. [b \in DOMAIN a |-> a[b].ratios] = [n \in 1 .. m |-> << >>]
    BY <1>3, <2>1
  <2>3. /\ [b \in P |-> a[b].ratios] = << >>
        /\ [b \in P |-> SpreadOf(a[b].ratios)] = << >>
    BY <1>2
  <2>4. SpreadOf(<< >>) = NoSpread
    BY DEF SpreadOf
  <2>5. LengthsOf(a, P) = NoLengths
    BY <1>4, <2>2, <2>3, <2>4 DEF LengthsOf, NoLengths
  <2>6. QED
    BY <1>12, <2>5, FreshIs, NoStatsAre DEF a, P
<1>13. QED
  BY <1>1, <1>5, <1>6, <1>7, <1>8, <1>9, <1>10, <1>11, <1>12 DEF RuleNames, a, P

(***************************************************************************)
(* The state machine.                                                      *)
(***************************************************************************)
IsFresh == stats = FreshOf(rule, AddendsOf(rule, corpus), PresentIn(corpus))

(***************************************************************************)
(* The corpus stays one the generator can write: every book is over the    *)
(* alphabet of the rule (the edits of the model, as replace_books and      *)
(* remove_book apply them).                                                *)
(***************************************************************************)
THEOREM Typed == Spec => []CorpusTyped
<1>1. Init => CorpusTyped
  BY DEF Init, CorpusTyped, Books, NoBook
<1>2. CorpusTyped /\ [Next]_vars => CorpusTyped'
  <2> SUFFICES ASSUME CorpusTyped, [Next]_vars
               PROVE  CorpusTyped'
    OBVIOUS
  <2>1. CASE Next
    <3>1. PICK b \in DOMAIN corpus : Edit(b) /\ UNCHANGED rule
      BY <2>1 DEF Next
    <3>2. PICK book \in Books(rule) : corpus' = [corpus EXCEPT ![b] = book]
      BY <3>1, EditWritesABook
    <3>3. QED
      BY <3>1, <3>2 DEF CorpusTyped
  <2>2. CASE UNCHANGED vars
    BY <2>2 DEF vars, CorpusTyped
  <2>3. QED
    BY <2>1, <2>2
<1>3. QED
  BY <1>1, <1>2, PTL DEF Spec

(* A step replaces one book and patches the statistics for it.             *)
LEMMA StepReplaces ==
    ASSUME CorpusTyped, IsFresh, Next
    PROVE  /\ rule' = rule /\ CorpusTyped'
           /\ \E i \in 1 .. BookCount(rule) :
                 /\ \A b \in 1 .. BookCount(rule) : b # i => corpus[b] = corpus'[b]
                 /\ stats' = NextStats(rule, i, corpus'[i] # NoBook,
                                       Contribution(rule, i, corpus[i]), Contribution(rule, i, corpus'[i]))
                 /\ delta' = NamedKeys(rule, i, stats', Contribution(rule, i, corpus[i]),
                                       Contribution(rule, i, corpus'[i]))
<1>1. PICK i \in DOMAIN corpus : Edit(i) /\ ReplaceBook(i, corpus'[i]) /\ UNCHANGED rule
  BY DEF Next
<1>2. PICK book \in Books(rule) : corpus' = [corpus EXCEPT ![i] = book]
  BY <1>1, EditWritesABook
<1>3. DOMAIN corpus = 1 .. BookCount(rule) /\ CorpusTyped'
  BY <1>1, <1>2 DEF CorpusTyped
<1>4. \A b \in 1 .. BookCount(rule) : b # i => corpus[b] = corpus'[b]
  BY <1>2, <1>3
<1>5. PICK addend \in {[w \in {corpus[i], corpus'[i]} |-> Contribution(rule, i, w)]} :
        /\ stats' = NextStats(rule, i, corpus'[i] # NoBook, addend[corpus[i]], addend[corpus'[i]])
        /\ delta' = NamedKeys(rule, i, stats', addend[corpus[i]], addend[corpus'[i]])
  BY <1>1 DEF ReplaceBook
<1>6. /\ addend[corpus[i]] = Contribution(rule, i, corpus[i])
      /\ addend[corpus'[i]] = Contribution(rule, i, corpus'[i])
  OBVIOUS
<1>7. QED
  BY <1>1, <1>3, <1>4, <1>5, <1>6

LEMMA FreshInduction == Spec => [](CorpusTyped /\ IsFresh)
<1>1. Init => IsFresh
  BY FreshOfNothing DEF Init, IsFresh
<1>2. CorpusTyped /\ IsFresh /\ [Next]_vars => IsFresh'
  <2> SUFFICES ASSUME CorpusTyped, IsFresh, [Next]_vars
               PROVE  IsFresh'
    OBVIOUS
  <2>1. CASE Next
    <3>1. PICK i \in 1 .. BookCount(rule) :
             /\ \A b \in 1 .. BookCount(rule) : b # i => corpus[b] = corpus'[b]
             /\ stats' = NextStats(rule, i, corpus'[i] # NoBook,
                                   Contribution(rule, i, corpus[i]), Contribution(rule, i, corpus'[i]))
      BY <2>1, StepReplaces
    <3>2. rule' = rule /\ rule \in Rules /\ corpus \in Corpora(rule) /\ corpus' \in Corpora(rule)
      BY <2>1, StepReplaces DEF CorpusTyped, Corpora
    <3>3. stats = FreshOf(rule, AddendsOf(rule, corpus), PresentIn(corpus))
      BY DEF IsFresh
    <3>4. NextStats(rule, i, corpus'[i] # NoBook,
                    Contribution(rule, i, corpus[i]), Contribution(rule, i, corpus'[i]))
            = FreshOf(rule, AddendsOf(rule, corpus'), PresentIn(corpus'))
      BY <3>1, <3>2, <3>3, FreshReplaced
    <3>5. QED
      BY <3>1, <3>2, <3>4 DEF IsFresh
  <2>2. CASE UNCHANGED vars
    BY <2>2 DEF vars, IsFresh
  <2>3. QED
    BY <2>1, <2>2
<1>3. QED
  BY <1>1, <1>2, Typed, PTL DEF Spec

(***************************************************************************)
(* Whatever books were replaced, emptied and filled again, the statistics  *)
(* each rule keeps are what a build from nothing sums over the corpus: the *)
(* resident on_replaced_book subtracts exactly what it added.              *)
(***************************************************************************)
THEOREM Fresh == Spec => []StatsAreFresh
<1>1. CorpusTyped /\ IsFresh => StatsAreFresh
  <2> SUFFICES ASSUME CorpusTyped, IsFresh
               PROVE  StatsAreFresh
    OBVIOUS
  <2>1. rule \in RuleNames
    BY RulesNamed DEF CorpusTyped
  <2>2. Present = PresentIn(corpus)
    BY DEF Present, PresentIn
  <2> DEFINE a == AddendsOf(rule, corpus)
  <2>3. a = [b \in DOMAIN corpus |-> Contribution(rule, b, corpus[b])]
    BY DEF AddendsOf
  <2> HIDE DEF a
  <2>4. FreshStats(a) = FreshOf(rule, a, Present)
    BY <2>1, FreshStatsAre
  <2>5. stats = FreshStats(a)
    BY <2>2, <2>4 DEF IsFresh, a
  <2>6. QED
    BY <2>3, <2>5 DEF StatsAreFresh
<1>2. QED
  BY <1>1, FreshInduction, PTL

(***************************************************************************)
(* What a replacement names.                                               *)
(***************************************************************************)
(* A tally with nothing moved is the tally it was.                         *)
LEMMA BracketsNamed ==
    ASSUME NEW before, AreBracketTallies(before), NEW old, NEW new,
           AreBracketTallies(ReplaceBrackets(before, old, new)),
           NEW f, f \notin BracketDelta(old, new)
    PROVE  BracketEvidence(before, f) = BracketEvidence(ReplaceBrackets(before, old, new), f)
<1> DEFINE after == ReplaceBrackets(before, old, new)
           d == before.distances
           e == after.distances
<1>1. /\ after.events = Replaced(before.events, old.events, new.events)
      /\ after.matched = Replaced(before.matched, old.matched, new.matched)
      /\ after.distances = Replaced(before.distances, old.distances, new.distances)
  BY DEF ReplaceBrackets
<1>2. /\ f \notin Moved(old.events, new.events) /\ f \notin Moved(old.matched, new.matched)
      /\ \A k \in Moved(old.distances, new.distances) : k[1] # f
  BY DEF BracketDelta
<1>3. IsTally(d) /\ IsTally(e)
  BY DEF AreBracketTallies
<1> HIDE DEF after
<1>4. /\ Tallied(f, after.events) = Tallied(f, before.events)
      /\ Tallied(f, after.matched) = Tallied(f, before.matched)
  BY <1>1, <1>2, UnmovedKey
<1>5. \A k : k[1] = f => Tallied(k, e) = Tallied(k, d)
  BY <1>1, <1>2, UnmovedKey
<1> DEFINE D == { k \in DOMAIN d : k[1] = f }
           E == { k \in DOMAIN e : k[1] = f }
<1> HIDE DEF d, e
<1>6. \A k : (k \in DOMAIN d <=> Tallied(k, d) # 0) /\ (k \in DOMAIN e <=> Tallied(k, e) # 0)
  BY <1>3, TallyIs
<1>7. D = E
  BY <1>5, <1>6
<1>8. \A k \in D : d[k] = e[k]
  <2>1. \A k \in D : k \in DOMAIN d /\ k \in DOMAIN e /\ Tallied(k, e) = Tallied(k, d)
    BY <1>5, <1>7
  <2>2. QED
    BY <2>1 DEF Tallied
<1> HIDE DEF D, E
<1>9. [k \in D |-> d[k]] = [k \in E |-> e[k]]
  BY <1>7, <1>8
<1>10. /\ BracketEvidence(before, f) = [events |-> Tallied(f, before.events),
                matched |-> Tallied(f, before.matched), distances |-> [k \in D |-> d[k]]]
       /\ BracketEvidence(after, f) = [events |-> Tallied(f, after.events),
                matched |-> Tallied(f, after.matched), distances |-> [k \in E |-> e[k]]]
  BY DEF BracketEvidence, D, E, d, e
<1>11. BracketEvidence(before, f) = BracketEvidence(after, f)
  BY <1>4, <1>9, <1>10
<1>12. QED
  BY <1>11 DEF after

(* A signature no key of the delta names keeps its evidence.               *)
LEMMA ScriptsNamed ==
    ASSUME NEW before, NEW old, NEW new, IsScriptAddend(old), IsScriptAddend(new), NEW i, NEW present,
           NEW sig, sig \in DOMAIN ReplaceScripts(before, i, present, old, new).signatures,
           sig \notin ScriptDelta(before, ReplaceScripts(before, i, present, old, new), old, new)
    PROVE  ScriptEvidence(before, sig)
             = ScriptEvidence(ReplaceScripts(before, i, present, old, new), sig)
<1> DEFINE after == ReplaceScripts(before, i, present, old, new)
           A == DOMAIN old.signatures
           B == DOMAIN new.signatures
<1>1. /\ after.signatures = Replaced(before.signatures, old.signatures, new.signatures)
      /\ after.breadth = Replaced(before.breadth, Times(1, A), Times(1, B))
      /\ after.scripts = Replaced(before.scripts, old.scripts, new.scripts)
  BY DEF ReplaceScripts
<1> HIDE DEF after
<1>2. /\ Cardinality(before.books) = Cardinality(after.books)
      /\ sig \notin Moved(old.signatures, new.signatures)
      /\ \A s \in sig : s \notin Moved(old.scripts, new.scripts)
  BY DEF ScriptDelta, after
<1>3. sig \notin Moved(Times(1, A), Times(1, B))
  <2>1. /\ sig \in A <=> Tallied(sig, old.signatures) # 0
        /\ sig \in B <=> Tallied(sig, new.signatures) # 0
    BY TallyIs DEF IsScriptAddend
  <2>2. sig \in A \cup B => Tallied(sig, old.signatures) = Tallied(sig, new.signatures)
    BY <1>2 DEF Moved
  <2>3. sig \in A <=> sig \in B
    BY <2>1, <2>2
  <2> HIDE DEF A, B
  <2>4. Tallied(sig, Times(1, A)) = Tallied(sig, Times(1, B))
    BY <2>3 DEF Tallied, Times
  <2>5. QED
    BY <2>4 DEF Moved
<1>4. /\ Tallied(sig, after.signatures) = Tallied(sig, before.signatures)
      /\ Tallied(sig, after.breadth) = Tallied(sig, before.breadth)
      /\ \A s \in sig : Tallied(s, after.scripts) = Tallied(s, before.scripts)
  BY <1>1, <1>2, <1>3, UnmovedKey
<1>5. { Tallied(s, after.scripts) : s \in sig } = { Tallied(s, before.scripts) : s \in sig }
  BY <1>4
<1>6. ScriptEvidence(before, sig) = ScriptEvidence(after, sig)
  BY <1>2, <1>4, <1>5 DEF ScriptEvidence
<1>7. QED
  BY <1>6 DEF after

(* So do the shapes of a chapter none of whose words moved.                *)
LEMMA ShapesNamed ==
    ASSUME NEW before, NEW old, NEW new, IsTally(before), IsTally(Replaced(before, old, new)),
           NEW chapter, ~ OwedBy(chapter, ShapeDelta(old, new))
    PROVE  ShapeFindings(before, chapter) = ShapeFindings(Replaced(before, old, new), chapter)
<1> DEFINE after == Replaced(before, old, new)
           sites == MixedIn(chapter)
<1>1. \A i \in DOMAIN sites : sites[i][1] \notin ShapeDelta(old, new)
  BY DEF OwedBy, Range
<1> HIDE DEF sites
<1>2. ASSUME NEW i \in DOMAIN sites
      PROVE  JudgeWord(before, sites[i][1]) = JudgeWord(after, sites[i][1])
  <2> DEFINE w == sites[i][1]
             S == {w} \X {"lower", "title", "caps", "mixed"}
  <2>1. \A k \in Moved(old, new) : k[1] # w
    BY <1>1, <1>2 DEF ShapeDelta
  <2> HIDE DEF w
  <2>2. \A k \in S : k[1] = w
    OBVIOUS
  <2>3. <<w, "mixed">> \in S
    OBVIOUS
  <2> HIDE DEF S
  <2>4. \A k \in S : Tallied(k, after) = Tallied(k, before)
    BY <2>1, <2>2, UnmovedKey
  <2> HIDE DEF after
  <2>5. \A k : (k \in DOMAIN before <=> Tallied(k, before) # 0) /\ (k \in DOMAIN after <=> Tallied(k, after) # 0)
    BY TallyIs DEF after
  <2>6. S \cap DOMAIN before = S \cap DOMAIN after
    BY <2>4, <2>5
  <2>7. \A k \in S \cap DOMAIN before : before[k] = after[k]
    BY <2>4, <2>6 DEF Tallied
  <2>8. [k \in S \cap DOMAIN before |-> before[k]] = [k \in S \cap DOMAIN after |-> after[k]]
    BY <2>6, <2>7
  <2>9. Total(before, w) = Total(after, w)
    BY <2>8 DEF Total, CopiesOf, S
  <2>10. JudgeWord(before, w) = JudgeWord(after, w)
    BY <2>3, <2>4, <2>9 DEF JudgeWord
  <2>11. QED
    BY <2>10 DEF w
<1> HIDE DEF after
<1>3. [i \in DOMAIN sites |-> JudgeWord(before, sites[i][1])]
        = [i \in DOMAIN sites |-> JudgeWord(after, sites[i][1])]
  BY <1>2
<1>4. ShapeFindings(before, chapter) = ShapeFindings(after, chapter)
  BY <1>3 DEF ShapeFindings, sites
<1>5. QED
  BY <1>4 DEF after

(* The edit left book b, its text and its ratios, as they were.             *)
LengthsAlike(a, v, P, Q, m, b, book) ==
    /\ b \in 1 .. m /\ a[b] = v[b] /\ (b \in P <=> b \in Q) /\ (b \notin Q => book = << >>)

(* The lengths of a book whose samples did not move are found as before.   *)
LEMMA LengthsNamed ==
    ASSUME NEW m, NEW a, NEW v, NEW P, NEW Q, NEW i, NEW old, NEW new, NEW b, NEW book,
           LengthsAlike(a, v, P, Q, m, b, book),
           b \notin LengthDelta(LengthsOf(a, P), LengthsOf(v, Q), i, old, new)
    PROVE  LengthFindings(LengthsOf(a, P), b, book) = LengthFindings(LengthsOf(v, Q), b, book)
<1> DEFINE s == LengthsOf(a, P)
           t == LengthsOf(v, Q)
<1>1. /\ DOMAIN s.book = P /\ DOMAIN t.book = Q
      /\ b \in P => s.book[b] = SpreadOf(a[b].ratios)
      /\ b \in Q => t.book[b] = SpreadOf(v[b].ratios)
      /\ b \in 1 .. m /\ a[b] = v[b] /\ (b \in P <=> b \in Q) /\ (b \notin Q => book = << >>)
  BY DEF LengthsOf, LengthsAlike
<1> HIDE DEF s, t
<1>2. CASE t.project = s.project
  <2>1. JudgeLengths(s, b) = JudgeLengths(t, b)
    BY <1>1, <1>2 DEF JudgeLengths
  <2>2. QED
    BY <2>1 DEF LengthFindings, s, t
<1>3. CASE t.project # s.project
  <2>1. b \notin Q
    BY <1>1, <1>3 DEF LengthDelta, s, t
  <2>2. MapRatios(b, << >>) = << >>
    <3>1. [c \in DOMAIN << >> |-> RatiosIn(c, << >>[c], ViewOf(b, c))] = << >>
      OBVIOUS
    <3>2. QED
      BY <3>1, SumsOfNothing DEF MapRatios
  <2>3. \A x, y : Outliers(<< >>, x) = Outliers(<< >>, y)
    <3>1. \A x : [k \in DOMAIN << >> |-> [at |-> << >>[k].at, scopes |-> ScopesOf(<< >>[k].ratio, x)]] = << >>
      OBVIOUS
    <3>2. QED
      BY <3>1 DEF Outliers
  <2>4. book = << >>
    BY <1>1, <2>1
  <2>5. LengthFindings(s, b, book) = LengthFindings(t, b, book)
    BY <2>2, <2>3, <2>4 DEF LengthFindings
  <2>6. QED
    BY <2>5 DEF s, t
<1>4. QED
  BY <1>2, <1>3

(* The keys a replacement names, rule by rule.                             *)
LEMMA NamedKeysAre ==
    ASSUME NEW b, NEW next, NEW old, NEW new
    PROVE  /\ NamedKeys("brackets", b, next, old, new) = BracketDelta(old, new)
           /\ NamedKeys("scripts", b, next, old, new) = ScriptDelta(stats, next, old, new)
           /\ NamedKeys("forms", b, next, old, new) = FormDelta(old, new)
           /\ NamedKeys("nonletters", b, next, old, new) = NonletterDelta(next, old, new)
           /\ NamedKeys("shapes", b, next, old, new) = ShapeDelta(old, new)
           /\ NamedKeys("lengths", b, next, old, new) = LengthDelta(stats, next, b, old, new)
BY DEF NamedKeys, Stateless

(* What a build from nothing sums is typed.                                *)
LEMMA FreshTyped ==
    ASSUME NEW r \in Rules, NEW c \in Corpora(r)
    PROVE  LET s == FreshOf(r, AddendsOf(r, c), PresentIn(c)) IN
           /\ r = "brackets" => AreBracketTallies(s)
           /\ r \in {"forms", "nonletters", "shapes"} => IsTally(s)
<1> DEFINE m == BookCount(r)
           a == AddendsOf(r, c)
           s == FreshOf(r, AddendsOf(r, c), PresentIn(c))
<1>1. ASSUME r = "brackets"
      PROVE  AreBracketTallies(s)
  <2>1. AreBracketsAddends(a, m)
    BY <1>1, AddendsTyped
  <2>2. s = BracketsOf(a)
    BY <1>1, FreshIs
  <2> DEFINE A == [b \in DOMAIN a |-> a[b].events]
             B == [b \in DOMAIN a |-> a[b].matched]
             C == [b \in DOMAIN a |-> a[b].distances]
  <2> HIDE DEF a, m
  <2>3. AreTallies(A, m) /\ AreTallies(B, m) /\ AreTallies(C, m)
    BY <2>1 DEF AreBracketsAddends, AreBracketTallies, AreTallies
  <2>4. s = [events |-> SumOf(A), matched |-> SumOf(B), distances |-> SumOf(C)]
    BY <2>2 DEF BracketsOf
  <2> HIDE DEF A, B, C
  <2>5. IsTally(SumOf(A)) /\ IsTally(SumOf(B)) /\ IsTally(SumOf(C))
    BY <2>3, SumOfTallies
  <2>6. QED
    BY <2>4, <2>5 DEF AreBracketTallies
<1>2. ASSUME r \in {"forms", "nonletters", "shapes"}
      PROVE  IsTally(s)
  <2>1. AreTallies(a, m)
    BY <1>2, AddendsTyped
  <2>2. s = SumOf(a)
    BY <1>2, FreshIs
  <2> HIDE DEF a, m, s
  <2>3. QED
    BY <2>1, <2>2, SumOfTallies
<1>3. QED
  BY <1>1, <1>2

(* The body of DeltaNamesWhatMoved.                                        *)
NamesWhatMoved ==
    /\ rule = "scripts" =>
        \A sig \in DOMAIN stats'.signatures :
            ScriptEvidence(stats, sig) # ScriptEvidence(stats', sig) => sig \in delta'
    /\ rule = "brackets" =>
        \A f \in Range(FamilyOf) :
            BracketEvidence(stats, f) # BracketEvidence(stats', f) => f \in delta'
    /\ rule = "forms" =>
        (JudgeForms(stats) # JudgeForms(stats') => delta' # {})
    /\ rule = "nonletters" =>
        \A g \in Identities(stats') :
            IdentityEvidence(stats, g) # IdentityEvidence(stats', g) => g \in delta'
    /\ rule = "shapes" =>
        \A at \in Untouched : LET chapter == corpus[at[1]][at[2]] IN
            ShapeFindings(stats, chapter) # ShapeFindings(stats', chapter) =>
                OwedBy(chapter, delta')
    /\ rule = "lengths" =>
        \A b \in DOMAIN corpus : corpus'[b] = corpus[b] =>
            (LengthFindings(stats, b, corpus[b]) # LengthFindings(stats', b, corpus[b]) =>
                b \in delta')

(* A finding whose evidence a step changes is of a key the step names.     *)
LEMMA StepNames ==
    ASSUME CorpusTyped, IsFresh, Next
    PROVE  NamesWhatMoved
<1>1. PICK i \in 1 .. BookCount(rule) :
         /\ \A b \in 1 .. BookCount(rule) : b # i => corpus[b] = corpus'[b]
         /\ stats' = NextStats(rule, i, corpus'[i] # NoBook,
                               Contribution(rule, i, corpus[i]), Contribution(rule, i, corpus'[i]))
         /\ delta' = NamedKeys(rule, i, stats', Contribution(rule, i, corpus[i]),
                               Contribution(rule, i, corpus'[i]))
  BY StepReplaces
<1>2. rule \in Rules /\ corpus \in Corpora(rule) /\ corpus' \in Corpora(rule) /\ DOMAIN corpus = 1 .. BookCount(rule)
  BY StepReplaces DEF CorpusTyped, Corpora
<1> DEFINE m == BookCount(rule)
           c == corpus
           d == corpus'
           a == AddendsOf(rule, corpus)
           v == AddendsOf(rule, corpus')
           P == PresentIn(corpus)
           Q == PresentIn(corpus')
           old == Contribution(rule, i, corpus[i])
           new == Contribution(rule, i, corpus'[i])
<1>3. stats = FreshOf(rule, a, P)
  BY DEF IsFresh
<1>4. stats' = FreshOf(rule, v, Q)
  BY <1>1, <1>2, <1>3, FreshReplaced
<1>5. stats' = NextStats(rule, i, d[i] # NoBook, old, new) /\ delta' = NamedKeys(rule, i, stats', old, new)
  BY <1>1
<1>6. /\ rule = "brackets" => AreBracketTallies(stats) /\ AreBracketTallies(stats')
      /\ rule \in {"forms", "nonletters", "shapes"} => IsTally(stats) /\ IsTally(stats')
  BY <1>2, <1>3, <1>4, FreshTyped
<1>7. old = a[i] /\ new = v[i] /\ DOMAIN a = 1 .. m
  BY <1>2 DEF AddendsOf, Corpora
<1> HIDE DEF old, new
<1>8. ASSUME rule = "scripts", NEW sig \in DOMAIN stats'.signatures,
             ScriptEvidence(stats, sig) # ScriptEvidence(stats', sig)
      PROVE  sig \in delta'
  <2>1. stats' = ReplaceScripts(stats, i, d[i] # NoBook, old, new) /\ delta' = ScriptDelta(stats, stats', old, new)
    BY <1>5, <1>8, NextStatsAre, NamedKeysAre
  <2>2. IsScriptAddend(old) /\ IsScriptAddend(new)
    <3>1. AreScriptAddends(a, m) /\ AreScriptAddends(v, m)
      BY <1>2, <1>8, AddendsTyped
    <3> HIDE DEF a, v, m
    <3>2. QED
      BY <1>1, <1>7, <3>1 DEF AreScriptAddends, m
  <2>3. QED
    BY <1>8, <2>1, <2>2, ScriptsNamed
<1>9. ASSUME rule = "brackets", NEW f,
             BracketEvidence(stats, f) # BracketEvidence(stats', f)
      PROVE  f \in delta'
  <2>1. stats' = ReplaceBrackets(stats, old, new) /\ delta' = BracketDelta(old, new)
    BY <1>5, <1>9, NextStatsAre, NamedKeysAre
  <2>2. QED
    BY <1>6, <1>9, <2>1, BracketsNamed
<1>10. ASSUME rule \in {"forms", "nonletters", "shapes"}
       PROVE  stats' = Replaced(stats, old, new) /\ (Moved(old, new) = {} => stats' = stats)
  <2>1. stats' = Replaced(stats, old, new)
    BY <1>5, <1>10, NextStatsAre DEF ReplaceForms
  <2>2. QED
    BY <1>6, <1>10, <2>1, UnmovedTally
<1>11. ASSUME rule = "forms", JudgeForms(stats) # JudgeForms(stats')
       PROVE  delta' # {}
  <2>1. delta' = FormDelta(old, new)
    BY <1>5, <1>11, NamedKeysAre
  <2>2. Moved(old, new) # {}
    BY <1>10, <1>11
  <2>3. QED
    BY <2>1, <2>2 DEF FormDelta
<1>12. ASSUME rule = "nonletters", NEW g \in Identities(stats'),
              IdentityEvidence(stats, g) # IdentityEvidence(stats', g)
       PROVE  g \in delta'
  <2>1. delta' = NonletterDelta(stats', old, new)
    BY <1>5, <1>12, NamedKeysAre
  <2>2. Moved(old, new) # {}
    BY <1>10, <1>12
  <2>3. QED
    BY <1>12, <2>1, <2>2 DEF NonletterDelta
<1>13. ASSUME rule = "shapes", NEW chapter, ShapeFindings(stats, chapter) # ShapeFindings(stats', chapter)
       PROVE  OwedBy(chapter, delta')
  <2>1. delta' = ShapeDelta(old, new)
    BY <1>5, <1>13, NamedKeysAre
  <2>2. QED
    BY <1>6, <1>10, <1>13, <2>1, ShapesNamed
<1>14. ASSUME rule = "lengths", NEW b \in DOMAIN corpus, corpus'[b] = corpus[b],
              LengthFindings(stats, b, corpus[b]) # LengthFindings(stats', b, corpus[b])
       PROVE  b \in delta'
  <2>1. delta' = LengthDelta(stats, stats', i, old, new)
    BY <1>5, <1>14, NamedKeysAre
  <2>2. stats = LengthsOf(a, P) /\ stats' = LengthsOf(v, Q)
    BY <1>3, <1>4, <1>14, FreshIs
  <2>3. /\ b \in 1 .. m /\ a[b] = v[b] /\ (b \in P <=> b \in Q) /\ (b \notin Q => corpus[b] = << >>)
        /\ P \subseteq 1 .. m /\ Q \subseteq 1 .. m
    BY <1>2, <1>14 DEF AddendsOf, PresentIn, Corpora, NoBook
  <2> HIDE DEF a, v, P, Q, m
  <2> DEFINE book == corpus[b]
  <2> HIDE DEF book
  <2>4. SUFFICES ASSUME b \notin LengthDelta(LengthsOf(a, P), LengthsOf(v, Q), i, old, new)
                 PROVE  LengthFindings(LengthsOf(a, P), b, book) = LengthFindings(LengthsOf(v, Q), b, book)
    BY <1>14, <2>1, <2>2 DEF book
  <2>5. LengthsAlike(a, v, P, Q, m, b, book)
    BY <2>3 DEF book, LengthsAlike
  <2>6. QED
    BY <2>4, <2>5, LengthsNamed
<1>15. QED
  BY <1>8, <1>9, <1>11, <1>12, <1>13, <1>14 DEF NamesWhatMoved

(***************************************************************************)
(* Under each of the six rules with an exact delta (brackets, normal forms,*)
(* script mixing, nonletter usage, mixed case, proportionality) a          *)
(* replacement names every key whose evidence moved: what it leaves unnamed*)
(* reads from the statistics what it read before                           *)
(* (replace_book_in_corpus_stats).                                         *)
(***************************************************************************)
THEOREM DeltaNames == Spec => DeltaNamesWhatMoved
<1>1. CorpusTyped /\ IsFresh /\ [Next]_vars => [NamesWhatMoved]_vars
  BY StepNames DEF vars
<1>2. Spec => [][NamesWhatMoved]_vars
  BY <1>1, FreshInduction, PTL DEF Spec
<1>3. QED
  BY <1>2, PTL DEF NamesWhatMoved, DeltaNamesWhatMoved



(***************************************************************************)
(* The census's matcher.                                                   *)
(***************************************************************************)
(* A delimiter keeps a pairing of events a pairing.                        *)
LEMMA DelimiterKeeps ==
    ASSUME NEW m \in Nat, NEW events, NEW r \in Pairing(m), NEW n \in 1 .. m
    PROVE  WithDelimiter(events, r, n) \in Pairing(m)
<1>1. r.stack \in Seq(1 .. m) /\ r.pairs \in SUBSET ((1 .. m) \X (1 .. m)) /\ r = [stack |-> r.stack, pairs |-> r.pairs]
  BY DEF Pairing
<1>2. CASE events[n].open
  <2>1. WithDelimiter(events, r, n) = [r EXCEPT !.stack = Append(@, n)]
    BY <1>2 DEF WithDelimiter
  <2>2. Append(r.stack, n) \in Seq(1 .. m)
    BY <1>1
  <2>3. QED
    BY <1>1, <2>1, <2>2 DEF Pairing
<1>3. CASE ~ events[n].open /\ r.stack # << >> /\ events[Last(r.stack)].family = events[n].family
  <2>1. WithDelimiter(events, r, n)
          = [stack |-> Front(r.stack), pairs |-> r.pairs \cup {<<Last(r.stack), n>>}]
    BY <1>3 DEF WithDelimiter
  <2>2. Front(r.stack) \in Seq(1 .. m) /\ Last(r.stack) \in 1 .. m
    BY <1>1, <1>3, FrontIs
  <2>3. QED
    BY <1>1, <2>1, <2>2 DEF Pairing
<1>4. CASE ~ events[n].open /\ ~ (r.stack # << >> /\ events[Last(r.stack)].family = events[n].family)
  <2>1. WithDelimiter(events, r, n) = r
    BY <1>4 DEF WithDelimiter
  <2>2. QED
    BY <2>1
<1>5. QED
  BY <1>2, <1>3, <1>4

LEMMA DelimiterOnce ==
    ASSUME NEW events, NEW x, NEW n
    PROVE  Only({ WithDelimiter(events, r, n) : r \in {x} })
             = WithDelimiter(events, x, n)
<1> DEFINE made == { WithDelimiter(events, r, n) : r \in {x} }
           one == WithDelimiter(events, x, n)
<1>1. made = {one}
  OBVIOUS
<1> HIDE DEF made, one
<1>2. Only(made) = one
  BY <1>1, OnlyIs
<1>3. QED
  BY <1>2 DEF made, one

IsCensus(walk, events) ==
    /\ walk \in [0 .. Len(events) -> Pairing(Len(events))]
    /\ walk[0] = [stack |-> << >>, pairs |-> {}]
    /\ \A n \in 1 .. Len(events) : walk[n] = WithDelimiter(events, walk[n - 1], n)
    /\ CensusMatch(events) = walk[Len(events)].pairs

(* A census takes the events of a book one at a time.                      *)
LEMMA CensusSteps ==
    ASSUME NEW T0, NEW events \in Seq(T0)
    PROVE  \E walk : IsCensus(walk, events)
<1> DEFINE T == Pairing(Len(events))
           a == [stack |-> << >>, pairs |-> {}]
           m == Len(events)
           F(x, n) == WithDelimiter(events, x, n)
           Once(f, n) == Only({ WithDelimiter(events, r, n) : r \in {f[n - 1]} })
           Body(f) == [n \in 0 .. m |-> IF n = 0 THEN a ELSE Once(f, n)]
           chosen == CHOOSE f : f = Body(f)
           step == [e \in T \X (1 .. m) |-> F(e[1], e[2])]
<1>1. m \in Nat
  OBVIOUS
<1>2. a \in T
  BY DEF Pairing
<1>3. ASSUME NEW x \in T, NEW n \in 1 .. m
      PROVE  F(x, n) \in T
  BY <1>1, DelimiterKeeps
<1>4. \A f, n : Once(f, n) = F(f[n - 1], n)
  BY DelimiterOnce
<1>5. CensusMatch(events) = chosen[m].pairs
  BY DEF CensusMatch
<1> HIDE DEF T, a, m, F, Once
<1>6. step \in [T \X (1 .. m) -> T] /\ \A x \in T : \A n \in 1 .. m : step[x, n] = F(x, n)
  BY <1>3
<1> HIDE DEF step
<1>7. PICK g : IsRun(g, T, a, m, step)
  BY <1>1, <1>2, <1>6, Recursion
<1>8. g \in [0 .. m -> T] /\ g[0] = a /\ \A n \in 1 .. m : g[n] = F(g[n - 1], n)
  <2>1. \A n \in 1 .. m : n - 1 \in 0 .. m
    BY <1>1
  <2>2. QED
    BY <1>6, <1>7, <2>1 DEF IsRun
<1>9. g = Body(g)
  <2>1. \A n \in 0 .. m : n = 0 \/ n \in 1 .. m
    BY <1>1
  <2>2. QED
    BY <1>4, <1>8, <2>1
<1>10. chosen = Body(chosen)
  <2> HIDE DEF Body
  <2>1. QED
    BY <1>9
<1> HIDE DEF chosen
<1>11. /\ chosen = [n \in 0 .. m |-> chosen[n]] /\ chosen[0] = a
       /\ \A n \in 1 .. m : chosen[n] = F(chosen[n - 1], n)
  <2>1. 0 \in 0 .. m /\ \A n \in 1 .. m : n \in 0 .. m /\ n # 0
    BY <1>1
  <2>2. QED
    BY <1>4, <1>10, <2>1
<1>12. IsRun(chosen, T, a, m, step)
  <2>1. IsChosen(chosen, T, a, m, step)
    BY <1>6, <1>11 DEF IsChosen
  <2>2. QED
    BY <1>1, <1>2, <1>6, <2>1, ChosenRun
<1>13. QED
  BY <1>5, <1>11, <1>12 DEF IsCensus, IsRun, T, a, m, F

(* A delimiter keeps the pairs nested: none crosses another, and what is   *)
(* open was opened after every pair around it.                             *)
LEMMA DelimiterNests ==
    ASSUME NEW m \in Nat, NEW events, NEW r \in Pairing(m), NEW n \in 1 .. m, WellPaired(r, n - 1)
    PROVE  WellPaired(WithDelimiter(events, r, n), n)
<1> DEFINE s == r.stack
           P == r.pairs
           d == Len(s)
<1>1. s \in Seq(1 .. m) /\ P \in SUBSET ((1 .. m) \X (1 .. m)) /\ r = [stack |-> s, pairs |-> P]
  BY DEF Pairing
<1>2. /\ \A k \in 1 .. d : s[k] <= n - 1
      /\ \A p \in P : p[2] <= n - 1
      /\ Ascends(s) /\ LiesClear(s, P) /\ Nested(P)
      /\ \A k, l \in 1 .. d : k < l => s[k] < s[l]
      /\ \A p \in P : \A k \in 1 .. d : s[k] < p[1] \/ p[2] < s[k]
  BY DEF WellPaired, Ascends, LiesClear
<1>3. /\ n \in Nat /\ d \in Nat /\ \A k \in 1 .. d : s[k] \in Nat
      /\ \A p \in P : p[1] \in Nat /\ p[2] \in Nat /\ p = <<p[1], p[2]>>
  <2>1. \A k \in 1 .. d : s[k] \in 1 .. m
    BY <1>1
  <2>2. QED
    BY <1>1, <2>1
<1>4. CASE events[n].open
  <2> DEFINE t == Append(s, n)
  <2>1. WithDelimiter(events, r, n) = [stack |-> t, pairs |-> P]
    BY <1>1, <1>4 DEF WithDelimiter
  <2>2. Len(t) = d + 1 /\ t[d + 1] = n /\ \A k \in 1 .. d : t[k] = s[k]
    BY <1>1
  <2> HIDE DEF t, s, P, d
  <2>3. \A k \in 1 .. d + 1 : k = d + 1 \/ k \in 1 .. d
    BY <1>3
  <2>4. \A k \in 1 .. d + 1 : t[k] \in Nat /\ t[k] <= n
    BY <1>2, <1>3, <2>2, <2>3
  <2>5. Ascends(t)
    BY <1>2, <1>3, <2>2, <2>3 DEF Ascends
  <2>6. LiesClear(t, P)
    <3>1. ASSUME NEW p \in P, NEW k \in 1 .. d
          PROVE  t[k] < p[1] \/ p[2] < t[k]
      BY <1>2, <2>2
    <3>2. \A p \in P : p[2] < n
      BY <1>2, <1>3
    <3>3. \A p \in P : \A k \in 1 .. d + 1 : t[k] < p[1] \/ p[2] < t[k]
      BY <2>2, <2>3, <3>1, <3>2
    <3>4. QED
      BY <2>2, <3>3 DEF LiesClear
  <2>7. \A p \in P : p[2] <= n
    BY <1>2, <1>3
  <2>8. QED
    BY <1>2, <2>1, <2>2, <2>4, <2>5, <2>6, <2>7 DEF WellPaired
<1>5. CASE ~ events[n].open /\ s # << >> /\ events[Last(s)].family = events[n].family
  <2> DEFINE t == Front(s)
             e == Last(s)
             Q == P \cup {<<e, n>>}
  <2>1. WithDelimiter(events, r, n) = [stack |-> t, pairs |-> Q]
    BY <1>1, <1>5 DEF WithDelimiter
  <2>2. Len(t) = d - 1 /\ e = s[d] /\ d \in Nat \ {0} /\ \A k \in 1 .. d - 1 : t[k] = s[k]
    BY <1>1, <1>5, FrontIs
  <2> HIDE DEF t, s, P, d, e
  <2>3. e \in Nat /\ e <= n - 1 /\ d \in 1 .. d /\ \A k \in 1 .. d - 1 : k \in 1 .. d /\ k < d
    BY <1>2, <1>3, <2>2
  <2>4. \A k \in 1 .. d - 1 : t[k] \in Nat /\ t[k] < e /\ t[k] <= n
    BY <1>2, <1>3, <2>2, <2>3 DEF Ascends
  <2>5. Ascends(t)
    BY <1>2, <2>2, <2>3 DEF Ascends
  <2>6. \A p \in Q : p \in P \/ (p[1] = e /\ p[2] = n)
    OBVIOUS
  <2>7. LiesClear(t, Q)
    BY <1>2, <1>3, <2>2, <2>3, <2>4, <2>6 DEF LiesClear
  <2>8. \A p \in Q : p[2] <= n /\ p[1] < p[2]
    BY <1>2, <1>3, <2>3, <2>6 DEF Nested
  <2>9. \A p \in P : e < p[1] \/ p[2] < e
    BY <1>2, <2>2, <2>3 DEF LiesClear
  <2>10. ASSUME NEW p \in Q, NEW q \in Q, p[1] < q[1]
         PROVE  p[2] < q[1] \/ q[2] < p[2]
    <3>1. CASE p \in P /\ q \in P
      BY <1>2, <2>10, <3>1 DEF Nested
    <3>2. CASE p \in P /\ q[1] = e /\ q[2] = n
      BY <1>3, <2>3, <2>9, <2>10, <3>2
    <3>3. CASE p[1] = e /\ p[2] = n /\ q \in P
      <4>1. q[2] <= n - 1
        BY <1>2, <3>3
      <4>2. QED
        BY <1>3, <3>3, <4>1
    <3>4. CASE p[1] = e /\ q[1] = e
      BY <2>3, <2>10, <3>4
    <3>5. QED
      BY <2>6, <3>1, <3>2, <3>3, <3>4
  <2>11. Nested(Q)
    <3> HIDE DEF Q
    <3>1. QED
      BY <2>8, <2>10 DEF Nested
  <2> HIDE DEF Q
  <2>12. QED
    BY <2>1, <2>2, <2>4, <2>5, <2>7, <2>8, <2>11 DEF WellPaired
<1>6. CASE ~ events[n].open /\ ~ (s # << >> /\ events[Last(s)].family = events[n].family)
  <2>1. WithDelimiter(events, r, n) = r
    BY <1>6 DEF WithDelimiter
  <2> HIDE DEF s, P, d
  <2>2. (\A k \in 1 .. d : s[k] <= n) /\ \A p \in P : p[2] <= n
    BY <1>2, <1>3
  <2>3. QED
    BY <1>2, <2>1, <2>2 DEF WellPaired, s, P, d
<1>7. QED
  BY <1>4, <1>5, <1>6

(* The pairs of a census are nested at every event.                        *)
LEMMA CensusNests ==
    ASSUME NEW T0, NEW events \in Seq(T0), NEW walk, IsCensus(walk, events)
    PROVE  \A n \in 0 .. Len(events) : walk[n] \in Pairing(Len(events)) /\ WellPaired(walk[n], n)
<1> DEFINE m == Len(events)
           S == { n \in 0 .. m : WellPaired(walk[n], n) }
<1>1. m \in Nat
  OBVIOUS
<1>2. /\ walk \in [0 .. m -> Pairing(m)] /\ walk[0] = [stack |-> << >>, pairs |-> {}]
      /\ \A n \in 1 .. m : walk[n] = WithDelimiter(events, walk[n - 1], n)
  BY DEF IsCensus
<1> HIDE DEF m
<1>3. 0 \in S
  <2>1. WellPaired(walk[0], 0)
    BY <1>2 DEF WellPaired, Ascends, LiesClear, Nested
  <2>2. QED
    BY <1>1, <2>1
<1>4. ASSUME NEW j \in 0 .. m - 1, j \in S
      PROVE  j + 1 \in S
  <2> DEFINE n == j + 1
  <2>1. n \in 1 .. m /\ n - 1 = j /\ n \in 0 .. m /\ j \in 0 .. m
    BY <1>1
  <2>2. WellPaired(walk[j], j)
    BY <1>4
  <2> HIDE DEF n, S
  <2>3. WellPaired(walk[n], n)
    BY <1>1, <1>2, <2>1, <2>2, DelimiterNests
  <2>4. QED
    BY <2>1, <2>3 DEF n, S
<1> HIDE DEF S
<1>5. 0 .. m \subseteq S
  BY <1>1, <1>3, <1>4, UpTo
<1>6. QED
  BY <1>2, <1>5 DEF S, m

(***************************************************************************)
(* A chapter's reduction follows the census's matcher.                     *)
(***************************************************************************)
Address(base) == [p \in Openers |-> base[p.chapter - 1] + p.idx]

(* What is left open is of the chapters so far, and of the family it says. *)
Standing(leaving, base, events, c) ==
    \A p \in Range(leaving) :
        p.chapter \in 1 .. c /\ p.family = events[Address(base)[p]].family

ResolvedBy(resolutions, base, b) ==
    { <<Address(base)[r.open], b + r.close>> : r \in Range(resolutions) }

Known(resolutions, c) == \A r \in Range(resolutions) : r.open.chapter \in 1 .. c

(* A chapter among a book's events.                                        *)
IsChapterOf(obs, base, b, events) ==
    /\ obs \in BracketObservations /\ obs.token \in Nat \ {0}
    /\ b \in Nat /\ base[obs.token - 1] = b
    /\ b + Len(obs.events) <= Len(events)
    /\ \A j \in 1 .. Len(obs.events) : /\ events[b + j].family = obs.events[j].family
                                       /\ events[b + j].open = obs.events[j].open

Follows(r, w, j, obs, base, b, events, P, O) ==
    /\ r.token = obs.token
    /\ w.stack = Mapping(Address(base), r.leaving)
    /\ w.pairs = P \cup ResolvedBy(r.resolutions, base, b)
    /\ Standing(r.leaving, base, events, obs.token)
    /\ Known(r.resolutions, obs.token)
    /\ (1 .. b + j) \ PairedOrOpen(w) = O \cup Shifted(b, r.orphans)

(* Reducing an event of a chapter is what the census does at the event of  *)
(* the book: the openers handed on are its stack.                          *)
LEMMA EventFollows ==
    ASSUME NEW obs, NEW base, NEW b, NEW events, IsChapterOf(obs, base, b, events),
           NEW P, NEW O, NEW m \in Nat, Len(events) = m,
           NEW n \in 1 .. Len(obs.events),
           NEW r \in ReducedBracketChapters, r.events = obs.events,
           NEW w \in Pairing(m), WellPaired(w, b + (n - 1)),
           Follows(r, w, n - 1, obs, base, b, events, P, O)
    PROVE  Follows(WithEvent(r, n), WithDelimiter(events, w, b + n), n, obs, base, b, events, P, O)
<1> DEFINE e == obs.events[n]
           g == b + n
           c == obs.token
           addr == Address(base)
           s == r.leaving
           t == w.stack
           opener == [chapter |-> c, idx |-> n, family |-> e.family]
<1>1. /\ b \in Nat /\ base[c - 1] = b /\ b + Len(obs.events) <= m /\ Len(obs.events) \in Nat
      /\ events[g].family = e.family /\ events[g].open = e.open /\ c \in Nat \ {0}
      /\ obs.events \in Seq(BracketEvents)
  <2>1. obs.events \in Seq(BracketEvents) /\ Len(obs.events) \in Nat
    BY DEF IsChapterOf, BracketObservations
  <2>2. b \in Nat /\ base[c - 1] = b /\ b + Len(obs.events) <= m /\ c \in Nat \ {0}
    BY DEF IsChapterOf
  <2>3. events[g].family = e.family /\ events[g].open = e.open
    BY DEF IsChapterOf
  <2>4. QED
    BY <2>1, <2>2, <2>3
<1>2. /\ n \in Nat \ {0} /\ g \in 1 .. m /\ b + (n - 1) \in 0 .. m /\ b + (n - 1) = g - 1
      /\ 1 .. g = (1 .. g - 1) \cup {g} /\ g \notin 1 .. g - 1
  <2>1. n \in Nat \ {0} /\ n <= Len(obs.events)
    BY <1>1
  <2>2. g \in Nat \ {0} /\ g <= m /\ b + (n - 1) = g - 1
    BY <1>1, <2>1
  <2> HIDE DEF g
  <2>3. QED
    BY <2>1, <2>2
<1>3. e \in BracketEvents
  BY <1>1
<1>4. /\ r.token = c /\ t = Mapping(addr, s) /\ w.pairs = P \cup ResolvedBy(r.resolutions, base, b)
      /\ Standing(s, base, events, c) /\ Known(r.resolutions, c)
      /\ (1 .. g - 1) \ PairedOrOpen(w) = O \cup Shifted(b, r.orphans)
  BY <1>2 DEF Follows
<1>5. PairedOrOpen(w) \subseteq 1 .. g - 1
  BY <1>2, TakenBefore
<1>6. /\ s \in Seq(Openers) /\ r.resolutions \in Seq([open : Openers, close : Nat]) /\ r.orphans \in SUBSET Nat
      /\ t \in Seq(1 .. m) /\ w.pairs \in SUBSET ((1 .. m) \X (1 .. m))
      /\ w = [stack |-> t, pairs |-> w.pairs]
      /\ r = [token |-> r.token, verses |-> r.verses, events |-> r.events, resolutions |-> r.resolutions,
              orphans |-> r.orphans, leaving |-> r.leaving]
  BY DEF ReducedBracketChapters, Pairing
<1>7. opener \in Openers /\ addr[opener] = g
  <2>1. opener \in Openers
    BY <1>1, <1>2, <1>3 DEF Openers, BracketEvents
  <2>2. opener.chapter = c /\ opener.idx = n
    OBVIOUS
  <2> HIDE DEF opener
  <2>3. QED
    BY <1>1, <2>1, <2>2 DEF Address
<1>8. /\ t = << >> <=> s = << >>
      /\ s # << >> => Mapping(addr, Front(s)) = Front(t) /\ Last(t) = addr[Last(s)]
  BY <1>4, <1>6, MappingOfFront
<1> HIDE DEF e, g, c, addr, s, t
<1>9. CASE e.open
  <2> DEFINE x == WithEvent(r, n)
             y == WithDelimiter(events, w, g)
  <2>1. x = [r EXCEPT !.leaving = Append(@, opener)]
    BY <1>4, <1>9 DEF WithEvent, e
  <2> HIDE DEF opener
  <2>2. /\ x.token = c /\ x.leaving = Append(s, opener) /\ x.resolutions = r.resolutions /\ x.orphans = r.orphans
    BY <1>4, <1>6, <2>1 DEF s
  <2>3. y = [stack |-> Append(t, g), pairs |-> w.pairs]
    BY <1>1, <1>6, <1>9 DEF WithDelimiter, t
  <2>4. y.stack = Append(t, g) /\ y.pairs = w.pairs
    BY <2>3
  <2> HIDE DEF x, y
  <2>5. y.stack = Mapping(addr, x.leaving)
    BY <1>4, <1>6, <1>7, <2>2, <2>4, MappingAppend
  <2>6. Standing(x.leaving, base, events, c)
    <3>1. Range(x.leaving) = Range(s) \cup {opener}
      BY <1>6, <1>7, <2>2, RangeOfAppend
    <3>2. opener.chapter \in 1 .. c /\ opener.family = events[addr[opener]].family
      <4>1. opener.chapter = c /\ opener.family = e.family
        BY DEF opener
      <4>2. QED
        BY <1>1, <1>7, <4>1
    <3>3. QED
      BY <1>4, <3>1, <3>2 DEF Standing, addr
  <2>7. (1 .. g) \ PairedOrOpen(y) = O \cup Shifted(b, x.orphans)
    <3>1. Range(y.stack) = Range(t) \cup {g}
      <4> DEFINE U == 1 .. m
      <4>1. t \in Seq(U) /\ g \in U
        BY <1>2, <1>6
      <4> HIDE DEF U
      <4>2. QED
        BY <2>4, <4>1, RangeOfAppend
    <3>2. PairedOrOpen(y) = PairedOrOpen(w) \cup {g}
      BY <2>4, <3>1 DEF PairedOrOpen, t
    <3>3. QED
      BY <1>2, <1>4, <2>2, <3>2
  <2>8. QED
    BY <1>4, <2>2, <2>4, <2>5, <2>6, <2>7 DEF Follows, x, y, g, c, addr
<1>10. ASSUME s # << >>
       PROVE  /\ Last(s) \in Openers /\ Last(s) \in Range(s) /\ Range(s) = Range(Front(s)) \cup {Last(s)}
              /\ Last(s).chapter \in 1 .. c
              /\ Last(t) = addr[Last(s)] /\ Last(s).family = events[Last(t)].family
              /\ Last(t) \in 1 .. m /\ Range(t) = Range(Front(t)) \cup {Last(t)}
  <2>1. Last(s) \in Openers /\ Range(s) = Range(Front(s)) \cup {Last(s)}
    BY <1>6, <1>10, FrontIs, RangeOfFront
  <2>2. Last(s) \in Range(s)
    BY <2>1
  <2>3. Last(t) = addr[Last(s)] /\ t # << >>
    BY <1>8, <1>10
  <2>4. Last(s).chapter \in 1 .. c /\ Last(s).family = events[Last(t)].family
    BY <1>4, <2>2, <2>3 DEF Standing, addr
  <2>5. Last(t) \in 1 .. m /\ Range(t) = Range(Front(t)) \cup {Last(t)}
    BY <1>6, <2>3, FrontIs, RangeOfFront
  <2>6. QED
    BY <2>1, <2>2, <2>3, <2>4, <2>5
<1>11. Matches(s, e) <=> (t # << >> /\ events[Last(t)].family = events[g].family)
  BY <1>1, <1>8, <1>10 DEF Matches
<1>12. CASE ~ e.open /\ Matches(s, e)
  <2> DEFINE x == WithEvent(r, n)
             y == WithDelimiter(events, w, g)
             res == [open |-> Last(s), close |-> n]
  <2>1. s # << >> /\ t # << >> /\ events[Last(t)].family = events[g].family
    BY <1>11, <1>12 DEF Matches
  <2>2. x = [r EXCEPT !.leaving = Front(@), !.resolutions = Append(@, [open |-> Last(r.leaving), close |-> n])]
    BY <1>12 DEF WithEvent, e, s
  <2>3. res \in [open : Openers, close : Nat] /\ res.open = Last(s) /\ res.close = n
    BY <1>2, <1>10, <2>1
  <2>4. /\ x.token = c /\ x.leaving = Front(s) /\ x.orphans = r.orphans
        /\ x.resolutions = Append(r.resolutions, res)
    BY <1>4, <1>6, <2>2 DEF s
  <2>5. y = [stack |-> Front(t), pairs |-> w.pairs \cup {<<Last(t), g>>}]
    BY <1>1, <1>12, <2>1 DEF WithDelimiter, t
  <2>6. y.stack = Front(t) /\ y.pairs = w.pairs \cup {<<Last(t), g>>}
    BY <2>5
  <2> HIDE DEF x, y, res, opener
  <2>7. y.stack = Mapping(addr, x.leaving)
    BY <1>8, <2>1, <2>4, <2>6
  <2>8. Range(x.resolutions) = Range(r.resolutions) \cup {res}
    <3> DEFINE U == [open : Openers, close : Nat]
               q == r.resolutions
    <3>1. q \in Seq(U) /\ res \in U /\ x.resolutions = Append(q, res)
      BY <1>6, <2>3, <2>4
    <3> HIDE DEF U, q
    <3>2. Range(Append(q, res)) = Range(q) \cup {res}
      BY <3>1, RangeOfAppend
    <3>3. QED
      BY <3>1, <3>2 DEF q
  <2>9. y.pairs = P \cup ResolvedBy(x.resolutions, base, b)
    <3>1. ResolvedBy(x.resolutions, base, b)
            = ResolvedBy(r.resolutions, base, b) \cup {<<addr[res.open], b + res.close>>}
      BY <2>8 DEF ResolvedBy, addr
    <3>2. <<addr[res.open], b + res.close>> = <<Last(t), g>>
      BY <1>10, <2>1, <2>3 DEF g
    <3>3. QED
      BY <1>4, <2>6, <3>1, <3>2
  <2>10. Standing(x.leaving, base, events, c)
    BY <1>4, <1>10, <2>1, <2>4 DEF Standing
  <2>11. Known(x.resolutions, c)
    BY <1>4, <1>10, <2>1, <2>3, <2>8 DEF Known
  <2>12. (1 .. g) \ PairedOrOpen(y) = O \cup Shifted(b, x.orphans)
    <3>1. Matched(y.pairs) = Matched(w.pairs) \cup {Last(t), g}
      <4> DEFINE z == <<Last(t), g>>
                 q == w.pairs
      <4>1. z[1] = Last(t) /\ z[2] = g
        OBVIOUS
      <4> HIDE DEF z, q
      <4>2. Matched(q \cup {z}) = Matched(q) \cup {z[1], z[2]}
        BY MatchedWith
      <4>3. QED
        BY <2>6, <4>1, <4>2 DEF q, z
    <3>2. PairedOrOpen(y) = PairedOrOpen(w) \cup {g}
      BY <1>10, <2>1, <2>6, <3>1 DEF PairedOrOpen, t
    <3>3. QED
      BY <1>2, <1>4, <2>4, <3>2
  <2>13. QED
    BY <2>4, <2>7, <2>9, <2>10, <2>11, <2>12 DEF Follows, x, y, g, c, addr
<1>13. CASE ~ e.open /\ ~ Matches(s, e)
  <2> DEFINE x == WithEvent(r, n)
  <2>1. x = [r EXCEPT !.orphans = @ \cup {n}]
    BY <1>13 DEF WithEvent, e, s
  <2>2. x.token = c /\ x.leaving = s /\ x.resolutions = r.resolutions /\ x.orphans = r.orphans \cup {n}
    BY <1>4, <1>6, <2>1 DEF s
  <2>3. WithDelimiter(events, w, g) = w
    BY <1>1, <1>11, <1>13 DEF WithDelimiter, t
  <2>4. Shifted(b, r.orphans \cup {n}) = Shifted(b, r.orphans) \cup {g}
    BY DEF Shifted, g
  <2> HIDE DEF x, opener
  <2>5. (1 .. g) \ PairedOrOpen(w) = O \cup Shifted(b, x.orphans)
    BY <1>2, <1>4, <1>5, <2>2, <2>4
  <2>6. QED
    BY <1>4, <2>2, <2>3, <2>5 DEF Follows, x, g, c, addr, t
<1>14. QED
  BY <1>9, <1>12, <1>13 DEF g

LEMMA EventNames ==
    ASSUME NEW r \in ReducedBracketChapters, NEW n
    PROVE  WithEvent(r, n).token = r.token /\ WithEvent(r, n).verses = r.verses
<1> DEFINE e == r.events[n]
<1>1. r = [token |-> r.token, verses |-> r.verses, events |-> r.events, resolutions |-> r.resolutions,
           orphans |-> r.orphans, leaving |-> r.leaving]
  BY DEF ReducedBracketChapters
<1>2. CASE e.open
  <2> DEFINE x == Append(r.leaving, [chapter |-> r.token, idx |-> n, family |-> e.family])
  <2>1. WithEvent(r, n) = [r EXCEPT !.leaving = x]
    BY <1>2 DEF WithEvent
  <2> HIDE DEF x
  <2>2. QED
    BY <1>1, <2>1
<1>3. CASE ~ e.open /\ Matches(r.leaving, e)
  <2> DEFINE x == Front(r.leaving)
             y == Append(r.resolutions, [open |-> Last(r.leaving), close |-> n])
  <2>1. WithEvent(r, n) = [r EXCEPT !.leaving = x, !.resolutions = y]
    BY <1>3 DEF WithEvent
  <2> HIDE DEF x, y
  <2>2. QED
    BY <1>1, <2>1
<1>4. CASE ~ e.open /\ ~ Matches(r.leaving, e)
  <2> DEFINE x == r.orphans \cup {n}
  <2>1. WithEvent(r, n) = [r EXCEPT !.orphans = x]
    BY <1>4 DEF WithEvent
  <2> HIDE DEF x
  <2>2. QED
    BY <1>1, <2>1
<1>5. QED
  BY <1>2, <1>3, <1>4

LEMMA ReductionNames ==
    ASSUME NEW obs \in BracketObservations, NEW entering \in Seq(Openers)
    PROVE  LET r == ReduceBrackets(obs, entering) IN
           r.token = obs.token /\ r.verses = obs.verses /\ r.events = obs.events
<1> DEFINE m == Len(obs.events)
           T == { r \in ReducedBracketChapters : r.events = obs.events }
<1>1. m \in Nat
  BY DEF BracketObservations
<1>2. PICK walk : IsReducing(walk, obs, entering)
  BY ReducingSteps
<1>3. /\ walk \in [0 .. m -> T] /\ walk[0] = Opening(obs, entering)
      /\ \A n \in 1 .. m : walk[n] = WithEvent(walk[n - 1], n)
      /\ ReduceBrackets(obs, entering) = walk[m]
  BY <1>2 DEF IsReducing
<1> DEFINE S == { n \in 0 .. m : walk[n].token = obs.token /\ walk[n].verses = obs.verses }
<1> HIDE DEF m
<1>4. 0 \in S
  <2>1. walk[0].token = obs.token /\ walk[0].verses = obs.verses
    BY <1>3 DEF Opening
  <2>2. QED
    BY <1>1, <2>1
<1>5. ASSUME NEW j \in 0 .. m - 1, j \in S
      PROVE  j + 1 \in S
  <2> DEFINE n == j + 1
  <2>1. n \in 1 .. m /\ n - 1 = j /\ n \in 0 .. m /\ j \in 0 .. m
    BY <1>1
  <2>2. walk[j].token = obs.token /\ walk[j].verses = obs.verses
    BY <1>5
  <2> HIDE DEF n, S
  <2>3. walk[j] \in ReducedBracketChapters
    BY <1>3, <2>1
  <2>4. walk[n].token = obs.token /\ walk[n].verses = obs.verses
    BY <1>3, <2>1, <2>2, <2>3, EventNames
  <2>5. QED
    BY <2>1, <2>4 DEF n, S
<1> HIDE DEF S
<1>6. m \in 0 .. m
  BY <1>1
<1>7. m \in S
  BY <1>1, <1>4, <1>5, <1>6, UpTo
<1>8. walk[m].token = obs.token /\ walk[m].verses = obs.verses
  BY <1>7 DEF S
<1>9. walk[m].events = obs.events
  BY <1>3, <1>6
<1>10. QED
  BY <1>3, <1>8, <1>9

(* So the chapter, whatever it was handed, is the census over its part of  *)
(* the events.                                                             *)
LEMMA ChapterFollows ==
    ASSUME NEW T0, NEW events \in Seq(T0), NEW census, IsCensus(census, events),
           NEW obs, NEW base, NEW b, IsChapterOf(obs, base, b, events), NEW entering \in Seq(Openers),
           census[b].stack = Mapping(Address(base), entering),
           Standing(entering, base, events, obs.token - 1)
    PROVE  Follows(ReduceBrackets(obs, entering), census[b + Len(obs.events)], Len(obs.events), obs, base, b,
                   events, census[b].pairs, (1 .. b) \ PairedOrOpen(census[b]))
<1> DEFINE l == Len(obs.events)
           m == Len(events)
           T == { r \in ReducedBracketChapters : r.events = obs.events }
           P == census[b].pairs
           O == (1 .. b) \ PairedOrOpen(census[b])
<1>1. /\ m \in Nat /\ obs \in BracketObservations /\ l \in Nat /\ b \in Nat /\ b + l <= m
      /\ obs.token \in Nat \ {0}
  BY DEF IsChapterOf, BracketObservations
<1>2. PICK walk : IsReducing(walk, obs, entering)
  BY <1>1, ReducingSteps
<1>3. /\ walk \in [0 .. l -> T] /\ walk[0] = Opening(obs, entering)
      /\ \A n \in 1 .. l : walk[n] = WithEvent(walk[n - 1], n)
      /\ ReduceBrackets(obs, entering) = walk[l]
  BY <1>2 DEF IsReducing
<1>4. \A n \in 1 .. m : census[n] = WithDelimiter(events, census[n - 1], n)
  BY DEF IsCensus
<1>5. \A n \in 0 .. m : census[n] \in Pairing(m) /\ WellPaired(census[n], n)
  BY CensusNests
<1> DEFINE Fol(n) == Follows(walk[n], census[b + n], n, obs, base, b, events, P, O)
           S == { n \in 0 .. l : Fol(n) }
<1> HIDE DEF l, m
<1>6. 0 \in S
  <2>1. walk[0].token = obs.token /\ walk[0].leaving = entering /\ walk[0].resolutions = << >> /\ walk[0].orphans = {}
    BY <1>3 DEF Opening
  <2>2. b + 0 = b
    BY <1>1
  <2>3. ResolvedBy(<< >>, base, b) = {} /\ Known(<< >>, obs.token) /\ Shifted(b, {}) = {}
    BY DEF ResolvedBy, Known, Shifted, Range
  <2>4. Standing(entering, base, events, obs.token)
    <3>1. \A c \in 1 .. obs.token - 1 : c \in 1 .. obs.token
      BY <1>1
    <3>2. QED
      BY <3>1 DEF Standing
  <2>5. Fol(0)
    BY <2>1, <2>2, <2>3, <2>4 DEF Follows
  <2> HIDE DEF Fol
  <2>6. QED
    BY <1>1, <2>5
<1>7. ASSUME NEW j \in 0 .. l - 1, j \in S
      PROVE  j + 1 \in S
  <2> DEFINE n == j + 1
             g == b + n
  <2>1. n \in 1 .. l /\ n - 1 = j /\ n \in 0 .. l /\ j \in 0 .. l
    BY <1>1
  <2>2. g \in 1 .. m /\ g - 1 = b + j /\ b + j \in 0 .. m
    BY <1>1, <2>1
  <2>3. Fol(j)
    BY <1>7
  <2> HIDE DEF n, g, S
  <2>4. walk[j] \in ReducedBracketChapters /\ walk[j].events = obs.events
    BY <1>3, <2>1
  <2>5. census[b + j] \in Pairing(m) /\ WellPaired(census[b + j], b + j)
    BY <1>5, <2>2
  <2>6. walk[n] = WithEvent(walk[j], n) /\ census[g] = WithDelimiter(events, census[b + j], g)
    BY <1>3, <1>4, <2>1, <2>2
  <2> DEFINE r == walk[j]
             w == census[b + j]
  <2>7. /\ r \in ReducedBracketChapters /\ r.events = obs.events /\ w \in Pairing(m)
        /\ WellPaired(w, b + (n - 1)) /\ Follows(r, w, n - 1, obs, base, b, events, P, O)
    BY <2>1, <2>3, <2>4, <2>5
  <2> HIDE DEF r, w, P, O
  <2>8. Follows(WithEvent(r, n), WithDelimiter(events, w, b + n), n, obs, base, b, events, P, O)
    BY <1>1, <2>1, <2>7, EventFollows DEF l, m
  <2>9. Fol(n)
    BY <2>6, <2>8 DEF r, w, g
  <2> HIDE DEF Fol
  <2>10. QED
    BY <2>1, <2>9 DEF n, S
<1> HIDE DEF S, Fol
<1>8. l \in S
  <2>1. l \in 0 .. l
    BY <1>1
  <2>2. QED
    BY <1>1, <1>6, <1>7, <2>1, UpTo
<1>9. QED
  BY <1>3, <1>8 DEF S, Fol, l

LeftAfter(reduced, i) == IF i = 0 THEN << >> ELSE reduced[i].leaving

ObservedAt(chapters, i) == MapBrackets(i, chapters[i])

(* Each chapter is reduced under what the one before it left.              *)
IsReducedBook(reduced, chapters) ==
    /\ reduced \in Seq(ReducedBracketChapters) /\ Len(reduced) = Len(chapters)
    /\ \A i \in 1 .. Len(chapters) :
          reduced[i] = ReduceBrackets(ObservedAt(chapters, i), LeftAfter(reduced, i - 1))

(* A book is reduced chapter by chapter, each on what the one before left  *)
(* open.                                                                   *)
LEMMA BookReduced ==
    ASSUME NEW U, NEW chapters \in Seq(Seq(Seq(U)))
    PROVE  IsReducedBook(ReducedBrackets(chapters), chapters)
<1> DEFINE m == Len(chapters)
           T == ReducedBracketChapters
<1>1. m \in Nat /\ \A i \in 1 .. m : chapters[i] \in Seq(Seq(U)) /\ i \in Nat
  OBVIOUS
<1>2. PICK walk : IsBookOfBrackets(walk, chapters)
  BY BookOfBracketsSteps
<1>3. /\ walk \in [0 .. m -> Seq(T)] /\ walk[0] = << >> /\ ReducedBrackets(chapters) = walk[m]
      /\ \A n \in 1 .. m : walk[n] = WithBrackets(walk[n - 1], ObservedAt(chapters, n))
  BY <1>2 DEF IsBookOfBrackets, ObservedAt
<1>4. \A n \in 1 .. m : ObservedAt(chapters, n) \in BracketObservations
  BY <1>1, BracketsMapped DEF ObservedAt
<1> DEFINE Red(R, n) == /\ Len(R) = n
                        /\ \A i \in 1 .. n :
                              R[i] = ReduceBrackets(ObservedAt(chapters, i), LeftAfter(R, i - 1))
           S == { n \in 0 .. m : Red(walk[n], n) }
<1> HIDE DEF m, T
<1>5. 0 \in S
  <2>1. Red(walk[0], 0)
    BY <1>3
  <2> HIDE DEF Red
  <2>2. QED
    BY <1>1, <2>1
<1>6. ASSUME NEW j \in 0 .. m - 1, j \in S
      PROVE  j + 1 \in S
  <2> DEFINE n == j + 1
             R == walk[j]
             obs == ObservedAt(chapters, n)
             red == ReduceBrackets(obs, LeftOpen(R))
  <2>1. n \in 1 .. m /\ n - 1 = j /\ n \in 0 .. m /\ j \in 0 .. m /\ j \in Nat
    BY <1>1
  <2>2. Len(R) = j /\ \A i \in 1 .. j : R[i] = ReduceBrackets(ObservedAt(chapters, i), LeftAfter(R, i - 1))
    BY <1>6
  <2> HIDE DEF n, S
  <2>3. R \in Seq(T) /\ obs \in BracketObservations /\ walk[n] = WithBrackets(R, obs)
    BY <1>3, <1>4, <2>1
  <2> HIDE DEF obs, R
  <2>4. walk[n] = Append(R, red) /\ red \in T
    BY <2>3, ReducedKeeps, BracketsReduced DEF T
  <2>5. LeftOpen(R) = LeftAfter(R, j)
    <3>1. CASE j = 0
      BY <2>2, <2>3, <3>1 DEF LeftOpen, LeftAfter
    <3>2. CASE j # 0
      <4>1. R # << >>
        BY <2>2, <3>2
      <4>2. Last(R) = R[j]
        BY <2>2 DEF Last
      <4>3. QED
        BY <3>2, <4>1, <4>2 DEF LeftOpen, LeftAfter
    <3>3. QED
      BY <3>1, <3>2
  <2>6. red = ReduceBrackets(obs, LeftAfter(R, j))
    BY <2>5
  <2> HIDE DEF red
  <2> DEFINE A == Append(R, red)
  <2>7. Len(A) = n /\ A[n] = red /\ \A i \in 1 .. j : A[i] = R[i]
    BY <2>1, <2>2, <2>3, <2>4 DEF n
  <2> HIDE DEF A
  <2>8. \A i \in 0 .. j : LeftAfter(A, i) = LeftAfter(R, i)
    <3>1. \A i \in 0 .. j : i = 0 \/ i \in 1 .. j
      BY <2>1
    <3>2. QED
      BY <2>7, <3>1 DEF LeftAfter
  <2>9. ASSUME NEW i \in 1 .. n
        PROVE  A[i] = ReduceBrackets(ObservedAt(chapters, i), LeftAfter(A, i - 1))
    <3>1. i \in 1 .. j \/ i = n
      BY <2>1
    <3>2. i - 1 \in 0 .. j
      BY <2>1
    <3>3. LeftAfter(A, i - 1) = LeftAfter(R, i - 1)
      BY <2>8, <3>2
    <3>4. CASE i = n
      BY <2>1, <2>6, <2>7, <3>3, <3>4 DEF obs
    <3>5. CASE i \in 1 .. j
      BY <2>2, <2>7, <3>3, <3>5
    <3>6. QED
      BY <3>1, <3>4, <3>5
  <2>10. Red(walk[n], n)
    BY <2>4, <2>7, <2>9 DEF A
  <2> HIDE DEF Red
  <2>11. QED
    BY <2>1, <2>10 DEF n, S
<1> HIDE DEF S
<1>7. m \in 0 .. m
  BY <1>1
<1>8. m \in S
  BY <1>1, <1>5, <1>6, <1>7, UpTo
<1>9. Red(walk[m], m)
  BY <1>8 DEF S
<1>10. QED
  BY <1>3, <1>7, <1>9 DEF IsReducedBook, m, T

(* What a reduced chapter keeps of the chapter it was reduced from.        *)
IsNamed(R, chapters, i) ==
    /\ R[i] \in ReducedBracketChapters /\ ObservedAt(chapters, i) \in BracketObservations
    /\ R[i].token = i /\ ObservedAt(chapters, i).token = i
    /\ R[i].verses = Len(chapters[i]) /\ R[i].verses \in Nat
    /\ R[i].events = ObservedAt(chapters, i).events /\ R[i].events \in Seq(BracketEvents)
    /\ R[i].resolutions \in Seq([open : Openers, close : Nat]) /\ R[i].orphans \in SUBSET Nat

(* A reduced chapter bears its own name, and keeps the events it observed. *)
LEMMA BookNames ==
    ASSUME NEW U, NEW chapters \in Seq(Seq(Seq(U))), NEW R, IsReducedBook(R, chapters)
    PROVE  /\ Len(chapters) \in Nat /\ DOMAIN R = 1 .. Len(chapters)
           /\ \A i \in 0 .. Len(chapters) : LeftAfter(R, i) \in Seq(Openers)
           /\ \A i \in 1 .. Len(chapters) : IsNamed(R, chapters, i)
<1> DEFINE m == Len(chapters)
<1>1. m \in Nat /\ \A i \in 1 .. m : chapters[i] \in Seq(Seq(U)) /\ i \in Nat /\ Len(chapters[i]) \in Nat
  <2>1. m \in Nat /\ \A i \in 1 .. m : chapters[i] \in Seq(Seq(U)) /\ i \in Nat
    OBVIOUS
  <2>2. QED
    BY <2>1
<1>2. /\ R \in Seq(ReducedBracketChapters) /\ Len(R) = m
      /\ \A i \in 1 .. m : R[i] = ReduceBrackets(ObservedAt(chapters, i), LeftAfter(R, i - 1))
  BY DEF IsReducedBook
<1>3. DOMAIN R = 1 .. m /\ \A i \in 1 .. m : R[i] \in ReducedBracketChapters
  BY <1>2
<1>4. \A i \in 1 .. m : /\ R[i].leaving \in Seq(Openers) /\ R[i].events \in Seq(BracketEvents)
                        /\ R[i].verses \in Nat
                        /\ R[i].resolutions \in Seq([open : Openers, close : Nat])
                        /\ R[i].orphans \in SUBSET Nat
  BY <1>3 DEF ReducedBracketChapters
<1>5. \A i \in 0 .. m : LeftAfter(R, i) \in Seq(Openers)
  <2>1. \A i \in 0 .. m : i = 0 \/ i \in 1 .. m
    BY <1>1
  <2>2. << >> \in Seq(Openers)
    OBVIOUS
  <2>3. QED
    BY <1>4, <2>1, <2>2 DEF LeftAfter
<1>6. \A i \in 1 .. m : ObservedAt(chapters, i) \in BracketObservations /\ ObservedAt(chapters, i).token = i
  BY <1>1, BracketsMapped DEF ObservedAt
<1>7. \A i \in 1 .. m : ObservedAt(chapters, i).verses = Len(chapters[i])
  BY DEF ObservedAt, MapBrackets
<1>8. \A i \in 1 .. m : /\ R[i].token = i /\ R[i].verses = Len(chapters[i])
                        /\ R[i].events = ObservedAt(chapters, i).events
  <2> HIDE DEF m
  <2>1. \A i \in 1 .. m : i - 1 \in 0 .. m
    BY <1>1
  <2>2. ASSUME NEW i \in 1 .. m
        PROVE  /\ R[i].token = i /\ R[i].verses = Len(chapters[i])
               /\ R[i].events = ObservedAt(chapters, i).events
    <3> DEFINE obs == ObservedAt(chapters, i)
               entering == LeftAfter(R, i - 1)
               r == ReduceBrackets(obs, entering)
    <3>1. obs \in BracketObservations /\ entering \in Seq(Openers)
      BY <1>5, <1>6, <2>1
    <3>2. R[i] = r /\ obs.token = i /\ obs.verses = Len(chapters[i])
      BY <1>2, <1>6, <1>7
    <3> HIDE DEF obs, entering
    <3>3. r.token = obs.token /\ r.verses = obs.verses /\ r.events = obs.events
      BY <3>1, ReductionNames
    <3>4. QED
      BY <3>2, <3>3 DEF obs
  <2>3. QED
    BY <2>2
<1>9. \A i \in 1 .. m : IsNamed(R, chapters, i)
  BY <1>1, <1>3, <1>4, <1>6, <1>8 DEF IsNamed
<1>10. QED
  BY <1>1, <1>3, <1>5, <1>9

(***************************************************************************)
(* A book's events, and where each chapter's begin.                        *)
(***************************************************************************)
WidenedParts(R) == [i \in DOMAIN R |-> Widened(R, i)]

(* A chapter's events as the book has them.                                *)
IsWidened(wide, events, v) ==
    /\ Len(wide) = Len(events) /\ v \in Nat
    /\ \A j \in 1 .. Len(events) :
          /\ wide[j].family = events[j].family /\ wide[j].open = events[j].open
          /\ wide[j].verse = events[j].verse + v

(* A chapter's events in the book are its own, with the verses before them *)
(* counted in.                                                             *)
LEMMA WidenedIn ==
    ASSUME NEW U, NEW chapters \in Seq(Seq(Seq(U))), NEW R, IsReducedBook(R, chapters)
    PROVE  /\ WidenedParts(R) \in Seq(Seq(BracketEvents)) /\ Len(WidenedParts(R)) = Len(chapters)
           /\ \A i \in 1 .. Len(chapters) : IsWidened(WidenedParts(R)[i], R[i].events, VerseBase(R, i))
<1> DEFINE m == Len(chapters)
           parts == WidenedParts(R)
<1>1. /\ m \in Nat /\ DOMAIN R = 1 .. m
      /\ \A i \in 1 .. m : R[i].events \in Seq(BracketEvents) /\ R[i].verses \in Nat
  <2>1. m \in Nat /\ DOMAIN R = 1 .. m /\ \A i \in 1 .. m : IsNamed(R, chapters, i)
    BY BookNames
  <2>2. QED
    BY <2>1 DEF IsNamed
<1> HIDE DEF m
<1>2. ASSUME NEW i \in 1 .. m
      PROVE  /\ Widened(R, i) \in Seq(BracketEvents)
             /\ IsWidened(Widened(R, i), R[i].events, VerseBase(R, i))
  <2> DEFINE v == VerseBase(R, i)
             events == R[i].events
             wide == Widened(R, i)
             n == Len(events)
  <2>1. v \in Nat
    <3>1. [k \in 1 .. i - 1 |-> R[k].verses] \in Seq(Nat)
      <4>1. i - 1 \in Nat /\ \A k \in 1 .. i - 1 : k \in 1 .. m
        BY <1>1
      <4>2. \A k \in 1 .. i - 1 : R[k].verses \in Nat
        BY <1>1, <4>1
      <4>3. QED
        BY <4>1, <4>2
    <3>2. QED
      BY <3>1, TotalNat DEF VerseBase
  <2>2. events \in Seq(BracketEvents) /\ n \in Nat /\ DOMAIN events = 1 .. n
    BY <1>1
  <2>3. wide = [j \in DOMAIN events |-> [events[j] EXCEPT !.verse = @ + v]]
    BY DEF Widened
  <2> HIDE DEF v, events, wide, n
  <2>4. ASSUME NEW j \in 1 .. n
        PROVE  /\ wide[j] \in BracketEvents /\ wide[j].family = events[j].family
               /\ wide[j].open = events[j].open /\ wide[j].verse = events[j].verse + v
    <3>1. events[j] \in BracketEvents
      BY <2>2, <2>4 DEF n
    <3>2. events[j].verse + v \in Nat
      BY <2>1, <3>1 DEF BracketEvents
    <3>3. wide[j] = [events[j] EXCEPT !.verse = @ + v]
      BY <2>2, <2>3, <2>4
    <3>4. QED
      BY <3>1, <3>2, <3>3 DEF BracketEvents
  <2>5. wide \in [1 .. n -> BracketEvents]
    BY <2>2, <2>3, <2>4
  <2>6. wide \in Seq(BracketEvents) /\ Len(wide) = n
    BY <2>2, <2>5
  <2>7. IsWidened(wide, events, v)
    BY <2>1, <2>4, <2>6 DEF IsWidened, n
  <2>8. QED
    BY <2>6, <2>7 DEF wide, v, events
<1>3. parts = [i \in 1 .. m |-> Widened(R, i)]
  BY <1>1 DEF WidenedParts
<1>4. parts \in [1 .. m -> Seq(BracketEvents)]
  BY <1>2, <1>3
<1> HIDE DEF parts
<1>5. parts \in Seq(Seq(BracketEvents)) /\ Len(parts) = m
  BY <1>1, <1>4
<1>6. QED
  BY <1>2, <1>3, <1>5 DEF parts, m

(* The chapters' events among the book's.                                  *)
LEMMA ChaptersLaid ==
    ASSUME NEW U, NEW chapters \in Seq(Seq(Seq(U))), NEW R, IsReducedBook(R, chapters)
    PROVE  \E base :
             /\ IsBase(base, LensOf(WidenedParts(R)))
             /\ base \in [0 .. Len(chapters) -> Nat] /\ base[0] = 0
             /\ base[Len(chapters)] = Len(FoldBrackets(R).events)
             /\ \A i \in 1 .. Len(chapters) :
                   /\ base[i] = base[i - 1] + Len(R[i].events)
                   /\ base[i] <= Len(FoldBrackets(R).events)
                   /\ EventBase(R, i) = base[i - 1]
                   /\ IsChapterOf(ObservedAt(chapters, i), base, base[i - 1], FoldBrackets(R).events)
<1> DEFINE m == Len(chapters)
           parts == WidenedParts(R)
           lens == LensOf(parts)
           events == FoldBrackets(R).events
<1>1. /\ m \in Nat
      /\ \A i \in 1 .. m : /\ R[i].events \in Seq(BracketEvents) /\ R[i].events = ObservedAt(chapters, i).events
                           /\ ObservedAt(chapters, i) \in BracketObservations
                           /\ ObservedAt(chapters, i).token = i
  <2>1. m \in Nat /\ \A i \in 1 .. m : IsNamed(R, chapters, i)
    BY BookNames
  <2>2. QED
    BY <2>1 DEF IsNamed
<1>2. /\ parts \in Seq(Seq(BracketEvents)) /\ Len(parts) = m
      /\ \A i \in 1 .. m :
            /\ Len(parts[i]) = Len(R[i].events)
            /\ \A j \in 1 .. Len(R[i].events) :
                  parts[i][j].family = R[i].events[j].family /\ parts[i][j].open = R[i].events[j].open
  <2>1. /\ parts \in Seq(Seq(BracketEvents)) /\ Len(parts) = m
        /\ \A i \in 1 .. m : IsWidened(parts[i], R[i].events, VerseBase(R, i))
    BY WidenedIn
  <2> HIDE DEF parts, m
  <2>2. QED
    BY <2>1 DEF IsWidened
<1>3. events = FlattenSeq(parts)
  BY DEF FoldBrackets, WidenedParts
<1> HIDE DEF m, parts, events, lens
<1>4. lens \in Seq(Nat) /\ Len(lens) = m /\ \A i \in 1 .. m : lens[i] = Len(parts[i])
  BY <1>2, LensIn DEF lens
<1>5. PICK base : IsBase(base, lens)
  BY <1>4, BaseExists
<1>6. /\ base \in [0 .. m -> Nat] /\ base[0] = 0
      /\ \A n \in 1 .. m : base[n] = base[n - 1] + lens[n]
      /\ \A n \in 0 .. m : TotalOf([k \in 1 .. n |-> lens[k]]) = base[n]
  BY <1>4, <1>5 DEF IsBase
<1>11. (\A n \in 1 .. m : lens[n] \in Nat) /\ (\A n \in 0 .. m : base[n] \in Nat)
  <2>1. \A n \in 1 .. Len(lens) : lens[n] \in Nat
    BY <1>4
  <2>2. QED
    BY <1>4, <1>6, <2>1
<1>7. /\ Len(events) = base[m]
      /\ \A i \in 1 .. m : \A j \in 1 .. Len(parts[i]) :
            base[i - 1] + j \in 1 .. Len(events) /\ events[base[i - 1] + j] = parts[i][j]
  BY <1>2, <1>3, <1>5, FlattenedAt DEF lens
<1>8. events \in Seq(BracketEvents)
  BY <1>2, <1>3, FlattenedIn
<1>9. ASSUME NEW i \in 1 .. m
      PROVE  /\ base[i] = base[i - 1] + Len(R[i].events)
             /\ base[i] <= Len(events)
             /\ EventBase(R, i) = base[i - 1]
             /\ IsChapterOf(ObservedAt(chapters, i), base, base[i - 1], events)
  <2> DEFINE b == base[i - 1]
             l == Len(R[i].events)
             obs == ObservedAt(chapters, i)
  <2>1. i - 1 \in 0 .. m /\ i \in Nat \ {0} /\ l \in Nat
    BY <1>1
  <2>2. b \in Nat
    BY <1>6, <2>1
  <2>3. base[i] = b + l
    BY <1>2, <1>4, <1>6
  <2>4. EventBase(R, i) = b
    <3>1. [k \in 1 .. i - 1 |-> Len(R[k].events)] = [k \in 1 .. i - 1 |-> lens[k]]
      <4>1. \A k \in 1 .. i - 1 : k \in 1 .. m
        BY <1>1
      <4>2. \A k \in 1 .. i - 1 : Len(R[k].events) = lens[k]
        BY <1>2, <1>4, <4>1
      <4>3. QED
        BY <4>2
    <3>2. TotalOf([k \in 1 .. i - 1 |-> lens[k]]) = b
      BY <1>6, <2>1
    <3>3. QED
      BY <3>1, <3>2 DEF EventBase
  <2>5. b + l <= Len(events)
    <3>1. CASE l = 0
      <4>1. base[i] <= base[m]
        <5> DEFINE D == { n \in 0 .. m : n >= i => base[i] <= base[n] }
        <5>1. 0 \in D
          BY <1>1, <2>1
        <5>2. ASSUME NEW k \in 0 .. m - 1, k \in D
              PROVE  k + 1 \in D
          <6> DEFINE n == k + 1
          <6>1. n \in 1 .. m /\ n - 1 = k /\ k \in 0 .. m /\ n \in 0 .. m /\ k \in Nat
            BY <1>1
          <6>2. k >= i => base[i] <= base[k]
            BY <5>2
          <6> HIDE DEF n, D
          <6>3. base[n] = base[k] + lens[n] /\ lens[n] \in Nat /\ base[k] \in Nat /\ base[n] \in Nat
            <7>1. lens[n] \in Nat /\ base[k] \in Nat /\ base[n] \in Nat
              BY <1>11, <6>1
            <7>2. base[n] = base[n - 1] + lens[n]
              BY <1>6, <6>1
            <7>3. QED
              BY <6>1, <7>1, <7>2
          <6>4. base[i] \in Nat
            BY <2>2, <2>3, <2>1
          <6>5. n >= i => base[i] <= base[n]
            <7>1. CASE k >= i
              BY <6>2, <6>3, <6>4, <7>1
            <7>2. CASE ~ (k >= i)
              <8>1. n >= i => n = i
                BY <2>1, <6>1, <7>2
              <8>2. QED
                BY <6>3, <8>1
            <7>3. QED
              BY <7>1, <7>2
          <6>6. QED
            BY <6>1, <6>5 DEF n, D
        <5> HIDE DEF D
        <5>3. m \in 0 .. m
          BY <1>1
        <5>4. m \in D
          BY <1>1, <5>1, <5>2, <5>3, UpTo
        <5>5. m >= i
          BY <1>1
        <5>6. QED
          BY <5>4, <5>5 DEF D
      <4>2. QED
        BY <1>7, <2>3, <4>1
    <3>2. CASE l # 0
      <4>1. l \in 1 .. Len(parts[i])
        BY <1>2, <2>1, <3>2
      <4>2. base[i - 1] + l \in 1 .. Len(events)
        BY <1>7, <4>1
      <4>3. Len(events) \in Nat
        BY <1>8
      <4> HIDE DEF l
      <4>4. QED
        BY <2>1, <2>2, <4>2, <4>3
    <3>3. QED
      BY <3>1, <3>2
  <2>6. \A j \in 1 .. Len(obs.events) : /\ events[b + j].family = obs.events[j].family
                                        /\ events[b + j].open = obs.events[j].open
    <3>1. ASSUME NEW j \in 1 .. Len(obs.events)
          PROVE  events[b + j].family = obs.events[j].family /\ events[b + j].open = obs.events[j].open
      <4>1. obs.events = R[i].events
        BY <1>1
      <4>2. j \in 1 .. Len(R[i].events) /\ j \in 1 .. Len(parts[i])
        BY <1>2, <3>1, <4>1
      <4>3. events[b + j] = parts[i][j]
        BY <1>7, <4>2
      <4>4. parts[i][j].family = R[i].events[j].family /\ parts[i][j].open = R[i].events[j].open
        BY <1>2, <4>2
      <4> HIDE DEF obs, b, l
      <4>5. QED
        BY <4>1, <4>3, <4>4
    <3>2. QED
      BY <3>1
  <2>7. IsChapterOf(obs, base, b, events)
    <3>1. obs \in BracketObservations /\ obs.token = i /\ Len(obs.events) = l
      BY <1>1
    <3> HIDE DEF obs, b, l
    <3>2. base[obs.token - 1] = b
      BY <3>1 DEF b
    <3>3. QED
      BY <2>1, <2>2, <2>5, <2>6, <3>1, <3>2 DEF IsChapterOf
  <2>8. QED
    BY <2>3, <2>4, <2>5, <2>7
<1>10. QED
  BY <1>5, <1>6, <1>7, <1>9 DEF m, events, lens, parts

(***************************************************************************)
(* The book's fold follows the census's matcher.                           *)
(***************************************************************************)
PairsUpTo(R, i) == UNION { Pairs(R, k) : k \in 1 .. i }

StraysUpTo(R, i) == UNION { Strays(R, k) : k \in 1 .. i }

(* The pairs and the strays of one more chapter.                           *)
LEMMA UpToNext ==
    ASSUME NEW R, NEW i \in Nat \ {0}
    PROVE  /\ PairsUpTo(R, 0) = {} /\ StraysUpTo(R, 0) = {}
           /\ PairsUpTo(R, i) = PairsUpTo(R, i - 1) \cup Pairs(R, i)
           /\ StraysUpTo(R, i) = StraysUpTo(R, i - 1) \cup Strays(R, i)
<1>1. 1 .. 0 = {} /\ \A k : k \in 1 .. i <=> k \in 1 .. i - 1 \/ k = i
  OBVIOUS
<1>2. PairsUpTo(R, i) = PairsUpTo(R, i - 1) \cup Pairs(R, i)
  <2>1. \A e : e \in PairsUpTo(R, i) <=> \E k \in 1 .. i : e \in Pairs(R, k)
    BY DEF PairsUpTo
  <2>2. \A e : e \in PairsUpTo(R, i - 1) <=> \E k \in 1 .. i - 1 : e \in Pairs(R, k)
    BY DEF PairsUpTo
  <2>3. QED
    BY <1>1, <2>1, <2>2
<1>3. StraysUpTo(R, i) = StraysUpTo(R, i - 1) \cup Strays(R, i)
  <2>1. \A e : e \in StraysUpTo(R, i) <=> \E k \in 1 .. i : e \in Strays(R, k)
    BY DEF StraysUpTo
  <2>2. \A e : e \in StraysUpTo(R, i - 1) <=> \E k \in 1 .. i - 1 : e \in Strays(R, k)
    BY DEF StraysUpTo
  <2>3. QED
    BY <1>1, <2>1, <2>2
<1>4. QED
  BY <1>1, <1>2, <1>3 DEF PairsUpTo, StraysUpTo

(* An opener's chapter is found by its token.                              *)
BasedAt(R, base, m) == \A i \in 1 .. m : EventBase(R, i) = base[i - 1]

Addressed(R, base, m) ==
    \A p \in Openers : p.chapter \in 1 .. m => Opener(R, p) = Address(base)[p]

LEMMA OpenersAre ==
    ASSUME NEW U, NEW chapters \in Seq(Seq(Seq(U))), NEW R, IsReducedBook(R, chapters),
           NEW base, BasedAt(R, base, Len(chapters))
    PROVE  Addressed(R, base, Len(chapters))
<1> SUFFICES ASSUME NEW p \in Openers, p.chapter \in 1 .. Len(chapters),
                    \A i \in 1 .. Len(chapters) : EventBase(R, i) = base[i - 1]
             PROVE  Opener(R, p) = Address(base)[p]
  BY DEF Addressed, BasedAt
<1>1. DOMAIN R = 1 .. Len(chapters) /\ \A i \in 1 .. Len(chapters) : R[i].token = i
  <2>1. DOMAIN R = 1 .. Len(chapters) /\ \A i \in 1 .. Len(chapters) : IsNamed(R, chapters, i)
    BY BookNames
  <2>2. QED
    BY <2>1 DEF IsNamed
<1>2. PlaceOf(R, p.chapter) = p.chapter
  BY <1>1 DEF PlaceOf
<1>3. QED
  BY <1>2 DEF Opener, Address

(* What is true when the last chapter was reduced.                         *)
Arrives(base, R, m, n, last) ==
    /\ last.stack = Mapping(Address(base), LeftAfter(R, m))
    /\ last.pairs = PairsUpTo(R, m)
    /\ (1 .. n) \ PairedOrOpen(last) = StraysUpTo(R, m)
    /\ \A p \in Range(LeftAfter(R, m)) : p \in Openers /\ Opener(R, p) = Address(base)[p]

(* At the end of the book the chapters' pairs and strays are those of the  *)
(* census of the whole.                                                    *)
LEMMA BookFollows ==
    ASSUME NEW U, NEW chapters \in Seq(Seq(Seq(U))), NEW R, IsReducedBook(R, chapters),
           NEW census, IsCensus(census, FoldBrackets(R).events)
    PROVE  \E base : Arrives(base, R, Len(chapters), Len(FoldBrackets(R).events),
                             census[Len(FoldBrackets(R).events)])
<1> DEFINE m == Len(chapters)
           events == FoldBrackets(R).events
<1>1. /\ m \in Nat /\ DOMAIN R = 1 .. m
      /\ \A i \in 0 .. m : LeftAfter(R, i) \in Seq(Openers)
      /\ \A i \in 1 .. m :
            /\ R[i].events = ObservedAt(chapters, i).events /\ R[i].events \in Seq(BracketEvents)
            /\ ObservedAt(chapters, i).token = i
            /\ R[i].resolutions \in Seq([open : Openers, close : Nat])
  <2>1. m \in Nat /\ DOMAIN R = 1 .. m /\ \A i \in 0 .. m : LeftAfter(R, i) \in Seq(Openers)
    BY BookNames
  <2>2. \A i \in 1 .. m : IsNamed(R, chapters, i)
    BY BookNames
  <2> HIDE DEF m
  <2>3. QED
    BY <2>1, <2>2 DEF IsNamed
<1>2. PICK base :
             /\ IsBase(base, LensOf(WidenedParts(R)))
             /\ base \in [0 .. m -> Nat] /\ base[0] = 0
             /\ base[m] = Len(events)
             /\ \A i \in 1 .. m :
                   /\ base[i] = base[i - 1] + Len(R[i].events)
                   /\ base[i] <= Len(events)
                   /\ EventBase(R, i) = base[i - 1]
                   /\ IsChapterOf(ObservedAt(chapters, i), base, base[i - 1], events)
  BY ChaptersLaid
<1>3. events \in Seq(BracketEvents)
  <2>1. WidenedParts(R) \in Seq(Seq(BracketEvents))
    BY WidenedIn
  <2>2. events = FlattenSeq(WidenedParts(R))
    BY DEF FoldBrackets, WidenedParts
  <2> HIDE DEF events
  <2>3. QED
    BY <2>1, <2>2, FlattenedIn
<1>4. census[0] = [stack |-> << >>, pairs |-> {}] /\ IsCensus(census, events)
  BY DEF IsCensus
<1>5. \A i \in 1 .. m : \A p \in Openers : p.chapter \in 1 .. i => Opener(R, p) = Address(base)[p]
  <2>1. \A i \in 1 .. m : \A c \in 1 .. i : c \in 1 .. m
    BY <1>1
  <2>2. BasedAt(R, base, m)
    BY <1>2 DEF BasedAt
  <2>3. Addressed(R, base, m)
    BY <2>2, OpenersAre
  <2> HIDE DEF m
  <2>4. QED
    BY <2>1, <2>3 DEF Addressed
<1>6. \A i \in 1 .. m : R[i] = ReduceBrackets(ObservedAt(chapters, i), LeftAfter(R, i - 1))
  BY DEF IsReducedBook
<1> HIDE DEF m, events
<1> DEFINE Fol(i) ==
             /\ census[base[i]].stack = Mapping(Address(base), LeftAfter(R, i))
             /\ census[base[i]].pairs = PairsUpTo(R, i)
             /\ Standing(LeftAfter(R, i), base, events, i)
             /\ (1 .. base[i]) \ PairedOrOpen(census[base[i]]) = StraysUpTo(R, i)
           S == { i \in 0 .. m : Fol(i) }
<1>7. 0 \in S
  <2>1. LeftAfter(R, 0) = << >>
    BY DEF LeftAfter
  <2>2. Mapping(Address(base), << >>) = << >>
    BY DEF Mapping
  <2>3. Standing(<< >>, base, events, 0) /\ 1 .. 0 = {}
    BY DEF Standing, Range
  <2>4. PairsUpTo(R, 0) = {} /\ StraysUpTo(R, 0) = {}
    <3>1. 1 \in Nat \ {0}
      OBVIOUS
    <3>2. QED
      BY <3>1, UpToNext
  <2>5. Fol(0)
    BY <1>2, <1>4, <2>1, <2>2, <2>3, <2>4
  <2> HIDE DEF Fol
  <2>6. QED
    BY <1>1, <2>5
<1>8. ASSUME NEW j \in 0 .. m - 1, j \in S
      PROVE  j + 1 \in S
  <2> DEFINE i == j + 1
             obs == ObservedAt(chapters, i)
             b == base[j]
             entering == LeftAfter(R, j)
             r == ReduceBrackets(obs, entering)
             l == Len(obs.events)
             w == census[b + l]
  <2>1. i \in 1 .. m /\ i - 1 = j /\ i \in 0 .. m /\ j \in 0 .. m /\ i \in Nat \ {0} /\ i # 0
    BY <1>1
  <2>2. Fol(j)
    BY <1>8
  <2> HIDE DEF i, S
  <2>3. R[i] = r /\ R[i].events = obs.events /\ obs.token = i /\ entering \in Seq(Openers)
    BY <1>1, <1>6, <2>1
  <2>4. base[i] = b + l /\ IsChapterOf(obs, base, b, events) /\ EventBase(R, i) = b
    BY <1>2, <2>1, <2>3
  <2>5. Follows(r, w, l, obs, base, b, events, census[b].pairs, (1 .. b) \ PairedOrOpen(census[b]))
    <3>1. Standing(entering, base, events, obs.token - 1) /\ census[b].stack = Mapping(Address(base), entering)
      BY <2>1, <2>2, <2>3
    <3> HIDE DEF obs, b, entering
    <3>2. QED
      BY <1>3, <1>4, <2>3, <2>4, <3>1, ChapterFollows
  <2>6. /\ w.stack = Mapping(Address(base), r.leaving)
        /\ w.pairs = PairsUpTo(R, j) \cup ResolvedBy(r.resolutions, base, b)
        /\ Standing(r.leaving, base, events, i)
        /\ Known(r.resolutions, i)
        /\ (1 .. b + l) \ PairedOrOpen(w) = StraysUpTo(R, j) \cup Shifted(b, r.orphans)
    BY <2>2, <2>3, <2>5 DEF Follows
  <2>7. LeftAfter(R, i) = r.leaving
    BY <2>1, <2>3 DEF LeftAfter
  <2>8. Strays(R, i) = Shifted(b, r.orphans)
    BY <2>3, <2>4 DEF Strays, Shifted
  <2>9. Pairs(R, i) = ResolvedBy(r.resolutions, base, b)
    <3>1. \A x \in Range(r.resolutions) : Opener(R, x.open) = Address(base)[x.open]
      <4>1. \A x \in Range(r.resolutions) : x.open \in Openers
        <5>1. r.resolutions \in Seq([open : Openers, close : Nat])
          BY <1>1, <2>1, <2>3
        <5> DEFINE q == r.resolutions
        <5> DEFINE T == [open : Openers, close : Nat]
        <5>2. q \in Seq(T)
          BY <5>1
        <5> HIDE DEF q, T
        <5>3. \A x \in Range(q) : x \in T
          BY <5>2 DEF Range
        <5>4. QED
          BY <5>3 DEF q, T
      <4>2. QED
        BY <1>5, <2>1, <2>6, <4>1 DEF Known
    <3> DEFINE q == Range(r.resolutions)
    <3>2. Pairs(R, i) = { <<Opener(R, x.open), b + x.close>> : x \in q }
      BY <2>3, <2>4 DEF Pairs
    <3>3. ResolvedBy(r.resolutions, base, b) = { <<Address(base)[x.open], b + x.close>> : x \in q }
      BY DEF ResolvedBy
    <3> HIDE DEF q, b
    <3>4. QED
      BY <3>1, <3>2, <3>3 DEF q
  <2>10. PairsUpTo(R, i) = PairsUpTo(R, j) \cup Pairs(R, i) /\ StraysUpTo(R, i) = StraysUpTo(R, j) \cup Strays(R, i)
    BY <2>1, UpToNext
  <2> HIDE DEF obs, b, entering, r, l
  <2>11. Fol(i)
    BY <2>4, <2>6, <2>7, <2>8, <2>9, <2>10
  <2> HIDE DEF Fol
  <2>12. QED
    BY <2>1, <2>11 DEF S, i
<1> HIDE DEF S
<1>9. m \in 0 .. m
  BY <1>1
<1>10. m \in S
  BY <1>1, <1>7, <1>8, <1>9, UpTo
<1>11. Fol(m)
  BY <1>10 DEF S
<1>12. \A p \in Range(LeftAfter(R, m)) : p \in Openers /\ Opener(R, p) = Address(base)[p]
  <2>1. CASE m = 0
    <3>1. Range(LeftAfter(R, m)) = {}
      BY <2>1 DEF LeftAfter, Range
    <3>2. QED
      BY <3>1
  <2>2. CASE m # 0
    <3> DEFINE q == LeftAfter(R, m)
    <3>1. q \in Seq(Openers) /\ \A p \in Range(q) : p.chapter \in 1 .. m
      BY <1>1, <1>9, <1>11 DEF Standing
    <3> HIDE DEF q
    <3>2. \A p \in Range(q) : p \in Openers
      BY <3>1 DEF Range
    <3>3. m \in 1 .. m
      BY <1>1, <2>2
    <3>4. QED
      BY <1>5, <3>1, <3>2, <3>3 DEF q
  <2>3. QED
    BY <2>1, <2>2
<1>13. QED
  BY <1>2, <1>11, <1>12 DEF Arrives, m, events

(* The pairs of a book are those of its census, nested, and the orphans are*)
(* what it did not pair.                                                   *)
LEMMA BookPairs ==
    ASSUME NEW U, NEW book \in Seq(Seq(Seq(U))), NEW match, match = BookMatch(book)
    PROVE  /\ match.pairs = CensusMatch(match.events)
           /\ match.orphans = (DOMAIN match.events) \ MatchedEvents(match)
           /\ Nested(match.pairs)
           /\ \A p \in match.pairs : p[1] \in DOMAIN match.events /\ p[2] \in DOMAIN match.events
<1> DEFINE R == ReducedBrackets(book)
           events == match.events
           n == Len(events)
           m == Len(book)
<1>1. IsReducedBook(R, book)
  BY BookReduced
<1>2. /\ m \in Nat /\ DOMAIN R = 1 .. m /\ Len(R) = m /\ \A i \in 0 .. m : LeftAfter(R, i) \in Seq(Openers)
  <2>1. Len(R) = m
    BY <1>1 DEF IsReducedBook
  <2> HIDE DEF R
  <2>2. QED
    BY <1>1, <2>1, BookNames
<1>3. /\ match = FoldBrackets(R) /\ events = FoldBrackets(R).events
      /\ match.pairs = UNION { Pairs(R, i) : i \in DOMAIN R }
      /\ match.orphans = (UNION { Strays(R, i) : i \in DOMAIN R }) \cup Unclosed(R)
  BY DEF BookMatch, FoldBrackets
<1> HIDE DEF R
<1>4. events \in Seq(BracketEvents)
  <2>1. IsMatch(match)
    BY BookMatched
  <2>2. QED
    BY <2>1 DEF IsMatch
<1> HIDE DEF events, m
<1>5. n \in Nat /\ DOMAIN events = 1 .. n /\ n \in 0 .. n
  BY <1>4
<1> HIDE DEF n
<1>6. PICK census : IsCensus(census, events)
  BY <1>4, CensusSteps
<1> DEFINE last == census[n]
<1>7. PICK base :
        /\ last.stack = Mapping(Address(base), LeftAfter(R, m))
        /\ last.pairs = PairsUpTo(R, m)
        /\ (1 .. n) \ PairedOrOpen(last) = StraysUpTo(R, m)
        /\ \A p \in Range(LeftAfter(R, m)) : p \in Openers /\ Opener(R, p) = Address(base)[p]
  <2> DEFINE found == FoldBrackets(R).events
  <2>1. found = events
    BY <1>3
  <2>2. IsCensus(census, found)
    BY <1>6, <2>1
  <2>3. \E base : Arrives(base, R, Len(book), Len(found), census[Len(found)])
    BY <1>1, <2>2, BookFollows
  <2> HIDE DEF found
  <2>4. \E base : Arrives(base, R, m, n, last)
    BY <2>1, <2>3 DEF m, n
  <2>5. QED
    BY <2>4 DEF Arrives
<1>8. last \in Pairing(n) /\ WellPaired(last, n) /\ CensusMatch(events) = last.pairs
  <2>1. \A k \in 0 .. n : census[k] \in Pairing(n) /\ WellPaired(census[k], k)
    BY <1>4, <1>6, CensusNests DEF n
  <2>2. CensusMatch(events) = last.pairs
    BY <1>6 DEF IsCensus, n
  <2>3. QED
    BY <1>5, <2>1, <2>2
<1>9. match.pairs = last.pairs
  BY <1>2, <1>3, <1>7 DEF PairsUpTo
<1>10. Unclosed(R) = Range(last.stack)
  <2> DEFINE q == LeftAfter(R, m)
  <2>1. Unclosed(R) = { Opener(R, p) : p \in Range(q) }
    <3>1. CASE m = 0
      <4>1. R = << >>
        <5>1. R \in Seq(ReducedBracketChapters)
          BY <1>1 DEF IsReducedBook
        <5>2. QED
          BY <1>2, <3>1, <5>1
      <4>2. Range(q) = {} /\ Unclosed(R) = {}
        BY <3>1, <4>1 DEF Unclosed, LeftAfter, Range
      <4>3. QED
        BY <4>2
    <3>2. CASE m # 0
      <4>1. R # << >> /\ Last(R) = R[m]
        BY <1>2, <3>2 DEF Last
      <4>2. QED
        BY <3>2, <4>1 DEF Unclosed, LeftAfter
    <3>3. QED
      BY <3>1, <3>2
  <2>2. q \in Seq(Openers)
    <3>1. m \in 0 .. m
      BY <1>2
    <3>2. QED
      BY <1>2, <3>1
  <2> HIDE DEF q
  <2>3. DOMAIN last.stack = DOMAIN q /\ \A k \in DOMAIN q : last.stack[k] = Address(base)[q[k]]
    BY <1>7 DEF Mapping, q
  <2>4. \A k \in DOMAIN q : last.stack[k] = Opener(R, q[k])
    BY <1>7, <2>3 DEF Range, q
  <2> HIDE DEF last
  <2>5. Range(last.stack) = { Opener(R, p) : p \in Range(q) }
    BY <2>3, <2>4 DEF Range
  <2>6. QED
    BY <2>1, <2>5
<1>11. match.orphans = StraysUpTo(R, m) \cup Range(last.stack)
  <2> DEFINE strays == UNION { Strays(R, i) : i \in DOMAIN R }
  <2>1. strays = StraysUpTo(R, m)
    BY <1>2 DEF StraysUpTo
  <2>2. match.orphans = strays \cup Unclosed(R)
    BY <1>3
  <2> HIDE DEF strays, last
  <2>3. QED
    BY <1>10, <2>1, <2>2
<1>12. /\ last.stack \in Seq(1 .. n) /\ last.pairs \in SUBSET ((1 .. n) \X (1 .. n))
  BY <1>8 DEF Pairing
<1>13. Range(last.stack) \subseteq 1 .. n
  <2> DEFINE T == 1 .. n
             q == last.stack
  <2>1. q \in Seq(T)
    BY <1>12
  <2> HIDE DEF T, q
  <2>2. Range(q) \subseteq T
    BY <2>1 DEF Range
  <2>3. QED
    BY <2>2 DEF T, q
<1>14. \A e \in Range(last.stack) : e \notin Matched(last.pairs)
  <2> DEFINE q == last.stack
             P == last.pairs
  <2>1. q \in Seq(1 .. n) /\ P \in SUBSET ((1 .. n) \X (1 .. n)) /\ LiesClear(q, P) /\ Nested(P)
    BY <1>8, <1>12 DEF WellPaired
  <2> HIDE DEF q, P
  <2>2. \A k \in 1 .. Len(q) : q[k] \in Nat
    <3> DEFINE T == 1 .. n
    <3>1. T \subseteq Nat
      BY <1>5
    <3>2. q \in Seq(T)
      BY <2>1
    <3> HIDE DEF T
    <3>3. \A k \in 1 .. Len(q) : q[k] \in T
      BY <3>2
    <3>4. QED
      BY <3>1, <3>3
  <2>3. \A p \in P : p[1] \in Nat /\ p[2] \in Nat /\ p[1] < p[2]
    BY <1>5, <2>1 DEF Nested
  <2>4. \A k \in 1 .. Len(q) : \A p \in P : q[k] # p[1] /\ q[k] # p[2]
    BY <2>1, <2>2, <2>3 DEF LiesClear
  <2>5. \A e \in Range(q) : \E k \in 1 .. Len(q) : e = q[k]
    BY <2>1 DEF Range
  <2>6. \A e \in Matched(P) : \E p \in P : e = p[1] \/ e = p[2]
    BY DEF Matched
  <2>7. \A e \in Range(q) : e \notin Matched(P)
    <3>1. ASSUME NEW e \in Range(q), e \in Matched(P)
          PROVE  FALSE
      <4>1. PICK k \in 1 .. Len(q) : e = q[k]
        BY <2>5
      <4>2. PICK p \in P : e = p[1] \/ e = p[2]
        BY <2>6, <3>1
      <4>3. q[k] # p[1] /\ q[k] # p[2]
        BY <2>4
      <4>4. QED
        BY <4>1, <4>2, <4>3
    <3>2. QED
      BY <3>1
  <2>8. QED
    BY <2>7 DEF q, P
<1>15. MatchedEvents(match) = Matched(last.pairs)
  BY <1>9 DEF MatchedEvents, Matched
<1> HIDE DEF last
<1>16. match.orphans = (DOMAIN events) \ MatchedEvents(match)
  BY <1>5, <1>7, <1>11, <1>13, <1>14, <1>15 DEF PairedOrOpen
<1>17. Nested(match.pairs) /\ match.pairs = CensusMatch(events)
  BY <1>8, <1>9 DEF WellPaired
<1>18. \A p \in match.pairs : p[1] \in DOMAIN events /\ p[2] \in DOMAIN events
  BY <1>5, <1>9, <1>12
<1>19. QED
  BY <1>16, <1>17, <1>18 DEF events

(***************************************************************************)
(* Where a book's brackets are.                                            *)
(***************************************************************************)

(* The places of a chapter's brackets, and of a book's.                    *)
ChapterBrackets(chapter) ==
    Selected(PlacesOf(chapter),
             { p \in Range(PlacesOf(chapter)) : IsDelimiter(chapter[p[1]][p[2]]) })

BookBrackets(book) ==
    Selected(Spots(book), { p \in Range(Spots(book)) : IsDelimiter(book[p[1]][p[2]][p[3]]) })

(* The spots of a chapter are its places with its number before them.      *)
LEMMA SpotsAre ==
    ASSUME NEW U, NEW chapter \in Seq(Seq(U)), NEW c \in Nat
    PROVE  /\ SpotsIn(c, PlacesOf(chapter)) = Mapping(InChapter(c, PlacesIn(chapter)), PlacesOf(chapter))
           /\ SpotsIn(c, PlacesOf(chapter)) \in Seq(Triples)
           /\ Len(SpotsIn(c, PlacesOf(chapter))) = Len(PlacesOf(chapter))
<1> DEFINE s == PlacesOf(chapter)
           T == PlacesIn(chapter)
           f == InChapter(c, T)
           t == SpotsIn(c, s)
<1>1. s \in Seq(T) /\ \A p \in T : p[1] \in Nat /\ p[2] \in Nat /\ p = <<p[1], p[2]>>
  BY PlacesAre
<1> HIDE DEF s, T
<1>2. DOMAIN s = 1 .. Len(s) /\ Len(s) \in Nat /\ \A i \in 1 .. Len(s) : s[i] \in T
  BY <1>1
<1>3. \A p \in T : f[p] = <<c>> \o p /\ f[p] \in Triples
  <2>1. \A p \in T : IsTriple(<<c>> \o p, c, p)
    BY <1>1, Longer
  <2>2. QED
    BY <2>1 DEF InChapter, IsTriple
<1>4. t = [i \in 1 .. Len(s) |-> <<c>> \o s[i]]
  BY <1>2 DEF SpotsIn
<1> HIDE DEF f, t
<1>5. t = Mapping(f, s)
  <2>1. \A i \in 1 .. Len(s) : f[s[i]] = <<c>> \o s[i]
    BY <1>2, <1>3
  <2>2. QED
    BY <1>2, <1>4, <2>1 DEF Mapping
<1>6. t \in [1 .. Len(s) -> Triples]
  <2>1. \A i \in 1 .. Len(s) : <<c>> \o s[i] \in Triples
    BY <1>2, <1>3
  <2> HIDE DEF Triples
  <2>2. QED
    BY <1>4, <2>1
<1>7. t \in Seq(Triples) /\ Len(t) = Len(s)
  <2> DEFINE n == Len(s)
  <2>1. n \in Nat /\ t \in [1 .. n -> Triples]
    BY <1>2, <1>6
  <2> HIDE DEF n, Triples
  <2>2. t \in Seq(Triples) /\ Len(t) = n
    BY <2>1
  <2>3. QED
    BY <2>2 DEF n
<1>8. QED
  BY <1>5, <1>7 DEF f, t, s, T

ChapterSpots(book) == [c \in DOMAIN book |-> SpotsIn(c, PlacesOf(book[c]))]

(* The spots of a book are those of its chapters, in order.                *)
LEMMA ChapterSpotsIn ==
    ASSUME NEW U, NEW book \in Seq(Seq(Seq(U)))
    PROVE  /\ ChapterSpots(book) \in Seq(Seq(Triples)) /\ Len(ChapterSpots(book)) = Len(book)
           /\ Spots(book) = FlattenSeq(ChapterSpots(book)) /\ Spots(book) \in Seq(Triples)
<1> DEFINE m == Len(book)
           parts == ChapterSpots(book)
<1>1. m \in Nat /\ DOMAIN book = 1 .. m /\ \A c \in 1 .. m : book[c] \in Seq(Seq(U)) /\ c \in Nat
  OBVIOUS
<1>2. \A c \in 1 .. m : SpotsIn(c, PlacesOf(book[c])) \in Seq(Triples)
  BY <1>1, SpotsAre
<1>3. parts = [c \in 1 .. m |-> SpotsIn(c, PlacesOf(book[c]))]
  BY <1>1 DEF ChapterSpots
<1>4. parts \in [1 .. m -> Seq(Triples)]
  <2> DEFINE T == Seq(Triples)
  <2> HIDE DEF T
  <2>1. \A c \in 1 .. m : SpotsIn(c, PlacesOf(book[c])) \in T
    BY <1>2 DEF T
  <2>2. parts \in [1 .. m -> T]
    BY <1>3, <2>1
  <2>3. QED
    BY <2>2 DEF T
<1> HIDE DEF parts, m
<1>5. parts \in Seq(Seq(Triples)) /\ Len(parts) = m
  <2> DEFINE T == Seq(Triples)
  <2> HIDE DEF T
  <2>1. parts \in Seq(T) /\ Len(parts) = m
    BY <1>1, <1>4 DEF T
  <2>2. QED
    BY <2>1 DEF T
<1>6. Spots(book) = FlattenSeq(parts)
  BY DEF Spots, ChapterSpots, parts
<1>7. FlattenSeq(parts) \in Seq(Triples)
  BY <1>5, FlattenedIn
<1>8. QED
  BY <1>5, <1>6, <1>7 DEF parts, m

(* A chapter's part of the book's brackets.                                *)
LEMMA ChapterPart ==
    ASSUME NEW U, NEW book \in Seq(Seq(Seq(U))), NEW c \in 1 .. Len(book)
    PROVE  LET D == { p \in Range(Spots(book)) : IsDelimiter(book[p[1]][p[2]][p[3]]) } IN
           Selected(ChapterSpots(book)[c], D)
             = Mapping(InChapter(c, PlacesIn(book[c])), ChapterBrackets(book[c]))
<1> DEFINE D == { p \in Range(Spots(book)) : IsDelimiter(book[p[1]][p[2]][p[3]]) }
           chapter == book[c]
           s == PlacesOf(chapter)
           T == PlacesIn(chapter)
           f == InChapter(c, T)
           C == { p \in Range(s) : IsDelimiter(chapter[p[1]][p[2]]) }
           parts == ChapterSpots(book)
           spots == Spots(book)
<1>1. chapter \in Seq(Seq(U)) /\ c \in Nat /\ c \in DOMAIN book
  OBVIOUS
<1>2. s \in Seq(T) /\ \A p \in T : p[1] \in Nat /\ p[2] \in Nat /\ p = <<p[1], p[2]>>
  BY <1>1, PlacesAre
<1>3. parts[c] = Mapping(f, s) /\ Len(parts[c]) = Len(s)
  <2>1. parts[c] = SpotsIn(c, s)
    BY <1>1 DEF ChapterSpots
  <2>2. QED
    BY <1>1, <2>1, SpotsAre
<1>4. parts \in Seq(Seq(Triples)) /\ Len(parts) = Len(book) /\ spots = FlattenSeq(parts) /\ spots \in Seq(Triples)
  BY ChapterSpotsIn
<1>5. ChapterBrackets(chapter) = Selected(s, C)
  BY DEF ChapterBrackets
<1> HIDE DEF s, T, f, parts, spots
<1>6. Len(s) \in Nat /\ DOMAIN s = 1 .. Len(s) /\ \A i \in 1 .. Len(s) : s[i] \in T /\ s[i] \in Range(s)
  BY <1>2 DEF Range
<1>7. ASSUME NEW i \in 1 .. Len(s)
      PROVE  s[i] \in C <=> f[s[i]] \in D
  <2> DEFINE p == s[i]
             q == f[p]
  <2>1. p \in T /\ p \in Range(s) /\ p[1] \in Nat /\ p[2] \in Nat /\ p = <<p[1], p[2]>>
    BY <1>2, <1>6
  <2>2. q = <<c>> \o p
    BY <2>1 DEF f, InChapter
  <2>3. q[1] = c /\ q[2] = p[1] /\ q[3] = p[2]
    <3> HIDE DEF p, q
    <3>1. (<<c>> \o p)[1] = c /\ (<<c>> \o p)[2] = p[1] /\ (<<c>> \o p)[3] = p[2]
      <4>1. IsTriple(<<c>> \o p, c, p)
        BY <1>1, <2>1, Longer
      <4>2. QED
        BY <4>1 DEF IsTriple
    <3>2. QED
      BY <2>2, <3>1
  <2>4. q \in Range(spots)
    <3>1. LensOf(parts) \in Seq(Nat)
      BY <1>4, LensIn
    <3>2. PICK base : IsBase(base, LensOf(parts))
      BY <3>1, BaseExists
    <3>3. /\ base[c - 1] + i \in 1 .. Len(spots)
          /\ spots[base[c - 1] + i] = parts[c][i]
      <4>1. c \in 1 .. Len(parts) /\ i \in 1 .. Len(parts[c])
        BY <1>3, <1>4
      <4>2. QED
        BY <1>4, <3>2, <4>1, FlattenedAt
    <3>4. parts[c][i] = q
      BY <1>3, <1>6 DEF Mapping
    <3>5. DOMAIN spots = 1 .. Len(spots)
      BY <1>4
    <3> HIDE DEF q
    <3>6. QED
      BY <3>3, <3>4, <3>5 DEF Range
  <2> HIDE DEF p, q
  <2>5. q \in D <=> IsDelimiter(book[c][p[1]][p[2]])
    BY <2>3, <2>4 DEF spots
  <2>6. p \in C <=> IsDelimiter(book[c][p[1]][p[2]])
    BY <2>1
  <2>7. QED
    BY <2>5, <2>6 DEF p, q
<1> HIDE DEF C, D
<1>8. Selected(Mapping(f, s), D) = Mapping(f, Selected(s, C))
  BY <1>2, <1>7, SelectedMapping
<1>9. QED
  BY <1>3, <1>5, <1>8 DEF D, f, parts, T

(* The verse of the book a place is in.                                    *)
VerseOfPlace(book, p) == p[2] + TotalOf([c \in 1 .. p[1] - 1 |-> Len(book[c])])

BracketParts(book) ==
    [c \in 1 .. Len(book) |-> Mapping(InChapter(c, PlacesIn(book[c])), ChapterBrackets(book[c]))]

(* The events of a chapter are at its delimiters, in order.                *)
LEMMA ChapterBracketsAre ==
    ASSUME NEW U, NEW chapter \in Seq(Seq(U)), NEW c \in Nat
    PROVE  LET s == ChapterBrackets(chapter)
               t == Mapping(InChapter(c, PlacesIn(chapter)), s)
               events == MapBrackets(c, chapter).events IN
           /\ t \in Seq(Triples) /\ Len(t) = Len(s) /\ Len(events) = Len(s) /\ Len(s) \in Nat
           /\ \A k \in 1 .. Len(s) : t[k][1] = c /\ events[k].verse = t[k][2]
<1> DEFINE T == PlacesIn(chapter)
           s == ChapterBrackets(chapter)
           f == InChapter(c, T)
           t == Mapping(f, s)
           events == MapBrackets(c, chapter).events
           n == Len(s)
<1>1. PlacesOf(chapter) \in Seq(T) /\ \A p \in T : p[1] \in Nat /\ p[2] \in Nat /\ p = <<p[1], p[2]>>
  BY PlacesAre
<1>2. s \in Seq(T)
  BY <1>1, SelectedElements DEF ChapterBrackets
<1>3. events = Delimiters(chapter, s)
  BY DEF MapBrackets, ChapterBrackets
<1> HIDE DEF s, T, n
<1>4. n \in Nat /\ DOMAIN s = 1 .. n /\ \A k \in 1 .. n : s[k] \in T
  BY <1>2 DEF n
<1>5. \A p \in T : f[p] \in Triples /\ f[p][1] = c /\ f[p][2] = p[1]
  <2>1. ASSUME NEW p \in T
        PROVE  f[p] \in Triples /\ f[p][1] = c /\ f[p][2] = p[1]
    <3>1. f[p] = <<c>> \o p
      BY <2>1 DEF InChapter
    <3> HIDE DEF f
    <3>2. IsTriple(<<c>> \o p, c, p)
      BY <1>1, Longer
    <3>3. QED
      BY <3>1, <3>2 DEF IsTriple
  <2>2. QED
    BY <2>1
<1> HIDE DEF f
<1>6. t = [k \in 1 .. n |-> f[s[k]]]
  BY <1>4 DEF Mapping
<1>7. t \in Seq(Triples) /\ Len(t) = n
  <2> DEFINE V == Triples
  <2> HIDE DEF t, V
  <2>1. t \in [1 .. n -> V]
    BY <1>4, <1>5, <1>6 DEF V
  <2>2. t \in Seq(V) /\ Len(t) = n
    BY <1>4, <2>1
  <2>3. QED
    BY <2>2 DEF V
<1>8. events = [k \in 1 .. n |-> Delimiter(s[k][1], s[k][2], chapter[s[k][1]][s[k][2]].glyph)]
  BY <1>3, <1>4 DEF Delimiters
<1>9. \A k \in 1 .. n : events[k].verse = s[k][1]
  <2>1. \A v, i, g : Delimiter(v, i, g).verse = v
    BY DEF Delimiter
  <2> HIDE DEF events
  <2>2. QED
    BY <1>8, <2>1
<1>10. Len(events) = n
  <2>1. events \in Seq(BracketEvents)
    <3>1. MapBrackets(c, chapter) \in BracketObservations
      BY BracketsMapped
    <3>2. QED
      BY <3>1 DEF BracketObservations
  <2>2. DOMAIN events = 1 .. n
    BY <1>8
  <2> HIDE DEF events
  <2>3. QED
    BY <1>4, <2>1, <2>2
<1>11. \A k \in 1 .. n : t[k][1] = c /\ events[k].verse = t[k][2]
  <2> HIDE DEF t, events
  <2>1. QED
    BY <1>4, <1>5, <1>6, <1>9
<1>12. QED
  BY <1>4, <1>7, <1>10, <1>11 DEF n, s, f, T

(* The events of a book are at its delimiters, in order, each with the     *)
(* number of its verse.                                                    *)
LEMMA BracketPlaces ==
    ASSUME NEW U, NEW book \in Seq(Seq(Seq(U))), NEW match, match = BookMatch(book)
    PROVE  /\ DOMAIN match.events = DOMAIN BookBrackets(book)
           /\ \A k \in DOMAIN match.events :
                 match.events[k].verse = VerseOfPlace(book, BookBrackets(book)[k])
<1> DEFINE R == ReducedBrackets(book)
           m == Len(book)
           events == match.events
           wide == WidenedParts(R)
           parts == BracketParts(book)
           places == BookBrackets(book)
           lens == LensOf(wide)
<1>1. IsReducedBook(R, book)
  BY BookReduced
<1>2. events = FlattenSeq(wide)
  BY DEF BookMatch, FoldBrackets, WidenedParts
<1> HIDE DEF R
<1>3. /\ m \in Nat /\ DOMAIN R = 1 .. m
      /\ \A i \in 1 .. m : R[i].verses = Len(book[i]) /\ R[i].events = ObservedAt(book, i).events
  <2>1. m \in Nat /\ DOMAIN R = 1 .. m
    BY <1>1, BookNames
  <2>2. \A i \in 1 .. m : IsNamed(R, book, i)
    BY <1>1, BookNames
  <2>3. QED
    BY <2>1, <2>2 DEF IsNamed
<1>4. /\ wide \in Seq(Seq(BracketEvents)) /\ Len(wide) = m
      /\ \A i \in 1 .. m :
            /\ Len(wide[i]) = Len(R[i].events)
            /\ \A j \in 1 .. Len(R[i].events) : wide[i][j].verse = R[i].events[j].verse + VerseBase(R, i)
  <2>1. /\ wide \in Seq(Seq(BracketEvents)) /\ Len(wide) = m
        /\ \A i \in 1 .. m : IsWidened(wide[i], R[i].events, VerseBase(R, i))
    BY <1>1, WidenedIn
  <2> HIDE DEF wide, m
  <2>2. QED
    BY <2>1 DEF IsWidened
<1>5. \A i \in 1 .. m : book[i] \in Seq(Seq(U)) /\ i \in Nat
  OBVIOUS
<1>6. ASSUME NEW i \in 1 .. m
      PROVE  /\ parts[i] \in Seq(Triples) /\ Len(parts[i]) = Len(wide[i])
             /\ \A j \in 1 .. Len(wide[i]) :
                   parts[i][j][1] = i /\ wide[i][j].verse = parts[i][j][2] + VerseBase(R, i)
  <2> DEFINE s == ChapterBrackets(book[i])
             t == Mapping(InChapter(i, PlacesIn(book[i])), s)
             obs == MapBrackets(i, book[i]).events
  <2>1. /\ t \in Seq(Triples) /\ Len(t) = Len(s) /\ Len(obs) = Len(s)
        /\ \A k \in 1 .. Len(s) : t[k][1] = i /\ obs[k].verse = t[k][2]
    BY <1>5, ChapterBracketsAre
  <2>2. parts[i] = t
    BY DEF BracketParts
  <2>3. R[i].events = obs
    BY <1>3 DEF ObservedAt
  <2> HIDE DEF s, t, obs, wide, parts, m
  <2>4. Len(wide[i]) = Len(s) /\ \A j \in 1 .. Len(s) : wide[i][j].verse = obs[j].verse + VerseBase(R, i)
    BY <1>4, <2>1, <2>3
  <2>5. QED
    BY <2>1, <2>2, <2>4
<1>7. parts \in Seq(Seq(Triples)) /\ Len(parts) = m
  <2> DEFINE V == Seq(Triples)
  <2> HIDE DEF V
  <2>1. DOMAIN parts = 1 .. m /\ parts = [c \in 1 .. m |-> parts[c]]
    BY DEF BracketParts
  <2>2. \A i \in 1 .. m : parts[i] \in V
    BY <1>6 DEF V
  <2> HIDE DEF parts, m
  <2>3. parts \in [1 .. m -> V]
    BY <2>1, <2>2
  <2>4. parts \in Seq(V) /\ Len(parts) = m
    BY <1>3, <2>3
  <2>5. QED
    BY <2>4 DEF V
<1>8. places = FlattenSeq(parts)
  <2> DEFINE D == { p \in Range(Spots(book)) : IsDelimiter(book[p[1]][p[2]][p[3]]) }
             spots == ChapterSpots(book)
             chosen == [n \in 1 .. Len(spots) |-> Selected(spots[n], D)]
  <2>1. /\ spots \in Seq(Seq(Triples)) /\ Len(spots) = m /\ Spots(book) = FlattenSeq(spots)
    BY ChapterSpotsIn
  <2>2. places = Selected(Spots(book), D)
    BY DEF BookBrackets
  <2>3. \A i \in 1 .. m : Selected(spots[i], D) = Mapping(InChapter(i, PlacesIn(book[i])), ChapterBrackets(book[i]))
    BY ChapterPart
  <2> HIDE DEF D, spots
  <2>4. Selected(FlattenSeq(spots), D) = FlattenSeq(chosen)
    BY <2>1, SelectedFlatten
  <2>5. chosen = parts
    BY <2>1, <2>3 DEF BracketParts
  <2> HIDE DEF chosen, parts, places
  <2>6. QED
    BY <2>1, <2>2, <2>4, <2>5
<1> HIDE DEF events, wide, parts, places, lens, m
<1>9. LensOf(parts) = lens
  <2>1. \A i \in 1 .. m : Len(parts[i]) = Len(wide[i])
    BY <1>6
  <2>2. QED
    BY <1>4, <1>7, <2>1 DEF LensOf, lens
<1>10. lens \in Seq(Nat)
  BY <1>4, LensIn DEF lens
<1>11. PICK base : IsBase(base, lens)
  BY <1>10, BaseExists
<1>12. /\ Len(events) = base[m]
       /\ \A i \in 1 .. m : \A j \in 1 .. Len(wide[i]) : events[base[i - 1] + j] = wide[i][j]
       /\ \A k \in 1 .. Len(events) :
             \E i \in 1 .. m : \E j \in 1 .. Len(wide[i]) : k = base[i - 1] + j
  <2> DEFINE flat == FlattenSeq(wide)
             q == Len(wide)
  <2>1. IsBase(base, LensOf(wide)) /\ wide \in Seq(Seq(BracketEvents))
    BY <1>4, <1>11 DEF lens
  <2>2. q = m /\ events = flat
    BY <1>2, <1>4
  <2>3. /\ Len(flat) = base[q]
        /\ \A i \in 1 .. q : \A j \in 1 .. Len(wide[i]) : flat[base[i - 1] + j] = wide[i][j]
        /\ \A k \in 1 .. Len(flat) :
              \E i \in 1 .. q : \E j \in 1 .. Len(wide[i]) : k = base[i - 1] + j
    <3>1. Len(flat) = base[q]
      BY <2>1, FlattenedAt
    <3>2. \A i \in 1 .. q : \A j \in 1 .. Len(wide[i]) : flat[base[i - 1] + j] = wide[i][j]
      BY <2>1, FlattenedAt
    <3>3. ComesFrom(flat, base, wide)
      BY <2>1, FlattenedAt
    <3>4. q = Len(wide)
      OBVIOUS
    <3> HIDE DEF flat, q
    <3>5. QED
      BY <3>1, <3>2, <3>3, <3>4 DEF ComesFrom
  <2> HIDE DEF flat, q
  <2>4. QED
    BY <2>2, <2>3
<1>13. /\ Len(places) = base[m]
       /\ \A i \in 1 .. m : \A j \in 1 .. Len(parts[i]) : places[base[i - 1] + j] = parts[i][j]
  <2> DEFINE flat == FlattenSeq(parts)
             q == Len(parts)
  <2>1. IsBase(base, LensOf(parts)) /\ parts \in Seq(Seq(Triples))
    BY <1>7, <1>9, <1>11
  <2>2. q = m /\ places = flat
    BY <1>7, <1>8
  <2>3. /\ Len(flat) = base[q]
        /\ \A i \in 1 .. q : \A j \in 1 .. Len(parts[i]) : flat[base[i - 1] + j] = parts[i][j]
    <3>1. Len(flat) = base[q]
      BY <2>1, FlattenedAt
    <3>2. \A i \in 1 .. q : \A j \in 1 .. Len(parts[i]) : flat[base[i - 1] + j] = parts[i][j]
      BY <2>1, FlattenedAt
    <3> HIDE DEF flat, q
    <3>3. QED
      BY <3>1, <3>2
  <2> HIDE DEF flat, q
  <2>4. QED
    BY <2>2, <2>3
<1>14. events \in Seq(BracketEvents) /\ places \in Seq(Triples)
  BY <1>2, <1>4, <1>7, <1>8, FlattenedIn
<1>15. DOMAIN events = 1 .. Len(events) /\ DOMAIN places = 1 .. Len(events)
  BY <1>12, <1>13, <1>14
<1>16. ASSUME NEW k \in 1 .. Len(events)
       PROVE  events[k].verse = VerseOfPlace(book, places[k])
  <2>1. PICK i \in 1 .. m : \E j \in 1 .. Len(wide[i]) : k = base[i - 1] + j
    BY <1>12
  <2>2. PICK j \in 1 .. Len(wide[i]) : k = base[i - 1] + j
    BY <2>1
  <2>3. events[k] = wide[i][j] /\ places[k] = parts[i][j]
    BY <1>6, <1>12, <1>13, <2>2
  <2>4. places[k][1] = i /\ events[k].verse = places[k][2] + VerseBase(R, i)
    BY <1>6, <2>3
  <2>5. VerseBase(R, i) = TotalOf([c \in 1 .. i - 1 |-> Len(book[c])])
    <3>1. \A c \in 1 .. i - 1 : c \in 1 .. m
      BY <1>3
    <3>2. [c \in 1 .. i - 1 |-> R[c].verses] = [c \in 1 .. i - 1 |-> Len(book[c])]
      BY <1>3, <3>1
    <3>3. QED
      BY <3>2 DEF VerseBase
  <2>6. QED
    BY <2>4, <2>5 DEF VerseOfPlace
<1>17. QED
  BY <1>15, <1>16 DEF events, places

(***************************************************************************)
(* Every book of every corpus.                                             *)
(***************************************************************************)
LEMMA BracketsPaired ==
    ASSUME CorpusTyped
    PROVE  BracketsPairAsTheCensus
<1> SUFFICES ASSUME rule = "brackets", NEW b \in DOMAIN corpus
             PROVE  PairsWell(b, BookMatch(corpus[b]), DelimiterPlaces(b))
  BY DEF BracketsPairAsTheCensus
<1> DEFINE book == corpus[b]
           match == BookMatch(book)
           places == BookBrackets(book)
           U == Alphabet(rule)
<1>1. book \in Seq(Seq(Seq(U)))
  BY BookIn DEF CorpusTyped, Corpora
<1>2. DelimiterPlaces(b) = places
  BY DEF DelimiterPlaces, BookBrackets, At
<1>3. \A p : VerseNumber(b, p) = VerseOfPlace(book, p)
  BY DEF VerseNumber, VerseOfPlace
<1> HIDE DEF book, match, places, U
<1>4. /\ match.pairs = CensusMatch(match.events)
      /\ match.orphans = (DOMAIN match.events) \ MatchedEvents(match)
      /\ Nested(match.pairs)
      /\ \A p \in match.pairs : p[1] \in DOMAIN match.events /\ p[2] \in DOMAIN match.events
  BY <1>1, BookPairs DEF match
<1>5. /\ DOMAIN match.events = DOMAIN places
      /\ \A k \in DOMAIN match.events : match.events[k].verse = VerseOfPlace(book, places[k])
  BY <1>1, BracketPlaces DEF match, places
<1>6. \A p \in match.pairs :
        Distance(match, p) = VerseNumber(b, places[p[2]]) - VerseNumber(b, places[p[1]])
  BY <1>3, <1>4, <1>5 DEF Distance
<1>7. PairsWell(b, match, places)
  BY <1>4, <1>5, <1>6 DEF PairsWell, Nested
<1>8. QED
  BY <1>2, <1>7 DEF match, book

(***************************************************************************)
(* Brackets matched chapter by chapter, each on the openers the one before *)
(* left open, are paired as one census over the whole book pairs them:     *)
(* nested, within the family, with every unpaired delimiter an orphan at its*)
(* own verse.                                                              *)
(***************************************************************************)
THEOREM PairedAsTheCensus == Spec => []BracketsPairAsTheCensus
<1>1. CorpusTyped => BracketsPairAsTheCensus
  BY BracketsPaired
<1>2. QED
  BY <1>1, Typed, PTL

(* The model's order of places is that of their numbers, place by place.   *)
LEMMA BeforeIsSooner ==
    ASSUME NEW a \in Quads, NEW b \in Quads
    PROVE  Before(a, b) <=> Sooner(a, b)
<1>1. DOMAIN a = {1, 2, 3, 4}
  BY DEF Quads
<1>2. 1 .. 0 = {} /\ 1 .. 1 = {1} /\ 1 .. 2 = {1, 2} /\ 1 .. 3 = {1, 2, 3}
  OBVIOUS
<1> DEFINE Differs(i) == a[i] < b[i] /\ \A j \in 1 .. i - 1 : a[j] = b[j]
<1>3. Before(a, b) <=> \E i \in {1, 2, 3, 4} : Differs(i)
  BY <1>1 DEF Before
<1>4. Differs(1) <=> a[1] < b[1]
  BY <1>2
<1>5. Differs(2) <=> a[2] < b[2] /\ a[1] = b[1]
  BY <1>2
<1>6. Differs(3) <=> a[3] < b[3] /\ a[1] = b[1] /\ a[2] = b[2]
  BY <1>2
<1>7. Differs(4) <=> a[4] < b[4] /\ a[1] = b[1] /\ a[2] = b[2] /\ a[3] = b[3]
  BY <1>2
<1> HIDE DEF Differs
<1>8. QED
  BY <1>3, <1>4, <1>5, <1>6, <1>7 DEF Sooner

(* That order is strict and total.                                         *)
LEMMA QuadsOrdered ==
    /\ \A a \in Quads : ~ Before(a, a)
    /\ \A a, b \in Quads : a # b => Before(a, b) \/ Before(b, a)
    /\ \A a, b, c \in Quads : Before(a, b) /\ Before(b, c) => Before(a, c)
<1>1. ASSUME NEW a \in Quads
      PROVE  ~ Before(a, a)
  <2>1. ~ Sooner(a, a)
    BY DEF Sooner, Quads
  <2>2. QED
    BY <2>1, BeforeIsSooner
<1>2. ASSUME NEW a \in Quads, NEW b \in Quads, a # b
      PROVE  Before(a, b) \/ Before(b, a)
  <2>1. ~ (a[1] = b[1] /\ a[2] = b[2] /\ a[3] = b[3] /\ a[4] = b[4])
    BY <1>2 DEF Quads
  <2>2. \A i \in {1, 2, 3, 4} : a[i] \in Nat /\ b[i] \in Nat
    BY DEF Quads
  <2>3. Sooner(a, b) \/ Sooner(b, a)
    BY <2>1, <2>2 DEF Sooner
  <2>4. QED
    BY <2>3, BeforeIsSooner
<1>3. ASSUME NEW a \in Quads, NEW b \in Quads, NEW c \in Quads, Before(a, b), Before(b, c)
      PROVE  Before(a, c)
  <2>1. \A i \in {1, 2, 3, 4} : a[i] \in Nat /\ b[i] \in Nat /\ c[i] \in Nat
    BY DEF Quads
  <2>2. Sooner(a, b) /\ Sooner(b, c)
    BY <1>3, BeforeIsSooner
  <2>3. Sooner(a, c)
    BY <2>1, <2>2 DEF Sooner
  <2>4. QED
    BY <2>3, BeforeIsSooner
<1>4. QED
  BY <1>1, <1>2, <1>3

IsLeast(a, S) == a \in S /\ \A b \in S \ {a} : Before(a, b)

(* The first of a set is the one that no other comes before.               *)
LEMMA FirstIs ==
    ASSUME NEW S \in SUBSET Quads, NEW a, IsLeast(a, S)
    PROVE  First(S) = a
<1> DEFINE f == First(S)
<1>1. f \in S /\ \A b \in S \ {f} : Before(f, b)
  BY DEF First, IsLeast
<1> HIDE DEF f
<1>2. ASSUME f # a
      PROVE  FALSE
  <2>1. Before(f, a) /\ Before(a, f) /\ a \in Quads /\ f \in Quads
    BY <1>1, <1>2 DEF IsLeast
  <2>2. QED
    BY <2>1, QuadsOrdered
<1>3. QED
  BY <1>2 DEF f

(* A finite set of places that is not empty has a first.                   *)
LEMMA LeastOf ==
    ASSUME NEW S \in SUBSET Quads, IsFiniteSet(S), S # {}
    PROVE  IsLeast(First(S), S)
<1> DEFINE R == { z \in S \X S : Before(z[1], z[2]) }
<1>1. \A a, b \in S : <<a, b>> \in R <=> Before(a, b)
  OBVIOUS
<1> HIDE DEF R
<1>2. IsOrder(R, S)
  BY <1>1, QuadsOrdered DEF IsOrder
<1>3. PICK a \in S : \A b \in S \ {a} : <<a, b>> \in R
  BY <1>2, LeastExists
<1>4. IsLeast(a, S)
  BY <1>1, <1>3 DEF IsLeast
<1>5. QED
  BY <1>4, FirstIs



(***************************************************************************)
(* The forms of a set of sites: how often each is written, and where first.*)
(***************************************************************************)
Rows(S) == [count : Nat, first : S]

IsAccount(rows, w, S, R) ==
    /\ IsFiniteSet(S)
    /\ DOMAIN rows = { w[p] : p \in S }
    /\ rows \in [DOMAIN rows -> Rows(S)]
    /\ \A raw \in DOMAIN rows :
          /\ rows[raw].count = Cardinality(FormSites(w, S, raw))
          /\ rows[raw].first \in FormSites(w, S, raw)
          /\ \A q \in FormSites(w, S, raw) \ {rows[raw].first} : <<rows[raw].first, q>> \in R

AddsForm(next, rows, raw, at) ==
    /\ DOMAIN next = (DOMAIN rows) \cup {raw}
    /\ \A r \in (DOMAIN rows) \ {raw} : next[r] = rows[r]
    /\ next[raw] = IF raw \in DOMAIN rows
                   THEN [count |-> rows[raw].count + 1, first |-> rows[raw].first]
                   ELSE [count |-> 1, first |-> at]

(* A unit added to a table of forms moves the row of its form only.        *)
LEMMA FormAdded ==
    ASSUME NEW S, NEW rows, rows \in [DOMAIN rows -> Rows(S)], NEW raw, NEW at
    PROVE  AddsForm(WithForm(rows, raw, at), rows, raw, at)
<1> DEFINE D == DOMAIN rows
<1>1. CASE raw \in D
  <2> DEFINE next == [rows EXCEPT ![raw].count = @ + 1]
             x == rows[raw]
  <2>1. WithForm(rows, raw, at) = next
    BY <1>1 DEF WithForm
  <2>2. x = [count |-> x.count, first |-> x.first]
    BY <1>1 DEF Rows
  <2>3. next = [rows EXCEPT ![raw] = [x EXCEPT !.count = x.count + 1]]
    OBVIOUS
  <2>4. [x EXCEPT !.count = x.count + 1] = [count |-> x.count + 1, first |-> x.first]
    <3> DEFINE c == x.count
               f == x.first
    <3>1. x = [count |-> c, first |-> f]
      BY <2>2
    <3> HIDE DEF c, f, x
    <3>2. [x EXCEPT !.count = c + 1] = [count |-> c + 1, first |-> f]
      BY <3>1
    <3>3. QED
      BY <3>2 DEF c, f
  <2> HIDE DEF x, next
  <2>5. /\ DOMAIN next = D /\ \A r \in D \ {raw} : next[r] = rows[r]
        /\ next[raw] = [count |-> x.count + 1, first |-> x.first]
    BY <1>1, <2>3, <2>4
  <2>6. QED
    BY <1>1, <2>1, <2>5 DEF x, AddsForm
<1>2. CASE raw \notin D
  BY <1>2 DEF WithForm, AddsForm
<1>3. QED
  BY <1>1, <1>2

(* A table that accounts for the units so far, with one more, accounts for *)
(* them and for it.                                                        *)
LEMMA AccountForm ==
    ASSUME NEW rows, NEW w, NEW S, NEW R, IsAccount(rows, w, S, R), NEW p, p \notin S,
           \A q \in S : <<q, p>> \in R
    PROVE  IsAccount(WithForm(rows, w[p], p), w, S \cup {p}, R)
<1> DEFINE raw == w[p]
           D == DOMAIN rows
           T == S \cup {p}
           next == WithForm(rows, raw, p)
<1>1. /\ IsFiniteSet(S) /\ D = { w[q] : q \in S } /\ rows \in [D -> Rows(S)]
      /\ \A r \in D : /\ rows[r].count = Cardinality(FormSites(w, S, r))
                      /\ rows[r].first \in FormSites(w, S, r)
                      /\ \A q \in FormSites(w, S, r) \ {rows[r].first} : <<rows[r].first, q>> \in R
  BY DEF IsAccount
<1>2. /\ DOMAIN next = D \cup {raw} /\ \A r \in D \ {raw} : next[r] = rows[r]
      /\ next[raw] = IF raw \in D THEN [count |-> rows[raw].count + 1, first |-> rows[raw].first]
                                  ELSE [count |-> 1, first |-> p]
  <2>1. rows \in [DOMAIN rows -> Rows(S)]
    BY <1>1
  <2>2. AddsForm(next, rows, raw, p)
    BY <2>1, FormAdded
  <2> HIDE DEF raw, next
  <2>3. QED
    BY <2>2 DEF AddsForm
<1>3. next = [r \in DOMAIN next |-> next[r]]
  BY DEF WithForm
<1> HIDE DEF next
<1>4. IsFiniteSet(T)
  BY <1>1, FS_AddElement
<1>5. { w[q] : q \in T } = D \cup {raw}
  BY <1>1
<1>6. /\ \A r : r # raw => FormSites(w, T, r) = FormSites(w, S, r)
      /\ FormSites(w, T, raw) = FormSites(w, S, raw) \cup {p} /\ p \notin FormSites(w, S, raw)
  BY DEF FormSites
<1>7. \A r : IsFiniteSet(FormSites(w, S, r)) /\ FormSites(w, S, r) \subseteq S
  <2>1. \A r : FormSites(w, S, r) \in SUBSET S
    BY DEF FormSites
  <2>2. QED
    BY <1>1, <2>1, FS_Subset
<1>8. \A r \in D : rows[r].count \in Nat /\ rows[r].first \in S
  BY <1>1 DEF Rows
<1>9. ASSUME NEW r \in D \cup {raw}
      PROVE  /\ next[r] \in Rows(T)
             /\ next[r].count = Cardinality(FormSites(w, T, r))
             /\ next[r].first \in FormSites(w, T, r)
             /\ \A q \in FormSites(w, T, r) \ {next[r].first} : <<next[r].first, q>> \in R
  <2>1. CASE r # raw
    <3>1. r \in D /\ next[r] = rows[r] /\ FormSites(w, T, r) = FormSites(w, S, r)
      BY <1>2, <1>6, <1>9, <2>1
    <3>2. rows[r] \in Rows(T)
      <4>1. rows[r] \in Rows(S) /\ S \subseteq T
        BY <1>1, <3>1
      <4>2. QED
        BY <4>1 DEF Rows
    <3>3. QED
      BY <1>1, <3>1, <3>2
  <2>2. CASE r = raw /\ raw \in D
    <3> DEFINE c == rows[raw].count
               f == rows[raw].first
    <3>1. next[r] = [count |-> c + 1, first |-> f]
      BY <1>2, <2>2
    <3>2. /\ c \in Nat /\ f \in S /\ f \in T /\ c = Cardinality(FormSites(w, S, raw))
          /\ f \in FormSites(w, S, raw) /\ \A q \in FormSites(w, S, raw) \ {f} : <<f, q>> \in R
      BY <1>1, <1>8, <2>2
    <3> HIDE DEF c, f, T
    <3>3. next[r] \in Rows(T) /\ next[r].count = c + 1 /\ next[r].first = f
      BY <3>1, <3>2 DEF Rows
    <3>4. Cardinality(FormSites(w, T, raw)) = c + 1
      <4> DEFINE A == FormSites(w, S, raw)
      <4>1. IsFiniteSet(A) /\ p \notin A /\ FormSites(w, T, raw) = A \cup {p} /\ c = Cardinality(A)
        BY <1>6, <1>7, <3>2
      <4> HIDE DEF A
      <4>2. Cardinality(A \cup {p}) = Cardinality(A) + 1
        BY <4>1, FS_AddElement
      <4>3. QED
        BY <4>1, <4>2
    <3>5. <<f, p>> \in R
      BY <3>2
    <3>6. \A q \in FormSites(w, T, raw) \ {f} : <<f, q>> \in R
      BY <1>6, <3>2, <3>5
    <3>7. QED
      BY <1>6, <2>2, <3>2, <3>3, <3>4, <3>6
  <2>3. CASE r = raw /\ raw \notin D
    <3>1. next[r] = [count |-> 1, first |-> p] /\ p \in T
      BY <1>2, <2>3
    <3>2. FormSites(w, S, raw) = {}
      BY <1>1, <2>3 DEF FormSites
    <3>3. FormSites(w, T, raw) = {p}
      BY <1>6, <3>2
    <3>4. Cardinality({p}) = 1
      BY FS_Singleton
    <3> HIDE DEF T
    <3>5. next[r] \in Rows(T) /\ next[r].count = 1 /\ next[r].first = p
      BY <3>1 DEF Rows
    <3>6. QED
      BY <2>3, <3>3, <3>4, <3>5
  <2>4. QED
    BY <1>9, <2>1, <2>2, <2>3
<1> HIDE DEF T
<1>10. next \in [DOMAIN next -> Rows(T)]
  BY <1>2, <1>3, <1>9
<1>11. IsAccount(next, w, T, R)
  BY <1>2, <1>4, <1>5, <1>9, <1>10 DEF IsAccount
<1>12. QED
  BY <1>11 DEF next, T

LEMMA NoAccount ==
    ASSUME NEW w, NEW R
    PROVE  IsAccount(<< >>, w, {}, R)
<1>1. DOMAIN << >> = {} /\ { w[p] : p \in {} } = {}
  OBVIOUS
<1>2. << >> \in [{} -> Rows({})]
  OBVIOUS
<1>3. QED
  BY <1>1, <1>2, FS_EmptySet DEF IsAccount

MergesRows(next, merged, rows, chapter) ==
    /\ next = [r \in DOMAIN next |-> next[r]]
    /\ DOMAIN next = (DOMAIN merged) \cup DOMAIN rows
    /\ \A r \in (DOMAIN merged) \ DOMAIN rows : next[r] = merged[r]
    /\ \A r \in (DOMAIN rows) \ DOMAIN merged :
          next[r] = [count |-> rows[r].count, first |-> chapter \o rows[r].first]
    /\ \A r \in (DOMAIN merged) \cap DOMAIN rows :
          next[r] = [count |-> merged[r].count + rows[r].count, first |-> merged[r].first]

(* Merging a chapter's rows adds to each row what the chapter counted, and *)
(* keeps the earlier first place.                                          *)
LEMMA RowsMerged ==
    ASSUME NEW S, NEW merged, merged \in [DOMAIN merged -> Rows(S)], NEW rows, NEW chapter
    PROVE  MergesRows(WithRows(merged, rows, chapter), merged, rows, chapter)
<1> DEFINE D == DOMAIN merged
           E == DOMAIN rows
           next == WithRows(merged, rows, chapter)
           Value(r) == IF r \notin D
                       THEN [count |-> rows[r].count, first |-> chapter \o rows[r].first]
                       ELSE IF r \notin E THEN merged[r]
                       ELSE [merged[r] EXCEPT !.count = @ + rows[r].count]
<1>1. next = [r \in D \cup E |-> Value(r)]
  BY DEF WithRows
<1>2. \A r \in D \ E : Value(r) = merged[r]
  OBVIOUS
<1>3. \A r \in E \ D : Value(r) = [count |-> rows[r].count, first |-> chapter \o rows[r].first]
  OBVIOUS
<1>4. ASSUME NEW r \in D \cap E
      PROVE  Value(r) = [count |-> merged[r].count + rows[r].count, first |-> merged[r].first]
  <2> DEFINE x == merged[r]
             c == x.count
             g == x.first
             k == rows[r].count
  <2>1. x = [count |-> c, first |-> g]
    BY <1>4 DEF Rows
  <2>2. Value(r) = [x EXCEPT !.count = c + k]
    BY <1>4
  <2> HIDE DEF c, g, x, k, Value
  <2>3. [x EXCEPT !.count = c + k] = [count |-> c + k, first |-> g]
    BY <2>1
  <2>4. QED
    BY <2>2, <2>3 DEF c, g, x, k
<1> HIDE DEF Value, next
<1>5. DOMAIN next = D \cup E /\ \A r \in D \cup E : next[r] = Value(r)
  BY <1>1
<1>6. next = [r \in DOMAIN next |-> next[r]]
  BY <1>1
<1>7. QED
  BY <1>2, <1>3, <1>4, <1>5, <1>6 DEF MergesRows, next

(* A merged table that accounts for the chapters so far, with the rows of  *)
(* one more, accounts for them and for it.                                 *)
LEMMA AccountRows ==
    ASSUME NEW merged, NEW w, NEW S, NEW R, IsAccount(merged, w, S, R),
           NEW rows, NEW v, NEW P, NEW Q, IsAccount(rows, v, P, Q),
           NEW f, IsPart(w, S, R, v, P, Q, f), NEW chapter, \A p \in P : f[p] = chapter \o p
    PROVE  IsAccount(WithRows(merged, rows, chapter), w, S \cup ImageOf(f, P), R)
<1> DEFINE D == DOMAIN merged
           E == DOMAIN rows
           T == S \cup ImageOf(f, P)
           next == WithRows(merged, rows, chapter)
<1>1. /\ IsFiniteSet(S) /\ D = { w[q] : q \in S } /\ merged \in [D -> Rows(S)]
      /\ \A r \in D : /\ merged[r].count = Cardinality(FormSites(w, S, r))
                      /\ merged[r].first \in FormSites(w, S, r)
                      /\ \A q \in FormSites(w, S, r) \ {merged[r].first} : <<merged[r].first, q>> \in R
  BY DEF IsAccount
<1>2. /\ IsFiniteSet(P) /\ E = { v[q] : q \in P } /\ rows \in [E -> Rows(P)]
      /\ \A r \in E : /\ rows[r].count = Cardinality(FormSites(v, P, r))
                      /\ rows[r].first \in FormSites(v, P, r)
                      /\ \A q \in FormSites(v, P, r) \ {rows[r].first} : <<rows[r].first, q>> \in Q
  BY DEF IsAccount
<1>3. MergesRows(next, merged, rows, chapter)
  BY <1>1, RowsMerged
<1>4. /\ next = [r \in DOMAIN next |-> next[r]] /\ DOMAIN next = D \cup E
      /\ \A r \in D \ E : next[r] = merged[r]
      /\ \A r \in E \ D : next[r] = [count |-> rows[r].count, first |-> chapter \o rows[r].first]
      /\ \A r \in D \cap E :
            next[r] = [count |-> merged[r].count + rows[r].count, first |-> merged[r].first]
  BY <1>3 DEF MergesRows
<1> HIDE DEF next
<1>5. IsFiniteSet(T)
  <2>1. IsFiniteSet(ImageOf(f, P))
    BY <1>2, ImageCounted DEF ImageOf, IsPart
  <2>2. QED
    BY <1>1, <2>1, FS_Union
<1>6. { w[q] : q \in T } = D \cup E
  <2>1. \A p \in P : w[f[p]] = v[p] /\ f[p] \in T
    BY DEF IsPart, ImageOf
  <2>2. \A q \in T : q \in S \/ \E p \in P : q = f[p]
    BY DEF ImageOf
  <2> HIDE DEF D, E
  <2>3. \A x \in D \cup E : \E q \in T : x = w[q]
    BY <1>1, <1>2, <2>1
  <2>4. \A q \in T : w[q] \in D \cup E
    BY <1>1, <1>2, <2>1, <2>2
  <2> HIDE DEF T
  <2>5. QED
    BY <2>3, <2>4
<1>7. \A r : /\ FormSites(w, T, r) = FormSites(w, S, r) \cup ImageOf(f, FormSites(v, P, r))
             /\ Cardinality(FormSites(w, T, r)) = Cardinality(FormSites(w, S, r)) + Cardinality(FormSites(v, P, r))
             /\ Cardinality(FormSites(w, S, r)) \in Nat /\ Cardinality(FormSites(v, P, r)) \in Nat
  BY <1>1, <1>2, PartSpelled
<1>8. /\ \A r : r \notin D => FormSites(w, S, r) = {}
      /\ \A r : r \notin E => FormSites(v, P, r) = {}
  BY <1>1, <1>2 DEF FormSites
<1>9. Cardinality({}) = 0
  BY FS_EmptySet
<1>10. \A r : FormSites(w, S, r) \subseteq S /\ FormSites(v, P, r) \subseteq P
  BY DEF FormSites
<1>11. \A p \in P : f[p] \in T /\ f[p] = chapter \o p
  BY DEF ImageOf
<1>12. S \subseteq T
  OBVIOUS
<1> HIDE DEF D, E, T
<1>13. ASSUME NEW r \in D \cup E
       PROVE  /\ next[r] \in Rows(T)
              /\ next[r].count = Cardinality(FormSites(w, T, r))
              /\ next[r].first \in FormSites(w, T, r)
              /\ \A q \in FormSites(w, T, r) \ {next[r].first} : <<next[r].first, q>> \in R
  <2>1. CASE r \in D \ E
    <3>1. next[r] = merged[r] /\ FormSites(v, P, r) = {}
      BY <1>4, <1>8, <2>1
    <3>2. FormSites(w, T, r) = FormSites(w, S, r)
      BY <1>7, <3>1 DEF ImageOf
    <3>3. next[r] \in Rows(T)
      BY <1>1, <1>12, <2>1, <3>1 DEF Rows
    <3>4. QED
      BY <1>1, <2>1, <3>1, <3>2, <3>3
  <2>2. CASE r \in D \cap E
    <3> DEFINE c == merged[r].count
               g == merged[r].first
               k == rows[r].count
    <3>1. next[r] = [count |-> c + k, first |-> g]
      BY <1>4, <2>2
    <3>2. /\ c = Cardinality(FormSites(w, S, r)) /\ g \in FormSites(w, S, r)
          /\ \A q \in FormSites(w, S, r) \ {g} : <<g, q>> \in R
          /\ k = Cardinality(FormSites(v, P, r))
      BY <1>1, <1>2, <2>2
    <3> HIDE DEF c, g, k
    <3>3. c + k = Cardinality(FormSites(w, T, r)) /\ c + k \in Nat
      BY <1>7, <3>2
    <3>4. g \in FormSites(w, T, r) /\ g \in S /\ g \in T
      BY <1>7, <1>10, <1>12, <3>2
    <3>5. \A q \in ImageOf(f, FormSites(v, P, r)) : <<g, q>> \in R
      BY <1>10, <3>4 DEF ImageOf, IsPart
    <3>6. \A q \in FormSites(w, T, r) \ {g} : <<g, q>> \in R
      BY <1>7, <3>2, <3>5
    <3>7. next[r] \in Rows(T)
      BY <3>1, <3>3, <3>4 DEF Rows
    <3>8. QED
      BY <3>1, <3>3, <3>4, <3>6, <3>7
  <2>3. CASE r \in E \ D
    <3> DEFINE k == rows[r].count
               g == rows[r].first
               h == chapter \o g
    <3>1. next[r] = [count |-> k, first |-> h] /\ FormSites(w, S, r) = {}
      BY <1>4, <1>8, <2>3
    <3>2. /\ k = Cardinality(FormSites(v, P, r)) /\ g \in FormSites(v, P, r)
          /\ \A q \in FormSites(v, P, r) \ {g} : <<g, q>> \in Q
      BY <1>2, <2>3
    <3>3. h = f[g] /\ h \in T
      BY <1>10, <1>11, <3>2
    <3> HIDE DEF k, g, h
    <3>4. k = Cardinality(FormSites(w, T, r)) /\ k \in Nat
      <4>1. Cardinality(FormSites(w, S, r)) = 0
        BY <1>9, <3>1
      <4>2. /\ Cardinality(FormSites(w, T, r)) = Cardinality(FormSites(w, S, r)) + k
            /\ k \in Nat
        BY <1>7, <3>2
      <4>3. QED
        BY <4>1, <4>2
    <3>5. FormSites(w, T, r) = ImageOf(f, FormSites(v, P, r))
      BY <1>7, <3>1
    <3>6. h \in FormSites(w, T, r)
      BY <3>2, <3>3, <3>5 DEF ImageOf
    <3>7. ASSUME NEW q \in FormSites(w, T, r) \ {h}
          PROVE  <<h, q>> \in R
      <4>1. PICK p \in FormSites(v, P, r) : q = f[p]
        BY <3>5 DEF ImageOf
      <4>2. p # g /\ p \in P /\ g \in P
        BY <1>10, <3>2, <3>3, <4>1
      <4>3. <<g, p>> \in Q
        BY <3>2, <4>1, <4>2
      <4>4. QED
        BY <3>3, <4>1, <4>2, <4>3 DEF IsPart
    <3>8. next[r] \in Rows(T)
      BY <3>1, <3>3, <3>4 DEF Rows
    <3>9. QED
      BY <3>1, <3>4, <3>6, <3>7, <3>8
  <2>4. QED
    BY <1>13, <2>1, <2>2, <2>3
<1>14. next \in [DOMAIN next -> Rows(T)]
  BY <1>4, <1>13
<1>15. IsAccount(next, w, T, R)
  BY <1>4, <1>5, <1>6, <1>13, <1>14 DEF IsAccount
<1>16. QED
  BY <1>15 DEF next, T



(* The table a chapter is mapped to accounts for its units.                *)
LEMMA FormsAccount ==
    ASSUME NEW U, NEW chapter \in Seq(Seq(U))
    PROVE  IsAccount(MapForms(chapter), WrittenIn(chapter), PlacesIn(chapter), PairOrder)
<1> DEFINE at == PlacesOf(chapter)
           m == Len(at)
           P == PlacesIn(chapter)
           w == WrittenIn(chapter)
           R == PairOrder
<1>1. /\ at \in Seq(P) /\ \A p \in P : chapter[p[1]][p[2]] \in U /\ w[p] = chapter[p[1]][p[2]]
      /\ \A p \in P : p[1] \in Nat /\ p[2] \in Nat
  BY PlacesAre DEF WrittenIn
<1>2. IsEnumeration(at, P, R)
  BY PlacesAscend
<1>3. MapForms(chapter) = FormsAt(chapter, at)
  BY DEF MapForms
<1> HIDE DEF at, P, w
<1>4. PICK walk : IsForms(walk, chapter, at, U, P)
  BY <1>1, FormsSteps
<1>5. /\ walk[0] = << >> /\ FormsAt(chapter, at) = walk[m] /\ m \in Nat
      /\ \A n \in 1 .. m : walk[n] = WithForm(walk[n - 1], chapter[at[n][1]][at[n][2]], at[n])
  BY <1>1, <1>4, LengthIn DEF IsForms
<1>6. \A p \in P : <<p, p>> \notin R
  BY <1>1 DEF PairOrder
<1> HIDE DEF m, R
<1>7. /\ UpTill(at, 0) = {} /\ UpTill(at, m) = P
      /\ \A n \in 1 .. m : /\ UpTill(at, n) = UpTill(at, n - 1) \cup {at[n]}
                           /\ at[n] \in P /\ at[n] \notin UpTill(at, n - 1)
                           /\ \A q \in UpTill(at, n - 1) : <<q, at[n]>> \in R
  BY <1>2, <1>6, Enumerated DEF m
<1> DEFINE Q == { n \in 0 .. m : IsAccount(walk[n], w, UpTill(at, n), R) }
<1>8. 0 \in Q
  <2>1. 0 \in 0 .. m
    BY <1>5
  <2>2. IsAccount(<< >>, w, {}, R)
    BY NoAccount
  <2>3. QED
    BY <1>5, <1>7, <2>1, <2>2
<1>9. ASSUME NEW p \in 0 .. m - 1, p \in Q
      PROVE  p + 1 \in Q
  <2> DEFINE n == p + 1
             S == UpTill(at, p)
             e == at[n]
             x == walk[p]
  <2>1. n \in 1 .. m /\ n - 1 = p /\ n \in 0 .. m
    BY <1>5
  <2>2. IsAccount(x, w, S, R)
    BY <1>9
  <2> HIDE DEF n, Q
  <2>3. e \in P /\ e \notin S /\ \A q \in S : <<q, e>> \in R
    BY <1>7, <2>1
  <2>4. walk[n] = WithForm(x, w[e], e)
    BY <1>1, <1>5, <2>1, <2>3
  <2>5. UpTill(at, n) = S \cup {e}
    BY <1>7, <2>1
  <2> HIDE DEF S, e, x
  <2>6. IsAccount(WithForm(x, w[e], e), w, S \cup {e}, R)
    BY <2>2, <2>3, AccountForm
  <2>7. QED
    BY <2>1, <2>4, <2>5, <2>6 DEF n, Q
<1> HIDE DEF Q
<1>10. m \in Q
  <2>1. m \in 0 .. m
    BY <1>5
  <2>2. QED
    BY <1>5, <1>8, <1>9, <2>1, UpTo
<1>11. IsAccount(walk[m], w, P, R)
  BY <1>7, <1>10 DEF Q
<1>12. QED
  BY <1>3, <1>5, <1>11 DEF w, P, R

(***************************************************************************)
(* Every place of a corpus.                                                *)
(***************************************************************************)
(* The spots of a book are the places of its units, each once.             *)
LEMMA SpotsReach ==
    ASSUME NEW U, NEW book \in Seq(Seq(Seq(U)))
    PROVE  /\ \A s \in Range(Spots(book)) :
                 /\ s = <<s[1], s[2], s[3]>> /\ s[1] \in DOMAIN book
                 /\ <<s[2], s[3]>> \in PlacesIn(book[s[1]])
                 /\ s[1] \in Nat /\ s[2] \in Nat /\ s[3] \in Nat
           /\ \A c \in DOMAIN book : \A p \in PlacesIn(book[c]) : <<c, p[1], p[2]>> \in Range(Spots(book))
<1> DEFINE m == Len(book)
           parts == ChapterSpots(book)
           spots == Spots(book)
<1>1. m \in Nat /\ DOMAIN book = 1 .. m /\ \A c \in 1 .. m : book[c] \in Seq(Seq(U)) /\ c \in Nat
  OBVIOUS
<1>2. parts \in Seq(Seq(Triples)) /\ Len(parts) = m /\ spots = FlattenSeq(parts) /\ spots \in Seq(Triples)
  BY ChapterSpotsIn
<1>3. \A c \in 1 .. m : parts[c] = SpotsIn(c, PlacesOf(book[c]))
  BY <1>1 DEF ChapterSpots
<1> HIDE DEF parts, spots, m
<1>4. LensOf(parts) \in Seq(Nat)
  BY <1>2, LensIn
<1>5. PICK base : IsBase(base, LensOf(parts))
  BY <1>4, BaseExists
<1>6. /\ \A i \in 1 .. Len(parts) : \A j \in 1 .. Len(parts[i]) :
             base[i - 1] + j \in 1 .. Len(spots) /\ spots[base[i - 1] + j] = parts[i][j]
      /\ ComesFrom(spots, base, parts)
  BY <1>2, <1>5, FlattenedAt
<1>7. DOMAIN spots = 1 .. Len(spots)
  BY <1>2
<1>8. ASSUME NEW c \in 1 .. m
      PROVE  /\ Len(parts[c]) = Len(PlacesOf(book[c]))
             /\ \A j \in 1 .. Len(parts[c]) : /\ PlacesOf(book[c])[j] \in PlacesIn(book[c])
                                              /\ parts[c][j] = <<c>> \o PlacesOf(book[c])[j]
             /\ \A p \in PlacesIn(book[c]) : /\ p[1] \in Nat /\ p[2] \in Nat /\ p = <<p[1], p[2]>>
                                             /\ \E j \in 1 .. Len(parts[c]) : PlacesOf(book[c])[j] = p
  <2> DEFINE at == PlacesOf(book[c])
             P == PlacesIn(book[c])
  <2>1. at \in Seq(P) /\ \A p \in P : p[1] \in Nat /\ p[2] \in Nat /\ p = <<p[1], p[2]>>
    BY <1>1, PlacesAre
  <2>2. IsEnumeration(at, P, PairOrder)
    BY <1>1, PlacesAscend
  <2>3. Len(parts[c]) = Len(at)
    BY <1>1, <1>3, SpotsAre
  <2>4. parts[c] = [k \in DOMAIN at |-> <<c>> \o at[k]]
    BY <1>3 DEF SpotsIn
  <2> HIDE DEF at, P
  <2>5. DOMAIN at = 1 .. Len(at) /\ \A j \in 1 .. Len(at) : at[j] \in P
    BY <2>1
  <2>6. \A j \in 1 .. Len(parts[c]) : at[j] \in P /\ parts[c][j] = <<c>> \o at[j]
    BY <2>3, <2>4, <2>5
  <2>7. QED
    BY <2>1, <2>2, <2>3, <2>6 DEF IsEnumeration, at, P
<1>9. ASSUME NEW s \in Range(spots)
      PROVE  /\ s = <<s[1], s[2], s[3]>> /\ s[1] \in DOMAIN book
             /\ <<s[2], s[3]>> \in PlacesIn(book[s[1]])
             /\ s[1] \in Nat /\ s[2] \in Nat /\ s[3] \in Nat
  <2>1. PICK k \in 1 .. Len(spots) : s = spots[k]
    BY <1>7 DEF Range
  <2>2. PICK c \in 1 .. m : \E j \in 1 .. Len(parts[c]) : k = base[c - 1] + j
    BY <1>2, <1>6 DEF ComesFrom
  <2>3. PICK j \in 1 .. Len(parts[c]) : k = base[c - 1] + j
    BY <2>2
  <2> DEFINE p == PlacesOf(book[c])[j]
  <2>4. s = parts[c][j]
    BY <1>2, <1>6, <2>1, <2>3
  <2>5. p \in PlacesIn(book[c]) /\ s = <<c>> \o p /\ c \in Nat
    BY <1>1, <1>8, <2>4
  <2>6. p[1] \in Nat /\ p[2] \in Nat /\ p = <<p[1], p[2]>>
    BY <1>8, <2>5
  <2> HIDE DEF p
  <2>7. /\ <<c>> \o p = <<c, p[1], p[2]>>
        /\ (<<c>> \o p)[1] = c /\ (<<c>> \o p)[2] = p[1] /\ (<<c>> \o p)[3] = p[2]
    <3>1. IsTriple(<<c>> \o p, c, p)
      BY <2>5, <2>6, Longer
    <3>2. QED
      BY <3>1 DEF IsTriple
  <2>8. s[1] = c /\ s[2] = p[1] /\ s[3] = p[2] /\ s = <<c, p[1], p[2]>>
    BY <2>5, <2>7
  <2>9. <<s[2], s[3]>> = p
    BY <2>6, <2>8
  <2>10. QED
    BY <1>1, <2>5, <2>6, <2>8, <2>9
<1>10. ASSUME NEW c \in 1 .. m, NEW p \in PlacesIn(book[c])
       PROVE  <<c, p[1], p[2]>> \in Range(spots)
  <2>1. PICK j \in 1 .. Len(parts[c]) : PlacesOf(book[c])[j] = p
    BY <1>8
  <2>2. p[1] \in Nat /\ p[2] \in Nat /\ p = <<p[1], p[2]>> /\ parts[c][j] = <<c>> \o p /\ c \in Nat
    BY <1>1, <1>8, <2>1
  <2>3. <<c>> \o p = <<c, p[1], p[2]>>
    BY <2>2, Longer DEF IsTriple
  <2>4. base[c - 1] + j \in 1 .. Len(spots) /\ spots[base[c - 1] + j] = parts[c][j]
    BY <1>2, <1>6
  <2>5. QED
    BY <1>7, <2>2, <2>3, <2>4 DEF Range
<1>11. QED
  BY <1>1, <1>9, <1>10 DEF spots

(* Everywhere is the places of the units of the corpus.                    *)
LEMMA EverywhereIs ==
    ASSUME NEW U, corpus \in CorpusOver(U)
    PROVE  /\ Everywhere = QuadsIn(corpus)
           /\ \A q \in QuadsIn(corpus) : At(q[1], Tail(q)) = TextOf(corpus)[q]
<1>1. \A b \in DOMAIN corpus : corpus[b] \in Seq(Seq(Seq(U))) /\ b \in Nat
  BY DEF CorpusOver
<1>2. ASSUME NEW q \in Everywhere
      PROVE  q \in QuadsIn(corpus)
  <2>1. PICK b \in DOMAIN corpus : q \in { <<b>> \o p : p \in Range(Spots(corpus[b])) }
    BY DEF Everywhere
  <2>2. PICK p \in Range(Spots(corpus[b])) : q = <<b>> \o p
    BY <2>1
  <2> DEFINE book == corpus[b]
  <2>3. book \in Seq(Seq(Seq(U))) /\ b \in Nat /\ p \in Range(Spots(book))
    BY <1>1
  <2> HIDE DEF book
  <2>4. /\ p = <<p[1], p[2], p[3]>> /\ p[1] \in DOMAIN book
        /\ <<p[2], p[3]>> \in PlacesIn(book[p[1]])
        /\ p[1] \in Nat /\ p[2] \in Nat /\ p[3] \in Nat
    BY <2>3, SpotsReach
  <2> DEFINE x == p[1]
             y == p[2]
             z == p[3]
  <2>5. x \in Nat /\ y \in Nat /\ z \in Nat /\ p = <<x, y, z>> /\ x \in DOMAIN book /\ <<y, z>> \in PlacesIn(book[x])
    BY <2>4
  <2> HIDE DEF x, y, z
  <2>6. <<b>> \o <<x, y, z>> = <<b, x, y, z>>
    BY <2>3, <2>5, Joined13
  <2>7. q = <<b, x, y, z>>
    BY <2>2, <2>5, <2>6
  <2>8. q \in Quads /\ q[1] = b /\ q[2] = x /\ q[3] = y /\ q[4] = z
    BY <2>3, <2>5, <2>7 DEF Quads
  <2>9. QED
    BY <2>5, <2>8 DEF QuadsIn, book
<1>3. ASSUME NEW q \in QuadsIn(corpus)
      PROVE  q \in Everywhere
  <2> DEFINE b == q[1]
             x == q[2]
             y == q[3]
             z == q[4]
             book == corpus[b]
             p == <<y, z>>
             s == <<x, y, z>>
  <2>1. b \in DOMAIN corpus /\ x \in DOMAIN book /\ p \in PlacesIn(book[x]) /\ q \in Quads
    BY DEF QuadsIn
  <2>2. q = <<b, x, y, z>> /\ b \in Nat /\ x \in Nat /\ y \in Nat /\ z \in Nat
    BY <2>1, QuadIs
  <2>3. book \in Seq(Seq(Seq(U)))
    BY <1>1, <2>1
  <2> HIDE DEF book, b, x, y, z
  <2>4. p[1] = y /\ p[2] = z
    OBVIOUS
  <2> HIDE DEF p
  <2>5. <<x, p[1], p[2]>> \in Range(Spots(book))
    BY <2>1, <2>3, SpotsReach
  <2>6. s \in Range(Spots(book))
    BY <2>4, <2>5
  <2>7. <<b>> \o <<x, y, z>> = <<b, x, y, z>>
    BY <2>2, Joined13
  <2>8. q = <<b>> \o s
    BY <2>2, <2>7
  <2> HIDE DEF s
  <2>9. q \in { <<b>> \o w : w \in Range(Spots(corpus[b])) }
    BY <2>6, <2>8 DEF book
  <2>10. QED
    BY <2>1, <2>9 DEF Everywhere
<1>4. ASSUME NEW q \in QuadsIn(corpus)
      PROVE  At(q[1], Tail(q)) = TextOf(corpus)[q]
  <2>1. Tail(q) = <<q[2], q[3], q[4]>>
    BY QuadIs DEF QuadsIn
  <2>2. QED
    BY <2>1 DEF At, TextOf
<1>5. QED
  BY <1>2, <1>3, <1>4

LEMMA RowsKeep ==
    ASSUME NEW U, NEW P, NEW X, NEW merged \in FormRows(U, X), NEW rows \in FormRows(U, P),
           NEW chapter, \A p \in P : chapter \o p \in X
    PROVE  WithRows(merged, rows, chapter) \in FormRows(U, X)
<1> DEFINE D == DOMAIN merged
           E == DOMAIN rows
           V == [count : Nat \ {0}, first : X]
           next == WithRows(merged, rows, chapter)
<1>1. D \in SUBSET U /\ IsFiniteSet(D) /\ merged \in [D -> V]
  BY FormRowsAre DEF FiniteSubsets
<1>2. E \in SUBSET U /\ IsFiniteSet(E) /\ rows \in [E -> [count : Nat \ {0}, first : P]]
  BY FormRowsAre DEF FiniteSubsets
<1>3. merged \in [DOMAIN merged -> Rows(X)]
  BY <1>1 DEF Rows
<1>4. MergesRows(next, merged, rows, chapter)
  BY <1>3, RowsMerged
<1>5. /\ next = [r \in DOMAIN next |-> next[r]] /\ DOMAIN next = D \cup E
      /\ \A r \in D \ E : next[r] = merged[r]
      /\ \A r \in E \ D : next[r] = [count |-> rows[r].count, first |-> chapter \o rows[r].first]
      /\ \A r \in D \cap E :
            next[r] = [count |-> merged[r].count + rows[r].count, first |-> merged[r].first]
  BY <1>4 DEF MergesRows
<1> HIDE DEF next
<1>6. \A r \in D : merged[r].count \in Nat \ {0} /\ merged[r].first \in X
  BY <1>1
<1>7. \A r \in E : rows[r].count \in Nat \ {0} /\ rows[r].first \in P
  BY <1>2
<1>8. ASSUME NEW r \in D \cup E
      PROVE  next[r] \in V
  <2>1. CASE r \in D \ E
    BY <1>1, <1>5, <2>1
  <2>2. CASE r \in E \ D
    <3> DEFINE c == rows[r].count
               g == chapter \o rows[r].first
    <3>1. next[r] = [count |-> c, first |-> g]
      BY <1>5, <2>2
    <3>2. c \in Nat \ {0} /\ g \in X
      BY <1>7, <2>2
    <3> HIDE DEF c, g
    <3>3. QED
      BY <3>1, <3>2
  <2>3. CASE r \in D \cap E
    <3> DEFINE c == merged[r].count + rows[r].count
    <3>1. c \in Nat \ {0}
      BY <1>6, <1>7, <2>3
    <3> HIDE DEF c
    <3>2. next[r] = [count |-> c, first |-> merged[r].first]
      BY <1>5, <2>3 DEF c
    <3>3. QED
      BY <1>6, <2>3, <3>1, <3>2
  <2>4. QED
    BY <2>1, <2>2, <2>3
<1> HIDE DEF V, D, E
<1>9. next \in [DOMAIN next -> V]
  BY <1>5, <1>8
<1>10. DOMAIN next \in FiniteSubsets(U)
  <2>1. IsFiniteSet(D \cup E)
    BY <1>1, <1>2, FS_Union
  <2>2. QED
    BY <1>1, <1>2, <1>5, <2>1 DEF FiniteSubsets
<1>11. next \in FormRows(U, X)
  BY <1>9, <1>10 DEF FormRows, V
<1>12. QED
  BY <1>11 DEF next

LEMMA MergeOnce ==
    ASSUME NEW x, NEW y, NEW z
    PROVE  Only({ WithRows(m, rows, z) : m \in {x}, rows \in {y} })
             = WithRows(x, y, z)
<1> DEFINE made == { WithRows(m, rows, z) : m \in {x}, rows \in {y} }
           one == WithRows(x, y, z)
<1>1. made = {one}
  OBVIOUS
<1> HIDE DEF made, one
<1>2. Only(made) = one
  BY <1>1, OnlyIs
<1>3. QED
  BY <1>2 DEF made, one

IsMerging(walk, table, at) ==
    /\ walk[0] = << >>
    /\ \A n \in 1 .. Len(at) :
          walk[n] = WithRows(walk[n - 1], MapForms(table[at[n][1]][at[n][2]]), at[n])
    /\ MergedOver(table, at) = walk[Len(at)]

(* The chapters of a corpus are merged one at a time.                      *)
LEMMA MergingSteps ==
    ASSUME NEW U, NEW table \in CorpusOver(U)
    PROVE  \E walk : IsMerging(walk, table, PlacesOf(table))
<1> DEFINE at == PlacesOf(table)
           H == PlacesIn(table)
           T == FormRows(U, Quads)
           a == << >>
           m == Len(at)
           RowsAt(n) == MapForms(table[at[n][1]][at[n][2]])
           F(x, n) == WithRows(x, RowsAt(n), at[n])
           Once(f, n) == Only({ WithRows(x, rows, at[n]) : x \in {f[n - 1]}, rows \in {RowsAt(n)} })
           Body(f) == [n \in 0 .. m |-> IF n = 0 THEN a ELSE Once(f, n)]
           chosen == CHOOSE f : f = Body(f)
           step == [e \in T \X (1 .. m) |-> F(e[1], e[2])]
<1>0. /\ at \in Seq(H)
      /\ \A p \in H : /\ p[1] \in DOMAIN table /\ p[2] \in DOMAIN table[p[1]] /\ p = <<p[1], p[2]>>
                      /\ p[1] \in Nat /\ p[2] \in Nat
  <2> DEFINE V == Seq(Seq(U))
  <2>1. table \in Seq(Seq(V))
    BY DEF CorpusOver
  <2> HIDE DEF V
  <2>2. QED
    BY <2>1, PlacesAre
<1>1. m \in Nat
  BY <1>0, LengthIn
<1>2. a \in T
  <2>1. << >> \in [{} -> [count : Nat \ {0}, first : Quads]]
    OBVIOUS
  <2>2. {} \in FiniteSubsets(U)
    BY FS_EmptySet DEF FiniteSubsets
  <2>3. QED
    BY <2>1, <2>2 DEF FormRows
<1>3. ASSUME NEW x \in T, NEW n \in 1 .. m
      PROVE  F(x, n) \in T
  <2> DEFINE e == at[n]
             b == e[1]
             c == e[2]
             chapter == table[b][c]
             P == PlacesIn(chapter)
  <2>1. e \in H
    BY <1>0, LengthIn
  <2>2. b \in DOMAIN table /\ c \in DOMAIN table[b] /\ e = <<b, c>> /\ b \in Nat /\ c \in Nat
    BY <1>0, <2>1
  <2>3. chapter \in Seq(Seq(U))
    BY <2>2 DEF CorpusOver
  <2>4. MapForms(chapter) \in FormRows(U, P)
    BY <2>3, FormsMapped
  <2>5. ASSUME NEW p \in P
        PROVE  e \o p \in Quads
    <3> DEFINE y == p[1]
               z == p[2]
    <3>1. y \in Nat /\ z \in Nat /\ p = <<y, z>>
      BY <2>3, PlacesAre
    <3> HIDE DEF y, z, b, c
    <3>2. <<b, c>> \o <<y, z>> = <<b, c, y, z>>
      BY <2>2, <3>1, Joined22
    <3>3. <<b, c, y, z>> \in Quads
      BY <2>2, <3>1 DEF Quads
    <3>4. QED
      BY <2>2, <3>1, <3>2, <3>3
  <2> HIDE DEF P
  <2>6. WithRows(x, MapForms(chapter), e) \in T
    BY <2>4, <2>5, RowsKeep
  <2>7. QED
    BY <2>6
<1>4. \A f, n : Once(f, n) = F(f[n - 1], n)
  BY MergeOnce
<1>5. MergedOver(table, at) = chosen[m]
  BY DEF MergedOver
<1> HIDE DEF T, a, m, F, Once, at
<1>6. step \in [T \X (1 .. m) -> T] /\ \A x \in T : \A n \in 1 .. m : step[x, n] = F(x, n)
  BY <1>3
<1> HIDE DEF step
<1>7. PICK g : IsRun(g, T, a, m, step)
  BY <1>1, <1>2, <1>6, Recursion
<1>8. g \in [0 .. m -> T] /\ g[0] = a /\ \A n \in 1 .. m : g[n] = F(g[n - 1], n)
  <2>1. \A n \in 1 .. m : n - 1 \in 0 .. m
    BY <1>1
  <2>2. QED
    BY <1>6, <1>7, <2>1 DEF IsRun
<1>9. g = Body(g)
  <2>1. \A n \in 0 .. m : n = 0 \/ n \in 1 .. m
    BY <1>1
  <2>2. QED
    BY <1>4, <1>8, <2>1
<1>10. chosen = Body(chosen)
  <2> HIDE DEF Body
  <2>1. QED
    BY <1>9
<1> HIDE DEF chosen
<1>11. /\ chosen[0] = a /\ \A n \in 1 .. m : chosen[n] = F(chosen[n - 1], n)
  <2>1. 0 \in 0 .. m /\ \A n \in 1 .. m : n \in 0 .. m /\ n # 0
    BY <1>1
  <2>2. QED
    BY <1>4, <1>10, <2>1
<1>12. IsMerging(chosen, table, at)
  BY <1>5, <1>11 DEF IsMerging, a, m, F
<1>13. QED
  BY <1>12 DEF at

(* The merged table accounts for every unit of the corpus: the count of a  *)
(* form is the number of its places, and its first place is the first of   *)
(* them.                                                                   *)
LEMMA MergedAccount ==
    ASSUME NEW U, NEW table \in CorpusOver(U)
    PROVE  IsAccount(Merged(table), TextOf(table), QuadsIn(table), QuadOrder)
<1> DEFINE at == PlacesOf(table)
           H == PlacesIn(table)
           m == Len(at)
           w == TextOf(table)
           R == QuadOrder
           S(n) == PlacesFrom(table, at, n)
<1>0. /\ at \in Seq(H)
      /\ \A p \in H : p[1] \in Nat /\ p[2] \in Nat
      /\ IsEnumeration(at, H, PairOrder)
  <2> DEFINE V == Seq(Seq(U))
  <2>1. table \in Seq(Seq(V))
    BY DEF CorpusOver
  <2> HIDE DEF V
  <2>2. QED
    BY <2>1, PlacesAre, PlacesAscend
<1>1. PICK walk : IsMerging(walk, table, at)
  BY MergingSteps
<1>2. /\ walk[0] = << >> /\ MergedOver(table, at) = walk[m] /\ m \in Nat
      /\ \A n \in 1 .. m : walk[n] = WithRows(walk[n - 1], MapForms(table[at[n][1]][at[n][2]]), at[n])
  BY <1>0, <1>1, LengthIn DEF IsMerging
<1>3. \A p \in H : <<p, p>> \notin PairOrder
  BY <1>0 DEF PairOrder
<1>4. UpTill(at, 0) = {} /\ UpTill(at, m) = H
  <2> HIDE DEF at, H
  <2>1. QED
    BY <1>0, <1>3, Enumerated DEF m
<1>5. S(0) = {}
  BY <1>4 DEF PlacesFrom
<1>6. S(m) = QuadsIn(table)
  <2>1. \A q \in QuadsIn(table) : <<q[1], q[2]>> \in H
    BY DEF QuadsIn, PlacesIn
  <2>2. QED
    BY <1>4, <2>1 DEF PlacesFrom
<1>7. \A n \in 1 .. m : ExtendsPlaces(table, at[n], S(n - 1), S(n))
  BY ChapterIsPart
<1> HIDE DEF at, H, m, w, R, S
<1> DEFINE Q == { n \in 0 .. m : IsAccount(walk[n], w, S(n), R) }
<1>8. 0 \in Q
  <2>1. 0 \in 0 .. m
    BY <1>2
  <2>2. IsAccount(<< >>, w, {}, R)
    BY NoAccount
  <2>3. QED
    BY <1>2, <1>5, <2>1, <2>2
<1>9. ASSUME NEW p \in 0 .. m - 1, p \in Q
      PROVE  p + 1 \in Q
  <2> DEFINE n == p + 1
             e == at[n]
             chapter == table[e[1]][e[2]]
             f == ChapterPlaces(table, e)
             P == PlacesIn(chapter)
             v == WrittenIn(chapter)
             rows == MapForms(chapter)
             x == walk[p]
             X == S(p)
  <2>1. n \in 1 .. m /\ n - 1 = p /\ n \in 0 .. m
    BY <1>2
  <2>2. IsAccount(x, w, X, R)
    BY <1>9
  <2> HIDE DEF n, Q
  <2>3. ExtendsPlaces(table, e, X, S(n))
    BY <1>7, <2>1
  <2>4. /\ e[1] \in DOMAIN table /\ e[2] \in DOMAIN table[e[1]]
        /\ \A p1 \in P : f[p1] = e \o p1
        /\ S(n) = X \cup ImageOf(f, P)
        /\ IsPart(w, X, R, v, P, PairOrder, f)
    BY <2>3 DEF ExtendsPlaces, w, R
  <2>5. chapter \in Seq(Seq(U))
    BY <2>4 DEF CorpusOver
  <2>6. IsAccount(rows, v, P, PairOrder)
    BY <2>5, FormsAccount
  <2>7. walk[n] = WithRows(x, rows, e)
    BY <1>2, <2>1
  <2> HIDE DEF e, f, P, v, rows, x, X
  <2>8. IsAccount(WithRows(x, rows, e), w, X \cup ImageOf(f, P), R)
    BY <2>2, <2>4, <2>6, AccountRows
  <2>9. QED
    BY <2>1, <2>4, <2>7, <2>8 DEF n, Q
<1> HIDE DEF Q
<1>10. m \in Q
  <2>1. m \in 0 .. m
    BY <1>2
  <2>2. QED
    BY <1>2, <1>8, <1>9, <2>1, UpTo
<1>11. IsAccount(walk[m], w, QuadsIn(table), R)
  BY <1>6, <1>10 DEF Q
<1>12. Merged(table) = walk[m]
  BY <1>2 DEF Merged, at
<1>13. QED
  BY <1>11, <1>12 DEF w, R

(***************************************************************************)
(* What the corpus counts: the places a form is written at.                *)
(***************************************************************************)
InBook(table, b) == { q \in QuadsIn(table) : q[1] = b }

InBookChapter(table, b, c) == { q \in QuadsIn(table) : q[1] = b /\ q[2] = c }

WrittenAt(table, S, raw) == FormSites(TextOf(table), S, raw)

(* The tally of a chapter counts the units of each form in it.             *)
LEMMA ChapterCount ==
    ASSUME NEW U, NEW table \in CorpusOver(U), NEW b \in DOMAIN table, NEW c \in DOMAIN table[b]
    PROVE  /\ IsTally(CountsOf(MapForms(table[b][c])))
           /\ IsFiniteSet(InBookChapter(table, b, c))
           /\ \A raw : Tallied(raw, CountsOf(MapForms(table[b][c])))
                         = Cardinality(WrittenAt(table, InBookChapter(table, b, c), raw))
<1> DEFINE e == <<b, c>>
           chapter == table[b][c]
           f == ChapterPlaces(table, e)
           P == PlacesIn(chapter)
           v == WrittenIn(chapter)
           w == TextOf(table)
           S == InBookChapter(table, b, c)
           rows == MapForms(chapter)
           counts == CountsOf(rows)
<1>1. chapter \in Seq(Seq(U)) /\ b \in Nat /\ c \in Nat
  BY DEF CorpusOver
<1>2. IsAccount(rows, v, P, PairOrder)
  BY <1>1, FormsAccount
<1>3. /\ IsFiniteSet(P) /\ DOMAIN rows = { v[p] : p \in P } /\ rows \in [DOMAIN rows -> Rows(P)]
      /\ \A raw \in DOMAIN rows : /\ rows[raw].count = Cardinality(FormSites(v, P, raw))
                                  /\ rows[raw].first \in FormSites(v, P, raw)
  BY <1>2 DEF IsAccount
<1>4. rows \in FormRows(U, P)
  BY <1>1, FormsMapped
<1>5. IsTally(counts)
  <2> DEFINE D == DOMAIN rows
  <2>1. D \in FiniteSubsets(U) /\ rows \in [D -> [count : Nat \ {0}, first : P]]
    BY <1>4, FormRowsAre
  <2> HIDE DEF rows, D
  <2>2. [raw \in D |-> rows[raw].count] \in [D -> Nat \ {0}] /\ IsFiniteSet(D)
    BY <2>1 DEF FiniteSubsets
  <2>3. QED
    BY <2>2, TallyOf DEF CountsOf, D
<1>6. \A p \in P : p[1] \in Nat /\ p[2] \in Nat /\ p = <<p[1], p[2]>> /\ v[p] = chapter[p[1]][p[2]]
  BY <1>1, PlacesAre DEF WrittenIn
<1>7. \A p \in P : f[p] = e \o p
  BY DEF ChapterPlaces
<1> HIDE DEF rows, v, P
<1>8. ASSUME NEW p \in P
      PROVE  f[p] \in Quads /\ f[p][1] = b /\ f[p][2] = c /\ f[p][3] = p[1] /\ f[p][4] = p[2]
  <2> DEFINE x == p[1]
             y == p[2]
  <2>1. x \in Nat /\ y \in Nat /\ p = <<x, y>>
    BY <1>6
  <2> HIDE DEF x, y, f
  <2>2. <<b, c>> \o <<x, y>> = <<b, c, x, y>>
    BY <1>1, <2>1, Joined22
  <2>3. f[p] = <<b, c, x, y>>
    BY <1>7, <2>1, <2>2
  <2>4. <<b, c, x, y>> \in Quads
    BY <1>1, <2>1 DEF Quads
  <2>5. QED
    BY <2>3, <2>4 DEF x, y
<1> HIDE DEF f, e
<1>9. ASSUME NEW p \in P
      PROVE  f[p] \in S /\ w[f[p]] = v[p]
  <2> DEFINE q == f[p]
  <2>1. q \in Quads /\ q[1] = b /\ q[2] = c /\ q[3] = p[1] /\ q[4] = p[2]
    BY <1>8
  <2> HIDE DEF q
  <2>2. q \in QuadsIn(table)
    BY <1>6, <2>1 DEF QuadsIn, P
  <2>3. QED
    BY <1>6, <2>1, <2>2 DEF TextOf, InBookChapter, q
<1>10. ASSUME NEW q \in S
       PROVE  \E p \in P : q = f[p]
  <2> DEFINE p == <<q[3], q[4]>>
  <2>1. q \in Quads /\ q[1] = b /\ q[2] = c /\ p \in P
    BY DEF InBookChapter, QuadsIn, P
  <2>2. f[p] \in Quads /\ f[p][1] = b /\ f[p][2] = c /\ f[p][3] = p[1] /\ f[p][4] = p[2]
    BY <1>8, <2>1
  <2>3. q = <<q[1], q[2], q[3], q[4]>>
    BY <2>1, QuadIs
  <2>4. \A r \in Quads : r = <<r[1], r[2], r[3], r[4]>>
    BY QuadIs
  <2> DEFINE r == f[p]
  <2>5. r \in Quads /\ r[1] = q[1] /\ r[2] = q[2] /\ r[3] = q[3] /\ r[4] = q[4]
    BY <2>1, <2>2
  <2> HIDE DEF r
  <2>6. q = r
    BY <2>3, <2>4, <2>5
  <2>7. QED
    BY <2>1, <2>6 DEF r
<1>11. \A p, q \in P : p # q => f[p] # f[q]
  BY <1>6, <1>8
<1> HIDE DEF S, w
<1>12. ASSUME NEW raw
       PROVE  Cardinality(FormSites(w, S, raw)) = Cardinality(FormSites(v, P, raw))
  <2> DEFINE A == FormSites(v, P, raw)
             B == { f[p] : p \in A }
  <2>1. A \subseteq P /\ IsFiniteSet(A)
    BY <1>3, FS_Subset DEF FormSites
  <2>2. \A p, q \in A : p # q => f[p] # f[q]
    BY <1>11, <2>1
  <2>3. FormSites(w, S, raw) = B
    BY <1>9, <1>10 DEF FormSites
  <2> HIDE DEF A
  <2>4. Cardinality(B) = Cardinality(A)
    BY <2>1, <2>2, ImageCounted
  <2>5. QED
    BY <2>3, <2>4 DEF A
<1>13. IsFiniteSet(S)
  <2>1. S = { f[p] : p \in P }
    BY <1>9, <1>10
  <2>2. QED
    BY <1>3, <1>11, <2>1, ImageCounted
<1>14. ASSUME NEW raw
       PROVE  Tallied(raw, counts) = Cardinality(FormSites(v, P, raw))
  <2>1. counts = [r \in DOMAIN rows |-> rows[r].count]
    BY DEF CountsOf
  <2> HIDE DEF counts
  <2>2. CASE raw \in DOMAIN rows
    BY <1>3, <2>1, <2>2 DEF Tallied
  <2>3. CASE raw \notin DOMAIN rows
    <3>1. FormSites(v, P, raw) = {}
      BY <1>3, <2>3 DEF FormSites
    <3>2. Tallied(raw, counts) = 0
      BY <2>1, <2>3 DEF Tallied
    <3>3. QED
      BY <3>1, <3>2, FS_EmptySet
  <2>4. QED
    BY <2>2, <2>3
<1>15. QED
  BY <1>5, <1>12, <1>13, <1>14 DEF WrittenAt, S, w, rows

KeyOf(raw) == <<Nfc[raw], raw>>

(* The tally of a book counts the units of each form in it.                *)
LEMMA BookForms ==
    ASSUME NEW U, NEW table \in CorpusOver(U), NEW b \in DOMAIN table
    PROVE  /\ IsTally(FoldForms(table[b]))
           /\ \A k \in DOMAIN FoldForms(table[b]) : k = KeyOf(k[2])
           /\ IsFiniteSet(InBook(table, b))
           /\ \A raw : Tallied(KeyOf(raw), FoldForms(table[b]))
                         = Cardinality(WrittenAt(table, InBook(table, b), raw))
<1> DEFINE book == table[b]
           m == Len(book)
           rows == [c \in DOMAIN book |-> CountsOf(MapForms(book[c]))]
           perRaw == SumOf(rows)
           keys == { <<Nfc[raw], raw>> : raw \in DOMAIN perRaw }
           folded == FoldForms(book)
           w == TextOf(table)
           S(c) == InBookChapter(table, b, c)
<1>1. book \in Seq(Seq(Seq(U))) /\ m \in Nat /\ DOMAIN book = 1 .. m
  BY DEF CorpusOver
<1>2. \A c \in 1 .. m : /\ IsTally(CountsOf(MapForms(book[c]))) /\ IsFiniteSet(S(c))
                        /\ \A raw : Tallied(raw, CountsOf(MapForms(book[c]))) = Cardinality(FormSites(w, S(c), raw))
  BY <1>1, ChapterCount DEF WrittenAt
<1>3. AreTallies(rows, m)
  BY <1>1, <1>2 DEF AreTallies
<1>4. \A c \in 1 .. m : rows[c] = CountsOf(MapForms(book[c]))
  BY <1>1
<1>5. folded = [k \in keys |-> perRaw[k[2]]] /\ IsTally(folded)
  BY <1>1, FormsFolded DEF FoldForms
<1>6. InBook(table, b) = UNION { S(c) : c \in 1 .. m }
  <2>1. \A q \in InBook(table, b) : q[2] \in 1 .. m /\ q \in S(q[2])
    BY <1>1 DEF InBook, InBookChapter, QuadsIn
  <2>2. \A c \in 1 .. m : S(c) \subseteq InBook(table, b)
    BY DEF InBook, InBookChapter
  <2>3. QED
    BY <2>1, <2>2
<1>7. \A c, d \in 1 .. m : c # d => S(c) \cap S(d) = {}
  BY DEF InBookChapter
<1>8. ASSUME NEW raw
      PROVE  /\ IsFiniteSet(FormSites(w, InBook(table, b), raw))
             /\ Tallied(raw, perRaw) = Cardinality(FormSites(w, InBook(table, b), raw))
  <2> DEFINE P == [c \in 1 .. m |-> FormSites(w, S(c), raw)]
  <2>1. /\ \A c \in 1 .. m : P[c] = FormSites(w, S(c), raw) /\ IsFiniteSet(P[c])
        /\ \A c, d \in 1 .. m : c # d => P[c] \cap P[d] = {}
    <3>1. \A c \in 1 .. m : FormSites(w, S(c), raw) \subseteq S(c)
      BY DEF FormSites
    <3> HIDE DEF S, w
    <3>2. \A c \in 1 .. m : IsFiniteSet(FormSites(w, S(c), raw))
      BY <1>2, <3>1, FS_Subset
    <3>3. \A c, d \in 1 .. m : c # d => FormSites(w, S(c), raw) \cap FormSites(w, S(d), raw) = {}
      BY <1>7, <3>1
    <3> HIDE DEF m
    <3>4. QED
      BY <3>2, <3>3
  <2>2. Splits(P, 1 .. m)
    BY <2>1 DEF Splits
  <2>3. PartsOf(P, 1 .. m) = FormSites(w, InBook(table, b), raw)
    <3> HIDE DEF S, w, m, P
    <3>1. PartsOf(P, 1 .. m) = UNION { FormSites(w, S(c), raw) : c \in 1 .. m }
      BY <2>1 DEF PartsOf
    <3>2. QED
      BY <1>6, <3>1 DEF FormSites
  <2>4. \A c \in 1 .. m : Tallied(raw, rows[c]) = Cardinality(P[c])
    BY <1>2, <1>4, <2>1
  <2> HIDE DEF P, rows, m
  <2>5. /\ IsFiniteSet(PartsOf(P, 1 .. m))
        /\ Tallied(raw, SumOf(rows)) = Cardinality(PartsOf(P, 1 .. m))
    BY <1>3, <2>2, <2>4, SumCounts
  <2>6. QED
    BY <2>3, <2>5
<1> HIDE DEF S, rows, folded
<1>9. IsTally(perRaw) /\ \A raw : Tallied(raw, perRaw) # 0 <=> raw \in DOMAIN perRaw
  BY <1>3, SumOfTallies, TallyIs
<1>10. IsFiniteSet(InBook(table, b))
  <2> DEFINE f == [c \in 1 .. m |-> S(c)]
  <2>1. InBook(table, b) = UNION { f[c] : c \in 1 .. m }
    BY <1>6
  <2>2. \A c \in 1 .. m : IsFiniteSet(f[c])
    BY <1>2
  <2>3. \A c, d \in 1 .. m : c # d => f[c] \cap f[d] = {}
    BY <1>7
  <2> HIDE DEF f, m
  <2>4. Splits(f, 1 .. m)
    BY <2>2, <2>3 DEF Splits
  <2>5. IsFiniteSet(PartsOf(f, 1 .. m))
    BY <1>1, <2>4, PartsFinite
  <2>6. QED
    BY <2>1, <2>5 DEF PartsOf
<1>11. \A k \in keys : k = KeyOf(k[2]) /\ k[2] \in DOMAIN perRaw
  BY DEF KeyOf
<1>12. ASSUME NEW raw
       PROVE  Tallied(KeyOf(raw), folded) = Tallied(raw, perRaw)
  <2> DEFINE k == KeyOf(raw)
  <2>1. k[2] = raw
    BY DEF KeyOf
  <2>2. k \in keys <=> raw \in DOMAIN perRaw
    BY <1>11, <2>1 DEF KeyOf
  <2> HIDE DEF k, keys, perRaw
  <2>3. ASSUME raw \in DOMAIN perRaw
        PROVE  Tallied(k, folded) = Tallied(raw, perRaw)
    BY <1>5, <2>1, <2>2, <2>3 DEF Tallied
  <2>4. ASSUME raw \notin DOMAIN perRaw
        PROVE  Tallied(k, folded) = Tallied(raw, perRaw)
    BY <1>5, <2>2, <2>4 DEF Tallied
  <2>5. Tallied(k, folded) = Tallied(raw, perRaw)
    BY <2>3, <2>4
  <2>6. QED
    BY <2>5 DEF k
<1>13. DOMAIN folded = keys
  BY <1>5
<1>14. QED
  BY <1>5, <1>8, <1>10, <1>11, <1>12, <1>13 DEF WrittenAt, folded

IsFormCount(counts, w, S) ==
    /\ IsTally(counts)
    /\ \A k \in DOMAIN counts : k = KeyOf(k[2])
    /\ \A raw : Tallied(KeyOf(raw), counts) = Cardinality(FormSites(w, S, raw))

(* The sum over the books counts the units of each form in the corpus.     *)
LEMMA FormsCounted ==
    ASSUME NEW U, NEW table \in CorpusOver(U)
    PROVE  IsFormCount(SumOf([b \in DOMAIN table |-> FoldForms(table[b])]), TextOf(table), QuadsIn(table))
<1> DEFINE m == Len(table)
           a == [b \in DOMAIN table |-> FoldForms(table[b])]
           w == TextOf(table)
           S == QuadsIn(table)
           B(b) == InBook(table, b)
           D == UNION { DOMAIN a[b] : b \in 1 .. m }
<1>1. m \in Nat /\ DOMAIN table = 1 .. m
  BY LengthIn DEF CorpusOver
<1>2. \A b \in 1 .. m : /\ IsTally(a[b]) /\ IsFiniteSet(B(b))
                        /\ \A k \in DOMAIN a[b] : k = KeyOf(k[2])
                        /\ \A raw : Tallied(KeyOf(raw), a[b]) = Cardinality(FormSites(w, B(b), raw))
  BY <1>1, BookForms DEF WrittenAt
<1>3. AreTallies(a, m)
  BY <1>1, <1>2 DEF AreTallies
<1>4. S = UNION { B(b) : b \in 1 .. m }
  BY <1>1 DEF InBook, QuadsIn
<1>5. \A b, d \in 1 .. m : b # d => B(b) \cap B(d) = {}
  BY DEF InBook
<1> HIDE DEF a, m, w, S, B
<1>6. IsTally(SumOf(a))
  BY <1>3, SumOfTallies
<1>7. \A k \in DOMAIN SumOf(a) : k = KeyOf(k[2])
  <2>1. \A b \in 1 .. m : DOMAIN a[b] \subseteq D
    BY DomainInUnion
  <2>2. \A k \in D : k = KeyOf(k[2])
    BY <1>2
  <2> HIDE DEF D
  <2>3. a \in Seq(BagsOver(D))
    BY <1>3, <2>1, TalliesIn
  <2>4. SumOf(a) \in BagsOver(D)
    BY <2>3, SumIn
  <2>5. DOMAIN SumOf(a) \subseteq D
    BY <2>4, BagIs
  <2>6. QED
    BY <2>2, <2>5
<1>8. ASSUME NEW raw
      PROVE  Tallied(KeyOf(raw), SumOf(a)) = Cardinality(FormSites(w, S, raw))
  <2> DEFINE P == [b \in 1 .. m |-> FormSites(w, B(b), raw)]
             e == KeyOf(raw)
  <2>1. \A b \in 1 .. m : P[b] = FormSites(w, B(b), raw) /\ P[b] \subseteq B(b)
    BY DEF FormSites
  <2> HIDE DEF P
  <2>2. \A b \in 1 .. m : IsFiniteSet(P[b])
    BY <1>2, <2>1, FS_Subset
  <2>3. Splits(P, 1 .. m)
    BY <1>5, <2>1, <2>2 DEF Splits
  <2>4. PartsOf(P, 1 .. m) = FormSites(w, S, raw)
    <3>1. PartsOf(P, 1 .. m) = UNION { FormSites(w, B(b), raw) : b \in 1 .. m }
      BY <2>1 DEF PartsOf
    <3>2. QED
      BY <1>4, <3>1 DEF FormSites
  <2>5. \A b \in 1 .. m : Tallied(e, a[b]) = Cardinality(P[b])
    BY <1>2, <2>1
  <2> HIDE DEF e
  <2>6. Tallied(e, SumOf(a)) = Cardinality(PartsOf(P, 1 .. m))
    BY <1>3, <2>3, <2>5, SumCounts
  <2>7. QED
    BY <2>4, <2>6 DEF e
<1>9. QED
  BY <1>6, <1>7, <1>8 DEF IsFormCount, a, w, S

(***************************************************************************)
(* Which form of a grapheme ranks first.                                   *)
(***************************************************************************)
Rival(merged, r, s) ==
    \/ merged[s].count < merged[r].count
    \/ merged[s].count = merged[r].count /\ Before(merged[r].first, merged[s].first)

FormClass(merged, key) == { r \in DOMAIN merged : Nfc[r] = key }

IsCorpusAccount(merged, w, S) == S \in SUBSET Quads /\ IsAccount(merged, w, S, QuadOrder)

IsRowed(merged, w, S) ==
    /\ IsFiniteSet(S) /\ IsFiniteSet(DOMAIN merged) /\ DOMAIN merged = { w[p] : p \in S }
    /\ \A r \in DOMAIN merged :
          /\ merged[r].count = Cardinality(FormSites(w, S, r))
          /\ merged[r].count \in Nat \ {0}
          /\ IsFiniteSet(FormSites(w, S, r)) /\ FormSites(w, S, r) \subseteq S
          /\ IsLeast(merged[r].first, FormSites(w, S, r))
          /\ merged[r].first \in Quads

(* What a row of an accounting table says: how many places, and the first of*)
(* them.                                                                   *)
LEMMA AccountIs ==
    ASSUME NEW merged, NEW w, NEW S, IsCorpusAccount(merged, w, S)
    PROVE  IsRowed(merged, w, S)
<1> DEFINE D == DOMAIN merged
<1>1. /\ IsFiniteSet(S) /\ D = { w[p] : p \in S } /\ S \in SUBSET Quads
      /\ \A r \in D : /\ merged[r].count = Cardinality(FormSites(w, S, r))
                      /\ merged[r].first \in FormSites(w, S, r)
                      /\ \A q \in FormSites(w, S, r) \ {merged[r].first} : <<merged[r].first, q>> \in QuadOrder
  BY DEF IsCorpusAccount, IsAccount
<1>2. IsFiniteSet(D)
  <2> HIDE DEF D
  <2>1. QED
    BY <1>1, ImageFinite
<1>3. ASSUME NEW r \in D
      PROVE  /\ merged[r].count \in Nat \ {0}
             /\ IsFiniteSet(FormSites(w, S, r)) /\ FormSites(w, S, r) \subseteq S
             /\ IsLeast(merged[r].first, FormSites(w, S, r))
             /\ merged[r].first \in Quads
  <2> DEFINE A == FormSites(w, S, r)
             f == merged[r].first
  <2>1. A \subseteq S /\ f \in A /\ f \in Quads
    BY <1>1 DEF FormSites
  <2>2. IsFiniteSet(A)
    BY <1>1, <2>1, FS_Subset
  <2>3. Cardinality(A) \in Nat \ {0}
    BY <2>1, <2>2, FS_CardinalityType, FS_EmptySet
  <2>4. \A q \in A \ {f} : Before(f, q)
    <3>1. \A q \in A \ {f} : Sooner(f, q) /\ q \in Quads
      BY <1>1, <2>1 DEF QuadOrder
    <3> HIDE DEF A, f
    <3>2. QED
      BY <2>1, <3>1, BeforeIsSooner
  <2>5. QED
    BY <1>1, <2>1, <2>2, <2>3, <2>4 DEF IsLeast
<1>4. QED
  BY <1>1, <1>2, <1>3 DEF IsRowed

(* The rivalry of two forms is a strict total order: more places, or as many*)
(* and an earlier one.                                                     *)
LEMMA RivalsOrdered ==
    ASSUME NEW merged, NEW w, NEW S, IsCorpusAccount(merged, w, S)
    PROVE  /\ \A a \in DOMAIN merged : ~ Rival(merged, a, a)
           /\ \A a, b \in DOMAIN merged : a # b => Rival(merged, a, b) \/ Rival(merged, b, a)
           /\ \A a, b, c \in DOMAIN merged : Rival(merged, a, b) /\ Rival(merged, b, c) => Rival(merged, a, c)
<1> DEFINE D == DOMAIN merged
           n == [r \in D |-> merged[r].count]
           f == [r \in D |-> merged[r].first]
<1>1. /\ \A r \in D : n[r] \in Nat /\ f[r] \in Quads /\ f[r] \in FormSites(w, S, r)
      /\ \A r, s \in D : Rival(merged, r, s) <=> n[s] < n[r] \/ (n[s] = n[r] /\ Before(f[r], f[s]))
  BY AccountIs DEF IsRowed, Rival, IsLeast
<1> HIDE DEF D, n, f
<1>2. \A r, s \in D : r # s => f[r] # f[s]
  BY <1>1 DEF FormSites
<1>3. ASSUME NEW a \in D
      PROVE  ~ Rival(merged, a, a)
  BY <1>1, QuadsOrdered
<1>4. ASSUME NEW a \in D, NEW b \in D, a # b
      PROVE  Rival(merged, a, b) \/ Rival(merged, b, a)
  <2>1. Before(f[a], f[b]) \/ Before(f[b], f[a])
    BY <1>1, <1>2, <1>4, QuadsOrdered
  <2>2. n[a] < n[b] \/ n[b] < n[a] \/ n[a] = n[b]
    BY <1>1
  <2>3. QED
    BY <1>1, <2>1, <2>2
<1>5. ASSUME NEW a \in D, NEW b \in D, NEW c \in D, Rival(merged, a, b), Rival(merged, b, c)
      PROVE  Rival(merged, a, c)
  <2>1. Before(f[a], f[b]) /\ Before(f[b], f[c]) => Before(f[a], f[c])
    BY <1>1, QuadsOrdered
  <2>2. n[a] \in Nat /\ n[b] \in Nat /\ n[c] \in Nat
    BY <1>1
  <2>3. /\ n[b] < n[a] \/ (n[b] = n[a] /\ Before(f[a], f[b]))
        /\ n[c] < n[b] \/ (n[c] = n[b] /\ Before(f[b], f[c]))
    BY <1>1, <1>5
  <2>4. n[c] < n[a] \/ (n[c] = n[a] /\ Before(f[a], f[c]))
    BY <2>1, <2>2, <2>3
  <2>5. QED
    BY <1>1, <2>4
<1>6. QED
  BY <1>3, <1>4, <1>5 DEF D

IsTop(merged, raw, key) ==
    /\ raw \in FormClass(merged, key)
    /\ \A r \in FormClass(merged, key) \ {raw} : Rival(merged, raw, r)

(* The majority of a canonical class is its form with no rival.            *)
LEMMA MajorityIs ==
    ASSUME NEW merged, NEW w, NEW S, IsCorpusAccount(merged, w, S), NEW key,
           FormClass(merged, key) # {}
    PROVE  IsTop(merged, Majority(merged, key), key)
<1> DEFINE X == FormClass(merged, key)
           R == { z \in X \X X : Rival(merged, z[1], z[2]) }
<1>1. X \subseteq DOMAIN merged /\ IsFiniteSet(X)
  BY AccountIs, FS_Subset DEF IsRowed, FormClass
<1>2. \A a, b \in X : <<a, b>> \in R <=> Rival(merged, a, b)
  OBVIOUS
<1> HIDE DEF R, X
<1>3. IsOrder(R, X)
  BY <1>1, <1>2, RivalsOrdered DEF IsOrder
<1>4. PICK a \in X : \A b \in X \ {a} : <<a, b>> \in R
  BY <1>1, <1>3, LeastExists DEF X
<1>5. \A b \in X \ {a} : Rival(merged, a, b)
  BY <1>2, <1>4
<1>6. Majority(merged, key) = CHOOSE raw \in X : \A r \in X \ {raw} : Rival(merged, raw, r)
  BY DEF Majority, X, FormClass, Rival
<1>7. /\ Majority(merged, key) \in X
      /\ \A r \in X \ {Majority(merged, key)} : Rival(merged, Majority(merged, key), r)
  BY <1>4, <1>5, <1>6
<1>8. QED
  BY <1>7 DEF IsTop, X

(* The forms that are not their grapheme's usual one.                      *)
Lesser(merged) == { s \in DOMAIN merged : s # Majority(merged, Nfc[s]) }

(* Every other form of the class is lesser.                                *)
LEMMA LesserIs ==
    ASSUME NEW merged, NEW w, NEW S, IsCorpusAccount(merged, w, S), NEW s \in DOMAIN merged
    PROVE  s \in Lesser(merged)
             <=> \E r \in (DOMAIN merged) \ {s} : Nfc[r] = Nfc[s] /\ Rival(merged, r, s)
<1> DEFINE key == Nfc[s]
           top == Majority(merged, key)
<1>1. s \in FormClass(merged, key)
  BY DEF FormClass
<1>2. IsTop(merged, top, key)
  BY <1>1, MajorityIs
<1>3. s \in Lesser(merged) <=> s # top
  BY DEF Lesser
<1> HIDE DEF top
<1>4. ASSUME s # top
      PROVE  \E r \in (DOMAIN merged) \ {s} : Nfc[r] = Nfc[s] /\ Rival(merged, r, s)
  BY <1>1, <1>2, <1>4 DEF IsTop, FormClass
<1>5. ASSUME s = top, NEW r \in (DOMAIN merged) \ {s}, Nfc[r] = Nfc[s], Rival(merged, r, s)
      PROVE  FALSE
  <2>1. Rival(merged, s, r)
    BY <1>2, <1>5 DEF IsTop, FormClass
  <2>2. Rival(merged, r, r) /\ ~ Rival(merged, r, r)
    BY <1>5, <2>1, RivalsOrdered
  <2>3. QED
    BY <2>2
<1>6. QED
  BY <1>3, <1>4, <1>5

LesserSites(merged, w, S) == UNION { FormSites(w, S, s) : s \in Lesser(merged) }

(* The anchor of the finding is the first of the places of the lesser forms.*)
LEMMA AnchorIs ==
    ASSUME NEW merged, NEW w, NEW S, IsCorpusAccount(merged, w, S), Lesser(merged) # {}
    PROVE  First(LesserSites(merged, w, S)) = Anchor(merged)
<1> DEFINE D == DOMAIN merged
           L == Lesser(merged)
           firsts == { merged[s].first : s \in L }
           mixed == { raw \in D : \E r \in D : r # raw /\ Nfc[r] = Nfc[raw] }
           T == LesserSites(merged, w, S)
           a == First(firsts)
<1>1. L \subseteq D
  BY DEF Lesser
<1>2. Anchor(merged) = a
  <2>1. { r \in mixed : r # Majority(merged, Nfc[r]) } = L
    <3>1. \A s \in L : s \in mixed
      BY <1>1, LesserIs
    <3>2. QED
      BY <3>1 DEF Lesser
  <2> HIDE DEF mixed, L
  <2>2. Anchor(merged) = First({ merged[raw].first : raw \in { r \in mixed : r # Majority(merged, Nfc[r]) } })
    BY DEF Anchor, mixed
  <2>3. QED
    BY <2>1, <2>2
<1> HIDE DEF L, D
<1>3. /\ IsFiniteSet(D) /\ S \in SUBSET Quads
      /\ \A s \in L : IsLeast(merged[s].first, FormSites(w, S, s)) /\ merged[s].first \in Quads
  BY <1>1, AccountIs DEF IsRowed, IsCorpusAccount, D
<1>4. IsFiniteSet(L)
  BY <1>1, <1>3, FS_Subset
<1>5. IsFiniteSet(firsts)
  <2> DEFINE g == [s \in L |-> merged[s].first]
  <2>1. firsts = { g[s] : s \in L }
    OBVIOUS
  <2> HIDE DEF g, firsts
  <2>2. QED
    BY <1>4, <2>1, ImageFinite
<1>6. firsts \in SUBSET Quads /\ firsts # {}
  BY <1>3 DEF L
<1> HIDE DEF firsts
<1>7. IsLeast(a, firsts)
  BY <1>5, <1>6, LeastOf
<1> HIDE DEF a
<1>8. a \in T
  <2>1. PICK s \in L : a = merged[s].first
    BY <1>7 DEF IsLeast, firsts
  <2>2. a \in FormSites(w, S, s)
    BY <1>3, <2>1 DEF IsLeast
  <2>3. QED
    BY <2>1, <2>2 DEF LesserSites, L
<1>9. ASSUME NEW b \in T \ {a}
      PROVE  Before(a, b)
  <2>1. PICK s \in L : b \in FormSites(w, S, s)
    BY DEF LesserSites, L
  <2> DEFINE f == merged[s].first
  <2>2. IsLeast(f, FormSites(w, S, s)) /\ f \in Quads /\ f \in firsts
    BY <1>3, <2>1 DEF firsts
  <2> HIDE DEF f
  <2>3. b \in Quads /\ a \in Quads
    BY <1>3, <1>6, <1>7, <2>1 DEF FormSites, IsLeast
  <2>4. a = f \/ Before(a, f)
    BY <1>7, <2>2 DEF IsLeast
  <2>5. b = f \/ Before(f, b)
    BY <2>1, <2>2 DEF IsLeast
  <2>6. QED
    BY <2>2, <2>3, <2>4, <2>5, QuadsOrdered
<1>10. IsLeast(a, T)
  BY <1>8, <1>9 DEF IsLeast
<1>11. T \in SUBSET Quads
  BY <1>3 DEF LesserSites, FormSites
<1> HIDE DEF T
<1>12. First(T) = a
  BY <1>10, <1>11, FirstIs
<1>13. QED
  BY <1>2, <1>12 DEF T

(***************************************************************************)
(* The judge reads the counts alone.                                       *)
(***************************************************************************)
KeyForms(counts, key) == { k \in DOMAIN counts : k[1] = key }

(* The statistics and the merged table have the same forms.                *)
LEMMA CountsAre ==
    ASSUME NEW merged, NEW w, NEW S, IsCorpusAccount(merged, w, S), NEW counts,
           IsFormCount(counts, w, S)
    PROVE  /\ IsTally(counts)
           /\ \A k \in DOMAIN counts : k = KeyOf(k[2]) /\ k[2] \in DOMAIN merged
           /\ \A r \in DOMAIN merged : KeyOf(r) \in DOMAIN counts /\ counts[KeyOf(r)] = merged[r].count
<1> DEFINE D == DOMAIN merged
<1>1. /\ IsTally(counts) /\ \A k \in DOMAIN counts : k = KeyOf(k[2])
      /\ \A raw : Tallied(KeyOf(raw), counts) = Cardinality(FormSites(w, S, raw))
  BY DEF IsFormCount
<1>2. \A e : Tallied(e, counts) # 0 <=> e \in DOMAIN counts
  BY <1>1, TallyIs
<1>3. /\ D = { w[p] : p \in S }
      /\ \A r \in D : merged[r].count = Cardinality(FormSites(w, S, r)) /\ merged[r].count \in Nat \ {0}
  <2>1. IsRowed(merged, w, S)
    BY AccountIs
  <2>2. QED
    BY <2>1 DEF IsRowed
<1> HIDE DEF D
<1>4. ASSUME NEW r \in D
      PROVE  KeyOf(r) \in DOMAIN counts /\ counts[KeyOf(r)] = merged[r].count
  <2> DEFINE e == KeyOf(r)
  <2>1. Tallied(e, counts) = merged[r].count /\ Tallied(e, counts) # 0
    BY <1>1, <1>3
  <2> HIDE DEF e
  <2>2. e \in DOMAIN counts
    BY <1>2, <2>1
  <2>3. counts[e] = merged[r].count
    BY <2>1, <2>2 DEF Tallied
  <2>4. QED
    BY <2>2, <2>3 DEF e
<1>5. ASSUME NEW k \in DOMAIN counts
      PROVE  k[2] \in D
  <2> DEFINE raw == k[2]
  <2>1. Tallied(k, counts) # 0
    BY <1>2
  <2>2. k = KeyOf(raw)
    BY <1>1
  <2> HIDE DEF raw
  <2>3. Cardinality(FormSites(w, S, raw)) # 0
    BY <1>1, <2>1, <2>2
  <2>4. FormSites(w, S, raw) # {}
    BY <2>3, FS_EmptySet
  <2>5. raw \in D
    BY <1>3, <2>4 DEF FormSites
  <2>6. QED
    BY <2>5 DEF raw
<1>6. QED
  BY <1>1, <1>4, <1>5 DEF D

(* The forms of a canonical class, as the statistics have them.            *)
LEMMA KeyFormsAre ==
    ASSUME NEW merged, NEW w, NEW S, IsCorpusAccount(merged, w, S), NEW counts,
           IsFormCount(counts, w, S), NEW key
    PROVE  /\ IsFiniteSet(KeyForms(counts, key))
           /\ \A r \in FormClass(merged, key) : KeyOf(r) \in KeyForms(counts, key)
           /\ \A k \in KeyForms(counts, key) : k[2] \in FormClass(merged, key) /\ k = KeyOf(k[2])
<1>1. /\ IsTally(counts)
      /\ \A k \in DOMAIN counts : k = KeyOf(k[2]) /\ k[2] \in DOMAIN merged
      /\ \A r \in DOMAIN merged : KeyOf(r) \in DOMAIN counts /\ counts[KeyOf(r)] = merged[r].count
  BY CountsAre
<1>2. IsFiniteSet(DOMAIN counts)
  BY <1>1, TallyIs
<1>3. KeyForms(counts, key) \subseteq DOMAIN counts
  BY DEF KeyForms
<1>4. IsFiniteSet(KeyForms(counts, key))
  BY <1>2, <1>3, FS_Subset
<1>5. \A r \in FormClass(merged, key) : KeyOf(r) \in KeyForms(counts, key)
  <2>1. \A r : KeyOf(r)[1] = Nfc[r]
    BY DEF KeyOf
  <2>2. QED
    BY <1>1, <2>1 DEF FormClass, KeyForms
<1>6. ASSUME NEW k \in KeyForms(counts, key)
      PROVE  k[2] \in FormClass(merged, key) /\ k = KeyOf(k[2])
  <2>1. k \in DOMAIN counts /\ k[1] = key /\ k = KeyOf(k[2]) /\ k[2] \in DOMAIN merged
    BY <1>1 DEF KeyForms
  <2> DEFINE r == k[2]
  <2> HIDE DEF r
  <2>2. k[1] = Nfc[r]
    <3>1. KeyOf(r)[1] = Nfc[r]
      BY DEF KeyOf
    <3>2. QED
      BY <2>1, <3>1 DEF r
  <2>3. QED
    BY <2>1, <2>2 DEF FormClass, r
<1>7. QED
  BY <1>4, <1>5, <1>6

(* A class is mixed when it has a lesser form.                             *)
LEMMA MixedAre ==
    ASSUME NEW merged, NEW w, NEW S, IsCorpusAccount(merged, w, S), NEW counts,
           IsFormCount(counts, w, S)
    PROVE  MixedKeys(counts) = { Nfc[s] : s \in Lesser(merged) }
<1> DEFINE X(key) == KeyForms(counts, key)
           M == MixedKeys(counts)
<1>1. M = { key \in { k[1] : k \in DOMAIN counts } : Cardinality(X(key)) >= 2 }
  BY DEF MixedKeys, KeyForms
<1>2. \A key : /\ IsFiniteSet(X(key))
               /\ \A r \in FormClass(merged, key) : KeyOf(r) \in X(key)
               /\ \A k \in X(key) : k[2] \in FormClass(merged, key) /\ k = KeyOf(k[2])
  BY KeyFormsAre
<1>3. \A key : \A k \in X(key) : k \in DOMAIN counts /\ k[1] = key
  BY DEF KeyForms
<1> HIDE DEF X, M
<1>4. ASSUME NEW key \in M
      PROVE  key \in { Nfc[s] : s \in Lesser(merged) }
  <2> DEFINE Y == X(key)
             top == Majority(merged, key)
             k == KeyOf(top)
  <2>1. IsFiniteSet(Y) /\ Cardinality(Y) >= 2
    BY <1>1, <1>2
  <2>2. Y # {}
    BY <2>1, FS_EmptySet
  <2>3. FormClass(merged, key) # {}
    BY <1>2, <2>2
  <2>4. IsTop(merged, top, key)
    BY <2>3, MajorityIs
  <2>5. k \in Y
    BY <1>2, <2>4 DEF IsTop
  <2> HIDE DEF Y, k
  <2>6. IsFiniteSet(Y \ {k}) /\ Cardinality(Y \ {k}) = Cardinality(Y) - 1
    BY <2>1, <2>5, FS_RemoveElement
  <2>7. Y \ {k} # {}
    <3>1. Cardinality(Y) \in Nat
      BY <2>1, FS_CardinalityType
    <3>2. Cardinality(Y \ {k}) # 0
      BY <2>1, <2>6, <3>1
    <3>3. QED
      BY <3>2, FS_EmptySet
  <2>8. PICK e \in Y : e # k
    BY <2>7
  <2> DEFINE s == e[2]
  <2>9. s \in FormClass(merged, key) /\ e = KeyOf(s)
    BY <1>2 DEF Y
  <2> HIDE DEF s
  <2>10. s # top
    BY <2>8, <2>9 DEF k
  <2>11. s \in DOMAIN merged /\ Nfc[s] = key
    BY <2>9 DEF FormClass
  <2>12. s \in Lesser(merged)
    BY <2>10, <2>11 DEF Lesser
  <2>13. QED
    BY <2>11, <2>12
<1>5. ASSUME NEW s \in Lesser(merged)
      PROVE  Nfc[s] \in M
  <2> DEFINE key == Nfc[s]
             Y == X(key)
             k == KeyOf(s)
  <2>1. s \in DOMAIN merged
    BY DEF Lesser
  <2>2. PICK r \in (DOMAIN merged) \ {s} : Nfc[r] = Nfc[s] /\ Rival(merged, r, s)
    BY <2>1, LesserIs
  <2>3. s \in FormClass(merged, key) /\ r \in FormClass(merged, key)
    BY <2>1, <2>2 DEF FormClass
  <2> DEFINE e == KeyOf(r)
  <2>4. e[2] = r /\ k[2] = s
    BY DEF KeyOf
  <2>5. k \in Y /\ e \in Y
    BY <1>2, <2>3
  <2>6. e # k
    BY <2>2, <2>4
  <2>7. IsFiniteSet(Y)
    BY <1>2
  <2> HIDE DEF Y, k, e
  <2>8. Cardinality(Y) \in Nat /\ Cardinality(Y \ {k}) = Cardinality(Y) - 1 /\ IsFiniteSet(Y \ {k})
    BY <2>5, <2>7, FS_RemoveElement, FS_CardinalityType
  <2>9. Cardinality(Y \ {k}) # 0 /\ Cardinality(Y \ {k}) \in Nat
    <3>1. Y \ {k} # {}
      BY <2>5, <2>6
    <3>2. QED
      BY <2>8, <3>1, FS_EmptySet, FS_CardinalityType
  <2>10. Cardinality(Y) >= 2
    BY <2>8, <2>9
  <2>11. k \in DOMAIN counts /\ k[1] = key
    BY <1>3, <2>5 DEF Y
  <2>12. QED
    BY <1>1, <2>10, <2>11 DEF Y
<1>6. QED
  BY <1>4, <1>5 DEF M

LesserOf(merged, key) == { s \in Lesser(merged) : Nfc[s] = key }

DeviantsOf(merged, w, S, key) == UNION { FormSites(w, S, s) : s \in LesserOf(merged, key) }

(* The minority of a class is the number of places of its lesser forms.    *)
LEMMA MinorityIs ==
    ASSUME NEW merged, NEW w, NEW S, IsCorpusAccount(merged, w, S), NEW counts,
           IsFormCount(counts, w, S), NEW key, LesserOf(merged, key) # {}
    PROVE  /\ IsFiniteSet(DeviantsOf(merged, w, S, key)) /\ DeviantsOf(merged, w, S, key) # {}
           /\ Minority(counts, key) = Cardinality(DeviantsOf(merged, w, S, key))
<1> DEFINE D == DOMAIN merged
           C == FormClass(merged, key)
           L == LesserOf(merged, key)
           top == Majority(merged, key)
           forms == KeyForms(counts, key)
           b == [k \in forms |-> counts[k]]
           P == [k \in forms |-> FormSites(w, S, k[2])]
           A == FormSites(w, S, top)
           B == DeviantsOf(merged, w, S, key)
           W == PartsOf(P, forms)
<1>1. IsRowed(merged, w, S)
  BY AccountIs
<1>2. /\ IsFiniteSet(S) /\ IsFiniteSet(D)
      /\ \A r \in D : /\ merged[r].count = Cardinality(FormSites(w, S, r)) /\ merged[r].count \in Nat \ {0}
                      /\ IsFiniteSet(FormSites(w, S, r)) /\ FormSites(w, S, r) \subseteq S
                      /\ merged[r].first \in FormSites(w, S, r)
  BY <1>1 DEF IsRowed, IsLeast
<1>3. L \subseteq C /\ C \subseteq D
  BY DEF LesserOf, Lesser, FormClass
<1>4. IsTop(merged, top, key)
  BY <1>3, MajorityIs
<1>5. C = L \cup {top} /\ top \notin L /\ top \in C
  BY <1>4 DEF IsTop, LesserOf, Lesser, FormClass
<1>6. /\ IsFiniteSet(forms)
      /\ \A r \in C : KeyOf(r) \in forms
      /\ \A k \in forms : k[2] \in C /\ k = KeyOf(k[2])
  BY KeyFormsAre
<1>7. /\ IsTally(counts)
      /\ \A r \in D : KeyOf(r) \in DOMAIN counts /\ counts[KeyOf(r)] = merged[r].count
  BY CountsAre
<1>8. forms \subseteq DOMAIN counts
  BY DEF KeyForms
<1>9. Minority(counts, key) = BagCardinality(b) - Max({ counts[k] : k \in forms })
  <2>1. CopiesOf(forms, counts) = BagCardinality([k \in forms \cap DOMAIN counts |-> counts[k]])
    BY DEF CopiesOf
  <2>2. forms \cap DOMAIN counts = forms
    BY <1>8
  <2>3. CopiesOf(forms, counts) = BagCardinality(b)
    BY <2>1, <2>2
  <2> HIDE DEF b
  <2>4. QED
    BY <2>3 DEF Minority, KeyForms
<1> HIDE DEF forms, top, C, L, B, D
<1>10. \A r : KeyOf(r)[2] = r
  BY DEF KeyOf
<1>11. \A k \in forms : /\ b[k] = merged[k[2]].count /\ b[k] \in Nat \ {0} /\ counts[k] = b[k]
                        /\ P[k] = FormSites(w, S, k[2]) /\ b[k] = Cardinality(P[k])
  <2>1. ASSUME NEW k \in forms
        PROVE  /\ b[k] = merged[k[2]].count /\ b[k] \in Nat \ {0} /\ counts[k] = b[k]
               /\ P[k] = FormSites(w, S, k[2]) /\ b[k] = Cardinality(P[k])
    <3> DEFINE r == k[2]
    <3>1. r \in D /\ k = KeyOf(r)
      BY <1>3, <1>6
    <3> HIDE DEF r
    <3>2. counts[k] = merged[r].count
      BY <1>7, <3>1
    <3>3. /\ merged[r].count = Cardinality(FormSites(w, S, r)) /\ merged[r].count \in Nat \ {0}
      BY <1>2, <3>1
    <3>4. b[k] = counts[k] /\ P[k] = FormSites(w, S, r)
      BY DEF r
    <3> HIDE DEF b, P
    <3>5. QED
      BY <3>2, <3>3, <3>4 DEF r
  <2>2. QED
    BY <2>1
<1>12. IsTally(b) /\ DOMAIN b = forms
  <2>1. b \in [forms -> Nat \ {0}]
    BY <1>11
  <2> HIDE DEF b
  <2>2. QED
    BY <1>6, <2>1, TallyOf
<1> HIDE DEF b, P
<1>13. Splits(P, forms)
  <2>1. \A k \in forms : IsFiniteSet(P[k])
    BY <1>2, <1>3, <1>6, <1>11
  <2>2. \A d, e \in forms : d # e => d[2] # e[2]
    BY <1>6
  <2>3. \A d, e \in forms : d # e => P[d] \cap P[e] = {}
    BY <1>11, <2>2 DEF FormSites
  <2>4. QED
    BY <2>1, <2>3 DEF Splits
<1>14. IsFiniteSet(W) /\ BagCardinality(b) = Cardinality(W)
  BY <1>11, <1>12, <1>13, CopiesCounted
<1>15. W = A \cup B
  <2>1. ASSUME NEW x \in W
        PROVE  x \in A \cup B
    <3>1. PICK k \in forms : x \in P[k]
      BY DEF PartsOf
    <3>2. x \in FormSites(w, S, k[2]) /\ k[2] \in C
      BY <1>6, <1>11, <3>1
    <3>3. k[2] = top \/ k[2] \in L
      BY <1>5, <3>2
    <3>4. QED
      BY <3>2, <3>3 DEF B, DeviantsOf, L
  <2>2. ASSUME NEW r \in C, NEW x \in FormSites(w, S, r)
        PROVE  x \in W
    <3> DEFINE k == KeyOf(r)
    <3>1. k \in forms /\ k[2] = r
      BY <1>6, <1>10
    <3> HIDE DEF k
    <3>2. x \in P[k]
      BY <1>11, <3>1
    <3>3. QED
      BY <3>1, <3>2 DEF PartsOf
  <2>3. \A x \in B : \E s \in L : x \in FormSites(w, S, s)
    BY DEF B, DeviantsOf, L
  <2>4. \A x \in A \cup B : x \in W
    BY <1>5, <2>2, <2>3
  <2> HIDE DEF W, A
  <2>5. QED
    BY <2>1, <2>4
<1>16. A \cap B = {}
  <2>1. \A x \in B : \E s \in L : x \in FormSites(w, S, s)
    BY DEF B, DeviantsOf, L
  <2>2. QED
    BY <1>5, <2>1 DEF FormSites
<1>17. IsFiniteSet(A) /\ Cardinality(A) = merged[top].count /\ merged[top].count \in Nat
  BY <1>2, <1>3, <1>5
<1>18. IsFiniteSet(B)
  <2>1. B \subseteq W
    BY <1>15
  <2>2. QED
    BY <1>14, <2>1, FS_Subset
<1>19. B # {}
  <2>1. PICK s \in L : TRUE
    BY DEF L
  <2>2. merged[s].first \in FormSites(w, S, s)
    BY <1>2, <1>3, <2>1
  <2>3. QED
    BY <2>1, <2>2 DEF B, DeviantsOf, L
<1> HIDE DEF A, W
<1>20. Cardinality(W) = merged[top].count + Cardinality(B) /\ Cardinality(B) \in Nat
  <2>1. Cardinality(A \cup B) = Cardinality(A) + Cardinality(B) - Cardinality(A \cap B)
    BY <1>17, <1>18, FS_Union
  <2>2. Cardinality(A \cap B) = 0
    BY <1>16, FS_EmptySet
  <2>3. Cardinality(B) \in Nat
    BY <1>18, FS_CardinalityType
  <2>4. QED
    BY <1>15, <1>17, <2>1, <2>2, <2>3
<1>21. Max({ counts[k] : k \in forms }) = merged[top].count
  <2> DEFINE X == { counts[k] : k \in forms }
             e == KeyOf(top)
             x == merged[top].count
  <2>1. X \in SUBSET Nat
    BY <1>11
  <2>2. e \in forms /\ counts[e] = x
    BY <1>3, <1>5, <1>6, <1>7
  <2> HIDE DEF e, x
  <2>3. x \in X
    BY <2>2
  <2>4. \A r \in C : merged[r].count <= x
    <3>1. \A r \in C : merged[r].count \in Nat
      BY <1>2, <1>3
    <3>2. \A r \in C \ {top} : Rival(merged, top, r)
      BY <1>4 DEF IsTop, C
    <3>3. QED
      BY <1>17, <3>1, <3>2 DEF Rival, x
  <2>5. \A y \in X : y <= x
    <3>1. \A k \in forms : counts[k] = merged[k[2]].count /\ k[2] \in C
      BY <1>6, <1>11
    <3>2. QED
      BY <2>4, <3>1
  <2> HIDE DEF X
  <2>6. Max(X) = x
    BY <2>1, <2>3, <2>5, GreatestIs
  <2>7. QED
    BY <2>6 DEF X, x
<1>22. Minority(counts, key) = Cardinality(B)
  <2> DEFINE n == merged[top].count
             d == Cardinality(B)
  <2>1. n \in Nat /\ d \in Nat
    BY <1>17, <1>20
  <2>2. Minority(counts, key) = (n + d) - n
    BY <1>9, <1>14, <1>20, <1>21
  <2> HIDE DEF n, d
  <2>3. Minority(counts, key) = d
    BY <2>1, <2>2
  <2>4. QED
    BY <2>3 DEF d
<1>23. QED
  BY <1>18, <1>19, <1>22 DEF B

(* The affected units of the finding are the places of all lesser forms.   *)
LEMMA AffectedIs ==
    ASSUME NEW merged, NEW w, NEW S, IsCorpusAccount(merged, w, S), NEW counts,
           IsFormCount(counts, w, S)
    PROVE  JudgeForms(counts)
             = [mixed |-> Lesser(merged) # {}, affected |-> Cardinality(LesserSites(merged, w, S))]
<1> DEFINE M == { Nfc[s] : s \in Lesser(merged) }
           b == [key \in M |-> Minority(counts, key)]
           P == [key \in M |-> DeviantsOf(merged, w, S, key)]
           W == PartsOf(P, M)
<1>1. MixedKeys(counts) = M
  BY MixedAre
<1>2. JudgeForms(counts) = [mixed |-> M # {}, affected |-> BagCardinality(b)]
  BY <1>1 DEF JudgeForms
<1>3. M # {} <=> Lesser(merged) # {}
  OBVIOUS
<1>4. \A s \in Lesser(merged) : Nfc[s] \in M
  OBVIOUS
<1>5. \A key \in M : LesserOf(merged, key) # {}
  BY DEF LesserOf
<1> HIDE DEF M
<1>6. \A key \in M : b[key] = Minority(counts, key) /\ P[key] = DeviantsOf(merged, w, S, key)
  OBVIOUS
<1>7. b = [key \in M |-> b[key]]
  OBVIOUS
<1> HIDE DEF b, P
<1>8. \A key \in M : /\ IsFiniteSet(P[key]) /\ P[key] # {} /\ b[key] = Cardinality(P[key])
  BY <1>5, <1>6, MinorityIs
<1>9. \A key \in M : b[key] \in Nat \ {0}
  BY <1>8, FS_CardinalityType, FS_EmptySet
<1>10. IsFiniteSet(M)
  <2>1. IsRowed(merged, w, S)
    BY AccountIs
  <2>2. IsFiniteSet(Lesser(merged))
    BY <2>1, FS_Subset DEF IsRowed, Lesser
  <2> DEFINE L == Lesser(merged)
  <2>3. M = { Nfc[s] : s \in L }
    BY DEF M
  <2> HIDE DEF L
  <2>4. QED
    BY <2>2, <2>3, ImageFinite DEF L
<1>11. IsTally(b) /\ DOMAIN b = M
  <2>1. b \in [M -> Nat \ {0}]
    BY <1>7, <1>9
  <2>2. QED
    BY <1>7, <1>10, <2>1, TallyOf
<1>12. Splits(P, M)
  <2>1. ASSUME NEW d \in M, NEW e \in M, d # e, NEW x \in P[d], x \in P[e]
        PROVE  FALSE
    <3>1. PICK s \in LesserOf(merged, d) : x \in FormSites(w, S, s)
      BY <1>6 DEF DeviantsOf
    <3>2. PICK r \in LesserOf(merged, e) : x \in FormSites(w, S, r)
      BY <1>6, <2>1 DEF DeviantsOf
    <3>3. w[x] = s /\ w[x] = r
      BY <3>1, <3>2 DEF FormSites
    <3>4. Nfc[s] = d /\ Nfc[r] = e
      BY DEF LesserOf
    <3>5. QED
      BY <2>1, <3>3, <3>4
  <2>2. \A d, e \in M : d # e => P[d] \cap P[e] = {}
    BY <2>1
  <2>3. QED
    BY <1>8, <2>2 DEF Splits
<1>13. BagCardinality(b) = Cardinality(W)
  BY <1>8, <1>11, <1>12, CopiesCounted
<1>14. W = LesserSites(merged, w, S)
  <2>1. ASSUME NEW x \in W
        PROVE  x \in LesserSites(merged, w, S)
    <3>1. PICK key \in M : x \in P[key]
      BY DEF PartsOf
    <3>2. PICK s \in LesserOf(merged, key) : x \in FormSites(w, S, s)
      BY <1>6, <3>1 DEF DeviantsOf
    <3>3. QED
      BY <3>2 DEF LesserOf, LesserSites
  <2>2. ASSUME NEW x \in LesserSites(merged, w, S)
        PROVE  x \in W
    <3>1. PICK s \in Lesser(merged) : x \in FormSites(w, S, s)
      BY DEF LesserSites
    <3>2. Nfc[s] \in M /\ s \in LesserOf(merged, Nfc[s])
      BY <1>4 DEF LesserOf
    <3>3. x \in P[Nfc[s]]
      BY <1>6, <3>1, <3>2 DEF DeviantsOf
    <3>4. QED
      BY <3>2, <3>3 DEF PartsOf
  <2> HIDE DEF W
  <2>3. QED
    BY <2>1, <2>2
<1>15. QED
  BY <1>2, <1>3, <1>13, <1>14

(* The reader's table of forms, and its deviants.                          *)
FormTable(w, S) == [raw \in { w[p] : p \in S } |-> FormSites(w, S, raw)]

(* A reader of the whole corpus calls the same places deviant.             *)
LEMMA DeviantsAre ==
    ASSUME NEW merged, NEW w, NEW S, IsCorpusAccount(merged, w, S)
    PROVE  Deviants(FormTable(w, S)) = LesserSites(merged, w, S)
<1> DEFINE D == DOMAIN merged
           F == FormTable(w, S)
<1>1. IsRowed(merged, w, S)
  BY AccountIs
<1>2. /\ D = { w[p] : p \in S } /\ S \in SUBSET Quads
      /\ \A r \in D : /\ merged[r].count = Cardinality(FormSites(w, S, r)) /\ merged[r].count \in Nat \ {0}
                      /\ IsLeast(merged[r].first, FormSites(w, S, r)) /\ FormSites(w, S, r) \subseteq S
  BY <1>1 DEF IsRowed, IsCorpusAccount
<1>3. DOMAIN F = D /\ \A r \in D : F[r] = FormSites(w, S, r)
  BY <1>2 DEF FormTable
<1> HIDE DEF D, F
<1>4. \A r \in D : First(F[r]) = merged[r].first
  <2>1. ASSUME NEW r \in D
        PROVE  First(F[r]) = merged[r].first
    <3> DEFINE X == F[r]
               f == merged[r].first
    <3>1. X \in SUBSET Quads /\ IsLeast(f, X)
      BY <1>2, <1>3
    <3> HIDE DEF X, f
    <3>2. First(X) = f
      BY <3>1, FirstIs
    <3>3. QED
      BY <3>2 DEF X, f
  <2>2. QED
    BY <2>1
<1>5. \A r, s \in D : Outranks(F[r], F[s]) <=> Rival(merged, r, s)
  <2>1. ASSUME NEW r \in D, NEW s \in D
        PROVE  Outranks(F[r], F[s]) <=> Rival(merged, r, s)
    <3> DEFINE X == F[r]
               Y == F[s]
               n == merged[r].count
               k == merged[s].count
    <3>1. /\ Cardinality(X) = n /\ Cardinality(Y) = k /\ n \in Nat /\ k \in Nat
          /\ First(X) = merged[r].first /\ First(Y) = merged[s].first
      BY <1>2, <1>3, <1>4
    <3> HIDE DEF X, Y, n, k
    <3>2. Outranks(X, Y) <=> (k < n \/ (k = n /\ Before(merged[r].first, merged[s].first)))
      BY <3>1 DEF Outranks, Earlier
    <3>3. QED
      BY <3>2 DEF Rival, X, Y, n, k
  <2>2. QED
    BY <2>1
<1>6. { s \in DOMAIN F : \E r \in (DOMAIN F) \ {s} : Nfc[r] = Nfc[s] /\ Outranks(F[r], F[s]) } = Lesser(merged)
  <2>1. \A s \in D : s \in Lesser(merged) <=> \E r \in D \ {s} : Nfc[r] = Nfc[s] /\ Rival(merged, r, s)
    BY LesserIs DEF D
  <2>2. Lesser(merged) \subseteq D
    BY DEF Lesser, D
  <2>3. QED
    BY <1>3, <1>5, <2>1, <2>2
<1>7. Deviants(F) = UNION { F[s] : s \in Lesser(merged) }
  BY <1>6 DEF Deviants
<1>8. \A s \in Lesser(merged) : F[s] = FormSites(w, S, s)
  BY <1>3 DEF Lesser, D
<1>9. QED
  BY <1>7, <1>8 DEF LesserSites, F

(* What the reader finds is the one finding.                               *)
LEMMA FormsFound ==
    ASSUME NEW U, NEW table \in CorpusOver(U), NEW counts,
           IsFormCount(counts, TextOf(table), QuadsIn(table))
    PROVE  NormalFinding(table, counts) = FindingAt(Deviants(FormTable(TextOf(table), QuadsIn(table))))
<1> DEFINE w == TextOf(table)
           S == QuadsIn(table)
           merged == Merged(table)
           T == LesserSites(merged, w, S)
<1>1. IsAccount(merged, w, S, QuadOrder)
  BY MergedAccount
<1>2. S \in SUBSET Quads
  BY DEF QuadsIn
<1>3. NormalFinding(table, counts) = OutcomeFinding(JudgeForms(counts), merged)
  BY DEF NormalFinding
<1> HIDE DEF w, S, merged
<1>4. IsCorpusAccount(merged, w, S)
  BY <1>1, <1>2 DEF IsCorpusAccount
<1>5. JudgeForms(counts) = [mixed |-> Lesser(merged) # {}, affected |-> Cardinality(T)]
  BY <1>4, AffectedIs DEF w, S
<1>6. Deviants(FormTable(w, S)) = T
  BY <1>4, DeviantsAre
<1>7. Lesser(merged) # {} <=> T # {}
  <2>1. IsRowed(merged, w, S)
    BY <1>4, AccountIs
  <2>2. \A s \in Lesser(merged) : merged[s].first \in FormSites(w, S, s)
    BY <2>1 DEF IsRowed, IsLeast, Lesser
  <2>3. QED
    BY <2>2 DEF LesserSites
<1>8. Lesser(merged) # {} => First(T) = Anchor(merged)
  BY <1>4, AnchorIs
<1> HIDE DEF T
<1>9. OutcomeFinding(JudgeForms(counts), merged) = FindingAt(T)
  <2> DEFINE n == Cardinality(T)
             j == [mixed |-> Lesser(merged) # {}, affected |-> n]
  <2>1. j.mixed = (Lesser(merged) # {}) /\ j.affected = n
    OBVIOUS
  <2>2. JudgeForms(counts) = j
    BY <1>5
  <2> HIDE DEF n, j
  <2>3. CASE T = {}
    BY <1>7, <2>1, <2>2, <2>3 DEF OutcomeFinding, FindingAt
  <2>4. CASE T # {}
    BY <1>7, <1>8, <2>1, <2>2, <2>4 DEF OutcomeFinding, FindingAt, n
  <2>5. QED
    BY <2>3, <2>4
<1>10. QED
  BY <1>3, <1>6, <1>9 DEF w, S

(***************************************************************************)
(* The mixed-normalization finding is anchored at the first deviant unit of*)
(* the corpus and counts every one of them, though books are tallied apart *)
(* and the majority is decided over the merged table.                      *)
(***************************************************************************)
THEOREM AnchorFirst == Spec => []AnchorIsTheFirstDeviant
<1>1. CorpusTyped /\ IsFresh => AnchorIsTheFirstDeviant
  <2> SUFFICES ASSUME CorpusTyped, IsFresh, rule = "forms"
               PROVE  NormalFinding(corpus, stats) = FindingAt(Deviants(FormsWritten(Everywhere)))
    BY DEF AnchorIsTheFirstDeviant
  <2> DEFINE U == Alphabet("forms")
             w == TextOf(corpus)
             S == QuadsIn(corpus)
  <2>1. corpus \in CorpusOver(U)
    <3> DEFINE V == Seq(Seq(Seq(U)))
               m == BookCount(rule)
    <3>1. m \in Nat
      BY RulesNamed DEF CorpusTyped
    <3>2. corpus \in [1 .. m -> Books("forms")] /\ Books("forms") \subseteq V
      BY BookIn DEF CorpusTyped
    <3> HIDE DEF V, m
    <3>3. corpus \in [1 .. m -> V]
      BY <3>2
    <3>4. corpus \in Seq(V)
      BY <3>1, <3>3
    <3>5. QED
      BY <3>4 DEF CorpusOver, V
  <2>2. stats = SumOf([b \in DOMAIN corpus |-> FoldForms(corpus[b])])
    BY FreshIs, ContributionIs DEF IsFresh, AddendsOf
  <2> HIDE DEF U
  <2>3. IsFormCount(stats, w, S)
    BY <2>1, <2>2, FormsCounted
  <2>4. Everywhere = S /\ \A q \in S : At(q[1], Tail(q)) = w[q]
    BY <2>1, EverywhereIs
  <2> HIDE DEF w, S
  <2>5. FormsWritten(Everywhere) = FormTable(w, S)
    <3>1. { At(p[1], Tail(p)) : p \in S } = { w[p] : p \in S }
      BY <2>4
    <3>2. \A raw : WrittenAs(S, raw) = FormSites(w, S, raw)
      BY <2>4 DEF WrittenAs, FormSites
    <3>3. QED
      BY <2>4, <3>1, <3>2 DEF FormsWritten, FormTable
  <2>6. QED
    BY <2>1, <2>3, <2>5, FormsFound DEF w, S
<1>2. QED
  BY <1>1, FreshInduction, PTL

(* The run under way after n letters: the last len of them, and no more.   *)
IsUnderWay(letters, n, run) ==
    \/ run = NoRun /\ (n = 0 \/ ~ IsWritten(letters[n]))
    \/ /\ run.len \in 1 .. n /\ run.start = n - run.len + 1
       /\ IsWritten(run.glyph) /\ \A k \in run.start .. n : letters[k] = run.glyph
       /\ run.start = 1 \/ letters[run.start - 1] # run.glyph

(* What a maximal run is, letter by letter.                                *)
LEMMA MaximalIs ==
    ASSUME NEW U, NEW letters \in Seq(U)
    PROVE  AreMaximal(MaximalRuns(letters), letters, Len(letters))
<1> DEFINE m == Len(letters)
<1>1. DOMAIN letters = 1 .. m /\ m \in Nat
  BY LengthIn
<1>2. MaximalRuns(letters) =
        { r \in (1 .. m) \X (1 .. m) : r[2] - r[1] + 1 >= 3 /\ IsMaximal(letters, r[1], r[2]) }
  BY <1>1 DEF MaximalRuns, Threshold
<1>3. \A i, j : IsMaximal(letters, i, j) <=>
        /\ IsWritten(letters[i]) /\ \A k \in i .. j : letters[k] = letters[i]
        /\ i = 1 \/ letters[i - 1] # letters[i]
        /\ j = m \/ letters[j + 1] # letters[i]
  BY DEF IsMaximal, IsWritten
<1> HIDE DEF m
<1>4. ASSUME NEW i, NEW j
      PROVE  i \in 1 .. m /\ j \in 1 .. m /\ j - i + 1 >= 3 <=>
               i \in 1 .. j /\ j \in 1 .. m /\ j - i + 1 >= 3
  BY <1>1
<1> DEFINE D == 1 .. m
           P(i, j) == j - i + 1 >= 3 /\ IsMaximal(letters, i, j)
           M == { r \in D \X D : P(r[1], r[2]) }
<1>5. MaximalRuns(letters) = M
  BY <1>2
<1>6. \A i, j : i \in D /\ j \in D /\ P(i, j) <=>
        IsStretch(letters, m, i, j) /\ IsWritten(letters[i]) /\ j - i + 1 >= 3
  BY <1>3, <1>4 DEF IsStretch
<1> HIDE DEF D, P
<1>7. \A r \in M : r = <<r[1], r[2]>> /\ r[1] \in D /\ r[2] \in D
  OBVIOUS
<1>8. \A i, j : <<i, j>> \in M <=> i \in D /\ j \in D /\ P(i, j)
  OBVIOUS
<1> HIDE DEF M
<1>9. QED
  BY <1>5, <1>6, <1>7, <1>8 DEF AreMaximal, m, D

(* What a scan has flushed are the runs that ended.                        *)
LEMMA RunsFlushed ==
    ASSUME NEW letters, NEW m \in Nat, NEW M, AreMaximal(M, letters, m), NEW n \in 0 .. m,
           NEW spans \in Seq(Int \X Int), NEW run, run.len \in Nat,
           IsUnderWay(letters, n, run), n \in 1 .. m - 1 => letters[n + 1] # run.glyph \/ ~ IsWritten(letters[n + 1]),
           Range(spans) = UpToIndex(M, n - run.len)
    PROVE  Range(Flushed(spans, run)) = UpToIndex(M, n)
<1>1. CASE run = NoRun
  <2>1. run.len = 0
    BY <1>1 DEF NoRun
  <2>2. n - run.len = n /\ ~ (run.len >= 3)
    BY <2>1
  <2>3. QED
    BY <2>2 DEF Flushed, Threshold
<1>2. CASE run # NoRun
  <2> DEFINE s == run.start
             l == run.len
             g == run.glyph
  <2>1. /\ l \in 1 .. n /\ s = n - l + 1
        /\ IsWritten(g) /\ \A k \in s .. n : letters[k] = g
        /\ s = 1 \/ letters[s - 1] # g
    BY <1>2 DEF IsUnderWay
  <2>2. n \in 1 .. m - 1 => letters[n + 1] # g
    BY <2>1
  <2>3. Flushed(spans, run) = IF l >= 3 THEN Append(spans, <<s, s + l - 1>>) ELSE spans
    BY DEF Flushed, Threshold
  <2>4. Range(spans) = UpToIndex(M, n - l)
    OBVIOUS
  <2> HIDE DEF s, l, g
  <2>5. /\ n \in 1 .. m /\ s \in 1 .. n /\ s \in s .. n /\ n - s + 1 = l /\ s - 1 = n - l /\ s + l - 1 = n
        /\ (n = m \/ n \in 1 .. m - 1) /\ s \in Int /\ n \in Int
    BY <2>1
  <2>6. letters[s] = g /\ IsWritten(letters[s])
    BY <2>1, <2>5
  <2>7. IsStretch(letters, m, s, n)
    BY <2>1, <2>2, <2>5, <2>6 DEF IsStretch
  <2>8. GainsRun(M, s, n)
    BY <2>6, <2>7, RunEnds
  <2>9. <<s, n>> \in Int \X Int
    BY <2>5
  <2>10. Range(Append(spans, <<s, n>>)) = Range(spans) \cup {<<s, n>>}
    BY <2>9, RangeOfAppend
  <2>11. CASE l >= 3
    BY <2>3, <2>4, <2>5, <2>8, <2>10, <2>11 DEF GainsRun
  <2>12. CASE ~ (l >= 3)
    <3>1. UpToIndex(M, n) = UpToIndex(M, s - 1)
      BY <2>5, <2>8, <2>12 DEF GainsRun
    <3>2. QED
      BY <2>3, <2>4, <2>5, <2>12, <3>1
  <2>13. QED
    BY <2>11, <2>12
<1>3. QED
  BY <1>1, <1>2

ScansTo(letters, M, n, x) ==
    /\ IsUnderWay(letters, n, x.run) /\ x.run.len \in Nat /\ x.spans \in Seq(Int \X Int)
    /\ Range(x.spans) = UpToIndex(M, n - x.run.len)

IsScan(x) ==
    x = [spans |-> x.spans, run |-> [start |-> x.run.start, glyph |-> x.run.glyph, len |-> x.run.len]]

(* Where no run is under way there is no letter.                           *)
LEMMA NoRunIs == NoRun.len = 0 /\ ~ IsWritten(NoRun.glyph)
BY DEF NoRun, IsWritten

(* The letter of the run under way goes on with it.                        *)
LEMMA LetterTaken ==
    ASSUME NEW x, IsScan(x), NEW n, NEW c, IsWritten(c), c = x.run.glyph, NEW y, y = WithLetter(x, n, c)
    PROVE  /\ y.spans = x.spans /\ y.run.start = x.run.start
           /\ y.run.glyph = x.run.glyph /\ y.run.len = x.run.len + 1
<1>1. y = [x EXCEPT !.run.len = @ + 1]
  BY Zenon DEF WithLetter, IsWritten
<1>2. QED
  BY <1>1 DEF IsScan

(* A letter other than the run's ends the run.                             *)
LEMMA LetterFlushes ==
    ASSUME NEW x, NEW n, NEW c, ~ (IsWritten(c) /\ c = x.run.glyph), NEW y, y = WithLetter(x, n, c)
    PROVE  y.spans = Flushed(x.spans, x.run)
<1>1. y = [spans |-> Flushed(x.spans, x.run),
          run |-> IF c = "" THEN NoRun ELSE [start |-> n, glyph |-> c, len |-> 1]]
  BY Zenon DEF WithLetter, IsWritten
<1> DEFINE f == Flushed(x.spans, x.run)
           r == IF c = "" THEN NoRun ELSE [start |-> n, glyph |-> c, len |-> 1]
<1> HIDE DEF f, r
<1>2. y = [spans |-> f, run |-> r]
  BY <1>1 DEF f, r
<1>3. y.spans = f
  BY <1>2
<1>4. QED
  BY <1>3 DEF f

(* A letter other than the run's begins one of its own.                    *)
LEMMA LetterStarts ==
    ASSUME NEW x, NEW n, NEW c, IsWritten(c), c # x.run.glyph, NEW y, y = WithLetter(x, n, c)
    PROVE  y.run.start = n /\ y.run.glyph = c /\ y.run.len = 1
<1>1. y = [spans |-> Flushed(x.spans, x.run), run |-> [start |-> n, glyph |-> c, len |-> 1]]
  BY DEF WithLetter, IsWritten
<1>2. QED
  BY <1>1

(* A blank ends the run under way.                                         *)
LEMMA BlankEnds ==
    ASSUME NEW x, NEW n, NEW c, ~ IsWritten(c), NEW y, y = WithLetter(x, n, c)
    PROVE  y.run = NoRun
<1>1. y = [spans |-> Flushed(x.spans, x.run), run |-> NoRun]
  BY DEF WithLetter, IsWritten
<1>2. QED
  BY <1>1

(* The run under way takes the letter it is of.                            *)
LEMMA RunTakes ==
    ASSUME NEW letters, NEW n \in Nat \ {0}, NEW run, IsUnderWay(letters, n - 1, run),
           IsWritten(letters[n]), letters[n] = run.glyph, NEW next,
           next.start = run.start, next.glyph = run.glyph, next.len = run.len + 1
    PROVE  IsUnderWay(letters, n, next) /\ n - next.len = (n - 1) - run.len
<1>1. run # NoRun
  BY NoRunIs
<1> DEFINE s == run.start
           l == run.len
           g == run.glyph
<1>2. /\ l \in 1 .. n - 1 /\ s = (n - 1) - l + 1
      /\ IsWritten(g) /\ \A k \in s .. n - 1 : letters[k] = g
      /\ s = 1 \/ letters[s - 1] # g
  BY <1>1 DEF IsUnderWay
<1>3. letters[n] = g /\ next.start = s /\ next.glyph = g /\ next.len = l + 1
  OBVIOUS
<1> HIDE DEF s, l, g
<1>4. l + 1 \in 1 .. n /\ s = n - (l + 1) + 1 /\ n - (l + 1) = (n - 1) - l
  BY <1>2
<1>5. \A k \in s .. n : k \in s .. n - 1 \/ k = n
  BY <1>2
<1>6. \A k \in s .. n : letters[k] = g
  BY <1>2, <1>3, <1>5
<1>7. IsUnderWay(letters, n, next)
  BY <1>2, <1>3, <1>4, <1>6 DEF IsUnderWay
<1>8. QED
  BY <1>3, <1>4, <1>7 DEF l

(* Another letter starts a run of its own.                                 *)
LEMMA RunStarting ==
    ASSUME NEW letters, NEW n \in Nat \ {0}, NEW run, IsUnderWay(letters, n - 1, run),
           IsWritten(letters[n]), letters[n] # run.glyph, NEW next,
           next.start = n, next.glyph = letters[n], next.len = 1
    PROVE  IsUnderWay(letters, n, next)
<1>1. n = 1 \/ letters[n - 1] # letters[n]
  <2>1. CASE run = NoRun
    <3>1. n - 1 = 0 \/ ~ IsWritten(letters[n - 1])
      BY <2>1, NoRunIs DEF IsUnderWay
    <3>2. QED
      BY <3>1
  <2>2. CASE run # NoRun
    <3>1. /\ run.len \in 1 .. n - 1 /\ run.start = (n - 1) - run.len + 1
          /\ \A k \in run.start .. n - 1 : letters[k] = run.glyph
      BY <2>2 DEF IsUnderWay
    <3>2. n - 1 \in run.start .. n - 1
      BY <3>1
    <3>3. QED
      BY <3>1, <3>2
  <2>3. QED
    BY <2>1, <2>2
<1>2. 1 \in 1 .. n /\ n = n - 1 + 1 /\ \A k \in n .. n : k = n
  OBVIOUS
<1>3. QED
  BY <1>1, <1>2 DEF IsUnderWay

(* A letter keeps a scan to where it is.                                   *)
LEMMA LetterScans ==
    ASSUME NEW letters, NEW m \in Nat, NEW M, AreMaximal(M, letters, m), NEW n \in 1 .. m,
           NEW x, ScansTo(letters, M, n - 1, x), NEW y, y = WithLetter(x, n, letters[n]),
           y.run.len \in Nat, y.spans \in Seq(Int \X Int),
           IsScan(x)
    PROVE  ScansTo(letters, M, n, y)
<1> DEFINE c == letters[n]
           run == x.run
<1>1. /\ IsUnderWay(letters, n - 1, run) /\ run.len \in Nat /\ x.spans \in Seq(Int \X Int)
      /\ Range(x.spans) = UpToIndex(M, (n - 1) - run.len)
  BY DEF ScansTo
<1>2. CASE IsWritten(c) /\ c = run.glyph
  <2>2. y.spans = x.spans /\ y.run.start = run.start /\ y.run.glyph = run.glyph /\ y.run.len = run.len + 1
    <3>1. IsScan(x) /\ IsWritten(c) /\ c = x.run.glyph /\ y = WithLetter(x, n, c)
      BY <1>2
    <3> HIDE DEF c
    <3>2. QED
      BY <3>1, LetterTaken
  <2>3. n \in Nat \ {0}
    OBVIOUS
  <2> DEFINE next == y.run
  <2>6. /\ IsUnderWay(letters, n - 1, run) /\ IsWritten(letters[n]) /\ letters[n] = run.glyph
        /\ next.start = run.start /\ next.glyph = run.glyph /\ next.len = run.len + 1
    BY <1>1, <1>2, <2>2
  <2> HIDE DEF run, next
  <2>7. IsUnderWay(letters, n, next) /\ n - next.len = (n - 1) - run.len
    BY <2>3, <2>6, RunTakes
  <2>4. IsUnderWay(letters, n, y.run) /\ n - y.run.len = (n - 1) - run.len
    BY <2>7 DEF next
  <2>5. QED
    BY <1>1, <2>2, <2>4 DEF ScansTo
<1>3. CASE ~ (IsWritten(c) /\ c = run.glyph)
  <2>1. y.spans = Flushed(x.spans, run)
    BY <1>3, LetterFlushes
  <2>2. n - 1 \in 0 .. m /\ n \in Nat \ {0} /\ (n - 1) + 1 = n
    OBVIOUS
  <2>3. Range(y.spans) = UpToIndex(M, n - 1)
    <3> DEFINE l == n - 1
               spans == x.spans
    <3>1. l \in 0 .. m /\ letters[l + 1] = c /\ IsUnderWay(letters, l, run) /\ run.len \in Nat
          /\ spans \in Seq(Int \X Int) /\ Range(spans) = UpToIndex(M, l - run.len)
      BY <1>1, <2>2
    <3> HIDE DEF l, spans, run, c
    <3>2. l \in 1 .. m - 1 => letters[l + 1] # run.glyph \/ ~ IsWritten(letters[l + 1])
      BY <1>3, <3>1
    <3>3. Range(Flushed(spans, run)) = UpToIndex(M, l)
      BY <3>1, <3>2, RunsFlushed
    <3>4. QED
      BY <2>1, <3>3 DEF l, spans
  <2>4. CASE ~ IsWritten(c)
    <3>1. y.run = NoRun
      BY <2>4, BlankEnds
    <3>2. y.run.len = 0
      BY <3>1, NoRunIs
    <3>3. UpToIndex(M, n) = UpToIndex(M, n - 1)
      BY <2>4, BlankEndsNothing
    <3>4. n - 0 = n
      OBVIOUS
    <3>5. IsUnderWay(letters, n, y.run)
      BY <2>4, <3>1 DEF IsUnderWay
    <3>6. QED
      BY <2>3, <3>2, <3>3, <3>4, <3>5 DEF ScansTo
  <2>5. CASE IsWritten(c)
    <3>1. c # run.glyph
      BY <1>3, <2>5
    <3>2. y.run.start = n /\ y.run.glyph = c /\ y.run.len = 1
      BY <2>5, <3>1, LetterStarts
    <3>3. IsUnderWay(letters, n, y.run)
      BY <1>1, <2>2, <2>5, <3>1, <3>2, RunStarting
    <3>4. QED
      BY <2>3, <3>2, <3>3 DEF ScansTo
  <2>6. QED
    BY <2>4, <2>5
<1>4. QED
  BY <1>2, <1>3

(* The letters of a verse are scanned one at a time.                       *)
LEMMA ScansAre ==
    ASSUME NEW letters, NEW x \in Scans(letters)
    PROVE  x.run.len \in Nat /\ x.spans \in Seq(Int \X Int) /\ IsScan(x)
<1> DEFINE G == {""} \cup Range(letters)
           S == Seq(Int \X Int)
<1>1. x \in [spans : S, run : [start : Nat, glyph : G, len : Nat]]
  BY DEF Scans
<1> HIDE DEF G, S
<1>2. x.run \in [start : Nat, glyph : G, len : Nat] /\ x = [spans |-> x.spans, run |-> x.run] /\ x.spans \in S
  BY <1>1
<1>3. x.run = [start |-> x.run.start, glyph |-> x.run.glyph, len |-> x.run.len] /\ x.run.len \in Nat
  BY <1>2
<1>4. IsScan(x)
  BY <1>2, <1>3 DEF IsScan
<1>5. QED
  BY <1>2, <1>3, <1>4 DEF S

(* The scan finds the maximal runs of three letters or more.               *)
LEMMA ScanFinds ==
    ASSUME NEW U, NEW letters \in Seq(U)
    PROVE  Range(ScanRuns(letters)) = MaximalRuns(letters)
<1> DEFINE m == Len(letters)
           M == MaximalRuns(letters)
           S == Scans(letters)
<1>1. PICK walk : IsScanning(walk, letters)
  BY ScanningSteps
<1>2. /\ walk \in [0 .. m -> S] /\ walk[0] = [spans |-> << >>, run |-> NoRun]
      /\ \A n \in 1 .. m : walk[n] = WithLetter(walk[n - 1], n, letters[n])
      /\ ScanRuns(letters) = Finished(walk[m])
  BY <1>1 DEF IsScanning
<1>3. m \in Nat /\ AreMaximal(M, letters, m)
  BY LengthIn, MaximalIs
<1>4. \A x \in S : /\ x.run.len \in Nat /\ x.spans \in Seq(Int \X Int) /\ IsScan(x)
  BY ScansAre
<1> HIDE DEF m, M, S
<1> DEFINE P == { n \in 0 .. m : ScansTo(letters, M, n, walk[n]) }
<1>5. 0 \in P
  <2>1. walk[0].run = NoRun /\ walk[0].spans = << >> /\ NoRun.len = 0 /\ 0 \in 0 .. m
    BY <1>2, <1>3, NoRunIs
  <2>2. UpToIndex(M, 0) = {}
    <3>1. \A r \in M : r[2] \in 1 .. m
      BY <1>3 DEF AreMaximal
    <3>2. \A x \in 1 .. m : ~ (x <= 0)
      BY <1>3
    <3>3. QED
      BY <3>1, <3>2 DEF UpToIndex
  <2>3. Range(<< >>) = {} /\ << >> \in Seq(Int \X Int)
    BY DEF Range
  <2>4. IsUnderWay(letters, 0, NoRun)
    BY DEF IsUnderWay
  <2>7. 0 - 0 = 0 /\ 0 \in Nat
    OBVIOUS
  <2>5. ScansTo(letters, M, 0, walk[0])
    BY <2>1, <2>2, <2>3, <2>4, <2>7 DEF ScansTo
  <2>6. QED
    BY <2>1, <2>5
<1>6. ASSUME NEW l \in 0 .. m - 1, l \in P
      PROVE  l + 1 \in P
  <2> DEFINE n == l + 1
  <2>1. n \in 1 .. m /\ n \in 0 .. m /\ n - 1 = l /\ l \in 0 .. m
    BY <1>3
  <2>2. ScansTo(letters, M, l, walk[l])
    BY <1>6
  <2> HIDE DEF n
  <2>3. walk[l] \in S /\ walk[n] \in S /\ walk[n] = WithLetter(walk[l], n, letters[n])
    BY <1>2, <2>1
  <2>4. ScansTo(letters, M, n, walk[n])
    BY <1>3, <1>4, <2>1, <2>2, <2>3, LetterScans
  <2>5. QED
    BY <2>1, <2>4 DEF n
<1> HIDE DEF P
<1>7. 0 .. m \subseteq P
  BY <1>3, <1>5, <1>6, UpTo
<1>8. m \in 0 .. m
  BY <1>3
<1>9. ScansTo(letters, M, m, walk[m]) /\ walk[m] \in S
  BY <1>2, <1>7, <1>8 DEF P
<1> DEFINE spans == walk[m].spans
           run == walk[m].run
<1>10. /\ IsUnderWay(letters, m, run) /\ run.len \in Nat /\ spans \in Seq(Int \X Int)
       /\ Range(spans) = UpToIndex(M, m - run.len)
  BY <1>9 DEF ScansTo
<1>11. ScanRuns(letters) = Flushed(spans, run)
  BY <1>2 DEF Finished
<1> HIDE DEF spans, run
<1>12. m \in 1 .. m - 1 => letters[m + 1] # run.glyph \/ ~ IsWritten(letters[m + 1])
  BY <1>3
<1>16. m \in Nat /\ AreMaximal(M, letters, m) /\ m \in 0 .. m
  BY <1>3, <1>8
<1>13. Range(Flushed(spans, run)) = UpToIndex(M, m)
  BY <1>16, <1>3, <1>8, <1>10, <1>12, RunsFlushed
<1>14. UpToIndex(M, m) = M
  <2>1. \A r \in M : r[2] \in 1 .. m
    BY <1>3 DEF AreMaximal
  <2>2. \A x \in 1 .. m : x <= m
    BY <1>3
  <2>3. QED
    BY <2>1, <2>2 DEF UpToIndex
<1>15. QED
  BY <1>11, <1>13, <1>14 DEF M

(* A word goes on while its letters join.                                  *)
LEMMA WordEnds ==
    ASSUME NEW U, NEW verse \in Seq(U), NEW i \in 1 .. Len(verse)
    PROVE  /\ EndOfWord(verse, i) \in i .. Len(verse)
           /\ \A k \in i .. EndOfWord(verse, i) - 1 : Joined(verse, k)
<1> DEFINE m == Len(verse)
           C == {i} \cup { k \in 1 .. m : Joined(verse, k - 1) }
<1>1. m \in Nat /\ DOMAIN verse = 1 .. m /\ i \in 1 .. m
  BY LengthIn
<1>2. \A k : Joined(verse, k) => k + 1 \in 1 .. m
  BY <1>1 DEF Joined, IsLetterAt
<1>3. EndOfWord(verse, i) =
        CHOOSE j \in i .. m : (\A k \in i .. j - 1 : Joined(verse, k)) /\ ~ Joined(verse, j)
  BY DEF EndOfWord
<1> HIDE DEF m
<1>4. PICK j \in i .. m : i .. j \subseteq C /\ (j = m \/ j + 1 \notin C)
  <2>1. i \in C
    OBVIOUS
  <2> HIDE DEF C
  <2>2. QED
    BY <1>1, <2>1, EndExists
<1>5. \A k \in i .. j - 1 : Joined(verse, k)
  <2> TAKE k \in i .. j - 1
  <2>1. k + 1 \in i .. j /\ k + 1 # i /\ (k + 1) - 1 = k
    BY <1>1
  <2>2. QED
    BY <1>4, <2>1
<1>6. ~ Joined(verse, j)
  <2>1. ASSUME Joined(verse, j) PROVE FALSE
    <3>1. j + 1 \in 1 .. m /\ j # m /\ (j + 1) - 1 = j
      BY <1>1, <1>2, <2>1
    <3>2. QED
      BY <1>4, <2>1, <3>1
  <2>2. QED
    BY <2>1
<1>7. QED
  BY <1>3, <1>5, <1>6 DEF m

(* The words of a verse follow each other, each begun by a letter.         *)
IsWording(verse, words, m) ==
    /\ words \in Seq((1 .. m) \X (1 .. m))
    /\ \A k \in 1 .. Len(words) :
          /\ words[k] = <<words[k][1], words[k][2]>> /\ words[k][1] \in 1 .. m /\ words[k][2] \in 1 .. m
          /\ words[k][1] <= words[k][2] /\ IsLetterAt(verse, words[k][1])
    /\ \A k, l \in 1 .. Len(words) : k < l => words[k][2] < words[l][1]

(* The words of a verse follow each other.                                 *)
LEMMA WordsFollow ==
    ASSUME NEW U, NEW verse \in Seq(U)
    PROVE  IsWording(verse, WordsOf(verse), Len(verse))
<1> DEFINE m == Len(verse)
           S == { i \in DOMAIN verse : IsLetterAt(verse, i) /\ ~ Joined(verse, i - 1) }
           starts == IndicesIn(verse, S)
           words == WordsOf(verse)
           n == Len(starts)
           once == { WordsFrom(verse, w) : w \in {starts} }
<1>1. m \in Nat /\ DOMAIN verse = 1 .. m
  BY LengthIn
<1>2. words = WordsFrom(verse, starts)
  <2>1. once = {WordsFrom(verse, starts)}
    OBVIOUS
  <2>2. words = Only(once)
    BY DEF WordsOf
  <2> HIDE DEF once, words
  <2>3. QED
    BY <2>1, <2>2, OnlyIs
<1>3. \A i \in S : i \in 1 .. m /\ IsLetterAt(verse, i) /\ ~ Joined(verse, i - 1)
  BY <1>1
<1> HIDE DEF S, words
<1>4. /\ starts \in Seq(1 .. m) /\ Range(starts) = S \cap 1 .. m
      /\ \A k, l \in 1 .. n : k < l => starts[k] < starts[l]
  BY IndicesFound
<1>5. n \in Nat /\ DOMAIN starts = 1 .. n /\ \A k \in 1 .. n : starts[k] \in 1 .. m /\ starts[k] \in S
  <2>1. n \in Nat /\ DOMAIN starts = 1 .. n /\ \A k \in 1 .. n : starts[k] \in 1 .. m
    BY <1>4, LengthIn
  <2>2. \A k \in 1 .. n : starts[k] \in Range(starts)
    BY <2>1 DEF Range
  <2>3. QED
    BY <1>4, <2>1, <2>2
<1>6. \A k \in 1 .. n : /\ EndOfWord(verse, starts[k]) \in starts[k] .. m
                        /\ \A i \in starts[k] .. EndOfWord(verse, starts[k]) - 1 : Joined(verse, i)
  BY <1>5, WordEnds
<1>7. words = [k \in 1 .. n |-> <<starts[k], EndOfWord(verse, starts[k])>>]
  BY <1>2, <1>5 DEF WordsFrom
<1> DEFINE e == [k \in 1 .. n |-> EndOfWord(verse, starts[k])]
<1>8. \A k \in 1 .. n : words[k] = <<starts[k], e[k]>> /\ e[k] \in starts[k] .. m
                        /\ \A i \in starts[k] .. e[k] - 1 : Joined(verse, i)
  BY <1>6, <1>7
<1>9. words = [k \in 1 .. n |-> words[k]]
  BY <1>7
<1> HIDE DEF starts, n, m, e
<1>10. \A k \in 1 .. n : e[k] \in 1 .. m /\ starts[k] <= e[k]
  BY <1>1, <1>5, <1>8
<1>11. words \in [1 .. n -> (1 .. m) \X (1 .. m)]
  <2>1. ASSUME NEW k \in 1 .. n
        PROVE  words[k] \in (1 .. m) \X (1 .. m)
    <3>1. words[k] = <<starts[k], e[k]>> /\ starts[k] \in 1 .. m /\ e[k] \in 1 .. m
      BY <1>5, <1>8, <1>10
    <3>2. QED
      BY <3>1
  <2>2. QED
    BY <1>9, <2>1
<1>12. words \in Seq((1 .. m) \X (1 .. m)) /\ Len(words) = n
  BY <1>5, <1>11
<1>13. ASSUME NEW k \in 1 .. n, NEW l \in 1 .. n, k < l
       PROVE  e[k] < starts[l]
  <2>1. starts[k] < starts[l] /\ starts[k] \in Nat /\ starts[l] \in Nat /\ e[k] \in Nat
    BY <1>1, <1>4, <1>5, <1>10, <1>13 DEF n, m
  <2>2. ~ (starts[l] <= e[k])
    <3>1. ASSUME starts[l] <= e[k]
          PROVE  FALSE
      <4>1. starts[l] - 1 \in starts[k] .. e[k] - 1
        BY <2>1, <3>1
      <4>2. QED
        BY <1>3, <1>5, <1>8, <4>1
    <3>2. QED
      BY <3>1
  <2>3. QED
    BY <2>1, <2>2
<1>14. \A k \in 1 .. n : words[k][1] = starts[k] /\ words[k][2] = e[k]
  BY <1>8
<1>15. \A k \in 1 .. n : IsLetterAt(verse, starts[k])
  BY <1>3, <1>5
<1>16. \A k \in 1 .. n : /\ words[k] = <<words[k][1], words[k][2]>>
                         /\ words[k][1] \in 1 .. m /\ words[k][2] \in 1 .. m
                         /\ words[k][1] <= words[k][2] /\ IsLetterAt(verse, words[k][1])
  BY <1>5, <1>8, <1>10, <1>14, <1>15
<1>17. \A k, l \in 1 .. n : k < l => words[k][2] < words[l][1]
  BY <1>13, <1>14
<1>18. IsWording(verse, words, m)
  BY <1>12, <1>16, <1>17 DEF IsWording
<1>19. QED
  BY <1>18 DEF m, words

(* A letter is no space.                                                   *)
LEMMA NoLetterInSpace ==
    ASSUME NEW verse, NEW from, NEW to, AllSpace(verse, from, to), NEW i \in from .. to
    PROVE  ~ IsLetterAt(verse, i)
BY DEF AllSpace, IsLetterAt

LEMMA WordBounds ==
    ASSUME NEW verse, NEW words, NEW m \in Nat, IsWording(verse, words, m), NEW k \in 1 .. Len(words)
    PROVE  words[k][1] \in Nat /\ words[k][2] \in Nat /\ words[k][1] <= words[k][2]
<1> DEFINE begun == words[k][1]
           over == words[k][2]
<1>1. begun \in 1 .. m /\ over \in 1 .. m /\ begun <= over
  BY DEF IsWording
<1> HIDE DEF begun, over
<1>2. begun \in Nat /\ over \in Nat
  BY <1>1
<1>3. QED
  BY <1>1, <1>2 DEF begun, over

(* Of two words, the one that begins after the other ends stands after it. *)
LEMMA WordOrder ==
    ASSUME NEW verse, NEW words, NEW m \in Nat, IsWording(verse, words, m),
           NEW i \in 1 .. Len(words), NEW l \in 1 .. Len(words), words[i][2] < words[l][1]
    PROVE  i < l
<1>1. Len(words) \in Nat /\ i \in Nat /\ l \in Nat
  BY LengthIn DEF IsWording
<1>2. words[i][1] \in Nat /\ words[i][2] \in Nat /\ words[l][1] \in Nat /\ words[l][2] \in Nat
      /\ words[i][1] <= words[i][2] /\ words[l][1] <= words[l][2]
  BY WordBounds
<1>3. l < i => words[l][2] < words[i][1]
  BY DEF IsWording
<1>4. l # i
  BY <1>2
<1>5. ~ (l < i)
  BY <1>2, <1>3
<1>6. QED
  BY <1>1, <1>4, <1>5

(* Words with only space between them follow each other.                   *)
LEMMA DoubledFollow ==
    ASSUME NEW verse, NEW words, NEW m \in Nat, IsWording(verse, words, m),
           NEW i \in 1 .. Len(words), NEW l \in 1 .. Len(words), AreDoubled(verse, words[i], words[l])
    PROVE  l = i + 1
<1>1. /\ words[i][2] + 1 < words[l][1] /\ AllSpace(verse, words[i][2] + 1, words[l][1] - 1)
  BY DEF AreDoubled
<1>2. words[i][2] \in Nat /\ words[l][1] \in Nat
  BY WordBounds
<1>3. words[i][2] < words[l][1]
  BY <1>1, <1>2
<1>4. i < l
  BY <1>3, WordOrder
<1>5. Len(words) \in Nat /\ i \in Nat /\ l \in Nat
  BY LengthIn DEF IsWording
<1>6. ASSUME l # i + 1
      PROVE  FALSE
  <2> DEFINE k == i + 1
  <2>1. k \in 1 .. Len(words) /\ i < k /\ k < l
    BY <1>4, <1>5, <1>6
  <2> HIDE DEF k
  <2>2. words[i][2] < words[k][1] /\ words[k][2] < words[l][1] /\ IsLetterAt(verse, words[k][1])
        /\ words[k][1] \in Nat /\ words[k][2] \in Nat /\ words[k][1] <= words[k][2]
    <3>1. words[i][2] < words[k][1]
      BY <2>1 DEF IsWording
    <3>2. words[k][2] < words[l][1]
      BY <2>1 DEF IsWording
    <3>3. /\ IsLetterAt(verse, words[k][1]) /\ words[k][1] \in 1 .. m /\ words[k][2] \in 1 .. m
          /\ words[k][1] <= words[k][2]
      BY <2>1 DEF IsWording
    <3>4. QED
      BY <3>1, <3>2, <3>3
  <2>3. words[k][1] \in words[i][2] + 1 .. words[l][1] - 1
    <3> DEFINE ended == words[i][2]
               begun == words[k][1]
               over == words[k][2]
               next == words[l][1]
    <3>1. ended \in Nat /\ begun \in Nat /\ over \in Nat /\ next \in Nat
      BY <1>2, <2>2
    <3>2. ended < begun /\ begun <= over /\ over < next
      BY <2>2
    <3> HIDE DEF ended, begun, over, next
    <3>3. begun \in ended + 1 .. next - 1
      BY <3>1, <3>2
    <3>4. QED
      BY <3>3 DEF ended, begun, next
  <2>4. QED
    BY <1>1, <2>2, <2>3, NoLetterInSpace
<1>7. QED
  BY <1>6

(* A word with only space after it is the last, before it the first.       *)
LEMMA LastOrFirst ==
    ASSUME NEW verse, NEW words, NEW m \in Nat, IsWording(verse, words, m), NEW i \in 1 .. Len(words)
    PROVE  /\ AllSpace(verse, words[i][2] + 1, m) => i = Len(words)
           /\ AllSpace(verse, 1, words[i][1] - 1) => i = 1
<1>1. Len(words) \in Nat /\ i \in Nat
  BY LengthIn DEF IsWording
<1>2. words[i][2] \in Nat /\ words[i][1] \in Nat
  BY DEF IsWording
<1>3. ASSUME AllSpace(verse, words[i][2] + 1, m), i # Len(words)
      PROVE  FALSE
  <2> DEFINE k == i + 1
  <2>1. k \in 1 .. Len(words) /\ i < k
    BY <1>1, <1>3
  <2> HIDE DEF k
  <2>2. words[i][2] < words[k][1] /\ IsLetterAt(verse, words[k][1]) /\ words[k][1] \in 1 .. m
    BY <2>1 DEF IsWording
  <2>3. words[k][1] \in words[i][2] + 1 .. m
    BY <1>2, <2>2
  <2>4. QED
    BY <1>3, <2>2, <2>3, NoLetterInSpace
<1>4. ASSUME AllSpace(verse, 1, words[i][1] - 1), i # 1
      PROVE  FALSE
  <2>1. 1 \in 1 .. Len(words) /\ 1 < i
    BY <1>1, <1>4
  <2>2. words[1][2] < words[i][1] /\ IsLetterAt(verse, words[1][1]) /\ words[1][1] \in 1 .. m
        /\ words[1][1] <= words[1][2] /\ words[1][2] \in Nat
    BY <2>1 DEF IsWording
  <2>3. words[1][1] \in 1 .. words[i][1] - 1
    BY <1>2, <2>2
  <2>4. QED
    BY <1>4, <2>2, <2>3, NoLetterInSpace
<1>5. QED
  BY <1>3, <1>4

(***************************************************************************)
(* Doubled words.                                                          *)
(***************************************************************************)
TailAt(chapter, n) == IF n = 0 THEN NoTail ELSE LastWordOf(n, WordsOf(chapter[n]))

DoubledTo(chapter, n) == { h \in DoubledIn(chapter, WordTokens(chapter)) : h.second[1] <= n }

DoubledAt(chapter, n) == { h \in DoubledIn(chapter, WordTokens(chapter)) : h.second[1] = n }

IsHit(chapter, h, u, s, n, t) ==
    /\ h = [first |-> <<u, s>>, second |-> <<n, t>>] /\ u \in DOMAIN chapter /\ n \in DOMAIN chapter
    /\ s \in Range(WordsOf(chapter[u])) /\ t \in Range(WordsOf(chapter[n]))
    /\ OnlySpaceBetween(chapter, <<u, s>>, <<n, t>>)
    /\ Folded(chapter[u], s) = Folded(chapter[n], t)

(* A doubled word whose second is in the n-th verse is a hit there.        *)
LEMMA HitIs ==
    ASSUME NEW chapter, NEW n
    PROVE  /\ \A h \in DoubledAt(chapter, n) : \E u, s, t : IsHit(chapter, h, u, s, n, t)
           /\ \A h, u, s, t : IsHit(chapter, h, u, s, n, t) => h \in DoubledAt(chapter, n)
<1> DEFINE tokens == WordTokens(chapter)
           D == DOMAIN chapter
           W == [v \in D |-> Range(WordsOf(chapter[v]))]
<1>1. \A p \in tokens : p = <<p[1], p[2]>> /\ p[1] \in D /\ p[2] \in W[p[1]]
  BY DEF WordTokens
<1>2. \A v \in D : \A w \in W[v] : <<v, w>> \in tokens
  BY DEF WordTokens
<1>3. DoubledAt(chapter, n) =
        { h \in [first : tokens, second : tokens] :
            /\ OnlySpaceBetween(chapter, h.first, h.second) /\ SameWord(chapter, h.first, h.second)
            /\ h.second[1] = n }
  BY DEF DoubledAt, DoubledIn
<1>4. \A v \in D : W[v] = Range(WordsOf(chapter[v]))
  OBVIOUS
<1> HIDE DEF tokens, D, W
<1>5. ASSUME NEW h \in DoubledAt(chapter, n)
      PROVE  \E u, s, t : IsHit(chapter, h, u, s, n, t)
  <2> DEFINE p == h.first
             q == h.second
  <2>1. /\ h = [first |-> p, second |-> q] /\ p \in tokens /\ q \in tokens /\ q[1] = n
        /\ OnlySpaceBetween(chapter, p, q) /\ SameWord(chapter, p, q)
    BY <1>3, <1>5
  <2> HIDE DEF p, q
  <2>2. p = <<p[1], p[2]>> /\ q = <<n, q[2]>> /\ p[1] \in D /\ n \in D /\ p[2] \in W[p[1]] /\ q[2] \in W[n]
    BY <1>1, <2>1
  <2>3. IsHit(chapter, h, p[1], p[2], n, q[2])
    BY <1>4, <2>1, <2>2 DEF IsHit, SameWord, D
  <2>4. QED
    BY <2>3
<1>6. ASSUME NEW h, NEW u, NEW s, NEW t, IsHit(chapter, h, u, s, n, t)
      PROVE  h \in DoubledAt(chapter, n)
  <2> DEFINE p == <<u, s>>
             q == <<n, t>>
  <2>1. p \in tokens /\ q \in tokens
    BY <1>2, <1>4, <1>6 DEF IsHit, D
  <2>2. p[1] = u /\ p[2] = s /\ q[1] = n /\ q[2] = t
    OBVIOUS
  <2>3. OnlySpaceBetween(chapter, p, q) /\ SameWord(chapter, p, q) /\ h = [first |-> p, second |-> q]
    BY <1>6, <2>2 DEF IsHit, SameWord
  <2> HIDE DEF p, q
  <2>4. h \in [first : tokens, second : tokens] /\ h.first = p /\ h.second = q
    BY <2>1, <2>3
  <2>5. QED
    BY <1>3, <2>2, <2>3, <2>4
<1>7. QED
  BY <1>5, <1>6

(* What stands between two words of a verse, or of two.                    *)
LEMMA SpaceBetweenIs ==
    ASSUME NEW chapter, NEW u \in Nat, NEW n \in Nat, NEW s, NEW t
    PROVE  OnlySpaceBetween(chapter, <<u, s>>, <<n, t>>) <=>
             \/ u = n /\ s[2] + 1 < t[1] /\ AllSpace(chapter[n], s[2] + 1, t[1] - 1)
             \/ u + 1 = n /\ AllSpace(chapter[u], s[2] + 1, Len(chapter[u])) /\ AllSpace(chapter[n], 1, t[1] - 1)
BY DEF OnlySpaceBetween

(* The hits within a verse are its pairs of equal neighbours.              *)
LEMMA HitsWithin ==
    ASSUME NEW U, NEW chapter \in Seq(Seq(U)), NEW n \in DOMAIN chapter, NEW h
    PROVE  (\E s, t : IsHit(chapter, h, n, s, n, t)) <=> h \in WithinVerse(n, chapter[n], WordsOf(chapter[n]))
<1> DEFINE words == WordsOf(chapter[n])
           verse == chapter[n]
           m == Len(verse)
<1>1. verse \in Seq(U) /\ n \in Nat
  BY LengthIn
<1>2. IsWording(verse, words, m) /\ m \in Nat
  BY <1>1, WordsFollow, LengthIn
<1>3. \A s, t : OnlySpaceBetween(chapter, <<n, s>>, <<n, t>>) /\ Folded(chapter[n], s) = Folded(chapter[n], t)
                  <=> AreDoubled(verse, s, t)
  <2>1. ~ (n + 1 = n)
    BY <1>1
  <2> HIDE DEF verse
  <2>2. QED
    BY <1>1, <2>1, SpaceBetweenIs DEF AreDoubled, verse
<1>4. \A s, t : IsHit(chapter, h, n, s, n, t) <=>
        /\ h = [first |-> <<n, s>>, second |-> <<n, t>>]
        /\ s \in Range(words) /\ t \in Range(words) /\ AreDoubled(verse, s, t)
  BY <1>3 DEF IsHit
<1>5. WithinVerse(n, verse, words) =
        { [first |-> <<n, words[i]>>, second |-> <<n, words[i + 1]>>] :
            i \in { i \in 1 .. Len(words) - 1 : AreDoubled(verse, words[i], words[i + 1]) } }
  BY DEF WithinVerse
<1> HIDE DEF words, verse, m
<1>6. Len(words) \in Nat /\ DOMAIN words = 1 .. Len(words)
  BY <1>2, LengthIn DEF IsWording
<1> DEFINE H(i) == [first |-> <<n, words[i]>>, second |-> <<n, words[i + 1]>>]
<1>7. ASSUME NEW s, NEW t, IsHit(chapter, h, n, s, n, t)
      PROVE  h \in WithinVerse(n, verse, words)
  <2>1. PICK i \in 1 .. Len(words), l \in 1 .. Len(words) : s = words[i] /\ t = words[l]
    BY <1>4, <1>6, <1>7 DEF Range
  <2>2. l = i + 1
    BY <1>2, <1>4, <1>7, <2>1, DoubledFollow
  <2>3. i \in 1 .. Len(words) - 1
    BY <1>6, <2>2
  <2>4. h = [first |-> <<n, words[i]>>, second |-> <<n, words[i + 1]>>] /\ AreDoubled(verse, words[i], words[i + 1])
    BY <1>4, <1>7, <2>1, <2>2
  <2>5. QED
    BY <1>5, <2>3, <2>4
<1>8. ASSUME NEW i \in 1 .. Len(words) - 1, AreDoubled(verse, words[i], words[i + 1]), h = H(i)
      PROVE  \E s, t : IsHit(chapter, h, n, s, n, t)
  <2>1. i \in 1 .. Len(words) /\ i + 1 \in 1 .. Len(words)
    BY <1>6
  <2>2. words[i] \in Range(words) /\ words[i + 1] \in Range(words)
    BY <1>6, <2>1 DEF Range
  <2>3. IsHit(chapter, h, n, words[i], n, words[i + 1])
    BY <1>4, <1>8, <2>2
  <2>4. QED
    BY <2>3
<1>9. h \in WithinVerse(n, verse, words) =>
        \E i \in 1 .. Len(words) - 1 : AreDoubled(verse, words[i], words[i + 1]) /\ h = H(i)
  BY <1>5
<1>10. QED
  BY <1>7, <1>8, <1>9 DEF verse, words

(* The hits across a break are of the last word before it and the first    *)
(* one after it.                                                           *)
LEMMA HitsAcross ==
    ASSUME NEW U, NEW chapter \in Seq(Seq(U)), NEW u \in DOMAIN chapter, NEW n \in DOMAIN chapter,
           u + 1 = n, NEW h
    PROVE  (\E s, t : IsHit(chapter, h, u, s, n, t)) <=>
             /\ WordsOf(chapter[u]) # << >> /\ WordsOf(chapter[n]) # << >>
             /\ MeetsTail(chapter[u], Last(WordsOf(chapter[u])), chapter[n], Head(WordsOf(chapter[n])))
             /\ h = [first |-> <<u, Last(WordsOf(chapter[u]))>>, second |-> <<n, Head(WordsOf(chapter[n]))>>]
<1> DEFINE before == chapter[u]
           verse == chapter[n]
           W == WordsOf(before)
           V == WordsOf(verse)
<1>1. before \in Seq(U) /\ verse \in Seq(U) /\ n \in Nat /\ u \in Nat
  BY LengthIn
<1>2. IsWording(before, W, Len(before)) /\ Len(before) \in Nat /\ IsWording(verse, V, Len(verse)) /\ Len(verse) \in Nat
  BY <1>1, WordsFollow, LengthIn
<1>3. \A s, t : OnlySpaceBetween(chapter, <<u, s>>, <<n, t>>) <=>
                  AllSpace(before, s[2] + 1, Len(before)) /\ AllSpace(verse, 1, t[1] - 1)
  <2>1. u # n
    BY <1>1
  <2> HIDE DEF before, verse
  <2>2. QED
    BY <1>1, <2>1, SpaceBetweenIs DEF before, verse
<1>4. \A s, t : IsHit(chapter, h, u, s, n, t) <=>
        /\ h = [first |-> <<u, s>>, second |-> <<n, t>>]
        /\ s \in Range(W) /\ t \in Range(V) /\ MeetsTail(before, s, verse, t)
  BY <1>3 DEF IsHit, MeetsTail
<1> HIDE DEF W, V, before, verse
<1>5. /\ Len(W) \in Nat /\ DOMAIN W = 1 .. Len(W) /\ (W = << >> <=> Len(W) = 0)
      /\ Len(V) \in Nat /\ DOMAIN V = 1 .. Len(V) /\ (V = << >> <=> Len(V) = 0)
  <2>1. ASSUME NEW T, NEW w \in Seq(T)
        PROVE  Len(w) \in Nat /\ DOMAIN w = 1 .. Len(w) /\ (w = << >> <=> Len(w) = 0)
    OBVIOUS
  <2>2. QED
    BY <1>2, <2>1 DEF IsWording
<1>6. Last(W) = W[Len(W)] /\ (V # << >> => Head(V) = V[1])
  BY <1>2 DEF Last, IsWording
<1>7. ASSUME NEW s, NEW t, IsHit(chapter, h, u, s, n, t)
      PROVE  W # << >> /\ V # << >> /\ s = Last(W) /\ t = Head(V)
  <2>1. PICK i \in 1 .. Len(W) : s = W[i]
    BY <1>4, <1>5, <1>7 DEF Range
  <2>2. PICK l \in 1 .. Len(V) : t = V[l]
    BY <1>4, <1>5, <1>7 DEF Range
  <2>3. AllSpace(before, s[2] + 1, Len(before)) /\ AllSpace(verse, 1, t[1] - 1)
    BY <1>4, <1>7 DEF MeetsTail
  <2>4. i = Len(W)
    BY <1>2, <2>1, <2>3, LastOrFirst
  <2>5. l = 1
    BY <1>2, <2>2, <2>3, LastOrFirst
  <2>6. W # << >> /\ V # << >>
    BY <1>5
  <2>7. QED
    BY <1>6, <2>1, <2>2, <2>4, <2>5, <2>6
<1>8. ASSUME W # << >>, V # << >>
      PROVE  Last(W) \in Range(W) /\ Head(V) \in Range(V)
  <2>1. Len(W) \in DOMAIN W /\ 1 \in DOMAIN V
    BY <1>5, <1>8
  <2>2. QED
    BY <1>6, <1>8, <2>1 DEF Range
<1>9. QED
  BY <1>4, <1>7, <1>8 DEF W, V, before, verse

(* The last word of a verse, or none, is what a walk carries on.           *)
LEMMA TailIs ==
    ASSUME NEW chapter, NEW n \in Nat
    PROVE  /\ TailAt(chapter, n) # NoTail <=> n # 0 /\ WordsOf(chapter[n]) # << >>
           /\ n # 0 /\ WordsOf(chapter[n]) # << >> =>
                 /\ TailAt(chapter, n).verse = n
                 /\ TailAt(chapter, n).word = Last(WordsOf(chapter[n]))
<1> DEFINE words == WordsOf(chapter[n])
           last == Last(words)
<1>1. n = 0 => TailAt(chapter, n) = NoTail
  BY DEF TailAt
<1>2. n # 0 /\ words = << >> => TailAt(chapter, n) = NoTail
  BY DEF TailAt, LastWordOf
<1>3. n # 0 /\ words # << >> => TailAt(chapter, n) = [verse |-> n, word |-> last]
  BY DEF TailAt, LastWordOf
<1>4. NoTail.verse = 0
  BY DEF NoTail
<1> HIDE DEF words, last
<1>5. [verse |-> n, word |-> last].verse = n /\ [verse |-> n, word |-> last].word = last
  OBVIOUS
<1>6. QED
  BY <1>1, <1>2, <1>3, <1>4, <1>5 DEF words, last

(* A verse's hits are those the walk adds.                                 *)
LEMMA HitsOf ==
    ASSUME NEW U, NEW chapter \in Seq(Seq(U)), NEW n \in DOMAIN chapter
    PROVE  DoubledAt(chapter, n) = AcrossVerses(chapter, TailAt(chapter, n - 1), n, WordsOf(chapter[n]))
                                     \cup WithinVerse(n, chapter[n], WordsOf(chapter[n]))
<1> DEFINE u == n - 1
           W == WordsOf(chapter[u])
           V == WordsOf(chapter[n])
           tail == TailAt(chapter, u)
           across == AcrossVerses(chapter, tail, n, V)
           within == WithinVerse(n, chapter[n], V)
           m == Len(chapter)
<1>1. n \in 1 .. m /\ DOMAIN chapter = 1 .. m /\ m \in Nat /\ n \in Nat
  <2>1. m \in Nat /\ DOMAIN chapter = 1 .. m
    BY LengthIn
  <2> HIDE DEF m
  <2>2. QED
    BY <2>1
<1>2. u \in Nat /\ u + 1 = n /\ (u # 0 => u \in DOMAIN chapter) /\ (u \in DOMAIN chapter => u # 0)
  <2> HIDE DEF m
  <2>1. QED
    BY <1>1
<1> HIDE DEF u, m
<1>3. \A h : h \in across <=>
        /\ u # 0 /\ W # << >> /\ V # << >>
        /\ MeetsTail(chapter[u], Last(W), chapter[n], Head(V))
        /\ h = [first |-> <<u, Last(W)>>, second |-> <<n, Head(V)>>]
  <2>1. /\ tail # NoTail <=> u # 0 /\ W # << >>
        /\ u # 0 /\ W # << >> => tail.verse = u /\ tail.word = Last(W)
    BY <1>2, TailIs
  <2> HIDE DEF tail, V, W
  <2>2. QED
    BY <2>1 DEF AcrossVerses
<1>4. ASSUME NEW h
      PROVE  h \in across <=> u # 0 /\ \E s, t : IsHit(chapter, h, u, s, n, t)
  <2>1. CASE u = 0
    BY <1>3, <2>1
  <2>2. CASE u # 0
    <3>1. u \in DOMAIN chapter
      BY <1>2, <2>2
    <3> HIDE DEF across
    <3>2. (\E s, t : IsHit(chapter, h, u, s, n, t)) <=>
             /\ W # << >> /\ V # << >>
             /\ MeetsTail(chapter[u], Last(W), chapter[n], Head(V))
             /\ h = [first |-> <<u, Last(W)>>, second |-> <<n, Head(V)>>]
      BY <1>2, <3>1, HitsAcross
    <3>3. QED
      BY <1>3, <2>2, <3>2
  <2>3. QED
    BY <2>1, <2>2
<1>5. ASSUME NEW h
      PROVE  h \in within <=> \E s, t : IsHit(chapter, h, n, s, n, t)
  BY HitsWithin
<1> HIDE DEF across, within
<1>6. ASSUME NEW h, NEW v, NEW s, NEW t, IsHit(chapter, h, v, s, n, t)
      PROVE  v = n \/ (v = u /\ u # 0)
  <2>1. v \in DOMAIN chapter /\ OnlySpaceBetween(chapter, <<v, s>>, <<n, t>>)
    BY <1>6 DEF IsHit
  <2>2. v \in Nat
    BY <1>1, <2>1
  <2>3. v = n \/ v + 1 = n
    BY <1>1, <2>1, <2>2, SpaceBetweenIs
  <2>4. v = n \/ v = u
    BY <1>2, <2>2, <2>3
  <2>5. QED
    BY <1>2, <2>1, <2>4
<1>7. ASSUME NEW h \in DoubledAt(chapter, n)
      PROVE  h \in across \/ h \in within
  <2>1. PICK v, s, t : IsHit(chapter, h, v, s, n, t)
    BY HitIs
  <2>2. CASE v = n
    BY <1>5, <2>1, <2>2
  <2>3. CASE v = u /\ u # 0
    BY <1>4, <2>1, <2>3
  <2>4. QED
    BY <1>6, <2>1, <2>2, <2>3
<1>8. \A h : h \in across \/ h \in within => h \in DoubledAt(chapter, n)
  BY <1>4, <1>5, HitIs
<1>9. DoubledAt(chapter, n) = across \cup within
  BY <1>7, <1>8
<1>10. QED
  BY <1>9 DEF across, within, tail, V, u

(* A verse of the walk is taken once.                                      *)
LEMMA VerseOnce ==
    ASSUME NEW x, NEW chapter, NEW n, NEW y
    PROVE  Only({ WithVerse(r, chapter, n, words) : r \in {x}, words \in {y} }) = WithVerse(x, chapter, n, y)
<1> DEFINE made == { WithVerse(r, chapter, n, words) : r \in {x}, words \in {y} }
           one == WithVerse(x, chapter, n, y)
<1>1. made = {one}
  OBVIOUS
<1> HIDE DEF made, one
<1>2. Only(made) = one
  BY <1>1, OnlyIs
<1>3. QED
  BY <1>2 DEF made, one

WalkedTo(chapter, n) == [hits |-> DoubledTo(chapter, n), tail |-> TailAt(chapter, n)]

(* A verse of the walk adds its hits and hands on its last word.           *)
LEMMA WalkedStep ==
    ASSUME NEW U, NEW chapter \in Seq(Seq(U)), NEW n \in 1 .. Len(chapter)
    PROVE  WithVerse(WalkedTo(chapter, n - 1), chapter, n, WordsOf(chapter[n])) = WalkedTo(chapter, n)
<1> DEFINE words == WordsOf(chapter[n])
           tail == TailAt(chapter, n - 1)
           hits == DoubledTo(chapter, n - 1)
           m == Len(chapter)
           D == DoubledIn(chapter, WordTokens(chapter))
<1>1. n \in DOMAIN chapter /\ m \in Nat /\ n \in 1 .. m /\ DOMAIN chapter = 1 .. m
  <2>1. m \in Nat /\ DOMAIN chapter = 1 .. m
    BY LengthIn
  <2> HIDE DEF m
  <2>2. QED
    BY <2>1 DEF m
<1>2. DoubledAt(chapter, n) = AcrossVerses(chapter, tail, n, words) \cup WithinVerse(n, chapter[n], words)
  BY <1>1, HitsOf
<1>3. \A h \in D : h.second[1] \in Nat
  <2>1. \A p \in WordTokens(chapter) : p[1] \in DOMAIN chapter
    BY DEF WordTokens
  <2>2. \A p \in WordTokens(chapter) : p[1] \in Nat
    BY <1>1, <2>1
  <2>3. \A h \in D : h.second \in WordTokens(chapter)
    BY DEF DoubledIn
  <2>4. QED
    BY <2>2, <2>3
<1>4. DoubledTo(chapter, n) = hits \cup DoubledAt(chapter, n)
  <2> HIDE DEF D, m
  <2>1. \A x \in Nat : x <= n <=> x <= n - 1 \/ x = n
    BY <1>1
  <2>2. \A h \in D : h.second[1] <= n <=> h.second[1] <= n - 1 \/ h.second[1] = n
    BY <1>3, <2>1
  <2>3. QED
    BY <2>2 DEF DoubledTo, DoubledAt, D
<1>5. TailAt(chapter, n) = LastWordOf(n, words)
  <2>1. n # 0
    BY <1>1
  <2>2. QED
    BY <2>1 DEF TailAt
<1> HIDE DEF words, tail, hits
<1> DEFINE x == [hits |-> hits, tail |-> tail]
<1>6. x.hits = hits /\ x.tail = tail
  OBVIOUS
<1> HIDE DEF x
<1>7. WithVerse(x, chapter, n, words) = [hits |-> hits \cup AcrossVerses(chapter, tail, n, words)
                                                    \cup WithinVerse(n, chapter[n], words),
                                         tail |-> LastWordOf(n, words)]
  BY <1>6 DEF WithVerse
<1>8. hits \cup AcrossVerses(chapter, tail, n, words) \cup WithinVerse(n, chapter[n], words)
        = DoubledTo(chapter, n)
  BY <1>2, <1>4
<1>9. QED
  BY <1>5, <1>7, <1>8 DEF WalkedTo, words, tail, hits, x

(* The doubled words of a chapter are those of its text.                   *)
LEMMA DoublesFound ==
    ASSUME NEW U, NEW chapter \in Seq(Seq(U))
    PROVE  DuplicateHits(chapter) = DoubledIn(chapter, WordTokens(chapter))
<1> DEFINE m == Len(chapter)
           a == [hits |-> {}, tail |-> NoTail]
           W(n) == WordsOf(chapter[n])
           F(x, n) == WithVerse(x, chapter, n, W(n))
           Once(f, n) == Only({ WithVerse(r, chapter, n, words) : r \in {f[n - 1]}, words \in {W(n)} })
           Body(f) == [n \in 0 .. m |-> IF n = 0 THEN a ELSE Once(f, n)]
           chosen == CHOOSE f : f = Body(f)
           g == [n \in 0 .. m |-> WalkedTo(chapter, n)]
           D == DoubledIn(chapter, WordTokens(chapter))
<1>1. m \in Nat /\ DOMAIN chapter = 1 .. m
  BY LengthIn
<1>2. DuplicateHits(chapter) = chosen[m].hits
  BY DEF DuplicateHits
<1>3. \A f, n : Once(f, n) = F(f[n - 1], n)
  BY VerseOnce
<1>4. \A h \in D : h.second[1] \in 1 .. m
  <2>1. \A p \in WordTokens(chapter) : p[1] \in 1 .. m
    BY <1>1 DEF WordTokens
  <2>2. \A h \in D : h.second \in WordTokens(chapter)
    BY DEF DoubledIn
  <2>3. QED
    BY <2>1, <2>2
<1>5. WalkedTo(chapter, 0) = a
  <2>1. \A x \in 1 .. m : ~ (x <= 0)
    BY <1>1
  <2> HIDE DEF D
  <2>2. DoubledTo(chapter, 0) = {}
    BY <1>4, <2>1 DEF DoubledTo, D
  <2>3. QED
    BY <2>2 DEF WalkedTo, TailAt
<1>6. \A n \in 1 .. m : F(WalkedTo(chapter, n - 1), n) = WalkedTo(chapter, n)
  BY WalkedStep
<1> HIDE DEF m, a, F, Once, D
<1>7. g = Body(g)
  <2>1. \A n \in 1 .. m : n - 1 \in 0 .. m /\ n # 0 /\ n \in 0 .. m
    BY <1>1
  <2>2. \A n \in 0 .. m : n = 0 \/ n \in 1 .. m
    BY <1>1
  <2>3. \A n \in 1 .. m : Once(g, n) = WalkedTo(chapter, n)
    BY <1>3, <1>6, <2>1
  <2>4. QED
    BY <1>5, <2>2, <2>3
<1>8. chosen = Body(chosen)
  <2> HIDE DEF Body, g
  <2>1. QED
    BY <1>7
<1> HIDE DEF chosen
<1>9. /\ chosen[0] = a
      /\ \A n \in 1 .. m : chosen[n] = F(chosen[n - 1], n)
  <2>1. 0 \in 0 .. m /\ \A n \in 1 .. m : n \in 0 .. m /\ n # 0
    BY <1>1
  <2>2. QED
    BY <1>3, <1>8, <2>1
<1> DEFINE P == { n \in 0 .. m : chosen[n] = WalkedTo(chapter, n) }
<1>10. 0 \in P
  <2>1. 0 \in 0 .. m
    BY <1>1
  <2>2. QED
    BY <1>5, <1>9, <2>1
<1>11. ASSUME NEW l \in 0 .. m - 1, l \in P
       PROVE  l + 1 \in P
  <2> DEFINE n == l + 1
  <2>1. n \in 1 .. m /\ n \in 0 .. m /\ n - 1 = l
    BY <1>1
  <2>2. chosen[l] = WalkedTo(chapter, l)
    BY <1>11
  <2> HIDE DEF n
  <2>3. chosen[n] = WalkedTo(chapter, n)
    BY <1>6, <1>9, <2>1, <2>2
  <2>4. QED
    BY <2>1, <2>3 DEF n
<1> HIDE DEF P
<1>12. 0 .. m \subseteq P
  BY <1>1, <1>10, <1>11, UpTo
<1>13. m \in 0 .. m
  BY <1>1
<1>14. chosen[m] = WalkedTo(chapter, m)
  BY <1>12, <1>13 DEF P
<1>15. chosen[m].hits = DoubledTo(chapter, m)
  BY <1>14 DEF WalkedTo
<1>16. DoubledTo(chapter, m) = D
  <2>1. \A x \in 1 .. m : x <= m
    BY <1>1
  <2>2. QED
    BY <1>4, <2>1 DEF DoubledTo, D
<1>17. QED
  BY <1>2, <1>15, <1>16 DEF D

(* A run of a verse is counted in what the verse adds.                     *)
LEMMA VerseHolds ==
    ASSUME NEW U, NEW verse \in Seq(U), NEW run \in Range(ScanRuns(WrittenLetters(verse)))
    PROVE  Tallied(verse[run[1]].folded, VerseAddend(verse).clusters) > 0
<1> DEFINE letters == WrittenLetters(verse)
           runs == ScanRuns(letters)
           clusters == ClustersOf(verse, runs)
           made == { ClustersOf(verse, ScanRuns(w)) : w \in {letters} }
<1>1. Len(verse) \in Nat /\ DOMAIN verse = 1 .. Len(verse)
  BY LengthIn
<1>2. letters = [i \in 1 .. Len(verse) |-> letters[i]]
  BY <1>1 DEF WrittenLetters
<1>3. run \in Range(runs)
  OBVIOUS
<1>4. VerseAddend(verse).clusters = Counted(RunClusters(verse))
  BY DEF VerseAddend
<1> HIDE DEF letters
<1>5. runs \in Seq(Int \X Int)
  BY <1>1, <1>2, SequenceOf, RunsScanned
<1>6. made = {clusters}
  OBVIOUS
<1> HIDE DEF made
<1>7. RunClusters(verse) = clusters
  BY <1>6, OnlyIs DEF RunClusters, made, letters
<1> HIDE DEF runs
<1>8. Len(runs) \in Nat /\ DOMAIN runs = 1 .. Len(runs)
  BY <1>5, LengthIn
<1>9. clusters = [i \in 1 .. Len(runs) |-> verse[runs[i][1]].folded]
  BY <1>8 DEF ClustersOf
<1>10. verse[run[1]].folded \in Range(clusters)
  BY <1>3, <1>8, <1>9 DEF Range
<1>11. clusters = [i \in 1 .. Len(runs) |-> clusters[i]]
  BY <1>9
<1> HIDE DEF clusters
<1>12. clusters \in Seq({ clusters[i] : i \in 1 .. Len(runs) })
  BY <1>8, <1>11, SequenceOf
<1>13. QED
  BY <1>4, <1>7, <1>10, <1>12, CountedHolds

(* The clusters of a chapter are summed over its verses, those of a book   *)
(* over its chapters.                                                      *)
LEMMA ChapterHolds ==
    ASSUME NEW U, NEW chapter \in Seq(Seq(U)), NEW v \in DOMAIN chapter, NEW e,
           Tallied(e, VerseAddend(chapter[v]).clusters) > 0
    PROVE  Tallied(e, MapRuns(chapter).clusters) > 0
<1> DEFINE verses == [w \in DOMAIN chapter |-> Only({ VerseAddend(t) : t \in {chapter[w]} })]
           parts == [i \in DOMAIN verses |-> verses[i].clusters]
           m == Len(chapter)
<1>1. m \in Nat /\ DOMAIN chapter = 1 .. m
  BY LengthIn
<1>2. \A w \in DOMAIN chapter : verses[w] = VerseAddend(chapter[w])
  BY VerseAddendOnce
<1>3. \A w \in DOMAIN chapter : IsRunAddend(VerseAddend(chapter[w]))
  BY VerseRunsCounted
<1>4. MapRuns(chapter) = Only({ SumOfRuns(t) : t \in {verses} })
  BY DEF MapRuns
<1>5. DOMAIN verses = 1 .. m
  BY <1>1
<1> HIDE DEF verses, m
<1>6. MapRuns(chapter) = SumOfRuns(verses)
  BY <1>4, RunsOnce
<1>7. MapRuns(chapter).clusters = SumOf(parts)
  BY <1>6 DEF SumOfRuns
<1>8. parts = [i \in 1 .. m |-> parts[i]] /\ \A i \in 1 .. m : parts[i] = VerseAddend(chapter[i]).clusters
  BY <1>1, <1>2, <1>5
<1> HIDE DEF parts
<1>9. AreTallies(parts, m)
  BY <1>1, <1>3, <1>8 DEF AreTallies, IsRunAddend
<1>10. v \in 1 .. m /\ Tallied(e, parts[v]) > 0
  BY <1>1, <1>8
<1>11. QED
  BY <1>7, <1>9, <1>10, SumHolds

(* What a chapter holds its book holds.                                    *)
LEMMA BookHolds ==
    ASSUME NEW U, NEW book \in Seq(Seq(Seq(U))), NEW c \in DOMAIN book, NEW e,
           Tallied(e, MapRuns(book[c]).clusters) > 0
    PROVE  Tallied(e, FoldRuns(book).clusters) > 0
<1> DEFINE mapped == [k \in DOMAIN book |-> MapRuns(book[k])]
           parts == [i \in DOMAIN mapped |-> mapped[i].clusters]
           m == Len(book)
<1>1. m \in Nat /\ DOMAIN book = 1 .. m
  BY LengthIn
<1>2. FoldRuns(book) = Only({ SumOfRuns(t) : t \in {mapped} })
  BY DEF FoldRuns
<1>3. DOMAIN mapped = 1 .. m /\ \A k \in 1 .. m : mapped[k] = MapRuns(book[k])
  BY <1>1
<1>4. \A k \in 1 .. m : IsRunAddend(MapRuns(book[k]))
  BY <1>1, ChapterRunsCounted
<1> HIDE DEF mapped, m
<1>5. FoldRuns(book).clusters = SumOf(parts)
  <2>1. FoldRuns(book) = SumOfRuns(mapped)
    BY <1>2, RunsOnce
  <2>2. QED
    BY <2>1 DEF SumOfRuns
<1>6. parts = [i \in 1 .. m |-> parts[i]] /\ \A i \in 1 .. m : parts[i] = MapRuns(book[i]).clusters
  BY <1>3
<1> HIDE DEF parts
<1>7. AreTallies(parts, m)
  BY <1>1, <1>4, <1>6 DEF AreTallies, IsRunAddend
<1>8. c \in 1 .. m /\ Tallied(e, parts[c]) > 0
  BY <1>1, <1>6
<1>9. QED
  BY <1>5, <1>7, <1>8, SumHolds

(* Every run of a corpus is counted in the statistics built from nothing.  *)
LEMMA SitesTallied ==
    ASSUME NEW r \in Rules, r = "runs", NEW c \in Corpora(r), NEW b \in DOMAIN c, NEW chapter \in Range(c[b]),
           NEW s \in RunSites(chapter)
    PROVE  Tallied(s.key.cluster, RepeatsOf(AddendsOf(r, c)).clusters) > 0
<1> DEFINE a == AddendsOf(r, c)
           U == Alphabet(r)
           m == BookCount(r)
           parts == [k \in DOMAIN a |-> a[k].clusters]
           e == s.key.cluster
<1>1. DOMAIN c = 1 .. m /\ m \in Nat
  BY RulesAssumption DEF Corpora
<1>2. \A k \in 1 .. m : c[k] \in Seq(Seq(Seq(U)))
  BY BookIn DEF Corpora
<1>3. \A k \in 1 .. m : a[k] = FoldRuns(c[k])
  BY <1>1, ContributionIs DEF AddendsOf
<1>4. DOMAIN a = 1 .. m
  BY <1>1 DEF AddendsOf
<1>5. RepeatsOf(a).clusters = SumOf(parts)
  BY DEF RepeatsOf
<1>6. PICK k \in DOMAIN c[b] : chapter = c[b][k]
  BY DEF Range
<1>7. PICK v \in DOMAIN chapter : \E run \in Range(ScanRuns(WrittenLetters(chapter[v]))) :
        e = chapter[v][run[1]].folded
  BY DEF RunSites, SitesIn, RunKey
<1> HIDE DEF a, m, U, e
<1>8. parts = [k_1 \in 1 .. m |-> parts[k_1]] /\ \A i \in 1 .. m : parts[i] = FoldRuns(c[i]).clusters
  BY <1>3, <1>4
<1> HIDE DEF parts
<1>9. AreTallies(parts, m)
  <2>1. \A i \in 1 .. m : IsTally(FoldRuns(c[i]).clusters)
    BY <1>2, RunsFolded DEF IsRunAddend
  <2>2. QED
    BY <1>1, <1>8, <2>1 DEF AreTallies
<1>10. c[b] \in Seq(Seq(Seq(U))) /\ b \in 1 .. m
  BY <1>1, <1>2
<1>11. chapter \in Seq(Seq(U))
  BY <1>6, <1>10, LengthIn
<1>12. chapter[v] \in Seq(U)
  BY <1>11, LengthIn
<1>13. Tallied(e, VerseAddend(chapter[v]).clusters) > 0
  BY <1>7, <1>12, VerseHolds
<1>14. Tallied(e, MapRuns(c[b][k]).clusters) > 0
  BY <1>6, <1>11, <1>13, ChapterHolds
<1>15. Tallied(e, FoldRuns(c[b]).clusters) > 0
  BY <1>10, <1>14, BookHolds
<1>16. Tallied(e, SumOf(parts)) > 0
  BY <1>8, <1>9, <1>10, <1>15, SumHolds
<1>17. QED
  BY <1>5, <1>16 DEF a, e

(* Doubled words and repeated letters are those of the text.               *)
LEMMA DoublesAreRead ==
    ASSUME CorpusTyped, IsFresh
    PROVE  DoublesAreThoseOfTheText
<1> SUFFICES ASSUME rule = "runs", NEW b \in DOMAIN corpus, NEW chapter \in Range(corpus[b])
             PROVE  /\ DuplicateHits(chapter) = DoubledIn(chapter, WordTokens(chapter))
                    /\ \A verse \in Range(chapter) :
                          Range(ScanRuns(WrittenLetters(verse))) = MaximalRuns(WrittenLetters(verse))
                    /\ \A s \in RunSites(chapter) : Tallied(s.key.cluster, stats.clusters) > 0
  BY DEF DoublesAreThoseOfTheText
<1> DEFINE U == Alphabet(rule)
<1>1. corpus[b] \in Seq(Seq(Seq(U)))
  BY BookIn DEF CorpusTyped, Corpora
<1>2. chapter \in Seq(Seq(U))
  <2>1. PICK k \in DOMAIN corpus[b] : chapter = corpus[b][k]
    BY DEF Range
  <2> HIDE DEF U
  <2>2. QED
    BY <1>1, <2>1, LengthIn
<1> HIDE DEF U
<1>3. DuplicateHits(chapter) = DoubledIn(chapter, WordTokens(chapter))
  BY <1>2, DoublesFound
<1>4. ASSUME NEW verse \in Range(chapter)
      PROVE  Range(ScanRuns(WrittenLetters(verse))) = MaximalRuns(WrittenLetters(verse))
  <2> DEFINE letters == WrittenLetters(verse)
             m == Len(verse)
  <2>1. verse \in Seq(U)
    <3>1. PICK v \in DOMAIN chapter : verse = chapter[v]
      BY <1>4 DEF Range
    <3>2. QED
      BY <1>2, <3>1, LengthIn
  <2>2. m \in Nat /\ DOMAIN verse = 1 .. m
    BY <2>1, LengthIn
  <2>3. letters = [i \in 1 .. m |-> letters[i]]
    BY <2>2 DEF WrittenLetters
  <2> HIDE DEF letters, m
  <2>4. letters \in Seq({ letters[i] : i \in 1 .. m })
    BY <2>2, <2>3, SequenceOf
  <2>5. QED
    BY <2>4, ScanFinds DEF letters
<1>5. stats = RepeatsOf(AddendsOf(rule, corpus))
  BY FreshIs DEF IsFresh
<1>6. \A s \in RunSites(chapter) : Tallied(s.key.cluster, stats.clusters) > 0
  <2>1. rule \in Rules /\ corpus \in Corpora(rule)
    BY DEF CorpusTyped, Corpora
  <2>2. QED
    BY <1>5, <2>1, SitesTallied
<1>7. QED
  BY <1>3, <1>4, <1>6

(***************************************************************************)
(* The scan for repeated letters lists the runs of three or more letters   *)
(* of a verse, all of them and whole, and counts each before it is judged; *)
(* the walk for doubled words lists the equal words with only space        *)
(* between them, or a verse break, and no others: a verse without a word   *)
(* keeps them apart.                                                       *)
(***************************************************************************)
THEOREM DoublesRead == Spec => []DoublesAreThoseOfTheText
<1>1. CorpusTyped /\ IsFresh => DoublesAreThoseOfTheText
  BY DoublesAreRead
<1>2. QED
  BY <1>1, FreshInduction, PTL
================================================================================
