-------------------------- MODULE CasingModel_proofs --------------------------
(***************************************************************************)
(* Proofs about CasingModel, for any books and texts, any configurations,  *)
(* every rule of domination and reshuffling, and any number of failures.   *)
(***************************************************************************)
EXTENDS CasingModel, DataInduction

(***************************************************************************)
(* What a chapter's walk, its reduction and a book's fold are made of.     *)
(***************************************************************************)
Cases == {"upper", "lower", "uncased", "mixed"}

(* The names of words and glyphs, the reserved one included.               *)
Names == STRING \cup {"none"}

Pendings == [glyph : Names, quote : BOOLEAN, other : BOOLEAN]

Positions == {BookInitial, Midflow} \cup { Forced(g, q) : g \in Names, q \in BOOLEAN }

Occurrences == [word : Names, pos : Positions, case : {"upper", "lower"}]

WordTallies == BagsOver(Occurrences)

CasingSites == [at : Seq(Nat), word : Names, pos : Positions]

FirstWords == [word : Names, case : Cases, at : Seq(Nat)]

Leads == [from : Pendings, quote : BOOLEAN, other : BOOLEAN]

(* Where no word is cased there is no site and no occurrence.              *)
Walks ==
    { acc \in [first : FirstWords, lead : Leads, pending : Pendings, letter : BOOLEAN,
               keys : SUBSET Names, tally : WordTallies, sites : Seq(CasingSites), starts : Nat] :
        acc.starts = 0 => acc.sites = <<>> /\ acc.tally = EmptyBag /\ acc.first.case = "uncased" }

CasingObservations ==
    { o \in [keys : SUBSET Names, tally : WordTallies, sites : Seq(CasingSites), starts : Nat,
             lead : Leads, first : FirstWords, tail : Pendings] :
        o.starts = 0 => o.sites = <<>> /\ o.tally = EmptyBag /\ o.first.case = "uncased" }

Carries == [pending : Pendings, initial : BOOLEAN]

ReducedChapters ==
    { r \in [keys : SUBSET Names, starts : Nat, tally : WordTallies, sites : Seq(CasingSites)] :
        r.starts = 0 => r.sites = <<>> /\ r.tally = EmptyBag }

BookWords == [keys : SUBSET Names, tally : WordTallies, starts : Nat]

(***************************************************************************)
(* The walk of a chapter.                                                  *)
(***************************************************************************)
LEMMA NothingIn ==
    /\ NoPending \in Pendings /\ NoFirst \in FirstWords
    /\ BookStart \in Carries /\ NoWords \in BookWords
<1>1. NoPending \in Pendings
  BY DEF NoPending, Pendings, Names
<1>2. NoFirst \in FirstWords
  <2>1. << >> \in Seq(Nat)
    OBVIOUS
  <2>2. QED
    BY <2>1 DEF NoFirst, FirstWords, Cases, Names
<1>3. BookStart \in Carries
  BY <1>1 DEF BookStart, Carries
<1>4. EmptyBag \in WordTallies
  BY EmptyBagIs DEF WordTallies
<1>5. NoWords \in BookWords
  BY <1>4 DEF NoWords, BookWords
<1>6. QED
  BY <1>1, <1>2, <1>3, <1>5

LEMMA AdvancedIn ==
    ASSUME NEW live \in Pendings, NEW letter \in BOOLEAN, NEW c \in Units, c.kind # "word"
    PROVE  Advanced(live, letter, c) \in Pendings
<1>1. c.kind \in {"space", "letter", "mark", "quote"} /\ c.glyph \in Names
  BY DEF Units, Names
<1>2. CASE c.kind \in {"space", "letter"}
  BY <1>2 DEF Advanced
<1>3. CASE live # NoPending /\ c.kind \in {"mark", "quote"}
  BY <1>3 DEF Advanced, Pendings
<1>4. CASE live = NoPending /\ c.kind \in {"mark", "quote"}
  BY <1>1, <1>4, NothingIn DEF Advanced, Pendings
<1>5. QED
  BY <1>1, <1>2, <1>3, <1>4

LEMMA PosIn ==
    ASSUME NEW initial, NEW taken \in Pendings
    PROVE  PosOf(initial, taken) \in Positions
BY DEF PosOf, Positions, Pendings

LEMMA RecordedIn ==
    ASSUME NEW tally \in WordTallies, NEW word \in Names, NEW pos \in Positions, NEW case \in Cases
    PROVE  /\ Recorded(tally, word, pos, case) \in WordTallies
           /\ case = "uncased" => Recorded(tally, word, pos, case) = tally
<1> DEFINE o == Occurrence(word, pos, IF case = "upper" THEN case ELSE "lower")
<1>1. CASE case = "uncased"
  BY <1>1 DEF Recorded
<1>2. CASE case # "uncased"
  <2>1. o \in Occurrences
    BY DEF Occurrence, Occurrences
  <2>2. Recorded(tally, word, pos, case) = tally (+) SetToBag({o})
    BY <1>2 DEF Recorded
  <2> HIDE DEF o
  <2>3. SetToBag({o}) \in WordTallies
    BY <2>1, BagOfOne DEF WordTallies
  <2>4. QED
    <3>1. tally (+) SetToBag({o}) \in WordTallies
      BY <2>3, BagSum DEF WordTallies
    <3>2. QED
      BY <1>2, <2>2, <3>1
<1>3. QED
  BY <1>1, <1>2

LEMMA GapKeeps ==
    ASSUME NEW acc \in Walks, NEW c \in Units, c.kind # "word"
    PROVE  GapScalar(acc, c) \in Walks
<1> DEFINE next == [acc EXCEPT !.letter = c.kind = "letter"]
           lead == [from |-> Advanced(acc.lead.from, acc.letter, c),
                    quote |-> acc.lead.quote \/ c.kind = "quote",
                    other |-> acc.lead.other \/ c.kind = "mark"]
<1>1. /\ acc.lead \in Leads /\ acc.lead.from \in Pendings /\ acc.pending \in Pendings
      /\ acc.letter \in BOOLEAN
  BY DEF Walks, Leads
<1>2. next \in Walks /\ next.pending = acc.pending
  BY DEF Walks
<1>3. lead \in Leads
  BY <1>1, AdvancedIn DEF Leads
<1>4. Advanced(acc.pending, acc.letter, c) \in Pendings
  BY <1>1, AdvancedIn
<1>5. GapScalar(acc, c) = IF acc.first = NoFirst
                          THEN [next EXCEPT !.lead = lead]
                          ELSE [next EXCEPT !.pending = Advanced(acc.pending, acc.letter, c)]
  BY <1>2 DEF GapScalar
<1> HIDE DEF next, lead
<1>6. [next EXCEPT !.lead = lead] \in Walks
  BY <1>2, <1>3 DEF Walks
<1>7. [next EXCEPT !.pending = Advanced(acc.pending, acc.letter, c)] \in Walks
  BY <1>2, <1>4 DEF Walks
<1>8. QED
  BY <1>5, <1>6, <1>7

LEMMA WordKeeps ==
    ASSUME NEW acc \in Walks, NEW w \in Units, w.kind = "word", NEW at \in Seq(Nat)
    PROVE  WordStart(acc, w, at) \in Walks
<1> DEFINE pos == PosOf(FALSE, acc.pending)
           starts == IF w.case = "uncased" THEN acc.starts ELSE acc.starts + 1
           seen == [acc EXCEPT !.letter = TRUE, !.keys = @ \cup {w.word}, !.starts = starts]
           first == [word |-> w.word, case |-> w.case, at |-> at]
           tally == Recorded(acc.tally, w.word, pos, w.case)
           sites == IF w.case = "lower" THEN Append(acc.sites, [at |-> at, word |-> w.word, pos |-> pos])
                    ELSE acc.sites
<1>1. w.word \in Names /\ w.case \in Cases
  BY DEF Units, Names, Cases
<1>2. /\ acc.pending \in Pendings /\ acc.tally \in WordTallies /\ acc.sites \in Seq(CasingSites)
      /\ acc.starts \in Nat
      /\ acc.starts = 0 => acc.sites = <<>> /\ acc.tally = EmptyBag /\ acc.first.case = "uncased"
  BY DEF Walks
<1>3. pos \in Positions
  BY <1>2, PosIn
<1>4. starts \in Nat /\ (starts = 0 => acc.starts = 0 /\ w.case = "uncased")
  BY <1>2
<1> HIDE DEF pos, starts
<1>5. seen \in [first : FirstWords, lead : Leads, pending : Pendings, letter : BOOLEAN,
                keys : SUBSET Names, tally : WordTallies, sites : Seq(CasingSites), starts : Nat]
      /\ seen.tally = acc.tally /\ seen.sites = acc.sites /\ seen.first = acc.first
      /\ seen.starts = starts
  BY <1>1, <1>4 DEF Walks
<1>6. first \in FirstWords /\ first.case = w.case
  BY <1>1 DEF FirstWords
<1>7. tally \in WordTallies /\ (w.case = "uncased" => tally = acc.tally)
  BY <1>1, <1>2, <1>3, RecordedIn
<1>8. sites \in Seq(CasingSites) /\ (w.case = "uncased" => sites = acc.sites)
  <2>1. [at |-> at, word |-> w.word, pos |-> pos] \in CasingSites
    BY <1>1, <1>3 DEF CasingSites
  <2>2. QED
    BY <1>2, <2>1
<1>9. WordStart(acc, w, at) = IF acc.first = NoFirst THEN [seen EXCEPT !.first = first]
                              ELSE [seen EXCEPT !.pending = NoPending, !.tally = tally, !.sites = sites]
  <2>1. seen = [acc EXCEPT !.letter = TRUE, !.keys = @ \cup {w.word},
                           !.starts = IF w.case = "uncased" THEN @ ELSE @ + 1]
    BY DEF starts
  <2> HIDE DEF seen, first
  <2>2. [seen EXCEPT !.pending = NoPending, !.tally = tally, !.sites = sites] =
        [seen EXCEPT !.pending = NoPending, !.tally = Recorded(@, w.word, pos, w.case),
                     !.sites = IF w.case = "lower"
                               THEN Append(@, [at |-> at, word |-> w.word, pos |-> pos])
                               ELSE @]
    BY <1>5
  <2> HIDE DEF tally, sites
  <2>3. QED
    BY <2>1, <2>2 DEF WordStart, first, pos
<1> HIDE DEF seen, first, tally, sites
<1>10. [seen EXCEPT !.first = first] \in Walks
  BY <1>2, <1>4, <1>5, <1>6 DEF Walks
<1>11. NoPending \in Pendings
  BY NothingIn
<1>12. [seen EXCEPT !.pending = NoPending, !.tally = tally, !.sites = sites] \in Walks
  BY <1>2, <1>4, <1>5, <1>7, <1>8, <1>11 DEF Walks
<1>13. QED
  BY <1>9, <1>10, <1>12

(* One unit of the walk.                                                   *)
LEMMA UnitKeeps ==
    ASSUME NEW acc \in Walks, NEW u \in Units, NEW at \in Seq(Nat)
    PROVE  Unit(AtPlace(acc, at), u, at) \in Walks
<1>1. AtPlace(acc, at) \in Walks
  BY DEF AtPlace, Walks
<1>2. QED
  BY <1>1, GapKeeps, WordKeeps DEF Unit

LEMMA UnitOnce ==
    ASSUME NEW acc, NEW u, NEW at
    PROVE  Only({ Unit(a, u, at) : a \in {acc} }) = Unit(acc, u, at)
<1>1. { Unit(a, u, at) : a \in {acc} } = {Unit(acc, u, at)}
  OBVIOUS
<1>2. QED
  BY <1>1, OnlyIs

LEMMA WalkedIn ==
    ASSUME NEW chapter \in Seq(Seq(Units)), NEW at \in Seq(PlacesIn(chapter))
    PROVE  Walked(chapter, at) \in Walks
<1> DEFINE m == Len(at)
           U(n) == chapter[at[n][1]][at[n][2]]
           Body(f) == [n \in 0 .. m |->
                          IF n = 0 THEN EmptyAcc
                          ELSE Only({ Unit(a, U(n), at[n]) : a \in {AtPlace(f[n - 1], at[n])} })]
           acc == CHOOSE f : f = Body(f)
           step == [e \in Walks \X (1 .. m) |-> Unit(AtPlace(e[1], at[e[2]]), U(e[2]), at[e[2]])]
<1>1. m \in Nat /\ \A n \in 1 .. m : U(n) \in Units /\ at[n] \in Seq(Nat)
  <2>1. ASSUME NEW n \in 1 .. m
        PROVE  U(n) \in Units /\ at[n] \in Seq(Nat)
    <3>1. at[n] \in PlacesIn(chapter)
      OBVIOUS
    <3>2. PICK v \in DOMAIN chapter : at[n] \in {v} \X DOMAIN chapter[v]
      BY <3>1 DEF PlacesIn
    <3>3. chapter[v] \in Seq(Units) /\ v \in Nat
      OBVIOUS
    <3>4. PICK i \in DOMAIN chapter[v] : at[n] = <<v, i>>
      BY <3>2
    <3>5. chapter[v][i] \in Units /\ i \in Nat
      BY <3>3
    <3>6. QED
      BY <3>3, <3>4, <3>5
  <2>2. QED
    BY <2>1
<1>2. Walked(chapter, at) = acc[m]
  BY DEF Walked
<1>3. EmptyAcc \in Walks
  <2>1. NoFirst \in FirstWords /\ NoFirst.case = "uncased" /\ NoPending \in Pendings
    BY NothingIn DEF NoFirst
  <2>2. EmptyBag \in WordTallies
    BY EmptyBagIs DEF WordTallies
  <2>3. [from |-> NoPending, quote |-> FALSE, other |-> FALSE] \in Leads
    BY <2>1 DEF Leads
  <2>4. << >> \in Seq(CasingSites)
    OBVIOUS
  <2>5. QED
    BY <2>1, <2>2, <2>3, <2>4 DEF EmptyAcc, Walks
<1>4. step \in [Walks \X (1 .. m) -> Walks]
  <2>1. \A e \in Walks \X (1 .. m) : Unit(AtPlace(e[1], at[e[2]]), U(e[2]), at[e[2]]) \in Walks
    <3> SUFFICES ASSUME NEW e \in Walks \X (1 .. m)
                 PROVE  Unit(AtPlace(e[1], at[e[2]]), U(e[2]), at[e[2]]) \in Walks
      OBVIOUS
    <3>1. e[1] \in Walks /\ U(e[2]) \in Units /\ at[e[2]] \in Seq(Nat)
      BY <1>1
    <3> HIDE DEF U
    <3>2. QED
      BY <3>1, UnitKeeps
  <2> HIDE DEF U, m
  <2>2. QED
    BY <2>1
<1>5. PICK g : IsRun(g, Walks, EmptyAcc, m, step)
  <2> HIDE DEF step, m
  <2>1. QED
    BY <1>1, <1>3, <1>4, Recursion
<1>6. g \in [0 .. m -> Walks] /\ g[0] = EmptyAcc /\ \A n \in 1 .. m : g[n] = step[g[n - 1], n]
  BY <1>5 DEF IsRun
<1>7. g = Body(g)
  <2>1. ASSUME NEW n \in 1 .. m
        PROVE  g[n] = Unit(AtPlace(g[n - 1], at[n]), U(n), at[n])
    <3>1. <<g[n - 1], n>> \in Walks \X (1 .. m)
      <4> HIDE DEF m, step
      <4>1. n - 1 \in 0 .. m
        BY <1>1
      <4>2. QED
        BY <1>6, <4>1
    <3> HIDE DEF U
    <3>2. step[g[n - 1], n] = Unit(AtPlace(g[n - 1], at[n]), U(n), at[n])
      BY <3>1
    <3>3. QED
      BY <1>6, <3>2
  <2>2. \A n \in 0 .. m : n = 0 \/ n \in 1 .. m
    BY <1>1
  <2> HIDE DEF step, m, U
  <2>3. \A n \in 0 .. m : g[n] = Body(g)[n]
    <3>1. 0 \in 0 .. m /\ Body(g)[0] = EmptyAcc
      BY <1>1
    <3>2. ASSUME NEW n \in 1 .. m
          PROVE  Body(g)[n] = Unit(AtPlace(g[n - 1], at[n]), U(n), at[n])
      <4>1. n \in 0 .. m /\ n # 0
        BY <1>1
      <4>2. Body(g)[n] = Only({ Unit(a, U(n), at[n]) : a \in {AtPlace(g[n - 1], at[n])} })
        BY <4>1
      <4>3. QED
        BY <4>2, UnitOnce
    <3> HIDE DEF Body
    <3>3. QED
      BY <1>6, <2>1, <2>2, <3>1, <3>2
  <2>4. g = [n \in 0 .. m |-> g[n]]
    BY <1>6
  <2>5. QED
    BY <2>3, <2>4
<1>8. acc = Body(acc)
  <2> HIDE DEF Body
  <2>1. QED
    BY <1>7
<1> DEFINE P == { n \in 0 .. m : acc[n] \in Walks }
<1>9. 0 .. m \subseteq P
  <2> HIDE DEF acc, U
  <2>1. 0 \in P
    BY <1>1, <1>3, <1>8
  <2>2. ASSUME NEW n \in 0 .. m - 1, n \in P
        PROVE  n + 1 \in P
    <3> DEFINE k == n + 1
    <3>1. k \in 1 .. m /\ k \in 0 .. m /\ k # 0 /\ k - 1 = n /\ acc[n] \in Walks
      BY <1>1, <2>2
    <3> HIDE DEF k
    <3>2. acc[k] = Unit(AtPlace(acc[n], at[k]), U(k), at[k])
      <4>1. acc[k] = Only({ Unit(a, U(k), at[k]) : a \in {AtPlace(acc[n], at[k])} })
        BY <1>8, <3>1
      <4>2. QED
        BY <4>1, UnitOnce
    <3>3. U(k) \in Units /\ at[k] \in Seq(Nat)
      BY <1>1, <3>1
    <3>4. acc[k] \in Walks
      BY <3>1, <3>2, <3>3, UnitKeeps
    <3>5. QED
      BY <3>1, <3>4 DEF k
  <2> HIDE DEF P
  <2>3. QED
    BY <1>1, <2>1, <2>2, UpTo
<1>10. m \in 0 .. m
  BY <1>1
<1>11. QED
  <2> HIDE DEF acc, m
  <2>1. QED
    BY <1>2, <1>9, <1>10

LEMMA MapChapterIn ==
    ASSUME NEW chapter \in Seq(Seq(Units))
    PROVE  MapChapter(chapter) \in CasingObservations
<1> DEFINE places == [v \in DOMAIN chapter |-> [i \in DOMAIN chapter[v] |-> <<v, i>>]]
           at == PlacesOf(chapter)
           acc == Walked(chapter, at)
<1>1. places \in Seq(Seq(PlacesIn(chapter)))
  <2>1. ASSUME NEW v \in DOMAIN chapter
        PROVE  [i \in DOMAIN chapter[v] |-> <<v, i>>] \in Seq(PlacesIn(chapter))
    <3>1. chapter[v] \in Seq(Units)
      OBVIOUS
    <3>2. \A i \in DOMAIN chapter[v] : <<v, i>> \in PlacesIn(chapter)
      BY DEF PlacesIn
    <3>3. QED
      BY <3>1, <3>2
  <2>2. DOMAIN chapter = 1 .. Len(chapter) /\ Len(chapter) \in Nat
    OBVIOUS
  <2>3. QED
    BY <2>1, <2>2
<1>2. at \in Seq(PlacesIn(chapter))
  BY <1>1, FlattenedIn DEF PlacesOf
<1>3. acc \in Walks
  BY <1>2, WalkedIn
<1>4. MapChapter(chapter) = Mapped(acc)
  BY DEF MapChapter
<1> HIDE DEF acc
<1>5. NoPending \in Pendings
  BY NothingIn
<1>6. Mapped(acc) \in CasingObservations
  BY <1>3, <1>5 DEF Mapped, Walks, CasingObservations
<1>7. QED
  BY <1>4, <1>6

(***************************************************************************)
(* The reduction of a book's chapters, and their fold.                     *)
(***************************************************************************)
LEMMA LeavingIn ==
    ASSUME NEW obs \in CasingObservations, NEW entering \in Carries
    PROVE  /\ Leaving(obs, entering) \in Carries
           /\ FirstPos(obs, entering) \in Positions
<1>1. /\ obs.lead \in Leads /\ obs.lead.from \in Pendings /\ obs.tail \in Pendings
      /\ obs.lead.quote \in BOOLEAN /\ obs.lead.other \in BOOLEAN
      /\ entering.pending \in Pendings /\ entering.initial \in BOOLEAN
  BY DEF CasingObservations, Leads, Carries
<1>2. Applied(obs.lead, entering.pending) \in Pendings
  BY <1>1 DEF Applied, Pendings
<1>3. FirstPos(obs, entering) \in Positions
  BY <1>2, PosIn DEF FirstPos
<1>4. [entering EXCEPT !.pending = Applied(obs.lead, @)] \in Carries
  BY <1>2 DEF Carries
<1>5. [pending |-> obs.tail, initial |-> FALSE] \in Carries
  BY <1>1 DEF Carries
<1>6. QED
  BY <1>3, <1>4, <1>5 DEF Leaving

LEMMA ReducedIn ==
    ASSUME NEW obs \in CasingObservations, NEW entering \in Carries
    PROVE  Reduced(obs, entering) \in ReducedChapters
<1> DEFINE f == obs.first
           pos == FirstPos(obs, entering)
           site == [at |-> f.at, word |-> f.word, pos |-> pos]
           words == [keys |-> obs.keys, starts |-> obs.starts, tally |-> obs.tally, sites |-> obs.sites]
           tally == Recorded(obs.tally, f.word, pos, f.case)
           sites == IF f.case = "lower" THEN <<site>> \o obs.sites ELSE obs.sites
<1>1. /\ f \in FirstWords /\ f.word \in Names /\ f.case \in Cases /\ f.at \in Seq(Nat)
      /\ obs.tally \in WordTallies /\ obs.sites \in Seq(CasingSites) /\ obs.starts \in Nat
      /\ obs.keys \in SUBSET Names
      /\ obs.starts = 0 => obs.sites = <<>> /\ obs.tally = EmptyBag /\ f.case = "uncased"
  BY DEF CasingObservations, FirstWords
<1>2. pos \in Positions
  BY LeavingIn
<1> HIDE DEF f, pos
<1>3. words \in ReducedChapters /\ words.starts = obs.starts
  BY <1>1 DEF ReducedChapters
<1>4. tally \in WordTallies /\ (f.case = "uncased" => tally = obs.tally)
  BY <1>1, <1>2, RecordedIn
<1>5. sites \in Seq(CasingSites) /\ (f.case = "uncased" => sites = obs.sites)
  <2>1. site \in CasingSites
    BY <1>1, <1>2 DEF CasingSites
  <2> HIDE DEF site
  <2>2. QED
    BY <1>1, <2>1
<1>6. Reduced(obs, entering) = IF f = NoFirst THEN words
                               ELSE [words EXCEPT !.tally = tally, !.sites = sites]
  <2>1. [words EXCEPT !.tally = tally, !.sites = sites] =
        [words EXCEPT !.tally = Recorded(@, f.word, pos, f.case),
                      !.sites = IF f.case = "lower" THEN <<site>> \o @ ELSE @]
    OBVIOUS
  <2> HIDE DEF words, tally, sites, site
  <2>2. QED
    BY <2>1 DEF Reduced, f, pos, words, site
<1> HIDE DEF words, tally, sites
<1>7. [words EXCEPT !.tally = tally, !.sites = sites] \in ReducedChapters
  BY <1>1, <1>3, <1>4, <1>5 DEF ReducedChapters
<1>8. QED
  BY <1>3, <1>6, <1>7

Progresses == [reduced : Seq(ReducedChapters), leaving : Carries]

LEMMA WithReducedIn ==
    ASSUME NEW walk \in Progresses, NEW obs \in CasingObservations
    PROVE  WithReduced(walk, obs) \in Progresses
<1>1. walk.reduced \in Seq(ReducedChapters) /\ walk.leaving \in Carries
  BY DEF Progresses
<1>2. Reduced(obs, walk.leaving) \in ReducedChapters /\ Leaving(obs, walk.leaving) \in Carries
  BY <1>1, ReducedIn, LeavingIn
<1>3. Append(walk.reduced, Reduced(obs, walk.leaving)) \in Seq(ReducedChapters)
  BY <1>1, <1>2
<1>4. QED
  BY <1>2, <1>3 DEF WithReduced, Progresses

LEMMA ReducedOnce ==
    ASSUME NEW walk, NEW e
    PROVE  Only({ WithReduced(w, obs) : w \in {walk}, obs \in {e} }) = WithReduced(walk, e)
<1>1. { WithReduced(w, obs) : w \in {walk}, obs \in {e} } = {WithReduced(walk, e)}
  OBVIOUS
<1>2. QED
  BY <1>1, OnlyIs

LEMMA ReducedBookIn ==
    ASSUME NEW book \in Seq(Seq(Seq(Units)))
    PROVE  /\ ReducedBook(book) \in Seq(ReducedChapters)
           /\ book = << >> => ReducedBook(book) = << >>
<1> DEFINE m == Len(book)
           start == [reduced |-> << >>, leaving |-> BookStart]
           O(i) == MapChapter(book[i])
           Body(f) == [i \in 0 .. m |->
                          IF i = 0 THEN start
                          ELSE Only({ WithReduced(w, obs) : w \in {f[i - 1]}, obs \in {O(i)} })]
           walk == CHOOSE f : f = Body(f)
           step == [e \in Progresses \X (1 .. m) |-> WithReduced(e[1], O(e[2]))]
<1>1. m \in Nat /\ \A i \in 1 .. m : O(i) \in CasingObservations
  BY MapChapterIn
<1>2. ReducedBook(book) = walk[m].reduced
  BY DEF ReducedBook
<1>3. start \in Progresses
  <2>1. BookStart \in Carries /\ << >> \in Seq(ReducedChapters)
    BY NothingIn
  <2>2. QED
    BY <2>1 DEF Progresses
<1> HIDE DEF O
<1>4. step \in [Progresses \X (1 .. m) -> Progresses]
  <2>1. \A e \in Progresses \X (1 .. m) : WithReduced(e[1], O(e[2])) \in Progresses
    BY <1>1, WithReducedIn
  <2> HIDE DEF m
  <2>2. QED
    BY <2>1
<1>5. PICK g : IsRun(g, Progresses, start, m, step)
  <2> HIDE DEF step, m, start
  <2>1. QED
    BY <1>1, <1>3, <1>4, Recursion
<1>6. g \in [0 .. m -> Progresses] /\ g[0] = start /\ \A n \in 1 .. m : g[n] = step[g[n - 1], n]
  BY <1>5 DEF IsRun
<1> HIDE DEF start
<1>7. g = Body(g)
  <2>1. ASSUME NEW n \in 1 .. m
        PROVE  g[n] = WithReduced(g[n - 1], O(n))
    <3>1. <<g[n - 1], n>> \in Progresses \X (1 .. m)
      <4> HIDE DEF m, step
      <4>1. n - 1 \in 0 .. m
        BY <1>1
      <4>2. QED
        BY <1>6, <4>1
    <3>2. step[g[n - 1], n] = WithReduced(g[n - 1], O(n))
      BY <3>1
    <3>3. QED
      BY <1>6, <3>2
  <2>2. \A n \in 0 .. m : n = 0 \/ n \in 1 .. m
    BY <1>1
  <2> HIDE DEF step, m
  <2>3. \A n \in 0 .. m : g[n] = Body(g)[n]
    <3>1. 0 \in 0 .. m /\ Body(g)[0] = start
      BY <1>1
    <3>2. ASSUME NEW n \in 1 .. m
          PROVE  Body(g)[n] = WithReduced(g[n - 1], O(n))
      <4>1. n \in 0 .. m /\ n # 0
        BY <1>1
      <4>2. Body(g)[n] = Only({ WithReduced(w, obs) : w \in {g[n - 1]}, obs \in {O(n)} })
        BY <4>1
      <4>3. QED
        BY <4>2, ReducedOnce
    <3> HIDE DEF Body
    <3>3. QED
      BY <1>6, <2>1, <2>2, <3>1, <3>2
  <2>4. g = [n \in 0 .. m |-> g[n]]
    BY <1>6
  <2>5. Body(g) = [n \in 0 .. m |-> Body(g)[n]]
    OBVIOUS
  <2> HIDE DEF Body
  <2>6. QED
    BY <2>3, <2>4, <2>5
<1>8. walk = Body(walk)
  <2> HIDE DEF Body
  <2>1. QED
    BY <1>7
<1> DEFINE P == { n \in 0 .. m : walk[n] \in Progresses }
<1>9. 0 \in 0 .. m /\ walk[0] = start
  <2> HIDE DEF walk, m
  <2>1. 0 \in 0 .. m
    BY <1>1
  <2>2. QED
    BY <1>8, <2>1
<1>10. 0 .. m \subseteq P
  <2> HIDE DEF walk
  <2>1. 0 \in P
    BY <1>3, <1>9
  <2>2. ASSUME NEW n \in 0 .. m - 1, n \in P
        PROVE  n + 1 \in P
    <3> DEFINE k == n + 1
    <3>1. k \in 1 .. m /\ k \in 0 .. m /\ k # 0 /\ k - 1 = n /\ walk[n] \in Progresses
      BY <1>1, <2>2
    <3> HIDE DEF k
    <3>2. walk[k] = WithReduced(walk[n], O(k))
      <4>1. walk[k] = Only({ WithReduced(w, obs) : w \in {walk[n]}, obs \in {O(k)} })
        <5>1. Body(walk)[k] = Only({ WithReduced(w, obs) : w \in {walk[k - 1]}, obs \in {O(k)} })
          BY <3>1
        <5> HIDE DEF Body
        <5>2. QED
          BY <1>8, <3>1, <5>1
      <4>2. QED
        BY <4>1, ReducedOnce
    <3>3. walk[k] \in Progresses
      BY <1>1, <3>1, <3>2, WithReducedIn
    <3>4. QED
      BY <3>1, <3>3 DEF k
  <2> HIDE DEF P
  <2>3. QED
    BY <1>1, <2>1, <2>2, UpTo
<1>11. ReducedBook(book) \in Seq(ReducedChapters)
  <2> HIDE DEF walk, m
  <2>1. walk[m] \in Progresses
    BY <1>1, <1>10
  <2>2. QED
    BY <1>2, <2>1 DEF Progresses
<1>12. ASSUME book = << >>
       PROVE  ReducedBook(book) = << >>
  <2>1. m = 0
    BY <1>12
  <2> HIDE DEF m, walk
  <2>2. QED
    BY <1>2, <1>9, <2>1 DEF start
<1>13. QED
  BY <1>11, <1>12

LEMMA WithChapterIn ==
    ASSUME NEW words \in BookWords, NEW r \in ReducedChapters
    PROVE  /\ WithChapter(words, r) \in BookWords
           /\ WithChapter(words, r).starts = 0 => words.starts = 0 /\ r.starts = 0
<1>1. /\ words.keys \in SUBSET Names /\ words.tally \in WordTallies /\ words.starts \in Nat
      /\ r.keys \in SUBSET Names /\ r.tally \in WordTallies /\ r.starts \in Nat
  BY DEF BookWords, ReducedChapters
<1>2. words.tally (+) r.tally \in WordTallies
  BY <1>1, BagSum DEF WordTallies
<1>3. /\ words.starts + r.starts \in Nat
      /\ words.starts + r.starts = 0 => words.starts = 0 /\ r.starts = 0
  BY <1>1
<1>4. WithChapter(words, r).starts = words.starts + r.starts
  BY DEF WithChapter
<1>5. WithChapter(words, r) \in BookWords
  BY <1>1, <1>2, <1>3 DEF WithChapter, BookWords
<1>6. QED
  BY <1>3, <1>4, <1>5

LEMMA FoldedOnce ==
    ASSUME NEW words, NEW r
    PROVE  Only({ WithChapter(w, r) : w \in {words} }) = WithChapter(words, r)
<1>1. { WithChapter(w, r) : w \in {words} } = {WithChapter(words, r)}
  OBVIOUS
<1>2. QED
  BY <1>1, OnlyIs

LEMMA FoldBookIn ==
    ASSUME NEW reduced \in Seq(ReducedChapters)
    PROVE  /\ FoldBook(reduced) \in BookWords
           /\ reduced = << >> => FoldBook(reduced) = NoWords
           /\ FoldBook(reduced).starts = 0 => \A n \in DOMAIN reduced : reduced[n].starts = 0
<1> DEFINE m == Len(reduced)
           Body(f) == [n \in 0 .. m |->
                          IF n = 0 THEN NoWords
                          ELSE Only({ WithChapter(words, reduced[n]) : words \in {f[n - 1]} })]
           fold == CHOOSE f : f = Body(f)
           step == [e \in BookWords \X (1 .. m) |-> WithChapter(e[1], reduced[e[2]])]
<1>1. m \in Nat /\ DOMAIN reduced = 1 .. m /\ \A n \in 1 .. m : reduced[n] \in ReducedChapters
  OBVIOUS
<1>2. FoldBook(reduced) = fold[m]
  BY DEF FoldBook
<1>3. NoWords \in BookWords
  BY NothingIn
<1>4. step \in [BookWords \X (1 .. m) -> BookWords]
  <2>1. \A e \in BookWords \X (1 .. m) : WithChapter(e[1], reduced[e[2]]) \in BookWords
    BY <1>1, WithChapterIn
  <2> HIDE DEF m
  <2>2. QED
    BY <2>1
<1>5. PICK g : IsRun(g, BookWords, NoWords, m, step)
  <2> HIDE DEF step, m
  <2>1. QED
    BY <1>1, <1>3, <1>4, Recursion
<1>6. g \in [0 .. m -> BookWords] /\ g[0] = NoWords /\ \A n \in 1 .. m : g[n] = step[g[n - 1], n]
  BY <1>5 DEF IsRun
<1>7. g = Body(g)
  <2>1. ASSUME NEW n \in 1 .. m
        PROVE  g[n] = WithChapter(g[n - 1], reduced[n])
    <3>1. <<g[n - 1], n>> \in BookWords \X (1 .. m)
      <4> HIDE DEF m, step
      <4>1. n - 1 \in 0 .. m
        BY <1>1
      <4>2. QED
        BY <1>6, <4>1
    <3>2. step[g[n - 1], n] = WithChapter(g[n - 1], reduced[n])
      BY <3>1
    <3>3. QED
      BY <1>6, <3>2
  <2>2. \A n \in 0 .. m : n = 0 \/ n \in 1 .. m
    BY <1>1
  <2> HIDE DEF step, m
  <2>3. \A n \in 0 .. m : g[n] = Body(g)[n]
    <3>1. 0 \in 0 .. m /\ Body(g)[0] = NoWords
      BY <1>1
    <3>2. ASSUME NEW n \in 1 .. m
          PROVE  Body(g)[n] = WithChapter(g[n - 1], reduced[n])
      <4>1. n \in 0 .. m /\ n # 0
        BY <1>1
      <4>2. Body(g)[n] = Only({ WithChapter(words, reduced[n]) : words \in {g[n - 1]} })
        BY <4>1
      <4>3. QED
        BY <4>2, FoldedOnce
    <3> HIDE DEF Body
    <3>3. QED
      BY <1>6, <2>1, <2>2, <3>1, <3>2
  <2>4. g = [n \in 0 .. m |-> g[n]]
    BY <1>6
  <2>5. Body(g) = [n \in 0 .. m |-> Body(g)[n]]
    OBVIOUS
  <2> HIDE DEF Body
  <2>6. QED
    BY <2>3, <2>4, <2>5
<1>8. fold = Body(fold)
  <2> HIDE DEF Body
  <2>1. QED
    BY <1>7
<1> DEFINE P == { n \in 0 .. m : /\ fold[n] \in BookWords
                                 /\ fold[n].starts = 0 => \A i \in 1 .. n : reduced[i].starts = 0 }
<1>9. 0 \in 0 .. m /\ fold[0] = NoWords
  <2> HIDE DEF fold, m
  <2>1. 0 \in 0 .. m
    BY <1>1
  <2>2. QED
    BY <1>8, <2>1
<1>10. 0 .. m \subseteq P
  <2> HIDE DEF fold
  <2>1. 0 \in P
    <3>1. \A i \in 1 .. 0 : FALSE
      OBVIOUS
    <3>2. QED
      BY <1>3, <1>9, <3>1
  <2>2. ASSUME NEW n \in 0 .. m - 1, n \in P
        PROVE  n + 1 \in P
    <3> DEFINE k == n + 1
    <3>1. k \in 1 .. m /\ k \in 0 .. m /\ k # 0 /\ k - 1 = n /\ fold[n] \in BookWords
      BY <1>1, <2>2
    <3>2. \A i \in 1 .. k : i = k \/ i \in 1 .. n
      BY <1>1
    <3> HIDE DEF k
    <3>3. fold[k] = WithChapter(fold[n], reduced[k])
      <4>1. fold[k] = Only({ WithChapter(words, reduced[k]) : words \in {fold[n]} })
        <5>1. Body(fold)[k] = Only({ WithChapter(words, reduced[k]) : words \in {fold[k - 1]} })
          BY <3>1
        <5> HIDE DEF Body
        <5>2. QED
          BY <1>8, <3>1, <5>1
      <4>2. QED
        BY <4>1, FoldedOnce
    <3>4. reduced[k] \in ReducedChapters
      BY <1>1, <3>1
    <3>5. /\ fold[k] \in BookWords
          /\ fold[k].starts = 0 => fold[n].starts = 0 /\ reduced[k].starts = 0
      BY <3>1, <3>3, <3>4, WithChapterIn
    <3>6. fold[n].starts = 0 => \A i \in 1 .. n : reduced[i].starts = 0
      BY <2>2
    <3>7. fold[k].starts = 0 => \A i \in 1 .. k : reduced[i].starts = 0
      BY <3>2, <3>5, <3>6
    <3>8. QED
      BY <3>1, <3>5, <3>7 DEF k
  <2> HIDE DEF P
  <2>3. QED
    BY <1>1, <2>1, <2>2, UpTo
<1>11. fold[m] \in BookWords /\ (fold[m].starts = 0 => \A n \in 1 .. m : reduced[n].starts = 0)
  <2> HIDE DEF fold, m
  <2>1. m \in P
    BY <1>1, <1>10
  <2>2. QED
    BY <2>1
<1>12. ASSUME reduced = << >>
       PROVE  fold[m] = NoWords
  <2>1. m = 0
    BY <1>12
  <2> HIDE DEF m, fold
  <2>2. QED
    BY <1>9, <2>1
<1> HIDE DEF fold, m
<1>13. QED
  BY <1>1, <1>2, <1>11, <1>12

(***************************************************************************)
(* The tables of what each text reduces to and contributes.                *)
(***************************************************************************)
LEMMA ReductionsAre ==
    ASSUME NEW t \in Texts
    PROVE  /\ Reductions[t] \in Seq(ReducedChapters)
           /\ DOMAIN Reductions[t] \subseteq Nat
           /\ \A n \in DOMAIN Reductions[t] : Reductions[t][n] \in ReducedChapters
           /\ t = NoText => Reductions[t] = << >>
<1>1. Reductions[t] = ReducedBook(ChaptersIn(t))
  BY TabledIs DEF Reductions
<1>2. ChaptersIn(t) \in Seq(Seq(Seq(Units))) /\ (t = NoText => ChaptersIn(t) = << >>)
  BY CasingAssumption
<1>3. Reductions[t] \in Seq(ReducedChapters) /\ (t = NoText => Reductions[t] = << >>)
  BY <1>1, <1>2, ReducedBookIn
<1>4. QED
  BY <1>3

LEMMA ContributionsAre ==
    ASSUME NEW t \in Texts
    PROVE  /\ Contributions[t] \in BookWords
           /\ t = NoText => Contributions[t] = NoWords
           /\ Contributions[t].starts = 0 =>
                 \A n \in DOMAIN Reductions[t] : Reductions[t][n].sites = << >>
<1>1. Contributions[t] = FoldBook(Reductions[t])
  BY TabledIs DEF Contributions
<1>2. \A n \in DOMAIN Reductions[t] : Reductions[t][n].starts = 0 => Reductions[t][n].sites = << >>
  BY ReductionsAre DEF ReducedChapters
<1>3. QED
  BY <1>1, <1>2, ReductionsAre, FoldBookIn

(***************************************************************************)
(* The books of the corpus, and the swaps of some of them.                 *)
(***************************************************************************)
LEMMA BooksAre ==
    /\ Books \in Seq(Slugs) /\ Len(Books) \in Nat
    /\ \A b \in Slugs : \E i \in 1 .. Len(Books) : Books[i] = b
    /\ \A i, j \in 1 .. Len(Books) : Books[i] = Books[j] => i = j
<1>1. Books \in Seq(ToSet(Books)) /\ IsInjective(Books)
  BY CasingAssumption
<1>2. Slugs = ToSet(Books)
  BY DEF Slugs, Range, ToSet
<1>3. DOMAIN Books = 1 .. Len(Books) /\ Len(Books) \in Nat
  BY <1>1
<1>4. \A b \in Slugs : \E i \in 1 .. Len(Books) : Books[i] = b
  BY <1>3 DEF Slugs, Range
<1>5. \A i, j \in 1 .. Len(Books) : Books[i] = Books[j] => i = j
  BY <1>1, <1>3 DEF IsInjective
<1>6. QED
  BY <1>1, <1>2, <1>3, <1>4, <1>5

(* A sequence that lists each member of S once.                            *)
Lists(q, S) ==
    /\ q \in Seq(S)
    /\ \A b \in S : \E i \in 1 .. Len(q) : q[i] = b
    /\ \A i, j \in 1 .. Len(q) : q[i] = q[j] => i = j

LEMMA ListedCount ==
    ASSUME NEW q, NEW S, Lists(q, S)
    PROVE  IsFiniteSet(S) /\ Cardinality(S) = Len(q)
<1>1. /\ q \in [1 .. Len(q) -> S] /\ Len(q) \in Nat
      /\ \A b \in S : \E i \in 1 .. Len(q) : q[i] = b
      /\ \A i, j \in 1 .. Len(q) : q[i] = q[j] => i = j
  BY DEF Lists
<1>2. q \in Bijection(1 .. Len(q), S)
  BY <1>1 DEF Bijection, Injection, Surjection, IsInjective
<1>3. ExistsBijection(1 .. Len(q), S)
  BY <1>2 DEF ExistsBijection
<1>4. IsFiniteSet(1 .. Len(q))
  BY <1>1, FS_Interval
<1>5. IsFiniteSet(S)
  BY <1>3, <1>4, FS_Bijection
<1> DEFINE k == Len(q)
<1>6. k \in Nat /\ ExistsBijection(1 .. k, S)
  BY <1>1, <1>3
<1> HIDE DEF k
<1>7. Cardinality(S) = k
  BY <1>6, FS_CountingElements
<1>8. QED
  BY <1>5, <1>7 DEF k

LEMMA SlugsAre ==
    /\ Lists(Books, Slugs) /\ IsFiniteSet(Slugs) /\ Cardinality(Slugs) = Len(Books)
<1>1. Lists(Books, Slugs)
  BY BooksAre DEF Lists
<1>2. QED
  BY <1>1, ListedCount

LEMMA SomeBooks ==
    ASSUME NEW S \in SUBSET Slugs
    PROVE  IsFiniteSet(S) /\ Cardinality(S) \in Nat /\ Cardinality(S) <= Len(Books)
<1>1. IsFiniteSet(S) /\ Cardinality(S) <= Cardinality(Slugs)
  BY SlugsAre, FS_Subset
<1>2. QED
  BY <1>1, SlugsAre, FS_CardinalityType

LEMMA MovedInOrder ==
    ASSUME NEW S \in SUBSET Slugs
    PROVE  /\ Lists(Selected(Books, S), S)
           /\ Len(Selected(Books, S)) \in Nat
           /\ Len(Selected(Books, S)) = Cardinality(S)
<1> DEFINE q == Selected(Books, S)
           n == Len(Books)
<1>1. /\ q \in Seq(Slugs)
      /\ \A e : (\E i \in 1 .. Len(q) : q[i] = e) <=> e \in S /\ \E i \in 1 .. n : Books[i] = e
  BY BooksAre, SelectedElements
<1>2. \A b \in S : \E i \in 1 .. Len(q) : q[i] = b
  BY <1>1, BooksAre
<1>3. PICK place : IsPlacing(place, Books, S)
  BY BooksAre, SelectedPlaces
<1>4. /\ place \in [1 .. Len(q) -> 1 .. n]
      /\ \A i \in 1 .. Len(q) : q[i] = Books[place[i]]
      /\ \A i, j \in 1 .. Len(q) : i < j => place[i] < place[j]
  BY <1>3 DEF IsPlacing
<1> HIDE DEF q
<1>5. Len(q) \in Nat /\ \A i \in 1 .. Len(q) : q[i] \in S
  BY <1>1
<1>6. q \in Seq(S)
  BY <1>1, <1>5
<1>7. ASSUME NEW i \in 1 .. Len(q), NEW j \in 1 .. Len(q), q[i] = q[j]
      PROVE  i = j
  <2>1. place[i] \in 1 .. n /\ place[j] \in 1 .. n /\ Books[place[i]] = Books[place[j]]
    BY <1>4, <1>7
  <2>2. place[i] = place[j]
    BY <2>1, BooksAre
  <2>3. ~ (i < j) /\ ~ (j < i)
    BY <1>4, <2>1, <2>2
  <2>4. QED
    BY <1>5, <2>3
<1>8. Lists(q, S)
  BY <1>2, <1>6, <1>7 DEF Lists
<1>9. QED
  BY <1>5, <1>8, ListedCount DEF q

(* A logged swap names two texts of one book.                              *)
Swaps == [old : Texts, new : Texts]

LEMMA SwapsOfIn ==
    ASSUME NEW S \in SUBSET Slugs, NEW held \in Corpora, NEW new \in Corpora
    PROVE  /\ SwapsOf(S, held, new) \in Seq(Swaps)
           /\ Len(SwapsOf(S, held, new)) = Cardinality(S)
           /\ \A i \in 1 .. Cardinality(S) :
                 SwapsOf(S, held, new)[i] = [old |-> held[Selected(Books, S)[i]],
                                             new |-> new[Selected(Books, S)[i]]]
<1> DEFINE q == Selected(Books, S)
           n == Len(q)
<1>1. q \in Seq(S) /\ n \in Nat /\ n = Cardinality(S)
  BY MovedInOrder DEF Lists
<1> HIDE DEF q
<1>2. DOMAIN q = 1 .. n /\ \A i \in 1 .. n : q[i] \in Slugs
  BY <1>1
<1>3. SwapsOf(S, held, new) = [i \in 1 .. n |-> [old |-> held[q[i]], new |-> new[q[i]]]]
  BY <1>2 DEF SwapsOf, q
<1>4. \A i \in 1 .. n : held[q[i]] \in Texts /\ new[q[i]] \in Texts
  BY <1>2 DEF Corpora
<1> HIDE DEF n
<1>5. \A i \in 1 .. n : [old |-> held[q[i]], new |-> new[q[i]]] \in Swaps
  BY <1>4 DEF Swaps
<1>6. SwapsOf(S, held, new) \in Seq(Swaps) /\ Len(SwapsOf(S, held, new)) = n
  BY <1>1, <1>3, <1>5
<1>7. QED
  BY <1>1, <1>3, <1>6 DEF q

(***************************************************************************)
(* A swap applied to a table.                                              *)
(***************************************************************************)
LEMMA TalliesAre ==
    ASSUME NEW swap \in Swaps
    PROVE  Before(swap) \in WordTallies /\ After(swap) \in WordTallies
<1>1. swap.old \in Texts /\ swap.new \in Texts
  BY DEF Swaps
<1>2. QED
  BY <1>1, ContributionsAre DEF Before, After, BookWords

LEMMA PartIs ==
    ASSUME NEW tally \in WordTallies, NEW words
    PROVE  /\ Part(tally, words) \in WordTallies
           /\ \A o : Tallied(o, Part(tally, words)) = IF o.word \in words THEN Tallied(o, tally) ELSE 0
<1> DEFINE D == { o \in DOMAIN tally : o.word \in words }
<1>1. Part(tally, words) = [o \in D |-> tally[o]]
  BY DEF Part
<1>2. D \in SUBSET DOMAIN tally
  OBVIOUS
<1>3. \A o : o \in D <=> o \in DOMAIN tally /\ o.word \in words
  OBVIOUS
<1> HIDE DEF D
<1>4. tally \in BagsOver(Occurrences)
  BY DEF WordTallies
<1>5. /\ [o \in D |-> tally[o]] \in BagsOver(Occurrences)
      /\ \A e : Tallied(e, [o \in D |-> tally[o]]) = IF e \in D THEN Tallied(e, tally) ELSE 0
  BY <1>2, <1>4, BagPart
<1>6. \A e : e \notin DOMAIN tally => Tallied(e, tally) = 0
  BY DEF Tallied
<1>7. QED
  BY <1>1, <1>3, <1>5, <1>6 DEF WordTallies

(* A word that did not move counts the same on both sides of the swap.     *)
LEMMA UnmovedWord ==
    ASSUME NEW swap \in Swaps, NEW o, o.word \notin MovedWords(swap)
    PROVE  Tallied(o, Before(swap)) = Tallied(o, After(swap))
<1> DEFINE w == o.word
<1>1. Before(swap) \in WordTallies /\ After(swap) \in WordTallies
  BY TalliesAre
<1>2. CASE w \in WordsOf(Before(swap)) \cup WordsOf(After(swap))
  <2>1. Part(Before(swap), {w}) = Part(After(swap), {w})
    BY <1>2 DEF MovedWords
  <2>2. /\ Tallied(o, Part(Before(swap), {w})) = Tallied(o, Before(swap))
        /\ Tallied(o, Part(After(swap), {w})) = Tallied(o, After(swap))
    BY <1>1, PartIs
  <2>3. QED
    BY <2>1, <2>2
<1>3. CASE w \notin WordsOf(Before(swap)) \cup WordsOf(After(swap))
  <2>1. o \notin DOMAIN Before(swap) /\ o \notin DOMAIN After(swap)
    BY <1>3 DEF WordsOf
  <2>2. QED
    BY <2>1 DEF Tallied
<1>4. QED
  BY <1>2, <1>3

LEMMA SwapApplied ==
    ASSUME NEW table \in WordTallies, NEW swap \in Swaps
    PROVE  /\ ApplySwap(table, swap) \in WordTallies
           /\ \A o : o.word \notin MovedWords(swap) =>
                        Tallied(o, ApplySwap(table, swap)) = Tallied(o, table)
           /\ \A o : Tallied(o, Before(swap)) <= Tallied(o, table) =>
                 Tallied(o, ApplySwap(table, swap))
                    = Tallied(o, table) - Tallied(o, Before(swap)) + Tallied(o, After(swap))
<1> DEFINE moved == MovedWords(swap)
           before == Before(swap)
           after == After(swap)
           out == Part(before, moved)
           in == Part(after, moved)
           left == table (-) out
           next == left (+) in
<1>1. ApplySwap(table, swap) = next
  BY DEF ApplySwap
<1>2. before \in WordTallies /\ after \in WordTallies
  BY TalliesAre
<1>3. /\ out \in WordTallies /\ in \in WordTallies
      /\ \A o : Tallied(o, out) = IF o.word \in moved THEN Tallied(o, before) ELSE 0
      /\ \A o : Tallied(o, in) = IF o.word \in moved THEN Tallied(o, after) ELSE 0
  BY <1>2, PartIs
<1>4. \A o : o.word \notin moved => Tallied(o, before) = Tallied(o, after)
  BY UnmovedWord
<1> HIDE DEF moved, before, after, out, in
<1>5. /\ left \in WordTallies
      /\ \A o : Tallied(o, out) <= Tallied(o, table) => Tallied(o, left) = Tallied(o, table) - Tallied(o, out)
      /\ \A o : Tallied(o, out) = 0 => Tallied(o, left) = Tallied(o, table)
  BY <1>3, BagMinus DEF WordTallies
<1> HIDE DEF left
<1>6. next \in WordTallies /\ \A o : Tallied(o, next) = Tallied(o, left) + Tallied(o, in)
  <2>1. left \in BagsOver(Occurrences) /\ in \in BagsOver(Occurrences)
    BY <1>3, <1>5 DEF WordTallies
  <2>2. /\ left (+) in \in BagsOver(Occurrences)
        /\ \A o : Tallied(o, left (+) in) = Tallied(o, left) + Tallied(o, in)
    BY <2>1, BagSum
  <2>3. QED
    BY <2>2 DEF WordTallies
<1> HIDE DEF next
<1>7. ASSUME NEW o
      PROVE  /\ o.word \notin moved => Tallied(o, next) = Tallied(o, table)
             /\ Tallied(o, before) <= Tallied(o, table) =>
                   Tallied(o, next) = Tallied(o, table) - Tallied(o, before) + Tallied(o, after)
  <2> DEFINE t == Tallied(o, table)
             b == Tallied(o, before)
             a == Tallied(o, after)
             x == Tallied(o, out)
             y == Tallied(o, in)
             l == Tallied(o, left)
             n == Tallied(o, next)
  <2>1. t \in Nat /\ b \in Nat /\ a \in Nat /\ l \in Nat
    BY <1>2, <1>5, TalliedIn DEF WordTallies
  <2>2. /\ x = IF o.word \in moved THEN b ELSE 0
        /\ y = IF o.word \in moved THEN a ELSE 0
        /\ o.word \notin moved => b = a
        /\ x <= t => l = t - x
        /\ n = l + y
        /\ x = 0 => l = t
    BY <1>3, <1>4, <1>5, <1>6
  <2> HIDE DEF t, b, a, x, y, l, n
  <2>3. CASE o.word \in moved
    <3>1. x = b /\ y = a
      BY <2>2, <2>3
    <3>2. b <= t => n = t - b + a
      BY <2>1, <2>2, <3>1
    <3>3. QED
      BY <2>3, <3>2 DEF t, b, a, n
  <2>4. CASE o.word \notin moved
    <3>1. x = 0 /\ y = 0 /\ b = a /\ l = t
      BY <2>2, <2>4
    <3>2. n = t /\ t = t - b + a
      BY <2>1, <2>2, <3>1
    <3>3. QED
      BY <3>2 DEF t, b, a, n
  <2>5. QED
    BY <2>3, <2>4
<1>8. QED
  BY <1>1, <1>6, <1>7 DEF moved, before, after

(***************************************************************************)
(* A table carried through a log.                                          *)
(***************************************************************************)
IsCarry(c, table, log) ==
    /\ c \in [0 .. Len(log) -> WordTallies]
    /\ c[0] = table
    /\ \A n \in 1 .. Len(log) : c[n] = ApplySwap(c[n - 1], log[n])
    /\ Carried(table, log) = c[Len(log)]

LEMMA CarrySteps ==
    ASSUME NEW table \in WordTallies, NEW log \in Seq(Swaps)
    PROVE  \E c : IsCarry(c, table, log)
<1> DEFINE m == Len(log)
           T == WordTallies
           Body(f) == [n \in 0 .. m |-> IF n = 0 THEN table ELSE ApplySwap(f[n - 1], log[n])]
           c == CHOOSE f : f = Body(f)
           step == [e \in T \X (1 .. m) |-> ApplySwap(e[1], log[e[2]])]
<1>1. m \in Nat /\ \A n \in 1 .. m : log[n] \in Swaps
  OBVIOUS
<1>2. Carried(table, log) = c[m]
  BY DEF Carried
<1>3. \A a \in T : \A n \in 1 .. m : ApplySwap(a, log[n]) \in T
  BY <1>1, SwapApplied
<1>4. table \in T
  OBVIOUS
<1> HIDE DEF m, T
<1>5. step \in [T \X (1 .. m) -> T]
  BY <1>3
<1>6. PICK g : IsRun(g, T, table, m, step)
  <2> HIDE DEF step
  <2>1. QED
    BY <1>1, <1>4, <1>5, Recursion
<1>7. /\ g \in [0 .. m -> T] /\ g[0] = table
      /\ \A n \in 1 .. m : g[n] = ApplySwap(g[n - 1], log[n])
  <2>1. g \in [0 .. m -> T] /\ g[0] = table /\ \A n \in 1 .. m : g[n] = step[g[n - 1], n]
    BY <1>6 DEF IsRun
  <2>2. ASSUME NEW n \in 1 .. m
        PROVE  step[g[n - 1], n] = ApplySwap(g[n - 1], log[n])
    <3>1. n - 1 \in 0 .. m
      BY <1>1
    <3>2. <<g[n - 1], n>> \in T \X (1 .. m)
      BY <2>1, <3>1
    <3>3. QED
      BY <3>2
  <2>3. QED
    BY <2>1, <2>2
<1>8. g = Body(g)
  <2>1. \A n \in 0 .. m : n = 0 \/ (n \in 1 .. m /\ n # 0)
    BY <1>1
  <2>2. \A n \in 0 .. m : g[n] = Body(g)[n]
    BY <1>7, <2>1
  <2>3. g = [n \in 0 .. m |-> g[n]]
    BY <1>7
  <2>4. Body(g) = [n \in 0 .. m |-> Body(g)[n]]
    OBVIOUS
  <2> HIDE DEF Body
  <2>5. QED
    BY <2>2, <2>3, <2>4
<1>9. c = Body(c)
  <2> HIDE DEF Body
  <2>1. QED
    BY <1>8
<1> HIDE DEF c
<1>10. /\ c[0] = table
       /\ \A n \in 1 .. m : c[n] = ApplySwap(c[n - 1], log[n])
  <2>1. \A n \in 0 .. m : Body(c)[n] = IF n = 0 THEN table ELSE ApplySwap(c[n - 1], log[n])
    OBVIOUS
  <2> HIDE DEF Body
  <2>2. 0 \in 0 .. m /\ \A n \in 1 .. m : n \in 0 .. m /\ n # 0
    BY <1>1
  <2>3. QED
    BY <1>9, <2>1, <2>2
<1> DEFINE P == { n \in 0 .. m : c[n] \in T }
<1>11. 0 \in P
  BY <1>1, <1>4, <1>10
<1>12. ASSUME NEW n \in 0 .. m - 1, n \in P
       PROVE  n + 1 \in P
  <2> DEFINE k == n + 1
  <2>1. k \in 1 .. m /\ k \in 0 .. m /\ k - 1 = n /\ c[n] \in T
    BY <1>1, <1>12
  <2> HIDE DEF k
  <2>2. c[k] \in T
    BY <1>3, <1>10, <2>1
  <2>3. QED
    BY <2>1, <2>2 DEF k
<1>13. \A n \in 0 .. m : c[n] \in T
  <2> HIDE DEF P
  <2>1. 0 .. m \subseteq P
    BY <1>1, <1>11, <1>12, UpTo
  <2>2. QED
    BY <2>1 DEF P
<1>14. c \in [0 .. m -> T]
  <2>1. c = [n \in 0 .. m |-> c[n]]
    BY <1>9 DEF Body
  <2>2. QED
    BY <1>13, <2>1
<1>15. IsCarry(c, table, log)
  BY <1>2, <1>10, <1>14 DEF IsCarry, m, T
<1>16. QED
  BY <1>15

LEMMA CarriedIn ==
    ASSUME NEW table \in WordTallies, NEW log \in Seq(Swaps)
    PROVE  /\ Carried(table, log) \in WordTallies
           /\ Len(log) = 0 => Carried(table, log) = table
<1>1. PICK c : IsCarry(c, table, log)
  BY CarrySteps
<1>2. Len(log) \in 0 .. Len(log)
  OBVIOUS
<1>3. QED
  BY <1>1, <1>2 DEF IsCarry

LEMMA CarriedAppend ==
    ASSUME NEW table \in WordTallies, NEW log \in Seq(Swaps), NEW swap \in Swaps
    PROVE  Carried(table, Append(log, swap)) = ApplySwap(Carried(table, log), swap)
<1> DEFINE more == Append(log, swap)
           m == Len(log)
           k == m + 1
<1>1. /\ m \in Nat /\ more \in Seq(Swaps) /\ Len(more) = k /\ more[k] = swap
      /\ \A n \in 1 .. m : more[n] = log[n]
  OBVIOUS
<1>2. PICK f : IsCarry(f, table, log)
  BY CarrySteps
<1>3. PICK g : IsCarry(g, table, more)
  BY <1>1, CarrySteps
<1> HIDE DEF more
<1>4. /\ f[0] = table /\ Carried(table, log) = f[m]
      /\ \A n \in 1 .. m : f[n] = ApplySwap(f[n - 1], log[n])
  BY <1>2 DEF IsCarry
<1>5. /\ g[0] = table /\ Carried(table, more) = g[k]
      /\ \A n \in 1 .. k : g[n] = ApplySwap(g[n - 1], more[n])
  BY <1>1, <1>3 DEF IsCarry
<1> DEFINE P == { n \in 0 .. m : g[n] = f[n] }
<1>6. 0 .. m \subseteq P
  <2>1. 0 \in P
    BY <1>1, <1>4, <1>5
  <2>2. ASSUME NEW n \in 0 .. m - 1, n \in P
        PROVE  n + 1 \in P
    <3> DEFINE j == n + 1
    <3>1. j \in 1 .. m /\ j \in 1 .. k /\ j \in 0 .. m /\ j - 1 = n
      BY <1>1
    <3> HIDE DEF j, k
    <3>2. g[j] = f[j]
      BY <1>1, <1>4, <1>5, <2>2, <3>1
    <3>3. QED
      BY <3>1, <3>2 DEF j
  <2> HIDE DEF P
  <2>3. QED
    BY <1>1, <2>1, <2>2, UpTo
<1>7. m \in 0 .. m /\ k \in 1 .. k /\ k - 1 = m
  BY <1>1
<1> HIDE DEF k
<1>8. g[m] = f[m]
  BY <1>6, <1>7
<1>9. QED
  BY <1>1, <1>4, <1>5, <1>7, <1>8 DEF more

(* A word none of the swaps moves keeps its count.                         *)
LEMMA CarriedUnmoved ==
    ASSUME NEW table \in WordTallies, NEW log \in Seq(Swaps), NEW o,
           \A n \in 1 .. Len(log) : o.word \notin MovedWords(log[n])
    PROVE  Tallied(o, Carried(table, log)) = Tallied(o, table)
<1> DEFINE m == Len(log)
<1>1. m \in Nat /\ \A n \in 1 .. m : log[n] \in Swaps
  OBVIOUS
<1>2. PICK c : IsCarry(c, table, log)
  BY CarrySteps
<1>3. /\ c \in [0 .. m -> WordTallies] /\ c[0] = table /\ Carried(table, log) = c[m]
      /\ \A n \in 1 .. m : c[n] = ApplySwap(c[n - 1], log[n])
  BY <1>2 DEF IsCarry
<1> DEFINE P == { n \in 0 .. m : Tallied(o, c[n]) = Tallied(o, table) }
<1>4. 0 .. m \subseteq P
  <2>1. 0 \in P
    BY <1>1, <1>3
  <2>2. ASSUME NEW n \in 0 .. m - 1, n \in P
        PROVE  n + 1 \in P
    <3> DEFINE j == n + 1
    <3>1. j \in 1 .. m /\ j \in 0 .. m /\ j - 1 = n /\ n \in 0 .. m
      BY <1>1
    <3> HIDE DEF j, m
    <3>2. c[n] \in WordTallies /\ log[j] \in Swaps /\ o.word \notin MovedWords(log[j])
      BY <1>1, <1>3, <3>1 DEF m
    <3>3. Tallied(o, ApplySwap(c[n], log[j])) = Tallied(o, c[n])
      BY <3>2, SwapApplied
    <3>4. QED
      BY <1>3, <2>2, <3>1, <3>3 DEF j
  <2> HIDE DEF P
  <2>3. QED
    BY <1>1, <2>1, <2>2, UpTo
<1>5. m \in 0 .. m
  BY <1>1
<1>6. QED
  BY <1>3, <1>4, <1>5

(***************************************************************************)
(* The merge of the books, and one of them swapped.                        *)
(***************************************************************************)
TalliesOf(held) == [i \in DOMAIN Books |-> Contributions[held[Books[i]]].tally]

LEMMA MergeIs ==
    ASSUME NEW held \in Corpora
    PROVE  /\ TalliesOf(held) \in Seq(WordTallies) /\ Len(TalliesOf(held)) = Len(Books)
           /\ MergeBooks(held) = SumOf(TalliesOf(held))
           /\ MergeBooks(held) \in WordTallies
<1>1. DOMAIN Books = 1 .. Len(Books) /\ Len(Books) \in Nat /\ \A i \in 1 .. Len(Books) : Books[i] \in Slugs
  BY BooksAre
<1>2. \A i \in 1 .. Len(Books) : Contributions[held[Books[i]]].tally \in WordTallies
  <2> SUFFICES ASSUME NEW i \in 1 .. Len(Books)
               PROVE  Contributions[held[Books[i]]].tally \in WordTallies
    OBVIOUS
  <2>1. held[Books[i]] \in Texts
    BY <1>1 DEF Corpora
  <2>2. QED
    BY <2>1, ContributionsAre DEF BookWords
<1>3. TalliesOf(held) \in Seq(WordTallies) /\ Len(TalliesOf(held)) = Len(Books)
  BY <1>1, <1>2 DEF TalliesOf
<1>4. MergeBooks(held) = SumOf(TalliesOf(held))
  BY DEF MergeBooks, TalliesOf
<1>5. QED
  BY <1>3, <1>4, SumIn DEF WordTallies

(* Books whose word tables are equal merge alike.                          *)
LEMMA MergeAlike ==
    ASSUME NEW held, NEW new,
           \A b \in Slugs : Contributions[held[b]].tally = Contributions[new[b]].tally
    PROVE  MergeBooks(held) = MergeBooks(new)
<1>1. \A i \in DOMAIN Books : Books[i] \in Slugs
  BY DEF Slugs, Range
<1>2. TalliesOf(held) = TalliesOf(new)
  BY <1>1 DEF TalliesOf
<1>3. QED
  BY <1>2 DEF MergeBooks, TalliesOf

(* A book exchanged for a text, and the corpus that has it.                *)
SwapTo(held, b, t) == [old |-> held[b], new |-> t]

Swapped(held, b, t) == [held EXCEPT ![b] = t]

LEMMA MergeSwapped ==
    ASSUME NEW held \in Corpora, NEW b \in Slugs, NEW t \in Texts
    PROVE  /\ SwapTo(held, b, t) \in Swaps /\ Swapped(held, b, t) \in Corpora
           /\ ApplySwap(MergeBooks(held), SwapTo(held, b, t)) = MergeBooks(Swapped(held, b, t))
           /\ \A o : Tallied(o, MergeBooks(Swapped(held, b, t))) + Tallied(o, Before(SwapTo(held, b, t)))
                        = Tallied(o, MergeBooks(held)) + Tallied(o, After(SwapTo(held, b, t)))
<1> DEFINE swap == SwapTo(held, b, t)
           new == Swapped(held, b, t)
           u == TalliesOf(held)
           v == TalliesOf(new)
<1>0. swap = [old |-> held[b], new |-> t] /\ new = [held EXCEPT ![b] = t]
  BY DEF SwapTo, Swapped
<1> HIDE DEF swap, new
<1>1. held[b] \in Texts /\ swap \in Swaps /\ new \in Corpora
  BY <1>0 DEF Corpora, Swaps
<1>2. PICK i \in 1 .. Len(Books) : Books[i] = b
  BY BooksAre
<1>3. /\ u \in Seq(WordTallies) /\ v \in Seq(WordTallies) /\ Len(u) = Len(Books) /\ Len(v) = Len(Books)
      /\ MergeBooks(held) = SumOf(u) /\ MergeBooks(new) = SumOf(v)
      /\ SumOf(u) \in WordTallies /\ SumOf(v) \in WordTallies
  BY <1>1, MergeIs
<1>4. DOMAIN Books = 1 .. Len(Books) /\ \A n \in 1 .. Len(Books) : Books[n] \in Slugs
  BY BooksAre
<1>5. u[i] = Before(swap) /\ v[i] = After(swap)
  <2>1. new[b] = t
    BY <1>0 DEF Corpora
  <2>2. QED
    BY <1>0, <1>2, <1>4, <2>1 DEF TalliesOf, Before, After
<1>6. \A n \in 1 .. Len(Books) : n # i => u[n] = v[n]
  <2> SUFFICES ASSUME NEW n \in 1 .. Len(Books), n # i
               PROVE  u[n] = v[n]
    OBVIOUS
  <2>1. Books[n] # b /\ Books[n] \in Slugs
    BY <1>2, <1>4, BooksAre
  <2>2. new[Books[n]] = held[Books[n]]
    BY <1>0, <2>1 DEF Corpora
  <2>3. QED
    BY <1>4, <2>2 DEF TalliesOf
<1> HIDE DEF u, v
<1>7. Exchanged(u, v, i)
  BY <1>3, <1>6 DEF Exchanged
<1>8. \A o : /\ Tallied(o, Before(swap)) <= Tallied(o, SumOf(u))
             /\ Tallied(o, SumOf(v)) = Tallied(o, SumOf(u)) - Tallied(o, Before(swap)) + Tallied(o, After(swap))
  BY <1>3, <1>5, <1>7, SumExchanged DEF WordTallies
<1> DEFINE next == ApplySwap(SumOf(u), swap)
<1>9. /\ next \in WordTallies
      /\ \A o : Tallied(o, Before(swap)) <= Tallied(o, SumOf(u)) =>
            Tallied(o, next) = Tallied(o, SumOf(u)) - Tallied(o, Before(swap)) + Tallied(o, After(swap))
  BY <1>1, <1>3, SwapApplied
<1> HIDE DEF next
<1>10. \A o : Tallied(o, next) = Tallied(o, SumOf(v))
  BY <1>8, <1>9
<1>11. next = SumOf(v)
  BY <1>3, <1>9, <1>10, BagsEqual DEF WordTallies
<1>12. ASSUME NEW o
       PROVE  Tallied(o, SumOf(v)) + Tallied(o, Before(swap)) = Tallied(o, SumOf(u)) + Tallied(o, After(swap))
  <2> DEFINE x == Tallied(o, SumOf(u))
             y == Tallied(o, SumOf(v))
             p == Tallied(o, Before(swap))
             q == Tallied(o, After(swap))
  <2>1. x \in Nat /\ y \in Nat /\ p \in Nat /\ q \in Nat
    BY <1>1, <1>3, TalliesAre, TalliedIn DEF WordTallies
  <2>2. y = x - p + q
    BY <1>8
  <2> HIDE DEF x, y, p, q
  <2>3. y + p = x + q
    BY <2>1, <2>2
  <2>4. QED
    BY <2>3 DEF x, y, p, q
<1>13. QED
  BY <1>1, <1>3, <1>11, <1>12 DEF next, swap, new

(***************************************************************************)
(* A table follows a corpus through a log: carried through it, it is the   *)
(* merge of the corpus's books, and what the log took out and put in is    *)
(* exactly what tells the two apart.                                       *)
(***************************************************************************)
Befores(log) == [i \in DOMAIN log |-> Before(log[i])]

Afters(log) == [i \in DOMAIN log |-> After(log[i])]

Balanced(x, out, y, in) ==
    \A o : Tallied(o, x) + Tallied(o, out) = Tallied(o, y) + Tallied(o, in)

Follow(table, log, held) ==
    /\ Carried(table, log) = MergeBooks(held)
    /\ Balanced(MergeBooks(held), SumOf(Befores(log)), table, SumOf(Afters(log)))

LEMMA SidesAre ==
    ASSUME NEW log \in Seq(Swaps)
    PROVE  /\ Befores(log) \in Seq(WordTallies) /\ Afters(log) \in Seq(WordTallies)
           /\ SumOf(Befores(log)) \in WordTallies /\ SumOf(Afters(log)) \in WordTallies
<1>1. DOMAIN log = 1 .. Len(log) /\ Len(log) \in Nat /\ \A i \in 1 .. Len(log) : log[i] \in Swaps
  OBVIOUS
<1>2. \A i \in 1 .. Len(log) : Before(log[i]) \in WordTallies /\ After(log[i]) \in WordTallies
  BY <1>1, TalliesAre
<1>3. Befores(log) \in Seq(WordTallies) /\ Afters(log) \in Seq(WordTallies)
  BY <1>1, <1>2 DEF Befores, Afters
<1>4. QED
  BY <1>3, SumIn DEF WordTallies

LEMMA SidesAppend ==
    ASSUME NEW log \in Seq(Swaps), NEW swap \in Swaps
    PROVE  /\ \A o : Tallied(o, SumOf(Befores(Append(log, swap))))
                        = Tallied(o, SumOf(Befores(log))) + Tallied(o, Before(swap))
           /\ \A o : Tallied(o, SumOf(Afters(Append(log, swap))))
                        = Tallied(o, SumOf(Afters(log))) + Tallied(o, After(swap))
<1>1. /\ DOMAIN log = 1 .. Len(log) /\ Len(log) \in Nat
      /\ DOMAIN Append(log, swap) = 1 .. Len(log) + 1
      /\ Append(log, swap)[Len(log) + 1] = swap
      /\ \A i \in 1 .. Len(log) : Append(log, swap)[i] = log[i]
  OBVIOUS
<1>2. Befores(log) \in Seq(WordTallies) /\ Afters(log) \in Seq(WordTallies)
      /\ SumOf(Befores(log)) \in WordTallies /\ SumOf(Afters(log)) \in WordTallies
  BY SidesAre
<1>3. Before(swap) \in WordTallies /\ After(swap) \in WordTallies
  BY TalliesAre
<1>4. /\ Len(Befores(log)) = Len(log) /\ Len(Afters(log)) = Len(log)
      /\ \A i \in 1 .. Len(log) : Befores(log)[i] = Before(log[i]) /\ Afters(log)[i] = After(log[i])
  BY <1>1 DEF Befores, Afters
<1> DEFINE k == Len(log) + 1
           p == Befores(log)
           q == Afters(log)
           more == Append(log, swap)
<1>5. \A i \in 1 .. k : i = k \/ i \in 1 .. Len(log)
  BY <1>1
<1>6. Befores(more) = [i \in 1 .. k |-> Before(more[i])] /\ Afters(more) = [i \in 1 .. k |-> After(more[i])]
  BY <1>1 DEF Befores, Afters
<1>7. /\ Append(p, Before(swap)) = [i \in 1 .. k |-> IF i = k THEN Before(swap) ELSE p[i]]
      /\ Append(q, After(swap)) = [i \in 1 .. k |-> IF i = k THEN After(swap) ELSE q[i]]
  BY <1>2, <1>3, <1>4, AppendIs
<1>8. Befores(more) = Append(p, Before(swap)) /\ Afters(more) = Append(q, After(swap))
  <2> HIDE DEF p, q, k, more
  <2>1. \A i \in 1 .. k : /\ Before(more[i]) = IF i = k THEN Before(swap) ELSE p[i]
                          /\ After(more[i]) = IF i = k THEN After(swap) ELSE q[i]
    <3>1. more[k] = swap
      BY <1>1 DEF more, k
    <3>2. ASSUME NEW i \in 1 .. k, i # k
          PROVE  Before(more[i]) = p[i] /\ After(more[i]) = q[i]
      <4>1. i \in 1 .. Len(log)
        BY <1>5, <3>2
      <4>2. more[i] = log[i]
        BY <1>1, <4>1 DEF more
      <4>3. QED
        BY <1>4, <4>1, <4>2 DEF p, q
    <3>3. QED
      BY <3>1, <3>2
  <2>2. QED
    BY <1>6, <1>7, <2>1
<1>9. /\ SumOf(Append(p, Before(swap))) = SumOf(p) (+) Before(swap)
      /\ SumOf(Append(q, After(swap))) = SumOf(q) (+) After(swap)
  BY <1>2, <1>3, SumAppend DEF WordTallies
<1> DEFINE x == SumOf(p)
           y == SumOf(q)
           b == Before(swap)
           a == After(swap)
<1>10. /\ x \in BagsOver(Occurrences) /\ y \in BagsOver(Occurrences)
       /\ b \in BagsOver(Occurrences) /\ a \in BagsOver(Occurrences)
  BY <1>2, <1>3 DEF WordTallies
<1> HIDE DEF x, y, b, a
<1>11. \A o : Tallied(o, x (+) b) = Tallied(o, x) + Tallied(o, b)
  BY <1>10, BagSum
<1>12. \A o : Tallied(o, y (+) a) = Tallied(o, y) + Tallied(o, a)
  BY <1>10, BagSum
<1>13. QED
  BY <1>8, <1>9, <1>11, <1>12 DEF x, y, b, a

(* One more swap, of the text a book has for another.                      *)
LEMMA FollowOne ==
    ASSUME NEW table \in WordTallies, NEW log \in Seq(Swaps), NEW held \in Corpora,
           NEW b \in Slugs, NEW t \in Texts, Follow(table, log, held)
    PROVE  Follow(table, Append(log, SwapTo(held, b, t)), Swapped(held, b, t))
<1> DEFINE swap == SwapTo(held, b, t)
           new == Swapped(held, b, t)
<1>1. /\ swap \in Swaps /\ new \in Corpora
      /\ ApplySwap(MergeBooks(held), swap) = MergeBooks(new)
      /\ \A o : Tallied(o, MergeBooks(new)) + Tallied(o, Before(swap))
                   = Tallied(o, MergeBooks(held)) + Tallied(o, After(swap))
  BY MergeSwapped
<1> HIDE DEF swap, new
<1>2. Carried(table, Append(log, swap)) = MergeBooks(new)
  BY <1>1, CarriedAppend DEF Follow
<1>3. ASSUME NEW o
      PROVE  Tallied(o, MergeBooks(new)) + Tallied(o, SumOf(Befores(Append(log, swap))))
                = Tallied(o, table) + Tallied(o, SumOf(Afters(Append(log, swap))))
  <2> DEFINE m == Tallied(o, MergeBooks(held))
             n == Tallied(o, MergeBooks(new))
             x == Tallied(o, SumOf(Befores(log)))
             y == Tallied(o, SumOf(Afters(log)))
             p == Tallied(o, Before(swap))
             q == Tallied(o, After(swap))
             z == Tallied(o, table)
             xx == Tallied(o, SumOf(Befores(Append(log, swap))))
             yy == Tallied(o, SumOf(Afters(Append(log, swap))))
  <2>1. /\ MergeBooks(held) \in WordTallies /\ MergeBooks(new) \in WordTallies
        /\ SumOf(Befores(log)) \in WordTallies /\ SumOf(Afters(log)) \in WordTallies
        /\ Before(swap) \in WordTallies /\ After(swap) \in WordTallies
    BY <1>1, MergeIs, SidesAre, TalliesAre
  <2>2. /\ m \in Nat /\ n \in Nat /\ x \in Nat /\ y \in Nat /\ p \in Nat /\ q \in Nat /\ z \in Nat
    BY <2>1, TalliedIn DEF WordTallies
  <2>3. xx = x + p /\ yy = y + q
    BY <1>1, SidesAppend
  <2>4. n + p = m + q
    BY <1>1
  <2>5. m + x = z + y
    BY DEF Follow, Balanced
  <2> HIDE DEF m, n, x, y, p, q, z, xx, yy
  <2>6. n + xx = z + yy
    BY <2>2, <2>3, <2>4, <2>5
  <2>7. QED
    BY <2>6 DEF n, xx, z, yy
<1>4. QED
  BY <1>2, <1>3 DEF Follow, Balanced, swap, new

(* A swap for each of some books.                                          *)
LEMMA FollowSwaps ==
    ASSUME NEW table \in WordTallies, NEW log \in Seq(Swaps),
           NEW held \in Corpora, NEW new \in Corpora, NEW S \in SUBSET Slugs,
           \A b \in Slugs \ S : Contributions[held[b]].tally = Contributions[new[b]].tally,
           Follow(table, log, held)
    PROVE  Follow(table, log \o SwapsOf(S, held, new), new)
<1> DEFINE q == Selected(Books, S)
           m == Len(q)
           sw == SwapsOf(S, held, new)
           H(n) == [b \in Slugs |-> IF \E i \in 1 .. n : q[i] = b THEN new[b] ELSE held[b]]
           L(n) == log \o [i \in 1 .. n |-> sw[i]]
<1>1. /\ m \in Nat /\ m = Cardinality(S) /\ q \in Seq(S)
      /\ \A b \in S : \E i \in 1 .. m : q[i] = b
      /\ \A i, j \in 1 .. m : q[i] = q[j] => i = j
  BY MovedInOrder DEF Lists
<1>2. /\ sw \in Seq(Swaps) /\ Len(sw) = m
      /\ \A i \in 1 .. m : sw[i] = [old |-> held[q[i]], new |-> new[q[i]]]
  BY <1>1, SwapsOfIn
<1>3. \A i \in 1 .. m : q[i] \in S /\ q[i] \in Slugs /\ sw[i] \in Swaps
  BY <1>1, <1>2
<1>4. \A b \in Slugs : held[b] \in Texts /\ new[b] \in Texts
  BY DEF Corpora
<1>5. \A n \in 0 .. m : H(n) \in Corpora
  BY <1>4 DEF Corpora
<1> HIDE DEF q, m, sw
<1>6. \A n \in 0 .. m : L(n) \in Seq(Swaps)
  <2> SUFFICES ASSUME NEW n \in 0 .. m
               PROVE  L(n) \in Seq(Swaps)
    OBVIOUS
  <2>1. n \in Nat /\ \A i \in 1 .. n : sw[i] \in Swaps
    BY <1>1, <1>3
  <2>2. [i \in 1 .. n |-> sw[i]] \in Seq(Swaps)
    BY <2>1
  <2>3. QED
    BY <2>2
<1> DEFINE P == { n \in 0 .. m : Follow(table, L(n), H(n)) }
<1>7. 0 \in P
  <2>1. H(0) = held
    <3>1. \A b \in Slugs : ~ \E i \in 1 .. 0 : q[i] = b
      OBVIOUS
    <3>2. held = [b \in Slugs |-> held[b]]
      BY DEF Corpora
    <3>3. QED
      BY <3>1, <3>2
  <2>2. L(0) = log
    <3>1. [i \in 1 .. 0 |-> sw[i]] = << >>
      OBVIOUS
    <3>2. log \o << >> = log
      OBVIOUS
    <3>3. QED
      BY <3>1, <3>2
  <2> HIDE DEF H, L
  <2>3. QED
    BY <1>1, <2>1, <2>2
<1>8. ASSUME NEW n \in 0 .. m - 1, n \in P
      PROVE  n + 1 \in P
  <2> DEFINE k == n + 1
             b == q[k]
             t == new[b]
  <2>1. /\ k \in 1 .. m /\ k \in 0 .. m /\ k \in Nat /\ n \in Nat /\ n \in 0 .. m
        /\ \A i \in 1 .. k : i = k \/ (i \in 1 .. n /\ i \in 1 .. m /\ i # k)
        /\ \A i \in 1 .. n : i \in 1 .. k /\ i \in 1 .. m /\ i # k
    BY <1>1
  <2>2. L(k) = Append(L(n), sw[k])
    <3>1. [i \in 1 .. k |-> sw[i]] = Append([i \in 1 .. n |-> sw[i]], sw[k])
      <4>1. [i \in 1 .. n |-> sw[i]] \in Seq(Swaps) /\ Len([i \in 1 .. n |-> sw[i]]) = n
        BY <1>3, <2>1
      <4>2. \A i \in 1 .. n + 1 : i = n + 1 \/ i \in 1 .. n
        BY <2>1
      <4>3. QED
        BY <4>1, <4>2
    <3>2. [i \in 1 .. n |-> sw[i]] \in Seq(Swaps) /\ sw[k] \in Swaps
      BY <1>3, <2>1
    <3> DEFINE r == [i \in 1 .. n |-> sw[i]]
    <3> HIDE DEF r
    <3>3. log \o Append(r, sw[k]) = Append(log \o r, sw[k])
      BY <3>2 DEF r
    <3>4. QED
      BY <3>1, <3>3 DEF r
  <2>3. b \in Slugs /\ t \in Texts /\ sw[k] = [old |-> held[b], new |-> t] /\ sw[k] \in Swaps
    BY <1>2, <1>3, <1>4, <2>1
  <2>4. ~ \E i \in 1 .. n : q[i] = b
    BY <1>1, <2>1
  <2>5. H(n)[b] = held[b]
    BY <2>3, <2>4
  <2>6. H(k) = [H(n) EXCEPT ![b] = t]
    <3> HIDE DEF k
    <3>1. \A c \in Slugs : (\E i \in 1 .. k : q[i] = c) <=> c = b \/ \E i \in 1 .. n : q[i] = c
      BY <2>1
    <3>2. \A c \in Slugs : c # b => ((\E i \in 1 .. k : q[i] = c) <=> \E i \in 1 .. n : q[i] = c)
      BY <3>1
    <3>3. \E i \in 1 .. k : q[i] = b
      BY <2>3, <3>1
    <3> HIDE DEF b
    <3>4. QED
      BY <2>3, <3>2, <3>3
  <2>7. Follow(table, L(n), H(n)) /\ L(n) \in Seq(Swaps) /\ H(n) \in Corpora
    BY <1>5, <1>6, <1>8, <2>1
  <2> HIDE DEF H, L, b, t, k
  <2> DEFINE h == H(n)
  <2>8. sw[k] = SwapTo(h, b, t) /\ H(k) = Swapped(h, b, t)
    BY <2>3, <2>5, <2>6 DEF SwapTo, Swapped
  <2> HIDE DEF h
  <2>9. Follow(table, Append(L(n), sw[k]), H(k))
    <3>1. h \in Corpora /\ Follow(table, L(n), h) /\ L(n) \in Seq(Swaps)
      BY <2>7 DEF h
    <3>2. QED
      BY <2>3, <2>8, <3>1, FollowOne
  <2>10. QED
    BY <2>1, <2>2, <2>9 DEF k
<1>9. m \in P
  <2> HIDE DEF P
  <2>1. 0 .. m \subseteq P
    BY <1>1, <1>7, <1>8, UpTo
  <2>2. QED
    BY <1>1, <2>1
<1>10. L(m) = log \o sw
  <2>1. sw = [i \in 1 .. m |-> sw[i]]
    BY <1>2
  <2>2. QED
    BY <2>1
<1>11. MergeBooks(H(m)) = MergeBooks(new)
  <2>1. \A b \in Slugs : Contributions[H(m)[b]].tally = Contributions[new[b]].tally
    <3> SUFFICES ASSUME NEW b \in Slugs
                 PROVE  Contributions[H(m)[b]].tally = Contributions[new[b]].tally
      OBVIOUS
    <3>1. CASE b \in S
      <4>1. H(m)[b] = new[b]
        BY <1>1, <3>1
      <4> HIDE DEF H
      <4>2. QED
        BY <4>1
    <3>2. CASE b \notin S
      <4>1. ~ \E i \in 1 .. m : q[i] = b
        BY <1>3, <3>2
      <4>2. H(m)[b] = held[b]
        BY <4>1
      <4> HIDE DEF H
      <4>3. QED
        BY <3>2, <4>2
    <3>3. QED
      BY <3>1, <3>2
  <2> HIDE DEF H
  <2>2. QED
    BY <2>1, MergeAlike
<1>12. Follow(table, L(m), H(m))
  BY <1>9
<1> HIDE DEF H, L
<1>13. QED
  BY <1>10, <1>11, <1>12 DEF Follow, sw

(***************************************************************************)
(* Counts, and the panel patched by what a log moved.                      *)
(***************************************************************************)
Slice(table, S) == [o \in S \cap DOMAIN table |-> table[o]]

LEMMA SliceIs ==
    ASSUME NEW table \in WordTallies, NEW S
    PROVE  /\ Slice(table, S) \in WordTallies /\ DOMAIN Slice(table, S) = S \cap DOMAIN table
           /\ \A o : Tallied(o, Slice(table, S)) = IF o \in S THEN Tallied(o, table) ELSE 0
           /\ Count(table, S) = BagCardinality(Slice(table, S))
           /\ Count(table, S) \in Nat
           /\ Count(table, S) = 0 <=> S \cap DOMAIN table = {}
<1> DEFINE D == S \cap DOMAIN table
<1>1. D \in SUBSET DOMAIN table /\ table \in BagsOver(Occurrences)
  BY DEF WordTallies
<1>2. \A o : o \in D <=> o \in S /\ o \in DOMAIN table
  OBVIOUS
<1>3. Slice(table, S) = [o \in D |-> table[o]]
  BY DEF Slice
<1> HIDE DEF D
<1>4. /\ [o \in D |-> table[o]] \in BagsOver(Occurrences)
      /\ \A e : Tallied(e, [o \in D |-> table[o]]) = IF e \in D THEN Tallied(e, table) ELSE 0
  BY <1>1, BagPart
<1>5. Slice(table, S) \in BagsOver(Occurrences) /\ DOMAIN Slice(table, S) = D
  BY <1>3, <1>4
<1>6. \A o : o \notin DOMAIN table => Tallied(o, table) = 0
  BY DEF Tallied
<1>7. \A o : Tallied(o, Slice(table, S)) = IF o \in S THEN Tallied(o, table) ELSE 0
  BY <1>2, <1>3, <1>4, <1>6
<1>8. Count(table, S) = BagCardinality(Slice(table, S))
  BY DEF Count, CopiesOf, Slice
<1>9. BagCardinality(Slice(table, S)) \in Nat /\ (BagCardinality(Slice(table, S)) = 0 <=> DOMAIN Slice(table, S) = {})
  BY <1>5, CardinalityIs
<1>10. QED
  BY <1>5, <1>7, <1>8, <1>9 DEF WordTallies, D

(* Of S in one table there is what there is of U in the other.             *)
Alike(a, S, b, U) ==
    \A o : (IF o \in S THEN Tallied(o, a) ELSE 0) = (IF o \in U THEN Tallied(o, b) ELSE 0)

LEMMA CountAlike ==
    ASSUME NEW a \in WordTallies, NEW b \in WordTallies, NEW S, NEW U, Alike(a, S, b, U)
    PROVE  Count(a, S) = Count(b, U)
<1>1. /\ Slice(a, S) \in WordTallies /\ Slice(b, U) \in WordTallies
      /\ Count(a, S) = BagCardinality(Slice(a, S)) /\ Count(b, U) = BagCardinality(Slice(b, U))
      /\ \A o : Tallied(o, Slice(a, S)) = IF o \in S THEN Tallied(o, a) ELSE 0
      /\ \A o : Tallied(o, Slice(b, U)) = IF o \in U THEN Tallied(o, b) ELSE 0
  BY SliceIs
<1>2. \A o : Tallied(o, Slice(a, S)) = Tallied(o, Slice(b, U))
  BY <1>1 DEF Alike
<1>3. Slice(a, S) = Slice(b, U)
  BY <1>1, <1>2, BagsEqual DEF WordTallies
<1>4. QED
  BY <1>1, <1>3

ClassCount(table, ck) == Count(table, OfClass(table, ck))

LEMMA ClassCountIs ==
    ASSUME NEW table \in WordTallies, NEW ck
    PROVE  /\ ClassCount(table, ck) \in Nat
           /\ IsClass(ck) => (ck \in ClassesOf(table) <=> ClassCount(table, ck) # 0)
           /\ ck \in ClassesOf(table) => IsClass(ck)
<1>1. OfClass(table, ck) \cap DOMAIN table = OfClass(table, ck)
  BY DEF OfClass
<1>2. /\ ClassCount(table, ck) \in Nat
      /\ ClassCount(table, ck) = 0 <=> OfClass(table, ck) = {}
  BY <1>1, SliceIs DEF ClassCount
<1>3. ck \in { o.pos : o \in DOMAIN table } <=> OfClass(table, ck) # {}
  BY DEF OfClass
<1>4. QED
  BY <1>2, <1>3 DEF ClassesOf

LEMMA ClassCountAdds ==
    ASSUME NEW a \in WordTallies, NEW b \in WordTallies, NEW ck
    PROVE  ClassCount(a (+) b, ck) = ClassCount(a, ck) + ClassCount(b, ck)
<1> DEFINE c == a (+) b
           x == Slice(a, OfClass(a, ck))
           y == Slice(b, OfClass(b, ck))
           z == Slice(c, OfClass(c, ck))
<1>1. a \in BagsOver(Occurrences) /\ b \in BagsOver(Occurrences)
  BY DEF WordTallies
<1>2. c \in BagsOver(Occurrences) /\ \A o : Tallied(o, c) = Tallied(o, a) + Tallied(o, b)
  BY <1>1, BagSum
<1>3. c \in WordTallies
  BY <1>2 DEF WordTallies
<1> HIDE DEF c
<1>4. /\ x \in BagsOver(Occurrences) /\ \A o : Tallied(o, x) = IF o \in OfClass(a, ck) THEN Tallied(o, a) ELSE 0
      /\ ClassCount(a, ck) = BagCardinality(x)
  BY SliceIs DEF WordTallies, ClassCount
<1>5. /\ y \in BagsOver(Occurrences) /\ \A o : Tallied(o, y) = IF o \in OfClass(b, ck) THEN Tallied(o, b) ELSE 0
      /\ ClassCount(b, ck) = BagCardinality(y)
  BY SliceIs DEF WordTallies, ClassCount
<1>6. /\ z \in BagsOver(Occurrences) /\ \A o : Tallied(o, z) = IF o \in OfClass(c, ck) THEN Tallied(o, c) ELSE 0
      /\ ClassCount(c, ck) = BagCardinality(z)
  BY <1>3, SliceIs DEF WordTallies, ClassCount
<1> HIDE DEF x, y, z
<1>7. \A o : /\ o \notin DOMAIN a => Tallied(o, a) = 0
             /\ o \notin DOMAIN b => Tallied(o, b) = 0
             /\ o \notin DOMAIN c => Tallied(o, c) = 0
             /\ Tallied(o, a) \in Nat /\ Tallied(o, b) \in Nat
  BY <1>1, TalliedIn DEF Tallied
<1>8. \A o : /\ o \in OfClass(a, ck) <=> o \in DOMAIN a /\ o.pos = ck
             /\ o \in OfClass(b, ck) <=> o \in DOMAIN b /\ o.pos = ck
             /\ o \in OfClass(c, ck) <=> o \in DOMAIN c /\ o.pos = ck
  BY DEF OfClass
<1>9. /\ x (+) y \in BagsOver(Occurrences) /\ \A o : Tallied(o, x (+) y) = Tallied(o, x) + Tallied(o, y)
      /\ BagCardinality(x (+) y) = BagCardinality(x) + BagCardinality(y)
  <2>1. x \in BagsOver(Occurrences) /\ y \in BagsOver(Occurrences)
    BY <1>4, <1>5
  <2>2. x (+) y \in BagsOver(Occurrences) /\ \A o : Tallied(o, x (+) y) = Tallied(o, x) + Tallied(o, y)
    BY <2>1, BagSum
  <2>3. QED
    BY <2>1, <2>2, CardinalityAdds
<1>10. \A o : Tallied(o, z) = Tallied(o, x (+) y)
  <2> SUFFICES ASSUME NEW o
               PROVE  Tallied(o, z) = Tallied(o, x (+) y)
    OBVIOUS
  <2>1. CASE o.pos = ck
    <3>1. Tallied(o, x) = Tallied(o, a) /\ Tallied(o, y) = Tallied(o, b) /\ Tallied(o, z) = Tallied(o, c)
      BY <1>4, <1>5, <1>6, <1>7, <1>8, <2>1
    <3>2. QED
      BY <1>2, <1>9, <3>1
  <2>2. CASE o.pos # ck
    <3>1. Tallied(o, x) = 0 /\ Tallied(o, y) = 0 /\ Tallied(o, z) = 0
      BY <1>4, <1>5, <1>6, <1>8, <2>2
    <3>2. Tallied(o, x (+) y) = 0 + 0
      BY <1>9, <3>1
    <3>3. QED
      BY <3>1, <3>2
  <2>3. QED
    BY <2>1, <2>2
<1>11. z = x (+) y
  BY <1>6, <1>9, <1>10, BagsEqual
<1>12. QED
  BY <1>4, <1>5, <1>6, <1>9, <1>11 DEF c

Jurors(table) == { w \in WordsOf(table) : AllTotal(table, w) >= JurorMin }

LEMMA PanelIs ==
    ASSUME NEW table
    PROVE  Panel(table) =
              [base |-> [w \in Jurors(table) |-> AllTotal(table, w)],
               after |-> [e \in ClassesOf(table) \X Jurors(table) |-> AfterTotal(table, e[1], e[2])],
               events |-> [ck \in ClassesOf(table) |-> ClassCount(table, ck)]]
BY DEF Panel, Jurors, ClassCount

LEMMA JurorsAre ==
    ASSUME NEW table \in WordTallies, NEW w
    PROVE  w \in Jurors(table) <=> AllTotal(table, w) >= JurorMin
<1>1. OfWord(table, w) \cap DOMAIN table = OfWord(table, w)
  BY DEF OfWord
<1>2. AllTotal(table, w) \in Nat /\ (AllTotal(table, w) = 0 <=> OfWord(table, w) = {})
  BY <1>1, SliceIs DEF AllTotal
<1>3. w \in WordsOf(table) <=> OfWord(table, w) # {}
  BY DEF WordsOf, OfWord
<1>4. JurorMin \in Nat /\ JurorMin # 0
  BY CasingAssumption
<1>5. AllTotal(table, w) >= JurorMin => AllTotal(table, w) # 0
  BY <1>2, <1>4
<1>6. QED
  BY <1>2, <1>3, <1>5 DEF Jurors

(* Words outside a set count the same in two tables.                       *)
SameOutside(moved, a, b) == \A o : o.word \notin moved => Tallied(o, a) = Tallied(o, b)

LEMMA UnmovedTotals ==
    ASSUME NEW a \in WordTallies, NEW b \in WordTallies, NEW moved, SameOutside(moved, a, b),
           NEW w, w \notin moved
    PROVE  /\ AllTotal(a, w) = AllTotal(b, w)
           /\ \A ck : AfterTotal(a, ck, w) = AfterTotal(b, ck, w)
<1>1. \A o : /\ o \in OfWord(a, w) <=> o \in DOMAIN a /\ o.word = w
             /\ o \in OfWord(b, w) <=> o \in DOMAIN b /\ o.word = w
  BY DEF OfWord
<1>2. \A o : /\ o \notin DOMAIN a => Tallied(o, a) = 0
             /\ o \notin DOMAIN b => Tallied(o, b) = 0
  BY DEF Tallied
<1>3. \A o : o.word = w => Tallied(o, a) = Tallied(o, b)
  BY DEF SameOutside
<1>4. Alike(a, OfWord(a, w), b, OfWord(b, w))
  BY <1>1, <1>2, <1>3 DEF Alike
<1>5. ASSUME NEW ck
      PROVE  AfterTotal(a, ck, w) = AfterTotal(b, ck, w)
  <2> DEFINE S == OfWord(a, w) \cap OfClass(a, ck)
             U == OfWord(b, w) \cap OfClass(b, ck)
  <2>1. \A o : /\ o \in S <=> o \in DOMAIN a /\ o.word = w /\ o.pos = ck
               /\ o \in U <=> o \in DOMAIN b /\ o.word = w /\ o.pos = ck
    BY DEF OfWord, OfClass
  <2> HIDE DEF S, U
  <2>2. Alike(a, S, b, U)
    BY <1>2, <1>3, <2>1 DEF Alike
  <2>3. Count(a, S) = Count(b, U)
    BY <2>2, CountAlike
  <2>4. QED
    BY <2>3 DEF AfterTotal, S, U
<1>6. QED
  BY <1>4, <1>5, CountAlike DEF AllTotal

(* What a log adds to a class.                                             *)
LEMMA DeltaIs ==
    ASSUME NEW log \in Seq(Swaps)
    PROVE  /\ DOMAIN ClassDelta(log) =
                 ClassesOf(SumOf(Befores(log))) \cup ClassesOf(SumOf(Afters(log)))
           /\ \A ck \in DOMAIN ClassDelta(log) :
                 ClassDelta(log)[ck] =
                    ClassCount(SumOf(Afters(log)), ck) - ClassCount(SumOf(Befores(log)), ck)
BY DEF ClassDelta, Befores, Afters, ClassCount

LEMMA ClassMoves ==
    ASSUME NEW a \in WordTallies, NEW b \in WordTallies, NEW log \in Seq(Swaps),
           Balanced(b, SumOf(Befores(log)), a, SumOf(Afters(log))), NEW ck, IsClass(ck)
    PROVE  ClassCount(b, ck) =
              ClassCount(a, ck) + (IF ck \in DOMAIN ClassDelta(log) THEN ClassDelta(log)[ck] ELSE 0)
<1> DEFINE out == SumOf(Befores(log))
           in == SumOf(Afters(log))
           x == ClassCount(a, ck)
           y == ClassCount(b, ck)
           p == ClassCount(out, ck)
           q == ClassCount(in, ck)
           d == IF ck \in DOMAIN ClassDelta(log) THEN ClassDelta(log)[ck] ELSE 0
<1>1. out \in WordTallies /\ in \in WordTallies
  BY SidesAre
<1>2. Balanced(b, out, a, in)
  OBVIOUS
<1>3. /\ x \in Nat /\ y \in Nat /\ p \in Nat /\ q \in Nat
      /\ p # 0 <=> ck \in ClassesOf(out)
      /\ q # 0 <=> ck \in ClassesOf(in)
  BY <1>1, ClassCountIs
<1>4. /\ ck \in ClassesOf(out) \cup ClassesOf(in) => d = q - p
      /\ ck \notin ClassesOf(out) \cup ClassesOf(in) => d = 0
  BY DeltaIs
<1> HIDE DEF out, in
<1>5. b (+) out = a (+) in
  <2>1. /\ a \in BagsOver(Occurrences) /\ b \in BagsOver(Occurrences)
        /\ out \in BagsOver(Occurrences) /\ in \in BagsOver(Occurrences)
    BY <1>1 DEF WordTallies
  <2>2. b (+) out \in BagsOver(Occurrences) /\ \A o : Tallied(o, b (+) out) = Tallied(o, b) + Tallied(o, out)
    BY <2>1, BagSum
  <2>3. a (+) in \in BagsOver(Occurrences) /\ \A o : Tallied(o, a (+) in) = Tallied(o, a) + Tallied(o, in)
    BY <2>1, BagSum
  <2>4. \A o : Tallied(o, b (+) out) = Tallied(o, a (+) in)
    BY <1>2, <2>2, <2>3 DEF Balanced
  <2>5. QED
    BY <2>2, <2>3, <2>4, BagsEqual
<1>6. ClassCount(b (+) out, ck) = y + p /\ ClassCount(a (+) in, ck) = x + q
  BY <1>1, ClassCountAdds
<1>7. y + p = x + q
  BY <1>5, <1>6
<1> HIDE DEF x, y, p, q, d
<1>8. d = q - p
  BY <1>3, <1>4
<1>9. y = x + d
  BY <1>3, <1>7, <1>8
<1>10. QED
  BY <1>9 DEF x, y, d

LEMMA PatchExact ==
    ASSUME NEW a \in WordTallies, NEW b \in WordTallies, NEW log \in Seq(Swaps), NEW moved,
           SameOutside(moved, a, b),
           Balanced(b, SumOf(Befores(log)), a, SumOf(Afters(log))),
           Patchable(Panel(a), b, moved, ClassDelta(log))
    PROVE  PatchedPanel(Panel(a), b, moved, ClassDelta(log)) = Panel(b)
<1> DEFINE old == Panel(a)
           new == Panel(b)
           delta == ClassDelta(log)
           d(ck) == IF ck \in DOMAIN delta THEN delta[ck] ELSE 0
<1>1. /\ DOMAIN old.base = Jurors(a) /\ DOMAIN old.after = ClassesOf(a) \X Jurors(a)
      /\ DOMAIN old.events = ClassesOf(a)
      /\ \A w \in Jurors(a) : old.base[w] = AllTotal(a, w)
      /\ \A e \in ClassesOf(a) \X Jurors(a) : old.after[e] = AfterTotal(a, e[1], e[2])
      /\ \A ck \in ClassesOf(a) : old.events[ck] = ClassCount(a, ck)
  BY PanelIs
<1>2. new = [base |-> [w \in Jurors(b) |-> AllTotal(b, w)],
             after |-> [e \in ClassesOf(b) \X Jurors(b) |-> AfterTotal(b, e[1], e[2])],
             events |-> [ck \in ClassesOf(b) |-> ClassCount(b, ck)]]
  BY PanelIs
<1> HIDE DEF old, new, delta
<1>3. /\ \A ck \in DOMAIN delta : IF ck \in ClassesOf(a) THEN old.events[ck] + delta[ck] # 0
                                  ELSE delta[ck] = 0
      /\ \A w \in moved : w \in Jurors(a) <=> AllTotal(b, w) >= JurorMin
  BY <1>1 DEF Patchable, old, delta
<1>4. \A w : w \notin moved => /\ AllTotal(a, w) = AllTotal(b, w)
                               /\ \A ck : AfterTotal(a, ck, w) = AfterTotal(b, ck, w)
  BY UnmovedTotals
<1>5. Jurors(a) = Jurors(b)
  <2>1. ASSUME NEW w
        PROVE  w \in Jurors(a) <=> w \in Jurors(b)
    <3>1. CASE w \in moved
      BY <1>3, <3>1, JurorsAre
    <3>2. CASE w \notin moved
      BY <1>4, <3>2, JurorsAre
    <3>3. QED
      BY <3>1, <3>2
  <2>2. QED
    BY <2>1
<1>6. \A ck : IsClass(ck) => ClassCount(b, ck) = ClassCount(a, ck) + d(ck)
  BY ClassMoves DEF delta
<1>7. \A ck : /\ ClassCount(a, ck) \in Nat /\ ClassCount(b, ck) \in Nat
              /\ IsClass(ck) => (ck \in ClassesOf(a) <=> ClassCount(a, ck) # 0)
              /\ IsClass(ck) => (ck \in ClassesOf(b) <=> ClassCount(b, ck) # 0)
              /\ ck \in ClassesOf(a) => IsClass(ck)
              /\ ck \in ClassesOf(b) => IsClass(ck)
  BY ClassCountIs
<1>8. ClassesOf(a) = ClassesOf(b)
  <2>1. ASSUME NEW ck, IsClass(ck)
        PROVE  ck \in ClassesOf(a) <=> ck \in ClassesOf(b)
    <3> DEFINE x == ClassCount(a, ck)
               y == ClassCount(b, ck)
               z == d(ck)
    <3>1. y = x + z /\ x \in Nat /\ y \in Nat /\ (ck \in ClassesOf(a) <=> x # 0) /\ (ck \in ClassesOf(b) <=> y # 0)
      BY <1>6, <1>7, <2>1
    <3>2. ck \in DOMAIN delta => (IF ck \in ClassesOf(a) THEN x + z # 0 ELSE z = 0)
      BY <1>1, <1>3
    <3>3. ck \notin DOMAIN delta => z = 0
      OBVIOUS
    <3> HIDE DEF x, y, z
    <3>4. CASE ck \in ClassesOf(a)
      BY <3>1, <3>2, <3>3, <3>4
    <3>5. CASE ck \notin ClassesOf(a)
      <4>1. z = 0 /\ x = 0
        BY <3>1, <3>2, <3>3, <3>5
      <4>2. y = 0
        BY <3>1, <4>1
      <4>3. QED
        BY <3>1, <3>5, <4>2
    <3>6. QED
      BY <3>4, <3>5
  <2>2. QED
    BY <1>7, <2>1
<1> DEFINE base == [w \in DOMAIN old.base |-> IF w \in moved THEN AllTotal(b, w) ELSE old.base[w]]
           after == [e \in DOMAIN old.after |->
                        IF e[2] \in moved THEN AfterTotal(b, e[1], e[2]) ELSE old.after[e]]
           events == [ck \in DOMAIN old.events |-> old.events[ck] + d(ck)]
<1>9. PatchedPanel(old, b, moved, delta) = [base |-> base, after |-> after, events |-> events]
  BY DEF PatchedPanel
<1>10. base = [w \in Jurors(b) |-> AllTotal(b, w)]
  BY <1>1, <1>4, <1>5
<1>11. after = [e \in ClassesOf(b) \X Jurors(b) |-> AfterTotal(b, e[1], e[2])]
  <2>1. \A e \in ClassesOf(b) \X Jurors(b) :
           (IF e[2] \in moved THEN AfterTotal(b, e[1], e[2]) ELSE old.after[e]) = AfterTotal(b, e[1], e[2])
    BY <1>1, <1>4, <1>5, <1>8
  <2>2. QED
    BY <1>1, <1>5, <1>8, <2>1
<1>12. events = [ck \in ClassesOf(b) |-> ClassCount(b, ck)]
  <2>1. \A ck \in ClassesOf(b) : old.events[ck] + d(ck) = ClassCount(b, ck)
    BY <1>1, <1>6, <1>7, <1>8
  <2> HIDE DEF d
  <2>2. QED
    BY <1>1, <1>8, <2>1
<1> HIDE DEF base, after, events
<1>13. QED
  BY <1>2, <1>9, <1>10, <1>11, <1>12 DEF old, new, delta

(***************************************************************************)
(* The inductive invariant.                                                *)
(***************************************************************************)
Identities == {NoIdentity} \cup { [knobs |-> cfg.knobs, emit |-> cfg.emit] : cfg \in Configs }

Pending ==
    [all : BOOLEAN, chapters : SUBSET (Slugs \X Nat), judged_under : Identities, candidate : Identities]

(* The aggregate holds no book the corpus has not, its first generation is *)
(* the empty one, and the log reaches back to the model.                   *)
Kept ==
    /\ corpus \in Corpora /\ config \in Configs /\ books \in Corpora
    /\ swaps \in Seq(Swaps) /\ generation \in Nat
    /\ Held(books) \subseteq Held(corpus)
    /\ generation = 0 => Held(books) = {}
    /\ generation + Cardinality(MovedBooks) <= MaxGeneration + Len(Books)
    /\ pending \in Pending
    /\ patch.under \in BOOLEAN
    /\ ~ NoneRetained => /\ retained.generation \in Nat
                         /\ retained.generation + Len(swaps) = generation

(* What a chapter's findings must be to stand under the retained verdicts. *)
Under(findings, g, emit) ==
    /\ g \in DOMAIN findings
    /\ KeysOf(Chapter(books, g)) \subseteq DOMAIN retained.verdicts
    /\ findings[g] = Findings(Chapter(books, g), retained.verdicts, emit)

Standing ==
    NoneRetained \/ pending.all
        \/ \A g \in GroupsOf(books) \ pending.chapters : Under(partition, g, pending.judged_under.emit)

Dropped ==
    NoneRetained =>
        pending.all \/ \A g \in (DOMAIN partition \cap GroupsOf(books)) \ pending.chapters :
                           partition[g] = {}

(* An attempt under way either has nothing to emit, or has walked what it  *)
(* owes under verdicts that are all of the retained model's.               *)
Cleared ==
    /\ NoneRetained /\ patch = EmptyPatch
    /\ config.emit = {} \/ (books = corpus /\ ~ AnyCased(corpus))

VerdictOf(k) == Outcomes(retained.table, retained.panel, config.knobs, {k})[k]

Driven ==
    /\ ~ NoneRetained /\ books = corpus /\ Len(swaps) = 0
    /\ config.emit # {} /\ pending.candidate = Identity
    /\ patch.all = RebuildAll(pending) /\ patch.dirty = pending.chapters
    /\ DOMAIN patch.findings = Dirty(pending)
    /\ \A g \in Dirty(pending) : Under(patch.findings, g, config.emit)
    /\ \A k \in DOMAIN retained.verdicts : retained.verdicts[k] = VerdictOf(k)

UnderWay == patch.under => Cleared \/ Driven

(* The retained table follows the cache's books through the log, and its   *)
(* panel is its own.                                                       *)
Followed ==
    NoneRetained \/ ( /\ retained.table \in WordTallies
                      /\ Follow(retained.table, swaps, books)
                      /\ retained.panel = Panel(retained.table) )

CasingInv == Kept /\ Followed /\ Standing /\ Dropped /\ UnderWay

LEMMA GroupsAre ==
    ASSUME NEW held \in Corpora
    PROVE  /\ GroupsOf(held) \in SUBSET (Slugs \X Nat)
           /\ \A g \in Slugs \X Nat : g \in GroupsOf(held) <=> g[2] \in DOMAIN Reductions[held[g[1]]]
           /\ \A g \in GroupsOf(held) : /\ g[1] \in Held(held)
                                        /\ Chapter(held, g) \in ReducedChapters
<1>1. \A b \in Slugs : held[b] \in Texts
  BY DEF Corpora
<1>2. \A b \in Slugs : DOMAIN Reductions[held[b]] \subseteq Nat
  BY <1>1, ReductionsAre
<1>3. GroupsOf(held) \in SUBSET (Slugs \X Nat)
  BY <1>2 DEF GroupsOf
<1>4. \A g \in Slugs \X Nat : g \in GroupsOf(held) <=> g[2] \in DOMAIN Reductions[held[g[1]]]
  <2> SUFFICES ASSUME NEW g \in Slugs \X Nat
               PROVE  g \in GroupsOf(held) <=> g[2] \in DOMAIN Reductions[held[g[1]]]
    OBVIOUS
  <2>1. ASSUME g \in GroupsOf(held)
        PROVE  g[2] \in DOMAIN Reductions[held[g[1]]]
    BY <2>1 DEF GroupsOf
  <2>2. ASSUME g[2] \in DOMAIN Reductions[held[g[1]]]
        PROVE  g \in GroupsOf(held)
    <3>1. g[1] \in Slugs /\ g \in {g[1]} \X DOMAIN Reductions[held[g[1]]]
      BY <2>2
    <3>2. QED
      BY <3>1 DEF GroupsOf
  <2>3. QED
    BY <2>1, <2>2
<1>5. ASSUME NEW g \in GroupsOf(held)
      PROVE  g[1] \in Held(held) /\ Chapter(held, g) \in ReducedChapters
  <2>1. g \in Slugs \X Nat /\ g[1] \in Slugs /\ g[2] \in DOMAIN Reductions[held[g[1]]]
    BY <1>3, <1>4, <1>5
  <2>2. held[g[1]] \in Texts
    BY <1>1, <2>1
  <2>3. Reductions[held[g[1]]] # << >>
    BY <2>1
  <2>4. held[g[1]] # NoText
    BY <2>2, <2>3, ReductionsAre
  <2>5. Chapter(held, g) \in ReducedChapters
    BY <2>1, <2>2, ReductionsAre DEF Chapter
  <2>6. QED
    BY <2>1, <2>4, <2>5 DEF Held
<1>6. QED
  BY <1>3, <1>4, <1>5

(* A corpus without a cased word start has nothing to report.              *)
LEMMA UncasedSites ==
    ASSUME NEW held \in Corpora, ~ AnyCased(held), NEW g \in GroupsOf(held)
    PROVE  Chapter(held, g).sites = << >>
<1>1. g \in Slugs \X Nat /\ g[1] \in Slugs /\ g[2] \in DOMAIN Reductions[held[g[1]]]
  BY GroupsAre
<1>2. held[g[1]] \in Texts
  BY <1>1 DEF Corpora
<1>3. Contributions[held[g[1]]].starts \in Nat /\ ~ (Contributions[held[g[1]]].starts > 0)
  BY <1>1, <1>2, ContributionsAre DEF AnyCased, BookWords
<1>4. Contributions[held[g[1]]].starts = 0
  BY <1>3
<1>5. QED
  BY <1>1, <1>2, <1>4, ContributionsAre DEF Chapter

LEMMA CasedHeld ==
    ASSUME NEW held \in Corpora, AnyCased(held)
    PROVE  Held(held) # {}
<1>1. PICK b \in Slugs : Contributions[held[b]].starts > 0
  BY DEF AnyCased
<1>2. held[b] \in Texts
  BY DEF Corpora
<1>3. ASSUME held[b] = NoText
      PROVE  FALSE
  <2>1. Contributions[held[b]].starts = 0
    BY <1>2, <1>3, ContributionsAre DEF NoWords
  <2>2. QED
    BY <1>1, <2>1
<1>4. QED
  BY <1>3 DEF Held

LEMMA MovedAre ==
    ASSUME Kept
    PROVE  /\ MovedBooks \in SUBSET Slugs
           /\ Cardinality(MovedBooks) \in Nat
           /\ MovedSites \in SUBSET (Slugs \X Nat)
           /\ Identity \in Identities
           /\ Len(SwapsOf(MovedBooks, books, corpus)) = Cardinality(MovedBooks)
           /\ SwapsOf(MovedBooks, books, corpus) \in Seq(Swaps)
<1>1. MovedBooks \in SUBSET Slugs
  BY DEF MovedBooks, Held
<1>2. corpus \in Corpora /\ books \in Corpora /\ config \in Configs
  BY DEF Kept
<1>3. MovedSites \in SUBSET (Slugs \X Nat)
  BY <1>2, GroupsAre DEF MovedSites
<1>4. Identity \in Identities
  BY <1>2 DEF Identity, Identities
<1>5. QED
  BY <1>1, <1>2, <1>3, <1>4, SomeBooks, SwapsOfIn

LEMMA OwedSitesAre ==
    ASSUME Kept
    PROVE  /\ OwedSites \in Pending
           /\ OwedSites.judged_under = pending.judged_under
           /\ OwedSites.candidate = pending.candidate
           /\ \/ OwedSites.all
              \/ /\ Held(corpus) \subseteq Held(books) /\ ~ pending.all
                 /\ OwedSites.chapters = pending.chapters \cup MovedSites
<1>1. pending \in Pending /\ MovedSites \in SUBSET (Slugs \X Nat)
  BY MovedAre DEF Kept
<1>2. OweAll(pending) \in Pending /\ OweAll(pending).all
      /\ OweAll(pending).judged_under = pending.judged_under
      /\ OweAll(pending).candidate = pending.candidate
  BY <1>1 DEF Pending, OweAll
<1>3. CASE ~ (Held(corpus) \subseteq Held(books))
  BY <1>2, <1>3 DEF OwedSites
<1>4. CASE Held(corpus) \subseteq Held(books)
  <2>1. OwedSites = IF pending.all THEN pending
                    ELSE [pending EXCEPT !.chapters = pending.chapters \cup MovedSites]
    BY <1>4 DEF OwedSites, OweChapters
  <2>2. QED
    BY <1>1, <1>4, <2>1 DEF Pending
<1>5. QED
  BY <1>3, <1>4

(***************************************************************************)
(* Kept is preserved.                                                      *)
(***************************************************************************)
LEMMA ApartBooks ==
    ASSUME NEW A \in SUBSET Slugs, NEW B \in SUBSET Slugs, A \cap B = {}
    PROVE  Cardinality(A) + Cardinality(B) <= Len(Books)
<1>1. /\ IsFiniteSet(A) /\ IsFiniteSet(B) /\ Cardinality(A) \in Nat /\ Cardinality(B) \in Nat
      /\ Cardinality(A \cup B) <= Len(Books)
  BY SomeBooks
<1>2. Cardinality(A \cap B) = 0
  BY FS_EmptySet
<1>3. Cardinality(A \cup B) = Cardinality(A) + Cardinality(B) - Cardinality(A \cap B)
  BY <1>1, FS_Union
<1>4. QED
  BY <1>1, <1>2, <1>3

(* The books that leave with an edit, and what the aggregate keeps.        *)
Leavers(held) == Held(books) \ Held(held)

Remaining(held) == [b \in Slugs |-> IF b \in Leavers(held) THEN NoText ELSE books[b]]

LEMMA RemainingAre ==
    ASSUME Kept, NEW held \in Corpora
    PROVE  /\ Leavers(held) \in SUBSET Slugs /\ Remaining(held) \in Corpora
           /\ Held(Remaining(held)) = Held(books) \ Leavers(held)
           /\ Held(Remaining(held)) \subseteq Held(held)
<1>1. Leavers(held) \in SUBSET Slugs
  BY DEF Leavers, Held
<1>2. Remaining(held) \in Corpora
  <2>1. \A b \in Slugs : books[b] \in Texts
    BY DEF Kept, Corpora
  <2>2. NoText \in Texts
    BY CasingAssumption
  <2>3. QED
    BY <2>1, <2>2 DEF Remaining, Corpora
<1>3. Held(Remaining(held)) = Held(books) \ Leavers(held)
  BY <1>1 DEF Held, Remaining
<1>4. QED
  BY <1>1, <1>2, <1>3 DEF Leavers

LEMMA KeptEdit ==
    ASSUME Kept, NEW held \in Corpora, Edit(held)
    PROVE  Kept'
<1> DEFINE removed == Leavers(held)
           new == Remaining(held)
           n == Cardinality(removed)
<1>1. /\ corpus' = held /\ books' = new /\ generation' = generation + n
      /\ swaps' = swaps \o SwapsOf(removed, books, new)
      /\ generation < MaxGeneration
      /\ config' = config /\ pending' = pending /\ retained' = retained /\ patch' = patch
  BY DEF Edit, Logged, Leavers, Remaining
<1>2. /\ removed \in SUBSET Slugs /\ new \in Corpora /\ Held(new) = Held(books) \ removed
      /\ Held(new) \subseteq Held(held)
  BY RemainingAre
<1>3. /\ swaps \in Seq(Swaps) /\ generation \in Nat /\ books \in Corpora /\ Len(swaps) \in Nat
      /\ MaxGeneration \in Nat /\ Len(Books) \in Nat
  BY CasingAssumption, BooksAre DEF Kept
<1>4. n \in Nat
  BY <1>2, SomeBooks
<1>5. SwapsOf(removed, books, new) \in Seq(Swaps) /\ Len(SwapsOf(removed, books, new)) = n
  BY <1>2, <1>3, SwapsOfIn
<1>6. swaps' \in Seq(Swaps) /\ Len(swaps') = Len(swaps) + n
  BY <1>1, <1>3, <1>5
<1>7. MovedBooks' \in SUBSET Slugs /\ removed \cap MovedBooks' = {}
  BY <1>1 DEF MovedBooks, Leavers, Held
<1>8. n + Cardinality(MovedBooks') <= Len(Books) /\ Cardinality(MovedBooks') \in Nat
  BY <1>2, <1>7, ApartBooks, SomeBooks
<1> HIDE DEF n, removed, new
<1>9. generation' + Cardinality(MovedBooks') <= MaxGeneration + Len(Books)
  BY <1>1, <1>3, <1>4, <1>8
<1>10. generation' \in Nat /\ (generation' = 0 => Held(new) = {})
  <2>1. generation' = 0 => generation = 0
    BY <1>1, <1>3, <1>4
  <2>2. QED
    BY <1>1, <1>2, <1>3, <1>4, <2>1 DEF Kept
<1>11. ~ NoneRetained' => retained'.generation \in Nat /\ retained'.generation + Len(swaps') = generation'
  <2>1. ~ NoneRetained => retained.generation \in Nat /\ retained.generation + Len(swaps) = generation
    BY DEF Kept
  <2> DEFINE r == retained.generation
             l == Len(swaps)
             total == Len(swaps')
  <2>2. retained'.generation = r /\ NoneRetained' = NoneRetained
    BY <1>1 DEF NoneRetained
  <2>3. l \in Nat /\ total = l + n /\ (~ NoneRetained => r \in Nat /\ r + l = generation)
    BY <1>3, <1>6, <2>1
  <2> HIDE DEF r, l, total
  <2>4. ~ NoneRetained => r \in Nat /\ r + total = generation'
    <3>1. generation \in Nat /\ generation' = generation + n
      BY <1>1, <1>3
    <3>2. ASSUME ~ NoneRetained
          PROVE  r \in Nat /\ r + total = generation'
      <4>1. r \in Nat /\ r + l = generation /\ l \in Nat /\ total = l + n
        BY <2>3, <3>2
      <4>2. QED
        BY <1>4, <3>1, <4>1
    <3>3. QED
      BY <3>2
  <2>5. QED
    BY <2>2, <2>4 DEF r, total
<1>12. config' \in Configs /\ pending' \in Pending /\ patch'.under \in BOOLEAN
  BY <1>1 DEF Kept
<1>13. QED
  BY <1>1, <1>2, <1>6, <1>9, <1>10, <1>11, <1>12 DEF Kept

LEMMA KeptStill ==
    ASSUME Kept, config' \in Configs, UNCHANGED <<corpus, aggregate, retained>>,
           pending' \in Pending, patch'.under \in BOOLEAN
    PROVE  Kept'
<1>1. /\ corpus' = corpus /\ books' = books /\ swaps' = swaps /\ generation' = generation
      /\ retained' = retained
  BY DEF aggregate
<1>2. MovedBooks' = MovedBooks /\ NoneRetained' = NoneRetained
  BY <1>1 DEF MovedBooks, NoneRetained
<1>3. QED
  BY <1>1, <1>2 DEF Kept

LEMMA NothingOwedIn ==
    /\ NothingOwed \in Pending /\ OweAll(NothingOwed) \in Pending
    /\ \A c \in Identities : [NothingOwed EXCEPT !.judged_under = c] \in Pending
<1>1. NoIdentity \in Identities
  BY DEF Identities
<1>2. QED
  BY <1>1 DEF NothingOwed, Pending, OweAll

LEMMA PromoteIn ==
    ASSUME NEW p \in Pending
    PROVE  Promote(p) \in Pending
BY NothingOwedIn DEF Promote, Pending

LEMMA EmptyPatchIs ==
    /\ EmptyPatch.under /\ EmptyPatch.all /\ EmptyPatch.dirty = {}
    /\ EmptyPatch.findings = NoFindings /\ DOMAIN NoFindings = {}
    /\ EmptyPatch.under \in BOOLEAN
    /\ NoPatch.under = FALSE
BY DEF EmptyPatch, NoPatch, NoFindings

(* The drive's end of the aggregate: it stands for the corpus.             *)
LEMMA KeptDriven ==
    ASSUME Kept, corpus' = corpus, config' \in Configs, books' = corpus,
           generation' = generation + Cardinality(MovedBooks), swaps' \in Seq(Swaps),
           pending' \in Pending, patch'.under \in BOOLEAN,
           ~ NoneRetained' => /\ retained'.generation \in Nat
                              /\ retained'.generation + Len(swaps') = generation'
    PROVE  Kept'
<1> DEFINE n == Cardinality(MovedBooks)
<1>1. /\ n \in Nat /\ generation \in Nat /\ corpus \in Corpora
      /\ generation + n <= MaxGeneration + Len(Books)
  BY MovedAre DEF Kept
<1>2. MovedBooks' = {}
  BY DEF MovedBooks, Held, SameWords
<1>3. Cardinality(MovedBooks') = 0
  BY <1>2, FS_EmptySet
<1>4. generation' = 0 => Held(corpus) = {}
  <2>1. SUFFICES ASSUME generation' = 0
                 PROVE  Held(corpus) = {}
    OBVIOUS
  <2>2. generation = 0 /\ n = 0
    BY <1>1, <2>1
  <2>3. MovedBooks = {}
    <3>1. IsFiniteSet(MovedBooks)
      BY MovedAre, SomeBooks
    <3>2. QED
      BY <2>2, <3>1, FS_EmptySet
  <2>4. Held(books) = {}
    BY <2>2 DEF Kept
  <2>5. QED
    BY <2>3, <2>4 DEF MovedBooks, Held
<1>5. generation' \in Nat /\ generation' + Cardinality(MovedBooks') <= MaxGeneration + Len(Books)
  <2>1. MaxGeneration \in Nat /\ Len(Books) \in Nat
    BY CasingAssumption, BooksAre
  <2>2. generation' = generation + n
    OBVIOUS
  <2> HIDE DEF n
  <2>3. QED
    BY <1>1, <1>3, <2>1, <2>2
<1>6. QED
  BY <1>1, <1>4, <1>5 DEF Kept

LEMMA KeptInactive ==
    ASSUME Kept, DriveInactive
    PROVE  Kept'
<1> DEFINE none == [b \in Slugs |-> NoText]
<1>1. /\ corpus' = corpus /\ config' = config /\ books' = none /\ swaps' = << >> /\ generation' = 0
      /\ pending' = OweAll(NothingOwed) /\ retained' = NoModel /\ patch' = EmptyPatch
  BY DEF DriveInactive
<1>2. none \in Corpora /\ Held(none) = {}
  BY CasingAssumption DEF Corpora, Held
<1>3. MovedBooks' \in SUBSET Slugs
  BY DEF MovedBooks, Held
<1>4. Cardinality(MovedBooks') \in Nat /\ Cardinality(MovedBooks') <= Len(Books)
  BY <1>3, SomeBooks
<1>5. generation' \in Nat /\ generation' + Cardinality(MovedBooks') <= MaxGeneration + Len(Books)
  BY <1>1, <1>4, CasingAssumption, BooksAre
<1>6. NoneRetained'
  BY <1>1 DEF NoneRetained
<1>7. swaps' \in Seq(Swaps)
  BY <1>1
<1>8. pending' \in Pending /\ patch'.under \in BOOLEAN
  BY <1>1, NothingOwedIn, EmptyPatchIs
<1> HIDE DEF none
<1>9. QED
  BY <1>1, <1>2, <1>5, <1>6, <1>7, <1>8 DEF Kept

LEMMA LogAre ==
    ASSUME Kept
    PROVE  LET log == swaps \o SwapsOf(MovedBooks, books, corpus)
           IN  /\ log \in Seq(Swaps) /\ Len(swaps) \in Nat
               /\ Len(log) = Len(swaps) + Cardinality(MovedBooks)
<1>1. swaps \in Seq(Swaps)
  BY DEF Kept
<1>2. QED
  BY <1>1, MovedAre

LEMMA KeptUncased ==
    ASSUME Kept, DriveUncased
    PROVE  Kept'
<1>1. /\ corpus' = corpus /\ config' = config /\ books' = corpus
      /\ swaps' = swaps \o SwapsOf(MovedBooks, books, corpus)
      /\ generation' = generation + Cardinality(MovedBooks)
      /\ pending' = OwedSites /\ retained' = NoModel /\ patch' = EmptyPatch
  BY DEF DriveUncased, Logged
<1>2. swaps' \in Seq(Swaps)
  BY <1>1, LogAre
<1>3. NoneRetained'
  BY <1>1 DEF NoneRetained
<1>4. config' \in Configs
  BY <1>1 DEF Kept
<1>5. pending' \in Pending /\ patch'.under \in BOOLEAN
  BY <1>1, OwedSitesAre, EmptyPatchIs
<1>6. QED
  BY <1>1, <1>2, <1>3, <1>4, <1>5, KeptDriven

(***************************************************************************)
(* A drive, with its steps by name.                                        *)
(***************************************************************************)
Now == generation + Cardinality(MovedBooks)

Log == swaps \o SwapsOf(MovedBooks, books, corpus)

Model == Current(Now, Log)

Fresh == Refreshed(Model)

OwedNow == Owed(Fresh)

Walk == Pass(corpus, Dirty(OwedNow), Model, config)

LEMMA DriveIs ==
    ASSUME Drive
    PROVE  /\ Idle /\ config.emit # {} /\ AnyCased(corpus)
           /\ corpus' = corpus /\ config' = config /\ partition' = partition /\ books' = corpus
           /\ generation' = Now
           /\ swaps' = IF Reusable(Now) THEN swaps ELSE << >>
           /\ pending' = [OwedNow EXCEPT !.candidate = Identity]
           /\ retained' = [generation |-> Now, knobs |-> config.knobs,
                           table |-> Model.table, panel |-> Model.panel,
                           verdicts |-> Absorbed(Fresh, Walk.memo, RebuildAll(OwedNow))]
           /\ patch' = [under |-> TRUE, all |-> RebuildAll(OwedNow), dirty |-> OwedNow.chapters,
                        findings |-> Walk.findings]
<1>1. /\ Idle /\ config.emit # {} /\ AnyCased(corpus)
      /\ corpus' = corpus /\ config' = config /\ partition' = partition /\ books' = corpus
      /\ generation' = Now
      /\ swaps' = IF Reusable(Now) THEN swaps ELSE << >>
  BY DEF Drive, Now
<1>2. \E m \in {Model} : \E fresh \in {Refreshed(m)} : \E owed \in {Owed(fresh)} :
      \E pass \in {Pass(corpus, Dirty(owed), m, config)} :
          /\ pending' = [owed EXCEPT !.candidate = Identity]
          /\ retained' = [generation |-> Now, knobs |-> config.knobs,
                          table |-> m.table, panel |-> m.panel,
                          verdicts |-> Absorbed(fresh, pass.memo, RebuildAll(owed))]
          /\ patch' = [under |-> TRUE, all |-> RebuildAll(owed), dirty |-> owed.chapters,
                       findings |-> pass.findings]
  BY DEF Drive, Now, Log, Model
<1>3. QED
  BY <1>1, <1>2 DEF Fresh, OwedNow, Walk

LEMMA OwedNowAre ==
    ASSUME Kept
    PROVE  /\ OwedNow \in Pending
           /\ OwedNow.judged_under = pending.judged_under
           /\ \/ OwedNow.all
              \/ /\ Stands(Fresh) /\ Held(corpus) \subseteq Held(books) /\ ~ pending.all
                 /\ OwedNow.chapters = pending.chapters \cup MovedSites
<1>1. OwedNow = IF Stands(Fresh) THEN OwedSites ELSE OweAll(OwedSites)
  BY DEF OwedNow, Owed
<1>2. OwedSites \in Pending /\ OwedSites.judged_under = pending.judged_under
  BY OwedSitesAre
<1>3. OweAll(OwedSites) \in Pending /\ OweAll(OwedSites).all
      /\ OweAll(OwedSites).judged_under = pending.judged_under
  BY <1>2 DEF Pending, OweAll
<1>4. QED
  BY <1>1, <1>2, <1>3, OwedSitesAre

LEMMA KeptDrive ==
    ASSUME Kept, Drive
    PROVE  Kept' /\ generation' > 0 /\ ~ NoneRetained' /\ Len(swaps') = 0
<1>1. /\ corpus' = corpus /\ config' = config /\ books' = corpus /\ generation' = Now
      /\ swaps' = IF Reusable(Now) THEN swaps ELSE << >>
      /\ pending' = [OwedNow EXCEPT !.candidate = Identity]
      /\ retained'.generation = Now /\ patch'.under = TRUE
      /\ AnyCased(corpus)
  BY DriveIs
<1> DEFINE n == Cardinality(MovedBooks)
           l == Len(swaps)
           r == retained.generation
<1>2. swaps \in Seq(Swaps) /\ l \in Nat /\ n \in Nat /\ generation \in Nat
  BY MovedAre DEF Kept
<1>3. Now \in Nat /\ Now = generation + n
  BY <1>2 DEF Now
<1>4. Reusable(Now) => l = 0
  <2>1. SUFFICES ASSUME Reusable(Now)
                 PROVE  l = 0
    OBVIOUS
  <2>2. r = Now /\ r + l = generation
    BY <2>1 DEF Reusable, Kept
  <2> HIDE DEF r, l, n
  <2>3. QED
    BY <1>2, <1>3, <2>2
<1>5. swaps' \in Seq(Swaps) /\ Len(swaps') = 0
  BY <1>1, <1>2, <1>4
<1>6. retained'.generation + Len(swaps') = generation' /\ retained'.generation \in Nat
  BY <1>1, <1>3, <1>5
<1>7. pending' \in Pending
  BY <1>1, OwedNowAre, MovedAre DEF Pending
<1>8. config' \in Configs /\ corpus \in Corpora
  BY <1>1 DEF Kept
<1>9. Kept'
  BY <1>1, <1>5, <1>6, <1>7, <1>8, KeptDriven DEF Now
<1>10. generation' # 0
  <2>1. generation' = 0 => Held(books') = {}
    BY <1>9 DEF Kept
  <2>2. QED
    BY <1>1, <1>8, <2>1, CasedHeld
<1>11. generation' > 0
  BY <1>1, <1>3, <1>10
<1>12. NoModel.generation = 0
  BY DEF NoModel
<1>13. ~ NoneRetained'
  BY <1>1, <1>10, <1>12 DEF NoneRetained
<1>14. QED
  BY <1>5, <1>9, <1>11, <1>13

LEMMA KeptNext ==
    ASSUME Kept, [Next]_vars
    PROVE  Kept'
<1>1. ASSUME NEW held \in Corpora, Edit(held)
      PROVE  Kept'
  BY <1>1, KeptEdit
<1>2. ASSUME NEW cfg \in Configs, Configure(cfg)
      PROVE  Kept'
  <2>1. config' \in Configs /\ UNCHANGED <<corpus, aggregate, retained>> /\ pending' = pending /\ patch' = patch
    BY <1>2 DEF Configure
  <2>2. QED
    BY <2>1, KeptStill DEF Kept
<1>3. CASE DriveInactive
  BY <1>3, KeptInactive
<1>4. CASE DriveUncased
  BY <1>4, KeptUncased
<1>5. CASE Drive
  BY <1>5, KeptDrive
<1>6. CASE Commit
  <2>1. config' = config /\ UNCHANGED <<corpus, aggregate, retained>> /\ pending' = Promote(pending) /\ patch' = NoPatch
    BY <1>6 DEF Commit
  <2>2. config' \in Configs /\ pending' \in Pending /\ patch'.under \in BOOLEAN
    BY <2>1, PromoteIn, EmptyPatchIs DEF Kept
  <2>3. QED
    BY <2>1, <2>2, KeptStill
<1>7. CASE Fail
  <2>1. config' = config /\ UNCHANGED <<corpus, aggregate, retained>> /\ pending' = pending /\ patch' = NoPatch
    BY <1>7 DEF Fail
  <2>2. config' \in Configs /\ pending' \in Pending /\ patch'.under \in BOOLEAN
    BY <2>1, EmptyPatchIs DEF Kept
  <2>3. QED
    BY <2>1, <2>2, KeptStill
<1>8. CASE UNCHANGED vars
  <2>1. config' = config /\ UNCHANGED <<corpus, aggregate, retained>> /\ pending' = pending /\ patch' = patch
    BY <1>8 DEF vars
  <2>2. QED
    BY <2>1, KeptStill DEF Kept
<1>9. QED
  BY <1>1, <1>2, <1>3, <1>4, <1>5, <1>6, <1>7, <1>8 DEF Next

(***************************************************************************)
(* Findings and verdicts.                                                  *)
(***************************************************************************)
LEMMA FindingsAgree ==
    ASSUME NEW r, NEW u, NEW v, NEW emit, \A k \in KeysOf(r) : u[k] = v[k]
    PROVE  Findings(r, u, emit) = Findings(r, v, emit)
<1>1. \A s \in Range(r.sites) : u[<<s.word, s.pos>>] = v[<<s.word, s.pos>>]
  BY DEF KeysOf
<1> DEFINE E(w) == { e \in emit \X Range(r.sites) : w[<<e[2].word, e[2].pos>>][e[1]] # Silent }
<1>2. E(u) = E(v)
  BY <1>1
<1>3. \A e \in E(u) : Reported(u, e[1], e[2]) = Reported(v, e[1], e[2])
  BY <1>1 DEF Reported
<1>4. Findings(r, u, emit) = { Reported(u, e[1], e[2]) : e \in E(u) }
  BY DEF Findings
<1>5. Findings(r, v, emit) = { Reported(v, e[1], e[2]) : e \in E(v) }
  BY DEF Findings
<1> HIDE DEF E
<1>6. QED
  BY <1>2, <1>3, <1>4, <1>5

LEMMA FindingsRules ==
    ASSUME NEW r, NEW v, NEW emit
    PROVE  \A f \in Findings(r, v, emit) : f.rule \in emit
<1>1. ASSUME NEW f \in Findings(r, v, emit)
      PROVE  f.rule \in emit
  <2>1. PICK e \in emit \X Range(r.sites) : f = Reported(v, e[1], e[2])
    BY DEF Findings
  <2>2. f.rule = e[1]
    BY <2>1 DEF Reported
  <2>3. QED
    BY <2>2
<1>2. QED
  BY <1>1

LEMMA FindingsNone ==
    ASSUME NEW r, NEW v, NEW emit, emit = {} \/ r.sites = << >>
    PROVE  Findings(r, v, emit) = {}
<1>1. r.sites = << >> => Range(r.sites) = {}
  BY DEF Range
<1>2. emit \X Range(r.sites) = {}
  BY <1>1
<1>3. QED
  BY <1>2 DEF Findings

(* A verdict is of its key and the model alone.                            *)
LEMMA OutcomesAt ==
    ASSUME NEW table, NEW panel, NEW knobs, NEW keys
    PROVE  /\ DOMAIN Outcomes(table, panel, knobs, keys) = keys
           /\ \A k \in keys : Outcomes(table, panel, knobs, keys)[k] = Outcomes(table, panel, knobs, {k})[k]
BY DEF Outcomes, OutcomesUnder

(* What a drive leaves as the model's verdicts: those of the new model, on *)
(* the keys it walked and, unless it walked them all, on those it had.     *)
ModelVerdict(k) == Outcomes(Model.table, Model.panel, config.knobs, {k})[k]

WalkedKeys == UNION { KeysOf(Chapter(corpus, g)) : g \in Dirty(OwedNow) }

LEMMA WalkIs ==
    /\ DOMAIN Walk.memo = WalkedKeys /\ DOMAIN Fresh = DOMAIN retained.verdicts
    /\ \A k \in DOMAIN Fresh : Fresh[k] = ModelVerdict(k)
    /\ \A k \in DOMAIN Walk.memo : Walk.memo[k] = ModelVerdict(k)
    /\ DOMAIN Walk.findings = Dirty(OwedNow)
    /\ \A g \in Dirty(OwedNow) : Walk.findings[g] = Findings(Chapter(corpus, g), Walk.memo, config.emit)
<1>1. Walk.memo = Outcomes(Model.table, Model.panel, config.knobs, WalkedKeys)
  BY DEF Walk, Pass, WalkedKeys
<1>2. Walk.findings = [g \in Dirty(OwedNow) |-> Findings(Chapter(corpus, g), Walk.memo, config.emit)]
  BY DEF Walk, Pass
<1>3. Fresh = Outcomes(Model.table, Model.panel, config.knobs, DOMAIN retained.verdicts)
  BY DEF Fresh, Refreshed
<1>4. /\ DOMAIN Walk.memo = WalkedKeys
      /\ \A k \in WalkedKeys : Walk.memo[k] = ModelVerdict(k)
  BY <1>1, OutcomesAt DEF ModelVerdict
<1>5. /\ DOMAIN Fresh = DOMAIN retained.verdicts
      /\ \A k \in DOMAIN retained.verdicts : Fresh[k] = ModelVerdict(k)
  BY <1>3, OutcomesAt DEF ModelVerdict
<1>6. QED
  BY <1>2, <1>4, <1>5

LEMMA AbsorbedAre ==
    ASSUME NEW v, v = Absorbed(Fresh, Walk.memo, RebuildAll(OwedNow))
    PROVE  /\ WalkedKeys \subseteq DOMAIN v
           /\ ~ RebuildAll(OwedNow) => DOMAIN retained.verdicts \subseteq DOMAIN v
           /\ \A k \in DOMAIN v : v[k] = ModelVerdict(k)
<1>1. CASE RebuildAll(OwedNow)
  BY <1>1, WalkIs DEF Absorbed
<1>2. CASE ~ RebuildAll(OwedNow)
  <2>1. v = [k \in DOMAIN Walk.memo \cup DOMAIN Fresh |->
                IF k \in DOMAIN Walk.memo THEN Walk.memo[k] ELSE Fresh[k]]
    BY <1>2 DEF Absorbed
  <2>2. QED
    BY <2>1, WalkIs
<1>3. QED
  BY <1>1, <1>2

(***************************************************************************)
(* What the partition says stands.                                         *)
(***************************************************************************)
LEMMA RemainingGroups ==
    ASSUME Kept, NEW held \in Corpora, NEW g \in GroupsOf(Remaining(held))
    PROVE  /\ g \in GroupsOf(books) /\ g[1] \notin Leavers(held)
           /\ Chapter(Remaining(held), g) = Chapter(books, g)
<1> DEFINE new == Remaining(held)
<1>1. new \in Corpora /\ Held(new) = Held(books) \ Leavers(held) /\ books \in Corpora
  BY RemainingAre DEF Kept
<1>2. g \in Slugs \X Nat /\ g[1] \in Slugs /\ g[2] \in DOMAIN Reductions[new[g[1]]] /\ g[1] \in Held(new)
  BY <1>1, GroupsAre
<1>3. g[1] \notin Leavers(held)
  BY <1>1, <1>2
<1>4. new[g[1]] = books[g[1]]
  BY <1>2, <1>3 DEF Remaining
<1> HIDE DEF new
<1>5. g \in GroupsOf(books)
  BY <1>1, <1>2, <1>4, GroupsAre
<1>6. Chapter(new, g) = Chapter(books, g)
  BY <1>4 DEF Chapter
<1>7. QED
  BY <1>3, <1>5, <1>6 DEF new

LEMMA EditIs ==
    ASSUME NEW held \in Corpora, Edit(held)
    PROVE  /\ books' = Remaining(held) /\ pending' = pending /\ retained' = retained
           /\ patch' = patch /\ Idle
           /\ partition' = [g \in { g \in DOMAIN partition : g[1] \notin Leavers(held) } |-> partition[g]]
BY DEF Edit, Logged, Leavers, Remaining

LEMMA StandingEdit ==
    ASSUME Kept, Standing, NEW held \in Corpora, Edit(held)
    PROVE  Standing'
<1>1. NoneRetained' = NoneRetained /\ pending' = pending /\ retained' = retained
  BY EditIs DEF NoneRetained
<1>2. ASSUME ~ NoneRetained, ~ pending.all, NEW g \in GroupsOf(books') \ pending.chapters
      PROVE  Under(partition, g, pending.judged_under.emit)'
  <2>1. g \in GroupsOf(books) /\ g[1] \notin Leavers(held) /\ Chapter(books', g) = Chapter(books, g)
    BY EditIs, RemainingGroups
  <2>2. Under(partition, g, pending.judged_under.emit)
    BY <1>2, <2>1 DEF Standing
  <2>3. g \in DOMAIN partition' /\ partition'[g] = partition[g]
    <3>1. g \in DOMAIN partition
      BY <2>2 DEF Under
    <3>2. QED
      BY <2>1, <3>1, EditIs
  <2>4. QED
    BY <1>1, <2>1, <2>2, <2>3 DEF Under
<1>3. QED
  BY <1>1, <1>2 DEF Standing

LEMMA DroppedEdit ==
    ASSUME Kept, Dropped, NEW held \in Corpora, Edit(held)
    PROVE  Dropped'
<1>1. NoneRetained' = NoneRetained /\ pending' = pending
  BY EditIs DEF NoneRetained
<1>2. ASSUME NoneRetained, ~ pending.all,
             NEW g \in (DOMAIN partition' \cap GroupsOf(books')) \ pending.chapters
      PROVE  partition'[g] = {}
  <2>1. g \in GroupsOf(books)
    BY EditIs, RemainingGroups
  <2>2. g \in DOMAIN partition /\ partition'[g] = partition[g]
    BY EditIs
  <2>3. QED
    BY <1>2, <2>1, <2>2 DEF Dropped
<1>3. QED
  BY <1>1, <1>2 DEF Dropped

(* A chapter of the corpus that is not among the moved ones is the cache's. *)
LEMMA UnmovedGroups ==
    ASSUME NEW g \in GroupsOf(corpus) \ MovedSites
    PROVE  g \in GroupsOf(books) /\ Chapter(books, g) = Chapter(corpus, g)
BY DEF MovedSites

LEMMA DroppedUncased ==
    ASSUME Kept, Standing, Dropped, DriveUncased
    PROVE  Dropped'
<1>1. /\ books' = corpus /\ pending' = OwedSites /\ partition' = partition /\ ~ AnyCased(corpus)
  BY DEF DriveUncased, Logged
<1>2. ASSUME ~ OwedSites.all, NEW g \in (DOMAIN partition \cap GroupsOf(corpus)) \ OwedSites.chapters
      PROVE  partition[g] = {}
  <2>1. ~ pending.all /\ OwedSites.chapters = pending.chapters \cup MovedSites
    BY <1>2, OwedSitesAre
  <2>2. /\ g \in DOMAIN partition /\ g \in GroupsOf(corpus) /\ g \notin pending.chapters
        /\ g \in GroupsOf(books) /\ Chapter(books, g) = Chapter(corpus, g)
    BY <1>2, <2>1, UnmovedGroups
  <2>3. CASE NoneRetained
    BY <2>1, <2>2, <2>3 DEF Dropped
  <2>4. CASE ~ NoneRetained
    <3>1. Under(partition, g, pending.judged_under.emit)
      BY <2>1, <2>2, <2>4 DEF Standing
    <3>2. Chapter(books, g).sites = << >>
      BY <1>1, <2>2, UncasedSites DEF Kept
    <3>3. QED
      BY <3>1, <3>2, FindingsNone DEF Under
  <2>5. QED
    BY <2>3, <2>4
<1>3. QED
  BY <1>1, <1>2 DEF Dropped

(***************************************************************************)
(* The drive.                                                              *)
(***************************************************************************)
LEMMA StandingDrive ==
    ASSUME Kept, Standing, Drive
    PROVE  Standing'
<1>1. /\ partition' = partition /\ books' = corpus
      /\ pending' = [OwedNow EXCEPT !.candidate = Identity]
      /\ retained'.verdicts = Absorbed(Fresh, Walk.memo, RebuildAll(OwedNow))
  BY DriveIs
<1>2. /\ OwedNow \in Pending /\ OwedNow.judged_under = pending.judged_under
  BY OwedNowAre
<1>3. /\ pending'.all = OwedNow.all /\ pending'.chapters = OwedNow.chapters
      /\ pending'.judged_under = pending.judged_under
  BY <1>1, <1>2 DEF Pending
<1>4. ASSUME ~ OwedNow.all, NEW g \in GroupsOf(corpus) \ OwedNow.chapters
      PROVE  Under(partition, g, pending.judged_under.emit)'
  <2>1. /\ Stands(Fresh) /\ ~ pending.all
        /\ OwedNow.chapters = pending.chapters \cup MovedSites
    BY <1>4, OwedNowAre
  <2>2. /\ g \notin pending.chapters /\ g \in GroupsOf(corpus)
        /\ g \in GroupsOf(books) /\ Chapter(books, g) = Chapter(corpus, g)
    BY <1>4, <2>1, UnmovedGroups
  <2>3. ~ NoneRetained /\ Fresh = retained.verdicts
    BY <2>1 DEF Stands
  <2>4. Under(partition, g, pending.judged_under.emit)
    BY <2>1, <2>2, <2>3 DEF Standing
  <2> DEFINE r == Chapter(corpus, g)
             v == retained'.verdicts
  <2>5. /\ g \in DOMAIN partition /\ KeysOf(r) \subseteq DOMAIN retained.verdicts
        /\ partition[g] = Findings(r, retained.verdicts, pending.judged_under.emit)
    BY <2>2, <2>4 DEF Under
  <2>6. /\ WalkedKeys \subseteq DOMAIN v
        /\ ~ RebuildAll(OwedNow) => DOMAIN retained.verdicts \subseteq DOMAIN v
        /\ \A k \in DOMAIN v : v[k] = ModelVerdict(k)
    BY <1>1, AbsorbedAre
  <2>7. KeysOf(r) \subseteq DOMAIN v
    <3>1. CASE RebuildAll(OwedNow)
      <4>1. g \in Dirty(OwedNow)
        BY <2>2, <3>1 DEF Dirty
      <4>2. KeysOf(r) \subseteq WalkedKeys
        BY <4>1 DEF WalkedKeys
      <4>3. QED
        BY <2>6, <4>2
    <3>2. CASE ~ RebuildAll(OwedNow)
      BY <2>5, <2>6, <3>2
    <3>3. QED
      BY <3>1, <3>2
  <2>8. \A k \in KeysOf(r) : retained.verdicts[k] = v[k]
    <3>1. \A k \in DOMAIN retained.verdicts : retained.verdicts[k] = ModelVerdict(k)
      BY <2>3, WalkIs
    <3> HIDE DEF v
    <3>2. QED
      BY <2>5, <2>6, <2>7, <3>1
  <2> HIDE DEF r, v
  <2>9. partition[g] = Findings(r, v, pending.judged_under.emit)
    BY <2>5, <2>8, FindingsAgree
  <2>10. QED
    BY <1>1, <1>3, <2>5, <2>7, <2>9 DEF Under, r, v
<1>5. QED
  BY <1>1, <1>3, <1>4 DEF Standing

LEMMA UnderWayDrive ==
    ASSUME Kept, Drive
    PROVE  Driven'
<1>1. /\ config.emit # {} /\ config' = config /\ corpus' = corpus /\ books' = corpus
      /\ pending' = [OwedNow EXCEPT !.candidate = Identity]
      /\ retained' = [generation |-> Now, knobs |-> config.knobs,
                      table |-> Model.table, panel |-> Model.panel,
                      verdicts |-> Absorbed(Fresh, Walk.memo, RebuildAll(OwedNow))]
      /\ patch' = [under |-> TRUE, all |-> RebuildAll(OwedNow), dirty |-> OwedNow.chapters,
                   findings |-> Walk.findings]
  BY DriveIs
<1>2. ~ NoneRetained' /\ Len(swaps') = 0
  BY KeptDrive
<1>3. OwedNow \in Pending
  BY OwedNowAre
<1>4. /\ pending'.all = OwedNow.all /\ pending'.chapters = OwedNow.chapters
      /\ pending'.judged_under = OwedNow.judged_under /\ pending'.candidate = Identity
  BY <1>1, <1>3 DEF Pending
<1>5. Identity' = Identity
  BY <1>1 DEF Identity
<1>6. RebuildAll(pending)' = RebuildAll(OwedNow)
  BY <1>4, <1>5 DEF RebuildAll
<1>7. Dirty(pending)' = Dirty(OwedNow)
  BY <1>1, <1>4, <1>6 DEF Dirty
<1> DEFINE v == retained'.verdicts
<1>8. v = Absorbed(Fresh, Walk.memo, RebuildAll(OwedNow))
  BY <1>1
<1>9. /\ WalkedKeys \subseteq DOMAIN v
      /\ \A k \in DOMAIN v : v[k] = ModelVerdict(k)
  BY <1>8, AbsorbedAre
<1>10. patch'.findings = Walk.findings /\ patch'.all = RebuildAll(OwedNow) /\ patch'.dirty = OwedNow.chapters
  BY <1>1
<1>11. ASSUME NEW g \in Dirty(OwedNow)
       PROVE  Under(patch.findings, g, config.emit)'
  <2> DEFINE r == Chapter(corpus, g)
  <2>1. KeysOf(r) \subseteq WalkedKeys
    BY DEF WalkedKeys
  <2>2. \A k \in KeysOf(r) : Walk.memo[k] = v[k]
    <3>1. \A k \in WalkedKeys : Walk.memo[k] = ModelVerdict(k)
      BY WalkIs
    <3> HIDE DEF v
    <3>2. QED
      BY <1>9, <2>1, <3>1
  <2> HIDE DEF r, v
  <2>3. Findings(r, Walk.memo, config.emit) = Findings(r, v, config.emit)
    BY <2>2, FindingsAgree
  <2>4. Walk.findings[g] = Findings(r, v, config.emit) /\ g \in DOMAIN Walk.findings
    BY <2>3, WalkIs DEF r
  <2>5. KeysOf(r) \subseteq DOMAIN v
    BY <1>9, <2>1
  <2>6. QED
    BY <1>1, <1>10, <2>4, <2>5 DEF Under, r, v
<1>12. \A k : VerdictOf(k)' = ModelVerdict(k)
  BY <1>1 DEF VerdictOf, ModelVerdict
<1>13. DOMAIN Walk.findings = Dirty(OwedNow)
  BY WalkIs
<1>14. QED
  BY <1>1, <1>2, <1>4, <1>5, <1>6, <1>7, <1>9, <1>10, <1>11, <1>12, <1>13 DEF Driven

(***************************************************************************)
(* The commit.                                                             *)
(***************************************************************************)
LEMMA CommitIs ==
    ASSUME Commit
    PROVE  /\ patch.under /\ patch'.under = FALSE
           /\ corpus' = corpus /\ config' = config /\ books' = books /\ retained' = retained
           /\ pending' = Promote(pending)
           /\ partition' = [g \in { g \in DOMAIN partition : ~ Rewritten(g) } \cup DOMAIN patch.findings |->
                               Patched(g)]
BY EmptyPatchIs DEF Commit, aggregate

(* After an attempt that walked, each chapter's findings are those of the  *)
(* retained verdicts: the ones it owed were walked, the others stood.      *)
LEMMA Committed ==
    ASSUME Kept, Standing, Driven, Commit, NEW g \in GroupsOf(corpus)
    PROVE  Under(partition', g, config.emit)
<1>1. /\ ~ NoneRetained /\ books = corpus /\ pending.candidate = Identity
      /\ patch.all = RebuildAll(pending) /\ patch.dirty = pending.chapters
      /\ DOMAIN patch.findings = Dirty(pending)
      /\ \A d \in Dirty(pending) : Under(patch.findings, d, config.emit)
  BY DEF Driven
<1>2. partition' = [d \in { d \in DOMAIN partition : ~ Rewritten(d) } \cup Dirty(pending) |-> Patched(d)]
  BY <1>1, CommitIs
<1>3. CASE g \in Dirty(pending)
  <2>1. Rewritten(g)
    BY <1>1, <1>3 DEF Rewritten, Dirty
  <2>2. Patched(g) = patch.findings[g]
    BY <1>1, <1>3, <2>1 DEF Patched
  <2>3. g \in DOMAIN partition' /\ partition'[g] = patch.findings[g]
    BY <1>2, <1>3, <2>2
  <2>4. QED
    BY <1>1, <1>3, <2>3 DEF Under
<1>4. CASE g \notin Dirty(pending)
  <2>1. ~ RebuildAll(pending) /\ g \notin pending.chapters
    BY <1>4 DEF Dirty
  <2>2. ~ pending.all /\ pending.judged_under.emit = config.emit
    BY <2>1 DEF RebuildAll, Identity
  <2>3. Under(partition, g, config.emit)
    BY <1>1, <2>1, <2>2 DEF Standing
  <2>4. ~ Rewritten(g)
    BY <1>1, <2>1 DEF Rewritten
  <2>5. g \in DOMAIN partition /\ partition[g] = Findings(Chapter(books, g), retained.verdicts, config.emit)
    BY <2>3 DEF Under
  <2>6. \A f \in partition[g] : f.rule \in config.emit
    BY <2>5, FindingsRules
  <2>7. Patched(g) = partition[g]
    BY <2>4, <2>6 DEF Patched
  <2>8. g \in DOMAIN partition' /\ partition'[g] = partition[g]
    BY <1>2, <2>4, <2>5, <2>7
  <2>9. QED
    BY <2>3, <2>8 DEF Under
<1>5. QED
  BY <1>3, <1>4

LEMMA PromotedIs ==
    ASSUME Kept, Driven
    PROVE  Promote(pending) = [NothingOwed EXCEPT !.judged_under = Identity]
<1>1. pending.candidate = Identity /\ config.emit # {}
  BY DEF Driven
<1>2. Identity # NoIdentity
  <2>1. Identity.emit = config.emit /\ NoIdentity.emit = {}
    BY DEF Identity, NoIdentity
  <2>2. QED
    BY <1>1, <2>1
<1>3. QED
  BY <1>1, <1>2 DEF Promote

LEMMA StandingCommit ==
    ASSUME Kept, Standing, UnderWay, Commit
    PROVE  Standing'
<1>1. NoneRetained' = NoneRetained
  BY CommitIs DEF NoneRetained
<1>2. CASE Cleared
  BY <1>1, <1>2 DEF Cleared, Standing
<1>3. CASE Driven
  <2>1. pending' = [NothingOwed EXCEPT !.judged_under = Identity]
    BY <1>3, CommitIs, PromotedIs
  <2>2. pending'.judged_under.emit = config.emit /\ pending'.chapters = {}
    BY <2>1 DEF NothingOwed, Identity
  <2>3. books' = books /\ books = corpus /\ retained' = retained
    BY <1>3, CommitIs DEF Driven
  <2>4. ASSUME NEW g \in GroupsOf(books')
        PROVE  Under(partition, g, pending.judged_under.emit)'
    <3>1. Under(partition', g, config.emit)
      BY <1>3, <2>3, Committed
    <3>2. QED
      BY <2>2, <2>3, <3>1 DEF Under
  <2>5. QED
    BY <2>2, <2>4 DEF Standing
<1>4. QED
  BY <1>2, <1>3, CommitIs DEF UnderWay

LEMMA ClearedCommit ==
    ASSUME Cleared, Commit
    PROVE  DOMAIN partition' = {}
<1>1. patch = EmptyPatch
  BY DEF Cleared
<1>2. \A g : Rewritten(g)
  BY <1>1, EmptyPatchIs DEF Rewritten
<1>3. DOMAIN patch.findings = {}
  BY <1>1, EmptyPatchIs
<1>4. QED
  BY <1>2, <1>3, CommitIs

LEMMA DroppedCommit ==
    ASSUME UnderWay, Commit
    PROVE  Dropped'
<1>1. NoneRetained' = NoneRetained
  BY CommitIs DEF NoneRetained
<1>2. CASE Cleared
  BY <1>2, ClearedCommit DEF Dropped
<1>3. CASE Driven
  BY <1>1, <1>3 DEF Driven, Dropped
<1>4. QED
  BY <1>2, <1>3, CommitIs DEF UnderWay

(***************************************************************************)
(* The model follows the aggregate.                                        *)
(***************************************************************************)
(* A corpus followed through an empty log is the merge itself.             *)
LEMMA FollowNothing ==
    ASSUME NEW held \in Corpora, NEW log \in Seq(Swaps), Len(log) = 0
    PROVE  Follow(MergeBooks(held), log, held)
<1>1. MergeBooks(held) \in WordTallies
  BY MergeIs
<1>2. Carried(MergeBooks(held), log) = MergeBooks(held)
  BY <1>1, CarriedIn
<1>3. Befores(log) = Afters(log)
  <2>1. DOMAIN log = {}
    OBVIOUS
  <2>2. QED
    BY <2>1 DEF Befores, Afters
<1>4. QED
  BY <1>2, <1>3 DEF Follow, Balanced

LEMMA FollowedEdit ==
    ASSUME Kept, Followed, NEW held \in Corpora, Edit(held)
    PROVE  Followed'
<1>1. /\ retained' = retained /\ NoneRetained' = NoneRetained /\ books' = Remaining(held)
      /\ swaps' = swaps \o SwapsOf(Leavers(held), books, Remaining(held))
  BY DEF Edit, Logged, Leavers, Remaining, NoneRetained
<1>2. Leavers(held) \in SUBSET Slugs /\ Remaining(held) \in Corpora
  BY RemainingAre
<1>3. \A b \in Slugs \ Leavers(held) :
         Contributions[books[b]].tally = Contributions[Remaining(held)[b]].tally
  BY DEF Remaining
<1>4. books \in Corpora /\ swaps \in Seq(Swaps)
  BY DEF Kept
<1>5. ASSUME ~ NoneRetained
      PROVE  Follow(retained.table, swaps', Remaining(held))
  BY <1>1, <1>2, <1>3, <1>4, <1>5, FollowSwaps DEF Followed
<1>6. QED
  BY <1>1, <1>5 DEF Followed

(* The swaps a drive logs bring the merge from the cache to the corpus.    *)
LEMMA FollowCorpus ==
    ASSUME Kept, NEW table \in WordTallies, Follow(table, swaps, books)
    PROVE  Follow(table, Log, corpus)
<1>1. books \in Corpora /\ corpus \in Corpora /\ swaps \in Seq(Swaps) /\ Held(books) \subseteq Held(corpus)
  BY DEF Kept
<1>2. MovedBooks \in SUBSET Slugs
  BY MovedAre
<1>3. ASSUME NEW b \in Slugs \ MovedBooks
      PROVE  Contributions[books[b]].tally = Contributions[corpus[b]].tally
  <2>1. CASE b \in Held(corpus)
    BY <1>3, <2>1 DEF MovedBooks, SameWords
  <2>2. CASE b \notin Held(corpus)
    <3>1. books[b] = NoText /\ corpus[b] = NoText
      BY <1>1, <1>3, <2>2 DEF Held
    <3>2. QED
      BY <3>1
  <2>3. QED
    BY <2>1, <2>2
<1>4. QED
  BY <1>1, <1>2, <1>3, FollowSwaps DEF Log

(* Nothing has moved since the model's generation.                         *)
LEMMA ReusedIs ==
    ASSUME Kept, Reusable(Now)
    PROVE  Len(Log) = 0 /\ Log \in Seq(Swaps)
<1> DEFINE n == Cardinality(MovedBooks)
           l == Len(swaps)
           r == retained.generation
<1>1. l \in Nat /\ n \in Nat /\ generation \in Nat
  BY MovedAre DEF Kept
<1>2. r = Now /\ r + l = generation /\ r \in Nat
  BY DEF Reusable, Kept
<1>3. Log \in Seq(Swaps) /\ Len(Log) = l + n
  BY LogAre DEF Log
<1>4. Now = generation + n
  BY DEF Now
<1> HIDE DEF r, l, n
<1>5. l = 0 /\ n = 0
  BY <1>1, <1>2, <1>4
<1>6. l + n = 0
  BY <1>5
<1>7. QED
  BY <1>3, <1>6

(* A build, whichever way it is made, gives the model of the corpus.       *)
LEMMA ModelIs ==
    ASSUME Kept, Followed
    PROVE  Model.table = MergeBooks(corpus) /\ Model.panel = Panel(MergeBooks(corpus))
<1>1. corpus \in Corpora /\ Log \in Seq(Swaps) /\ MergeBooks(corpus) \in WordTallies
  BY LogAre, MergeIs DEF Kept, Log
<1>2. ASSUME ~ NoneRetained
      PROVE  /\ retained.table \in WordTallies /\ retained.panel = Panel(retained.table)
             /\ Follow(retained.table, Log, corpus)
  BY <1>2, FollowCorpus DEF Followed
<1>3. CASE Reusable(Now)
  <2>1. ~ NoneRetained /\ Model.table = retained.table /\ Model.panel = retained.panel
    BY <1>3 DEF Model, Current, Reusable
  <2>2. Carried(retained.table, Log) = retained.table
    BY <1>1, <1>2, <1>3, <2>1, ReusedIs, CarriedIn
  <2>3. QED
    BY <1>2, <2>1, <2>2 DEF Follow
<1>4. CASE ~ Reusable(Now)
  <2> DEFINE table == BuiltTable(Log, corpus)
             moved == UNION { MovedWords(s) : s \in Range(Log) }
             delta == ClassDelta(Log)
  <2>1. Model.table = table /\ Model.panel = BuiltPanel(Log, table)
    BY <1>4 DEF Model, Current, Built
  <2>2. table = MergeBooks(corpus)
    BY <1>2 DEF BuiltTable, Follow
  <2> HIDE DEF table
  <2>3. BuiltPanel(Log, table) =
           IF ~ NoneRetained /\ Patchable(retained.panel, table, moved, delta)
           THEN PatchedPanel(retained.panel, table, moved, delta)
           ELSE Panel(table)
    BY DEF BuiltPanel
  <2>4. ASSUME ~ NoneRetained, Patchable(retained.panel, table, moved, delta)
        PROVE  PatchedPanel(retained.panel, table, moved, delta) = Panel(table)
    <3> DEFINE a == retained.table
    <3>1. /\ a \in WordTallies /\ retained.panel = Panel(a) /\ table \in WordTallies
          /\ Carried(a, Log) = table
          /\ Balanced(table, SumOf(Befores(Log)), a, SumOf(Afters(Log)))
      BY <1>1, <1>2, <2>2, <2>4 DEF Follow
    <3>2. SameOutside(moved, a, table)
      <4>1. ASSUME NEW o, o.word \notin moved
            PROVE  Tallied(o, a) = Tallied(o, table)
        <5>1. \A n \in 1 .. Len(Log) : o.word \notin MovedWords(Log[n])
          <6>1. \A n \in 1 .. Len(Log) : Log[n] \in Range(Log)
            BY <1>1 DEF Range
          <6>2. QED
            BY <4>1, <6>1
        <5> HIDE DEF a, moved
        <5>2. QED
          BY <1>1, <3>1, <5>1, CarriedUnmoved
      <4> HIDE DEF moved
      <4>2. QED
        BY <4>1 DEF SameOutside
    <3> HIDE DEF a, moved
    <3>3. Patchable(Panel(a), table, moved, ClassDelta(Log))
      BY <2>4, <3>1
    <3>4. PatchedPanel(Panel(a), table, moved, ClassDelta(Log)) = Panel(table)
      BY <1>1, <3>1, <3>2, <3>3, PatchExact
    <3>5. QED
      BY <3>1, <3>4
  <2> HIDE DEF moved, delta
  <2>5. BuiltPanel(Log, table) = Panel(table)
    BY <2>3, <2>4
  <2>6. QED
    BY <2>1, <2>2, <2>5
<1>5. QED
  BY <1>3, <1>4

LEMMA FollowedDrive ==
    ASSUME Kept, Followed, Drive
    PROVE  Followed'
<1>1. /\ books' = corpus /\ retained'.table = Model.table /\ retained'.panel = Model.panel
  BY DriveIs
<1>2. Kept' /\ Len(swaps') = 0
  BY KeptDrive
<1>3. swaps' \in Seq(Swaps) /\ corpus \in Corpora
  BY <1>2 DEF Kept
<1>4. MergeBooks(corpus) \in WordTallies
  BY <1>3, MergeIs
<1>5. Follow(MergeBooks(corpus), swaps', corpus)
  BY <1>2, <1>3, FollowNothing
<1>6. QED
  BY <1>1, <1>4, <1>5, ModelIs DEF Followed

LEMMA FollowedNext ==
    ASSUME Kept, Followed, [Next]_vars
    PROVE  Followed'
<1>1. ASSUME UNCHANGED <<aggregate, retained>>
      PROVE  Followed'
  <2>1. books' = books /\ swaps' = swaps /\ retained' = retained /\ NoneRetained' = NoneRetained
    BY <1>1 DEF aggregate, NoneRetained
  <2>2. QED
    BY <2>1 DEF Followed
<1>2. ASSUME NEW held \in Corpora, Edit(held)
      PROVE  Followed'
  BY <1>2, FollowedEdit
<1>3. ASSUME NEW cfg \in Configs, Configure(cfg)
      PROVE  Followed'
  BY <1>1, <1>3 DEF Configure
<1>4. CASE DriveInactive \/ DriveUncased
  <2>1. NoneRetained'
    BY <1>4 DEF DriveInactive, DriveUncased, NoneRetained
  <2>2. QED
    BY <2>1 DEF Followed
<1>5. CASE Drive
  BY <1>5, FollowedDrive
<1>6. CASE Commit
  BY <1>1, <1>6 DEF Commit
<1>7. CASE Fail
  BY <1>1, <1>7 DEF Fail
<1>8. CASE UNCHANGED vars
  BY <1>1, <1>8 DEF vars
<1>9. QED
  BY <1>2, <1>3, <1>4, <1>5, <1>6, <1>7, <1>8 DEF Next

(***************************************************************************)
(* What a commit leaves is what a full walk would give.                    *)
(***************************************************************************)
(* A full walk's verdicts, and the findings it makes of a chapter.         *)
Cold == [table |-> MergeBooks(corpus), panel |-> Panel(MergeBooks(corpus))]

ColdVerdict(k) == Outcomes(Cold.table, Cold.panel, config.knobs, {k})[k]

LEMMA ColdIs ==
    ASSUME corpus \in Corpora, config \in Configs
    PROVE  ColdFindings[corpus][config] = Pass(corpus, GroupsOf(corpus), Cold, config).findings
<1> DEFINE walk(held, cfg) ==
              LET table == MergeBooks(held) IN
              Pass(held, GroupsOf(held), [table |-> table, panel |-> Panel(table)], cfg).findings
           walks == [held \in Corpora |-> [cfg \in Configs |-> walk(held, cfg)]]
<1>1. ColdFindings = Tabled(walks)
  BY DEF ColdFindings
<1>2. ColdFindings = walks
  BY <1>1, TabledIs
<1>3. walk(corpus, config) = Pass(corpus, GroupsOf(corpus), Cold, config).findings
  BY DEF Cold
<1> HIDE DEF walk
<1>4. walks[corpus][config] = walk(corpus, config)
  OBVIOUS
<1> HIDE DEF walks
<1>5. QED
  BY <1>2, <1>3, <1>4

LEMMA ColdWalk ==
    ASSUME corpus \in Corpora, config \in Configs, NEW g \in GroupsOf(corpus)
    PROVE  \E v : /\ \A k \in KeysOf(Chapter(corpus, g)) : v[k] = ColdVerdict(k)
                  /\ ColdFindings[corpus][config][g] = Findings(Chapter(corpus, g), v, config.emit)
<1> DEFINE keys == UNION { KeysOf(Chapter(corpus, h)) : h \in GroupsOf(corpus) }
           v == Outcomes(Cold.table, Cold.panel, config.knobs, keys)
<1>1. Pass(corpus, GroupsOf(corpus), Cold, config).findings
         = [h \in GroupsOf(corpus) |-> Findings(Chapter(corpus, h), v, config.emit)]
  BY DEF Pass
<1>2. \A k \in keys : v[k] = ColdVerdict(k)
  <2> DEFINE table == Cold.table
             panel == Cold.panel
             knobs == config.knobs
  <2> HIDE DEF keys, table, panel, knobs
  <2>1. /\ DOMAIN Outcomes(table, panel, knobs, keys) = keys
        /\ \A k \in keys : Outcomes(table, panel, knobs, keys)[k] = Outcomes(table, panel, knobs, {k})[k]
    BY OutcomesAt
  <2>2. QED
    BY <2>1 DEF ColdVerdict, table, panel, knobs
<1>3. KeysOf(Chapter(corpus, g)) \subseteq keys
  OBVIOUS
<1> HIDE DEF keys, v
<1>4. ColdFindings[corpus][config][g] = Findings(Chapter(corpus, g), v, config.emit)
  BY <1>1, ColdIs
<1>5. QED
  BY <1>2, <1>3, <1>4

LEMMA ClearedIsCold ==
    ASSUME Kept, Cleared, Commit, NEW g \in GroupsOf(corpus)
    PROVE  (IF g \in DOMAIN partition' THEN partition'[g] ELSE {}) = ColdFindings[corpus][config][g]
<1>1. corpus \in Corpora /\ config \in Configs
  BY DEF Kept
<1>2. PICK v : ColdFindings[corpus][config][g] = Findings(Chapter(corpus, g), v, config.emit)
  BY <1>1, ColdWalk
<1>3. config.emit = {} \/ Chapter(corpus, g).sites = << >>
  BY <1>1, UncasedSites DEF Cleared
<1>4. ColdFindings[corpus][config][g] = {}
  BY <1>2, <1>3, FindingsNone
<1>5. g \notin DOMAIN partition'
  BY ClearedCommit
<1>6. QED
  BY <1>4, <1>5

(* The retained model is the cold one, so its verdicts are the cold ones.  *)
LEMMA DrivenIsCold ==
    ASSUME Kept, Followed, Standing, Driven, Commit, NEW g \in GroupsOf(corpus)
    PROVE  (IF g \in DOMAIN partition' THEN partition'[g] ELSE {}) = ColdFindings[corpus][config][g]
<1>1. corpus \in Corpora /\ config \in Configs /\ swaps \in Seq(Swaps)
  BY DEF Kept
<1>2. PICK v : /\ \A k \in KeysOf(Chapter(corpus, g)) : v[k] = ColdVerdict(k)
               /\ ColdFindings[corpus][config][g] = Findings(Chapter(corpus, g), v, config.emit)
  BY <1>1, ColdWalk
<1>3. /\ ~ NoneRetained /\ books = corpus /\ Len(swaps) = 0
      /\ \A k \in DOMAIN retained.verdicts : retained.verdicts[k] = VerdictOf(k)
  BY DEF Driven
<1>4. retained.table = MergeBooks(corpus) /\ retained.panel = Panel(MergeBooks(corpus))
  <2>1. /\ retained.table \in WordTallies /\ retained.panel = Panel(retained.table)
        /\ Carried(retained.table, swaps) = MergeBooks(corpus)
    BY <1>3 DEF Followed, Follow
  <2>2. Carried(retained.table, swaps) = retained.table
    BY <1>1, <1>3, <2>1, CarriedIn
  <2>3. QED
    BY <2>1, <2>2
<1>5. \A k : VerdictOf(k) = ColdVerdict(k)
  BY <1>4 DEF VerdictOf, ColdVerdict, Cold
<1>6. Under(partition', g, config.emit)
  BY Committed
<1>7. /\ g \in DOMAIN partition' /\ KeysOf(Chapter(corpus, g)) \subseteq DOMAIN retained.verdicts
      /\ partition'[g] = Findings(Chapter(corpus, g), retained.verdicts, config.emit)
  BY <1>3, <1>6 DEF Under
<1>8. \A k \in KeysOf(Chapter(corpus, g)) : retained.verdicts[k] = v[k]
  BY <1>2, <1>3, <1>5, <1>7
<1>9. partition'[g] = ColdFindings[corpus][config][g]
  <2> DEFINE r == Chapter(corpus, g)
             u == retained.verdicts
  <2>1. \A k \in KeysOf(r) : u[k] = v[k]
    BY <1>8
  <2> HIDE DEF r, u
  <2>2. Findings(r, u, config.emit) = Findings(r, v, config.emit)
    BY <2>1, FindingsAgree
  <2>3. QED
    BY <1>2, <1>7, <2>2 DEF r, u
<1>10. QED
  BY <1>7, <1>9

(***************************************************************************)
(* The invariant is inductive.                                             *)
(***************************************************************************)
LEMMA CasingInit ==
    ASSUME Init
    PROVE  CasingInv
<1> DEFINE none == [b \in Slugs |-> NoText]
<1>1. /\ corpus \in Corpora /\ config \in Configs
      /\ books = none /\ swaps = << >> /\ generation = 0
      /\ pending = NothingOwed /\ retained = NoModel /\ partition = NoFindings /\ patch = NoPatch
  BY DEF Init
<1>2. none \in Corpora /\ Held(none) = {}
  BY CasingAssumption DEF Corpora, Held
<1>3. MovedBooks \in SUBSET Slugs
  BY DEF MovedBooks, Held
<1>4. Cardinality(MovedBooks) \in Nat /\ Cardinality(MovedBooks) <= Len(Books)
  BY <1>3, SomeBooks
<1>5. generation \in Nat /\ generation + Cardinality(MovedBooks) <= MaxGeneration + Len(Books)
  BY <1>1, <1>4, CasingAssumption, BooksAre
<1>6. NoneRetained /\ ~ patch.under /\ patch.under \in BOOLEAN
  BY <1>1, EmptyPatchIs DEF NoneRetained
<1>7. swaps \in Seq(Swaps)
  BY <1>1
<1>8. pending \in Pending
  BY <1>1, NothingOwedIn
<1> HIDE DEF none
<1>9. Kept
  BY <1>1, <1>2, <1>5, <1>6, <1>7, <1>8 DEF Kept
<1>10. Dropped
  BY <1>1, EmptyPatchIs DEF Dropped
<1>11. QED
  BY <1>6, <1>9, <1>10 DEF CasingInv, Followed, Standing, UnderWay

LEMMA CasingNext ==
    ASSUME CasingInv, [Next]_vars
    PROVE  CasingInv'
<1>1. Kept /\ Followed /\ Standing /\ Dropped /\ UnderWay
  BY DEF CasingInv
<1>2. Kept' /\ Followed'
  BY <1>1, KeptNext, FollowedNext
<1>3. ASSUME UNCHANGED <<corpus, aggregate, pending, retained, partition>>
      PROVE  Standing' /\ Dropped'
  <2>1. /\ books' = books /\ pending' = pending /\ retained' = retained /\ partition' = partition
    BY <1>3 DEF aggregate
  <2>2. NoneRetained' = NoneRetained
    BY <2>1 DEF NoneRetained
  <2>3. Standing'
    BY <1>1, <2>1, <2>2 DEF Standing, Under
  <2>4. Dropped'
    BY <1>1, <2>1, <2>2 DEF Dropped
  <2>5. QED
    BY <2>3, <2>4
<1>4. ASSUME NEW held \in Corpora, Edit(held)
      PROVE  CasingInv'
  <2>1. UnderWay'
    BY <1>4, EditIs DEF UnderWay, Idle
  <2>2. QED
    BY <1>1, <1>2, <1>4, <2>1, StandingEdit, DroppedEdit DEF CasingInv
<1>5. ASSUME NEW cfg \in Configs, Configure(cfg)
      PROVE  CasingInv'
  <2>1. UNCHANGED <<corpus, aggregate, pending, retained, partition>> /\ patch' = patch /\ Idle
    BY <1>5 DEF Configure
  <2>2. UnderWay'
    BY <2>1 DEF UnderWay, Idle
  <2>3. QED
    BY <1>2, <1>3, <2>1, <2>2 DEF CasingInv
<1>6. CASE DriveInactive
  <2>1. /\ pending' = OweAll(NothingOwed) /\ retained' = NoModel /\ patch' = EmptyPatch
        /\ config.emit = {} /\ config' = config
    BY <1>6 DEF DriveInactive
  <2>2. NoneRetained' /\ pending'.all
    BY <2>1 DEF NoneRetained, OweAll, NothingOwed
  <2>3. Cleared'
    BY <2>1, <2>2 DEF Cleared
  <2>4. QED
    BY <1>2, <2>2, <2>3 DEF CasingInv, Standing, Dropped, UnderWay
<1>7. CASE DriveUncased
  <2>1. /\ retained' = NoModel /\ patch' = EmptyPatch /\ ~ AnyCased(corpus)
        /\ books' = corpus /\ corpus' = corpus
    BY <1>7 DEF DriveUncased, Logged
  <2>2. NoneRetained'
    BY <2>1 DEF NoneRetained
  <2>3. Cleared'
    BY <2>1, <2>2 DEF Cleared
  <2>4. QED
    BY <1>1, <1>2, <1>7, <2>2, <2>3, DroppedUncased DEF CasingInv, Standing, UnderWay
<1>8. CASE Drive
  <2>1. ~ NoneRetained'
    BY <1>1, <1>8, KeptDrive
  <2>2. QED
    BY <1>1, <1>2, <1>8, <2>1, StandingDrive, UnderWayDrive DEF CasingInv, Dropped, UnderWay
<1>9. CASE Commit
  BY <1>1, <1>2, <1>9, CommitIs, StandingCommit, DroppedCommit DEF CasingInv, UnderWay
<1>10. CASE Fail
  <2>1. UNCHANGED <<corpus, aggregate, pending, retained, partition>> /\ patch' = NoPatch
    BY <1>10 DEF Fail
  <2>2. UnderWay'
    BY <2>1, EmptyPatchIs DEF UnderWay
  <2>3. QED
    BY <1>2, <1>3, <2>1, <2>2 DEF CasingInv
<1>11. CASE UNCHANGED vars
  <2>1. /\ UNCHANGED <<corpus, aggregate, pending, retained, partition>>
        /\ config' = config /\ patch' = patch
    BY <1>11 DEF vars
  <2>2. /\ books' = books /\ swaps' = swaps /\ pending' = pending /\ retained' = retained
        /\ corpus' = corpus
    BY <2>1 DEF aggregate
  <2>3. NoneRetained' = NoneRetained
    BY <2>2 DEF NoneRetained
  <2>4. Identity' = Identity
    BY <2>1 DEF Identity
  <2>5. RebuildAll(pending)' = RebuildAll(pending)
    BY <2>2, <2>4 DEF RebuildAll
  <2>6. Dirty(pending)' = Dirty(pending)
    BY <2>2, <2>5 DEF Dirty
  <2>7. Cleared' = Cleared
    BY <2>1, <2>2, <2>3 DEF Cleared
  <2>8. Driven => Driven'
    <3>1. \A g : Under(patch.findings, g, config.emit)' = Under(patch.findings, g, config.emit)
      BY <2>1, <2>2 DEF Under
    <3>2. \A k : VerdictOf(k)' = VerdictOf(k)
      BY <2>1, <2>2 DEF VerdictOf
    <3>3. QED
      BY <2>1, <2>2, <2>3, <2>4, <2>5, <2>6, <3>1, <3>2 DEF Driven
  <2>9. UnderWay'
    BY <1>1, <2>1, <2>7, <2>8 DEF UnderWay
  <2>10. QED
    BY <1>2, <1>3, <2>1, <2>9 DEF CasingInv
<1>12. QED
  BY <1>4, <1>5, <1>6, <1>7, <1>8, <1>9, <1>10, <1>11 DEF Next

LEMMA CasingInvariance == Spec => []CasingInv
<1>1. Init => CasingInv
  BY CasingInit
<1>2. CasingInv /\ [Next]_vars => CasingInv'
  BY CasingNext
<1>3. QED
  BY <1>1, <1>2, PTL DEF Spec

(***************************************************************************)
(* Theorems.                                                               *)
(***************************************************************************)
(* SubstrateCache and CasingCorpusStats keep their shape, and the swap log *)
(* reaches back exactly to the retained model: replace_book_in_corpus_     *)
(* stats' log and the generation of CasingModel::build never part.         *)
THEOREM CasingTyped == Spec => []TypeOK
<1>1. CasingInv => TypeOK
  <2> SUFFICES ASSUME Kept
               PROVE  TypeOK
    BY DEF CasingInv
  <2> DEFINE n == Cardinality(MovedBooks)
  <2>1. /\ generation \in Nat /\ n \in Nat /\ generation + n <= MaxGeneration + Len(Books)
    BY MovedAre DEF Kept
  <2> HIDE DEF n
  <2>2. generation \in 0 .. MaxGeneration + Len(Books)
    BY <2>1, CasingAssumption, BooksAre
  <2>3. DOMAIN books = Slugs
    BY DEF Kept, Corpora
  <2>4. pending.chapters \subseteq Slugs \X Nat
    BY DEF Kept, Pending
  <2>5. QED
    BY <2>2, <2>3, <2>4 DEF Kept, TypeOK
<1>2. QED
  BY <1>1, CasingInvariance, PTL

(* VerdictTable's contract: after any edits, failures and partial passes   *)
(* the retained table names every key a standing, unowed finding was       *)
(* emitted under.                                                          *)
THEOREM VerdictsCover == Spec => []VerdictsCoverThePartition
<1>1. CasingInv => VerdictsCoverThePartition
  BY DEF CasingInv, Standing, Under, VerdictsCoverThePartition
<1>2. QED
  BY <1>1, CasingInvariance, PTL

(* A build with no verdicts to compare, after the model was dropped, finds *)
(* no finding standing that is not owed.                                   *)
THEOREM DroppedIsHarmless == Spec => []DroppedModelLeavesNothingStanding
<1>1. CasingInv => DroppedModelLeavesNothingStanding
  BY DEF CasingInv, Dropped, DroppedModelLeavesNothingStanding
<1>2. QED
  BY <1>1, CasingInvariance, PTL

(* CasingModel::build's patched model is the one a rebuild would make: the *)
(* retained table carried through the logged swaps is the merge of the     *)
(* books the cache holds, and the retained panel is its panel.             *)
THEOREM ModelFollows == Spec => []ModelFollowsTheAggregate
<1>1. CasingInv => ModelFollowsTheAggregate
  BY DEF CasingInv, Followed, Follow, ModelFollowsTheAggregate
<1>2. QED
  BY <1>1, CasingInvariance, PTL

(* What the casing rules publish after any history of edits, settings,     *)
(* failed attempts and retries is what a one-shot analysis of the corpus   *)
(* finds: each commit's partition gives every chapter its cold findings.   *)
THEOREM CommitsCold == Spec => CommitsAreCold
<1> DEFINE ColdNow ==
        \A g \in GroupsOf(corpus) :
           (IF g \in DOMAIN partition' THEN partition'[g] ELSE {}) = ColdFindings[corpus][config][g]
<1>1. ASSUME CasingInv, Commit
      PROVE  ColdNow
  <2>1. Kept /\ Followed /\ Standing /\ (Cleared \/ Driven)
    BY <1>1, CommitIs DEF CasingInv, UnderWay
  <2>2. QED
    BY <1>1, <2>1, ClearedIsCold, DrivenIsCold
<1>2. CasingInv => [Commit => ColdNow]_vars
  BY <1>1
<1> HIDE DEF ColdNow
<1>3. Spec => [][Commit => ColdNow]_vars
  BY <1>2, CasingInvariance, PTL
<1>4. QED
  BY <1>3 DEF CommitsAreCold, ColdNow
=============================================================================
