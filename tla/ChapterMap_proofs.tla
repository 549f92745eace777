-------------------------- MODULE ChapterMap_proofs --------------------------
(***************************************************************************)
(* Proofs about ChapterMap, for every layout, corpus and vocabulary, any   *)
(* number of interning participants and tasks, and key lists of any        *)
(* length.                                                                 *)
(***************************************************************************)
EXTENDS ChapterMap, DataInduction

(***************************************************************************)
(* The inductive invariant.  Symbols are what the threads race for, and an *)
(* observation keeps only symbols: it means its text because the table it  *)
(* was numbered by only ever grows, also while a task still holds it.      *)
(***************************************************************************)
(* An observation of participant p names, symbol by symbol, the words of x. *)
Names(o, p, x) ==
    /\ o.stamp = x
    /\ DOMAIN o.keys = DOMAIN KeysOf(p, x)
    /\ \A m \in DOMAIN KeysOf(p, x) :
          o.keys[m] \in DOMAIN arena /\ arena[o.keys[m]] = KeysOf(p, x)[m]

ObservationsName ==
    \A p \in Substrates, c \in Chapters :
        observed[p][c] # Absent => \E x \in Contents : Names(observed[p][c], p, x)

(* No observation outlives its book.                                       *)
ObservedBooksHeld ==
    \A p \in Substrates, c \in Chapters :
        observed[p][c] # Absent => BookOf(c) \in BooksIn(corpus)

(* The work list covers what update_book will ask for, and a slot that is   *)
(* filled holds the words of the chapter it was enrolled for.              *)
Covered ==
    \A p \in active : \A c \in Asked(p) :
        \E i \in DOMAIN work : work[i].chapter = c /\ p \in work[i].participants

Scheduled ==
    \A i \in DOMAIN work :
        /\ work[i].chapter \in Present(corpus)
        /\ work[i].participants \subseteq Substrates
        /\ DOMAIN bundles[i] = Substrates
        /\ \A p \in Substrates :
              bundles[i][p] # Absent => Names(bundles[i][p], p, corpus[work[i].chapter])

TypeInv ==
    /\ TypeOK
    /\ pc # "map" => work = << >>
    /\ corpus \in Corpora
    /\ active \subseteq Substrates

IInv ==
    /\ TypeInv
    /\ ObservationsName
    /\ ObservedBooksHeld
    /\ ContributionIsOfTheText
    /\ pc = "map" => Covered
    /\ Scheduled
    /\ NoMissedSlot

(***************************************************************************)
(* The table.                                                              *)
(***************************************************************************)
Folded == ToSet(Words)

(* A table that grew: the symbols given before keep their words.           *)
Extends(new, old) ==
    /\ Len(old) <= Len(new)
    /\ \A s \in 1 .. Len(old) : new[s] = old[s]

(* One batch of intern_all leaves a table without repetitions, changes the *)
(* word of no symbol, and knows every key of the batch.                    *)
LEMMA GrownTable ==
    ASSUME arena \in Seq(Folded), IsInjective(arena), NEW keys \in Seq(Folded)
    PROVE  /\ Grown(keys) \in Seq(Folded)
           /\ IsInjective(Grown(keys))
           /\ Extends(Grown(keys), arena)
           /\ \A n \in 1 .. Len(keys) : Interned(Grown(keys), keys[n])
<1> DEFINE m == Len(keys)
           T == Seq(Folded)
           Body(f) == [n \in 0 .. m |-> IF n = 0 THEN arena
                                        ELSE IF Interned(f[n - 1], keys[n]) THEN f[n - 1]
                                        ELSE Append(f[n - 1], keys[n])]
           grown == CHOOSE f : f = Body(f)
           step == [e \in T \X (1 .. m) |->
                       IF Interned(e[1], keys[e[2]]) THEN e[1] ELSE Append(e[1], keys[e[2]])]
<1>1. m \in Nat /\ \A n \in 1 .. m : keys[n] \in Folded
  OBVIOUS
<1>2. Grown(keys) = grown[m]
  BY DEF Grown
<1>3. step \in [T \X (1 .. m) -> T]
  BY <1>1
<1>4. PICK g \in [0 .. m -> T] : g[0] = arena /\ \A n \in 1 .. m : g[n] = step[g[n - 1], n]
  <2>1. arena \in T
    OBVIOUS
  <2> HIDE DEF step, m, T
  <2>2. \E g : IsRun(g, T, arena, m, step)
    BY <1>1, <1>3, <2>1, Recursion
  <2>3. QED
    BY <2>2 DEF IsRun
<1>5. g = Body(g)
  <2>1. ASSUME NEW n \in 1 .. m
        PROVE  g[n] = IF Interned(g[n - 1], keys[n]) THEN g[n - 1] ELSE Append(g[n - 1], keys[n])
    <3>1. g[n - 1] \in T
      BY <1>1
    <3>2. <<g[n - 1], n>> \in T \X (1 .. m)
      BY <3>1
    <3>3. step[g[n - 1], n] = IF Interned(g[n - 1], keys[n]) THEN g[n - 1]
                              ELSE Append(g[n - 1], keys[n])
      BY <3>2
    <3>4. QED
      BY <1>4, <3>3
  <2> HIDE DEF step, m
  <2>2. \A n \in 0 .. m : n = 0 \/ n \in 1 .. m
    BY <1>1
  <2>3. \A n \in 0 .. m : g[n] = Body(g)[n]
    BY <1>4, <2>1, <2>2
  <2>4. g = [n \in 0 .. m |-> g[n]]
    OBVIOUS
  <2>5. Body(g) = [n \in 0 .. m |-> Body(g)[n]]
    OBVIOUS
  <2> HIDE DEF Body
  <2>6. QED
    BY <2>3, <2>4, <2>5
<1>6. grown = Body(grown)
  <2> HIDE DEF Body
  <2>1. QED
    BY <1>5
<1> HIDE DEF grown, m
<1>7. /\ grown[0] = arena
      /\ \A n \in 1 .. m : Interned(grown[n - 1], keys[n]) => grown[n] = grown[n - 1]
      /\ \A n \in 1 .. m : ~ Interned(grown[n - 1], keys[n])
                              => grown[n] = Append(grown[n - 1], keys[n])
  <2>1. \A n \in 0 .. m : Body(grown)[n] = IF n = 0 THEN arena
                                           ELSE IF Interned(grown[n - 1], keys[n])
                                                THEN grown[n - 1]
                                           ELSE Append(grown[n - 1], keys[n])
    OBVIOUS
  <2> HIDE DEF Body
  <2>2. \A n \in 0 .. m : grown[n] = IF n = 0 THEN arena
                                     ELSE IF Interned(grown[n - 1], keys[n]) THEN grown[n - 1]
                                     ELSE Append(grown[n - 1], keys[n])
    BY <1>6, <2>1
  <2>3. 0 \in 0 .. m /\ \A n \in 1 .. m : n \in 0 .. m /\ n # 0
    BY <1>1
  <2>4. QED
    BY <2>2, <2>3
<1> HIDE DEF Body, step
<1> DEFINE Good(t, n) == /\ t \in Seq(Folded) /\ IsInjective(t) /\ Extends(t, arena)
                         /\ \A j \in 1 .. n : Interned(t, keys[j])
           P == { n \in 0 .. m : Good(grown[n], n) }
<1>8. 0 \in P
  <2>1. 0 \in 0 .. m /\ 1 .. 0 = {}
    BY <1>1
  <2>2. QED
    BY <1>7, <2>1 DEF Extends
<1>9. ASSUME NEW n \in 0 .. m - 1, n \in P
      PROVE  n + 1 \in P
  <2>1. n + 1 \in 1 .. m /\ n + 1 \in 0 .. m /\ n + 1 - 1 = n /\ n \in Nat /\ keys[n + 1] \in Folded
    BY <1>1
  <2>2. Good(grown[n], n)
    BY <1>9
  <2>3. \A j \in 1 .. n + 1 : j \in 1 .. n \/ j = n + 1
    BY <2>1
  <2>4. CASE Interned(grown[n], keys[n + 1])
    <3>1. grown[n + 1] = grown[n]
      BY <1>7, <2>1, <2>4
    <3>2. QED
      BY <2>1, <2>2, <2>3, <2>4, <3>1
  <2>5. CASE ~ Interned(grown[n], keys[n + 1])
    <3> DEFINE t == grown[n]
               u == grown[n + 1]
    <3>1. u = Append(t, keys[n + 1]) /\ t \in Seq(Folded) /\ arena \in Seq(Folded)
      BY <1>7, <2>1, <2>2, <2>5
    <3>2. \A s \in DOMAIN t : t[s] # keys[n + 1]
      BY <2>5 DEF Interned
    <3> HIDE DEF t, u
    <3>3. u \in Seq(Folded) /\ Len(u) = Len(t) + 1 /\ Len(t) \in Nat
      BY <2>1, <3>1
    <3>4. u[Len(t) + 1] = keys[n + 1] /\ \A s \in 1 .. Len(t) : u[s] = t[s]
      BY <2>1, <3>1
    <3>5. DOMAIN u = 1 .. Len(t) + 1 /\ DOMAIN t = 1 .. Len(t)
      BY <3>1, <3>3
    <3>6. \A s \in 1 .. Len(t) + 1 : s \in 1 .. Len(t) \/ s = Len(t) + 1
      BY <3>3
    <3>7. IsInjective(t) /\ Extends(t, arena) /\ \A j \in 1 .. n : Interned(t, keys[j])
      BY <2>2 DEF t
    <3>8. IsInjective(u)
      BY <3>2, <3>4, <3>5, <3>6, <3>7 DEF IsInjective
    <3>9. Extends(u, arena)
      <4>1. Len(arena) \in Nat
        BY <3>1
      <4>2. QED
        BY <3>3, <3>4, <3>7, <4>1 DEF Extends
    <3>10. \A j \in 1 .. n + 1 : Interned(u, keys[j])
      <4>1. \A s \in DOMAIN t : s \in DOMAIN u
        BY <3>3, <3>5
      <4>2. Len(t) + 1 \in DOMAIN u
        BY <3>3, <3>5
      <4>3. QED
        BY <2>3, <3>4, <3>5, <3>7, <4>1, <4>2 DEF Interned
    <3>11. QED
      BY <2>1, <3>3, <3>8, <3>9, <3>10 DEF u
  <2>6. QED
    BY <2>4, <2>5
<1>10. m \in P
  <2> HIDE DEF P
  <2>1. 0 .. m \subseteq P
    BY <1>1, <1>8, <1>9, UpTo
  <2>2. QED
    BY <1>1, <2>1
<1>11. QED
  BY <1>2, <1>10 DEF m

(* A word the table knows has a symbol, and it is the only one.            *)
LEMMA SymbolOf ==
    ASSUME NEW table, NEW w, Interned(table, w)
    PROVE  SymbolIn(table, w) \in DOMAIN table /\ table[SymbolIn(table, w)] = w
BY DEF Interned, SymbolIn

(***************************************************************************)
(* The fold.                                                               *)
(***************************************************************************)
(* A book's fold reads only the observations of the book's chapters.       *)
LEMMA TextFoldIsLocal ==
    ASSUME NEW old, NEW new, NEW p, NEW b,
           \A c \in Chapters : BookOf(c) = b => new[c] = old[c]
    PROVE  TextFold(new, p, b) = TextFold(old, p, b)
<1>1. \A w : TextHolding(new, p, b, w) = TextHolding(old, p, b, w)
  BY DEF TextHolding
<1>2. { w \in ToSet(Words) : TextHolding(new, p, b, w) # {} }
        = { w \in ToSet(Words) : TextHolding(old, p, b, w) # {} }
  BY <1>1
<1>3. QED
  BY <1>1, <1>2 DEF TextFold

(* A book without an observation folds to no row.                          *)
LEMMA TextFoldOfNothing ==
    ASSUME NEW cache, NEW p, NEW b, \A c \in Chapters : BookOf(c) = b => cache[c] = Absent
    PROVE  TextFold(cache, p, b) = << >>
<1> DEFINE S == { w \in ToSet(Words) : TextHolding(cache, p, b, w) # {} }
           words == Selected(Words, S)
<1>1. S = {}
  BY DEF TextHolding
<1>2. words \in Seq(Folded) /\ \A i \in 1 .. Len(words) : words[i] \in S
  <2>1. Words \in Seq(Folded)
    BY MapAssumption DEF Folded
  <2> HIDE DEF S
  <2>2. QED
    BY <2>1, SelectedElements
<1>3. words = << >>
  <2> HIDE DEF words
  <2>1. QED
    BY <1>1, <1>2
<1>4. TextFold(cache, p, b)
        = [n \in DOMAIN words |->
              [word |-> words[n], count |-> Cardinality(TextHolding(cache, p, b, words[n]))]]
  BY DEF TextFold
<1> HIDE DEF words
<1>5. QED
  BY <1>3, <1>4

(* Symbol numbers cancel: the fold over symbols, resolved and put in the    *)
(* words' order, is the fold over the words of the text.                   *)
LEMMA FoldIsOfTheText ==
    ASSUME arena \in Seq(Folded), IsInjective(arena),
           NEW cache, NEW p \in Substrates, NEW b,
           \A c \in Chapters : cache[c] # Absent => \E x \in Contents : Names(cache[c], p, x)
    PROVE  FoldBook(cache, b) = TextFold(cache, p, b)
<1> DEFINE used == { s \in DOMAIN arena : Holding(cache, b, s) # {} }
           S == { arena[s] : s \in used }
           V == { w \in ToSet(Words) : TextHolding(cache, p, b, w) # {} }
           words == Selected(Words, V)
<1>1. \A x \in Contents : KeysOf(p, x) \in Seq(Folded)
  BY MapAssumption DEF Folded, Substrates
<1>2. ASSUME NEW c \in Chapters, cache[c] # Absent, NEW s \in DOMAIN arena
      PROVE  s \in ToSet(cache[c].keys) <=> arena[s] \in ToSet(KeysOf(p, cache[c].stamp))
  <2>1. PICK x \in Contents : Names(cache[c], p, x)
    BY <1>2
  <2>2. QED
    BY <1>2, <2>1 DEF Names, ToSet, IsInjective
<1>3. \A s \in DOMAIN arena : Holding(cache, b, s) = TextHolding(cache, p, b, arena[s])
  BY <1>2 DEF Holding, TextHolding
<1>4. \A w \in V : \E s \in DOMAIN arena : arena[s] = w
  <2> SUFFICES ASSUME NEW w \in V
               PROVE  \E s \in DOMAIN arena : arena[s] = w
    OBVIOUS
  <2>1. PICK c \in Chapters : cache[c] # Absent /\ w \in ToSet(KeysOf(p, cache[c].stamp))
    BY DEF TextHolding
  <2>2. PICK x \in Contents : Names(cache[c], p, x)
    BY <2>1
  <2>3. QED
    BY <2>1, <2>2 DEF Names, ToSet
<1>5. \A s \in DOMAIN arena : arena[s] \in ToSet(Words)
  BY DEF Folded
<1>6. S = V
  BY <1>3, <1>4, <1>5
<1>7. words \in Seq(Folded) /\ \A i \in 1 .. Len(words) : words[i] \in V
  <2>1. Words \in Seq(Folded)
    BY MapAssumption DEF Folded
  <2> HIDE DEF V
  <2>2. QED
    BY <2>1, SelectedElements
<1> DEFINE symbols == InStringOrder(used)
<1>8. symbols = [n \in DOMAIN words |-> SymbolIn(arena, words[n])]
  <2>1. symbols = [n \in DOMAIN Selected(Words, S) |-> SymbolIn(arena, Selected(Words, S)[n])]
    <3> HIDE DEF used
    <3>1. QED
      BY DEF InStringOrder
  <2> HIDE DEF S, V, symbols
  <2>2. QED
    BY <1>6, <2>1
<1>9. ASSUME NEW n \in DOMAIN words
      PROVE  symbols[n] \in DOMAIN arena /\ arena[symbols[n]] = words[n]
  <2>1. words[n] \in V
    <3>1. n \in DOMAIN words
      OBVIOUS
    <3> HIDE DEF words, V
    <3>2. QED
      BY <1>7, <3>1
  <2>2. Interned(arena, words[n])
    BY <1>4, <2>1 DEF Interned
  <2> HIDE DEF words, symbols
  <2>3. QED
    BY <1>8, <2>2, SymbolOf
<1>10. FoldBook(cache, b)
         = [n \in DOMAIN symbols |->
               [word |-> arena[symbols[n]], count |-> Cardinality(Holding(cache, b, symbols[n]))]]
  BY DEF FoldBook
<1>11. TextFold(cache, p, b)
         = [n \in DOMAIN words |->
               [word |-> words[n], count |-> Cardinality(TextHolding(cache, p, b, words[n]))]]
  BY DEF TextFold
<1>12. DOMAIN symbols = DOMAIN words
  BY <1>8
<1> HIDE DEF symbols, words
<1>13. \A n \in DOMAIN words :
          /\ arena[symbols[n]] = words[n]
          /\ Holding(cache, b, symbols[n]) = TextHolding(cache, p, b, words[n])
  BY <1>3, <1>9
<1>14. QED
  BY <1>10, <1>11, <1>12, <1>13

(***************************************************************************)
(* Every step keeps the invariant.                                         *)
(***************************************************************************)
LEMMA InitHolds == Init => IInv
<1> SUFFICES ASSUME Init
             PROVE  IInv
  OBVIOUS
<1> USE DEF Init
<1>1. \A p \in Substrates, c \in Chapters : observed[p][c] = Absent
  BY DEF NoObservations
<1>2. TypeInv
  <2>1. << >> \in Seq(ToSet(Words)) /\ IsInjective(<< >>)
    BY DEF IsInjective
  <2>2. QED
    BY <2>1 DEF TypeInv, TypeOK
<1>3. ObservationsName /\ ObservedBooksHeld
  BY <1>1 DEF ObservationsName, ObservedBooksHeld
<1>4. ContributionIsOfTheText
  <2>1. \A p \in Substrates, b \in Slugs : TextFold(observed[p], p, b) = << >>
    BY <1>1, TextFoldOfNothing
  <2>2. \A p \in Substrates, b \in Slugs : contribution[p][b] = << >>
    BY DEF NoBooks
  <2> HIDE DEF Init
  <2>3. QED
    BY <2>1, <2>2 DEF ContributionIsOfTheText
<1>5. Scheduled
  BY DEF Scheduled
<1>6. QED
  BY <1>2, <1>3, <1>4, <1>5 DEF IInv, NoMissedSlot

(* An edit of the corpus: reconciled books lose their observations and     *)
(* their contribution together, and no other book is disturbed.            *)
LEMMA EditHolds ==
    ASSUME IInv, NEW held \in Corpora, Edit(held)
    PROVE  IInv'
<1> DEFINE left == BooksIn(corpus) \ BooksIn(held)
<1>1. /\ pc = "idle" /\ pc' = pc /\ arena' = arena /\ corpus' = held /\ dirty' = {}
      /\ active' = active /\ work' = work /\ bundles' = bundles /\ route' = route
      /\ owesAll' = (owesAll \/ \E b \in left : contribution[MixedCase][b] # << >>)
  BY DEF Edit, KeptArena, call
<1>2. \A p \in Substrates, c \in Chapters :
         observed'[p][c] = IF BookOf(c) \in left THEN Absent ELSE observed[p][c]
  BY DEF Edit
<1>3. \A p \in Substrates, b \in Slugs :
         contribution'[p][b] = IF b \in left THEN << >> ELSE contribution[p][b]
  BY DEF Edit
<1>4. work = << >> /\ work' = << >>
  BY <1>1 DEF IInv, TypeInv
<1> HIDE DEF left
<1>5. TypeInv'
  <2>1. TypeOK'
    BY <1>1 DEF IInv, TypeInv, TypeOK
  <2>2. QED
    BY <1>1, <2>1 DEF IInv, TypeInv
<1>6. ObservationsName'
  BY <1>1, <1>2 DEF IInv, ObservationsName, Names
<1>7. ObservedBooksHeld'
  BY <1>1, <1>2 DEF IInv, ObservedBooksHeld, left
<1>8. ContributionIsOfTheText'
  <2> SUFFICES ASSUME NEW p \in Substrates, NEW b \in Slugs
               PROVE  contribution'[p][b] = TextFold(observed'[p], p, b)
    BY DEF ContributionIsOfTheText
  <2>1. CASE b \in left
    <3>1. \A c \in Chapters : BookOf(c) = b => observed'[p][c] = Absent
      BY <1>2, <2>1
    <3>2. TextFold(observed'[p], p, b) = << >>
      BY <3>1, TextFoldOfNothing
    <3>3. QED
      BY <1>3, <2>1, <3>2
  <2>2. CASE b \notin left
    <3>1. \A c \in Chapters : BookOf(c) = b => observed'[p][c] = observed[p][c]
      BY <1>2, <2>2
    <3>2. TextFold(observed'[p], p, b) = TextFold(observed[p], p, b)
      BY <3>1, TextFoldIsLocal
    <3>3. QED
      BY <1>3, <2>2, <3>2 DEF IInv, ContributionIsOfTheText
  <2>3. QED
    BY <2>1, <2>2
<1>9. Scheduled'
  BY <1>4 DEF Scheduled
<1>10. QED
  BY <1>1, <1>5, <1>6, <1>7, <1>8, <1>9 DEF IInv, NoMissedSlot

LEMMA ClearHolds ==
    ASSUME IInv, Clear
    PROVE  IInv'
<1>1. /\ pc = "idle" /\ pc' = pc /\ arena' = << >> /\ corpus' = corpus /\ dirty' = {}
      /\ active' = active /\ work' = work /\ bundles' = bundles /\ route' = route
      /\ owesAll' = TRUE
  BY DEF Clear, call
<1>2. \A p \in Substrates, c \in Chapters : observed'[p][c] = Absent
  BY DEF Clear, NoObservations
<1>3. \A p \in Substrates, b \in Slugs : contribution'[p][b] = << >>
  BY DEF Clear, NoBooks
<1>4. work = << >> /\ work' = << >>
  BY <1>1 DEF IInv, TypeInv
<1>5. TypeInv'
  <2>1. << >> \in Seq(ToSet(Words)) /\ IsInjective(<< >>)
    BY DEF IsInjective
  <2>2. TypeOK'
    BY <1>1, <2>1 DEF IInv, TypeInv, TypeOK
  <2>3. QED
    BY <1>1, <2>2 DEF IInv, TypeInv
<1>6. ObservationsName' /\ ObservedBooksHeld'
  BY <1>2 DEF ObservationsName, ObservedBooksHeld
<1>7. ContributionIsOfTheText'
  <2>1. \A p \in Substrates, b \in Slugs : TextFold(observed'[p], p, b) = << >>
    BY <1>2, TextFoldOfNothing
  <2>2. QED
    BY <1>3, <2>1 DEF ContributionIsOfTheText
<1>8. Scheduled'
  BY <1>4 DEF Scheduled
<1>9. QED
  BY <1>1, <1>5, <1>6, <1>7, <1>8 DEF IInv, NoMissedSlot

LEMMA EnableHolds ==
    ASSUME IInv, NEW set \in SUBSET Substrates, Enable(set)
    PROVE  IInv'
<1>1. /\ pc = "idle" /\ pc' = pc /\ arena' = arena /\ corpus' = corpus /\ dirty' = {}
      /\ active' = set /\ work' = work /\ bundles' = bundles /\ route' = route
      /\ owesAll' = owesAll /\ observed' = observed /\ contribution' = contribution
  BY DEF Enable, call
<1>2. work = << >> /\ work' = << >>
  BY <1>1 DEF IInv, TypeInv
<1>3. TypeInv'
  <2>1. TypeOK'
    BY <1>1 DEF IInv, TypeInv, TypeOK
  <2>2. QED
    BY <1>1, <2>1 DEF IInv, TypeInv
<1>4. ObservationsName' /\ ObservedBooksHeld' /\ ContributionIsOfTheText'
  BY <1>1 DEF IInv, ObservationsName, ObservedBooksHeld, ContributionIsOfTheText, Names
<1>5. Scheduled'
  BY <1>2 DEF Scheduled
<1>6. QED
  BY <1>1, <1>3, <1>4, <1>5 DEF IInv, NoMissedSlot

(* The work list names every chapter some active participant has to map.   *)
LEMMA WorkListCovers ==
    /\ \A c \in Present(corpus) : \A p \in Enrolled(c) :
          \E i \in DOMAIN WorkList :
              WorkList[i].chapter = c /\ p \in WorkList[i].participants
    /\ \A i \in DOMAIN WorkList :
          /\ WorkList[i].chapter \in Present(corpus)
          /\ WorkList[i].participants \subseteq active
<1> DEFINE S == { c \in Present(corpus) : Enrolled(c) # {} }
           stale == Selected(Layout, S)
<1>1. WorkList = [i \in DOMAIN stale |-> [chapter |-> stale[i], participants |-> Enrolled(stale[i])]]
  BY DEF WorkList
<1>2. Layout \in Seq(Chapters) /\ \A c \in Chapters : \E i \in 1 .. Len(Layout) : Layout[i] = c
  <2>1. Layout \in Seq(Chapters)
    BY MapAssumption DEF Chapters
  <2>2. DOMAIN Layout = 1 .. Len(Layout)
    BY <2>1
  <2>3. Chapters = { Layout[i] : i \in DOMAIN Layout }
    BY DEF Chapters, ToSet
  <2>4. QED
    BY <2>1, <2>2, <2>3
<1>3. /\ stale \in Seq(Chapters)
      /\ \A c : (\E i \in 1 .. Len(stale) : stale[i] = c)
                   <=> c \in S /\ \E i \in 1 .. Len(Layout) : Layout[i] = c
  <2>1. Layout \in Seq(Chapters)
    BY <1>2
  <2> HIDE DEF S
  <2>2. QED
    BY <2>1, SelectedElements
<1> HIDE DEF stale
<1>4. DOMAIN stale = 1 .. Len(stale)
  BY <1>3
<1>5. S \subseteq Chapters
  BY DEF Present
<1>6. ASSUME NEW c \in Present(corpus), NEW p \in Enrolled(c)
      PROVE  \E i \in DOMAIN WorkList :
                WorkList[i].chapter = c /\ p \in WorkList[i].participants
  <2>1. c \in S
    BY <1>6
  <2>2. PICK i \in 1 .. Len(stale) : stale[i] = c
    BY <1>2, <1>3, <1>5, <2>1
  <2>3. QED
    BY <1>1, <1>4, <2>2
<1>7. ASSUME NEW i \in DOMAIN WorkList
      PROVE  /\ WorkList[i].chapter \in Present(corpus)
             /\ WorkList[i].participants \subseteq active
  <2>1. i \in 1 .. Len(stale)
    BY <1>1, <1>4
  <2>2. stale[i] \in S
    <3> HIDE DEF S
    <3>1. QED
      BY <1>3, <2>1
  <2>3. QED
    BY <1>1, <1>4, <2>1, <2>2 DEF Enrolled
<1>8. QED
  BY <1>6, <1>7

LEMMA PlanHolds ==
    ASSUME IInv, Plan
    PROVE  IInv'
<1>1. /\ pc = "idle" /\ pc' = "map" /\ arena' = arena /\ corpus' = corpus /\ dirty' = {}
      /\ active' = active /\ work' = WorkList
      /\ owesAll' = (owesAll \/ MixedCase \notin active)
  BY DEF Plan
<1>2. \A p \in Substrates, c \in Chapters :
         /\ p \in active => observed'[p][c] = observed[p][c]
         /\ p \notin active => observed'[p][c] = Absent
  BY DEF Plan, Kept, NoObservations
<1>3. \A p \in Substrates, b \in Slugs :
         /\ p \in active => contribution'[p][b] = contribution[p][b]
         /\ p \notin active => contribution'[p][b] = << >>
  BY DEF Plan, Kept, NoBooks
<1>4. bundles' = [i \in DOMAIN work' |-> Nothing]
  BY DEF Plan
<1>5. route' \in {"Serial", "Books", "Chapters"}
  BY DEF Plan, Routes
<1>6. active \subseteq Substrates
  BY DEF IInv, TypeInv
<1>7. TypeInv'
  <2>1. TypeOK'
    BY <1>1, <1>4, <1>5 DEF IInv, TypeInv, TypeOK
  <2>2. QED
    BY <1>1, <2>1 DEF IInv, TypeInv
<1>8. ObservationsName' /\ ObservedBooksHeld'
  BY <1>1, <1>2 DEF IInv, ObservationsName, ObservedBooksHeld, Names
<1>9. ContributionIsOfTheText'
  <2> SUFFICES ASSUME NEW p \in Substrates, NEW b \in Slugs
               PROVE  contribution'[p][b] = TextFold(observed'[p], p, b)
    BY DEF ContributionIsOfTheText
  <2>1. CASE p \in active
    <3>1. TextFold(observed'[p], p, b) = TextFold(observed[p], p, b)
      BY <1>2, <2>1, TextFoldIsLocal
    <3>2. QED
      BY <1>3, <2>1, <3>1 DEF IInv, ContributionIsOfTheText
  <2>2. CASE p \notin active
    <3>1. TextFold(observed'[p], p, b) = << >>
      BY <1>2, <2>2, TextFoldOfNothing
    <3>2. QED
      BY <1>3, <2>2, <3>1
  <2>3. QED
    BY <2>1, <2>2
<1>10. Covered'
  <2> SUFFICES ASSUME NEW p \in active, NEW c \in Asked(p)'
               PROVE  \E i \in DOMAIN WorkList :
                         WorkList[i].chapter = c /\ p \in WorkList[i].participants
    BY <1>1 DEF Covered
  <2>1. c \in Present(corpus) /\ p \in Enrolled(c)
    BY <1>1, <1>2, <1>6 DEF Asked, Enrolled, Current, Present
  <2>2. QED
    BY <2>1, WorkListCovers
<1>11. Scheduled'
  <2>1. \A i \in DOMAIN work' : bundles'[i] = Nothing
    BY <1>4
  <2>2. DOMAIN Nothing = Substrates /\ \A p \in Substrates : Nothing[p] = Absent
    BY DEF Nothing
  <2> HIDE DEF WorkList
  <2>3. QED
    BY <1>1, <1>6, <2>1, <2>2, WorkListCovers DEF Scheduled, Present
<1>12. QED
  BY <1>1, <1>7, <1>8, <1>9, <1>10, <1>11 DEF IInv, NoMissedSlot

(* A worker's batch, whichever worker takes the lock next: the table grows *)
(* under every observation held, in the cache or by another task.          *)
LEMMA MapHolds ==
    ASSUME IInv, NEW i \in DOMAIN work, NEW n \in DOMAIN Participants, MapParticipant(i, n)
    PROVE  IInv'
<1> DEFINE p == Participants[n]
           content == corpus[work[i].chapter]
           keys == KeysOf(p, content)
           symbols == [m \in DOMAIN keys |-> SymbolIn(arena', keys[m])]
           observation == [stamp |-> content, keys |-> symbols]
<1>1. /\ pc = "map" /\ pc' = pc /\ corpus' = corpus /\ active' = active /\ route' = route
      /\ observed' = observed /\ contribution' = contribution /\ dirty' = dirty
      /\ owesAll' = owesAll /\ work' = work
      /\ p \in work[i].participants
      /\ arena' = Grown(keys)
      /\ bundles' = [bundles EXCEPT ![i][p] = observation]
  BY DEF MapParticipant, Filled
<1>2. /\ p \in Substrates /\ content \in Contents /\ keys \in Seq(Folded)
      /\ work[i].chapter \in Present(corpus)
  <2>1. p \in Substrates /\ work[i].chapter \in Present(corpus)
    BY <1>1 DEF IInv, Scheduled
  <2>2. content \in Contents
    BY <2>1, MapAssumption DEF IInv, TypeInv, Present
  <2>3. QED
    BY <2>1, <2>2, MapAssumption DEF Substrates, Folded
<1>3. arena \in Seq(Folded) /\ IsInjective(arena)
  BY DEF IInv, TypeInv, TypeOK, Folded
<1>4. /\ arena' \in Seq(Folded) /\ IsInjective(arena')
      /\ Extends(arena', arena)
      /\ \A m \in 1 .. Len(keys) : Interned(arena', keys[m])
  BY <1>1, <1>2, <1>3, GrownTable
<1>5. \A s \in DOMAIN arena : s \in DOMAIN arena' /\ arena'[s] = arena[s]
  BY <1>3, <1>4 DEF Extends
<1>6. ASSUME NEW o, NEW q, NEW x, Names(o, q, x)
      PROVE  /\ o.stamp = x
             /\ DOMAIN o.keys = DOMAIN KeysOf(q, x)
             /\ \A m \in DOMAIN KeysOf(q, x) :
                   o.keys[m] \in DOMAIN arena' /\ arena'[o.keys[m]] = KeysOf(q, x)[m]
  BY <1>5, <1>6 DEF Names
<1>7. /\ DOMAIN symbols = DOMAIN keys
      /\ \A m \in DOMAIN keys : symbols[m] \in DOMAIN arena' /\ arena'[symbols[m]] = keys[m]
  <2>1. DOMAIN keys = 1 .. Len(keys)
    BY <1>2
  <2>2. \A m \in DOMAIN keys :
           /\ SymbolIn(arena', keys[m]) \in DOMAIN arena'
           /\ arena'[SymbolIn(arena', keys[m])] = keys[m]
    <3> HIDE DEF keys
    <3>1. QED
      BY <1>4, <2>1, SymbolOf
  <2> HIDE DEF keys
  <2>3. QED
    BY <2>2
<1> HIDE DEF symbols
<1>8. observation.stamp = content /\ observation.keys = symbols
  OBVIOUS
<1> HIDE DEF observation
<1>9. TypeInv'
  <2>1. DOMAIN bundles' = DOMAIN work'
    BY <1>1 DEF IInv, TypeInv, TypeOK
  <2>2. TypeOK'
    BY <1>1, <1>4, <2>1 DEF IInv, TypeInv, TypeOK, Folded, Present
  <2>3. QED
    BY <1>1, <2>2 DEF IInv, TypeInv
<1>10. ObservationsName'
  <2> SUFFICES ASSUME NEW q \in Substrates, NEW c \in Chapters, observed[q][c] # Absent
               PROVE  \E x \in Contents : Names(observed[q][c], q, x)'
    BY <1>1 DEF ObservationsName
  <2>1. PICK x \in Contents : Names(observed[q][c], q, x)
    BY DEF IInv, ObservationsName
  <2>2. /\ observed[q][c].stamp = x
        /\ DOMAIN observed[q][c].keys = DOMAIN KeysOf(q, x)
        /\ \A m \in DOMAIN KeysOf(q, x) :
              /\ observed[q][c].keys[m] \in DOMAIN arena'
              /\ arena'[observed[q][c].keys[m]] = KeysOf(q, x)[m]
    BY <1>6, <2>1
  <2>3. observed' = observed
    BY <1>1
  <2>4. Names(observed[q][c], q, x)'
    BY <2>2, <2>3 DEF Names
  <2>5. QED
    BY <2>4
<1>11. ObservedBooksHeld' /\ ContributionIsOfTheText'
  BY <1>1 DEF IInv, ObservedBooksHeld, ContributionIsOfTheText
<1>12. Covered'
  BY <1>1 DEF IInv, Covered, Asked, Present
<1>13. Scheduled'
  <2>1. Scheduled /\ DOMAIN bundles = DOMAIN work
    BY DEF IInv, TypeInv, TypeOK
  <2>2. ASSUME NEW j \in DOMAIN work
        PROVE  DOMAIN bundles'[j] = Substrates
    BY <1>1, <2>1, <2>2 DEF Scheduled
  <2>3. ASSUME NEW j \in DOMAIN work, NEW q \in Substrates, bundles'[j][q] # Absent
        PROVE  Names(bundles[j][q], q, corpus[work[j].chapter])'
    <3>1. CASE j = i /\ q = p
      <4>1. bundles'[j][q] = observation
        BY <1>1, <2>1, <3>1 DEF Scheduled
      <4>2. QED
        BY <1>1, <1>7, <1>8, <3>1, <4>1 DEF Names
    <3>2. CASE ~ (j = i /\ q = p)
      <4>1. bundles'[j][q] = bundles[j][q]
        BY <1>1, <2>1, <3>2 DEF Scheduled
      <4>2. Names(bundles[j][q], q, corpus[work[j].chapter])
        BY <2>1, <2>3, <4>1 DEF Scheduled
      <4>3. QED
        BY <1>1, <1>6, <4>1, <4>2 DEF Names
    <3>3. QED
      BY <3>1, <3>2
  <2>4. QED
    BY <1>1, <2>1, <2>2, <2>3 DEF Scheduled, Present
<1>14. QED
  BY <1>1, <1>9, <1>10, <1>11, <1>12, <1>13 DEF IInv, NoMissedSlot

LEMMA FailHolds ==
    ASSUME IInv, Fail
    PROVE  IInv'
<1>1. /\ pc' = "idle" /\ arena' = arena /\ corpus' = corpus /\ active' = active
      /\ observed' = observed /\ contribution' = contribution /\ dirty' = dirty
      /\ owesAll' = owesAll /\ work' = << >> /\ bundles' = << >> /\ route' = "Serial"
  BY DEF Fail, Ended, resident
<1>2. TypeInv'
  <2>1. TypeOK'
    BY <1>1 DEF IInv, TypeInv, TypeOK, Present
  <2>2. QED
    BY <1>1, <2>1 DEF IInv, TypeInv
<1>3. ObservationsName' /\ ObservedBooksHeld' /\ ContributionIsOfTheText'
  BY <1>1 DEF IInv, ObservationsName, ObservedBooksHeld, ContributionIsOfTheText, Names
<1>4. Scheduled'
  BY <1>1 DEF Scheduled
<1>5. QED
  BY <1>1, <1>2, <1>3, <1>4 DEF IInv, NoMissedSlot

(***************************************************************************)
(* Past the join.                                                          *)
(***************************************************************************)
(* Once every task has ended, each slot update_book takes from holds an    *)
(* observation of the chapter's present text.                              *)
LEMMA SlotsFilled ==
    ASSUME IInv, Joined, NEW p \in active, NEW c \in Asked(p)
    PROVE  /\ Slot(p, c) # {}
           /\ \A o \in Slot(p, c) : Names(o, p, corpus[c])
<1>1. p \in Substrates
  BY DEF IInv, TypeInv
<1>2. \A i \in DOMAIN work : p \in work[i].participants =>
          bundles[i][p] # Absent /\ Names(bundles[i][p], p, corpus[work[i].chapter])
  BY <1>1 DEF IInv, Scheduled, Joined, Mapped
<1>3. \E i \in DOMAIN work : work[i].chapter = c /\ p \in work[i].participants
  BY DEF IInv, Covered, Joined
<1>4. QED
  BY <1>2, <1>3 DEF Slot

LEMMA NoneMissed ==
    ASSUME IInv, Joined
    PROVE  ~ Missed
BY SlotsFilled DEF Missed

(* What an active participant keeps of a call: the words of every present  *)
(* chapter, remapped or reused.                                            *)
LEMMA ObservationsAreCurrent ==
    ASSUME IInv, Joined, NEW p \in active, NEW c \in Chapters
    PROVE  /\ corpus[c] = Absent => Observations(p)[c] = Absent
           /\ corpus[c] # Absent =>
                 corpus[c] \in Contents /\ Names(Observations(p)[c], p, corpus[c])
<1>1. p \in Substrates /\ corpus \in Corpora
  BY DEF IInv, TypeInv
<1>2. corpus[c] # Absent => corpus[c] \in Contents
  BY <1>1, MapAssumption
<1>3. CASE corpus[c] = Absent
  BY <1>3 DEF Observations
<1>4. CASE c \in Asked(p)
  <2> DEFINE o == CHOOSE e \in Slot(p, c) : TRUE
  <2>1. corpus[c] # Absent
    BY <1>4 DEF Asked, Present
  <2>2. Slot(p, c) # {} /\ \A e \in Slot(p, c) : Names(e, p, corpus[c])
    BY <1>4, SlotsFilled
  <2>3. o \in Slot(p, c)
    BY <2>2
  <2>4. Observations(p)[c] = o
    BY <1>4, <2>1 DEF Observations
  <2> HIDE DEF o
  <2>5. QED
    BY <1>2, <2>1, <2>2, <2>3, <2>4
<1>5. CASE corpus[c] # Absent /\ c \notin Asked(p)
  <2>1. Observations(p)[c] = observed[p][c]
    BY <1>5 DEF Observations
  <2>2. observed[p][c] # Absent /\ observed[p][c].stamp = corpus[c]
    BY <1>5 DEF Asked, Present
  <2>3. PICK x \in Contents : Names(observed[p][c], p, x)
    BY <1>1, <2>2 DEF IInv, ObservationsName
  <2>4. x = corpus[c]
    BY <2>2, <2>3 DEF Names
  <2>5. QED
    BY <1>5, <2>1, <2>3, <2>4
<1>6. QED
  BY <1>3, <1>4, <1>5

(* The call that ends: what it keeps, folds and owes.                      *)
LEMMA UpdateHolds ==
    ASSUME IInv, Joined, Update, Ended, UNCHANGED <<corpus, active>>
    PROVE  IInv'
<1>1. /\ pc' = "idle" /\ arena' = arena /\ corpus' = corpus /\ active' = active
      /\ work' = << >> /\ bundles' = << >> /\ route' = "Serial"
      /\ owesAll' = (MixedCase \notin active)
  BY DEF Update, Ended
<1>2. \A p \in Substrates :
         /\ p \in active => observed'[p] = Observations(p)
         /\ p \notin active => observed'[p] = observed[p]
  BY DEF Update
<1>3. \A p \in Substrates, b \in Slugs :
         /\ p \in active /\ b \in BooksIn(corpus) => contribution'[p][b] = FoldBook(observed'[p], b)
         /\ p \notin active \/ b \notin BooksIn(corpus) => contribution'[p][b] = contribution[p][b]
  BY DEF Update
<1>4. arena \in Seq(Folded) /\ IsInjective(arena) /\ active \subseteq Substrates
  BY DEF IInv, TypeInv, TypeOK, Folded
<1>5. TypeInv'
  <2>1. dirty' \subseteq Present(corpus)
    BY DEF Update, Dirtied
  <2>2. TypeOK'
    BY <1>1, <2>1 DEF IInv, TypeInv, TypeOK, Present
  <2>3. QED
    BY <1>1, <2>2 DEF IInv, TypeInv
<1>6. \A p \in active, c \in Chapters :
         /\ corpus[c] = Absent => observed'[p][c] = Absent
         /\ corpus[c] # Absent =>
               corpus[c] \in Contents /\ Names(observed'[p][c], p, corpus[c])
  BY <1>2, <1>4, ObservationsAreCurrent
<1>7. \A p \in Substrates, c \in Chapters :
         observed'[p][c] # Absent => \E x \in Contents : Names(observed'[p][c], p, x)
  <2> SUFFICES ASSUME NEW p \in Substrates, NEW c \in Chapters, observed'[p][c] # Absent
               PROVE  \E x \in Contents : Names(observed'[p][c], p, x)
    OBVIOUS
  <2>1. CASE p \in active
    BY <1>6, <2>1
  <2>2. CASE p \notin active
    BY <1>2, <2>2 DEF IInv, ObservationsName
  <2>3. QED
    BY <2>1, <2>2
<1>8. ObservationsName'
  BY <1>1, <1>7 DEF ObservationsName, Names
<1>9. ObservedBooksHeld'
  <2> SUFFICES ASSUME NEW p \in Substrates, NEW c \in Chapters, observed'[p][c] # Absent
               PROVE  BookOf(c) \in BooksIn(corpus)
    BY <1>1 DEF ObservedBooksHeld, BooksIn, Present
  <2>1. CASE p \in active
    BY <1>6, <2>1 DEF BooksIn, Present
  <2>2. CASE p \notin active
    BY <1>2, <2>2 DEF IInv, ObservedBooksHeld
  <2>3. QED
    BY <2>1, <2>2
<1>10. ContributionIsOfTheText'
  <2> SUFFICES ASSUME NEW p \in Substrates, NEW b \in Slugs
               PROVE  contribution'[p][b] = TextFold(observed'[p], p, b)
    BY DEF ContributionIsOfTheText
  <2>1. contribution[p][b] = TextFold(observed[p], p, b)
    BY DEF IInv, ContributionIsOfTheText
  <2>2. CASE p \notin active
    BY <1>2, <1>3, <2>1, <2>2
  <2>3. CASE p \in active /\ b \in BooksIn(corpus)
    <3>1. \A c \in Chapters : observed'[p][c] # Absent =>
             \E x \in Contents : Names(observed'[p][c], p, x)
      BY <1>7
    <3>2. FoldBook(observed'[p], b) = TextFold(observed'[p], p, b)
      BY <1>4, <3>1, FoldIsOfTheText
    <3>3. QED
      BY <1>3, <2>3, <3>2
  <2>4. CASE p \in active /\ b \notin BooksIn(corpus)
    <3>1. \A c \in Chapters : BookOf(c) = b => observed[p][c] = Absent
      BY <2>4 DEF IInv, ObservedBooksHeld
    <3>2. \A c \in Chapters : BookOf(c) = b => observed'[p][c] = Absent
      BY <1>6, <2>4 DEF BooksIn, Present
    <3>3. TextFold(observed'[p], p, b) = TextFold(observed[p], p, b)
      BY <3>1, <3>2, TextFoldIsLocal
    <3>4. QED
      BY <1>3, <2>1, <2>4, <3>3
  <2>5. QED
    BY <2>2, <2>3, <2>4
<1>11. Scheduled'
  BY <1>1 DEF Scheduled
<1>12. QED
  BY <1>1, <1>5, <1>8, <1>9, <1>10, <1>11 DEF IInv, NoMissedSlot

LEMMA StepHolds == IInv /\ [Next]_vars => IInv'
<1> SUFFICES ASSUME IInv, [Next]_vars
             PROVE  IInv'
  OBVIOUS
<1>1. ASSUME NEW held \in Corpora, Edit(held)
      PROVE  IInv'
  BY <1>1, EditHolds
<1>2. ASSUME NEW set \in SUBSET Substrates, Enable(set)
      PROVE  IInv'
  BY <1>2, EnableHolds
<1>3. CASE Clear
  BY <1>3, ClearHolds
<1>4. CASE Plan
  BY <1>4, PlanHolds
<1>5. CASE MapStep
  BY <1>5, MapHolds DEF MapStep
<1>6. CASE Finish
  BY <1>6, NoneMissed, UpdateHolds DEF Finish
<1>7. CASE Fail
  BY <1>7, FailHolds
<1>8. CASE UNCHANGED vars
  <2>1. /\ corpus' = corpus /\ active' = active /\ arena' = arena /\ observed' = observed
        /\ contribution' = contribution /\ owesAll' = owesAll /\ dirty' = dirty /\ pc' = pc
        /\ route' = route /\ work' = work /\ bundles' = bundles
    BY <1>8 DEF vars, resident, call
  <2>2. TypeInv'
    BY <2>1 DEF IInv, TypeInv, TypeOK, Present
  <2>3. ObservationsName' /\ ObservedBooksHeld' /\ ContributionIsOfTheText'
    BY <2>1 DEF IInv, ObservationsName, ObservedBooksHeld, ContributionIsOfTheText, Names
  <2>4. (pc = "map" => Covered)' /\ Scheduled' /\ NoMissedSlot'
    BY <2>1 DEF IInv, Covered, Asked, Scheduled, Names, NoMissedSlot, Present
  <2>5. QED
    BY <2>2, <2>3, <2>4 DEF IInv
<1>9. QED
  BY <1>1, <1>2, <1>3, <1>4, <1>5, <1>6, <1>7, <1>8 DEF Next

LEMMA Invariance == Spec => []IInv
<1>1. QED
  BY InitHolds, StepHolds, PTL DEF Spec

(***************************************************************************)
(* The theorems.                                                           *)
(***************************************************************************)
(* The word table never repeats a word, whatever threads raced to intern   *)
(* it, and a call owes only chapters the corpus has.                       *)
THEOREM TypeCorrect == Spec => []TypeOK
<1>1. IInv => TypeOK
  BY DEF IInv, TypeInv
<1>2. QED
  BY <1>1, Invariance, PTL

(* intern_all and resolve_all: a symbol's meaning is permanent, so an      *)
(* observation of any earlier call still names the words of its text.      *)
THEOREM SymbolsKeepTheirMeaning == Spec => []ObservationsKeepTheirWords
<1>1. ASSUME IInv
      PROVE  ObservationsKeepTheirWords
  <2> SUFFICES ASSUME NEW p \in Substrates, NEW c \in Chapters, observed[p][c] # Absent
               PROVE  /\ ToSet(observed[p][c].keys) \subseteq DOMAIN arena
                      /\ Resolve(observed[p][c].keys) = KeysOf(p, observed[p][c].stamp)
    BY DEF ObservationsKeepTheirWords
  <2> DEFINE o == observed[p][c]
  <2>1. PICK x \in Contents : Names(o, p, x)
    BY <1>1 DEF IInv, ObservationsName
  <2>2. KeysOf(p, x) \in Seq(Folded)
    BY MapAssumption DEF Folded, Substrates
  <2> HIDE DEF o
  <2>3. /\ o.stamp = x /\ DOMAIN o.keys = DOMAIN KeysOf(p, x)
        /\ \A m \in DOMAIN KeysOf(p, x) :
              o.keys[m] \in DOMAIN arena /\ arena[o.keys[m]] = KeysOf(p, x)[m]
    BY <2>1 DEF Names
  <2>4. ToSet(o.keys) \subseteq DOMAIN arena
    BY <2>3 DEF ToSet
  <2>5. Resolve(o.keys) = KeysOf(p, o.stamp)
    <3>1. Resolve(o.keys) = [m \in DOMAIN KeysOf(p, x) |-> KeysOf(p, x)[m]]
      BY <2>3 DEF Resolve
    <3>2. KeysOf(p, x) = [m \in DOMAIN KeysOf(p, x) |-> KeysOf(p, x)[m]]
      BY <2>2
    <3>3. QED
      BY <2>3, <3>1, <3>2
  <2>6. QED
    BY <2>4, <2>5 DEF o
<1>2. QED
  BY <1>1, Invariance, PTL

(* MappedSlots::take never panics: the plan enrols every participation     *)
(* update_book asks for, after any edits, switches and failed calls.       *)
THEOREM NoSlotIsMissed == Spec => []NoMissedSlot
<1>1. IInv => NoMissedSlot
  BY DEF IInv
<1>2. QED
  BY <1>1, Invariance, PTL

(* A book's contribution is the fold of its texts in the words' order,     *)
(* whichever thread named a word first.                                    *)
THEOREM FoldsIgnoreNumbering == Spec => []ContributionIsOfTheText
<1>1. IInv => ContributionIsOfTheText
  BY DEF IInv
<1>2. QED
  BY <1>1, Invariance, PTL

(* chapters_with_any over symbols_of: a word whose count moved in some     *)
(* book of a call has all its judged chapters dirtied, in every book.      *)
THEOREM MovedWordsAreJudgedAgain == Spec => MovedWordsDirtyTheirChapters
<1> DEFINE Owes ==
        Finish /\ MixedCase \in active =>
          \A b \in Slugs, c \in Present(corpus) : \A w \in SitesOf(corpus[c]) :
              CountIn(contribution[MixedCase][b], w) # CountIn(contribution'[MixedCase][b], w)
                  => c \in dirty'
<1>1. ASSUME IInv, Finish, MixedCase \in active,
             NEW b \in Slugs, NEW c \in Present(corpus), NEW w \in SitesOf(corpus[c]),
             CountIn(contribution[MixedCase][b], w) # CountIn(contribution'[MixedCase][b], w)
      PROVE  c \in dirty'
  <2>1. Joined /\ Update
    BY <1>1, NoneMissed DEF Finish
  <2>2. CASE owesAll \/ ColdBook
    BY <1>1, <2>1, <2>2 DEF Update
  <2>3. CASE ~ (owesAll \/ ColdBook)
    <3> DEFINE words == UNION { Delta(contribution[MixedCase][e], contribution'[MixedCase][e])
                                  : e \in Slugs }
    <3>1. dirty' = Dirtied(observed'[MixedCase], words)
      BY <1>1, <2>1, <2>3 DEF Update
    <3>2. w \in words
      <4> DEFINE old == ToSet(contribution[MixedCase][b])
                 new == ToSet(contribution'[MixedCase][b])
      <4>1. \E row \in (old \ new) \cup (new \ old) : row.word = w
        BY <1>1 DEF CountIn
      <4>2. w \in Delta(contribution[MixedCase][b], contribution'[MixedCase][b])
        BY <4>1 DEF Delta
      <4>3. QED
        BY <4>2
    <3> HIDE DEF words
    <3> DEFINE x == corpus[c]
               o == observed'[MixedCase][c]
    <3>3. MixedCase \in Substrates /\ c \in Chapters /\ x # Absent
      BY MapAssumption DEF Substrates, Present
    <3>4. x \in Contents /\ Names(o, MixedCase, x)
      <4>1. o = Observations(MixedCase)[c]
        BY <1>1, <2>1, <3>3 DEF Update
      <4>2. QED
        BY <1>1, <2>1, <3>3, <4>1, ObservationsAreCurrent
    <3> HIDE DEF o
    <3>5. PICK m \in DOMAIN KeysOf(MixedCase, x) : KeysOf(MixedCase, x)[m] = w
      BY <3>4, MapAssumption DEF ToSet
    <3>6. o.stamp = x /\ o.keys[m] \in ToSet(o.keys) /\ o.keys[m] \in DOMAIN arena
          /\ arena[o.keys[m]] = w
      BY <3>4, <3>5 DEF Names, ToSet
    <3>7. o.keys[m] \in SiteSymbols(o) \cap SymbolsOf(words)
      BY <3>2, <3>6 DEF SiteSymbols, SymbolsOf
    <3>8. QED
      BY <3>1, <3>7 DEF Dirtied, o
  <2>4. QED
    BY <2>2, <2>3
<1>2. IInv /\ [Next]_vars => [Owes]_vars
  <2>1. IInv => Owes
    BY <1>1
  <2> HIDE DEF Owes
  <2>2. QED
    BY <2>1
<1>3. QED
  BY <1>2, Invariance, PTL DEF Spec, MovedWordsDirtyTheirChapters
==============================================================================
