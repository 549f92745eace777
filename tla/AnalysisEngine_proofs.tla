------------------------- MODULE AnalysisEngine_proofs -------------------------
(***************************************************************************)
(* Proofs about AnalysisEngine, for any finite set of chapters, any        *)
(* configurations and reference corpora, both kinds of stats delta and     *)
(* every armed fault boundary.                                             *)
(***************************************************************************)
EXTENDS AnalysisEngine, FiniteSetTheorems, FunctionTheorems, TLAPS

(***************************************************************************)
(* The inductive invariant.  What is published is cold because a commit    *)
(* leaves every chapter's record cold, and it does so for a chapter it     *)
(* does not rewrite only because the records it keeps are settled: the     *)
(* debt invariant, which has to survive failed attempts, withdrawn books   *)
(* and moved identities.                                                   *)
(***************************************************************************)
(* The cache never holds a book the corpus does not: an observation        *)
(* outlives its book in no verb.                                           *)
ObservedBooksHeld == BooksIn(observed) \subseteq BooksIn(corpus)

(* A prep product is of the fingerprint's configuration.                   *)
PrepIsOfFingerprint ==
    \A c \in Chapters :
        prep[c] = NoRecord \/ \E content \in Contents : prep[c] = DirectRecord(content, fingerprint)

(* What an attempt under way has planned.                                  *)
Planned ==
    /\ fingerprint = config
    /\ dirty \subseteq Present(corpus)
    /\ \A c \in Present(corpus) : prep[c] = DirectRecord(corpus[c], config)
    /\ \A c \in Present(corpus) \ dirty : stamps[c] = corpus[c]
    /\ ~ Active => pending = Cleared /\ patch = [NoPatch EXCEPT !.all = TRUE]

(* What it has judged.                                                     *)
Candidates ==
    [c \in Chapters |->
        IF c \in Present(corpus) /\ (patch.all \/ c \in patch.chapters)
        THEN JudgedRecord(corpus[c], config.knobs, tally) ELSE NoRecord]

JudgedFully ==
    /\ config.paired =>
          \A c \in Updated : paired[c] = IF corpus[c] = Absent THEN NoRecord ELSE PairedNow(c)
    /\ Active =>
          /\ observed = corpus
          /\ pending.candidate = Identity(config)
          /\ patch.all = RebuildAll(pending)
          /\ patch.chapters = IF patch.all THEN {} ELSE pending.chapters
          /\ patch.findings = Candidates

AttemptInv ==
    /\ pc # "idle" => Planned
    /\ pc = "judged" => JudgedFully

TypeInv ==
    /\ TypeOK
    /\ ObservedBooksHeld
    /\ PrepIsOfFingerprint

IInv ==
    /\ TypeInv
    /\ TallyIsSum
    /\ AttemptInv
    /\ DebtIsRecorded

(***************************************************************************)
(* Counting.                                                               *)
(***************************************************************************)
LEMMA CountType ==
    ASSUME NEW held, NEW S \in SUBSET Chapters, NEW w
    PROVE  /\ Count(held, S, w) \in Nat
           /\ Count(held, S, w) <= Cardinality(Chapters)
           /\ Cardinality(Chapters) \in Nat
<1>1. { c \in S : held[c] = w } \in SUBSET Chapters
  OBVIOUS
<1>2. QED
  BY <1>1, FS_Subset, FS_CardinalityType, EngineAssumption DEF Count

(* Chapters are counted in two parts. *)
LEMMA CountSplit ==
    ASSUME NEW held, NEW S \in SUBSET Chapters, NEW w
    PROVE  Count(held, Chapters, w) = Count(held, S, w) + Count(held, Chapters \ S, w)
<1> DEFINE A == { c \in S : held[c] = w }
           B == { c \in Chapters \ S : held[c] = w }
<1>1. A \in SUBSET Chapters /\ B \in SUBSET Chapters
  OBVIOUS
<1>2. IsFiniteSet(A) /\ IsFiniteSet(B)
  BY <1>1, FS_Subset, EngineAssumption
<1>3. A \cap B = {} /\ A \cup B = { c \in Chapters : held[c] = w }
  OBVIOUS
<1>4. Cardinality(A \cup B) = Cardinality(A) + Cardinality(B)
  <2> HIDE DEF A, B
  <2>1. Cardinality(A \cup B) = Cardinality(A) + Cardinality(B) - Cardinality(A \cap B)
    BY <1>2, FS_Union
  <2>2. Cardinality(A) \in Nat /\ Cardinality(B) \in Nat
    BY <1>2, FS_CardinalityType
  <2>3. Cardinality(A \cap B) = 0
    BY <1>3, FS_EmptySet
  <2>4. QED
    BY <2>1, <2>2, <2>3
<1>5. QED
  BY <1>3, <1>4 DEF Count

LEMMA CountSame ==
    ASSUME NEW held, NEW other, NEW S, NEW w, \A c \in S : held[c] = w <=> other[c] = w
    PROVE  Count(held, S, w) = Count(other, S, w)
<1>1. { c \in S : held[c] = w } = { c \in S : other[c] = w }
  OBVIOUS
<1>2. QED
  BY <1>1 DEF Count

LEMMA CountNone ==
    ASSUME NEW held, NEW S, NEW w, \A c \in S : held[c] # w
    PROVE  Count(held, S, w) = 0
<1>1. { c \in S : held[c] = w } = {}
  OBVIOUS
<1>2. QED
  BY <1>1, FS_EmptySet DEF Count

LEMMA BijectionPairs ==
    ASSUME NEW S, NEW T, NEW f \in Bijection(S, T)
    PROVE  /\ \A c \in S : f[c] \in T
           /\ \A c, d \in S : f[c] = f[d] => c = d
           /\ \A d \in T : \E c \in S : f[c] = d
  BY DEF Bijection, Injection, Surjection, IsInjective

(* A word every book counts as before is counted as before by all of them: *)
(* the books' bijections make one of their union.                          *)
LEMMA CountByBook ==
    ASSUME NEW held, NEW other, NEW B, NEW w,
           \A b \in B : Count(held, ChaptersOf(b), w) = Count(other, ChaptersOf(b), w)
    PROVE  LET S == UNION { ChaptersOf(b) : b \in B }
           IN  Count(held, S, w) = Count(other, S, w)
<1> DEFINE S == UNION { ChaptersOf(b) : b \in B }
           From(b) == { c \in ChaptersOf(b) : held[c] = w }
           To(b) == { c \in ChaptersOf(b) : other[c] = w }
           Pick(b) == CHOOSE f : f \in Bijection(From(b), To(b))
           AllFrom == { c \in S : held[c] = w }
           AllTo == { c \in S : other[c] = w }
           F == [c \in AllFrom |-> Pick(BookOf(c))[c]]
<1>1. \A b \in B : Pick(b) \in Bijection(From(b), To(b))
  <2> TAKE b \in B
  <2>1. From(b) \in SUBSET Chapters /\ To(b) \in SUBSET Chapters
    BY DEF ChaptersOf
  <2>2. IsFiniteSet(From(b)) /\ IsFiniteSet(To(b))
    BY <2>1, FS_Subset, EngineAssumption
  <2>3. Cardinality(From(b)) = Cardinality(To(b))
    BY DEF Count
  <2>4. Bijection(From(b), To(b)) # {}
    BY <2>2, <2>3, FS_SameCardinalityBij, Fun_ExistsBij
  <2>5. QED
    BY <2>4
<1>2. \A b \in B : /\ \A c \in From(b) : Pick(b)[c] \in To(b)
                   /\ \A c, d \in From(b) : Pick(b)[c] = Pick(b)[d] => c = d
                   /\ \A d \in To(b) : \E c \in From(b) : Pick(b)[c] = d
  <2> TAKE b \in B
  <2> HIDE DEF Pick, From, To
  <2>1. Pick(b) \in Bijection(From(b), To(b))
    BY <1>1
  <2>2. QED
    BY <2>1, BijectionPairs
<1> HIDE DEF Pick
<1>3. \A c \in S : BookOf(c) \in B /\ c \in ChaptersOf(BookOf(c))
  BY DEF ChaptersOf
<1>4. \A c \in AllFrom : c \in From(BookOf(c))
  BY <1>3
<1>5. \A b \in B : \A d \in To(b) : d \in AllTo /\ BookOf(d) = b
  BY DEF ChaptersOf
<1>6. F \in [AllFrom -> AllTo]
  BY <1>2, <1>3, <1>4, <1>5
<1>7. ASSUME NEW c \in AllFrom, NEW d \in AllFrom, F[c] = F[d]
      PROVE  c = d
  <2>1. BookOf(F[c]) = BookOf(c) /\ BookOf(F[d]) = BookOf(d)
    BY <1>2, <1>3, <1>4, <1>5
  <2>2. QED
    BY <1>2, <1>3, <1>4, <1>7, <2>1
<1>8. ASSUME NEW d \in AllTo
      PROVE  \E c \in AllFrom : F[c] = d
  <2>1. BookOf(d) \in B /\ d \in To(BookOf(d))
    BY <1>3
  <2>2. PICK c \in From(BookOf(d)) : Pick(BookOf(d))[c] = d
    BY <1>2, <2>1
  <2>3. c \in AllFrom /\ BookOf(c) = BookOf(d)
    BY <2>1 DEF ChaptersOf
  <2>4. QED
    BY <2>2, <2>3
<1>9. F \in Bijection(AllFrom, AllTo)
  BY <1>6, <1>7, <1>8 DEF Bijection, Injection, Surjection, IsInjective
<1>10. IsFiniteSet(AllFrom)
  <2>1. AllFrom \in SUBSET Chapters
    BY DEF ChaptersOf
  <2>2. QED
    BY <2>1, FS_Subset, EngineAssumption
<1>11. Cardinality(AllTo) = Cardinality(AllFrom)
  BY <1>9, <1>10, FS_Bijection, Fun_ExistsBij
<1>12. QED
  BY <1>11 DEF Count

(***************************************************************************)
(* The books of a corpus and their chapters.                               *)
(***************************************************************************)
LEMMA InBooks ==
    ASSUME NEW held, NEW c \in Chapters, held[c] # Absent
    PROVE  BookOf(c) \in BooksIn(held)
  BY DEF BooksIn, Present

LEMMA ChaptersOfBooks ==
    ASSUME NEW B
    PROVE  UNION { ChaptersOf(b) : b \in B } = { c \in Chapters : BookOf(c) \in B }
  BY DEF ChaptersOf

LEMMA UpdatedChapters ==
    /\ Updated = { c \in Chapters : BookOf(c) \in BooksIn(corpus) }
    /\ Present(corpus) \subseteq Updated
<1>1. Updated = { c \in Chapters : BookOf(c) \in BooksIn(corpus) }
  BY ChaptersOfBooks DEF Updated
<1>2. QED
  BY <1>1 DEF BooksIn, Present

(***************************************************************************)
(* The verbs.                                                              *)
(***************************************************************************)
(* Withdrawing chapters from the cache keeps what it owes in order: either *)
(* the aggregate did not move, or everything is owed.                      *)
LEMMA RemovalKeeps ==
    ASSUME TypeInv, TallyIsSum, DebtIsRecorded, NEW S \in SUBSET Chapters, RemoveFromCache(S)
    PROVE  /\ observed' \in Corpora /\ stamps' \in Corpora /\ pending' \in Pendings
           /\ tally' \in [Contents -> 0 .. Cardinality(Chapters)]
           /\ \A c \in Chapters : observed'[c] = IF c \in S THEN Absent ELSE observed[c]
           /\ PrepIsOfFingerprint'
           /\ TallyIsSum'
           /\ DebtIsRecorded'
<1> USE DEF RemoveFromCache, RemoveFromSubstrates, RemoveFromFindings
<1>1. \A c \in Chapters : observed'[c] = IF c \in S THEN Absent ELSE observed[c]
  BY DEF Without
<1>2. observed' \in Corpora /\ stamps' \in Corpora
  BY DEF Without, TypeInv, TypeOK, Corpora
<1>3. pending' \in Pendings
  BY DEF TypeInv, TypeOK, Pendings, OweAll
<1>4. PrepIsOfFingerprint'
  BY DEF TypeInv, PrepIsOfFingerprint, Without
<1>5. TallyIsSum'
  <2> SUFFICES ASSUME NEW w \in Contents
               PROVE  tally'[w] = Count(observed', Chapters, w)
    BY DEF TallyIsSum
  <2>1. Count(observed', S, w) = 0
    BY <1>1, CountNone, EngineAssumption
  <2>2. Count(observed', Chapters \ S, w) = Count(observed, Chapters \ S, w)
    BY <1>1, CountSame
  <2>3. Count(observed', Chapters, w) = Count(observed', S, w) + Count(observed', Chapters \ S, w)
    BY CountSplit
  <2>4. Count(observed, Chapters, w) = Count(observed, S, w) + Count(observed, Chapters \ S, w)
    BY CountSplit
  <2>5. Count(observed, S, w) \in Nat /\ Count(observed, Chapters \ S, w) \in Nat
    BY CountType
  <2>6. tally'[w] = Count(observed, Chapters, w) - Count(observed, S, w)
    BY DEF TallyIsSum
  <2>7. QED
    BY <2>1, <2>2, <2>3, <2>4, <2>5, <2>6
<1>6. tally' \in [Contents -> 0 .. Cardinality(Chapters)]
  <2>1. \A w \in Contents : tally'[w] \in 0 .. Cardinality(Chapters)
    BY <1>5, CountType DEF TallyIsSum
  <2>2. tally' = [w \in Contents |-> tally'[w]]
    OBVIOUS
  <2>3. QED
    BY <2>1, <2>2
<1>7. DebtIsRecorded'
  <2>1. CASE S \cap Present(observed) # {}
    <3>1. pending'.all
      BY <2>1 DEF OweAll, TypeInv, TypeOK, Pendings
    <3>2. QED
      BY <3>1 DEF DebtIsRecorded
  <2>2. CASE S \cap Present(observed) = {}
    <3>1. pending' = pending
      BY <2>2
    <3>2. \A c \in Chapters : observed'[c] = observed[c]
      BY <1>1, <2>2 DEF Present
    <3>3. observed' = observed
      BY <1>2, <3>2 DEF TypeInv, TypeOK, Corpora
    <3>4. \A w \in Contents : tally'[w] = tally[w]
      BY <1>5, <3>3 DEF TallyIsSum
    <3>5. tally' = tally
      BY <1>6, <3>4 DEF TypeInv, TypeOK
    <3>6. \A c \in Present(observed), r \in Consumers : judged'[r][c] = judged[r][c]
      BY <2>2 DEF Without, Present
    <3>7. QED
      BY <3>1, <3>3, <3>5, <3>6 DEF DebtIsRecorded, Settled, Present
  <2>3. QED
    BY <2>1, <2>2
<1>8. QED
  BY <1>1, <1>2, <1>3, <1>4, <1>5, <1>6, <1>7

(* A mutation that leaves the cache alone and loses no book.               *)
LEMMA InputsKeep ==
    ASSUME IInv, pc = "idle", UNCHANGED <<caches, partitions, attempt>>,
           corpus' \in Corpora, source' \in Sources, config' \in Configs, state' = "Dirty",
           BooksIn(corpus) \subseteq BooksIn(corpus')
    PROVE  IInv'
<1> USE DEF caches, partitions, attempt
<1>1. TypeOK'
  BY DEF IInv, TypeInv, TypeOK
<1>2. ObservedBooksHeld'
  <2>1. BooksIn(observed') = BooksIn(observed)
    OBVIOUS
  <2>2. QED
    BY <2>1 DEF IInv, TypeInv, ObservedBooksHeld
<1>3. PrepIsOfFingerprint' /\ TallyIsSum'
  BY DEF IInv, TypeInv, PrepIsOfFingerprint, TallyIsSum
<1>4. AttemptInv'
  BY DEF AttemptInv
<1>5. DebtIsRecorded'
  BY DEF IInv, DebtIsRecorded, Settled
<1>6. QED
  BY <1>1, <1>2, <1>3, <1>4, <1>5 DEF IInv, TypeInv

(* One that drops the chapters of the books that leave, and them only.     *)
LEMMA DepartureKeeps ==
    ASSUME IInv, NEW held \in Corpora, NEW S \in SUBSET Chapters,
           Adopt(held), RemoveFromCache(S),
           \A c \in Chapters \ S : BookOf(c) \in BooksIn(corpus) => BookOf(c) \in BooksIn(held)
    PROVE  IInv'
<1>1. /\ observed' \in Corpora /\ stamps' \in Corpora /\ pending' \in Pendings
      /\ tally' \in [Contents -> 0 .. Cardinality(Chapters)]
      /\ \A c \in Chapters : observed'[c] = IF c \in S THEN Absent ELSE observed[c]
      /\ PrepIsOfFingerprint' /\ TallyIsSum' /\ DebtIsRecorded'
  BY RemovalKeeps DEF IInv
<1>2. TypeOK'
  BY <1>1 DEF IInv, TypeInv, TypeOK, Adopt, attempt, RemoveFromCache
<1>3. ObservedBooksHeld'
  <2> SUFFICES ASSUME NEW c \in Chapters, observed'[c] # Absent
               PROVE  BookOf(c) \in BooksIn(held)
    BY DEF ObservedBooksHeld, BooksIn, Present, Adopt
  <2>1. c \notin S /\ observed[c] # Absent
    BY <1>1
  <2>2. BookOf(c) \in BooksIn(corpus)
    BY <2>1, InBooks DEF IInv, TypeInv, ObservedBooksHeld
  <2>3. QED
    BY <2>1, <2>2
<1>4. AttemptInv'
  BY DEF AttemptInv, Adopt, attempt
<1>5. QED
  BY <1>1, <1>2, <1>3, <1>4 DEF IInv, TypeInv

LEMMA UpdateBookKeeps ==
    ASSUME IInv, NEW b \in Books, NEW held \in Corpora, UpdateBook(b, held)
    PROVE  IInv'
<1>1. BooksIn(corpus) \subseteq BooksIn(held)
  <2> SUFFICES ASSUME NEW c \in Chapters, corpus[c] # Absent
               PROVE  BookOf(c) \in BooksIn(held)
    BY DEF BooksIn, Present
  <2>1. CASE c \in ChaptersOf(b)
    BY <2>1 DEF UpdateBook, ChaptersOf
  <2>2. CASE c \notin ChaptersOf(b)
    BY <2>2, InBooks DEF UpdateBook
  <2>3. QED
    BY <2>1, <2>2
<1>2. QED
  BY <1>1, InputsKeep DEF UpdateBook, Adopt, IInv, TypeInv, TypeOK

LEMMA UpdateChapterKeeps ==
    ASSUME IInv, NEW c \in Chapters, NEW content \in Contents, UpdateChapter(c, content)
    PROVE  IInv'
<1> DEFINE held == [corpus EXCEPT ![c] = content]
<1>1. held \in Corpora /\ corpus' = held
  BY DEF UpdateChapter, Adopt, IInv, TypeInv, TypeOK, Corpora
<1>2. \A d \in Chapters : corpus[d] # Absent => held[d] # Absent
  BY EngineAssumption DEF IInv, TypeInv, TypeOK, Corpora
<1>3. BooksIn(corpus) \subseteq BooksIn(held)
  BY <1>2 DEF BooksIn, Present
<1>4. QED
  BY <1>1, <1>3, InputsKeep DEF UpdateChapter, Adopt, IInv, TypeInv, TypeOK

LEMMA RemoveBooksKeeps ==
    ASSUME IInv, NEW slugs \in SUBSET Books, RemoveBooks(slugs)
    PROVE  IInv'
<1> DEFINE S == UNION { ChaptersOf(b) : b \in slugs \cap BooksIn(corpus) }
           held == Without(corpus, S, Absent)
<1>1. S = { c \in Chapters : BookOf(c) \in slugs \cap BooksIn(corpus) }
  BY ChaptersOfBooks
<1>2. Adopt(held) /\ RemoveFromCache(S)
  BY DEF RemoveBooks
<1>3. held \in Corpora
  BY DEF Without, IInv, TypeInv, TypeOK, Corpora
<1>4. ASSUME NEW c \in Chapters \ S, BookOf(c) \in BooksIn(corpus)
      PROVE  BookOf(c) \in BooksIn(held)
  <2>1. PICK d \in Chapters : BookOf(d) = BookOf(c) /\ corpus[d] # Absent
    BY <1>4 DEF BooksIn, Present
  <2>2. held[d] # Absent
    BY <1>1, <1>4, <2>1 DEF Without
  <2>3. QED
    BY <2>1, <2>2, InBooks
<1> HIDE DEF S, held
<1>5. S \in SUBSET Chapters
  BY <1>1
<1>6. QED
  BY <1>2, <1>3, <1>4, <1>5, DepartureKeeps

LEMMA ReplaceCorpusKeeps ==
    ASSUME IInv, NEW held \in Corpora, ReplaceCorpus(held)
    PROVE  IInv'
<1> DEFINE S == UNION { ChaptersOf(b) : b \in BooksIn(corpus) \ BooksIn(held) }
<1>1. S = { c \in Chapters : BookOf(c) \in BooksIn(corpus) \ BooksIn(held) }
  BY ChaptersOfBooks
<1>2. Adopt(held) /\ RemoveFromCache(S)
  BY DEF ReplaceCorpus
<1>3. QED
  BY <1>1, <1>2, DepartureKeeps

LEMMA ReplaceSourceKeeps ==
    ASSUME IInv, NEW ref \in Sources, ReplaceSource(ref)
    PROVE  IInv'
  BY InputsKeep DEF ReplaceSource, IInv, TypeInv, TypeOK

LEMMA UpdateConfigKeeps ==
    ASSUME IInv, NEW cfg \in Configs, UpdateConfig(cfg)
    PROVE  IInv'
  BY InputsKeep DEF UpdateConfig, IInv, TypeInv, TypeOK

(***************************************************************************)
(* The transition.                                                         *)
(***************************************************************************)
(* Mapping leaves every chapter of the corpus its own product.             *)
LEMMA MappedProducts ==
    ASSUME TypeInv
    PROVE  /\ \A c \in Chapters : \/ Mapped[c] = NoRecord
                                  \/ \E content \in Contents : Mapped[c] = DirectRecord(content, config)
           /\ \A c \in Present(corpus) : Mapped[c] = DirectRecord(corpus[c], config)
<1>1. ASSUME NEW c \in Chapters
      PROVE  \/ KeptPrep[c] = NoRecord
             \/ \E content \in Contents : KeptPrep[c] = DirectRecord(content, config)
  <2>1. CASE fingerprint = config
    BY <2>1 DEF KeptPrep, TypeInv, PrepIsOfFingerprint
  <2>2. CASE fingerprint # config
    BY <2>2 DEF KeptPrep, None
  <2>3. QED
    BY <2>1, <2>2
<1>2. \A c \in Present(corpus) : c \in Chapters /\ corpus[c] \in Contents
  BY DEF Present, TypeInv, TypeOK, Corpora
<1>3. MapNeeded \subseteq Present(corpus)
  BY DEF MapNeeded
<1>4. ASSUME NEW c \in Present(corpus)
      PROVE  Mapped[c] = DirectRecord(corpus[c], config)
  <2>1. CASE c \in MapNeeded
    BY <1>2, <2>1 DEF Mapped
  <2>2. CASE c \notin MapNeeded
    <3>1. KeptPrep[c].content = corpus[c]
      BY <2>2 DEF MapNeeded
    <3>2. KeptPrep[c] # NoRecord
      BY <1>2, <3>1, EngineAssumption DEF NoRecord
    <3>3. PICK content \in Contents : KeptPrep[c] = DirectRecord(content, config)
      BY <1>1, <1>2, <3>2
    <3>4. content = corpus[c]
      BY <3>1, <3>3 DEF DirectRecord
    <3>5. QED
      BY <1>2, <2>2, <3>3, <3>4 DEF Mapped
  <2>3. QED
    BY <2>1, <2>2
<1>5. QED
  BY <1>1, <1>2, <1>3, <1>4 DEF Mapped

LEMMA EmptyCounts == \A w \in Contents : Count(Empty, Chapters, w) = 0
<1>1. ASSUME NEW w \in Contents
      PROVE  Count(Empty, Chapters, w) = 0
  BY CountNone, EngineAssumption DEF Empty
<1>2. QED
  BY <1>1

LEMMA PlanKeeps ==
    ASSUME IInv, Plan
    PROVE  IInv'
<1> USE DEF Plan, inputs, partitions
<1>1. \A c \in Chapters : \/ prep'[c] = NoRecord
                          \/ \E content \in Contents : prep'[c] = DirectRecord(content, config)
  BY MappedProducts DEF IInv, Without
<1>2. \A c \in Present(corpus) : prep'[c] = DirectRecord(corpus[c], config)
  BY MappedProducts DEF IInv, Without, Present
<1>3. PrepIsOfFingerprint'
  BY <1>1 DEF PrepIsOfFingerprint
<1>4. Planned'
  <2>1. dirty' \subseteq Present(corpus)
    BY DEF DirectDirty, MapNeeded
  <2>2. \A c \in Present(corpus) \ dirty' : stamps'[c] = corpus[c]
    BY DEF DirectDirty
  <2>3. Present(corpus)' = Present(corpus)
    BY DEF Present
  <2>4. Active' = Active
    BY DEF Active
  <2>5. QED
    BY <1>2, <2>1, <2>2, <2>3, <2>4 DEF Planned
<1>5. AttemptInv'
  BY <1>4 DEF AttemptInv
<1>6. TallyIsSum'
  BY EmptyCounts DEF IInv, TallyIsSum, NoTally
<1>7. TypeOK'
  <2>1. observed' \in Corpora
    BY DEF IInv, TypeInv, TypeOK, Corpora, Empty
  <2>2. pending' \in Pendings
    BY DEF IInv, TypeInv, TypeOK, Pendings, Cleared, NothingOwed
  <2>3. tally' \in [Contents -> 0 .. Cardinality(Chapters)]
    <3>1. Cardinality(Chapters) \in Nat
      BY FS_CardinalityType, EngineAssumption
    <3>2. QED
      BY <3>1 DEF IInv, TypeInv, TypeOK, NoTally
  <2>4. dirty' \subseteq Chapters /\ stale' \in BOOLEAN
    BY DEF DirectDirty, MapNeeded, Present, CountsExceed
  <2>5. QED
    BY <2>1, <2>2, <2>3, <2>4 DEF IInv, TypeInv, TypeOK
<1>8. ObservedBooksHeld'
  <2>1. BooksIn(Empty) = {}
    BY DEF BooksIn, Present, Empty
  <2>2. BooksIn(corpus)' = BooksIn(corpus)
    BY DEF BooksIn, Present
  <2>3. CASE Active
    BY <2>2, <2>3 DEF IInv, TypeInv, ObservedBooksHeld
  <2>4. CASE ~ Active
    BY <2>1, <2>2, <2>4 DEF ObservedBooksHeld
  <2>5. QED
    BY <2>3, <2>4
<1>9. DebtIsRecorded'
  <2>1. CASE Active
    BY <2>1 DEF IInv, DebtIsRecorded, Settled
  <2>2. CASE ~ Active
    BY <2>2 DEF DebtIsRecorded, Cleared, NothingOwed
  <2>3. QED
    BY <2>1, <2>2
<1>10. QED
  BY <1>3, <1>5, <1>6, <1>7, <1>8, <1>9 DEF IInv, TypeInv

(* A failed attempt leaves the caches, and with them the debt.             *)
LEMMA FailKeeps ==
    ASSUME IInv, Fail
    PROVE  IInv'
<1> USE DEF Fail, inputs, caches, partitions
<1>1. TypeOK'
  BY DEF IInv, TypeInv, TypeOK
<1>2. ObservedBooksHeld' /\ PrepIsOfFingerprint' /\ TallyIsSum'
  BY DEF IInv, TypeInv, ObservedBooksHeld, PrepIsOfFingerprint, TallyIsSum
<1>3. AttemptInv'
  BY DEF AttemptInv
<1>4. DebtIsRecorded'
  BY DEF IInv, DebtIsRecorded, Settled
<1>5. QED
  BY <1>1, <1>2, <1>3, <1>4 DEF IInv, TypeInv

(* Once every book of the corpus is reduced the cache stands for the whole *)
(* corpus, and for nothing else.                                           *)
LEMMA CacheStandsForCorpus ==
    ASSUME TypeInv
    PROVE  /\ [c \in Chapters |-> IF c \in Updated THEN corpus[c] ELSE observed[c]] = corpus
           /\ \A c \in Chapters \ Updated : corpus[c] = Absent /\ observed[c] = Absent
<1>1. ASSUME NEW c \in Chapters \ Updated
      PROVE  corpus[c] = Absent /\ observed[c] = Absent
  <2>1. BookOf(c) \notin BooksIn(corpus)
    BY UpdatedChapters
  <2>2. QED
    BY <2>1, InBooks DEF TypeInv, ObservedBooksHeld
<1>2. QED
  BY <1>1 DEF TypeInv, TypeOK, Corpora

LEMMA NewTallyIsSum ==
    ASSUME TypeInv, TallyIsSum
    PROVE  /\ \A w \in Contents : NewTally[w] = Count(corpus, Chapters, w)
           /\ \A w \in Contents \ MovedWords : NewTally[w] = tally[w]
           /\ MovedWords = {} => NewTally = tally
<1>1. Updated \in SUBSET Chapters
  BY UpdatedChapters
<1>2. ASSUME NEW w \in Contents
      PROVE  /\ Count(corpus, Chapters, w) = Count(corpus, Updated, w)
             /\ Count(observed, Chapters, w) = Count(observed, Updated, w)
  <2>1. \A c \in Chapters \ Updated : corpus[c] # w /\ observed[c] # w
    BY CacheStandsForCorpus, EngineAssumption
  <2>2. Count(corpus, Chapters \ Updated, w) = 0 /\ Count(observed, Chapters \ Updated, w) = 0
    BY <2>1, CountNone
  <2>3. Count(corpus, Updated, w) \in Nat /\ Count(observed, Updated, w) \in Nat
    BY <1>1, CountType
  <2>4. /\ Count(corpus, Chapters, w) = Count(corpus, Updated, w) + Count(corpus, Chapters \ Updated, w)
        /\ Count(observed, Chapters, w) = Count(observed, Updated, w) + Count(observed, Chapters \ Updated, w)
    BY <1>1, CountSplit
  <2>5. QED
    BY <2>2, <2>3, <2>4
<1>3. ASSUME NEW w \in Contents
      PROVE  NewTally[w] = Count(corpus, Chapters, w) /\ tally[w] = Count(observed, Updated, w)
  <2>1. Count(corpus, Updated, w) \in Nat /\ Count(observed, Updated, w) \in Nat
    BY <1>1, CountType
  <2>2. NewTally[w] = tally[w] - Count(observed, Updated, w) + Count(corpus, Updated, w)
    BY DEF NewTally
  <2>3. tally[w] = Count(observed, Updated, w)
    BY <1>2 DEF TallyIsSum
  <2>4. QED
    BY <1>2, <2>1, <2>2, <2>3
<1>4. ASSUME NEW w \in Contents \ MovedWords
      PROVE  NewTally[w] = tally[w]
  <2>1. \A b \in BooksIn(corpus) :
            Count(observed, ChaptersOf(b), w) = Count(corpus, ChaptersOf(b), w)
    BY DEF MovedWords
  <2>2. Count(observed, Updated, w) = Count(corpus, Updated, w)
    BY <2>1, CountByBook DEF Updated
  <2>3. QED
    BY <1>2, <1>3, <2>2
<1>5. ASSUME MovedWords = {}
      PROVE  NewTally = tally
  <2>1. NewTally = [w \in Contents |-> NewTally[w]] /\ tally = [w \in Contents |-> tally[w]]
    BY DEF NewTally, TypeInv, TypeOK
  <2>2. \A w \in Contents : NewTally[w] = tally[w]
    BY <1>4, <1>5
  <2>3. QED
    BY <2>1, <2>2
<1>6. QED
  BY <1>3, <1>4, <1>5

(* What an attempt owes once its deltas are in: a moved site, or a site of *)
(* a moved word, or everything.                                            *)
LEMMA OwedStatsBounds ==
    ASSUME TypeInv
    PROVE  /\ OwedStats \in Pendings
           /\ OwedStats.judged_under = pending.judged_under
           /\ ~ OwedStats.all =>
                 /\ ~ pending.all
                 /\ pending.chapters \cup MovedSites \subseteq OwedStats.chapters
                 /\ MovedWords # {} =>
                       /\ StatsDelta = "words"
                       /\ { c \in Present(corpus) : corpus[c] \in MovedWords } \subseteq OwedStats.chapters
<1>1. pending \in Pendings /\ StatsDelta \in {"words", "corpus"}
  BY EngineAssumption DEF TypeInv, TypeOK
<1>2. MovedSites \subseteq Chapters /\ { c \in Present(corpus) : corpus[c] \in MovedWords } \subseteq Chapters
  BY DEF MovedSites, Present
<1>3. /\ OwedSites \in Pendings
      /\ OwedSites.judged_under = pending.judged_under
      /\ ~ OwedSites.all => ~ pending.all /\ OwedSites.chapters = pending.chapters \cup MovedSites
  BY <1>1, <1>2 DEF OwedSites, OweAll, OweChapters, Pendings
<1>4. CASE MovedWords = {}
  BY <1>3, <1>4 DEF OwedStats
<1>5. CASE MovedWords # {} /\ StatsDelta = "corpus"
  <2>1. OwedStats = OweAll(OwedSites)
    BY <1>5 DEF OwedStats
  <2>2. QED
    BY <1>3, <2>1 DEF OweAll, Pendings
<1>6. CASE MovedWords # {} /\ StatsDelta = "words"
  <2> DEFINE S == { c \in Present(corpus) : corpus[c] \in MovedWords }
  <2>1. OwedStats = OweChapters(OwedSites, S)
    BY <1>6 DEF OwedStats
  <2>2. S \subseteq Chapters
    BY <1>2
  <2> HIDE DEF S
  <2>3. /\ OwedStats \in Pendings
        /\ OwedStats.judged_under = pending.judged_under
        /\ ~ OwedStats.all => /\ ~ OwedSites.all
                              /\ OwedStats.chapters = OwedSites.chapters \cup S
    BY <1>3, <2>1, <2>2 DEF OweChapters, Pendings
  <2>4. QED
    BY <1>3, <1>6, <2>3 DEF S
<1>7. QED
  BY <1>1, <1>4, <1>5, <1>6

(* Judging a chapter nothing owes would give the record it has: its text   *)
(* did not move, nor did what its verdict reads of the aggregate.          *)
LEMMA UnowedStaysSettled ==
    ASSUME TypeInv, TallyIsSum, DebtIsRecorded,
           ~ OwedStats.all, OwedStats.judged_under # NoIdentity,
           NEW c \in Present(corpus) \ OwedStats.chapters, NEW r \in Consumers
    PROVE  judged[r][c] = IF r \in OwedStats.judged_under.emit
                          THEN JudgedRecord(corpus[c], OwedStats.judged_under.knobs, NewTally)
                          ELSE NoRecord
<1>1. /\ OwedStats.judged_under = pending.judged_under
      /\ ~ pending.all /\ c \notin pending.chapters /\ c \notin MovedSites
      /\ MovedWords # {} => StatsDelta = "words" /\ corpus[c] \notin MovedWords
  BY OwedStatsBounds
<1>2. c \in Chapters /\ corpus[c] \in Contents /\ corpus[c] # Absent
  BY DEF Present, TypeInv, TypeOK, Corpora
<1>3. observed[c] = corpus[c]
  BY <1>1 DEF MovedSites
<1>4. Settled(c)
  <2>1. c \in Present(observed) \ pending.chapters
    BY <1>1, <1>2, <1>3 DEF Present
  <2>2. QED
    BY <1>1, <2>1 DEF DebtIsRecorded
<1>5. JudgedRecord(corpus[c], pending.judged_under.knobs, NewTally)
         = JudgedRecord(observed[c], pending.judged_under.knobs, tally)
  <2>1. CASE MovedWords = {}
    BY <1>3, <2>1, NewTallyIsSum
  <2>2. CASE MovedWords # {}
    <3>1. NewTally[corpus[c]] = tally[corpus[c]]
      BY <1>1, <1>2, <2>2, NewTallyIsSum
    <3>2. QED
      BY <1>1, <1>3, <2>2, <3>1 DEF JudgedRecord
  <2>3. QED
    BY <2>1, <2>2
<1>6. QED
  BY <1>1, <1>4, <1>5 DEF Settled

LEMMA JudgeKeeps ==
    ASSUME IInv, Judge
    PROVE  IInv'
<1> USE DEF Judge, inputs, partitions
<1>1. TypeInv /\ TallyIsSum /\ DebtIsRecorded /\ Planned
  BY DEF IInv, AttemptInv
<1>2. /\ Present(corpus)' = Present(corpus) /\ Updated' = Updated
      /\ BooksIn(corpus)' = BooksIn(corpus) /\ Active' = Active
  BY DEF Present, Updated, BooksIn, Active
<1>3. PrepIsOfFingerprint'
  BY <1>1 DEF TypeInv, PrepIsOfFingerprint
<1>4. ASSUME config.paired, NEW c \in Updated
      PROVE  paired'[c] = IF corpus[c] = Absent THEN NoRecord ELSE PairedNow(c)
  <2>1. c \in Chapters
    BY UpdatedChapters
  <2>2. paired'[c] = Observation(c)
    BY <1>4, <2>1
  <2>3. QED
    BY <2>2 DEF Observation
<1>5. \A c \in Updated : PairedNow(c)' = PairedNow(c)
  BY DEF PairedNow
<1>6. CASE ~ Active
  <2>1. UNCHANGED <<observed, tally, pending, patch>>
    BY <1>6
  <2>2. TypeOK'
    BY <1>1, <2>1 DEF TypeInv, TypeOK
  <2>3. ObservedBooksHeld'
    BY <1>1, <1>2, <2>1 DEF TypeInv, ObservedBooksHeld, BooksIn, Present
  <2>4. TallyIsSum' /\ DebtIsRecorded'
    BY <1>1, <2>1 DEF TallyIsSum, DebtIsRecorded, Settled
  <2>5. Planned'
    BY <1>1, <1>2, <2>1 DEF Planned
  <2>6. JudgedFully'
    BY <1>2, <1>4, <1>5, <1>6 DEF JudgedFully
  <2>7. QED
    BY <1>3, <2>2, <2>3, <2>4, <2>5, <2>6 DEF IInv, TypeInv, AttemptInv
<1>7. CASE Active
  <2>1. observed' = corpus /\ tally' = NewTally /\ pending' = [OwedStats EXCEPT !.candidate = Identity(config)]
    BY <1>1, <1>7, CacheStandsForCorpus
  <2>2. /\ pending' \in Pendings
        /\ pending'.all = OwedStats.all
        /\ pending'.chapters = OwedStats.chapters
        /\ pending'.judged_under = OwedStats.judged_under
        /\ pending'.candidate = Identity(config)
    <3>1. OwedStats \in Pendings /\ config \in Configs
      BY <1>1, OwedStatsBounds DEF TypeInv, TypeOK
    <3> HIDE DEF Judge
    <3>2. QED
      BY <2>1, <3>1 DEF Pendings
  <2>3. TallyIsSum'
    BY <1>1, <2>1, NewTallyIsSum DEF TallyIsSum, Count
  <2>4. tally' \in [Contents -> 0 .. Cardinality(Chapters)]
    <3>1. \A w \in Contents : NewTally[w] \in 0 .. Cardinality(Chapters)
      BY <1>1, NewTallyIsSum, CountType
    <3>2. QED
      BY <2>1, <3>1 DEF NewTally
  <2>5. TypeOK'
    BY <1>1, <2>1, <2>2, <2>4 DEF TypeInv, TypeOK
  <2>6. ObservedBooksHeld'
    BY <1>2, <2>1 DEF ObservedBooksHeld, BooksIn, Present
  <2>7. Planned'
    BY <1>1, <1>2, <1>7 DEF Planned
  <2>8. JudgedFully'
    <3>1. RebuildAll(pending)' = RebuildAll(OwedStats)
      BY <2>2 DEF RebuildAll, Identity
    <3>2. /\ patch'.all = RebuildAll(OwedStats)
          /\ patch'.chapters = IF RebuildAll(OwedStats) THEN {} ELSE OwedStats.chapters
          /\ patch'.findings = [c \in Chapters |->
                IF c \in Present(corpus) /\ (patch'.all \/ c \in patch'.chapters)
                THEN JudgedRecord(corpus[c], config.knobs, NewTally) ELSE NoRecord]
      BY <1>7
    <3>3. Identity(config)' = Identity(config)
      BY DEF Identity
    <3>4. Candidates' = patch'.findings
      BY <2>1, <3>2 DEF Candidates, Present, JudgedRecord
    <3>5. \A c \in Updated' : config'.paired => paired'[c] = IF corpus'[c] = Absent THEN NoRecord ELSE PairedNow(c)'
      BY <1>2, <1>4, <1>5
    <3>6. (Active => /\ observed = corpus
                     /\ pending.candidate = Identity(config)
                     /\ patch.all = RebuildAll(pending)
                     /\ patch.chapters = IF patch.all THEN {} ELSE pending.chapters
                     /\ patch.findings = Candidates)'
      BY <2>1, <2>2, <3>1, <3>2, <3>3, <3>4
    <3>7. QED
      BY <3>5, <3>6 DEF JudgedFully
  <2>9. DebtIsRecorded'
    <3> SUFFICES ASSUME ~ OwedStats.all, OwedStats.judged_under # NoIdentity,
                        NEW c \in Present(corpus) \ OwedStats.chapters, NEW r \in Consumers
                 PROVE  judged'[r][c] = IF r \in OwedStats.judged_under.emit
                                        THEN JudgedRecord(corpus[c], OwedStats.judged_under.knobs, NewTally)
                                        ELSE NoRecord
      BY <2>1, <2>2 DEF DebtIsRecorded, Settled, Present, JudgedRecord
    <3>1. judged' = judged
      OBVIOUS
    <3>2. QED
      BY <1>1, <3>1, UnowedStaysSettled
  <2>10. QED
    BY <1>3, <2>3, <2>5, <2>6, <2>7, <2>8, <2>9 DEF IInv, TypeInv, AttemptInv
<1>8. QED
  BY <1>6, <1>7

(* A commit leaves every record of a patching substrate judged, rewritten  *)
(* by the patch or settled before it.                                      *)
LEMMA CommittedJudgements ==
    ASSUME IInv, Commit, NEW c \in Present(corpus), NEW r \in Consumers
    PROVE  judged'[r][c] = IF r \in config.emit
                           THEN JudgedRecord(corpus[c], config.knobs, tally) ELSE NoRecord
<1>1. c \in Chapters /\ judged'[r] = PatchOf(r)
  BY DEF Commit, Present
<1>2. CASE r \notin config.emit
  BY <1>1, <1>2 DEF PatchOf, None
<1>3. CASE r \in config.emit
  <2>1. JudgedFully /\ Active
    BY <1>3 DEF IInv, AttemptInv, Commit, Active
  <2>2. judged'[r][c] = IF patch.all \/ c \in patch.chapters \cup Departed
                        THEN patch.findings[c] ELSE judged[r][c]
    BY <1>1, <1>3 DEF PatchOf
  <2>3. CASE patch.all \/ c \in patch.chapters \cup Departed
    <3>1. c \notin Departed
      BY DEF Departed
    <3>2. QED
      BY <1>1, <1>3, <2>1, <2>2, <2>3, <3>1 DEF JudgedFully, Candidates
  <2>4. CASE ~ patch.all /\ c \notin patch.chapters \cup Departed
    <3>1. ~ pending.all /\ pending.judged_under = Identity(config) /\ c \notin pending.chapters
      BY <2>1, <2>4 DEF JudgedFully, RebuildAll
    <3>2. Identity(config) # NoIdentity
      BY <1>3 DEF Identity, NoIdentity
    <3>3. observed = corpus
      BY <2>1 DEF JudgedFully
    <3>4. c \in Present(observed) \ pending.chapters
      BY <3>1, <3>3
    <3>5. Settled(c)
      BY <3>1, <3>2, <3>4 DEF IInv, DebtIsRecorded
    <3>6. QED
      BY <1>3, <2>2, <2>4, <3>1, <3>3, <3>5 DEF Settled, Identity
  <2>5. QED
    BY <2>3, <2>4
<1>4. QED
  BY <1>2, <1>3

LEMMA CommitKeeps ==
    ASSUME IInv, Commit
    PROVE  IInv'
<1> USE DEF Commit, inputs
<1>1. ObservedBooksHeld' /\ PrepIsOfFingerprint' /\ TallyIsSum' /\ AttemptInv'
  BY DEF IInv, TypeInv, ObservedBooksHeld, PrepIsOfFingerprint, TallyIsSum, AttemptInv
<1>2. stamps' \in Corpora
  BY DEF PatchDirect, Retained, Without, IInv, TypeInv, TypeOK, Corpora
<1>3. pending' \in Pendings
  BY DEF Promote, NothingOwed, IInv, TypeInv, TypeOK, Pendings
<1>4. TypeOK'
  BY <1>2, <1>3 DEF IInv, TypeInv, TypeOK
<1>5. DebtIsRecorded'
  <2>1. CASE Active
    <3>1. observed = corpus /\ pending.candidate = Identity(config)
      BY <2>1 DEF IInv, AttemptInv, JudgedFully
    <3>2. Identity(config) # NoIdentity
      BY <2>1 DEF Identity, NoIdentity, Active
    <3>3. pending' = [NothingOwed EXCEPT !.judged_under = Identity(config)]
      BY <3>1, <3>2 DEF Promote
    <3>4. pending'.judged_under = Identity(config)
      BY <3>3 DEF NothingOwed
    <3>5. ASSUME NEW c \in Present(corpus), NEW r \in Consumers
          PROVE  judged'[r][c] = IF r \in Identity(config).emit
                                 THEN JudgedRecord(observed[c], Identity(config).knobs, tally)
                                 ELSE NoRecord
      BY <3>1, CommittedJudgements DEF Identity
    <3>6. \A c \in Present(observed) : Settled(c)'
      BY <3>1, <3>4, <3>5 DEF Settled, JudgedRecord
    <3>7. QED
      BY <3>6 DEF DebtIsRecorded, Present
  <2>2. CASE ~ Active
    <3>1. pending = Cleared
      BY <2>2 DEF IInv, AttemptInv, Planned
    <3>2. pending'.all
      BY <3>1 DEF Promote, Cleared, NothingOwed
    <3>3. QED
      BY <3>2 DEF DebtIsRecorded
  <2>3. QED
    BY <2>1, <2>2
<1>6. QED
  BY <1>1, <1>4, <1>5 DEF IInv, TypeInv

(***************************************************************************)
(* The theorems about the specification.                                   *)
(***************************************************************************)
LEMMA InitHolds == Init => IInv
<1> SUFFICES ASSUME Init
             PROVE  IInv
  OBVIOUS
<1> USE DEF Init
<1>1. TypeOK
  <2>1. Cardinality(Chapters) \in Nat
    BY FS_CardinalityType, EngineAssumption
  <2>2. tally \in [Contents -> 0 .. Cardinality(Chapters)]
    BY <2>1 DEF NoTally
  <2>3. pending \in Pendings
    BY DEF Pendings, NothingOwed
  <2>4. QED
    BY <2>2, <2>3 DEF TypeOK, Corpora, Empty
<1>2. ObservedBooksHeld
  BY DEF ObservedBooksHeld, BooksIn, Present, Empty
<1>3. PrepIsOfFingerprint
  BY DEF PrepIsOfFingerprint, None
<1>4. TallyIsSum
  BY EmptyCounts DEF TallyIsSum, NoTally
<1>5. AttemptInv /\ DebtIsRecorded
  BY DEF AttemptInv, DebtIsRecorded, NothingOwed
<1>6. QED
  BY <1>1, <1>2, <1>3, <1>4, <1>5 DEF IInv, TypeInv

LEMMA StutterKeeps == IInv /\ UNCHANGED vars => IInv'
<1> SUFFICES ASSUME IInv, UNCHANGED vars
             PROVE  IInv'
  OBVIOUS
<1> USE DEF vars, inputs, caches, partitions, attempt
<1>1. TypeInv'
  BY DEF IInv, TypeInv, TypeOK, ObservedBooksHeld, PrepIsOfFingerprint
<1>2. TallyIsSum' /\ DebtIsRecorded'
  BY DEF IInv, TallyIsSum, DebtIsRecorded, Settled
<1>3. Planned => Planned'
  BY DEF Planned, Active, Present
<1>4. JudgedFully => JudgedFully'
  BY DEF JudgedFully, Candidates, Active, Present, RebuildAll, Identity, Updated, BooksIn,
         PairedNow, JudgedRecord
<1>5. QED
  BY <1>1, <1>2, <1>3, <1>4 DEF IInv, AttemptInv

LEMMA StepKeeps == IInv /\ [Next]_vars => IInv'
<1> SUFFICES ASSUME IInv, [Next]_vars
             PROVE  IInv'
  OBVIOUS
<1>1. CASE \E b \in Books, held \in Corpora : UpdateBook(b, held)
  BY <1>1, UpdateBookKeeps
<1>2. CASE \E c \in Chapters, content \in Contents : UpdateChapter(c, content)
  BY <1>2, UpdateChapterKeeps
<1>3. CASE \E slugs \in SUBSET Books : RemoveBooks(slugs)
  BY <1>3, RemoveBooksKeeps
<1>4. CASE \E held \in Corpora : ReplaceCorpus(held)
  BY <1>4, ReplaceCorpusKeeps
<1>5. CASE \E ref \in Sources : ReplaceSource(ref)
  BY <1>5, ReplaceSourceKeeps
<1>6. CASE \E cfg \in Configs : UpdateConfig(cfg)
  BY <1>6, UpdateConfigKeeps
<1>7. CASE Plan
  BY <1>7, PlanKeeps
<1>8. CASE Judge
  BY <1>8, JudgeKeeps
<1>9. CASE Commit
  BY <1>9, CommitKeeps
<1>10. CASE Fail
  BY <1>10, FailKeeps
<1>11. CASE UNCHANGED vars
  BY <1>11, StutterKeeps
<1>12. QED
  BY <1>1, <1>2, <1>3, <1>4, <1>5, <1>6, <1>7, <1>8, <1>9, <1>10, <1>11 DEF Next

LEMMA Invariance == Spec => []IInv
  BY InitHolds, StepKeeps, PTL DEF Spec

(* Every variable keeps its type, and between calls nothing of an attempt  *)
(* is left: the error path and the commit both reset it.                   *)
THEOREM TypeCorrect == Spec => []TypeOK
<1>1. IInv => TypeOK
  BY DEF IInv, TypeInv
<1>2. QED
  BY <1>1, Invariance, PTL

(* The maintained corpus aggregate is the sum of what the cache holds,     *)
(* through removals, refolds, disabled substrates and failed attempts.     *)
THEOREM AggregateIsSum == Spec => []TallyIsSum
<1>1. IInv => TallyIsSum
  BY DEF IInv
<1>2. QED
  BY <1>1, Invariance, PTL

(* A record a retry would have to rewrite is owed until a commit discharges *)
(* it, whichever boundary fails and however often.                          *)
THEOREM DebtsAreRecorded == Spec => []DebtIsRecorded
<1>1. IInv => DebtIsRecorded
  BY DEF IInv
<1>2. QED
  BY <1>1, Invariance, PTL

(***************************************************************************)
(* What is published is cold.                                              *)
(*                                                                         *)
(* The direct lane stamps a committed record with the content it was       *)
(* mapped from, not with the rules it was mapped under: it relies on a     *)
(* moved configuration dropping prep, and so on the attempt that maps anew *)
(* also committing.  A failed attempt in between breaks that, which the    *)
(* run engine_rules_retry shows.  Either no boundary fails, which is every *)
(* shipped build, or the per-verse rules' settings do not move.            *)
(***************************************************************************)
RulesSettled ==
    \/ Faults = {}
    \/ \A cfg, other \in Configs : cfg.direct = other.direct

(* A stamped record was mapped from the content stamped, under the rules   *)
(* the prep section was warmed with.                                       *)
RecordsAreStamped ==
    \A c \in Chapters :
        stamps[c] # Absent => /\ fingerprint \in Configs
                              /\ direct[c] = DirectRecord(stamps[c], fingerprint)

(* Or an attempt that cannot fail replaces them all.                       *)
DirectFollows ==
    \/ RecordsAreStamped
    \/ pc # "idle" /\ Faults = {} /\ dirty = Present(corpus)

PublishedInv ==
    /\ IInv
    /\ DirectFollows
    /\ PublishedIsCold

(* The direct records a commit leaves, for each chapter of the corpus.     *)
LEMMA CommittedDirect ==
    ASSUME IInv, DirectFollows, Commit, NEW c \in Present(corpus)
    PROVE  direct'[c] = DirectRecord(corpus[c], config)
<1>1. Planned /\ c \in Chapters /\ corpus[c] # Absent
  BY DEF IInv, AttemptInv, Commit, Present
<1>2. CASE c \in dirty
  BY <1>1, <1>2 DEF Commit, PatchDirect, Planned
<1>3. CASE c \notin dirty
  <2>1. stamps[c] = corpus[c] /\ fingerprint = config /\ dirty \subseteq Present(corpus)
    BY <1>1, <1>3 DEF Planned
  <2>2. ~ AllDirty
    <3>1. IsFiniteSet(Present(corpus))
      <4>1. Present(corpus) \in SUBSET Chapters
        BY DEF Present
      <4>2. QED
        BY <4>1, FS_Subset, EngineAssumption
    <3>2. dirty # Present(corpus)
      BY <1>3
    <3>3. QED
      BY <2>1, <3>1, <3>2, FS_Subset DEF AllDirty
  <2>3. direct'[c] = direct[c]
    BY <1>1, <1>3, <2>2 DEF Commit, PatchDirect, Retained, Without, Departed
  <2>4. RecordsAreStamped
    BY <1>3 DEF DirectFollows
  <2>5. QED
    BY <1>1, <2>1, <2>3, <2>4 DEF RecordsAreStamped
<1>4. QED
  BY <1>2, <1>3

(* The reference rule's record of a chapter is that of a cold analysis: its *)
(* book is a book of the corpus, so every observation of it is current.    *)
LEMMA CommittedPairs ==
    ASSUME IInv, Commit, NEW c \in Present(corpus)
    PROVE  rebuilt'[c] = Cold(corpus, source, config)[c].rebuilt
<1> DEFINE pairs == [d \in Chapters |-> IF corpus[d] = Absent THEN NoRecord
                                        ELSE [content |-> corpus[d], reference |-> source[d]]]
<1>1. c \in Chapters /\ JudgedFully
  BY DEF IInv, AttemptInv, Commit, Present
<1>2. Cold(corpus, source, config)[c].rebuilt = IF config.paired THEN PairedRecord(c, pairs) ELSE NoRecord
  BY DEF Cold
<1>3. rebuilt'[c] = IF config.paired THEN PairedRecord(c, paired) ELSE NoRecord
  BY <1>1 DEF Commit, Rebuilt
<1>4. CASE config.paired
  <2>1. ChaptersOf(BookOf(c)) \subseteq Updated /\ c \in ChaptersOf(BookOf(c))
    BY <1>1, UpdatedChapters, InBooks DEF ChaptersOf, Present
  <2>2. \A d \in ChaptersOf(BookOf(c)) : paired[d] = pairs[d]
    BY <1>1, <1>4, <2>1 DEF JudgedFully, PairedNow, ChaptersOf
  <2> HIDE DEF pairs
  <2>3. PairedRecord(c, paired) = PairedRecord(c, pairs)
    BY <2>1, <2>2 DEF PairedRecord
  <2>4. QED
    BY <1>2, <1>3, <2>3
<1>5. QED
  BY <1>2, <1>3, <1>4

(* So is a patching substrate's: the maintained aggregate is the corpus's. *)
LEMMA CommittedSubstrates ==
    ASSUME IInv, Commit, NEW c \in Present(corpus)
    PROVE  [r \in Consumers |-> judged'[r][c]] = Cold(corpus, source, config)[c].judged
<1> DEFINE counts == [w \in Contents |-> Count(corpus, Chapters, w)]
<1>1. Active => tally = counts
  <2>1. Active => observed = corpus
    BY DEF IInv, AttemptInv, JudgedFully, Commit
  <2>2. tally = [w \in Contents |-> tally[w]]
    BY DEF IInv, TypeInv, TypeOK
  <2>3. QED
    BY <2>1, <2>2 DEF IInv, TallyIsSum
<1>2. Cold(corpus, source, config)[c].judged =
         [r \in Consumers |-> IF r \in config.emit
                              THEN JudgedRecord(corpus[c], config.knobs, counts) ELSE NoRecord]
  BY DEF Cold
<1> HIDE DEF counts
<1>3. ASSUME NEW r \in Consumers
      PROVE  judged'[r][c] = IF r \in config.emit
                             THEN JudgedRecord(corpus[c], config.knobs, counts) ELSE NoRecord
  <2>1. r \in config.emit => Active
    BY DEF Active
  <2>2. QED
    BY <1>1, <2>1, CommittedJudgements
<1>4. QED
  BY <1>2, <1>3

LEMMA CommitAssembles ==
    ASSUME IInv, Commit
    PROVE  /\ Assemble' = [c \in Present(corpus) |->
                              [direct |-> direct'[c],
                               rebuilt |-> Cold(corpus, source, config)[c].rebuilt,
                               judged |-> Cold(corpus, source, config)[c].judged]]
           /\ Cold(corpus, source, config) =
                 [c \in Present(corpus) |->
                     [direct |-> DirectRecord(corpus[c], config),
                      rebuilt |-> Cold(corpus, source, config)[c].rebuilt,
                      judged |-> Cold(corpus, source, config)[c].judged]]
<1>1. Present(corpus)' = Present(corpus)
  BY DEF Commit, inputs, Present
<1>2. Assemble' = [c \in Present(corpus) |->
                      [direct |-> direct'[c], rebuilt |-> rebuilt'[c],
                       judged |-> [r \in Consumers |-> judged'[r][c]]]]
  BY <1>1 DEF Assemble
<1>3. Cold(corpus, source, config) =
         [c \in Present(corpus) |->
             [direct |-> DirectRecord(corpus[c], config),
              rebuilt |-> Cold(corpus, source, config)[c].rebuilt,
              judged |-> Cold(corpus, source, config)[c].judged]]
  BY DEF Cold
<1>4. QED
  BY <1>2, <1>3, CommittedPairs, CommittedSubstrates

LEMMA CommitPublishes ==
    ASSUME IInv, DirectFollows, Commit
    PROVE  Assemble' = Cold(corpus, source, config)
  BY CommittedDirect, CommitAssembles

(***************************************************************************)
(* The direct lane, step by step.                                          *)
(***************************************************************************)
(* A plan under a moved configuration replaces every direct record, or     *)
(* would map each anew to what it is.                                      *)
LEMMA PlanDirect ==
    ASSUME RulesSettled, IInv, DirectFollows, Plan
    PROVE  DirectFollows'
<1>1. RecordsAreStamped /\ UNCHANGED <<direct, stamps>> /\ fingerprint' = config
  BY DEF DirectFollows, Plan, partitions
<1>2. config \in Configs /\ fingerprint \in Configs \cup {NoIdentity}
  BY DEF IInv, TypeInv, TypeOK
<1>3. CASE fingerprint = config
  BY <1>1, <1>3 DEF DirectFollows, RecordsAreStamped
<1>4. CASE fingerprint # config /\ Faults = {}
  <2>1. \A c \in Present(corpus) : KeptPrep[c].content = Absent /\ corpus[c] # Absent
    BY <1>4 DEF KeptPrep, None, NoRecord, Present
  <2>2. MapNeeded = Present(corpus)
    BY <2>1 DEF MapNeeded
  <2>3. dirty' = Present(corpus)'
    BY <2>2 DEF Plan, DirectDirty, inputs, Present
  <2>4. QED
    BY <1>4, <2>3 DEF DirectFollows, Plan
<1>5. CASE Faults # {}
  <2>1. \A cfg, other \in Configs : cfg.direct = other.direct
    BY <1>5 DEF RulesSettled
  <2>2. \A c \in Chapters :
            stamps[c] # Absent => DirectRecord(stamps[c], fingerprint) = DirectRecord(stamps[c], config)
    BY <1>1, <1>2, <2>1 DEF RecordsAreStamped, DirectRecord
  <2>3. RecordsAreStamped'
    BY <1>1, <1>2, <2>2 DEF RecordsAreStamped
  <2>4. QED
    BY <2>3 DEF DirectFollows
<1>6. QED
  BY <1>3, <1>4, <1>5

LEMMA CommitDirect ==
    ASSUME IInv, DirectFollows, Commit
    PROVE  DirectFollows'
<1>1. Planned /\ UNCHANGED <<corpus, config, fingerprint>> /\ config \in Configs
  BY DEF IInv, AttemptInv, TypeInv, TypeOK, Commit, inputs
<1>2. ASSUME NEW c \in Chapters, stamps'[c] # Absent
      PROVE  direct'[c] = DirectRecord(stamps'[c], config)
  <2>1. CASE c \in dirty
    BY <1>1, <2>1 DEF Commit, PatchDirect, Planned
  <2>2. CASE c \notin dirty
    <3>1. /\ stamps'[c] = Retained(stamps, Absent)[c]
          /\ direct'[c] = Retained(direct, NoRecord)[c]
      BY <2>2 DEF Commit, PatchDirect
    <3>2. stamps'[c] = stamps[c] /\ direct'[c] = direct[c] /\ ~ AllDirty
      BY <1>2, <3>1 DEF Retained, Without
    <3>3. dirty # Present(corpus)
      BY <3>2 DEF AllDirty
    <3>4. QED
      BY <1>1, <1>2, <3>2, <3>3 DEF DirectFollows, RecordsAreStamped, Planned
  <2>3. QED
    BY <2>1, <2>2
<1>3. fingerprint' = config
  BY <1>1 DEF Planned
<1>4. RecordsAreStamped'
  BY <1>1, <1>2, <1>3 DEF RecordsAreStamped
<1>5. QED
  BY <1>4 DEF DirectFollows

(* A withdrawn book takes its stamps with it; no other verb touches them.  *)
LEMMA VerbsDirect ==
    ASSUME DirectFollows, pc = "idle",
           UNCHANGED <<caches, partitions>> \/ \E S \in SUBSET Chapters : RemoveFromCache(S)
    PROVE  RecordsAreStamped'
<1>1. RecordsAreStamped
  BY DEF DirectFollows
<1>2. CASE UNCHANGED <<caches, partitions>>
  BY <1>1, <1>2 DEF RecordsAreStamped, caches, partitions
<1>3. ASSUME NEW S \in SUBSET Chapters, RemoveFromCache(S)
      PROVE  RecordsAreStamped'
  BY <1>1, <1>3 DEF RecordsAreStamped, RemoveFromCache, RemoveFromFindings, Without
<1>4. QED
  BY <1>2, <1>3

(* What every verb does: the inputs move, the handle is dirtied, and the   *)
(* cache loses some books or is left alone.                                *)
VerbStep ==
    /\ pc = "idle"
    /\ inputs' # inputs
    /\ state' = "Dirty"
    /\ \/ UNCHANGED <<caches, partitions>>
       \/ \E S \in SUBSET Chapters : RemoveFromCache(S)

Verb ==
    \/ \E b \in Books, held \in Corpora : UpdateBook(b, held)
    \/ \E c \in Chapters, content \in Contents : UpdateChapter(c, content)
    \/ \E slugs \in SUBSET Books : RemoveBooks(slugs)
    \/ \E held \in Corpora : ReplaceCorpus(held)
    \/ \E ref \in Sources : ReplaceSource(ref)
    \/ \E cfg \in Configs : UpdateConfig(cfg)

LEMMA VerbsAreVerbSteps ==
    ASSUME Verb
    PROVE  VerbStep
<1> USE DEF VerbStep, Adopt, inputs
<1>1. ASSUME NEW b \in Books, NEW held \in Corpora, UpdateBook(b, held)
      PROVE  VerbStep
  BY <1>1 DEF UpdateBook
<1>2. ASSUME NEW c \in Chapters, NEW content \in Contents, UpdateChapter(c, content)
      PROVE  VerbStep
  BY <1>2 DEF UpdateChapter
<1>3. ASSUME NEW slugs \in SUBSET Books, RemoveBooks(slugs)
      PROVE  VerbStep
  <2> DEFINE S == UNION { ChaptersOf(b) : b \in slugs \cap BooksIn(corpus) }
  <2>1. S \in SUBSET Chapters
    BY DEF ChaptersOf
  <2>2. pc = "idle" /\ corpus' # corpus /\ state' = "Dirty" /\ RemoveFromCache(S)
    BY <1>3 DEF RemoveBooks
  <2> HIDE DEF S
  <2>3. QED
    BY <2>1, <2>2
<1>4. ASSUME NEW held \in Corpora, ReplaceCorpus(held)
      PROVE  VerbStep
  <2> DEFINE S == UNION { ChaptersOf(b) : b \in BooksIn(corpus) \ BooksIn(held) }
  <2>1. S \in SUBSET Chapters
    BY DEF ChaptersOf
  <2>2. pc = "idle" /\ corpus' # corpus /\ state' = "Dirty" /\ RemoveFromCache(S)
    BY <1>4 DEF ReplaceCorpus
  <2> HIDE DEF S
  <2>3. QED
    BY <2>1, <2>2
<1>5. ASSUME NEW ref \in Sources, ReplaceSource(ref)
      PROVE  VerbStep
  BY <1>5 DEF ReplaceSource
<1>6. ASSUME NEW cfg \in Configs, UpdateConfig(cfg)
      PROVE  VerbStep
  BY <1>6 DEF UpdateConfig
<1>7. QED
  BY <1>1, <1>2, <1>3, <1>4, <1>5, <1>6 DEF Verb

(* Before the commit an attempt publishes nothing and retracts nothing.    *)
LEMMA AttemptsAreSilent ==
    ASSUME Plan \/ Judge \/ Fail \/ UNCHANGED vars
    PROVE  UNCHANGED <<inputs, state>> /\ Assemble' = Assemble
<1>1. UNCHANGED <<inputs, state, partitions>>
  BY DEF Plan, Judge, Fail, vars
<1>2. QED
  BY <1>1 DEF inputs, partitions, Assemble, Present

LEMMA PublishedHolds ==
    ASSUME RulesSettled, PublishedInv, [Next]_vars
    PROVE  PublishedInv'
<1>1. IInv'
  BY StepKeeps DEF PublishedInv
<1>2. CASE Verb
  <2>1. VerbStep
    BY <1>2, VerbsAreVerbSteps
  <2>2. RecordsAreStamped'
    BY <2>1, VerbsDirect DEF VerbStep, PublishedInv
  <2>3. PublishedIsCold'
    BY <2>1 DEF VerbStep, PublishedIsCold
  <2>4. QED
    BY <1>1, <2>2, <2>3 DEF PublishedInv, DirectFollows
<1>3. CASE Plan \/ Judge \/ Fail \/ UNCHANGED vars
  <2>1. UNCHANGED <<inputs, state>> /\ Assemble' = Assemble
    BY <1>3, AttemptsAreSilent
  <2>2. Cold(corpus, source, config)' = Cold(corpus, source, config)
    BY <2>1 DEF inputs
  <2>3. PublishedIsCold'
    BY <2>1, <2>2 DEF PublishedIsCold, PublishedInv
  <2>4. DirectFollows'
    <3>1. CASE Plan
      BY <3>1, PlanDirect DEF PublishedInv
    <3>2. CASE Judge \/ UNCHANGED vars
      <4>1. UNCHANGED <<corpus, fingerprint, direct, stamps, dirty>>
        BY <3>2 DEF Judge, vars, inputs, caches, partitions, attempt
      <4>2. pc # "idle" => pc' # "idle"
        BY <3>2 DEF Judge, vars, attempt
      <4>3. Present(corpus)' = Present(corpus)
        BY <4>1 DEF Present
      <4>4. RecordsAreStamped => RecordsAreStamped'
        BY <4>1 DEF RecordsAreStamped
      <4>5. QED
        BY <4>1, <4>2, <4>3, <4>4 DEF PublishedInv, DirectFollows
    <3>3. CASE Fail
      BY <3>3 DEF PublishedInv, DirectFollows, RecordsAreStamped, Fail, caches, partitions
    <3>4. QED
      BY <1>3, <3>1, <3>2, <3>3
  <2>5. QED
    BY <1>1, <2>3, <2>4 DEF PublishedInv
<1>4. CASE Commit
  <2>1. Assemble' = Cold(corpus, source, config)
    BY <1>4, CommitPublishes DEF PublishedInv
  <2>2. Cold(corpus, source, config)' = Cold(corpus, source, config)
    BY <1>4 DEF Commit, inputs
  <2>3. QED
    BY <1>1, <1>4, <2>1, <2>2, CommitDirect DEF PublishedInv, PublishedIsCold
<1>5. QED
  BY <1>2, <1>3, <1>4 DEF Next, Verb

LEMMA PublishedInitially == Init => PublishedInv
<1>1. Init => DirectFollows
  BY DEF Init, DirectFollows, RecordsAreStamped, Empty
<1>2. Init => PublishedIsCold
  BY DEF Init, PublishedIsCold
<1>3. QED
  BY <1>1, <1>2, InitHolds DEF PublishedInv

(* Every lane but the direct one is cold with no such hypothesis: whatever *)
(* fails, whatever settings move, the committed partitions of the          *)
(* substrates are those of a pure analysis.                                *)
SubstratesAreCold ==
    state = "CleanPublished" =>
        \A c \in Present(corpus) :
            /\ Assemble[c].rebuilt = Cold(corpus, source, config)[c].rebuilt
            /\ Assemble[c].judged = Cold(corpus, source, config)[c].judged

LEMMA SubstratesHold ==
    ASSUME IInv, SubstratesAreCold, [Next]_vars
    PROVE  SubstratesAreCold'
<1>1. CASE Verb
  BY <1>1, VerbsAreVerbSteps DEF VerbStep, SubstratesAreCold
<1>2. CASE Plan \/ Judge \/ Fail \/ UNCHANGED vars
  <2>1. UNCHANGED <<inputs, state>> /\ Assemble' = Assemble
    BY <1>2, AttemptsAreSilent
  <2>2. /\ Cold(corpus, source, config)' = Cold(corpus, source, config)
        /\ Present(corpus)' = Present(corpus)
    BY <2>1 DEF inputs, Present
  <2>3. QED
    BY <2>1, <2>2 DEF SubstratesAreCold
<1>3. CASE Commit
  <2>1. /\ Cold(corpus, source, config)' = Cold(corpus, source, config)
        /\ Present(corpus)' = Present(corpus)
    BY <1>3 DEF Commit, inputs, Present
  <2>2. QED
    BY <1>3, <2>1, CommitAssembles DEF SubstratesAreCold
<1>4. QED
  BY <1>1, <1>2, <1>3 DEF Next, Verb

(* A retry after any failure publishes the cold result of every substrate, *)
(* even where engine_rules_retry shows the direct lane does not.           *)
THEOREM SubstratesStayCold == Spec => []SubstratesAreCold
<1>1. Init => SubstratesAreCold
  BY DEF Init, SubstratesAreCold
<1>2. IInv /\ SubstratesAreCold /\ [Next]_vars => SubstratesAreCold'
  BY SubstratesHold
<1>3. QED
  BY <1>1, <1>2, Invariance, PTL DEF Spec

(* Whatever mutations, failed attempts and retries came between, what the   *)
(* handle last published is what a pure analysis of its inputs returns.    *)
THEOREM PublishedStaysCold ==
    ASSUME RulesSettled
    PROVE  Spec => []PublishedIsCold
<1>1. PublishedInv /\ [Next]_vars => PublishedInv'
  BY PublishedHolds
<1>2. PublishedInv => PublishedIsCold
  BY DEF PublishedInv
<1>3. QED
  BY <1>1, <1>2, PublishedInitially, PTL DEF Spec

(***************************************************************************)
(* The refinement of PureAnalysis: a verb that changed something is a      *)
(* Change, a commit an Analyze, and every other step of an attempt a       *)
(* stutter.                                                                *)
(***************************************************************************)
LEMMA InputsTyped ==
    ASSUME TypeOK
    PROVE  /\ inputs \in Corpora \X Sources \X Configs
           /\ inputs[1] = corpus /\ inputs[2] = source /\ inputs[3] = config
  BY DEF TypeOK, inputs

LEMMA StepRefines ==
    ASSUME RulesSettled, PublishedInv, PublishedInv', [Next]_vars
    PROVE  [Pure!Next]_(Pure!pure)
<1> USE DEF Pure!pure
<1>1. TypeOK /\ TypeOK'
  BY DEF PublishedInv, IInv, TypeInv
<1>2. CASE Verb
  <2>1. inputs' # inputs /\ state' = "Dirty"
    BY <1>2, VerbsAreVerbSteps DEF VerbStep
  <2>2. inputs' \in Corpora \X Sources \X Configs
    BY <1>1 DEF TypeOK, inputs
  <2>3. Pure!Change
    BY <2>1, <2>2 DEF Pure!Change
  <2>4. QED
    BY <2>3 DEF Pure!Next
<1>3. CASE Plan \/ Judge \/ Fail \/ UNCHANGED vars
  BY <1>3, AttemptsAreSilent
<1>4. CASE Commit
  <2>1. Assemble' = Cold(corpus, source, config) /\ state' = "CleanPublished" /\ inputs' = inputs
    BY <1>4, CommitPublishes DEF PublishedInv, Commit
  <2>2. [in \in Corpora \X Sources \X Configs |-> Cold(in[1], in[2], in[3])][inputs]
          = Cold(corpus, source, config)
    BY <1>1, InputsTyped
  <2>3. Pure!Analyze
    BY <2>1, <2>2 DEF Pure!Analyze
  <2>4. QED
    BY <2>3 DEF Pure!Next
<1>5. QED
  BY <1>2, <1>3, <1>4 DEF Next, Verb

(* The resident analyzer implements the pure one.                          *)
THEOREM ResidentIsPure ==
    ASSUME RulesSettled
    PROVE  Spec => ImplementsPureAnalysis
<1>1. Init => Pure!Init
  BY DEF Init, Pure!Init, inputs
<1>2. PublishedInv /\ [Next]_vars => PublishedInv'
  BY PublishedHolds
<1>3. PublishedInv /\ PublishedInv' /\ [Next]_vars => [Pure!Next]_(Pure!pure)
  BY StepRefines
<1>4. QED
  BY <1>1, <1>2, <1>3, PublishedInitially, PTL DEF Spec, ImplementsPureAnalysis, Pure!Spec
==============================================================================
