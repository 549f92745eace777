------------------------------ MODULE ChapterMap ------------------------------
(***************************************************************************)
(* The chapter-outer map phase: the one concurrent part of an analysis.    *)
(*                                                                         *)
(* A plan enrols, for every substrate, the chapters whose observation is   *)
(* not current; one work list over their union is mapped by a pool of      *)
(* threads at one grain; workers name their words through one shared,      *)
(* locked, append-only table, so which symbol a word gets depends on who   *)
(* was first.  The observations, symbols included, outlive the call; each  *)
(* book's are folded into a contribution in the words' string order.       *)
(*                                                                         *)
(* The participants are the two substrates that intern, mixed case and      *)
(* casing, over a corpus whose chapters hold one of a few contents.  A      *)
(* word's profile is 1 per chapter, so a fold counts the chapters of the    *)
(* book that hold it; casing's boundary states are left to ReductionReplay. *)
(* From the join to its end the call is one step; it succeeds or fails at   *)
(* the map boundary (later faults belong to AnalysisEngine).                *)
(***************************************************************************)
EXTENDS Integers, Sequences, FiniteSets, SequencesExt, Collections

CONSTANTS
    Layout,        \* every chapter, in the order of the corpus
    BookOf(_),     \* the slug of a chapter, contiguous in Layout
    Contents,
    Corpora,       \* the corpora an edit may lead to: [Chapters -> Contents or Absent]
    Absent,        \* no content, no observation
    Words,         \* the folded words, in string order
    Participants,  \* the interning substrates, in the order a task maps them
    KeysOf(_, _),  \* a participant's first-sight key list for a content
    MixedCase,     \* the participant that dirties its chapters by symbol
    SitesOf(_)     \* the words of its judged occurrences in a content

Chapters == ToSet(Layout)

Slugs == { BookOf(c) : c \in Chapters }

ASSUME MapAssumption ==
    /\ Layout \in Seq(ToSet(Layout)) /\ Words \in Seq(ToSet(Words))
    /\ Absent \notin Contents
    /\ Corpora \subseteq [Chapters -> Contents \cup {Absent}]
    /\ \A p \in ToSet(Participants), x \in Contents :
          KeysOf(p, x) \in Seq(ToSet(Words)) /\ IsInjective(KeysOf(p, x))
    /\ MixedCase \in ToSet(Participants)
    /\ \A x \in Contents : SitesOf(x) \subseteq ToSet(KeysOf(MixedCase, x))

VARIABLES
    corpus,        \* the content of every chapter
    active,        \* ActiveSubstrates: the participants with an enabled rule
    arena,         \* WordInterner: symbol -> word
    observed,      \* SubstrateCache: an observation per participant and chapter
    contribution,  \* SubstrateCache: the folded words per participant and book
    owesAll,       \* mixed case's PendingPartition owes every chapter
    dirty,         \* the chapters the last call owed for its stats delta
    pc,            \* idle, map, or panicked
    route,         \* MapRoute
    work,          \* the work list: a chapter and who participates
    bundles        \* what each task has mapped so far

resident == <<arena, observed, contribution, owesAll, dirty>>
call == <<pc, route, work, bundles>>
vars == <<corpus, active, resident, call>>

Substrates == ToSet(Participants)

Nothing == [p \in Substrates |-> Absent]

NoBooks == [b \in Slugs |-> << >>]

NoObservations == [c \in Chapters |-> Absent]

(***************************************************************************)
(* WordInterner.                                                           *)
(***************************************************************************)
Interned(table, w) == \E s \in DOMAIN table : table[s] = w

SymbolIn(table, w) == CHOOSE s \in DOMAIN table : table[s] = w

GrownAll(keys) == arena \o keys        \* mutant: a known word is appended again

(* intern_all: one batch under one lock, in order; a word not seen before   *)
(* is appended.                                                            *)
Grown(keys) ==
    LET grown[n \in 0 .. Len(keys)] ==
            IF n = 0 THEN arena
            ELSE IF Interned(grown[n - 1], keys[n]) THEN grown[n - 1]
            ELSE Append(grown[n - 1], keys[n])
    IN grown[Len(keys)]

(* resolve_all                                                             *)
Resolve(symbols) == [n \in DOMAIN symbols |-> arena[symbols[n]]]

(* symbols_of: words never seen are left out.                              *)
SymbolsOf(words) == { s \in DOMAIN arena : arena[s] \in words }

(***************************************************************************)
(* Edits between calls.                                                    *)
(***************************************************************************)
Present(held) == { c \in Chapters : held[c] # Absent }

BooksIn(held) == { BookOf(c) : c \in Present(held) }

CompactArena(slugs) ==          \* mutant: a removed book's words are dropped
    LET used == UNION { ToSet(observed[p][c].keys) :
                          p \in Substrates,
                          c \in { d \in Chapters : BookOf(d) \notin slugs
                                    /\ \A q \in Substrates : observed[q][d] # Absent } }
    IN SelectSeq(arena, LAMBDA w : SymbolIn(arena, w) \in used)

(* remove_book never compacts the table.                                   *)
KeptArena(slugs) == arena

(* Any mutation of the corpus; books that leave are reconciled out of the  *)
(* substrate caches.                                                       *)
Edit(held) ==
    LET left == BooksIn(corpus) \ BooksIn(held)
    IN /\ pc = "idle"
       /\ held # corpus
       /\ corpus' = held
       /\ arena' = KeptArena(left)
       /\ observed' = [p \in Substrates |-> [c \in Chapters |->
                          IF BookOf(c) \in left THEN Absent ELSE observed[p][c]]]
       /\ contribution' = [p \in Substrates |-> [b \in Slugs |->
                          IF b \in left THEN << >> ELSE contribution[p][b]]]
       /\ owesAll' = (owesAll \/ \E b \in left : contribution[MixedCase][b] # << >>)
       /\ dirty' = {}
       /\ UNCHANGED <<active, call>>

(* AnalysisCache::clear, the one point where the table is dropped.         *)
Clear ==
    /\ pc = "idle"
    /\ arena' = << >>
    /\ observed' = [p \in Substrates |-> NoObservations]
    /\ contribution' = [p \in Substrates |-> NoBooks]
    /\ owesAll' = TRUE
    /\ dirty' = {}
    /\ UNCHANGED <<corpus, active, call>>

Enable(set) ==
    /\ pc = "idle"
    /\ set # active
    /\ active' = set
    /\ dirty' = {}
    /\ UNCHANGED <<corpus, arena, observed, contribution, owesAll, call>>

(***************************************************************************)
(* Planning: Schedule::enrol and the work list.                            *)
(***************************************************************************)
ResidentOnly(cache, c) == cache[c] # Absent         \* mutant: the stamp is not compared

(* observation_is_current                                                  *)
Current(cache, c) == cache[c] # Absent /\ cache[c].stamp = corpus[c]

(* A participant that is off drops its products before anything is mapped. *)
Kept(f, p, none) == IF p \in active THEN f[p] ELSE none

Enrolled(c) == { p \in active : ~ Current(observed[p], c) }

WorkList ==
    LET stale == Selected(Layout, { c \in Present(corpus) : Enrolled(c) # {} })
    IN [i \in DOMAIN stale |-> [chapter |-> stale[i], participants |-> Enrolled(stale[i])]]

(* map_route; the build (serial, parallel) and whether the text passes the *)
(* byte threshold are left open.                                           *)
Routes(list) ==
    IF Cardinality({ BookOf(list[i].chapter) : i \in DOMAIN list }) > 1 THEN {"Serial", "Books"}
    ELSE IF Len(list) > 1 THEN {"Serial", "Chapters"}
    ELSE {"Serial"}

Plan ==
    /\ pc = "idle"
    /\ pc' = "map"
    /\ work' = WorkList
    /\ route' \in Routes(work')
    /\ bundles' = [i \in DOMAIN work' |-> Nothing]
    /\ observed' = [p \in Substrates |-> Kept(observed, p, NoObservations)]
    /\ contribution' = [p \in Substrates |-> Kept(contribution, p, NoBooks)]
    /\ owesAll' = (owesAll \/ MixedCase \notin active)
    /\ dirty' = {}
    /\ UNCHANGED <<corpus, active, arena>>

(***************************************************************************)
(* The map: workers interleave at the table's lock.                        *)
(***************************************************************************)
Mapped(i) == \A p \in work[i].participants : bundles[i][p] # Absent

SameBook(i, j) == BookOf(work[i].chapter) = BookOf(work[j].chapter)

(* The book grain maps its own chapters one after another.                 *)
Startable(i) ==
    \A j \in 1 .. i - 1 :
        \/ Mapped(j)
        \/ route = "Chapters"
        \/ route = "Books" /\ ~ SameBook(i, j)

(* A task maps its participants in the registry's order.                   *)
Preceded(i, n) ==
    \A m \in 1 .. n - 1 :
        Participants[m] \in work[i].participants => bundles[i][Participants[m]] # Absent

FilledAlone(i, p, observation) ==   \* mutant: the bundle is replaced, not filled
    [bundles EXCEPT ![i] = [Nothing EXCEPT ![p] = observation]]

Filled(i, p, observation) == [bundles EXCEPT ![i][p] = observation]

MapParticipant(i, n) ==
    LET p == Participants[n]
        content == corpus[work[i].chapter]
        keys == KeysOf(p, content)
    IN /\ pc = "map"
       /\ p \in work[i].participants /\ bundles[i][p] = Absent
       /\ Startable(i) /\ Preceded(i, n)
       /\ arena' = Grown(keys)
       /\ bundles' = Filled(i, p,
              [stamp |-> content, keys |-> [m \in DOMAIN keys |-> SymbolIn(arena', keys[m])]])
       /\ UNCHANGED <<corpus, active, observed, contribution, owesAll, dirty, pc, route, work>>

(***************************************************************************)
(* Past the join: scatter, then update_book on every book of the layout.   *)
(***************************************************************************)
Slot(p, c) == { bundles[i][p] : i \in { j \in DOMAIN work :
                    work[j].chapter = c /\ p \in work[j].participants } }

(* What update_book asks of the slots: the chapters it cannot reuse.       *)
Asked(p) == { c \in Present(corpus) : ~ (observed[p][c] # Absent /\ observed[p][c].stamp = corpus[c]) }

Missed == \E p \in active : \E c \in Asked(p) : Slot(p, c) = {}

Observations(p) ==
    [c \in Chapters |->
        IF corpus[c] = Absent THEN Absent
        ELSE IF c \in Asked(p) THEN CHOOSE o \in Slot(p, c) : TRUE
        ELSE observed[p][c]]

(* fold_book: counts by symbol, resolved once, then in string order.       *)
Holding(cache, b, s) ==
    { c \in Chapters : BookOf(c) = b /\ cache[c] # Absent /\ s \in ToSet(cache[c].keys) }

ByNumber(symbols) == SetToSortSeq(symbols, LAMBDA s, t : s < t)    \* mutant

InStringOrder(symbols) ==
    LET words == Selected(Words, { arena[s] : s \in symbols })
    IN [n \in DOMAIN words |-> SymbolIn(arena, words[n])]

FoldBook(cache, b) ==
    LET symbols == InStringOrder({ s \in DOMAIN arena : Holding(cache, b, s) # {} })
    IN [n \in DOMAIN symbols |->
           [word |-> arena[symbols[n]], count |-> Cardinality(Holding(cache, b, symbols[n]))]]

(* The stats delta of one book: the words its contribution counts anew.    *)
DeltaGained(old, new) ==            \* mutant: words that left are no delta
    { row.word : row \in ToSet(new) \ ToSet(old) }

Delta(old, new) ==
    { row.word : row \in (ToSet(old) \ ToSet(new)) \cup (ToSet(new) \ ToSet(old)) }

(* The present chapters with an occurrence of a moved word, by symbol.     *)
SiteSymbols(o) ==
    { s \in ToSet(o.keys) : arena[s] \in SitesOf(o.stamp) }

Dirtied(cache, words) ==
    { c \in Present(corpus) : SiteSymbols(cache[c]) \cap SymbolsOf(words) # {} }

Ended == route' = "Serial" /\ work' = << >> /\ bundles' = << >>

Joined == pc = "map" /\ \A i \in DOMAIN work : Mapped(i)

(* A book the cache did not hold owes the whole partition.                 *)
ColdBook == \E b \in BooksIn(corpus) :
    \A c \in Chapters : BookOf(c) = b => observed[MixedCase][c] = Absent

Update ==
    /\ pc' = "idle" /\ UNCHANGED arena
    /\ observed' = [p \in Substrates |->
           IF p \in active THEN Observations(p) ELSE observed[p]]
    /\ contribution' = [p \in Substrates |->
           IF p \in active
           THEN [b \in Slugs |-> IF b \in BooksIn(corpus) THEN FoldBook(observed'[p], b)
                                 ELSE contribution[p][b]]
           ELSE contribution[p]]
    /\ dirty' = IF MixedCase \notin active THEN {}
                ELSE IF owesAll \/ ColdBook THEN Present(corpus)
                ELSE Dirtied(observed'[MixedCase],
                         UNION { Delta(contribution[MixedCase][b], contribution'[MixedCase][b])
                                   : b \in Slugs })
    /\ owesAll' = (MixedCase \notin active)

(* MappedSlots::take finds an empty slot: "the planning pass and the       *)
(* scheduler disagree about participation".  The program stops.            *)
Panic == pc' = "panicked" /\ UNCHANGED resident

Finish ==
    /\ Joined
    /\ IF Missed THEN Panic ELSE Update
    /\ Ended
    /\ UNCHANGED <<corpus, active>>

(* The MAP fault of the test builds: the observations are dropped, the     *)
(* words stay interned.                                                    *)
Fail ==
    /\ Joined
    /\ pc' = "idle"
    /\ Ended
    /\ UNCHANGED <<corpus, active, resident>>

Init ==
    /\ corpus \in Corpora
    /\ active \in SUBSET Substrates
    /\ arena = << >>
    /\ observed = [p \in Substrates |-> NoObservations]
    /\ owesAll = FALSE
    /\ contribution = [p \in Substrates |-> NoBooks]
    /\ dirty = {}
    /\ pc = "idle" /\ route = "Serial" /\ work = << >> /\ bundles = << >>

MapStep == \E i \in DOMAIN work, n \in DOMAIN Participants : MapParticipant(i, n)

Next ==
    \/ \E held \in Corpora : Edit(held)
    \/ \E set \in SUBSET Substrates : Enable(set)
    \/ Clear \/ Plan \/ MapStep \/ Finish \/ Fail

(* The thread pool runs every task it was given, and the call goes on once *)
(* they are joined.                                                        *)
Fairness == WF_vars(MapStep) /\ WF_vars(Finish)

Spec == Init /\ [][Next]_vars /\ Fairness

(***************************************************************************)
(* Properties.                                                             *)
(***************************************************************************)
(* Type invariant.                                                         *)
TypeOK ==
    /\ arena \in Seq(ToSet(Words)) /\ IsInjective(arena)
    /\ pc \in {"idle", "map", "panicked"}
    /\ route \in {"Serial", "Books", "Chapters"}
    /\ DOMAIN bundles = DOMAIN work
    /\ owesAll \in BOOLEAN /\ dirty \subseteq Present(corpus)

(* A symbol's meaning is permanent: an observation mapped by any earlier    *)
(* call, by any thread, whatever was interned or removed since, still names *)
(* the words of the text it was mapped from, in their order.               *)
ObservationsKeepTheirWords ==
    \A p \in Substrates, c \in Chapters :
        observed[p][c] # Absent =>
            /\ ToSet(observed[p][c].keys) \subseteq DOMAIN arena
            /\ Resolve(observed[p][c].keys) = KeysOf(p, observed[p][c].stamp)

TextHolding(cache, p, b, w) ==
    { c \in Chapters : BookOf(c) = b /\ cache[c] # Absent /\ w \in ToSet(KeysOf(p, cache[c].stamp)) }

TextFold(cache, p, b) ==
    LET words == Selected(Words, { w \in ToSet(Words) : TextHolding(cache, p, b, w) # {} })
    IN [n \in DOMAIN words |->
           [word |-> words[n], count |-> Cardinality(TextHolding(cache, p, b, words[n]))]]

(* Symbol numbers are no part of any answer: a book's contribution is the   *)
(* same whichever thread named a word first.                               *)
ContributionIsOfTheText ==
    \A p \in Substrates, b \in Slugs : contribution[p][b] = TextFold(observed[p], p, b)

(* The plan and the driver agree on who participates, after any edits and   *)
(* failed calls: no slot update_book takes from is empty.                  *)
NoMissedSlot == pc # "panicked"

CountIn(rows, w) == { row.count : row \in { r \in ToSet(rows) : r.word = w } }

(* Every chapter with an occurrence of a word whose count moved in some     *)
(* book of this call is judged again, whatever numbers the two calls gave  *)
(* the word.                                                               *)
MovedWordsDirtyTheirChapters ==
    [][Finish /\ MixedCase \in active =>
          \A b \in Slugs, c \in Present(corpus) : \A w \in SitesOf(corpus[c]) :
              CountIn(contribution[MixedCase][b], w) # CountIn(contribution'[MixedCase][b], w)
                  => c \in dirty']_vars

(* The fan-out ends: no task waits for one that waits for it.              *)
MapEnds == pc = "map" ~> pc = "idle"
==============================================================================
