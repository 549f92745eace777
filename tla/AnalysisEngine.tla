---------------------------- MODULE AnalysisEngine ----------------------------
(***************************************************************************)
(* The resident analyzer: a Galley's verbs and the one transition they     *)
(* lead to, over the cross-call AnalysisCache.                             *)
(*                                                                         *)
(* A transition plans from content stamps, maps the stale chapters into    *)
(* the prep section, reduces and judges the observation substrates into    *)
(* their caches, and only then commits the finding partitions.  The test   *)
(* builds can fail it at three boundaries; what it warmed by then stays.   *)
(*                                                                         *)
(* A chapter is a (slug, token) pair, a content stands for the chapter's   *)
(* 128-bit hash and for the one word its text names, and a finding record  *)
(* is the set of inputs it was derived from, so that two records are equal *)
(* only when every rule would emit the same findings.  One patching        *)
(* substrate stands for each of mixed_case ("words") and nonletter_usage   *)
(* ("corpus"), and one reference-declaring substrate, whose partition is   *)
(* rebuilt by every call, for proportionality and untranslated_words.      *)
(* Chapter order and boundary states are ReductionReplay's.                *)
(***************************************************************************)
EXTENDS Integers, FiniteSets

CONSTANTS
    Books, Chapters,  \* slugs, and the chapters some corpus holds
    BookOf(_),        \* the slug a chapter belongs to
    Contents,         \* chapter contents
    Absent,           \* the chapter is not there
    Configs,          \* the configurations the host sets
    Sources,          \* the reference corpora it sets, all Absent for none
    Consumers,        \* the rules the patching substrate serves
    StatsDelta,       \* "words" or "corpus": who a moved aggregate dirties
    Faults            \* the armed fault boundaries: map, reduce, judge

(* A configuration: the per-verse rules' settings, the patching substrate's *)
(* enabled consumers and judging knobs, and whether the reference rule is   *)
(* enabled.                                                                 *)
ASSUME EngineAssumption ==
    /\ IsFiniteSet(Chapters)
    /\ \A c \in Chapters : BookOf(c) \in Books
    /\ Absent \notin Contents
    /\ \A cfg \in Configs : cfg.emit \subseteq Consumers /\ cfg.paired \in BOOLEAN
    /\ \A ref \in Sources : DOMAIN ref = Chapters
    /\ StatsDelta \in {"words", "corpus"}
    /\ Faults \subseteq {"map", "reduce", "judge"}

VARIABLES
    corpus,       \* Corpus: content of every chapter
    source,       \* the reference corpus
    config,       \* Config
    state,        \* Galley's Lifecycle
    fingerprint,  \* PrepSection: the configuration prep was warmed under
    prep,         \* PrepSection: direct map products
    observed,     \* SubstrateCache: the chapters its reductions stand for
    tally,        \* SubstrateCache: corpus_stats, a count per word
    pending,      \* SubstrateCache: what the partition owes
    paired,       \* SubstrateCache of the reference-declaring substrate
    direct,       \* FindingSection: the direct lane's committed records
    stamps,       \* FindingSection: direct_stamps
    judged,       \* FindingSection: the substrate's partitions, per consumer
    rebuilt,      \* FindingSection: the partition rebuilt from each call's output
    pc,           \* how far the transition got
    dirty,        \* chapters whose direct records this attempt replaces
    stale,        \* the resident counts exceed the chapter count
    patch         \* the substrate's candidate patch

inputs == <<corpus, source, config>>
caches == <<fingerprint, prep, observed, tally, pending, paired>>
partitions == <<direct, stamps, judged, rebuilt>>
attempt == <<pc, dirty, stale, patch>>
vars == <<inputs, state, caches, partitions, attempt>>

(***************************************************************************)
(* Data.                                                                   *)
(***************************************************************************)
NoRecord == [content |-> Absent]

None == [c \in Chapters |-> NoRecord]

Empty == [c \in Chapters |-> Absent]

NoTally == [w \in Contents |-> 0]

Resident(f) == { c \in Chapters : f[c] # NoRecord }

Present(held) == { c \in Chapters : held[c] # Absent }

ChaptersOf(b) == { c \in Chapters : BookOf(c) = b }

BooksIn(held) == { BookOf(c) : c \in Present(held) }

Count(held, S, w) == Cardinality({ c \in S : held[c] = w })

DirectRecord(content, cfg) == [content |-> content, rules |-> cfg.direct]

(* A verdict reads the site's word, the whole aggregate's count of it and  *)
(* the judging knobs.                                                      *)
JudgedRecord(content, knobs, counts) ==
    [content |-> content, knobs |-> knobs,
     count |-> IF StatsDelta = "words" THEN counts[content] ELSE counts]

(* The reference rule judges a chapter against its whole book.             *)
PairedRecord(c, observations) ==
    [content |-> observations[c].content,
     book |-> [d \in ChaptersOf(BookOf(c)) |-> observations[d]]]

Identity(cfg) == [knobs |-> cfg.knobs, emit |-> cfg.emit]

NoIdentity == [knobs |-> Absent, emit |-> {}]

NoPatch == [all |-> FALSE, chapters |-> {}, findings |-> None]

NothingOwed == [all |-> FALSE, chapters |-> {},
                judged_under |-> NoIdentity, candidate |-> NoIdentity]

(* SubstrateCache::clear's pending: a re-enable rebuilds the partition.    *)
Cleared == [NothingOwed EXCEPT !.all = TRUE]

OweAll(p) == [p EXCEPT !.all = TRUE, !.chapters = {}]

OweChapters(p, S) == IF p.all THEN p ELSE [p EXCEPT !.chapters = @ \cup S]

(* promote: nothing is discharged unless some plan recorded an identity.   *)
Promote(p) ==
    IF p.candidate = NoIdentity THEN p
    ELSE [NothingOwed EXCEPT !.judged_under = p.candidate]

Without(f, S, nothing) == [c \in Chapters |-> IF c \in S THEN nothing ELSE f[c]]

(***************************************************************************)
(* Galley's verbs.  A proven no-op changes nothing at all.                 *)
(***************************************************************************)
Adopt(held) ==
    /\ pc = "idle"
    /\ held # corpus
    /\ corpus' = held
    /\ state' = "Dirty"
    /\ UNCHANGED <<source, config, attempt>>

(* update_book: one complete book, replaced in place or appended.          *)
UpdateBook(b, held) ==
    /\ b \in BooksIn(held)
    /\ \A c \in Chapters \ ChaptersOf(b) : held[c] = corpus[c]
    /\ Adopt(held)
    /\ UNCHANGED <<caches, partitions>>

(* update_chapter: one existing chapter.                                   *)
UpdateChapter(c, content) ==
    /\ corpus[c] # Absent
    /\ Adopt([corpus EXCEPT ![c] = content])
    /\ UNCHANGED <<caches, partitions>>

(* remove_book of the finding, substrate and prep sections, for the        *)
(* chapters of the dropped books.                                          *)
RemoveFromFindings(S) ==
    /\ direct' = Without(direct, S, NoRecord)
    /\ stamps' = Without(stamps, S, Absent)
    /\ judged' = [r \in Consumers |-> Without(judged[r], S, NoRecord)]
    /\ rebuilt' = Without(rebuilt, S, NoRecord)

RemoveKeepingTally(S) ==        \* mutant: the contribution stays in the aggregate
    /\ observed' = Without(observed, S, Absent)
    /\ pending' = IF S \cap Present(observed) # {} THEN OweAll(pending) ELSE pending
    /\ paired' = Without(paired, S, NoRecord)
    /\ UNCHANGED tally

RemoveUnowed(S) ==              \* mutant: the survivors' partition owes nothing
    /\ observed' = Without(observed, S, Absent)
    /\ tally' = [w \in Contents |-> tally[w] - Count(observed, S, w)]
    /\ paired' = Without(paired, S, NoRecord)
    /\ UNCHANGED pending

(* Withdrawing a contribution moves the aggregate the others' verdicts read. *)
RemoveFromSubstrates(S) ==
    /\ observed' = Without(observed, S, Absent)
    /\ tally' = [w \in Contents |-> tally[w] - Count(observed, S, w)]
    /\ pending' = IF S \cap Present(observed) # {} THEN OweAll(pending) ELSE pending
    /\ paired' = Without(paired, S, NoRecord)

RemoveFromCache(S) ==
    /\ RemoveFromFindings(S)
    /\ RemoveFromSubstrates(S)
    /\ prep' = Without(prep, S, NoRecord)
    /\ UNCHANGED fingerprint

RemoveBooks(slugs) ==
    LET removed == UNION { ChaptersOf(b) : b \in slugs \cap BooksIn(corpus) }
    IN /\ removed # {}
       /\ Adopt(Without(corpus, removed, Absent))
       /\ RemoveFromCache(removed)

(* replace_corpus: deletion reconciliation before the new corpus is taken. *)
ReplaceCorpus(held) ==
    /\ Adopt(held)
    /\ RemoveFromCache(UNION { ChaptersOf(b) : b \in BooksIn(corpus) \ BooksIn(held) })

ReplaceSourceQuietly(ref) ==    \* mutant: the handle is not dirtied
    /\ pc = "idle"
    /\ ref # source
    /\ source' = ref
    /\ UNCHANGED <<corpus, config, state, caches, partitions, attempt>>

(* replace_source: nothing is cleared, the paired stamps see it.           *)
ReplaceSource(ref) ==
    /\ pc = "idle"
    /\ ref # source
    /\ source' = ref
    /\ state' = "Dirty"
    /\ UNCHANGED <<corpus, config, caches, partitions, attempt>>

(* update_config never clears the cache: validity is settled by stamps.    *)
UpdateConfig(cfg) ==
    /\ pc = "idle"
    /\ cfg # config
    /\ config' = cfg
    /\ state' = "Dirty"
    /\ UNCHANGED <<corpus, source, caches, partitions, attempt>>

(***************************************************************************)
(* The transition, to the MAP boundary.                                    *)
(***************************************************************************)
(* ensure_fingerprint: a moved configuration drops the whole prep section. *)
KeptPrep == IF fingerprint = config THEN prep ELSE None

MapNeeded == { c \in Present(corpus) : KeptPrep[c].content # corpus[c] }

(* Chapters to patch: mapped now, or committed from other content.         *)
DirectDirty == MapNeeded \cup { c \in Present(corpus) : stamps[c] # corpus[c] }

Mapped == [c \in Chapters |-> IF c \in MapNeeded THEN DirectRecord(corpus[c], config)
                              ELSE KeptPrep[c]]

(* The O(1) removal signal: more chapters resident than the corpus holds.  *)
CountsExceed(products) ==
    \/ Cardinality(Resident(products)) > Cardinality(Present(corpus))
    \/ Cardinality(Present(stamps)) > Cardinality(Present(corpus))

Active == config.emit # {}

Plan ==
    /\ pc = "idle"
    /\ pc' = "mapped"
    /\ fingerprint' = config
    /\ dirty' = DirectDirty
    /\ stale' = CountsExceed(Mapped)
    /\ prep' = IF stale' THEN Without(Mapped, Chapters \ Present(corpus), NoRecord)
               ELSE Mapped
    /\ observed' = IF Active THEN observed ELSE Empty
    /\ tally' = IF Active THEN tally ELSE NoTally
    /\ pending' = IF Active THEN pending ELSE Cleared
    /\ paired' = IF config.paired THEN paired ELSE None
    /\ patch' = [NoPatch EXCEPT !.all = ~ Active]
    /\ UNCHANGED <<inputs, state, partitions>>

(***************************************************************************)
(* To the JUDGE boundary: update_book on every book of the layout, then    *)
(* the dirty set and the candidate patch.                                  *)
(***************************************************************************)
(* The stats-delta: words some book's folded contribution counts anew.     *)
MovedWords ==
    { w \in Contents : \E b \in BooksIn(corpus) :
          Count(observed, ChaptersOf(b), w) # Count(corpus, ChaptersOf(b), w) }

(* The site-delta: chapters that reduce to something new.                  *)
MovedSites == { c \in Present(corpus) : observed[c] # corpus[c] }

(* A book the substrate never folded owes the whole partition.             *)
ColdBooks == BooksIn(corpus) \ BooksIn(observed)

OwedThisAttempt ==              \* mutant: a failed attempt's debt is dropped
    IF ColdBooks # {} THEN OweAll(pending)
    ELSE [pending EXCEPT !.chapters = MovedSites]

OwedSites == IF ColdBooks # {} THEN OweAll(pending) ELSE OweChapters(pending, MovedSites)

OwedSitesOnly == OwedSites      \* mutant: only the chapters that moved it

OwedStats ==
    IF MovedWords = {} THEN OwedSites
    ELSE IF StatsDelta = "corpus" THEN OweAll(OwedSites)
    ELSE OweChapters(OwedSites, { c \in Present(corpus) : corpus[c] \in MovedWords })

RebuildOwed(p) == p.all         \* mutant: a moved identity is not noticed

(* PendingPartition::plan: a moved judging identity owes everything.       *)
RebuildAll(p) == p.all \/ p.judged_under # Identity(config)

Updated == UNION { ChaptersOf(b) : b \in BooksIn(corpus) }

TallyAdded ==                   \* mutant: the old contribution is not withdrawn
    [w \in Contents |-> tally[w] + Count(corpus, Updated, w)]

NewTally ==
    [w \in Contents |-> tally[w] - Count(observed, Updated, w) + Count(corpus, Updated, w)]

(* The observation stamp pairs the chapter with its reference chapter, an   *)
(* explicit absent tag when nothing pairs.                                  *)
PairedNow(c) == [content |-> corpus[c], reference |-> source[c]]

ObservationTargetOnly(c) ==     \* mutant: the stamp omits the reference
    IF corpus[c] = Absent THEN NoRecord
    ELSE IF paired[c].content = corpus[c] THEN paired[c]
    ELSE PairedNow(c)

Observation(c) ==
    IF corpus[c] = Absent THEN NoRecord
    ELSE IF paired[c] = PairedNow(c) THEN paired[c]
    ELSE PairedNow(c)

Judge ==
    /\ pc = "mapped"
    /\ pc' = "judged"
    /\ paired' = IF config.paired
                 THEN [c \in Chapters |-> IF c \in Updated THEN Observation(c) ELSE paired[c]]
                 ELSE paired
    /\ IF Active
       THEN /\ observed' = [c \in Chapters |-> IF c \in Updated THEN corpus[c] ELSE observed[c]]
            /\ tally' = NewTally
            /\ pending' = [OwedStats EXCEPT !.candidate = Identity(config)]
            /\ patch' =
                  LET all == RebuildAll(OwedStats)
                      owed == IF all THEN {} ELSE OwedStats.chapters
                  IN [all |-> all, chapters |-> owed,
                      findings |-> [c \in Chapters |->
                          IF c \in Present(corpus) /\ (all \/ c \in owed)
                          THEN JudgedRecord(corpus[c], config.knobs, NewTally)
                          ELSE NoRecord]]
       ELSE UNCHANGED <<observed, tally, pending, patch>>
    /\ UNCHANGED <<inputs, state, fingerprint, prep, partitions, dirty, stale>>

(***************************************************************************)
(* The commit: every lane's candidate at once, past every fault boundary.  *)
(***************************************************************************)
Departed == IF stale THEN Chapters \ Present(corpus) ELSE {}

(* patch_direct.                                                           *)
AllDirty == Cardinality(dirty) = Cardinality(Present(corpus))

Retained(f, nothing) == IF AllDirty THEN [c \in Chapters |-> nothing]
                        ELSE Without(f, Departed, nothing)

PatchDirect ==
    /\ direct' = [c \in Chapters |-> IF c \in dirty THEN prep[c] ELSE Retained(direct, NoRecord)[c]]
    /\ stamps' = [c \in Chapters |-> IF c \in dirty THEN corpus[c] ELSE Retained(stamps, Absent)[c]]

(* commit_substrates: a consumer that is off loses its partition, one that *)
(* is on has exactly the patch's groups replaced.                          *)
PatchOf(r) ==
    IF r \notin config.emit THEN None
    ELSE [c \in Chapters |->
             IF patch.all \/ c \in patch.chapters \cup Departed THEN patch.findings[c]
             ELSE judged[r][c]]

(* rebuild_substrate_outputs: partitions rebuilt from the call's output.   *)
Rebuilt(c) ==
    IF config.paired /\ c \in Present(corpus) THEN PairedRecord(c, paired) ELSE NoRecord

Commit ==
    /\ pc = "judged"
    /\ rebuilt' = [c \in Chapters |-> Rebuilt(c)]
    /\ PatchDirect
    /\ judged' = [r \in Consumers |-> PatchOf(r)]
    /\ pending' = Promote(pending)
    /\ state' = "CleanPublished"
    /\ pc' = "idle" /\ dirty' = {} /\ stale' = FALSE /\ patch' = NoPatch
    /\ UNCHANGED <<inputs, fingerprint, prep, observed, tally, paired>>

(* try_analyze's error path: the warm cache stays, the handle stays Dirty. *)
Fail ==
    /\ \/ pc = "mapped" /\ Faults \cap {"map", "reduce"} # {}
       \/ pc = "judged" /\ "judge" \in Faults
    /\ pc' = "idle" /\ dirty' = {} /\ stale' = FALSE /\ patch' = NoPatch
    /\ UNCHANGED <<inputs, state, caches, partitions>>

(***************************************************************************)
(* What analyze returns: the partitions, chapter by chapter, for the       *)
(* chapters the corpus holds (assemble skips a group whose chapter left).  *)
(***************************************************************************)
Assemble ==
    [c \in Present(corpus) |->
        [direct |-> direct[c], rebuilt |-> rebuilt[c], judged |-> [r \in Consumers |-> judged[r][c]]]]

(* The pure one-shot analysis of the same inputs.                          *)
Cold(held, ref, cfg) ==
    LET counts == [w \in Contents |-> Count(held, Chapters, w)]
        pairs == [c \in Chapters |-> IF held[c] = Absent THEN NoRecord
                                     ELSE [content |-> held[c], reference |-> ref[c]]]
    IN [c \in Present(held) |->
           [direct  |-> DirectRecord(held[c], cfg),
            rebuilt |-> IF cfg.paired THEN PairedRecord(c, pairs) ELSE NoRecord,
            judged  |-> [r \in Consumers |->
                            IF r \in cfg.emit
                            THEN JudgedRecord(held[c], cfg.knobs, counts) ELSE NoRecord]]]

Corpora == [Chapters -> Contents \cup {Absent}]

Init ==
    /\ corpus \in Corpora /\ source \in Sources /\ config \in Configs
    /\ state = "Dirty"
    /\ fingerprint = NoIdentity /\ prep = None
    /\ observed = Empty /\ tally = NoTally /\ pending = NothingOwed
    /\ paired = None
    /\ direct = None /\ stamps = Empty /\ rebuilt = None
    /\ judged = [r \in Consumers |-> None]
    /\ pc = "idle" /\ dirty = {} /\ stale = FALSE /\ patch = NoPatch

Next ==
    \/ \E b \in Books, held \in Corpora : UpdateBook(b, held)
    \/ \E c \in Chapters, content \in Contents : UpdateChapter(c, content)
    \/ \E slugs \in SUBSET Books : RemoveBooks(slugs)
    \/ \E held \in Corpora : ReplaceCorpus(held)
    \/ \E ref \in Sources : ReplaceSource(ref)
    \/ \E cfg \in Configs : UpdateConfig(cfg)
    \/ Plan \/ Judge \/ Commit \/ Fail

Spec == Init /\ [][Next]_vars

(***************************************************************************)
(* Properties.                                                             *)
(***************************************************************************)
Pendings == [all : BOOLEAN, chapters : SUBSET Chapters,
             judged_under : { Identity(cfg) : cfg \in Configs } \cup {NoIdentity},
             candidate : { Identity(cfg) : cfg \in Configs } \cup {NoIdentity}]

(* Type invariant; between calls nothing of an attempt is left.            *)
TypeOK ==
    /\ corpus \in Corpora /\ observed \in Corpora /\ stamps \in Corpora
    /\ source \in Sources
    /\ config \in Configs /\ fingerprint \in Configs \cup {NoIdentity}
    /\ state \in {"Dirty", "CleanPublished"}
    /\ pc \in {"idle", "mapped", "judged"}
    /\ pending \in Pendings
    /\ tally \in [Contents -> 0 .. Cardinality(Chapters)]
    /\ dirty \subseteq Chapters /\ stale \in BOOLEAN
    /\ pc = "idle" => dirty = {} /\ ~ stale /\ patch = NoPatch

(* What the host was last given is what a pure analysis of the resident     *)
(* inputs returns, whatever mutations, failed attempts and retries came     *)
(* between: try_analyze's "reaches exactly the cold result".               *)
PublishedIsCold == state = "CleanPublished" => Assemble = Cold(corpus, source, config)

(* Retry safety of a patching substrate: every chapter whose committed      *)
(* records are not what its warm cache and the committed judging identity   *)
(* give is owed, until a commit discharges it.                             *)
Settled(c) ==
    \A r \in Consumers :
        judged[r][c] = IF r \in pending.judged_under.emit
                       THEN JudgedRecord(observed[c], pending.judged_under.knobs, tally)
                       ELSE NoRecord

DebtIsRecorded ==
    \/ pending.all
    \/ pending.judged_under = NoIdentity
    \/ \A c \in Present(observed) \ pending.chapters : Settled(c)

(* The incrementally maintained corpus aggregate is the sum of the          *)
(* contributions of the books the cache holds.                             *)
TallyIsSum == \A w \in Contents : tally[w] = Count(observed, Chapters, w)

(* commit_substrates: "a chapter dropped by a whole-book replacement cannot *)
(* survive as a partition record".                                         *)
DepartedChaptersLeaveNoGroup ==
    state = "CleanPublished" =>
        \A r \in Consumers : Resident(judged[r]) \subseteq Present(corpus)

(***************************************************************************)
(* The pure analyzer the resident one implements: its answer stands while  *)
(* the handle is clean.                                                    *)
(***************************************************************************)
Pure == INSTANCE PureAnalysis WITH
    inputs <- inputs,
    answer <- IF state = "CleanPublished" THEN Assemble ELSE Absent,
    NoAnswer <- Absent,
    Inputs <- Corpora \X Sources \X Configs,
    Analysis <- [in \in Corpora \X Sources \X Configs |-> Cold(in[1], in[2], in[3])]

(* The resident analyzer is the pure function of its inputs: an answer is   *)
(* only ever published by an analysis, and any changed input retracts it.   *)
ImplementsPureAnalysis == Pure!Spec
==============================================================================
