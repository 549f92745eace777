# Verification of scripture-sous-chef

`scripture-sous-chef` analyses a Bible translation, a *target* corpus of verse texts and an
optional *reference* corpus, with about two dozen rules, and reports findings. It is built to
be kept in memory beside an editor: a resident handle is edited book by book and chapter by
chapter and analysed again after every edit. Its promise, repeated all over the code, is that
the resident analyzer is *indistinguishable from a cold one*: whatever edits, failed attempts
and retries came before, the findings published are those a one-shot analysis of the same
inputs returns. This directory states that promise, and the promises it rests on, in TLA+,
checks them with TLC and proves most of them with TLAPS.

Contents: 1 the system, 2 the modules, 3 the runs, 4 bounds and fairness, 5 what is proved,
6 where code and comments disagree, 7 what is not modelled, 8 the plan.

Paths are relative to the repository; `core`, `galley`, `wasm` and `wire` are `crates/<name>`.

## 1. The system

### 1.1 Components, their state and their operations

| component | state it keeps | operations | what makes it correct |
|---|---|---|---|
| corpus layout, `core/src/corpus.rs` | keys, texts, and the derived book and chapter ranges with their content hashes | `try_from_parts`, `replace_books`, `replace_chapter`, `remove_book`, `locate` | the locally maintained layout is the one a construction would derive; books and chapters never reopen; an edit reports honestly whether it changed anything; a refused edit changes nothing |
| substrate driver, `core/src/substrate.rs` | per substrate: each book's columns (token, stamp, observation, entering and leaving state, reduced chapter), the corpus aggregate | `update_book`, `remove_book`, `clear`, `observation_is_current` | a book kept by reuse and partial replay equals a cold left-to-right fold; the aggregate is the sum of what the books contribute |
| pending partition, `core/src/substrate.rs` | the debts of a partition and the judging identity it stands under | `owe_all`, `owe_chapter`, `plan`, `promote` | a debt survives every failed attempt, and is dropped by the commit that pays it only |
| analysis cache, `core/src/cache.rs` | prep products with their configuration fingerprint, direct records with stamps, one partition per rule, the substrate caches, the word table | `ensure_fingerprint`, `patch_direct`, `commit_substrates`, `assemble`, `remove_book`, `clear` | records reused are the records a fresh judgment would produce |
| analysis transition, `core/src/lib.rs` | locals of one call | plan, map, reduce, judge, commit; three fault boundaries | nothing is published before the last boundary; what is published is cold |
| chapter schedule, `core/src/schedule.rs`, `rule.rs` | a plan per substrate, one work list, a slot per chapter | `enrol`, `run`, `map_chapter_work`, `scatter`, `take` | the plan and the driver agree on who is mapped; the grain and the order of completion change nothing |
| interner, `core/src/interner.rs` | the append-only table of folded words behind a mutex | `intern_all`, `symbols_of`, `resolve_all` | a symbol names one word for as long as anything holds it; its number never reaches an answer |
| substrates and rules, `core/src/signals/*` | the types the driver is instantiated with: casing, mixed case, bracket balance, repeated runs, duplicate words, rare glyphs, script mixing, normalization, non-letter usage, proportionality, untranslated words; the per-verse rules | `map_chapter`, `reduce_chapter`, `fold_book`, `replace_book_in_corpus_stats`, `judge` | a rule's dirty set contains every chapter whose verdict can have moved |
| casing model, `core/src/signals/casing.rs` | the aggregate with its swap log, the judge model, the memos, the verdicts the standing findings were emitted under | drained book-table swaps, the patched panel, `VerdictDiff` | the patched model is the one a fresh build gives; a finding that moved is owed, wherever it is |
| galley handle, `galley/src/lib.rs` | corpus, source, config, cache, lifecycle | six mutation verbs, `try_analyze`, `census`, resolvers | a change retracts the published analysis, a proven no-op does not |
| identity, `core/src/identity.rs` | none | `TargetContextId`, `AnalysisId` | equal ids mean equal inputs |
| wire, `wire/src` | none | `pack`, `decode`, the per-code schema | a decoded record is the packed finding, or the pack is refused |
| wasm adapter, `wasm/src/lib.rs`, `wasm/js/findings.js` | the id and arguments of the last packed analysis; decoded snapshots | the verbs, `analyze`, `findingsArgs`, `decodeFindings`, `decodePersistedFindings`, `reconcileFindings` | an id accepted is the id of the current inputs; a snapshot is exact for the id it shows |
| per-chapter views, `core/src/prep.rs`, `tape.rs`, `token.rs`, `grapheme.rs`, `stream.rs` | none across calls | segmentation of verse text, the mask of a verse | words and graphemes do not depend on which walker found them; a mask opens the gate of every scan that would report |
| configuration, catalog, census, review depth, statistics | none across calls | parsing, texts, read-only reports and filters | pure functions |

`PROJECT.json` names every part with its sources, its modules and what is left out of each.

### 1.2 How they interact

    host --verbs--> wasm Galley --verbs--> galley Galley --edits--> Corpus
      ^                  |                     |  |
      |   bytes, args    |                     |  '--remove_book--> AnalysisCache
      '------------------'                     |
                                         try_analyze
                                               |
          plan ---- map ----------- reduce ---------- judge ------- commit
          stamps,   thread pool,    update_book per   patches       partitions,
          enrolment word table      substrate, book                 promote
               '------ fault ----------- fault ---------- fault '

Everything but the map runs on one thread behind `&mut self`; the map's workers share the
corpus, which they read, and the word table, which they append to under a mutex. An attempt
that fails leaves products of the phases it finished in the caches and nothing in the finding
partitions. The fault boundaries exist in the test builds only: in a shipped build the
analysis is total, and the failing phase of the adapter is the pack.

### 1.3 What is hard

- *Partial replay.* `update_book` re-reduces a window of chapters. A contribution left
  open by one chapter is resolved in a later one and deposited back into its owner, so the
  window has to begin at that owner and may stop only when nothing carried belongs inside it.
- *Retry.* A failed attempt has warmed caches and published nothing. The retry sees no
  movement, yet must rewrite everything the first one would have.
- *Action at a distance.* An edit in one book moves a corpus-wide aggregate and so verdicts
  in chapters nobody touched.
- *Departures.* Chapters, books, the reference and rules come and go; their products must go
  with them and must not meet them when they return.
- *Concurrency.* The numbers the word table gives depend on the order the workers finish in,
  and outlive the call.
- *Seams.* Verses, chapters and books are cut where the text is not: a sentence, a bracket, a
  doubled word or a pair of marks may straddle every one of them, and each rule says which
  ones it reads across.
- *Summaries.* A rule keeps per-book tables and subtracts and adds them; a table that was
  pruned, or a delta that forgot a key, shows only after the right sequence of edits.
- *Stale handles.* The host asks for arguments of a finding by snapshot id and index, at any
  time after any mutation, and stores buffers across sessions.

## 2. The modules

| module | models | over |
|---|---|---|
| `ReductionReplay` | `update_book` step by step, the pending partition | an abstract substrate, books of up to `MaxChapters` chapters |
| `ReductionReplay_proofs` | the proofs about it | every substrate that meets the contract, every length |
| `Collections` | nothing: folds, selections, tables the other modules are written with | |
| `DataInduction` | nothing: induction over numbers and sequences, said of sets; sequences, bags, sums and counts | |
| `AnalysisEngine` | the galley verbs, the transition, the analysis cache | an abstract patching substrate and an abstract reference-declaring one |
| `AnalysisEngine_proofs` | the proofs about it | every corpus shape, every pattern of failures |
| `PureAnalysis` | the abstract specification of a resident analyzer | any inputs, any analysis function |
| `CorpusLayout` | the corpus, its layout and its edits | opaque keys and texts |
| `CorpusLayout_proofs` | the proofs about it | every corpus, every edit, every ceiling |
| `ChapterMap` | the schedule, the concurrent map, the word table, the fold by symbol | the two interning substrates |
| `ChapterMap_proofs` | the proofs about it | every number of workers, substrates and words |
| `CasingText` | casing's chapter map, its seam carry, reduction and book fold | words by case, gap characters by class |
| `CasingModel` | casing's aggregate, swap log, judge model, verdicts and partition, through failed attempts | texts over `CasingText`, thresholds as constants |
| `CasingModel_proofs` | the proofs about it | every book list, text, configuration and statistic |
| `RuleEvidence` | ten statistical rules, the per-verse scans, the census's spacing walk and segmentation on an edited corpus, one at a time | small alphabets, a fixed reference |
| `RuleEvidence_proofs` | the proofs about it | every alphabet, number of books and text |
| `Tallies`, `Brackets`, `RepeatedText`, `RareGlyphs`, `ScriptMixing`, `NormalForms`, `NonletterRuns`, `MixedShapes`, `PairedVerses` | the rules `RuleEvidence` drives: map, carry, fold, aggregate, judge | |
| `VerseScans` | the mask of a verse, the twelve per-verse rules and their gates | scalars by character and class |
| `MarkSpacing` | the census's spacing walk with what it carries over a seam | graphemes by kind |
| `WordBreaks` | the hand-written word walker, the verse gate and the book gate | scalars by word-break category |
| `TokenStreams` | a chapter's tokens as shared bytes, and their reader | token positions |
| `GraphemeClusters` | the grapheme walk with its inline conjuncts | scalars by class |
| `WireRecords` | one packed record: refusals, UTF-16 projection, quantized score, clamped digest; the decoder's row and identity | texts as byte and unit lengths, field widths as constants |
| `Publication` | the wasm handle, `pack`'s record sequence over `WireRecords`, `findings.js`, the storing application | findings as a function of the inputs |
| `Publication_proofs` | the proofs about it | every corpus, reference and severity |

The `MC*` modules instantiate them for TLC.

**ReductionReplay.** One book of one substrate. `UpdateBook(in)` is steps 0 and 1 of the
function (the early return, reuse of observations by token and stamp, the first changed
position); `WalkBack` is one round of the loop that moves the window's start to the owner of
what is carried into it; `OpenWindow` copies the columns before the window; `Replay` is one
round of the reduction loop with its convergence test; `Finish` is the book edge, the site
delta, the debts and the store. A reduced chapter is the *term* of the calls that built it:
its own reduction, the list of deposits, the edge. Two equal terms are equal values in every
substrate, and a deposit made twice, lost or out of order is visible. The substrate enters
through `States`, `Owner` and `Leaving` and the contract `SubstrateAssumption`: the book
starts with nothing carried, and a chapter forwards what entered, resolves it or replaces it
by its own. `RemoveBook`, `Clear` and `Promote` are the calls between.

**AnalysisEngine.** The handle's verbs are actions (`UpdateBook`, `UpdateChapter`,
`RemoveBooks`, `ReplaceCorpus`, `ReplaceSource`, `UpdateConfig`), with the no-op test that
leaves the lifecycle alone. An analysis is `Plan` (fingerprint, map and direct-dirty
chapters, the map itself), `Judge` (substrate updates, debts, the candidate patch) and
`Commit` (direct records, substrate commits, promotion); `Fail` is the return from an armed
boundary. A finding record is the set of inputs it was derived from, so two records are equal
only when every rule would agree. `StatsDelta` selects how a moved aggregate dirties
chapters: those holding the moved words (mixed case) or all (non-letter usage).

**PureAnalysis** is the whole promise in twenty lines: a published answer is the analysis of
the inputs held, and a changed input retracts it. `AnalysisEngine` implements it under the
mapping of its assembled findings to the answer, `Publication` under that of the id and
arguments the wasm handle accepts.

**CorpusLayout** has the sequences of keys and texts and the layout beside them. Each edit
validates as the code does (`Accepted`, `BatchAccepted`, `RunAccepted`, `Addressable`) and
then splices and maintains the layout locally: `ShiftBook` for a book that moved,
`BuildBookAt` for one that was replaced. `MaxVerses` and `MaxBook` are the ceilings of the
index widths (u32 verses, u16 verses of a book), brought within reach.

**ChapterMap** unfolds the one concurrent phase. `Plan` drops what a switched-off substrate
holds, enrols each chapter whose stamp is not current and builds the work list; the route is
chosen as `map_route` does. `MapParticipant(i, n)` is one participant of one chapter task: it
interns its key list in one batch under the lock and fills its slot of the bundle; steps of
different tasks interleave as the grain allows (`Startable`). `Finish` is the scatter, the
driver's reuse-or-take, the fold in string order, the stats delta and the chapters it dirties
by symbol. `Fail` keeps what was interned and drops the observations. `Panic` is the "stop
and report" of `MappedSlots::take`.

**Publication** has the handle (`Change`, `RemoveBooks`, `Analyze`, `PackFails`,
`Construct`), the lookups as the operators `Answered` and `FindingsArgs`, and the host:
`DecodeFindings`, `ReconcileFindings`, `Save`, `DecodePersisted`. An id is the record of the
inputs it folds. A target holds verses, a verse has a text and what fires in it; a rule that
is silent without a reference comes first in each verse, so that a salvage shifts indices; a
digest counts over the whole corpus, so that an edit moves a row of another book; a book may
hold the same key twice, which the decoder tells apart by ordinal. `Analyze` is possible
where `pack` accepts every finding (`Packable`); otherwise, or by an injected fault,
`PackFails` leaves the handle as it was. The decoder is given the keys of the corpus a buffer
was packed from, as `findings.d.ts` asks of the host.

**WireRecords** is the record between the two. `Recordable` is what stops a pack: a key that
is not the corpus's, a range that is no UTF-16 position or lies past the 16-bit offset, a
score outside its scale, a code with a digest whose arguments are missing, a ratio that is no
number from 0 on. `Record` projects the range, rounds the score, clamps the counts and marks a
clamped pair (`Lane`, `Saturated`). A length ratio has a digest of its own (`RatioDigest`): it
is rounded to a percent and marked from the ceiling on, where a count is marked only past it.
`Shows` says what a row has to tell of a finding in terms of the text, the scalars covered, the
counts or the ratio (`ShowsCounts`, `ShowsRatio`), and not of the encoding.

**CasingText** maps a chapter without knowing what entered it: `Unit` walks the units of its
verses and keeps the pending gap state, the first word is left unresolved and the gap before
it kept as a transform; `Reduced` and `Leaving` apply it to the state the chapter before
left. A unit is a word with its case class or a gap character by what the machine tells apart.

**CasingModel** is what survives between calls. The aggregate is replaced book by book and
logs each swap; the judge drains the log, carries the retained table and panel through it, or
builds the panel anew where a patch is not sound (`Patchable`), and evaluates every retained
verdict again: if none moved, only the owed chapters are walked (`Stands`, `Owed`). `Edit`
and `Configure` are the calls between; an attempt is `Drive`, or `DriveInactive` and
`DriveUncased` where the code takes its early outs, followed by `Commit` or `Fail`. Every
verdict reads the whole model, so a stats delta is no help here: the comparison of verdicts
is what stands between a stale finding and the host.

**RuleEvidence** carries ten rules: casing, brackets, repeated and doubled text, script
mixing, normal forms, rare glyphs, nonletter runs, mixed case, proportionality, untranslated
words. The per-verse scans and the spacing walk share its editor but keep no aggregate
(`Stateless`). An editor types a unit, replaces or deletes
the last one, breaks a verse or a chapter, removes a book. Each edit replaces the book's
addend in the rule's corpus aggregate as `update_book` would (`ReplaceBook`). The properties
compare what the rule keeps with a *reading*: first-order operators over the whole text which
know neither chapters nor edits, such as `LookBack` (what stands before a word), `Spots` and
`PairsWell` (when two brackets match) or `DoubledIn`. The rules themselves:

- `Tallies`: bags, the keys on which two addends differ, and the replacement of an addend.
- `Brackets`: the stack of openers carried over chapters; a closer that meets an earlier
  chapter's opener records the match in its own chapter and the book edge resolves it.
- `RepeatedText`: runs of a letter, doubled words, the tail word kept between verses.
- `RareGlyphs`: counts, the word detail kept only for letters within the cap in their book,
  the letters that occur once, closure, knee and the two discounts.
- `ScriptMixing`: the signatures of mixed tokens and the dominant script.
- `NormalForms`: raw forms of a grapheme, the majority with its tie, the one anchor.
- `NonletterRuns`: the runs with deferred edges on both sides of a chapter, the counters, the
  six channels of the judge.
- `MixedShapes`: the case shapes of a word, the counts by word and shape, the delta of words
  and the chapters that owe a judgment to it.
- `PairedVerses`: the two rules that read a reference. A chapter is paired with the reference
  chapter of its token, a verse with the verse of its key and of its turn among those of that
  key (`Ordinal`). Proportionality keeps the ratios of each book, its median and one-sided
  deviations, and those of all books together; a side with few deviations uses the pooled one
  (`SideOr`). Untranslated words keeps sums and a bag of copied words; a verse is reported at
  its longest run of copied words that are neither names nor recurring (`Adjusted`, `CopiedRuns`).
  Their reading, `PairOf`, counts occurrences of a key over the whole of both books, and that
  of runs (`Stretches`) knows no list of copied tokens.
- `VerseScans`: `BuildMasked` is the one pass that counts runs and raises the bits; `Check` is
  what each of the twelve scans returns, written as maximal runs and sets of positions, not as
  a pass, so that mask and scan share no definition but the class tests the code shares too.
  `VerseRecords` is the rules whose gate is open, `Reported` with all rules is every scan on
  every verse, and `GatesHideNothing` says they are equal.
- `MarkSpacing`: a mark's two sides, the class carried to the left side of the next verse's
  first mark, the one mark that waits for the next visible verse. Its reading
  (`MarksRead`) lists the visible graphemes of the book and takes each mark's two neighbours.
- `WordBreaks`: `NoBreak` over atoms, as the walker tests it; `LibraryRules` and `JoinsAt` are
  the reading, the rules of UAX #29 as a table over scalars, which stands for the library. A
  verse is cut by the library when it is ASCII (`TokenizeInto`) or when its book mostly is
  (`BookTokens`), by the walker otherwise, and by the library after all when the walker
  defers (`Defers`); words must not depend on which.
- `TokenStreams`: a token is a packed element or an escape with two more; `StreamedVerse`
  must read back what `BuildStreams` was given, verse by verse.
- `GraphemeClusters`: `Taken` is one turn of the walk with its two flags; the reading
  (`LibraryClusters`) decides each boundary from the whole text before it.

Definitions write `CHOOSE x \in S : TRUE` over a one-element set (`Only`) where an
intermediate value is used several times: TLC re-evaluates a `LET` at every use when a primed
state is around, and evaluates the element of a set once. It is notation, not a choice. In
the same way `Tabled(f)` is `f`, written so that TLC computes a constant table once. Both are
in `Collections`, with the folds and selections several modules share. These are recursive
functions where a theorem is about what they compute.

Definitions marked `mutant` are variants of the definition below them with a plausible bug;
no specification uses them. Substituted for it, each breaks the property it is listed with in
`PROJECT.json`: a property is kept only if some such bug breaks it.

## 3. The runs

| run | distinct states | shows |
|---|---|---|
| `replay` | 284,379 | every sequence of edits, insertions, removals and reorderings of up to three chapters, over a substrate that leaves, resolves and forwards contributions: the book kept is the cold fold (`BookIsColdFold`, and `ResidentEqualsCold` against a separately written cold build); every chapter whose reduced value moved is owed (`SiteMovesAreOwed`), until a commit (`OwedUntilPromoted`) |
| `engine` | 252,120 | without failed attempts, with a reference and every kind of configuration change: the aggregate is the sum (`TallyIsSum`), and the resident analyzer implements the pure one (`ImplementsPureAnalysis`): what is published is cold |
| `engine_retry` | 187,208 | with failures at all three boundaries and changing judging knobs, for the words kind of delta: retries reach the cold result (`PublishedIsCold`), and every chapter whose committed records are outdated is owed (`DebtIsRecorded`) |
| `engine_aggregate` | 271,184 | `PublishedIsCold` for the corpus kind, two books and two consumers of one substrate |
| `corpus` | 4,491 | the layout is the freshly constructed one, the corpus stays constructible, `locate` inverts the ranges, effects are honest, the order of books is the presented one, new ones last in the order of the batch |
| `publication` | 103,766 | a snapshot shown says, row for row, what the analysis of its id found: the verse, the very characters, the score to the nearest step, counts or their marked ceiling, a length ratio to the nearest percent and marked only at the ceiling or past it, through packing, reconciliation and salvage (`SnapshotIsExact`); a lookup the handle accepts answers every index with that finding's arguments, in any later session (`LookupsAnswerTheSnapshot`); a buffer loaded from storage is the analysis of the current inputs (`LoadedIsCurrent`); the published id and arguments implement `PureAnalysis` |
| `chapter_map` | 32,342 | symbols keep their words through removals, failures and `clear` (`ObservationsKeepTheirWords`); contributions do not depend on the order of interning (`ContributionIsOfTheText`); no slot is missed (`NoMissedSlot`); chapters with a moved word are judged again (`MovedWordsDirtyTheirChapters`); the fan-out ends (`MapEnds`) |
| `casing` | 212,328 | the patched model is the one a fresh build of the aggregate gives (`ModelFollowsTheAggregate`); every chapter that is not owed has its verdicts retained (`VerdictsCoverThePartition`); a model is dropped only when no finding stands that is not owed (`DroppedModelLeavesNothingStanding`); after every commit the findings are those of a cold analysis (`CommitsAreCold`) |
| `rule_evidence` | 200,266 | over every small text and every edit of it: casing, nonletter and spacing contexts are read across seams and a verse is measured by its own verse of the reference (`SeamsCarryTheContext`), brackets pair as one pass over the book would (`BracketsPairAsTheCensus`), repeats, doubled words and words copied from the reference are those of the text (`RepeatsAreThoseOfTheText`), the aggregate is the fresh fold (`StatsAreFresh`), the anchor is the first deviant form (`AnchorIsTheFirstDeviant`), judging from pruned tables is judging from full ones for a letter whose words contain it in every spelling, the records of a verse whose mask skips scans are those of every scan, and words and graphemes are the library's whichever walker a gate chose, read back from their shared bytes (`PruningIsUnobservable`), every key whose evidence moved is in the stats delta, and every chapter or book nobody edited whose findings moved is owed (`DeltaNamesWhatMoved`) |
| `engine_rules_retry` | violation | section 6, first item |
| `engine_departed` | violation | section 6, second item |
| `glyph_pruning` | violation | section 6, third item |

## 4. Bounds, abstractions and fairness

- *Three chapters* (`replay`). The replay relates at most an owner, a chapter its
  contribution passes through and the chapter that resolves it; with three, each of the
  window's ends falls inside, before and after that span. The proofs remove the bound.
- *Two chapters and one* (`engine`, `chapter_map`), *two contents*. In `engine` a content is
  the one word its text names; in `chapter_map` it holds two words, one of them shared with
  the other content. Enough for a word held by two chapters of a book, by two books, or by
  none, for a chapter or book to depart and return, and for an edit to move the verdict of a
  chapter elsewhere. `engine_retry` has one book of two chapters and `engine_aggregate` two of
  one, because failures multiply the states.
- *Configurations* change a per-verse rule, a judging knob, a consumer or the reference rule,
  one at a time. `engine_retry` leaves out the change of a per-verse rule, the one
  `engine_rules_retry` shows to be missed.
- *Five verses, three in a book* (`corpus`): a book of two chapters with an inner boundary,
  both ceilings reachable and passable by one edit.
- *Nine corpora, three words, two substrates with different key orders* (`chapter_map`): all
  three grains occur with more than one task, and every order of two workers naming the same
  word is a different table.
- *Four targets, one reference or none, two severities* (`publication`) with two books: a
  reference row before a target row, an index that shifts, a digest that moves, a book that
  is gone, one that holds a key twice, a refused pack. The widths are brought within reach of
  three scalars: offsets to 4 (`OffsetMax`), counts to 2 (`LaneMax`), a score of `ScoreUnit`
  8 on a scale of 3 (`ScoreMax`), where most scores fall between two steps. Ratios come in
  quarters of a percent (`PercentUnit` 4): one rounds up to a percent below the ceiling, one is
  the ceiling, one rounds to past it; counts reach from 1 to past the ceiling.
- *Two books of up to two chapters* (`casing`), five texts which move a word over the juror
  bar, a class in and out of the panel, a boundary over a seam, a verdict in a chapter nobody
  edited, and the corpus between cased and uncased. `MaxGeneration = 3` bounds the swaps, so
  a log of more than one swap is drained and an edit can be undone before it is judged. The
  two floating-point decisions, whether a convention dominates and whether a class reshuffles
  the panel, are the constants `Dominates` and `Reshuffles`, the thresholds `JurorMin` and
  `ClassMinEvents` are brought within reach; scores are the counts they are computed from.
- *Texts of six units in one book or five in two* (`rule_evidence`), where a verse counts
  as one: a sentence, a bracket pair and a doubled word can cross two breaks,
  four brackets can interleave, and a letter can pass the cap of one occurrence (`RareCap`,
  `Knee`) in one book of two. `Support` and `ClosurePercent` are the judges' floors.
- *Verses of three typed units over eighteen scalars* (`rule_evidence`, the scans), two of the
  units being pastes of two: every run reaches the length its scan asks for and is broken one
  short of it, by a space and by another conflict character, a tag closes, a marker ends, two
  numeral systems tie. *Five graphemes or breaks* for the spacing walk: a mark waits over a
  blank verse and over a chapter.
- *Three typed units over every word-break category, four over every grapheme class*
  (`rule_evidence`, words and graphemes), pairs among them: every rule of the table has its
  four places filled, with a mark absorbed in any of them, and a conjunct is joined, joined
  again and broken by a mark that may not stand in it. `MaxPackedGap` 1 and `MaxPackedLen` 3
  put a token on either side of both edges of the packed form.
- *A reference of two books* (`rule_evidence`): its chapters and verses are in another order
  than the target's, it has a key twice, a verse without text, and lacks a chapter. Proportions
  run over up to four verses of one-unit texts (`MaxSize` 8), enough for a side with a spread of its
  own, a side that falls back, and a verse in a book nobody edited that becomes an outlier in
  the pooled scope. Reference lengths divide `RatioUnit`, so ratios are whole; a median is
  kept twice and a deviation four times, so halves are whole too. The knobs (`LengthKnobs`,
  `WordKnobs`, and the floor of three deviations, here two) are brought within reach.
- Stamps, fingerprints and ids are equality of what they hash: a collision of a 64-bit hash
  is outside every model.
- Records abstract the wording and position of findings; a row's arguments are a value of
  their own because lookups are about them.

**Fairness.** Calls of the handle are synchronous and the host owes nothing, so every
specification but one is a safety specification. `ChapterMap` has weak fairness of `MapStep`
and `Finish`: rayon runs every task it was given, a task never waits for anything but the
table's lock, which is held over a loop without further locks, and the caller continues once
its tasks are joined. Nothing is assumed of edits, of `Plan` or of the fault.

## 5. What is proved

Every theorem holds for all values of the constants that satisfy the assumption its module
names (`SubstrateAssumption`, `EngineAssumption`, `CorpusAssumption`, `MapAssumption`,
`PublicationAssumption`, `WidthAssumption`, `CasingAssumption`, `ReferenceAssumption`,
`RulesAssumption`). The assumptions type the constants and say what
the host and the rules guarantee; TLC evaluates each on the instance of its run. Two modules are
not about this code: `Collections` holds what several modules compute, and `DataInduction` how
a proof reasons about a recursive function. The library's induction theorems take a predicate
as a parameter, which the provers cannot supply; a property of numbers is therefore given as
the set of numbers that have it (`NatSet`, `UpTo`: a set with 0 in it, closed under the
successor, misses no number, because it would miss a least one). From it come the facts about
`Selected`, `FlattenSeq` and maps over sequences the other modules cite; the bags, known by
what they tally of each key (`Tallied`, `BagsEqual`), and their sums (`SumReplaced`: what
replacing an addend does); where the parts of a concatenation begin (`IsBase`,
`FlattenedAt`); and the counts of sets split into parts (`SumCounts`).

### 5.1 `ReductionReplay_proofs`

For every substrate and every book length:

- `TypeCorrect`: `Spec => []TypeOK`.
- `ReplayIsCold`: `Spec => []BookIsColdFold`.
- `ResidentIsCold`: `Spec => []ResidentEqualsCold`.
- `MovesAreOwed`: `Spec => SiteMovesAreOwed`.
- `OwedStaysOwed`: `Spec => OwedUntilPromoted`.

The argument for `ReplayIsCold`. `BookIsColdFold` speaks of the stored book and is not
inductive: `Finish` joins three stretches of columns (kept before the window, replayed,
kept after the convergence point) whose agreement depends on the call's locals. `IInv` adds:

1. `PartialFold`: the half-built columns are a cold fold of the chapters replayed so far,
   with deposits counted up to position `k - 1` and no edge resolution yet.
2. `OwnerChain`, of the book and of the columns: what leaves a chapter belongs to nobody, or
   to an earlier chapter (or itself) and was carried through every chapter in between. This
   is what the contract on `Leaving` gives inductively, and it is why deposits of one owner
   are consecutive: `DepositsOf` can list them without gaps.
3. `WindowOwnsCarry`: nothing carried at the replay's position belongs to a chapter before the
   window. It holds at `OpenWindow` because `WalkBack` stopped, and is kept because `Leaving`
   introduces no earlier owner. Without it a replayed chapter would deposit into a kept
   reduction that already holds the deposit.
4. `PrefixKept`: positions before the window are unchanged, so the kept prefix is the prefix
   of the new book.
5. `EdgeReached`: a replay that stopped before the end had converged: nothing dangling into
   the window, the same leaving state as cached, no later change.

`FinishStep` is the heart: for a converged replay, `ConvergedTail` and `TailOwners` show that
the kept tail was produced from what the replay hands it and that no chapter of the tail
deposits into the window, so every stretch's deposits and edge are the cold ones; for a replay
to the end, `FinishAtEnd` shows that `finish_book` resolves exactly the dangling owner.

`ResidentIsCold` follows by induction over the cold build: after chapter `i` it holds the
resident book as far as that chapter has seen it (`ColumnsUpTo`), each reduction with its first
deposits and no edge. The step rests on `DepositOwner`: a chapter holds a deposit of a later one
exactly when it owns what enters it, which `BookIsColdFold` says in one direction and
`OwnerChain` in the other.

`MovesAreOwed` needs in addition that a kept position keeps its reduced value (`PrefixReduced`
and the columns lemmas), so that a value that moved lies in the replayed window, where the
site delta looks.

### 5.2 `AnalysisEngine_proofs`

For any finite set of chapters, any contents, configurations and references, both kinds of
stats delta and any set of armed fault boundaries:

- `TypeCorrect`, `AggregateIsSum` (`TallyIsSum`), `DebtsAreRecorded` (`DebtIsRecorded`).
- `SubstratesStayCold`: what the corpus-scope substrates last published is the cold result,
  after any failures and retries, with no hypothesis.
- `PublishedStaysCold`: `RulesSettled => (Spec => []PublishedIsCold)`, the retry theorem of
  the whole analyzer.
- `ResidentIsPure`: under the same hypothesis, `Spec => ImplementsPureAnalysis`: every step of
  the engine is a step of `PureAnalysis` or leaves inputs and answer alone.

`IInv` is `TypeInv /\ TallyIsSum /\ AttemptInv /\ DebtIsRecorded`. `PublishedIsCold` cannot be
proved alone because a commit rewrites the dirty chapters only: that the others are right
already is `DebtIsRecorded`, which has to survive a failed attempt, and does so because an
attempt's own plan (`AttemptInv`) is still true of the corpus when it commits. `PublishedInv`
adds `DirectFollows`: a stamped direct record was mapped under the rules prep was warmed with,
or an attempt that cannot fail is about to replace them all.

`RulesSettled` says that nothing can fail, as in every shipped build, or that no two
configurations differ in a per-verse rule. It is the complement of what the run
`engine_rules_retry` shows: with both, the theorem is false of the code (section 6).

### 5.3 `ChapterMap_proofs`

For any number of workers, participants and words, and key lists of any length: `TypeCorrect`,
`SymbolsKeepTheirMeaning` (`ObservationsKeepTheirWords`), `NoSlotIsMissed` (`NoMissedSlot`),
`FoldsIgnoreNumbering` (`ContributionIsOfTheText`), `MovedWordsAreJudgedAgain`
(`MovedWordsDirtyTheirChapters`).

`IInv` adds to the checked invariants what a call under way relies on: a filled slot names the
words of the chapter it was enrolled for (`Scheduled`), no observation outlives its book
(`ObservedBooksHeld`), and while the map runs the work list covers every participation the
driver will ask for (`Covered`), which is decided by `Plan` and used three phases later.
An observation keeps numbers only; it keeps its words because the table never loses or moves
one (`arena` grows at the end), also while another worker's batch goes in.

### 5.4 `Publication_proofs`

- `RowShowsItsFinding`, of `WireRecords`: the row decoded from a record that was not refused
  shows its finding, for texts of any length and fields of any width. The UTF-16 projection
  inverts because the ends of scalars increase strictly in bytes and in units
  (`BoundariesIncrease`), the score is off by half a step at most, a count is exact or marked, and a ratio is off by half a percent
  at most below the ceiling, never marked there, and marked from it on.
- `TypeCorrect`, `SnapshotsAreExact` (`SnapshotIsExact`), `LookupsAreAnswered`
  (`LookupsAnswerTheSnapshot`), `LoadingIsExact` (`LoadedIsCurrent`), for any corpora,
  references and texts.
- `WireImplementsPureAnalysis`: the published id and arguments are the pure analysis of the
  inputs held, or nothing.

`IInv` is the types of the inputs and the engine, `PublicationIsCurrent` (the id kept is that
of the inputs held), `BuffersArePacked` (every buffer, in hand or stored, is the pack of the
inputs its id names) and `SnapshotIsShown`. The hard lemma is `WithoutReference`: taking the
reference rows out of a finding list is the analysis without the reference, so the indices a
salvage shifts are again those of an analysis.

### 5.5 `CorpusLayout_proofs`

For any corpora, edits, texts and ceilings: `TypeCorrect`, `LayoutNeverGoesStale`
(`LayoutIsFresh`), `EditsStayConstructible` (`StaysConstructible`), `AddressesInvert`
(`LocateInverts`), `EffectsAreHonest` (`EffectIsHonest`), `EditsKeepTheOrder`
(`PresentedOrderKept`).

`LayoutIsFresh` speaks of a construction, which reads the whole corpus, and an edit splices.
The invariant `Sound` says the same locally: the books of the layout *tile* the keys, each
with chapters that tile it, of distinct slugs, ranges and hashes those of their verses, and
every width under its ceiling. `LayoutIsBuilt` shows that such a tiling is what a construction
yields, so that freshness follows; `LayoutAround` that exchanging one book for a tiling of
another run leaves a tiling; `PiecesLaid` follows `replace_books` piece by piece, a kept book
shifted or a new one built. `StaysConstructible` is where this is not a formality: an edit
checks one block, a construction the whole. The presented order is kept because
each result is the old order with books left out, followed by new ones (`IsDescent`,
`Prolongs`); the new ones of a batch follow one another as it lists them (`AppendedOrder`,
`FollowsBatch`).

### 5.6 `CasingModel_proofs`

For any books, texts and configurations, any thresholds, every rule of domination and of
reshuffling: `CasingTyped` (`TypeOK`), `ModelFollows` (`ModelFollowsTheAggregate`),
`VerdictsCover` (`VerdictsCoverThePartition`), `DroppedIsHarmless`
(`DroppedModelLeavesNothingStanding`) and the cold theorem of the rules, `CommitsCold`
(`CommitsAreCold`). `CasingAssumption` types the constants and asks that a text has
chapters unless it is `NoText`, that no convention dominates on no evidence, which the Wilson
bound gives, and that a juror has been seen at least once (`JUROR_MIN` is 10 in the code). The
proofs use the first and the last.

`CasingInv` has five parts. `Kept` is the aggregate: no book the corpus has not, and a log that
reaches back exactly to the model. `Followed` is the model: the retained table carried through
the log is the merge of the cached books, and the retained panel is its own. `Standing` says
what a finding that is not owed has behind it, that it is what the *retained* verdicts report
of its chapter, and it holds when they are out of date too: that is why the drive may compare
verdicts instead of walking chapters. `Dropped` is the same when there is no model. `UnderWay`
says of an attempt that it had nothing to emit, or that all its verdicts are the new model's.
`CommitsCold` takes all five: at a commit the log is empty, so the model is that of a build from
nothing, the verdicts are its verdicts, the owed chapters were walked under them and
the others stood under the same.

`ModelFollows` is the long half. Bags are reasoned about by what they tally of each occurrence
(`Tallied`, `BagsEqual`). `SwapApplied` shows that `ApplySwap`, which touches only the words
on which two book tables differ, exchanges the one for the other, as long as the old one is in the
merge; `MergeSwapped` that the merge of the swapped books is the merge with one addend
exchanged. So that the panel may be patched from totals, `Followed` also says that log and table
*balance* (`Balanced`: new merge and everything swapped out tally as the old merge and
everything swapped in), from which the class totals move by `ClassDelta` (`ClassMoves`).
`PatchExact` concludes that a patch `Patchable` accepts is the panel a rebuild would make: a class
whose total stays above zero and an unmoved word keep their place, so membership is the
same; this is where a juror's floor above zero is needed.

### 5.7 `RuleEvidence_proofs`

For any alphabets, any number of books and chapters, texts of any length and any tables of
canonical forms. `RulesAssumption` names the rules, bounds the number of books by a
natural number, and asks that a token has finitely many scripts and a unit of the glyph rule is
one of its kinds. `ReferenceAssumption` asks that no chapter of the reference opens twice, and
that every book the two rules that read it may have has a reference, chapter by chapter and verse
by verse (an absent book is one without chapters).

- `Typed` (`[]CorpusTyped`): an edit leaves a corpus over its rule's alphabet. It is the type
  invariant the others are proved with.
- `Fresh` (`StatsAreFresh`): after any edits the statistics of every rule are what a build
  from nothing sums. The inductive invariant is the property itself with `CorpusTyped`; the
  work is in two families of lemmas. One shows for each rule that what a book contributes is of
  the kind that is summed: tallies that drop what falls to zero, sequences of lengths, sets of words
  (`BracketsCounted`, `RunsFolded`, `ScriptsFolded`, `FormsFolded`, `GlyphsFolded`,
  `NonlettersFolded`, `ShapesFolded`, `RatiosSampled`, `WordsFolded`), by recursion over units,
  words, verses and chapters, seam states included. The other shows for each rule that
  patching one addend is summing anew (`BracketsReplaced` ... `LengthsReplaced`): merges on the
  moved keys only, a count of hapaxes kept by its shift (`HapaxesShift`), a set of words that a
  chapter may share with another, a list of samples rebuilt in the order of the books that
  are there (`RanksFlatten`).
- `DeltaNames` (`DeltaNamesWhatMoved`), of the six rules whose delta is exact, brackets, normal
  forms, script mixing, nonletter usage, mixed case and proportionality: a finding that reads a
  key the delta does not name reads what it read before. From `Fresh` for the statistics before
  the step. The other four rules are outside the property (section 6).
- `PairedAsTheCensus` (`BracketsPairAsTheCensus`): the chapters of a book, each reduced on
  the openers the one before left, pair as one census over all its events. The invariant
  of the walk is `Follows`: the openers a chapter has in hand are, address by address, the
  stack of the census at that event of the book, and pairs and strays so far are the census's.
  That its pairs are nested is the census's own invariant (`WellPaired`). `BracketPlaces`
  then puts every event at its delimiter and its verse.
- `AnchorFirst` (`AnchorIsTheFirstDeviant`): `MergedAccount` says of the table merged from the
  chapters that every form has as many places as it has occurrences in the corpus and begins at
  the first of them. Forms of one canonical class are strictly ordered as rivals, so
  the majority is the one without a rival, the deviants a reader finds are the places of
  the others, and the finding's count and anchor are their number and the first of them.
- `DoublesRead`: the half of `RepeatsAreThoseOfTheText` that reads one chapter,
  `DoublesAreThoseOfTheText`. `ScanFinds`: the runs scanned are the maximal ones.
  `DoublesFound`: the walk that carries a verse's last word to the next verse, and drops it at a
  verse without words, pairs two equal words exactly when only space is between them. `SitesTallied`: what is
  judged was counted first.

### 5.8 What is only model-checked

- `MapEnds` of `ChapterMap`, for good: liveness under fairness, and `ENABLED`, are beyond the
  prover.
- `SeamsCarryTheContext` of `RuleEvidence`: it compares four rules' walks with a reading of the
  whole text, every one an induction of its own.
- `PastesAreThoseOfTheText`, the other half of `RepeatsAreThoseOfTheText`: words copied from the
  reference, whose counterpart is found by counting twins in a line of the reference.
- `PruningIsUnobservable`: the scans' mask, two segmenters and the packed streams against the
  library's tables, which are given as tables over the classes of scalars a run names.

## 6. Where code and comments disagree

- *A failed attempt after a change of the per-verse rules* (`engine_rules_retry`).
  `galley/src/lib.rs:216` says that a retry "recomputes the invalid ones and reaches exactly
  the cold result". After `update_config` changes a per-verse rule, the attempt re-warms prep
  under the new configuration; when it fails at a later boundary, the retry finds prep current
  and every direct stamp equal to its chapter's hash, both content only, and keeps the direct
  records of the old rules. Shipped builds have no such boundary and are not affected.
- *A departed chapter's group* (`engine_departed`). `core/src/cache.rs:443` says stale groups
  are pruned first, so that a chapter dropped by a whole-book replacement cannot survive as a
  partition record. The pruning is entered when the resident count exceeds the corpus's
  chapter count (`core/src/lib.rs:909`); next to a configuration change a replacement that
  swaps one chapter for another leaves the counts equal and the group in place. Findings
  are not affected: `assemble` skips chapters the corpus does not hold.
- *A capital's words* (`glyph_pruning`). `core/src/signals/rare_glyph.rs:66` argues that a book
  may drop the word detail of a letter above the cap there, because a word cannot occur more
  often than a letter its spelling always carries, and so both discounts are sound corpus-wide
  sums. Words are tabled by folded key, and a capital is not in every spelling of its key:
  with "xa xa" in one book and "Xa" in another, the first drops the word and the rare capital
  of the second is judged by one of its three tokens. The verdict depends on how the text is
  divided into books. `PruningIsUnobservable` shows that the argument holds for the letters it
  is true of.
- In passing, without effect on findings:
  - `wire/src/packed.rs:40` says the mark of a record means that a lane was clamped to `0xFFFF`.
    `clamp_lane` marks a count past the ceiling only; a length ratio is compared in place, with
    `>=` (`packed.rs:286`), so one of 65,535 percent, or that rounds to it, is shown as it is and
    marked all the same. What does hold, that a marked ratio is at the ceiling or past it, is part
    of `SnapshotIsExact`.
  - `casing.rs:1908` says the paths that drop the model leave the partition empty or wholly
    owed. After a failed attempt this is true chapter by chapter only: some are empty, the
    others owed (`DroppedModelLeavesNothingStanding`).
  - `script_mixing.rs`'s header has resident partitions patch affected keys;
    `finish_mixed_script` judges and materializes all of them. When a removal changes the
    number of books, its delta leaves out the signatures that vanished.
  - The deltas of repeated runs, glyphs and casing are empty on purpose: their judges are
    driven by other means, so `DeltaNamesWhatMoved` leaves these rules out. Of the others, mixed
    case and nonletter usage act on theirs (`mixed_case.rs:853`, `nonletter_usage.rs:1730`);
    brackets, normal forms, scripts and proportionality judge every key at every call, and an
    exact delta is a contract their comments state (`proportionality.rs:520`) and the property
    checks.
  - `NeighbourClass::Digit` and `TopoClass::Digit` (`nonletter_usage.rs:217`) cannot be
    observed: a digit beside a run is a member of the run.
  - `untranslated_words.rs:403` captures `before` after subtracting the old addend; a book
    whose total falls to zero without copied words does not name the single key. The rule
    judges all books at every call and its delta is not used: `DeltaNamesWhatMoved` leaves it
    out.
  - `casing.rs:2905`: the swap log is emptied by the judge only, and a corpus without cased
    words never reaches it.
- `wasm/src/lib.rs:758` says that the engine never emits a finding `pack` rejects. A verse
  longer than 65,535 UTF-16 units is rejected by `pack` (`packed.rs:202`) and nothing bounds
  the length of a text on its way in. Most rules do not get so far: a site beyond a 16-bit
  byte offset panics in the judge (`corpus.rs:129`). Real verses are far from either.
- Also in passing: `update_config`'s comments (`galley/src/lib.rs:177`, `wasm/src/lib.rs:948`) say
  the cache is cleared; the body says, and does, otherwise. The interner's comment
  (`core/src/interner.rs:71`) lists the last-consumer-disabled invalidation among the points
  that drop the table; only `AnalysisCache::clear` does.

## 7. What is not modelled, and why

- Character tables and the texts of the catalog: data and formatting, tested by example, no
  state. Segmentation is modelled from the classes of scalars on; the library it falls back to
  is the reading, so what the library does with a complex scalar is only as good as
  `LibraryRules` and `Joins`. Of the census, the spacing walk and the bracket
  matcher are modelled; its inventories, adjacent runs, number shapes, case shapes and the
  first place of each are one-pass counts.
- Statistics (`evidence.rs`, `association.rs`): floating point. So are the rounding of a ratio to f32,
  the confidence proportionality makes of a z, and the Wilson bound of mixed case.
- `AnalysisEngine` keeps which inputs a verdict reads, not what it concludes. What the
  per-verse rules conclude is in `VerseScans`, up to byte widths and severities. The
  judgments of casing, rare glyphs, script mixing, normal forms, nonletter usage, mixed case,
  proportionality and untranslated words are in
  `CasingModel` and `RuleEvidence` up to their arithmetic: a score is the counts it is
  computed from. A nonletter score is a (count, total) pair, and a run has three slots, not six.
- The byte layout of a packed buffer and the decoder's errors on a malformed one.
- The excuse windows of the bracket judge and its emphasis on list markers.
- `xtask`, scripts, benches and spikes: no part of the shipped program.
- Not yet: section 8.

## 8. Plan

Done: `ReductionReplay` with its proofs, `PureAnalysis`, `AnalysisEngine`, `CorpusLayout`,
`WireRecords`, `Publication`, `ChapterMap`, `CasingText`, `CasingModel`, and `RuleEvidence`
with the rules it drives. Next, in this order:

1. `ReviewDepth` and the key grammar as operators against reference definitions.
2. The direct lane of the schedule in `ChapterMap`.
3. `Brackets` under `ReductionReplay`: its carried stack has no single owner, so as a
   substrate it meets the contract with nothing owned; a proof of `SubstrateAssumption` for
   it, and for `CasingText` and `NonletterRuns`, would make `ReplayIsCold` a theorem of each.

Theorems worth having next, of `RuleEvidence`: `PastesAreThoseOfTheText`, where the verse of
the reference that the walk takes, counting how often a name has opened in the chapter, must be
the one with as many twins before it in the whole line, and the longest run of adjacent shared
tokens the longest stretch of them; and `SeamsCarryTheContext`, where for casing the reading
`LookBack` meets the walk that `CasingModel_proofs` already types.
