------------------------------ MODULE CasingModel ------------------------------
(***************************************************************************)
(* The casing rules' cross-call state: the corpus aggregate with its log   *)
(* of book swaps, the judge model patched forward through that log, the    *)
(* verdicts the standing findings were emitted under, and the partition    *)
(* with its debts.                                                         *)
(*                                                                         *)
(* Every verdict reads the whole model, so an edit makes every key dirty.  *)
(* What the drive relies on instead is that re-evaluating the retained     *)
(* verdicts shows whether any finding outside the edited chapters changed. *)
(*                                                                         *)
(* The statistics are floating point; here a convention dominates or not,  *)
(* a class is trusted on each of its two witnesses or not, and a score is  *)
(* the counts it is computed from.                                         *)
(***************************************************************************)
EXTENDS CasingText, FiniteSets

CONSTANTS
    Books,               \* the books, in the corpus's order
    Texts, NoText,       \* what a book may hold; it is not there
    ChaptersIn(_),       \* a text's chapters
    Configs,             \* emit: the enabled consumers; knobs: z, gate, recurrence
    JurorMin,            \* word starts that make a word a juror
    ClassMinEvents,      \* forced events that make a class a candidate
    Dominates(_, _, _),  \* k of n dominates at confidence z: Wilson bound > 1/2
    Reshuffles(_, _),    \* a class's aftermath is a terminal's: deviate, agreement
    AnchorZ,             \* MODEL_CONFIDENCE_Z
    MaxGeneration        \* bounds the book swaps of a behaviour

ASSUME CasingAssumption ==
    /\ Books \in Seq(ToSet(Books)) /\ IsInjective(Books)
    /\ NoText \in Texts
    /\ \A t \in Texts : /\ ChaptersIn(t) \in Seq(Seq(Seq(Units)))
                        /\ ChaptersIn(t) = <<>> <=> t = NoText
    /\ JurorMin \in Nat \ {0} /\ MaxGeneration \in Nat
    /\ \A cfg \in Configs : cfg.emit \subseteq {"positional", "intrinsic"}
    /\ \A z \in {AnchorZ} \cup { cfg.knobs.z : cfg \in Configs } : ~ Dominates(0, 0, z)

VARIABLES
    corpus,      \* Corpus: each book's text
    config,      \* CasingConfig and the two rules' enabled bits
    books,       \* SubstrateCache: the text each book's reductions stand for
    swaps,       \* CasingCorpusStats::swaps
    generation,  \* CasingCorpusStats::generation
    pending,     \* PendingPartition
    retained,    \* Option<CasingModel>
    partition,   \* FindingSection: the findings of each (book, chapter)
    patch        \* the candidate patch of an analysis under way

aggregate == <<books, swaps, generation>>
vars == <<corpus, config, aggregate, pending, retained, partition, patch>>

Slugs == Range(Books)

Corpora == [Slugs -> Texts]

(***************************************************************************)
(* A resident book is exactly what a cold walk of its text gives           *)
(* (ReductionReplay), so a book's reduced chapters and its folded          *)
(* contribution are functions of the text.                                 *)
(***************************************************************************)
Reductions == Tabled([t \in Texts |-> ReducedBook(ChaptersIn(t))])

Contributions == Tabled([t \in Texts |-> FoldBook(Reductions[t])])

GroupsOf(held) == UNION { {b} \X DOMAIN Reductions[held[b]] : b \in Slugs }

Chapter(held, g) == Reductions[held[g[1]]][g[2]]

(***************************************************************************)
(* The merged word table, a bag of occurrences, and its juror panel.       *)
(***************************************************************************)
MergeBooks(held) ==
    SumOf([i \in DOMAIN Books |-> Contributions[held[Books[i]]].tally])

AnyCased(held) == \E b \in Slugs : Contributions[held[b]].starts > 0

WordsOf(table) == { o.word : o \in DOMAIN table }

(* How often the occurrences S are tallied.                                *)
Count(table, S) == CopiesOf(S, table)

OfWord(table, w) == { o \in DOMAIN table : o.word = w }

OfClass(table, ck) == { o \in DOMAIN table : o.pos = ck }

AllTotal(table, w) == Count(table, OfWord(table, w))

IsClass(pos) == pos # Midflow /\ pos # BookInitial

ClassesOf(table) == { pos \in { o.pos : o \in DOMAIN table } : IsClass(pos) }

AfterTotal(table, ck, w) == Count(table, OfWord(table, w) \cap OfClass(table, ck))

Panel(table) ==
    LET jurors == { w \in WordsOf(table) : AllTotal(table, w) >= JurorMin }
        classes == ClassesOf(table) IN
    [base |-> [w \in jurors |-> AllTotal(table, w)],
     after |-> [e \in classes \X jurors |-> AfterTotal(table, e[1], e[2])],
     events |-> [ck \in classes |-> Count(table, OfClass(table, ck))]]

(* Only the words on which the two book tables differ take part.           *)
Part(tally, words) == [o \in { o \in DOMAIN tally : o.word \in words } |-> tally[o]]

Before(swap) == Contributions[swap.old].tally

After(swap) == Contributions[swap.new].tally

MovedWords(swap) ==
    { w \in WordsOf(Before(swap)) \cup WordsOf(After(swap)) :
        Part(Before(swap), {w}) # Part(After(swap), {w}) }

ApplySwap(table, swap) ==
    LET moved == MovedWords(swap) IN
    (table (-) Part(Before(swap), moved)) (+) Part(After(swap), moved)

(* A table carried forward through a log.                                  *)
Carried(table, log) ==
    LET carried[n \in 0 .. Len(log)] ==
            IF n = 0 THEN table ELSE ApplySwap(carried[n - 1], log[n])
    IN carried[Len(log)]

ClassDelta(log) ==
    LET before == SumOf([i \in DOMAIN log |-> Before(log[i])])
        after == SumOf([i \in DOMAIN log |-> After(log[i])]) IN
    [ck \in ClassesOf(before) \cup ClassesOf(after) |->
        Count(after, OfClass(after, ck)) - Count(before, OfClass(before, ck))]

PatchableTotals(panel, table, moved, delta) ==  \* mutant: a word may cross the bar
    \A ck \in DOMAIN delta :
        IF ck \in DOMAIN panel.events THEN panel.events[ck] + delta[ck] # 0 ELSE delta[ck] = 0

(* Membership fixes the order the witnesses are summed in: a word crossing *)
(* the bar, or a class entering or leaving, rejects the patch.             *)
Patchable(panel, table, moved, delta) ==
    /\ \A ck \in DOMAIN delta :
          IF ck \in DOMAIN panel.events THEN panel.events[ck] + delta[ck] # 0 ELSE delta[ck] = 0
    /\ \A w \in moved : w \in DOMAIN panel.base <=> AllTotal(table, w) >= JurorMin

PatchedPanel(panel, table, moved, delta) ==
    [base |-> [w \in DOMAIN panel.base |->
                  IF w \in moved THEN AllTotal(table, w) ELSE panel.base[w]],
     after |-> [e \in DOMAIN panel.after |->
                  IF e[2] \in moved THEN AfterTotal(table, e[1], e[2]) ELSE panel.after[e]],
     events |-> [ck \in DOMAIN panel.events |->
                  panel.events[ck] + (IF ck \in DOMAIN delta THEN delta[ck] ELSE 0)]]

(***************************************************************************)
(* Judging: the model of a table and its panel.                            *)
(***************************************************************************)
Uppers(table, S) == Count(table, { o \in S : o.case = "upper" })

Lowers(table, S) == Count(table, { o \in S : o.case = "lower" })

IsQuoted(pos) == IsClass(pos) /\ pos[3]

(* A word of the lexicon's lowercase half, over mid-flow and quote classes. *)
IsLexiconLower(table, w, z) ==
    \E mid \in {{ o \in OfWord(table, w) : o.pos = Midflow \/ IsQuoted(o.pos) }} :
        Dominates(Lowers(table, mid), Count(table, mid), z)

Lexicon(table, z) == { w \in WordsOf(table) : IsLexiconLower(table, w, z) }

(* Capital-after-class counts over lexicon-lowercase words.                *)
HabitIn(table, S) == [up |-> Uppers(table, S), total |-> Count(table, S)]

Habits(table, classes, lexicon) ==
    [pos \in classes |-> HabitIn(table, { o \in OfClass(table, pos) : o.word \in lexicon })]

(* The trust of a class: its habit dominates, its aftermath is a terminal's. *)
Trust(panel, habit, ck, z) ==
    IF panel.events[ck] < ClassMinEvents THEN 0
    ELSE (IF Dominates(habit.up, habit.total, z) THEN 1 ELSE 0)
         + (IF Reshuffles(panel, ck) THEN 1 ELSE 0)

EvidenceOf(panel, habit, z) ==
    [z |-> z, habit |-> habit,
     trust |-> [ck \in DOMAIN panel.events |-> Trust(panel, habit[ck], ck, z)] @@ (BookInitial :> 2)]

Evidence(table, panel, z) ==
    EvidenceOf(panel, Habits(table, DOMAIN panel.events \cup {BookInitial}, Lexicon(table, z)), z)

(* A class no longer in the panel is trusted by nothing.                   *)
TrustOf(ev, pos) == IF pos \in DOMAIN ev.trust THEN ev.trust[pos] ELSE 0

HabitOf(ev, pos) ==
    IF pos \in DOMAIN ev.habit THEN ev.habit[pos] ELSE [up |-> 0, total |-> 0]

(* A quote class below the bar folds back to mid-flow.                     *)
FoldsBack(ev, pos) == pos = Midflow \/ (IsQuoted(pos) /\ TrustOf(ev, pos) = 0)

Habitual(ev, pos) == Dominates(HabitOf(ev, pos).up, HabitOf(ev, pos).total, ev.z)

(* Mid-flow capitals, and the forced ones no trusted habit explains.       *)
EffectiveUpper(table, ev, w) ==
    Uppers(table, { o \in OfWord(table, w) : \/ FoldsBack(ev, o.pos)
                                            \/ TrustOf(ev, o.pos) = 0
                                            \/ ~ Habitual(ev, o.pos) })

MidLower(table, ev, w) == Lowers(table, { o \in OfWord(table, w) : FoldsBack(ev, o.pos) })

(* What both judges read of a word.                                        *)
CaseOf(table, ev, w) ==
    [up |-> EffectiveUpper(table, ev, w), low |-> MidLower(table, ev, w)]

IsCapSoft(case, z) == Dominates(case.up, case.up + case.low, z)

IsLowerSoft(case, z) == Dominates(case.low, case.low + case.up, z)

Silent == [pos |-> Midflow, upper |-> 0, total |-> 0, score |-> <<0, 0, 0>>]

Intrinsic(case, all, knobs) ==
    IF ~ IsCapSoft(case, knobs.z) \/ all.low > knobs.recurrence THEN Silent
    ELSE [pos |-> Midflow, upper |-> all.up, total |-> all.up + all.low,
          score |-> <<case.up, case.low, all.low>>]

Positional(ev, case, habit, minority, knobs, pos) ==
    IF \/ ~ IsForced(pos) \/ FoldsBack(ev, pos) \/ TrustOf(ev, pos) < knobs.gate
       \/ ~ IsCapSoft(case, ev.z) /\ ~ IsLowerSoft(case, ev.z)
       \/ minority > knobs.recurrence
    THEN Silent
    ELSE [pos |-> pos, upper |-> habit.up, total |-> habit.total,
          score |-> <<habit.up, habit.total, minority>>]

(* A word's case over its forced positions, and over all of them.          *)
ForcedLower(table, ev, w) == Lowers(table, { o \in OfWord(table, w) : ~ FoldsBack(ev, o.pos) })

WholeCase(table, w) ==
    [up |-> Uppers(table, OfWord(table, w)), low |-> Lowers(table, OfWord(table, w))]

(* Both consumers' verdicts for each key, from one model; a word no book   *)
(* has cased any more is silent.                                           *)
OutcomesUnder(table, pos, intr, knobs, keys) ==
    [k \in keys |->
        IF k[1] \notin WordsOf(table) THEN [positional |-> Silent, intrinsic |-> Silent]
        ELSE [positional |-> Positional(pos, CaseOf(table, pos, k[1]), HabitOf(pos, k[2]),
                                        ForcedLower(table, pos, k[1]), knobs, k[2]),
              intrinsic |-> Intrinsic(CaseOf(table, intr, k[1]), WholeCase(table, k[1]), knobs)]]

Outcomes(table, panel, knobs, keys) ==
    OutcomesUnder(table, Evidence(table, panel, knobs.z), Evidence(table, panel, AnchorZ), knobs, keys)

(***************************************************************************)
(* What the partition owes: PendingPartition, as in AnalysisEngine.        *)
(***************************************************************************)
NoKnobs == [z |-> 0, gate |-> 0, recurrence |-> 0]

NoIdentity == [knobs |-> NoKnobs, emit |-> {}]

Identity == [knobs |-> config.knobs, emit |-> config.emit]

NothingOwed == [all |-> FALSE, chapters |-> {},
                judged_under |-> NoIdentity, candidate |-> NoIdentity]

OweAll(p) == [p EXCEPT !.all = TRUE, !.chapters = {}]

OweChapters(p, S) == IF p.all THEN p ELSE [p EXCEPT !.chapters = @ \cup S]

RebuildAll(p) == p.all \/ p.judged_under # Identity

Promote(p) ==
    IF p.candidate = NoIdentity THEN p
    ELSE [NothingOwed EXCEPT !.judged_under = p.candidate]

(***************************************************************************)
(* Findings of a reduced chapter: every lowercase site, under the verdict  *)
(* of its word and position.                                               *)
(***************************************************************************)
KeysOf(reduced) == { <<s.word, s.pos>> : s \in Range(reduced.sites) }

Reported(verdicts, rule, s) ==
    [rule |-> rule, at |-> s.at, word |-> s.word, verdict |-> verdicts[<<s.word, s.pos>>][rule]]

Findings(reduced, verdicts, emit) ==
    { Reported(verdicts, e[1], e[2]) :
        e \in { e \in emit \X Range(reduced.sites) :
                  verdicts[<<e[2].word, e[2].pos>>][e[1]] # Silent } }

Pass(held, groups, m, cfg) ==
    LET keys == UNION { KeysOf(Chapter(held, g)) : g \in groups }
        verdicts == Outcomes(m.table, m.panel, cfg.knobs, keys) IN
    [memo |-> verdicts,
     findings |-> [g \in groups |-> Findings(Chapter(held, g), verdicts, cfg.emit)]]

NoFindings == [g \in {} |-> {}]

NoModel == [generation |-> 0, knobs |-> NoKnobs, table |-> EmptyBag,
            panel |-> Panel(EmptyBag), verdicts |-> NoFindings]

NoPatch == [under |-> FALSE, all |-> FALSE, dirty |-> {}, findings |-> NoFindings]

EmptyPatch == [NoPatch EXCEPT !.under = TRUE, !.all = TRUE]

Init ==
    /\ corpus \in Corpora /\ config \in Configs
    /\ books = [b \in Slugs |-> NoText] /\ swaps = <<>> /\ generation = 0
    /\ pending = NothingOwed
    /\ retained = NoModel
    /\ partition = NoFindings
    /\ patch = NoPatch

Idle == ~ patch.under

(***************************************************************************)
(* The host's edits.  A book that leaves is withdrawn from the aggregate   *)
(* at once, under a swap of its own, and its findings go with it.          *)
(***************************************************************************)
Held(held) == { b \in Slugs : held[b] # NoText }

SwapsOf(S, held, new) ==
    LET moved == Selected(Books, S) IN
    [i \in DOMAIN moved |-> [old |-> held[moved[i]], new |-> new[moved[i]]]]

LoggedUnswapped(S, new) ==      \* mutant: the generation moves and no swap is logged
    /\ books' = new
    /\ swaps' = swaps
    /\ generation' = generation + Cardinality(S)

Logged(S, new) ==
    /\ books' = new
    /\ swaps' = swaps \o SwapsOf(S, books, new)
    /\ generation' = generation + Cardinality(S)

Edit(held) ==
    LET removed == Held(books) \ Held(held)
        Stays(g) == g[1] \notin removed IN
    /\ Idle /\ generation < MaxGeneration
    /\ held # corpus
    /\ corpus' = held
    /\ Logged(removed, [b \in Slugs |-> IF b \in removed THEN NoText ELSE books[b]])
    /\ partition' = [g \in { g \in DOMAIN partition : Stays(g) } |-> partition[g]]
    /\ UNCHANGED <<config, pending, retained, patch>>

Configure(cfg) ==
    /\ Idle
    /\ cfg # config
    /\ config' = cfg
    /\ UNCHANGED <<corpus, aggregate, pending, retained, partition, patch>>

(***************************************************************************)
(* plan_casing with both consumers off.                                    *)
(***************************************************************************)
DriveInactive ==
    /\ Idle /\ config.emit = {}
    /\ books' = [b \in Slugs |-> NoText] /\ swaps' = <<>> /\ generation' = 0
    /\ pending' = OweAll(NothingOwed)
    /\ retained' = NoModel
    /\ patch' = EmptyPatch
    /\ UNCHANGED <<corpus, config, partition>>

(***************************************************************************)
(* The reduction of every book the corpus holds.                           *)
(***************************************************************************)
(* A value-equal word table is not logged; the first fold of a book is.    *)
SameWords(x, y) == x.keys = y.keys /\ x.tally = y.tally

MovedBooks ==
    { b \in Held(corpus) : \/ books[b] = NoText
                           \/ ~ SameWords(Contributions[books[b]], Contributions[corpus[b]]) }

(* Chapters the cache has not, or that reduce to something else.           *)
MovedSites ==
    { g \in GroupsOf(corpus) : g \in GroupsOf(books) => Chapter(books, g) # Chapter(corpus, g) }

OwedThisAttempt ==              \* mutant: a failed attempt's debt is dropped
    IF Held(corpus) \subseteq Held(books)
    THEN OweChapters([pending EXCEPT !.chapters = {}], MovedSites)
    ELSE OweAll(pending)

OwedSites ==
    IF Held(corpus) \subseteq Held(books) THEN OweChapters(pending, MovedSites)
    ELSE OweAll(pending)

(* No cased word start: no convention, an empty partition, and no plan.    *)
DriveUncased ==
    /\ Idle /\ config.emit # {} /\ ~ AnyCased(corpus)
    /\ Logged(MovedBooks, corpus)
    /\ pending' = OwedSites
    /\ retained' = NoModel
    /\ patch' = EmptyPatch
    /\ UNCHANGED <<corpus, config, partition>>

(***************************************************************************)
(* CasingModel::build: the model is patched through the swap log, or       *)
(* merged from the books when there is none to patch.                      *)
(***************************************************************************)
NoneRetained == retained = NoModel

BuiltTable(log, held) ==
    IF NoneRetained THEN MergeBooks(held)
    ELSE Carried(retained.table, log)

BuiltPanel(log, table) ==
    LET moved == UNION { MovedWords(s) : s \in Range(log) }
        delta == ClassDelta(log) IN
    IF ~ NoneRetained /\ Patchable(retained.panel, table, moved, delta)
    THEN PatchedPanel(retained.panel, table, moved, delta)
    ELSE Panel(table)

Built(log) ==
    LET table == BuiltTable(log, corpus) IN
    [table |-> table, panel |-> BuiltPanel(log, table)]

Reusable(now) == ~ NoneRetained /\ retained.generation = now /\ retained.knobs = config.knobs

Current(now, log) ==
    IF Reusable(now) THEN [table |-> retained.table, panel |-> retained.panel] ELSE Built(log)

(* Every retained verdict, computed again under the new model.             *)
Refreshed(m) == Outcomes(m.table, m.panel, config.knobs, DOMAIN retained.verdicts)

StandsUnrefreshed(fresh) ==     \* mutant: the retained verdicts are taken at their word
    ~ NoneRetained

Stands(fresh) == ~ NoneRetained /\ fresh = retained.verdicts

AbsorbedWhole(verdicts, memo, whole) ==  \* mutant: a partial pass's new keys are left out
    IF whole THEN memo ELSE verdicts

(* A pass over every chapter enumerates the keys exactly, a partial one    *)
(* adds those it reached.                                                  *)
Absorbed(verdicts, memo, whole) ==
    IF whole THEN memo
    ELSE [k \in DOMAIN memo \cup DOMAIN verdicts |->
             IF k \in DOMAIN memo THEN memo[k] ELSE verdicts[k]]

Owed(fresh) == IF Stands(fresh) THEN OwedSites ELSE OweAll(OwedSites)

Dirty(owed) ==
    IF RebuildAll(owed) THEN GroupsOf(corpus) ELSE GroupsOf(corpus) \cap owed.chapters

Drive ==
    LET now == generation + Cardinality(MovedBooks)
        log == swaps \o SwapsOf(MovedBooks, books, corpus) IN
    /\ Idle /\ config.emit # {} /\ AnyCased(corpus)
    /\ books' = corpus
    /\ generation' = now
    /\ swaps' = IF Reusable(now) THEN swaps ELSE <<>>
    /\ \E m \in {Current(now, log)} : \E fresh \in {Refreshed(m)} : \E owed \in {Owed(fresh)} :
       \E pass \in {Pass(corpus, Dirty(owed), m, config)} :
          /\ pending' = [owed EXCEPT !.candidate = Identity]
          /\ retained' = [generation |-> now, knobs |-> config.knobs,
                          table |-> m.table, panel |-> m.panel,
                          verdicts |-> Absorbed(fresh, pass.memo, RebuildAll(owed))]
          /\ patch' = [under |-> TRUE, all |-> RebuildAll(owed), dirty |-> owed.chapters,
                       findings |-> pass.findings]
    /\ UNCHANGED <<corpus, config, partition>>

(***************************************************************************)
(* The end of the analysis.  A consumer that is off loses its findings; an *)
(* attempt that fails leaves the warm state behind.                        *)
(***************************************************************************)
Rewritten(g) == patch.all \/ g \in patch.dirty

Patched(g) ==
    IF Rewritten(g) THEN (IF g \in DOMAIN patch.findings THEN patch.findings[g] ELSE {})
    ELSE { f \in partition[g] : f.rule \in config.emit }

Commit ==
    /\ patch.under
    /\ partition' = LET kept == { g \in DOMAIN partition : ~ Rewritten(g) } IN
                    [g \in kept \cup DOMAIN patch.findings |-> Patched(g)]
    /\ pending' = Promote(pending)
    /\ patch' = NoPatch
    /\ UNCHANGED <<corpus, config, aggregate, retained>>

Fail ==
    /\ patch.under
    /\ patch' = NoPatch
    /\ UNCHANGED <<corpus, config, aggregate, pending, retained, partition>>

Next ==
    \/ \E held \in Corpora : Edit(held)
    \/ \E cfg \in Configs : Configure(cfg)
    \/ DriveInactive \/ DriveUncased \/ Drive
    \/ Commit \/ Fail

Spec == Init /\ [][Next]_vars

(***************************************************************************)
(* Properties.                                                             *)
(***************************************************************************)
(* Type invariant: the swap log holds one entry for every generation since  *)
(* the model was built, so the next build's assertion cannot fail.         *)
TypeOK ==
    /\ corpus \in Corpora /\ config \in Configs
    /\ DOMAIN books = Slugs
    /\ generation \in 0 .. MaxGeneration + Len(Books)
    /\ pending.chapters \subseteq Slugs \X Nat
    /\ patch.under \in BOOLEAN
    /\ ~ NoneRetained => retained.generation + Len(swaps) = generation

(* CasingModel::build: "the patched result is bit-identical to a            *)
(* from-scratch build".  Carrying the retained table through the logged    *)
(* swaps gives the merge of the books the cache holds, and the retained    *)
(* panel is the one a rebuild would make, whatever edits, removals and     *)
(* failed attempts came between.                                           *)
ModelFollowsTheAggregate ==
    NoneRetained \/ ( /\ Carried(retained.table, swaps) = MergeBooks(books)
                      /\ retained.panel = Panel(retained.table) )

(* VerdictTable's contract: it names every key a finding that still stands  *)
(* was emitted under, and every key of a chapter the partition does not    *)
(* owe, or a later diff would call a stale record correct.                 *)
VerdictsCoverThePartition ==
    NoneRetained \/ pending.all \/
    \A g \in GroupsOf(books) \ pending.chapters :
        g \in DOMAIN partition => KeysOf(Chapter(books, g)) \subseteq DOMAIN retained.verdicts

(* VerdictDiff: a build with no verdicts to compare proves nothing, which   *)
(* is harmless only while no finding of a chapter the cache holds stands   *)
(* and is not owed.                                                        *)
DroppedModelLeavesNothingStanding ==
    NoneRetained /\ Idle =>
        pending.all \/ \A g \in (DOMAIN partition \cap GroupsOf(books)) \ pending.chapters :
                           partition[g] = {}

(* The findings a pure, one-shot analysis would emit for each chapter.     *)
ColdFindings ==
    Tabled([held \in Corpora |-> [cfg \in Configs |->
        LET table == MergeBooks(held) IN
        Pass(held, GroupsOf(held), [table |-> table, panel |-> Panel(table)], cfg).findings]])

(* Whatever the edits, failures and retries since, the partition a commit   *)
(* leaves says of every chapter what a full re-walk would say.             *)
CommitsAreCold ==
    [][Commit => \A g \in GroupsOf(corpus) :
          (IF g \in DOMAIN partition' THEN partition'[g] ELSE {}) = ColdFindings[corpus][config][g]]_vars
==============================================================================
