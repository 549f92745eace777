----------------------------- MODULE Publication -----------------------------
(***************************************************************************)
(* The wasm handle, the packed buffers it returns and the application that *)
(* decodes, stores and reconciles them.                                    *)
(*                                                                         *)
(* The handle keeps the id and the lazy arguments of its last packed       *)
(* analysis; the application keeps a decoded snapshot, maybe a buffer it   *)
(* has not looked at and a buffer it stored in an earlier session, and     *)
(* asks for arguments by snapshot id and record index at any later time.   *)
(*                                                                         *)
(* The findings are the pure analysis of the inputs (AnalysisEngine), and  *)
(* ids are the inputs they are folded from: the model has no hash          *)
(* collisions.  A target maps each book to its verses, by what the rules   *)
(* find in them, and a reference is the set of books in which a rule that  *)
(* is silent without one fires.                                            *)
(***************************************************************************)
EXTENDS WireRecords

CONSTANTS
    Books,        \* the slugs, in the order of the corpus
    Verses,       \* what a verse can be: its text, the code that fires, where, how strongly,
                  \* its length against its verse of the reference
    Targets,      \* the target corpora
    Holding,      \* for each target and book, the verses: a sequence over DOMAIN Verses
    References,   \* sets of slugs
    NoReference,
    Configs,      \* the severity findings are given
    None          \* no id, no buffer, no snapshot

Inputs == [target : Targets, reference : References \cup {NoReference}, config : Configs]

(* A scalar has bytes and units; a rule that reads the target alone never   *)
(* fires the code of one that reads the reference.                         *)
ASSUME PublicationAssumption ==
    /\ Books \in Seq(ToSet(Books))
    /\ \A v \in DOMAIN Verses : /\ Verses[v].text \in Seq([bytes : 1 .. 4, units : 1 .. 2])
                               /\ Verses[v].code # "paired" /\ Verses[v].ratio \in Nat
    /\ DOMAIN Holding = Targets
    /\ \A t \in Targets : Holding[t] \in [ToSet(Books) -> Seq(DOMAIN Verses)]
    /\ \A t, u \in Targets : Holding[t] = Holding[u] => t = u
    /\ \A r \in References : r \subseteq ToSet(Books)
    /\ NoReference \notin References
    /\ None \notin Inputs

VARIABLES
    inputs,            \* ssc_galley::Galley's corpus, source and config
    engine,            \* its lifecycle
    last_analysis_id,  \* wasm Galley: the one id lazy lookups accept
    last_args,         \* wasm Galley: the arguments, record by record
    bytes,             \* the last buffer analyze returned to the application
    saved,             \* the buffer in the application's storage
    snapshot           \* the FindingSnapshot the application shows

wrapper == <<last_analysis_id, last_args>>
application == <<bytes, saved, snapshot>>
vars == <<inputs, engine, wrapper, application>>

(***************************************************************************)
(* Inputs, identities and findings.                                        *)
(***************************************************************************)
HasReference(in) == in.reference # NoReference

(* TargetContextId folds the target and the configuration, AnalysisId adds *)
(* the reference with an explicit absence tag.                             *)
TargetContextId(in) == [target |-> in.target, config |-> in.config]

AnalysisId(in) == in

(* The verses of a corpus, with the book each is of.                       *)
Corpus ==
    Tabled([target \in Targets |->
        FlattenSeq([n \in DOMAIN Books |->
            [v \in DOMAIN Holding[target][Books[n]] |->
                [sid |-> Books[n], verse |-> Holding[target][Books[n]][v]]]])])

Keys == Tabled([target \in Targets |-> [k \in DOMAIN Corpus[target] |-> Corpus[target][k].sid]])

Texts == Tabled([v \in DOMAIN Verses |-> Boundaries(Verses[v].text)])

Text(in, k) == Texts[Corpus[in.target][k].verse]

(* A paired verse is reported whole, with its ratio.                       *)
BytesIn(ends) == ends[Cardinality(DOMAIN ends) - 1].bytes

(* Counts are over the whole corpus, so an edit in one book changes what a *)
(* row of another says.                                                    *)
Fired(target, code) ==
    Cardinality({ k \in DOMAIN Corpus[target] : Verses[Corpus[target][k].verse].code = code })

OfTarget(in, k) ==
    LET verse == Verses[Corpus[in.target][k].verse] IN
    IF verse.code = "none" THEN << >>
    ELSE << [key |-> k, code |-> verse.code, severity |-> in.config, range |-> verse.range,
             score |-> verse.score,
             counts |-> <<Fired(in.target, verse.code), Len(Corpus[in.target])>>,
             args |-> IF verse.code = "bare" THEN NoArgs ELSE <<in.target>>] >>

OfReference(in, k) ==
    IF HasReference(in) /\ Keys[in.target][k] \in in.reference
    THEN << [key |-> k, code |-> "paired", severity |-> in.config,
             range |-> [start |-> 0, end |-> BytesIn(Text(in, k))], score |-> ScoreUnit,
             counts |-> <<Verses[Corpus[in.target][k].verse].ratio>>, args |-> <<in.reference>>] >>
    ELSE << >>

Assembled(in) ==
    FlattenSeq([k \in DOMAIN Corpus[in.target] |-> OfReference(in, k) \o OfTarget(in, k)])

Findings == Tabled([in \in Inputs |-> Assembled(in)])

InputDependency(code) ==
    IF code = "paired" THEN "target-and-reference-silent-when-absent" ELSE "target-only"

(* pack: the header's ids and one record a finding, or a refusal.          *)
Packable(in) ==
    \A i \in DOMAIN Findings[in] :
        Recordable(Findings[in][i], Keys[in.target], Text(in, Findings[in][i].key))

Pack(in) ==
    [analysisId |-> AnalysisId(in), targetContextId |-> TargetContextId(in),
     hasReference |-> HasReference(in),
     records |-> [i \in DOMAIN Findings[in] |-> Record(Findings[in][i], Text(in, Findings[in][i].key))]]

Packed == Tabled([in \in { in \in Inputs : Packable(in) } |-> Pack(in)])

Args == Tabled([in \in Inputs |-> [i \in DOMAIN Findings[in] |-> Findings[in][i].args]])

(***************************************************************************)
(* The handle.                                                             *)
(***************************************************************************)
InvalidateId ==                 \* mutant: the arguments outlive their id
    last_analysis_id' = None /\ UNCHANGED last_args

Invalidate == last_analysis_id' = None /\ last_args' = << >>

(* The typed mutations: invalidate_publication_on(Changed).  A proven no-op *)
(* leaves the publication alone.                                           *)
Change(in) ==
    /\ in # inputs
    /\ inputs' = in
    /\ engine' = "Dirty"
    /\ Invalidate
    /\ UNCHANGED application

Slugs == ToSet(Books)

Held == Tabled([target \in Targets |-> { b \in Slugs : Holding[target][b] # << >> }])

(* The corpora that hold what is left of one without some books.           *)
Left ==
    Tabled([target \in Targets |-> [slugs \in SUBSET Slugs |->
        { t \in Targets : \A b \in Slugs :
                             Holding[t][b] = IF b \in slugs THEN << >> ELSE Holding[target][b] }]])

InvalidateNever == UNCHANGED wrapper    \* mutant: a count is not an effect

(* remove_books answers with a count and invalidates by it.                *)
InvalidateRemoved == Invalidate

RemoveBooks(slugs) ==
    /\ slugs \cap Held[inputs.target] # {}
    /\ \E target \in Left[inputs.target][slugs] : inputs' = [inputs EXCEPT !.target = target]
    /\ engine' = "Dirty"
    /\ InvalidateRemoved
    /\ UNCHANGED application

(* analyze_packed: published only once the pack has succeeded.             *)
Analyze ==
    /\ inputs \in DOMAIN Packed
    /\ engine' = "CleanPublished"
    /\ bytes' = Packed[inputs]
    /\ last_args' = Args[inputs]
    /\ last_analysis_id' = AnalysisId(inputs)
    /\ UNCHANGED <<inputs, saved, snapshot>>

PublishEarly ==                 \* mutant: the id is stamped before the pack
    last_analysis_id' = AnalysisId(inputs) /\ UNCHANGED last_args

PublishNothing == UNCHANGED wrapper

(* A finding was refused, or a test injected the failure: the engine is    *)
(* current, the wire stays as it was (EngineCurrentWireStale).             *)
PackFails ==
    /\ engine' = "CleanPublished"
    /\ PublishNothing
    /\ UNCHANGED <<inputs, application>>

CheckCurrentId(id) == last_analysis_id # None /\ last_analysis_id = id

(* findings_args_core: the whole batch is in range or nothing is answered. *)
Answered(id, indices) ==
    CheckCurrentId(id) /\ \A n \in DOMAIN indices : indices[n] \in DOMAIN last_args

FindingsArgs(indices) == [n \in DOMAIN indices |-> last_args[indices[n]]]

(* A new session, or a disposed handle, over whatever the project holds now. *)
Construct(in) ==
    /\ inputs' = in
    /\ engine' = "Dirty"
    /\ last_analysis_id' = None /\ last_args' = << >>
    /\ bytes' = None /\ snapshot' = None
    /\ UNCHANGED saved

(***************************************************************************)
(* The application: findings.js.                                           *)
(***************************************************************************)
(* Rows are shown in the records' order, identities are kept beside them.  *)
Snapshot(raw, rows, identities) ==
    [analysisId |-> raw.analysisId, targetContextId |-> raw.targetContextId,
     hasReference |-> raw.hasReference, provenance |-> "live",
     findings |-> rows, identities |-> identities]

(* The keys given with a buffer are those of the corpus it was packed from *)
(* (findings.d.ts).                                                        *)
KeysOf(raw) == Keys[raw.analysisId.target]

DecodeFindings ==
    /\ bytes # None
    /\ \E decoded \in {Materialized(bytes.records, KeysOf(bytes))} :
          snapshot' = Snapshot(bytes, decoded.rows, decoded.identities)
    /\ bytes' = None
    /\ UNCHANGED <<inputs, engine, wrapper, saved>>

(* The previous object is reused when its identity recurs and nothing      *)
(* visible moved.  Identities do not repeat within a snapshot here, so the *)
(* queue an identity is paired through holds at most one object.           *)
Reused(identity, row) ==
    LET same == { i \in DOMAIN snapshot.findings :
                    snapshot.identities[i] = identity /\ VisibleEqual(snapshot.findings[i], row) }
    IN IF same = {} THEN row ELSE snapshot.findings[CHOOSE i \in same : TRUE]

ReconcileFindings ==
    /\ bytes # None /\ snapshot # None
    /\ \E next \in {Materialized(bytes.records, KeysOf(bytes))} :
          snapshot' = Snapshot(bytes,
              [i \in DOMAIN next.rows |-> Reused(next.identities[i], next.rows[i])], next.identities)
    /\ bytes' = None
    /\ UNCHANGED <<inputs, engine, wrapper, saved>>

Save ==
    /\ bytes # None
    /\ saved' = bytes
    /\ UNCHANGED <<inputs, engine, wrapper, bytes, snapshot>>

ExactMatch ==
    /\ saved.analysisId = AnalysisId(inputs)
    /\ saved.targetContextId = TargetContextId(inputs)
    /\ saved.hasReference = HasReference(inputs)

SalvageableAnyTarget == saved.hasReference /\ ~ HasReference(inputs)    \* mutant

(* The single salvage: the reference is gone, everything else is as saved. *)
Salvageable ==
    /\ saved.hasReference /\ ~ HasReference(inputs)
    /\ saved.targetContextId = TargetContextId(inputs)

KeptAll(records) == records     \* mutant: reference rows are not filtered

Kept(records) ==
    Selected(records, { r \in ToSet(records) :
        InputDependency(r.code) # "target-and-reference-silent-when-absent" })

LoadedFrom(records) == Materialized(records, Keys[inputs.target])

Loaded(decoded) == Snapshot(saved, decoded.rows, decoded.identities)

Salvaged(decoded) ==
    [analysisId |-> AnalysisId(inputs), targetContextId |-> TargetContextId(inputs),
     hasReference |-> FALSE, provenance |-> "reference-removed",
     findings |-> decoded.rows, identities |-> decoded.identities]

(* decodePersistedFindings against what the handle expects; a refused      *)
(* buffer is discarded.                                                    *)
DecodePersisted ==
    /\ saved # None
    /\ IF ExactMatch THEN /\ \E all \in {LoadedFrom(saved.records)} : snapshot' = Loaded(all)
                          /\ UNCHANGED saved
       ELSE IF Salvageable THEN /\ \E kept \in {LoadedFrom(Kept(saved.records))} : snapshot' = Salvaged(kept)
                                /\ UNCHANGED saved
       ELSE saved' = None /\ UNCHANGED snapshot
    /\ UNCHANGED <<inputs, engine, wrapper, bytes>>

Init ==
    /\ inputs \in Inputs
    /\ engine = "Dirty"
    /\ last_analysis_id = None /\ last_args = << >>
    /\ bytes = None /\ saved = None /\ snapshot = None

Next ==
    \/ \E in \in Inputs : Change(in) \/ Construct(in)
    \/ \E slugs \in SUBSET Slugs : RemoveBooks(slugs)
    \/ Analyze \/ PackFails
    \/ DecodeFindings \/ ReconcileFindings \/ Save \/ DecodePersisted

Spec == Init /\ [][Next]_vars

(***************************************************************************)
(* Properties.                                                             *)
(***************************************************************************)
(* Type invariant.                                                         *)
TypeOK ==
    /\ inputs \in Inputs
    /\ engine \in {"Dirty", "CleanPublished"}
    /\ last_analysis_id = None => last_args = << >>
    /\ \A buffer \in {bytes, saved} \ {None} : buffer = Packed[buffer.analysisId]
    /\ snapshot # None => snapshot.provenance \in {"live", "reference-removed"}

(* Whatever the application shows is, row for row, what the analysis of the *)
(* inputs the snapshot's id names found: the verse, the very characters,   *)
(* the score and a ratio to the nearest step, the counts or their ceiling  *)
(* and the mark that says so.  Packing, reconciling with an older snapshot *)
(* or salvaging a stored buffer leaves no row of another analysis and no   *)
(* wrapped field.                                                          *)
ShowsTheAnalysis(rows, in) ==
    /\ DOMAIN rows = DOMAIN Findings[in]
    /\ \A i \in DOMAIN rows :
          LET f == Findings[in][i] IN Shows(rows[i], f, Keys[in.target][f.key], Text(in, f.key))

SnapshotIsExact == snapshot # None => ShowsTheAnalysis(snapshot.findings, snapshot.analysisId)

(* findingsArgs: when the handle accepts a snapshot's id, however long ago  *)
(* the snapshot was made and in whichever session, it answers every one of  *)
(* its indices, and with the arguments of that very finding.               *)
LookupsAnswerTheSnapshot ==
    snapshot # None =>
        LET indices == [i \in DOMAIN snapshot.findings |-> i]
        IN CheckCurrentId(snapshot.analysisId) =>
              /\ Answered(snapshot.analysisId, indices)
              /\ FindingsArgs(indices) = Args[snapshot.analysisId]

(* decodePersistedFindings: "on success the findings are exact - not stale - *)
(* for the constructing Galley's current inputs".                          *)
LoadedIsCurrent ==
    [][DecodePersisted /\ saved' # None =>
          /\ snapshot'.analysisId = AnalysisId(inputs)
          /\ ShowsTheAnalysis(snapshot'.findings, inputs)]_vars

(***************************************************************************)
(* The published id and arguments are the pure analysis of the inputs the  *)
(* handle holds now, or nothing.                                           *)
(***************************************************************************)
PureAnswer == Tabled([in \in Inputs |-> <<AnalysisId(in), Args[in]>>])

Pure == INSTANCE PureAnalysis WITH
    answer <- IF last_analysis_id = None THEN None ELSE <<last_analysis_id, last_args>>,
    NoAnswer <- None,
    Analysis <- PureAnswer

(* The wire publication never outlives the inputs it describes, never       *)
(* precedes a successful pack, and is only given up for a changed input or *)
(* a new handle.                                                           *)
ImplementsPureAnalysis ==
    [][Pure!Next \/ \E in \in Inputs : Construct(in)]_<<inputs, last_analysis_id, last_args>>
==============================================================================
