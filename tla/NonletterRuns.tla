----------------------------- MODULE NonletterRuns -----------------------------
(***************************************************************************)
(* The nonletter substrate: every maximal run of visible nonletters, what  *)
(* stands on its two sides, and how unusual each member's placement is     *)
(* among the other occurrences of its glyph.                               *)
(*                                                                         *)
(* A seam reads as a space, so a chapter cannot tell only what stands      *)
(* before its first grapheme and after its last: a space if a neighbouring *)
(* chapter exists, the edge of the book if not.  It leaves both deferred;  *)
(* reduction resolves the first from what it has seen, and writes the      *)
(* second into the chapter before.                                         *)
(*                                                                         *)
(* A grapheme is [glyph, kind], kind of "letter", "space", "hygiene" (a    *)
(* control, a baseless mark), "digit" (Nd), or "other" visible nonletters. *)
(***************************************************************************)
EXTENDS Tallies, FiniteSets

CONSTANTS Support   \* the judge's support floors: [exposure, pool, leads, runs]

Gap == [glyph |-> " ", kind |-> "space"]

IsCandidate(u) == u.kind \in {"digit", "other"}

(* Every Nd digit is one follower.                                         *)
PoolKey(u) == IF u.kind = "digit" THEN "#" ELSE u.glyph

RunSlots == 3   \* of 6: longer runs share the last slot

AtMost(n, cap) == IF n < cap THEN n ELSE cap

(***************************************************************************)
(* What stands on a side, and the joint topology of the two sides.         *)
(***************************************************************************)
OuterOf(u) == IF u.kind = "letter" THEN "letter" ELSE "spaced"

IsObservable(side) == side \in {"letter", "spaced"}

HasTopology(start, end) == IsObservable(start) \/ IsObservable(end)

Topology(start, end) == <<start = "letter", end = "letter">>

TopoClass(start, end) == IF "letter" \in {start, end} THEN "letter" ELSE "detached"

TopoKey(g, start, end) == <<g, "topology", TopoClass(start, end), Topology(start, end)>>

(***************************************************************************)
(* Map: one chapter.  A tally is a bag of the counters' names.             *)
(***************************************************************************)
NoEdge == [glyph |-> "none", other |-> "none"]

EndOfRun(verse, i) ==
    CHOOSE j \in i .. Len(verse) :
        /\ \A k \in i .. j : IsCandidate(verse[k])
        /\ j = Len(verse) \/ ~ IsCandidate(verse[j + 1])

RunsFrom(verse, starts) == [k \in DOMAIN starts |-> <<starts[k], EndOfRun(verse, starts[k])>>]

RunsOf(verse) ==
    RunsFrom(verse, IndicesIn(verse, { i \in DOMAIN verse :
        IsCandidate(verse[i]) /\ (i = 1 \/ ~ IsCandidate(verse[i - 1])) }))

(* A run with its outer sides, and its members' sides.                     *)
Run(chapter, v, span) ==
    LET verse == chapter[v] IN
    [verse |-> v, span |-> span, glyphs |-> SubSeq(verse, span[1], span[2]),
     start |-> IF span[1] > 1 THEN OuterOf(verse[span[1] - 1])
               ELSE IF v > 1 THEN "spaced" ELSE "deferred",
     end |-> IF span[2] < Len(verse) THEN OuterOf(verse[span[2] + 1])
             ELSE IF v < Len(chapter) THEN "spaced" ELSE "deferred"]

IsFirst(k) == k = 1

IsLast(run, k) == k = Len(run.glyphs)

StartOf(run, k) == IF IsFirst(k) THEN run.start ELSE "internal"

EndOf(run, k) == IF IsLast(run, k) THEN run.end ELSE "internal"

AllSame(run) == \A u \in Range(run.glyphs) : u = run.glyphs[1]

(* A deferred side is left to the fold, and its topology with it.          *)
MemberCounts(run, k) ==
    LET u == run.glyphs[k]
        g == u.glyph
        start == StartOf(run, k)
        end == EndOf(run, k) IN
    {<<g, "count">>}
    \cup { <<g, "start", s>> : s \in { s \in {start} : IsObservable(s) } }
    \cup { <<g, "end", s>> : s \in { s \in {end} : IsObservable(s) } }
    \cup (IF "deferred" \notin {start, end} /\ HasTopology(start, end)
          THEN {TopoKey(g, start, end)} ELSE {})
    \cup (IF IsLast(run, k) THEN {}
          ELSE {<<g, "leads">>, <<g, "pair", PoolKey(run.glyphs[k + 1])>>})
    \cup (IF IsFirst(k) /\ AllSame(run)
          THEN {<<g, "same", AtMost(Len(run.glyphs), RunSlots)>>} ELSE {})

(* A run counts once for each glyph in it, however often it recurs there.  *)
RunCounts(run) ==
    { <<u.glyph, "runs">> : u \in Range(run.glyphs) }
    \cup (IF \E u \in Range(run.glyphs) : u.kind = "digit" THEN {<<"", "digit runs">>} ELSE {})

RunTally(run) ==
    SumOf([k \in DOMAIN run.glyphs |-> SetToBag(MemberCounts(run, k))])
        (+) SetToBag(RunCounts(run)) (+) Times(Len(run.glyphs), {<<"", "exposure">>})

(* The other side of an edge's member, "open" when it is deferred too.     *)
EdgeOther(side) == IF side = "deferred" THEN "open" ELSE side

VerseRuns(chapter, v, spans) == [i \in DOMAIN spans |-> Run(chapter, v, spans[i])]

LeadOf(run) ==
    IF run.start # "deferred" THEN NoEdge
    ELSE [glyph |-> run.glyphs[1].glyph, other |-> EdgeOther(EndOf(run, 1))]

TailOf(run, n) ==
    IF run.end # "deferred" THEN NoEdge
    ELSE [glyph |-> run.glyphs[n].glyph, other |-> EdgeOther(StartOf(run, n))]

Observed(token, runs) ==
    [token |-> token, runs |-> runs,
     tally |-> SumOf([i \in DOMAIN runs |-> RunTally(runs[i])]),
     lead |-> IF runs = <<>> THEN NoEdge ELSE LeadOf(Head(runs)),
     tail |-> IF runs = <<>> THEN NoEdge ELSE TailOf(Last(runs), Len(Last(runs).glyphs))]

MapRunsOf(token, chapter) ==
    Observed(token,
             FlattenSeq([v \in DOMAIN chapter |-> VerseRuns(chapter, v, RunsOf(chapter[v]))]))

(***************************************************************************)
(* Reduce, in order.  The carry names the chapter that still waits.        *)
(***************************************************************************)
NoneSeen == [seen |-> FALSE, pending |-> 0]

SeenIfPending(entering) == entering.pending # 0  \* mutant: a chapter with no tail was not there

SeenPrevious(entering) == entering.seen

ResolvedTail(r, entering) ==
    IF entering.pending # 0 /\ r.token = entering.pending THEN [r EXCEPT !.end = "spaced"] ELSE r

ReduceRuns(before, obs, entering) ==
    Append([i \in DOMAIN before |-> ResolvedTail(before[i], entering)],
           [token |-> obs.token, obs |-> obs, end |-> "boundary",
            start |-> IF SeenPrevious(entering) THEN "spaced" ELSE "boundary"])

LeavingRuns(obs) ==
    [seen |-> TRUE, pending |-> IF obs.tail = NoEdge THEN 0 ELSE obs.token]

WithRuns(walk, obs) ==
    [reduced |-> ReduceRuns(walk.reduced, obs, walk.leaving), leaving |-> LeavingRuns(obs)]

ReducedRuns(book) ==
    LET walk[c \in 0 .. Len(book)] ==
            IF c = 0 THEN [reduced |-> <<>>, leaving |-> NoneSeen]
            ELSE Only({ WithRuns(w, obs) : w \in {walk[c - 1]}, obs \in {MapRunsOf(c, book[c])} })
    IN walk[Len(book)].reduced

(***************************************************************************)
(* Fold: the counts the map left out are known now.                        *)
(***************************************************************************)
SideCount(g, name, side) == IF IsObservable(side) THEN {<<g, name, side>>} ELSE {}

JointCount(g, start, end) == IF HasTopology(start, end) THEN {TopoKey(g, start, end)} ELSE {}

LeadCounts(lead, r) ==
    IF lead = NoEdge THEN EmptyBag
    ELSE SetToBag(SideCount(lead.glyph, "start", r.start)
                  \cup JointCount(lead.glyph, r.start,
                                  IF lead.other = "open" THEN r.end ELSE lead.other))

TailCounts(tail, r) ==
    IF tail = NoEdge THEN EmptyBag
    ELSE SetToBag(SideCount(tail.glyph, "end", r.end)
                  \cup (IF tail.other = "open" THEN {} ELSE JointCount(tail.glyph, tail.other, r.end)))

EdgeCounts(r) == LeadCounts(r.obs.lead, r) (+) TailCounts(r.obs.tail, r)

FoldRunsOf(reduced) ==
    SumOf([c \in DOMAIN reduced |-> reduced[c].obs.tally (+) EdgeCounts(reduced[c])])

FoldNonletters(book) == FoldRunsOf(ReducedRuns(book))

Identities(stats) == { k[1] : k \in DOMAIN stats } \ {""}

(* Nothing or every identity: each rate has a corpus-wide denominator.     *)
NonletterDelta(next, old, new) == IF Moved(old, new) = {} THEN {} ELSE Identities(next)

(* What a verdict reads: the identity's own counts and the corpus's two.   *)
IdentityEvidence(stats, g) ==
    [k \in { k \in DOMAIN stats : k[1] \in {g, ""} } |-> stats[k]]

(***************************************************************************)
(* Judge: the occurrence under judgment is left out of both counts.        *)
(***************************************************************************)
Abstains == <<>>

JudgedForm(mine, pool, floor) ==
    IF pool = 0 \/ pool - 1 < floor THEN Abstains
    ELSE [count |-> AtMost(IF mine = 0 THEN 0 ELSE mine - 1, pool - 1), total |-> pool - 1]

(* The cells of one table, and those of them in one topology class.        *)
Table(stats, g, name) == { k \in DOMAIN stats : Len(k) > 2 /\ k[1] = g /\ k[2] = name }

InClass(cells, class) == { k \in cells : k[3] = class }

JudgeRarity(stats, u) ==
    LET exposure == Tallied(<<"", "exposure">>, stats)
        basis == IF u.kind = "digit" THEN Tallied(<<"", "digit runs">>, stats)
                 ELSE Tallied(<<u.glyph, "runs">>, stats) IN
    IF exposure < Support.exposure THEN Abstains ELSE [count |-> basis - 1, total |-> exposure]

JudgeSide(stats, g, name, side) ==
    JudgedForm(Tallied(<<g, name, side>>, stats),
               CopiesOf(Table(stats, g, name), stats), Support.pool)

JudgeTopology(stats, g, start, end) ==
    JudgedForm(Tallied(TopoKey(g, start, end), stats),
               CopiesOf(InClass(Table(stats, g, "topology"), TopoClass(start, end)), stats),
               Support.pool)

JudgePair(stats, g, follower) ==
    JudgedForm(Tallied(<<g, "pair", follower>>, stats), Tallied(<<g, "leads">>, stats), Support.leads)

JudgeContinuation(stats, g, len) ==
    JudgedForm(Tallied(<<g, "same", AtMost(len, RunSlots)>>, stats),
               CopiesOf(Table(stats, g, "same"), stats), Support.runs)

(* Every channel a member of a run is judged by, abstentions left out.     *)
SideVerdicts(stats, g, name, side) ==
    IF IsObservable(side) THEN {<<name, JudgeSide(stats, g, name, side)>>} ELSE {}

TopologyVerdict(stats, g, start, end) ==
    IF HasTopology(start, end) THEN {<<"topology", JudgeTopology(stats, g, start, end)>>} ELSE {}

PairVerdict(stats, run, k, g) ==
    IF IsLast(run, k) THEN {} ELSE {<<"pair", JudgePair(stats, g, PoolKey(run.glyphs[k + 1]))>>}

ContinuationVerdict(stats, run, k, g) ==
    IF IsFirst(k) /\ AllSame(run) /\ Len(run.glyphs) >= 2
    THEN {<<"continuation", JudgeContinuation(stats, g, Len(run.glyphs))>>} ELSE {}

Verdicts(stats, run, k, u) ==
    { <<"rarity", JudgeRarity(stats, u)>> }
    \cup SideVerdicts(stats, u.glyph, "start", StartOf(run, k))
    \cup SideVerdicts(stats, u.glyph, "end", EndOf(run, k))
    \cup TopologyVerdict(stats, u.glyph, StartOf(run, k), EndOf(run, k))
    \cup PairVerdict(stats, run, k, u.glyph)
    \cup ContinuationVerdict(stats, run, k, u.glyph)

Channels(stats, run, k) == { j \in Verdicts(stats, run, k, run.glyphs[k]) : j[2] # Abstains }

(* A retained run with its deferred sides resolved.                        *)
Resolved(run, r) ==
    [run EXCEPT !.start = IF @ = "deferred" THEN r.start ELSE @,
                !.end = IF @ = "deferred" THEN r.end ELSE @]

(* materialize: each run of the book, in order, with its members' channels. *)
JudgedRun(stats, run) == [k \in DOMAIN run.glyphs |-> Channels(stats, run, k)]

ResolvedRuns(r) == [i \in DOMAIN r.obs.runs |-> Resolved(r.obs.runs[i], r)]

AllRuns(reduced) == FlattenSeq([c \in DOMAIN reduced |-> ResolvedRuns(reduced[c])])

JudgedAll(stats, runs) == [i \in DOMAIN runs |-> JudgedRun(stats, runs[i])]

JudgedRuns(stats, book) == JudgedAll(stats, AllRuns(ReducedRuns(book)))
==============================================================================
