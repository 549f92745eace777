----------------------------- MODULE WireRecords -----------------------------
(***************************************************************************)
(* The packed record of a finding: what pack refuses, what it rounds or    *)
(* clamps, and what the decoder reads back.  The widths of the fields are  *)
(* constants, so that their edges are within reach.                        *)
(*                                                                         *)
(* A text is a sequence of scalars, each with its length in UTF-8 bytes    *)
(* and in UTF-16 units; a finding's range is in bytes, a row's in units.   *)
(***************************************************************************)
EXTENDS Integers, Sequences, FiniteSets, SequencesExt, Collections

CONSTANTS
    OffsetMax,    \* the largest UTF-16 offset (u16::MAX)
    LaneMax,      \* the largest count of a lane (u16::MAX)
    PercentUnit,  \* a percent of a length ratio, in the steps it is given in
    ScoreMax,     \* a score of 1 on the wire (65535)
    ScoreUnit     \* a score of 1 in a finding

ASSUME WidthAssumption ==
    /\ OffsetMax \in Nat /\ LaneMax \in Nat /\ PercentUnit \in Nat \ {0}
    /\ ScoreMax \in Nat \ {0} /\ ScoreUnit \in Nat \ {0}

(* Where each scalar of a text ends, in bytes and in units.                *)
Boundaries(text) ==
    LET ends[i \in 0 .. Len(text)] ==
            IF i = 0 THEN [bytes |-> 0, units |-> 0]
            ELSE [bytes |-> ends[i - 1].bytes + text[i].bytes,
                  units |-> ends[i - 1].units + text[i].units]
    IN ends

IsBoundary(ends, at) == \E i \in DOMAIN ends : ends[i].bytes = at

Units(ends, at) == (CHOOSE end \in Range(ends) : end.bytes = at).units

Projectable(range, ends) ==
    /\ range.start <= range.end
    /\ IsBoundary(ends, range.start) /\ IsBoundary(ends, range.end)
    /\ Units(ends, range.start) <= OffsetMax /\ Units(ends, range.end) <= OffsetMax

NoScore == -1

NoArgs == <<>>

Scorable(score) == score = NoScore \/ score \in 0 .. ScoreUnit

(* round(score * 65535): half goes up.                                     *)
Quantized(score) ==
    IF score = NoScore THEN NoScore ELSE (2 * score * ScoreMax + ScoreUnit) \div (2 * ScoreUnit)

(* wire_def: a pair of counts, one wide count, or nothing.                 *)
DigestShape(code) ==
    CASE code \in {"target", "paired"} -> "count-pair"
      [] code = "rare" -> "u32"
      [] OTHER -> "none"

LaneWrapped(v) == v % (LaneMax + 1)     \* mutant: a cast in place of the clamp

Lane(v) == IF v > LaneMax THEN LaneMax ELSE v

Saturated(counts) == \E i \in DOMAIN counts : counts[i] > LaneMax

CountDigest(counts) ==
    [shape |-> "count-pair", lanes |-> [i \in DOMAIN counts |-> Lane(counts[i])],
     saturated |-> Saturated(counts)]

PercentTruncated(ratio) == ratio \div PercentUnit     \* mutant: cast before rounding

(* ratio_pct.round(): half goes up.                                        *)
Percent(ratio) == (2 * ratio + PercentUnit) \div (2 * PercentUnit)

RatioWrapped(ratio) ==                \* mutant: a cast in place of the clamp
    [shape |-> "count-pair", lanes |-> <<LaneWrapped(Percent(ratio)), 0>>,
     saturated |-> Percent(ratio) >= LaneMax]

(* A length ratio has a rule of its own: it is marked from the ceiling on. *)
RatioDigest(ratio) ==
    [shape |-> "count-pair", lanes |-> <<Lane(Percent(ratio)), 0>>,
     saturated |-> Percent(ratio) >= LaneMax]

(* "paired" is the code of the length ratio, its one count is the ratio.   *)
Digest(f) ==
    IF f.code = "paired" THEN RatioDigest(f.counts[1])
    ELSE CASE DigestShape(f.code) = "count-pair" -> CountDigest(f.counts)
           [] DigestShape(f.code) = "u32" ->
                 [shape |-> "u32", lanes |-> f.counts, saturated |-> FALSE]
           [] OTHER -> [shape |-> "none", lanes |-> <<>>, saturated |-> FALSE]

(* A code with a digest is refused without its arguments, and a ratio that *)
(* is no finite number from 0 on is refused.                               *)
Digestible(f) ==
    /\ DigestShape(f.code) # "none" => f.args # NoArgs
    /\ f.code = "paired" => f.counts[1] \in Nat

(* pack stops at the first finding it cannot record exactly.               *)
Recordable(f, keys, ends) ==
    /\ f.key \in DOMAIN keys
    /\ Projectable(f.range, ends)
    /\ Scorable(f.score)
    /\ Digestible(f)

Record(f, ends) ==
    [code |-> f.code, severity |-> f.severity, key |-> f.key,
     start |-> Units(ends, f.range.start), end |-> Units(ends, f.range.end),
     score |-> Quantized(f.score), hasArgs |-> f.args # NoArgs, digest |-> Digest(f)]

(***************************************************************************)
(* The decoder: a record meets the keys of the corpus it was packed from.  *)
(***************************************************************************)
(* The same key may name several verses: its occurrence tells them apart.  *)
KeyOrdinal(keys, k) == Cardinality({ i \in 1 .. k - 1 : keys[i] = keys[k] })

Row(r, keys) ==
    [sid |-> keys[r.key], code |-> r.code, severity |-> r.severity, start |-> r.start,
     end |-> r.end, score |-> r.score, hasArgs |-> r.hasArgs, digest |-> r.digest]

IdentityOf(r, keys) == <<keys[r.key], KeyOrdinal(keys, r.key), r.code, r.start, r.end>>

Materialized(records, keys) ==
    [rows |-> [i \in DOMAIN records |-> Row(records[i], keys)],
     identities |-> [i \in DOMAIN records |-> IdentityOf(records[i], keys)]]

VisibleAlways(a, b) == TRUE     \* mutant: what a row shows is not compared

VisibleEqual(a, b) ==
    /\ a.severity = b.severity /\ a.score = b.score
    /\ a.hasArgs = b.hasArgs /\ a.digest = b.digest

(***************************************************************************)
(* What a row says of a finding, without the encoding.                     *)
(***************************************************************************)
(* The scalars in a range of bytes, and in a range of UTF-16 units.        *)
InBytes(ends, from, to) ==
    { i \in DOMAIN ends \ {0} : from <= ends[i - 1].bytes /\ ends[i].bytes <= to }

InUnits(ends, from, to) ==
    { i \in DOMAIN ends \ {0} : from <= ends[i - 1].units /\ ends[i].units <= to }

ShowsScore(shown, score) ==
    IF score = NoScore THEN shown = NoScore
    ELSE LET off == shown * ScoreUnit - score * ScoreMax IN
         -ScoreUnit <= 2 * off /\ 2 * off <= ScoreUnit

(* A count is what it is; past the ceiling it is the ceiling, and marked.  *)
ShowsCounts(digest, counts) ==
    CASE digest.shape = "none" -> TRUE
      [] digest.shape = "u32" -> digest.lanes = counts
      [] digest.shape = "count-pair" ->
            /\ DOMAIN digest.lanes = DOMAIN counts
            /\ \A i \in DOMAIN counts :
                  IF counts[i] <= LaneMax THEN digest.lanes[i] = counts[i]
                  ELSE digest.lanes[i] = LaneMax /\ digest.saturated
            /\ digest.saturated => \E i \in DOMAIN counts : counts[i] > LaneMax

(* A ratio is shown to the nearest percent.  Marked, it is at the ceiling  *)
(* or past it once rounded; a ratio below that is never marked.            *)
ShowsRatio(digest, ratio) ==
    LET off == digest.lanes[1] * PercentUnit - ratio IN
    /\ DOMAIN digest.lanes = 1 .. 2 /\ digest.lanes[2] = 0
    /\ 2 * off <= PercentUnit
    /\ IF digest.saturated THEN digest.lanes[1] = LaneMax
       ELSE digest.lanes[1] < LaneMax /\ -PercentUnit <= 2 * off

Shows(row, f, sid, ends) ==
    /\ row.sid = sid /\ row.code = f.code /\ row.severity = f.severity
    /\ InUnits(ends, row.start, row.end) = InBytes(ends, f.range.start, f.range.end)
    /\ ShowsScore(row.score, f.score)
    /\ IF f.code = "paired" THEN ShowsRatio(row.digest, f.counts[1])
       ELSE ShowsCounts(row.digest, f.counts)
==============================================================================
