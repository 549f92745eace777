--------------------------- MODULE MCAnalysisEngine ---------------------------
(***************************************************************************)
(* Instances of AnalysisEngine for TLC: one book of two chapters and one   *)
(* of a single chapter, two contents, no reference or one that pairs with  *)
(* one chapter of each book.                                               *)
(***************************************************************************)
EXTENDS AnalysisEngine, TLC

CONSTANTS a1, a2, b1, x, y, lower, cased

MCChapters == {a1, a2, b1}

OnePerBook == {a1, b1}

OneBook == {a1, a2}

MCBookOf(c) == IF c = b1 THEN "B" ELSE "A"

Settings(rules, knobs, emit, refs) ==
    [direct |-> rules, knobs |-> knobs, emit |-> emit, paired |-> refs]

(* Every kind of change: a per-verse rule, a judging knob, a consumer off. *)
AllConfigs == { Settings("d1", "k1", {lower}, TRUE), Settings("d2", "k1", {lower}, TRUE),
                Settings("d1", "k2", {lower}, TRUE), Settings("d1", "k1", {}, FALSE) }

(* Changes that leave the per-verse rules alone: a judging knob, one of    *)
(* two consumers off, both off.                                            *)
JudgingConfigs == { Settings("d1", "k1", {lower, cased}, FALSE),
                    Settings("d1", "k2", {lower, cased}, FALSE),
                    Settings("d1", "k1", {cased}, FALSE), Settings("d1", "k1", {}, FALSE) }

KnobConfigs == { cfg \in AllConfigs : cfg.direct = "d1" }

NoSource == [c \in Chapters |-> Absent]

MCSources == { NoSource, [NoSource EXCEPT ![a1] = x, ![b1] = x] }

TargetOnly == { NoSource }

Symmetry == Permutations({x, y})

SymmetryInBook == Permutations({a1, a2}) \cup Permutations({x, y})
==============================================================================
