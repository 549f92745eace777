---------------------------- MODULE MCCasingModel ----------------------------
(***************************************************************************)
(* An instance of CasingModel for TLC: two books of up to two chapters.    *)
(* Their texts move a word over the juror bar, a class in and out of the   *)
(* panel, a boundary across the chapter seam, a verdict in a chapter       *)
(* nobody edited, and the corpus between cased and uncased.                *)
(***************************************************************************)
EXTENDS CasingModel

U(w) == Word(w, "upper")

L(w) == Word(w, "lower")

Stop == Mark(".")

(* Capitals mid-flow and after stops; the second leaves a stop pending.    *)
Named == << <<L("in"), Space, U("eli"), Stop, Space, U("in"), Space, U("eli")>> >>

Ended == << <<U("eli"), Stop, Space, L("in"), Stop>> >>

(* Lowercase starts that break what the others show, the first of them     *)
(* after a closing quote and whatever the chapter before left pending.     *)
Broken == << <<Quote("Q"), Space, L("in"), Space, L("eli")>> >>

Bare == << <<Word("yod", "uncased"), Stop, Space, Word("he", "uncased")>> >>

MCTexts == {"none", "bare", "named", "ended", "fading"}

MCChaptersIn(t) ==
    CASE t = "none"  -> << >>
      [] t = "bare"  -> <<Bare>>
      [] t = "named" -> <<Named, Broken>>
      [] t = "ended" -> <<Ended, Broken>>
      [] t = "fading" -> <<Ended, Bare>>

MCBooks == <<"A", "B">>

Knobs(z, k) == [z |-> z, gate |-> 1, recurrence |-> k]

Both == {"positional", "intrinsic"}

MCConfigs == { [emit |-> Both, knobs |-> Knobs(0, 3)],
               [emit |-> {"intrinsic"}, knobs |-> Knobs(1, 3)],
               [emit |-> {}, knobs |-> Knobs(0, 3)] }

MCDominates(k, n, z) == 2 * k > n + z

(* Some word common in the text never follows the class.                   *)
MCReshuffles(panel, ck) ==
    \E w \in DOMAIN panel.base : panel.after[<<ck, w>>] = 0
==============================================================================
