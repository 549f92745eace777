----------------------------- MODULE MixedShapes -----------------------------
(***************************************************************************)
(* Mixed case: how often each word, by its folded key, is written in each  *)
(* case shape, and the places where a capital is inside the word.          *)
(*                                                                         *)
(* A unit is a word with the case of each of its letters.                  *)
(***************************************************************************)
EXTENDS Tallies

Cased(letters) == SelectSeq(letters, LAMBDA letter : letter \in {"upper", "lower"})

ShapeOf(cased) ==
    CASE Range(cased) = {"lower"} -> "lower"
      [] Range(cased) = {"upper"} -> "caps"
      [] cased[1] = "upper" /\ Range(Tail(cased)) = {"lower"} -> "title"
      [] OTHER -> "mixed"

(* A word without a cased letter has no shape.                             *)
ShapedIn(verse) ==
    LET shaped == Selected(verse, { u \in Range(verse) : Cased(u.letters) # <<>> }) IN
    [i \in DOMAIN shaped |-> <<shaped[i].word, ShapeOf(Cased(shaped[i].letters))>>]

(* A chapter: its words with their shapes, verse by verse.                 *)
MapShapes(chapter) == FlattenSeq([v \in DOMAIN chapter |-> ShapedIn(chapter[v])])

(* The words of its sites.                                                 *)
MixedIn(chapter) == SelectSeq(MapShapes(chapter), LAMBDA w : w[2] = "mixed")

FoldShapes(book) == Counted(FlattenSeq([c \in DOMAIN book |-> MapShapes(book[c])]))

ShapeDeltaMixed(old, new) ==     \* mutant: only the counts of the shape reported
    { entry[1] : entry \in { entry \in Moved(old, new) : entry[2] = "mixed" } }

(* The words whose counts the replacement moved.                           *)
ShapeDelta(old, new) == { entry[1] : entry \in Moved(old, new) }

Total(stats, word) == CopiesOf({word} \X {"lower", "title", "caps", "mixed"}, stats)

Silent == [other |-> 0, total |-> 0]

(* The score is a function of these two counts and the knobs.              *)
JudgeWord(stats, word) ==
    IF Tallied(<<word, "mixed">>, stats) = 0 THEN Silent
    ELSE [other |-> Tallied(<<word, "mixed">>, stats), total |-> Total(stats, word)]

(* What each site of a chapter is reported with.                           *)
ShapeFindings(stats, chapter) ==
    [i \in DOMAIN MixedIn(chapter) |-> JudgeWord(stats, MixedIn(chapter)[i][1])]

(* finish_mixed_case: a chapter is judged again when one of its sites names *)
(* a word the delta holds.                                                 *)
OwedBy(chapter, words) == \E site \in Range(MixedIn(chapter)) : site[1] \in words
==============================================================================
