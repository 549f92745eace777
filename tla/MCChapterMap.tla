----------------------------- MODULE MCChapterMap -----------------------------
(***************************************************************************)
(* Instance of ChapterMap for TLC: a book of two chapters and one of a     *)
(* single chapter, two contents that share a word, two interning           *)
(* substrates that list their words in different orders.                   *)
(***************************************************************************)
EXTENDS ChapterMap

CONSTANTS x, y

MCLayout == <<"a1", "a2", "b1">>

MCBookOf(c) == IF c = "b1" THEN "B" ELSE "A"

(* The corpora: two books, an edited chapter, a chapter gone from a book,  *)
(* and a book gone.                                                        *)
Held(a1, a2, b1) == [c \in {"a1", "a2", "b1"} |->
    IF c = "a1" THEN a1 ELSE IF c = "a2" THEN a2 ELSE b1]

MCCorpora ==
    { Held(x, y, x), Held(y, y, x), Held(y, x, y), Held(x, Absent, y), Held(Absent, y, y),
      Held(x, y, Absent), Held(y, x, Absent), Held(Absent, Absent, y), Held(Absent, Absent, x) }

MCWords == <<"ant", "bee", "cow">>

MCParticipants == <<"mixed_case", "casing">>

MCKeysOf(p, content) ==
    IF p = "mixed_case"
    THEN IF content = x THEN <<"bee", "ant">> ELSE <<"cow", "bee">>
    ELSE IF content = x THEN <<"ant">> ELSE <<"bee", "cow">>

(* Every occurrence of "ant" is of a plain shape: counted, never judged.    *)
MCSitesOf(content) == IF content = x THEN {"bee"} ELSE {"cow", "bee"}
==============================================================================
