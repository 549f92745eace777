--------------------------- MODULE GraphemeClusters ---------------------------
(***************************************************************************)
(* Grapheme clusters: a simple base owns itself and its trailing           *)
(* extenders, conjuncts are joined inline, and a cluster that begins with  *)
(* a complex scalar is the library's.                                      *)
(*                                                                         *)
(* A scalar is a set of properties, of "complex", "extender", "linker",    *)
(* "incb" (a mark that may stand within a conjunct), "consonant", and of   *)
(* what only the library tells apart: "zwj", "control", "prepend",         *)
(* "regional", "pictographic".  A cluster is the pair of its first and its *)
(* last position.                                                          *)
(***************************************************************************)
EXTENDS Tallies, FiniteSets

(***************************************************************************)
(* The library: the rules of UAX #29.                                      *)
(***************************************************************************)
(* A linker between two consonants, and nothing that voids a conjunct.     *)
IsConjunct(text, i) ==
    /\ "consonant" \in text[i + 1]
    /\ \E k \in 1 .. i :
          /\ "consonant" \in text[k]
          /\ \A n \in k + 1 .. i : "incb" \in text[n]
          /\ \E n \in k + 1 .. i : "linker" \in text[n]

IsEmojiSequence(text, i) ==
    /\ "pictographic" \in text[i + 1] /\ "zwj" \in text[i]
    /\ \E k \in 1 .. i - 1 :
          "pictographic" \in text[k] /\ \A n \in k + 1 .. i - 1 : "extender" \in text[n]

(* A flag is two regional indicators; a third begins another.              *)
IsFlag(text, i) ==
    LET others == { k \in 1 .. i : "regional" \notin text[k] } IN
    /\ "regional" \in text[i] /\ "regional" \in text[i + 1]
    /\ (i - Max(others \cup {0})) % 2 = 1

Joins(text, i) ==
    /\ "control" \notin text[i] /\ "control" \notin text[i + 1]
    /\ \/ "extender" \in text[i + 1]
       \/ "prepend" \in text[i]
       \/ IsConjunct(text, i)
       \/ IsEmojiSequence(text, i)
       \/ IsFlag(text, i)

(* The end of the first cluster of the text that begins at a position.     *)
LibraryEnd(text, i) ==
    LET rest == SubSeq(text, i, Len(text)) IN
    i - 1 + Min({ k \in DOMAIN rest : k = Len(rest) \/ ~ Joins(rest, k) })

LibraryClusters(text) ==
    LET ends == { k \in DOMAIN text : k = Len(text) \/ ~ Joins(text, k) } IN
    SetToSortSeq({ <<Max({ k \in ends : k < e } \cup {0}) + 1, e>> : e \in ends },
                 LAMBDA s, t : s[1] < t[1])

(***************************************************************************)
(* The walk.                                                               *)
(***************************************************************************)
Base == [on |-> TRUE, seen_linker |-> FALSE, gap_all_incb |-> TRUE]

WithExtender(r, s) ==
    [r EXCEPT !.seen_linker = @ \/ "linker" \in s, !.gap_all_incb = @ /\ "incb" \in s]

Continues(r, base, s) ==
    "consonant" \in base /\ "consonant" \in s /\ r.seen_linker /\ r.gap_all_incb

TakenArmed(r, base, s) ==      \* mutant: a linker joins every consonant after it
    IF ~ r.on \/ "complex" \in s THEN [r EXCEPT !.on = FALSE]
    ELSE IF "extender" \in s THEN WithExtender(r, s)
    ELSE IF Continues(r, base, s) THEN r
    ELSE [r EXCEPT !.on = FALSE]

(* One scalar after the base: it is taken into the cluster or ends it.     *)
Taken(r, base, s) ==
    IF ~ r.on \/ "complex" \in s THEN [r EXCEPT !.on = FALSE]
    ELSE IF "extender" \in s THEN WithExtender(r, s)
    ELSE IF Continues(r, base, s) THEN Base
    ELSE [r EXCEPT !.on = FALSE]

SimpleEnd(text, i) ==
    LET walk[j \in i .. Len(text)] ==
            IF j = i THEN Base
            ELSE Only({ Taken(r, text[i], text[j]) : r \in {walk[j - 1]} }) IN
    Max({ j \in i .. Len(text) : walk[j].on })

ClusterEnd(text, i) ==
    IF "complex" \in text[i] THEN LibraryEnd(text, i) ELSE SimpleEnd(text, i)

Segment(text) ==
    LET from[i \in 1 .. Len(text) + 1] ==
            IF i > Len(text) THEN <<>>
            ELSE Only({ <<<<i, e>>>> \o from[e + 1] : e \in {ClusterEnd(text, i)} })
    IN from[1]
==============================================================================
