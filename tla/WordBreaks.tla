------------------------------ MODULE WordBreaks ------------------------------
(***************************************************************************)
(* Words: the hand-rolled walker over atoms, the library's segmentation it *)
(* stands in for, and the two gates that choose between them, for a verse  *)
(* and for a book.                                                         *)
(*                                                                         *)
(* A scalar is [cat, is]: its word-break category and what it is of        *)
(* "absorbed" (Extend, Format, ZWJ), "complex", "newline", "alnum" and     *)
(* "ascii".  A token is the pair of its first and its last position.       *)
(***************************************************************************)
EXTENDS Tallies, FiniteSets

IsAbsorbed(s) == "absorbed" \in s.is

AH == {"ALetter", "HebrewLetter"}

MidNumLetQ == {"MidNumLet", "SingleQuote"}

Hebrew == {"HebrewLetter"}

Numeric == {"Numeric"}

(***************************************************************************)
(* The walker.                                                             *)
(***************************************************************************)
DefersOnComplex(text) ==      \* mutant: a mark the text begins with starts the first word
    \E i \in DOMAIN text : "complex" \in text[i].is

(* A text it does not take: a complex scalar, or nothing to absorb into.   *)
Defers(text) ==
    \/ \E i \in DOMAIN text : "complex" \in text[i].is
    \/ text # <<>> /\ IsAbsorbed(text[1])

BuildAtoms(text) ==
    LET IsAtom(i) == ~ IsAbsorbed(text[i])
        at == SelectSeq([i \in DOMAIN text |-> i], IsAtom) IN
    [n \in DOMAIN at |->
        [start |-> at[n], cat |-> text[at[n]].cat,
         extended |-> at[n] < Len(text) /\ IsAbsorbed(text[at[n] + 1])]]

CatAt(atoms, n) == IF n \in DOMAIN atoms THEN atoms[n].cat ELSE "none"

SpacesJoin(atoms, i) ==
    /\ ~ atoms[i].extended
    /\ CatAt(atoms, i) = "WSegSpace" /\ CatAt(atoms, i + 1) = "WSegSpace"

LettersJoin(prev, cur, next, next2) ==
    \/ cur \in AH /\ next \in AH
    \/ cur \in AH /\ next \in {"MidLetter"} \cup MidNumLetQ /\ next2 \in AH
    \/ cur \in {"MidLetter"} \cup MidNumLetQ /\ next \in AH /\ prev \in AH
    \/ cur \in Hebrew /\ next = "SingleQuote"
    \/ cur \in Hebrew /\ next = "DoubleQuote" /\ next2 \in Hebrew
    \/ cur = "DoubleQuote" /\ next \in Hebrew /\ prev \in Hebrew

NumbersJoin(prev, cur, next, next2) ==
    \/ cur \in Numeric /\ next \in Numeric
    \/ cur \in AH /\ next \in Numeric
    \/ cur \in Numeric /\ next \in AH
    \/ cur \in {"MidNum"} \cup MidNumLetQ /\ next \in Numeric /\ prev \in Numeric
    \/ cur \in Numeric /\ next \in {"MidNum"} \cup MidNumLetQ /\ next2 \in Numeric

ConnectorsJoin(cur, next) ==
    \/ cur = "Katakana" /\ next = "Katakana"
    \/ cur \in AH \cup Numeric \cup {"Katakana", "ExtendNumLet"} /\ next = "ExtendNumLet"
    \/ cur = "ExtendNumLet" /\ next \in AH \cup Numeric \cup {"Katakana"}

NoBreak(atoms, i) ==
    LET prev == CatAt(atoms, i - 1)
        cur == CatAt(atoms, i)
        next == CatAt(atoms, i + 1)
        next2 == CatAt(atoms, i + 2) IN
    \/ SpacesJoin(atoms, i)
    \/ LettersJoin(prev, cur, next, next2)
    \/ NumbersJoin(prev, cur, next, next2)
    \/ ConnectorsJoin(cur, next)

(* The first positions of segments, and the one past the text.             *)
WordBoundaries(text) ==
    LET atoms == BuildAtoms(text) IN
    {1, Len(text) + 1}
    \cup { atoms[i + 1].start : i \in { i \in 1 .. Len(atoms) - 1 : ~ NoBreak(atoms, i) } }

(* The segments that hold a letter or a digit.                             *)
AlnumTokens(text, boundaries) ==
    LET segments == { t \in boundaries \X { k - 1 : k \in boundaries } :
                        t[1] <= t[2] /\ (t[1] + 1 .. t[2]) \cap boundaries = {} }
        words == { t \in segments : \E i \in t[1] .. t[2] : "alnum" \in text[i].is } IN
    SetToSortSeq(words, LAMBDA s, t : s[1] < t[1])

(***************************************************************************)
(* The library: the rules of UAX #29 over scalars.  Categories before and  *)
(* after a position ignore what was absorbed; two spaces join only side by *)
(* side.  A rule is the categories it asks for before the last scalar, of  *)
(* it, of the next one and after that.                                     *)
(***************************************************************************)
Whatever == {"ALetter", "HebrewLetter", "Katakana", "Numeric", "ExtendNumLet", "MidLetter", "MidNum",
             "MidNumLet", "SingleQuote", "DoubleQuote", "WSegSpace", "Other", "Extend", "none"}

InWord == {"MidLetter", "MidNumLet", "SingleQuote"}

InNumber == {"MidNum", "MidNumLet", "SingleQuote"}

Letters == {"ALetter", "HebrewLetter"}

LibraryRules ==
    { <<Whatever, Letters, Letters, Whatever>>,                              \* WB5
      <<Whatever, Letters, InWord, Letters>>,                                \* WB6
      <<Letters, InWord, Letters, Whatever>>,                                \* WB7
      <<Whatever, {"HebrewLetter"}, {"SingleQuote"}, Whatever>>,             \* WB7a
      <<Whatever, {"HebrewLetter"}, {"DoubleQuote"}, {"HebrewLetter"}>>,     \* WB7b
      <<{"HebrewLetter"}, {"DoubleQuote"}, {"HebrewLetter"}, Whatever>>,     \* WB7c
      <<Whatever, {"Numeric"}, {"Numeric"}, Whatever>>,                      \* WB8
      <<Whatever, Letters, {"Numeric"}, Whatever>>,                          \* WB9
      <<Whatever, {"Numeric"}, Letters, Whatever>>,                          \* WB10
      <<{"Numeric"}, InNumber, {"Numeric"}, Whatever>>,                      \* WB11
      <<Whatever, {"Numeric"}, InNumber, {"Numeric"}>>,                      \* WB12
      <<Whatever, {"Katakana"}, {"Katakana"}, Whatever>>,                    \* WB13
      <<Whatever, Letters \cup {"Numeric", "Katakana", "ExtendNumLet"},
                  {"ExtendNumLet"}, Whatever>>,                              \* WB13a
      <<Whatever, {"ExtendNumLet"}, Letters \cup {"Numeric", "Katakana"}, Whatever>> }   \* WB13b

IsNewline(s) == "newline" \in s.is

(* The scalar whose category stands for position i.                        *)
Carrier(text, i) ==
    Max({ k \in 1 .. i : k = 1 \/ ~ IsAbsorbed(text[k]) \/ IsNewline(text[k - 1]) })

CategoryBefore(text, i) == IF i = 0 THEN "none" ELSE text[Carrier(text, i)].cat

CategoryFrom(text, i) ==
    LET shown == { k \in i .. Len(text) : ~ IsAbsorbed(text[k]) } IN
    IF shown = {} THEN "none" ELSE text[Min(shown)].cat

Context(text, i) ==
    <<CategoryBefore(text, Carrier(text, i) - 1), CategoryBefore(text, i),
      text[i + 1].cat, CategoryFrom(text, i + 2)>>

JoinsAt(text, i) ==
    /\ ~ IsNewline(text[i]) /\ ~ IsNewline(text[i + 1])
    /\ \/ IsAbsorbed(text[i + 1])                                               \* WB4
       \/ text[i].cat = "WSegSpace" /\ text[i + 1].cat = "WSegSpace"             \* WB3d
       \/ \E around \in {Context(text, i)} : \E rule \in LibraryRules :
              \A n \in 1 .. 4 : around[n] \in rule[n]

LibraryBoundaries(text) ==
    {1, Len(text) + 1} \cup { i + 1 : i \in { i \in 1 .. Len(text) - 1 : ~ JoinsAt(text, i) } }

TokenizeOracle(text) == AlnumTokens(text, LibraryBoundaries(text))

(***************************************************************************)
(* The two gates.                                                          *)
(***************************************************************************)
TokenizeHandRolled(text) ==
    IF Defers(text) THEN TokenizeOracle(text) ELSE AlnumTokens(text, WordBoundaries(text))

IsAscii(text) == \A i \in DOMAIN text : "ascii" \in text[i].is

TokenizeInto(text) == IF IsAscii(text) THEN TokenizeOracle(text) ELSE TokenizeHandRolled(text)

(* A book's walk decides once, by its first five verses.                   *)
BookPrefersDelegation(texts) ==
    LET sample == FlattenSeq(SubSeq(texts, 1, Min({5, Len(texts)})))
        foreign == { i \in DOMAIN sample : "ascii" \notin sample[i].is } IN
    Len(sample) = 0 \/ 100 * Cardinality(foreign) < 30 * Len(sample)

BookTokens(texts) ==
    [v \in DOMAIN texts |->
        IF BookPrefersDelegation(texts) THEN TokenizeOracle(texts[v])
        ELSE TokenizeHandRolled(texts[v])]
==============================================================================
