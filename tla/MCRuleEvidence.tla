---------------------------- MODULE MCRuleEvidence ----------------------------
(***************************************************************************)
(* An instance of RuleEvidence for TLC.  Sizes let a sentence, a bracket   *)
(* and a doubled word cross two breaks, and a letter pass the cap in one   *)
(* book of two.                                                            *)
(***************************************************************************)
EXTENDS RuleEvidence

MCRules ==
    {"casing", "brackets", "runs", "scripts", "forms", "glyphs", "nonletters", "shapes", "lengths", "words",
     "scans", "spacing", "tokens", "clusters"}

JustGlyphs == {"glyphs"}

Bracket(g) == [glyph |-> g]

MCSupport == [exposure |-> 2, pool |-> 1, leads |-> 1, runs |-> 1]

Token(word, shape, size) == [kind |-> "token", word |-> word, shape |-> shape, size |-> size]

RefVerse(name, text) == [name |-> name, text |-> text]

(* Chapter 2 before chapter 1, verse 1 of which is there twice.            *)
MCReference ==
    << << [token |-> 2, verses |-> << RefVerse("1", <<Token("in", "lower", 1), Token("ox", "lower", 1)>>) >>],
          [token |-> 1, verses |->
              << RefVerse("2", <<Token("ox", "lower", 3)>>),
                 RefVerse("1", <<Token("in", "lower", 3), Token("ox", "title", 3)>>),
                 RefVerse("1", <<Token("go", "lower", 1)>>) >>] >>,
       << [token |-> 1, verses |-> << RefVerse("1", <<Token("in", "title", 1)>>),
                                      RefVerse("2", << >>) >>] >> >>

MCVerseNames == <<"1", "2", "1", "1", "2", "3", "3", "3">>

MCLengthKnobs == [verses |-> 2, side |-> 2, long |-> 1, short |-> 1]

MCWordKnobs == [gate |-> 90, recurrence |-> 4000, bonus |-> 50, score |-> 25]

Inflected(word, letters) == [word |-> word, letters |-> letters]

Scalar(ch, is) == [ch |-> ch, is |-> is, system |-> 0]

Digit(ch, is, system) == [ch |-> ch, is |-> is \cup {"digit"}, system |-> system]

(* What is typed, and two pastes that bring a run to its length.           *)
MCScalars ==
    { Scalar("a", {"letter", "ascii"}), Scalar(" ", {"space"}), Scalar("tab", {"space", "control"}),
      Scalar("lf", {"space", "break", "control"}), Scalar("ls", {"space", "break"}),
      Scalar("bel", {"control"}), Scalar("?", {"punct", "terminal"}), Scalar("<", {"symbol"}),
      Scalar("=", {"symbol"}), Scalar(">", {"symbol"}), Scalar("\\", {"punct"}), Scalar("/", {"punct"}),
      Scalar("zwsp", {"format"}), Scalar("bom", {"format"}), Scalar("fffd", {"invalid", "symbol"}),
      Scalar("mark", {"mark"}), Digit("1", {"ascii"}, 1), Digit("2", {}, 2) }

MCTyped == { <<s>> : s \in MCScalars } \cup { <<s, s>> : s \in { s \in MCScalars : s.ch \in {"?", "="} } }

Breaking(cat, is) == [cat |-> cat, is |-> is]

AlephBreak == Breaking("HebrewLetter", {"alnum"})

LatinBreak == Breaking("ALetter", {"alnum", "ascii"})

MarkBreak == Breaking("Extend", {"absorbed"})

SpaceBreak == Breaking("WSegSpace", {"ascii"})

(* Every category, and pairs that reach over the marks between them.       *)
MCBreaking ==
    { <<s>> : s \in
        { AlephBreak, LatinBreak, MarkBreak, SpaceBreak, Breaking("Katakana", {"alnum"}),
          Breaking("Numeric", {"alnum", "ascii"}), Breaking("ExtendNumLet", {"ascii"}),
          Breaking("MidLetter", {"ascii"}), Breaking("MidNum", {"ascii"}), Breaking("MidNumLet", {"ascii"}),
          Breaking("SingleQuote", {"ascii"}), Breaking("DoubleQuote", {"ascii"}),
          Breaking("Other", {"alnum"}), Breaking("Other", {"ascii", "complex", "newline"}) } }
    \cup { <<LatinBreak, MarkBreak>>, <<AlephBreak, Breaking("DoubleQuote", {"ascii"})>>, <<SpaceBreak, MarkBreak>>,
           <<Breaking("Numeric", {"alnum", "ascii"}), Breaking("MidNum", {"ascii"})>> }

ConsonantTraits == {"consonant"}

LinkerTraits == {"extender", "linker", "incb"}

MCClustered ==
    { <<s>> : s \in
        { {}, ConsonantTraits, LinkerTraits, {"extender", "incb"}, {"extender"}, {"extender", "incb", "zwj"},
          {"complex", "control"}, {"complex", "prepend"}, {"complex", "regional"},
          {"complex", "pictographic"} } }
    \cup { <<ConsonantTraits, LinkerTraits>> }

MCAlphabet(r) ==
    CASE r = "casing" ->
            { Word("eli", "upper"), Word("in", "lower"), Word("yod", "uncased"),
              Letter, Mark("."), Quote("Q") }
      [] r = "brackets" -> { Bracket(g) : g \in DOMAIN FamilyOf }
      [] r = "runs" ->
            { Grapheme("a", "a", TRUE), Grapheme("A", "a", TRUE),
              Grapheme("i", "i", FALSE),
              [kind |-> "space", glyph |-> ""], [kind |-> "mark", glyph |-> ""] }
      [] r = "scripts" ->
            { {"Latn"}, {"Cyrl"}, {"Cyrl", "Latn"}, {"Grek", "Latn"} }
      [] r = "forms" -> DOMAIN Nfc
      [] r = "glyphs" ->
            { Spelled(<<"x", "a">>, "xa", "xa", FALSE, FALSE),
              Spelled(<<"X", "a">>, "xa", "xa", TRUE, FALSE),
              Spelled(<<"x", "b">>, "xb", "xb", FALSE, TRUE),
              Mark(".") }
      [] r = "shapes" ->
            { Inflected("ab", <<"lower", "lower">>), Inflected("ab", <<"upper", "lower">>),
              Inflected("ab", <<"lower", "upper">>), Inflected("abc", <<"upper", "lower", "upper">>),
              Inflected("yod", <<"caseless">>) }
      [] r = "lengths" -> { Token("a", "lower", 1) }
      [] r = "words" ->
            { Token("in", "lower", 1), Token("ox", "lower", 1), Token("ox", "title", 1),
              Token("no", "lower", 1), [kind |-> "mark", size |-> 1] }
      [] r = "scans" -> MCTyped
      [] r = "tokens" -> MCBreaking
      [] r = "clusters" -> MCClustered
      [] r = "spacing" ->
            { [glyph |-> "a", kind |-> "letter"], [glyph |-> "1", kind |-> "number"],
              [glyph |-> ".", kind |-> "mark"], [glyph |-> " ", kind |-> "space"] }
      [] r = "nonletters" ->
            { [glyph |-> "a", kind |-> "letter"], Gap, [glyph |-> "-", kind |-> "other"],
              [glyph |-> "1", kind |-> "digit"], [glyph |-> "2", kind |-> "digit"] }

MCBookCount(r) == IF r \in {"casing", "brackets", "runs", "scans", "spacing", "tokens", "clusters"}
                  THEN 1 ELSE 2

MCMaxSize(r) ==
    CASE r = "casing" -> 6
      [] r = "brackets" -> 6
      [] r = "runs" -> 6
      [] r = "scripts" -> 5
      [] r = "forms" -> 5
      [] r = "glyphs" -> 5
      [] r = "nonletters" -> 5
      [] r = "shapes" -> 4
      [] r = "lengths" -> 8
      [] r = "words" -> 5
      [] r \in {"scans", "tokens"} -> 4
      [] r = "clusters" -> 5
      [] r = "spacing" -> 6
==============================================================================
