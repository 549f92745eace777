---------------------------- MODULE MCPublication ----------------------------
(***************************************************************************)
(* Instance of Publication for TLC: two books, one of which can be gone or *)
(* hold the same key twice; no reference, one that makes a rule fire in    *)
(* the first book, ahead of the target-only findings; a range past a       *)
(* surrogate pair, one past the widest offset; counts at and past the lane *)
(* and ratios below it, at it and past it, in quarters of a percent.       *)
(***************************************************************************)
EXTENDS Publication

MCBooks == <<"A", "B">>

Ascii == [bytes |-> 1, units |-> 1]

Accented == [bytes |-> 2, units |-> 1]

Astral == [bytes |-> 4, units |-> 2]

Span(from, to) == [start |-> from, end |-> to]

MCVerses ==
    [bad  |-> [text |-> <<Ascii, Astral, Accented>>, code |-> "target", range |-> Span(5, 7), score |-> 5,
               ratio |-> 8],
     rare |-> [text |-> <<Accented, Ascii>>, code |-> "rare", range |-> Span(0, 2), score |-> 8,
               ratio |-> 3],
     tab  |-> [text |-> <<Ascii>>, code |-> "bare", range |-> Span(0, 1), score |-> NoScore,
               ratio |-> 10],
     long |-> [text |-> <<Astral, Astral, Ascii>>, code |-> "target", range |-> Span(8, 9), score |-> 8,
               ratio |-> 0]]

Target(a, b) == [slug \in {"A", "B"} |-> IF slug = "A" THEN a ELSE b]

MCHolding ==
    [one   |-> Target(<<"bad">>, << >>),
     two   |-> Target(<<"bad">>, <<"bad">>),
     twins |-> Target(<<"bad", "tab", "bad", "rare">>, <<"rare">>),
     long  |-> Target(<<"bad">>, <<"long">>)]

MCTargets == DOMAIN MCHolding

MCReferences == { {"A"} }
==============================================================================
