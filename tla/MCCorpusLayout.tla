---------------------------- MODULE MCCorpusLayout ----------------------------
(***************************************************************************)
(* Instance of CorpusLayout for TLC: three books of up to two chapters,    *)
(* with inputs of every kind the mutations must refuse.                    *)
(***************************************************************************)
EXTENDS CorpusLayout

CONSTANTS x, y

KeyOf(b, c) == [book |-> b, chapter |-> c]

Repeat(v, n) == [i \in 1 .. n |-> v]

(* Whole corpora, accepted and not: every sequence of two books and two    *)
(* chapters that reopens one, or not, a book at and past its ceiling, a    *)
(* corpus past its own, an unparsed key and unmatched lengths.             *)
MCCorpora ==
    LET candidates ==
            { << >>, <<Malformed>>, Repeat(KeyOf("A", "1"), MaxBook),
              Repeat(KeyOf("A", "1"), MaxBook + 1),
              Repeat(KeyOf("A", "1"), MaxBook) \o Repeat(KeyOf("B", "1"), MaxBook) }
            \cup { <<KeyOf("B", "2"), KeyOf(b, c), KeyOf(b, d)>> :
                        b \in {"A", "B"}, c \in {"1", "2"}, d \in {"1", "2"} }
            \cup { <<KeyOf("A", "1"), KeyOf("B", "1"), KeyOf("A", "1")>> }
    IN { [keys |-> ks, texts |-> Repeat(x, Len(ks))] : ks \in candidates }
       \cup { [keys |-> << >>, texts |-> <<x>>] }

Block(s, chapters, ts) ==
    [slug |-> s, keys |-> [i \in DOMAIN chapters |-> KeyOf(s, chapters[i])], texts |-> ts]

GoodBlocks ==
    { Block(s, <<"1">>, <<t>>) : s \in {"A", "B", "C"}, t \in {x, y} }
    \cup { Block(s, <<"2", "1", "1">>, <<x, x, y>>) : s \in {"A", "B"} }

BadBlocks ==
    { Block("A", << >>, << >>), Block("A", <<"1">>, <<x, y>>),
      Block("A", <<"1", "2", "1">>, <<x, x, x>>),
      Block("A", Repeat("1", MaxBook + 1), Repeat(x, MaxBook + 1)),
      [slug |-> "A", keys |-> <<Malformed>>, texts |-> <<x>>],
      [slug |-> "A", keys |-> <<KeyOf("B", "1")>>, texts |-> <<x>>] }

(* Single blocks, and batches of two: both new, both held, one of each,    *)
(* one refused, one slug twice.                                            *)
MCBatches ==
    { <<b>> : b \in GoodBlocks \cup BadBlocks }
    \cup { <<Block("B", <<"1">>, <<y>>), a>> : a \in BadBlocks \cup
                { g \in GoodBlocks : g.texts # <<x>> } }

MCRuns ==
    { [slug |-> s, chapter |-> "1", keys |-> Repeat(KeyOf(s, "1"), Len(ts)), texts |-> ts] :
        s \in {"A", "B", "C"}, ts \in { << >>, <<x>>, <<y>>, <<y, x>> } }
    \cup { [slug |-> "A", chapter |-> "2", keys |-> <<KeyOf(s, c)>>, texts |-> <<y>>] :
              s \in {"A", "B"}, c \in {"1", "2"} }
    \cup { [slug |-> "A", chapter |-> "1", keys |-> <<Malformed>>, texts |-> <<y>>] }

MCSlugs == {"A", "B", "C"}

MCChapters == {"1", "2"}
==============================================================================
