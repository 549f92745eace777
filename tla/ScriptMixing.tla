----------------------------- MODULE ScriptMixing -----------------------------
(***************************************************************************)
(* Words that mix writing systems.  A token is the set of scripts of its   *)
(* characters; two or more make a signature, judged against the tokens of  *)
(* its dominant script and against the books that have it.                 *)
(***************************************************************************)
EXTENDS Tallies, FiniteSets

IsMixed(scripts) == Cardinality(scripts) >= 2

(* Map: nothing crosses a token, so reduction is the identity.             *)
MapTokens(tokens) ==
    [scripts |-> SumOf([i \in DOMAIN tokens |-> SetToBag(tokens[i])]),
     signatures |-> Counted(Selected(tokens, { t \in Range(tokens) : IsMixed(t) }))]

MapScripts(chapter) == MapTokens(FlattenSeq(chapter))

MixedSites(chapter) ==
    UNION { { [at |-> <<v, i>>, key |-> chapter[v][i]] :
                i \in { i \in DOMAIN chapter[v] : IsMixed(chapter[v][i]) } } : v \in DOMAIN chapter }

FoldMapped(mapped) ==
    [scripts |-> SumOf([c \in DOMAIN mapped |-> mapped[c].scripts]),
     signatures |-> SumOf([c \in DOMAIN mapped |-> mapped[c].signatures])]

FoldScripts(book) == FoldMapped([c \in DOMAIN book |-> MapScripts(book[c])])

(***************************************************************************)
(* The corpus aggregate: breadth is the books a signature is in.           *)
(***************************************************************************)
NoScripts == [books |-> {}, signatures |-> EmptyBag, breadth |-> EmptyBag, scripts |-> EmptyBag]

ReplaceScripts(stats, slug, present, old, new) ==
    LET In(addend) == Times(1, DOMAIN addend.signatures) IN
    [books |-> IF present THEN stats.books \cup {slug} ELSE stats.books \ {slug},
     signatures |-> Replaced(stats.signatures, old.signatures, new.signatures),
     breadth |-> Replaced(stats.breadth, In(old), In(new)),
     scripts |-> Replaced(stats.scripts, old.scripts, new.scripts)]

ScriptDeltaOwn(stats, next, old, new) ==  \* mutant: a denominator that moved is forgotten
    IF Cardinality(stats.books) # Cardinality(next.books) THEN DOMAIN next.signatures
    ELSE Moved(old.signatures, new.signatures)

(* The signatures whose inputs moved: all of them when the book count did, *)
(* else the book's own and those that name a script whose count did.       *)
ScriptDelta(stats, next, old, new) ==
    LET scripts == Moved(old.scripts, new.scripts) IN
    IF Cardinality(stats.books) # Cardinality(next.books) THEN DOMAIN next.signatures
    ELSE Moved(old.signatures, new.signatures)
            \cup { sig \in DOMAIN next.signatures : sig \cap scripts # {} }

(* What a signature is judged on; a score is a function of it and knobs.   *)
ScriptEvidence(stats, sig) ==
    [k |-> Tallied(sig, stats.signatures),
     n |-> Max({ Tallied(s, stats.scripts) : s \in sig }),
     books |-> Tallied(sig, stats.breadth), corpus |-> Cardinality(stats.books)]
==============================================================================
