------------------------------ MODULE NormalForms ------------------------------
(***************************************************************************)
(* One canonical grapheme written in more than one raw form.  There is one *)
(* key, one verdict and at most one finding for the whole corpus, at the   *)
(* first occurrence of a form that is not its grapheme's usual one.        *)
(*                                                                         *)
(* Counting needs no order and belongs to the judge; the anchor needs the  *)
(* current layout's order and is resolved when the finding is built.       *)
(***************************************************************************)
EXTENDS Tallies, FiniteSets

(* nfc_key.                                                                *)
Nfc == ("e acute" :> "E'") @@ ("e + acute" :> "E'")
       @@ ("a ring" :> "A") @@ ("a + ring" :> "A") @@ ("angstrom" :> "A")

(***************************************************************************)
(* Map: a chapter's distinct raw forms with their first sites.             *)
(***************************************************************************)
WithForm(rows, raw, at) ==
    IF raw \in DOMAIN rows THEN [rows EXCEPT ![raw].count = @ + 1]
    ELSE [r \in (DOMAIN rows) \cup {raw} |->
              IF r = raw THEN [count |-> 1, first |-> at] ELSE rows[r]]

FormsAt(chapter, at) ==
    LET rows[n \in 0 .. Len(at)] ==
            IF n = 0 THEN <<>>
            ELSE Only({ WithForm(r, chapter[at[n][1]][at[n][2]], at[n]) : r \in {rows[n - 1]} })
    IN rows[Len(at)]

MapForms(chapter) == FormsAt(chapter, PlacesOf(chapter))

CountsOf(rows) == [raw \in DOMAIN rows |-> rows[raw].count]

FoldForms(book) ==
    LET perRaw == SumOf([c \in DOMAIN book |-> CountsOf(MapForms(book[c]))]) IN
    [k \in { <<Nfc[raw], raw>> : raw \in DOMAIN perRaw } |-> perRaw[k[2]]]

NoForms == EmptyBag

ReplaceForms(counts, old, new) == Replaced(counts, old, new)

FormDelta(old, new) == IF Moved(old, new) = {} THEN {} ELSE {"corpus"}

(***************************************************************************)
(* Judge: the order-free half.                                             *)
(***************************************************************************)
MixedKeys(counts) ==
    { key \in { k[1] : k \in DOMAIN counts } :
        Cardinality({ k \in DOMAIN counts : k[1] = key }) >= 2 }

Minority(counts, key) ==
    LET forms == { k \in DOMAIN counts : k[1] = key } IN
    CopiesOf(forms, counts) - Max({ counts[k] : k \in forms })

JudgeForms(counts) ==
    [mixed |-> MixedKeys(counts) # {},
     affected |-> BagCardinality([key \in MixedKeys(counts) |-> Minority(counts, key)])]

(***************************************************************************)
(* materialize_corpus: the anchor, in the layout's order.                  *)
(***************************************************************************)
Before(a, b) ==
    \E i \in DOMAIN a : a[i] < b[i] /\ \A j \in 1 .. i - 1 : a[j] = b[j]

First(places) == CHOOSE a \in places : \A b \in places \ {a} : Before(a, b)

(* Books and chapters in order, so the first write is the earliest site.   *)
WithRows(merged, rows, chapter) ==
    [raw \in (DOMAIN merged) \cup DOMAIN rows |->
        IF raw \notin DOMAIN merged
        THEN [count |-> rows[raw].count, first |-> chapter \o rows[raw].first]
        ELSE IF raw \notin DOMAIN rows THEN merged[raw]
        ELSE [merged[raw] EXCEPT !.count = @ + rows[raw].count]]

MergedOver(corpus, chapters) ==
    LET merged[n \in 0 .. Len(chapters)] ==
            IF n = 0 THEN <<>>
            ELSE Only({ WithRows(m, rows, chapters[n]) :
                            m \in {merged[n - 1]},
                            rows \in {MapForms(corpus[chapters[n][1]][chapters[n][2]])} })
    IN merged[Len(chapters)]

Merged(corpus) == MergedOver(corpus, PlacesOf(corpus))

MajorityLate(merged, key) ==  \* mutant: a tie goes to the form seen last
    CHOOSE raw \in { r \in DOMAIN merged : Nfc[r] = key } :
        \A r \in { r \in DOMAIN merged : Nfc[r] = key } \ {raw} :
            \/ merged[r].count < merged[raw].count
            \/ /\ merged[r].count = merged[raw].count
               /\ Before(merged[r].first, merged[raw].first)

(* The commonest form of a key, the earliest of them on a tie.             *)
Majority(merged, key) ==
    CHOOSE raw \in { r \in DOMAIN merged : Nfc[r] = key } :
        \A r \in { r \in DOMAIN merged : Nfc[r] = key } \ {raw} :
            \/ merged[r].count < merged[raw].count
            \/ /\ merged[r].count = merged[raw].count
               /\ Before(merged[raw].first, merged[r].first)

NoFinding == [affected |-> 0]

Anchor(merged) ==
    LET mixed == { raw \in DOMAIN merged :
                     \E r \in DOMAIN merged : r # raw /\ Nfc[r] = Nfc[raw] } IN
    First({ merged[raw].first : raw \in { r \in mixed : r # Majority(merged, Nfc[r]) } })

OutcomeFinding(outcome, merged) ==
    IF outcome.mixed THEN [affected |-> outcome.affected, at |-> Anchor(merged)]
    ELSE NoFinding

NormalFinding(corpus, counts) == OutcomeFinding(JudgeForms(counts), Merged(corpus))
==============================================================================
