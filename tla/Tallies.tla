------------------------------- MODULE Tallies -------------------------------
(***************************************************************************)
(* Corpus tallies kept across book replacement.  A tally is a bag: a key   *)
(* whose count falls to zero is dropped, so that absent and zero are one   *)
(* state.                                                                  *)
(***************************************************************************)
EXTENDS Integers, Sequences, Bags, SequencesExt, Collections

(* How often a key is tallied: not at all where it is absent.              *)
Tallied(k, tally) == IF k \in DOMAIN tally THEN tally[k] ELSE 0

(* merge_join: the keys on which a book's two addends differ.              *)
Moved(old, new) ==
    { k \in (DOMAIN old) \cup (DOMAIN new) : Tallied(k, old) # Tallied(k, new) }

(* Subtract the old addend and add the new one, on the moved keys only.    *)
Replaced(total, old, new) ==
    LET moved == Moved(old, new)
        Count(k) == IF k \in moved THEN Tallied(k, total) + Tallied(k, new) - Tallied(k, old)
                    ELSE Tallied(k, total) IN
    [k \in { k \in (DOMAIN total) \cup moved : Count(k) # 0 } |-> Count(k)]

SumOf(bags) ==
    LET sum[n \in 0 .. Len(bags)] == IF n = 0 THEN EmptyBag ELSE sum[n - 1] (+) bags[n]
    IN sum[Len(bags)]

(* How many copies of the keys S a tally holds.                            *)
CopiesOf(S, tally) == BagCardinality([k \in S \cap DOMAIN tally |-> tally[k]])

TotalOf(numbers) ==
    LET total[n \in 0 .. Len(numbers)] == IF n = 0 THEN 0 ELSE total[n - 1] + numbers[n]
    IN total[Len(numbers)]

(* The index pairs of a sequence of sequences, in order: a chapter's units *)
(* by verse, a corpus's chapters by book.                                  *)
PlacesOf(seqs) ==
    FlattenSeq([v \in DOMAIN seqs |-> [i \in DOMAIN seqs[v] |-> <<v, i>>]])

Counted(seq) == [e \in Range(seq) |-> Cardinality({ i \in DOMAIN seq : seq[i] = e })]

Times(n, S) == [k \in S |-> n]
==============================================================================
