----------------------------- MODULE Collections -----------------------------
(***************************************************************************)
(* Sequences filtered by a set, and values that are computed once.         *)
(***************************************************************************)
EXTENDS Naturals, Sequences

(* The elements of a sequence that are in a set, in its order.             *)
Selected(s, S) ==
    LET kept[n \in 0 .. Len(s)] ==
            IF n = 0 THEN << >>
            ELSE IF s[n] \in S THEN Append(kept[n - 1], s[n]) ELSE kept[n - 1]
    IN kept[Len(s)]

(* The indices of a sequence that are in a set, in order.                  *)
IndicesIn(s, S) == Selected([i \in DOMAIN s |-> i], S)

(* The element of a singleton.  Only({F(x) : x \in {e}}) is F(e), with the  *)
(* value of e computed once however often F names its parameter.           *)
Only(S) == CHOOSE x \in S : TRUE

(* A function over a constant set.  To compare it with itself, TLC tables   *)
(* its values; it looks them up from then on.                              *)
Tabled(f) == CHOOSE table \in {f} : table = table
==============================================================================
