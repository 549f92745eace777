---------------------------- MODULE DataInduction ----------------------------
(***************************************************************************)
(* Induction and recursion over an interval, as facts about sets.          *)
(*                                                                         *)
(* The library's induction theorems take a predicate as a parameter.  Here *)
(* a property of numbers is the set of the numbers that have it: a set     *)
(* that holds 0 and is closed under the successor holds them all, because  *)
(* the numbers it misses would have a least one.  From it a function       *)
(* defined by recursion has a value at every step, and what it computes    *)
(* can be proved of all inputs.  So for Selected and FlattenSeq, and for   *)
(* the sums of numbers and of tallies and what replaces an addend in them. *)
(* With them stand the facts about tallies, ranks, pairs of indices and    *)
(* places of a text that name nothing of the rules.                        *)
(***************************************************************************)
EXTENDS Tallies, SequenceTheorems, FiniteSetTheorems, WellFoundedInduction, TLAPS

(* A set of naturals that holds 0 and the successor of each of its members *)
(* holds them all.                                                         *)
LEMMA NatSet ==
    ASSUME NEW S, 0 \in S, \A n \in Nat : n \in S => n + 1 \in S
    PROVE  Nat \subseteq S
<1> SUFFICES ASSUME Nat \ S # {}
             PROVE  FALSE
  OBVIOUS
<1>1. PICK m \in Nat \ S : \A n \in Nat \ S : <<n, m>> \notin OpToRel(<, Nat)
  BY NatLessThanWellFounded, WFMin
<1>2. \A n \in Nat \ S : ~ (n < m)
  BY <1>1 DEF OpToRel
<1>3. m # 0 /\ m - 1 \in Nat /\ m - 1 < m
  OBVIOUS
<1>4. QED
  BY <1>2, <1>3

LEMMA UpTo ==
    ASSUME NEW m \in Nat, NEW S, 0 \in S, \A n \in 0 .. m - 1 : n \in S => n + 1 \in S
    PROVE  0 .. m \subseteq S
<1> DEFINE P == { n \in Nat : n <= m => n \in S }
<1>1. Nat \subseteq P
  <2>1. 0 \in P /\ \A n \in Nat : n \in P => n + 1 \in P
    OBVIOUS
  <2> HIDE DEF P
  <2>2. QED
    BY <2>1, NatSet
<1>2. QED
  BY <1>1

(* A run of m steps from a.                                                *)
IsRun(f, T, a, m, step) ==
    /\ f \in [0 .. m -> T]
    /\ f[0] = a
    /\ \A n \in 1 .. m : f[n] = step[f[n - 1], n]

(* A definition by recursion over 0 .. m has a solution.                   *)
LEMMA Recursion ==
    ASSUME NEW T, NEW a \in T, NEW m \in Nat, NEW step \in [T \X (1 .. m) -> T]
    PROVE  \E f : IsRun(f, T, a, m, step)
<1> DEFINE Solves(f, k) == /\ f \in [0 .. k -> T]
                           /\ f[0] = a
                           /\ \A n \in 1 .. k : f[n] = step[f[n - 1], n]
           P == { k \in 0 .. m : \E f : Solves(f, k) }
<1>1. 0 \in P
  <2> DEFINE f == [n \in 0 .. 0 |-> a]
  <2>1. f \in [0 .. 0 -> T] /\ f[0] = a
    OBVIOUS
  <2> HIDE DEF f
  <2>2. Solves(f, 0)
    BY <2>1
  <2> HIDE DEF Solves
  <2>3. QED
    BY <2>2
<1>2. ASSUME NEW k \in 0 .. m - 1, k \in P
      PROVE  k + 1 \in P
  <2>1. PICK f : Solves(f, k)
    BY <1>2
  <2> DEFINE next == step[f[k], k + 1]
             g == [n \in 0 .. k + 1 |-> IF n = k + 1 THEN next ELSE f[n]]
  <2>2. k \in Nat /\ 0 \in 0 .. k /\ k \in 0 .. k /\ f[k] \in T
    <3>1. k \in Nat /\ 0 \in 0 .. k /\ k \in 0 .. k
      OBVIOUS
    <3>2. f \in [0 .. k -> T]
      BY <2>1
    <3> HIDE DEF next, g
    <3>3. QED
      BY <3>1, <3>2
  <2>3. <<f[k], k + 1>> \in T \X (1 .. m)
    BY <2>2
  <2>4. next \in T
    BY <2>3
  <2>5. \A n \in 0 .. k : f[n] \in T
    BY <2>1
  <2>6. \A n \in 0 .. k + 1 : n = k + 1 \/ n \in 0 .. k
    OBVIOUS
  <2> HIDE DEF next
  <2>7. g \in [0 .. k + 1 -> T]
    BY <2>4, <2>5, <2>6
  <2>8. g[0] = a
    <3>1. f[0] = a
      BY <2>1
    <3> HIDE DEF next
    <3>2. 0 \in 0 .. k + 1 /\ 0 # k + 1
      BY <2>2
    <3>3. QED
      BY <3>1, <3>2
  <2>9. ASSUME NEW n \in 1 .. k + 1
        PROVE  g[n] = step[g[n - 1], n]
    <3>1. CASE n = k + 1
      <4>1. g[n] = next /\ n - 1 = k /\ g[k] = f[k]
        BY <3>1
      <4>2. QED
        BY <3>1, <4>1 DEF next
    <3>2. CASE n \in 1 .. k
      <4>1. g[n] = f[n] /\ g[n - 1] = f[n - 1]
        BY <3>2
      <4>2. f[n] = step[f[n - 1], n]
        BY <2>1, <3>2
      <4>3. QED
        BY <4>1, <4>2
    <3>3. n = k + 1 \/ n \in 1 .. k
      OBVIOUS
    <3>4. QED
      BY <3>1, <3>2, <3>3
  <2> HIDE DEF g
  <2>10. Solves(g, k + 1)
    BY <2>7, <2>8, <2>9
  <2> HIDE DEF Solves
  <2>11. QED
    BY <2>10
<1>3. m \in P
  <2> HIDE DEF P
  <2>1. 0 .. m \subseteq P
    BY <1>1, <1>2, UpTo
  <2>2. QED
    BY <2>1
<1>4. QED
  BY <1>3 DEF IsRun

(***************************************************************************)
(* Selected: the elements it keeps.                                        *)
(***************************************************************************)
(* Its recursion, step by step.                                            *)
IsSelection(kept, T, s, S) ==
    /\ kept \in [0 .. Len(s) -> Seq(T)]
    /\ kept[0] = << >>
    /\ \A n \in 1 .. Len(s) : s[n] \in S => kept[n] = Append(kept[n - 1], s[n])
    /\ \A n \in 1 .. Len(s) : s[n] \notin S => kept[n] = kept[n - 1]
    /\ Selected(s, S) = kept[Len(s)]

LEMMA SelectedSteps ==
    ASSUME NEW T, NEW s \in Seq(T), NEW S
    PROVE  \E kept : IsSelection(kept, T, s, S)
<1> DEFINE m == Len(s)
           Body(f) == [n \in 0 .. m |-> IF n = 0 THEN << >>
                                        ELSE IF s[n] \in S THEN Append(f[n - 1], s[n])
                                        ELSE f[n - 1]]
           kept == CHOOSE f : f = Body(f)
           step == [e \in Seq(T) \X (1 .. m) |->
                       IF s[e[2]] \in S THEN Append(e[1], s[e[2]]) ELSE e[1]]
<1>1. m \in Nat /\ \A n \in 1 .. m : s[n] \in T
  OBVIOUS
<1>2. Selected(s, S) = kept[m]
  BY DEF Selected
<1>3. step \in [Seq(T) \X (1 .. m) -> Seq(T)]
  BY <1>1
<1>4. PICK g \in [0 .. m -> Seq(T)] : g[0] = << >> /\ \A n \in 1 .. m : g[n] = step[g[n - 1], n]
  <2> DEFINE U == Seq(T)
             empty == << >>
  <2>1. empty \in U /\ step \in [U \X (1 .. m) -> U] /\ m \in Nat
    BY <1>1, <1>3
  <2> HIDE DEF step, m, U, empty
  <2>2. \E g : IsRun(g, U, empty, m, step)
    BY <2>1, Recursion
  <2>3. QED
    BY <2>2 DEF U, empty, IsRun
<1>5. g = Body(g)
  <2>1. ASSUME NEW n \in 1 .. m
        PROVE  g[n] = IF s[n] \in S THEN Append(g[n - 1], s[n]) ELSE g[n - 1]
    <3>1. g[n - 1] \in Seq(T)
      BY <1>1
    <3>2. <<g[n - 1], n>> \in Seq(T) \X (1 .. m)
      BY <3>1
    <3>3. step[g[n - 1], n] = IF s[n] \in S THEN Append(g[n - 1], s[n]) ELSE g[n - 1]
      BY <3>2
    <3>4. QED
      BY <1>4, <3>3
  <2> HIDE DEF step, m
  <2>2. \A n \in 0 .. m : n = 0 \/ n \in 1 .. m
    BY <1>1
  <2>3. \A n \in 0 .. m : g[n] = Body(g)[n]
    BY <1>4, <2>1, <2>2
  <2>4. g = [n \in 0 .. m |-> g[n]]
    OBVIOUS
  <2>5. Body(g) = [n \in 0 .. m |-> Body(g)[n]]
    OBVIOUS
  <2> HIDE DEF Body
  <2>6. QED
    BY <2>3, <2>4, <2>5
<1>6. kept = Body(kept)
  <2> HIDE DEF Body
  <2>1. QED
    BY <1>5
<1> HIDE DEF kept, m
<1>7. /\ kept[0] = << >>
      /\ \A n \in 1 .. m : s[n] \in S => kept[n] = Append(kept[n - 1], s[n])
      /\ \A n \in 1 .. m : s[n] \notin S => kept[n] = kept[n - 1]
  <2>1. \A n \in 0 .. m : Body(kept)[n] = IF n = 0 THEN << >>
                                          ELSE IF s[n] \in S THEN Append(kept[n - 1], s[n])
                                          ELSE kept[n - 1]
    OBVIOUS
  <2> HIDE DEF Body
  <2>2. \A n \in 0 .. m : kept[n] = IF n = 0 THEN << >>
                                    ELSE IF s[n] \in S THEN Append(kept[n - 1], s[n])
                                    ELSE kept[n - 1]
    BY <1>6, <2>1
  <2>3. 0 \in 0 .. m /\ \A n \in 1 .. m : n \in 0 .. m /\ n # 0
    BY <1>1
  <2>4. QED
    BY <2>2, <2>3
<1> HIDE DEF Body, step
<1>8. \A n \in 0 .. m : kept[n] \in Seq(T)
  <2> DEFINE P == { n \in 0 .. m : kept[n] \in Seq(T) }
  <2>1. 0 \in P
    <3>1. 0 \in 0 .. m /\ << >> \in Seq(T)
      BY <1>1
    <3>2. kept[0] \in Seq(T)
      BY <1>7, <3>1
    <3>3. QED
      BY <3>1, <3>2
  <2>2. ASSUME NEW n \in 0 .. m - 1, n \in P
        PROVE  n + 1 \in P
    <3>1. n + 1 \in 1 .. m /\ n + 1 \in 0 .. m /\ n + 1 - 1 = n
      BY <1>1
    <3>2. kept[n] \in Seq(T) /\ s[n + 1] \in T
      BY <1>1, <2>2, <3>1
    <3>3. kept[n + 1] = kept[n] \/ kept[n + 1] = Append(kept[n], s[n + 1])
      BY <1>7, <3>1
    <3>4. Append(kept[n], s[n + 1]) \in Seq(T)
      BY <3>2
    <3>5. kept[n + 1] \in Seq(T)
      BY <3>2, <3>3, <3>4
    <3>6. QED
      BY <3>1, <3>5
  <2>3. 0 .. m \subseteq P
    <3> HIDE DEF P
    <3>1. QED
      BY <1>1, <2>1, <2>2, UpTo
  <2>4. QED
    BY <2>3
<1>9. kept \in [0 .. m -> Seq(T)]
  <2>1. kept = [n \in 0 .. m |-> kept[n]]
    BY <1>6 DEF Body
  <2>2. QED
    BY <1>8, <2>1
<1>10. QED
  BY <1>2, <1>7, <1>9 DEF m, IsSelection

(* It keeps the elements that are in the set, and no other.                *)
LEMMA SelectedElements ==
    ASSUME NEW T, NEW s \in Seq(T), NEW S
    PROVE  /\ Selected(s, S) \in Seq(T)
           /\ \A e : (\E i \in 1 .. Len(Selected(s, S)) : Selected(s, S)[i] = e)
                        <=> e \in S /\ \E i \in 1 .. Len(s) : s[i] = e
<1> DEFINE m == Len(s)
           Of(t, e) == \E i \in 1 .. Len(t) : t[i] = e
<1>1. m \in Nat /\ \A n \in 1 .. m : s[n] \in T
  OBVIOUS
<1>2. PICK kept \in [0 .. m -> Seq(T)] :
         /\ kept[0] = << >>
         /\ \A n \in 1 .. m : s[n] \in S => kept[n] = Append(kept[n - 1], s[n])
         /\ \A n \in 1 .. m : s[n] \notin S => kept[n] = kept[n - 1]
         /\ Selected(s, S) = kept[m]
  <2>1. \E kept : IsSelection(kept, T, s, S)
    BY SelectedSteps
  <2>2. QED
    BY <2>1 DEF IsSelection
<1>3. /\ kept[0] = << >>
      /\ \A n \in 1 .. m : s[n] \in S => kept[n] = Append(kept[n - 1], s[n])
      /\ \A n \in 1 .. m : s[n] \notin S => kept[n] = kept[n - 1]
  BY <1>2
<1> HIDE DEF m
<1> DEFINE P == { n \in 0 .. m : /\ kept[n] \in Seq(T)
                                 /\ \A e : Of(kept[n], e) <=> e \in S /\ \E i \in 1 .. n : s[i] = e }
<1>4. 0 \in P
  <2>1. 0 \in 0 .. m /\ << >> \in Seq(T) /\ Len(<< >>) = 0 /\ 1 .. 0 = {}
    BY <1>1
  <2>2. \A e : ~ Of(<< >>, e)
    BY <2>1
  <2> HIDE DEF Of
  <2>3. QED
    BY <1>3, <2>1, <2>2
<1>5. ASSUME NEW n \in 0 .. m - 1, n \in P
      PROVE  n + 1 \in P
  <2>1. n + 1 \in 1 .. m /\ n + 1 - 1 = n /\ n \in Nat /\ s[n + 1] \in T
    BY <1>1
  <2>2. kept[n] \in Seq(T) /\ \A e : Of(kept[n], e) <=> e \in S /\ \E i \in 1 .. n : s[i] = e
    BY <1>5
  <2>3. \A e : (\E i \in 1 .. n + 1 : s[i] = e) <=> (\E i \in 1 .. n : s[i] = e) \/ e = s[n + 1]
    BY <2>1
  <2>4. CASE s[n + 1] \in S
    <3>1. kept[n + 1] = Append(kept[n], s[n + 1])
      BY <1>3, <2>1, <2>4
    <3>2. kept[n + 1] \in Seq(T)
      BY <2>1, <2>2, <3>1
    <3>3. \A e : Of(kept[n + 1], e) <=> Of(kept[n], e) \/ e = s[n + 1]
      <4>1. Len(kept[n + 1]) = Len(kept[n]) + 1 /\ Len(kept[n]) \in Nat
        BY <2>1, <2>2, <3>1
      <4>2. /\ \A i \in 1 .. Len(kept[n]) : kept[n + 1][i] = kept[n][i]
            /\ kept[n + 1][Len(kept[n]) + 1] = s[n + 1]
        BY <2>1, <2>2, <3>1
      <4>3. \A i \in 1 .. Len(kept[n]) + 1 : i \in 1 .. Len(kept[n]) \/ i = Len(kept[n]) + 1
        BY <4>1
      <4>4. \A e : Of(kept[n + 1], e) <=> \E i \in 1 .. Len(kept[n]) + 1 : kept[n + 1][i] = e
        BY <4>1
      <4>5. \A e : Of(kept[n], e) <=> \E i \in 1 .. Len(kept[n]) : kept[n + 1][i] = e
        BY <4>2
      <4>6. Len(kept[n]) + 1 \in 1 .. Len(kept[n]) + 1
            /\ \A i \in 1 .. Len(kept[n]) : i \in 1 .. Len(kept[n]) + 1
        BY <4>1
      <4> HIDE DEF Of
      <4>7. QED
        BY <4>2, <4>3, <4>4, <4>5, <4>6
    <3> HIDE DEF Of
    <3>4. QED
      BY <2>1, <2>2, <2>3, <2>4, <3>2, <3>3
  <2>5. CASE s[n + 1] \notin S
    <3>1. kept[n + 1] = kept[n]
      BY <1>3, <2>1, <2>5
    <3> HIDE DEF Of
    <3>2. QED
      BY <2>1, <2>2, <2>3, <2>5, <3>1
  <2>6. QED
    BY <2>4, <2>5
<1>6. m \in P
  <2> HIDE DEF P
  <2>1. 0 .. m \subseteq P
    BY <1>1, <1>4, <1>5, UpTo
  <2>2. QED
    BY <1>1, <2>1
<1>7. QED
  BY <1>2, <1>6 DEF m

(***************************************************************************)
(* FlattenSeq: the elements of each sequence in turn.                      *)
(***************************************************************************)
IsFlattening(flat, T, seqs) ==
    /\ flat \in [0 .. Len(seqs) -> Seq(T)]
    /\ flat[0] = << >>
    /\ \A n \in 1 .. Len(seqs) : flat[n] = flat[n - 1] \o seqs[n]
    /\ FlattenSeq(seqs) = flat[Len(seqs)]

LEMMA FlattenedSteps ==
    ASSUME NEW T, NEW seqs \in Seq(Seq(T))
    PROVE  \E flat : IsFlattening(flat, T, seqs)
<1> DEFINE m == Len(seqs)
           Body(f) == [i \in 1 .. m |-> IF i = 1 THEN seqs[i] ELSE f[i - 1] \o seqs[i]]
           flatten == CHOOSE f : f = Body(f)
           step == [e \in Seq(T) \X (1 .. m) |-> e[1] \o seqs[e[2]]]
           flat == [n \in 0 .. m |-> IF n = 0 THEN << >> ELSE flatten[n]]
<1>1. m \in Nat /\ << >> \in Seq(T) /\ \A n \in 1 .. m : seqs[n] \in Seq(T)
  OBVIOUS
<1>2. /\ m = 0 => FlattenSeq(seqs) = << >>
      /\ m # 0 => FlattenSeq(seqs) = flatten[m]
  <2>1. FlattenSeq(seqs) = IF Len(seqs) = 0 THEN seqs ELSE flatten[m]
    BY DEF FlattenSeq
  <2> HIDE DEF flatten
  <2>2. QED
    BY <2>1
<1>3. step \in [Seq(T) \X (1 .. m) -> Seq(T)]
  BY <1>1
<1>4. PICK g \in [0 .. m -> Seq(T)] : g[0] = << >> /\ \A n \in 1 .. m : g[n] = step[g[n - 1], n]
  <2> DEFINE U == Seq(T)
             empty == << >>
  <2>1. empty \in U /\ step \in [U \X (1 .. m) -> U] /\ m \in Nat
    BY <1>1, <1>3
  <2> HIDE DEF step, m, U, empty
  <2>2. \E g : IsRun(g, U, empty, m, step)
    BY <2>1, Recursion
  <2>3. QED
    BY <2>2 DEF U, empty, IsRun
<1>5. flatten = Body(flatten)
  <2> DEFINE h == [i \in 1 .. m |-> g[i]]
  <2>1. ASSUME NEW i \in 1 .. m
        PROVE  h[i] = IF i = 1 THEN seqs[i] ELSE h[i - 1] \o seqs[i]
    <3>1. g[i - 1] \in Seq(T) /\ seqs[i] \in Seq(T)
      <4>1. i - 1 \in 0 .. m
        BY <1>1
      <4> HIDE DEF step, flat, flatten, Body, m
      <4>2. QED
        BY <1>1, <4>1
    <3>2. <<g[i - 1], i>> \in Seq(T) \X (1 .. m)
      BY <3>1
    <3>3. step[g[i - 1], i] = g[i - 1] \o seqs[i]
      BY <3>2
    <3>4. h[i] = g[i - 1] \o seqs[i]
      BY <1>4, <3>3
    <3>5. CASE i = 1
      <4>1. g[i - 1] = << >>
        <5>1. i - 1 = 0
          BY <3>5
        <5> HIDE DEF h, step
        <5>2. QED
          BY <1>4, <5>1
      <4>2. << >> \o seqs[i] = seqs[i]
        BY <3>1
      <4> HIDE DEF h
      <4>3. QED
        BY <3>4, <3>5, <4>1, <4>2
    <3>6. CASE i # 1
      <4>1. i - 1 \in 1 .. m
        BY <1>1, <3>6
      <4>2. QED
        BY <3>4, <3>6, <4>1
    <3>7. QED
      BY <3>5, <3>6
  <2> HIDE DEF step, m
  <2>2. h = Body(h)
    BY <2>1
  <2> HIDE DEF Body, h
  <2>3. QED
    BY <2>2
<1>6. \A i \in 1 .. m : /\ i = 1 => flatten[i] = seqs[i]
                        /\ i # 1 => flatten[i] = flatten[i - 1] \o seqs[i]
  <2>1. \A i \in 1 .. m : Body(flatten)[i] = IF i = 1 THEN seqs[i] ELSE flatten[i - 1] \o seqs[i]
    OBVIOUS
  <2> HIDE DEF flatten, Body, m
  <2>2. QED
    BY <1>5, <2>1
<1> HIDE DEF flatten, step, m
<1>7. flat[0] = << >> /\ \A n \in 1 .. m : flat[n] = flatten[n]
  BY <1>1
<1>8. ASSUME NEW n \in 1 .. m
      PROVE  flat[n] = flat[n - 1] \o seqs[n]
  <2>1. CASE n = 1
    <3>1. seqs[n] \in Seq(T) /\ n - 1 = 0
      BY <1>1, <2>1
    <3>2. << >> \o seqs[n] = seqs[n]
      BY <3>1
    <3> HIDE DEF flat
    <3>3. QED
      BY <1>6, <1>7, <2>1, <3>1, <3>2
  <2>2. CASE n # 1
    <3>1. n - 1 \in 1 .. m
      BY <1>1, <2>2
    <3> HIDE DEF flat
    <3>2. QED
      BY <1>6, <1>7, <2>2, <3>1
  <2>3. QED
    BY <2>1, <2>2
<1>9. \A n \in 0 .. m : flat[n] \in Seq(T)
  <2> HIDE DEF flat
  <2> DEFINE P == { n \in 0 .. m : flat[n] \in Seq(T) }
  <2>1. 0 \in P
    <3>1. 0 \in 0 .. m /\ << >> \in Seq(T)
      BY <1>1
    <3>2. flat[0] \in Seq(T)
      BY <1>7, <3>1
    <3>3. QED
      BY <3>1, <3>2
  <2>2. ASSUME NEW n \in 0 .. m - 1, n \in P
        PROVE  n + 1 \in P
    <3>1. n + 1 \in 1 .. m /\ n + 1 \in 0 .. m /\ n + 1 - 1 = n
      BY <1>1
    <3>2. flat[n] \in Seq(T) /\ seqs[n + 1] \in Seq(T)
      BY <1>1, <2>2, <3>1
    <3>3. flat[n] \o seqs[n + 1] \in Seq(T)
      BY <3>2
    <3>4. flat[n + 1] = flat[n] \o seqs[n + 1]
      <4>1. ASSUME NEW k \in 1 .. m, k = n + 1
            PROVE  flat[k] = flat[n] \o seqs[k]
        <5>1. k - 1 = n
          BY <3>1, <4>1
        <5>2. QED
          BY <1>8, <5>1
      <4>2. QED
        BY <3>1, <4>1
    <3>5. QED
      BY <3>1, <3>3, <3>4
  <2>3. 0 .. m \subseteq P
    <3> HIDE DEF P
    <3>1. QED
      BY <1>1, <2>1, <2>2, UpTo
  <2>4. QED
    BY <2>3
<1>10. flat \in [0 .. m -> Seq(T)]
  <2>1. flat = [n \in 0 .. m |-> flat[n]]
    OBVIOUS
  <2> HIDE DEF flat
  <2>2. QED
    BY <1>9, <2>1
<1>11. FlattenSeq(seqs) = flat[m]
  <2>1. m = 0 \/ m \in 1 .. m
    BY <1>1
  <2> HIDE DEF flat
  <2>2. QED
    BY <1>2, <1>7, <2>1
<1> HIDE DEF flat
<1>12. IsFlattening(flat, T, seqs)
  BY <1>7, <1>8, <1>10, <1>11 DEF IsFlattening, m
<1>13. QED
  BY <1>12

(* An element of the whole is one of a part.                               *)
LEMMA FlattenedIn ==
    ASSUME NEW T, NEW seqs \in Seq(Seq(T))
    PROVE  FlattenSeq(seqs) \in Seq(T)
<1>1. PICK flat : IsFlattening(flat, T, seqs)
  BY FlattenedSteps
<1>2. Len(seqs) \in 0 .. Len(seqs)
  OBVIOUS
<1>3. QED
  BY <1>1, <1>2 DEF IsFlattening

(***************************************************************************)
(* A selection distributes over concatenation, and commutes with a map.    *)
(***************************************************************************)
LEMMA SelectedConcat ==
    ASSUME NEW T, NEW s \in Seq(T), NEW t \in Seq(T), NEW S
    PROVE  Selected(s \o t, S) = Selected(s, S) \o Selected(t, S)
<1> DEFINE u == s \o t
           m == Len(s)
           n == Len(t)
<1>1. /\ u \in Seq(T) /\ m \in Nat /\ n \in Nat /\ Len(u) = m + n
      /\ \A i \in 1 .. m : u[i] = s[i]
      /\ \A i \in 1 .. n : u[m + i] = t[i]
  OBVIOUS
<1> HIDE DEF u, m, n
<1>2. PICK left : IsSelection(left, T, s, S)
  BY SelectedSteps
<1>3. PICK right : IsSelection(right, T, t, S)
  BY SelectedSteps
<1>4. PICK whole : IsSelection(whole, T, u, S)
  BY <1>1, SelectedSteps
<1>5. /\ left \in [0 .. m -> Seq(T)] /\ left[0] = << >> /\ Selected(s, S) = left[m]
      /\ \A i \in 1 .. m : s[i] \in S => left[i] = Append(left[i - 1], s[i])
      /\ \A i \in 1 .. m : s[i] \notin S => left[i] = left[i - 1]
  BY <1>2 DEF IsSelection, m
<1>6. /\ right \in [0 .. n -> Seq(T)] /\ right[0] = << >> /\ Selected(t, S) = right[n]
      /\ \A i \in 1 .. n : t[i] \in S => right[i] = Append(right[i - 1], t[i])
      /\ \A i \in 1 .. n : t[i] \notin S => right[i] = right[i - 1]
  BY <1>3 DEF IsSelection, n
<1>7. /\ whole[0] = << >> /\ Selected(u, S) = whole[m + n]
      /\ \A i \in 1 .. m + n : u[i] \in S => whole[i] = Append(whole[i - 1], u[i])
      /\ \A i \in 1 .. m + n : u[i] \notin S => whole[i] = whole[i - 1]
  BY <1>1, <1>4 DEF IsSelection
<1>8. whole[m] = left[m]
  <2> DEFINE P == { i \in 0 .. m : whole[i] = left[i] }
  <2>1. 0 \in P
    BY <1>1, <1>5, <1>7
  <2>2. ASSUME NEW i \in 0 .. m - 1, i \in P
        PROVE  i + 1 \in P
    <3> DEFINE j == i + 1
    <3>1. j \in 1 .. m /\ j \in 0 .. m /\ j \in 1 .. m + n /\ j - 1 = i
      BY <1>1
    <3>2. u[j] = s[j] /\ whole[i] = left[i]
      BY <1>1, <2>2, <3>1
    <3> HIDE DEF j
    <3>3. whole[j] = left[j]
      BY <1>5, <1>7, <3>1, <3>2
    <3>4. QED
      BY <3>1, <3>3 DEF j
  <2>3. 0 .. m \subseteq P
    <3> HIDE DEF P
    <3>1. QED
      BY <1>1, <2>1, <2>2, UpTo
  <2>4. QED
    BY <1>1, <2>3
<1>9. whole[m + n] = left[m] \o right[n]
  <2> DEFINE P == { i \in 0 .. n : whole[m + i] = left[m] \o right[i] }
  <2>1. left[m] \in Seq(T)
    <3>1. m \in 0 .. m
      BY <1>1
    <3>2. QED
      BY <1>5, <3>1
  <2>2. 0 \in P
    <3>1. 0 \in 0 .. n /\ m + 0 = m /\ left[m] \o << >> = left[m]
      BY <1>1, <2>1
    <3>2. QED
      BY <1>6, <1>8, <3>1
  <2>3. ASSUME NEW i \in 0 .. n - 1, i \in P
        PROVE  i + 1 \in P
    <3> DEFINE j == i + 1
               k == m + j
    <3>1. j \in 1 .. n /\ j \in 0 .. n /\ j - 1 = i /\ k \in 1 .. m + n /\ k - 1 = m + i
      BY <1>1
    <3>2. u[k] = t[j] /\ whole[m + i] = left[m] \o right[i]
      BY <1>1, <2>3, <3>1
    <3>3. right[i] \in Seq(T) /\ t[j] \in T
      <4>1. i \in 0 .. n /\ j \in 1 .. Len(t)
        BY <1>1, <3>1 DEF n
      <4> HIDE DEF j
      <4>2. t[j] \in T
        BY <4>1
      <4>3. QED
        BY <1>6, <4>1, <4>2
    <3>4. whole[k - 1] = left[m] \o right[i] /\ right[j - 1] = right[i]
      BY <3>1, <3>2
    <3> HIDE DEF j, k
    <3>5. CASE t[j] \in S
      <4>1. whole[k] = Append(whole[k - 1], t[j]) /\ right[j] = Append(right[j - 1], t[j])
        BY <1>6, <1>7, <3>1, <3>2, <3>5
      <4>2. Append(left[m] \o right[i], t[j]) = left[m] \o Append(right[i], t[j])
        <5> DEFINE a == left[m]
                   b == right[i]
                   e == t[j]
        <5>1. a \in Seq(T) /\ b \in Seq(T) /\ e \in T
          BY <2>1, <3>3
        <5> HIDE DEF a, b, e
        <5>2. a \o b \in Seq(T) /\ <<e>> \in Seq(T)
          BY <5>1
        <5>3. Append(a \o b, e) = (a \o b) \o <<e>>
          BY <5>1, <5>2, AppendIsConcat
        <5>4. Append(b, e) = b \o <<e>>
          BY <5>1, AppendIsConcat
        <5>5. (a \o b) \o <<e>> = a \o (b \o <<e>>)
          BY <5>1, <5>2, ConcatAssociative
        <5>6. QED
          BY <5>3, <5>4, <5>5 DEF a, b, e
      <4>3. whole[k] = left[m] \o right[j]
        BY <3>4, <4>1, <4>2
      <4>4. QED
        BY <3>1, <4>3 DEF j, k
    <3>6. CASE t[j] \notin S
      <4>1. whole[k] = whole[k - 1] /\ right[j] = right[j - 1]
        BY <1>6, <1>7, <3>1, <3>2, <3>6
      <4>2. whole[k] = left[m] \o right[j]
        BY <3>4, <4>1
      <4>3. QED
        BY <3>1, <4>2 DEF j, k
    <3>7. QED
      BY <3>5, <3>6
  <2>4. 0 .. n \subseteq P
    <3> HIDE DEF P
    <3>1. QED
      BY <1>1, <2>2, <2>3, UpTo
  <2>5. n \in 0 .. n
    BY <1>1
  <2>6. QED
    BY <2>4, <2>5
<1>10. QED
  BY <1>5, <1>6, <1>7, <1>9 DEF u

LEMMA SelectedSmall ==
    ASSUME NEW T, NEW e \in T, NEW S
    PROVE  /\ Selected(<< >>, S) = << >>
           /\ e \in S => Selected(<<e>>, S) = <<e>>
           /\ e \notin S => Selected(<<e>>, S) = << >>
<1>1. << >> \in Seq(T) /\ Len(<< >>) = 0 /\ <<e>> \in Seq(T) /\ Len(<<e>>) = 1 /\ <<e>>[1] = e
  OBVIOUS
<1>2. PICK none : IsSelection(none, T, << >>, S)
  BY <1>1, SelectedSteps
<1>3. Selected(<< >>, S) = << >>
  BY <1>1, <1>2 DEF IsSelection
<1> DEFINE s == <<e>>
<1>4. s \in Seq(T) /\ Len(s) = 1 /\ s[1] = e
  BY <1>1
<1> HIDE DEF s
<1>5. PICK one : IsSelection(one, T, s, S)
  BY <1>4, SelectedSteps
<1>6. /\ one[0] = << >> /\ Selected(s, S) = one[1]
      /\ s[1] \in S => one[1] = Append(one[1 - 1], s[1])
      /\ s[1] \notin S => one[1] = one[1 - 1]
  <2>1. 1 \in 1 .. Len(s)
    BY <1>4
  <2>2. QED
    BY <1>4, <1>5, <2>1 DEF IsSelection
<1>7. Append(<< >>, e) = <<e>> /\ 1 - 1 = 0
  OBVIOUS
<1>8. QED
  BY <1>3, <1>4, <1>6, <1>7 DEF s

LEMMA SelectedFlatten ==
    ASSUME NEW T, NEW seqs \in Seq(Seq(T)), NEW S
    PROVE  Selected(FlattenSeq(seqs), S)
             = FlattenSeq([n \in 1 .. Len(seqs) |-> Selected(seqs[n], S)])
<1> DEFINE m == Len(seqs)
           parts == [n \in 1 .. m |-> Selected(seqs[n], S)]
<1>1. m \in Nat /\ \A n \in 1 .. m : seqs[n] \in Seq(T)
  OBVIOUS
<1>2. \A n \in 1 .. m : parts[n] = Selected(seqs[n], S) /\ parts[n] \in Seq(T)
  BY <1>1, SelectedElements
<1>3. parts \in Seq(Seq(T)) /\ Len(parts) = m
  <2>1. \A n \in 1 .. m : Selected(seqs[n], S) \in Seq(T)
    BY <1>2
  <2>2. parts \in [1 .. m -> Seq(T)]
    BY <2>1
  <2>3. QED
    BY <1>1, <2>2
<1> HIDE DEF parts
<1>4. PICK flat : IsFlattening(flat, T, seqs)
  BY FlattenedSteps
<1>5. PICK kept : IsFlattening(kept, T, parts)
  BY <1>3, FlattenedSteps
<1>6. /\ flat \in [0 .. m -> Seq(T)] /\ flat[0] = << >> /\ FlattenSeq(seqs) = flat[m]
      /\ \A n \in 1 .. m : flat[n] = flat[n - 1] \o seqs[n]
  BY <1>4 DEF IsFlattening
<1>7. /\ kept[0] = << >> /\ FlattenSeq(parts) = kept[m]
      /\ \A n \in 1 .. m : kept[n] = kept[n - 1] \o parts[n]
  BY <1>3, <1>5 DEF IsFlattening
<1> HIDE DEF m
<1> DEFINE P == { n \in 0 .. m : Selected(flat[n], S) = kept[n] }
<1>8. 0 \in P
  <2>1. 0 \in 0 .. m
    BY <1>1
  <2>2. Selected(<< >>, S) = << >>
    <3> DEFINE U == {0}
    <3>1. 0 \in U
      OBVIOUS
    <3>2. QED
      BY <3>1, SelectedSmall
  <2>3. QED
    BY <1>6, <1>7, <2>1, <2>2
<1>9. ASSUME NEW n \in 0 .. m - 1, n \in P
      PROVE  n + 1 \in P
  <2> DEFINE k == n + 1
  <2>1. k \in 1 .. m /\ k \in 0 .. m /\ k - 1 = n /\ n \in 0 .. m
    BY <1>1
  <2>2. flat[n] \in Seq(T) /\ seqs[k] \in Seq(T)
    <3> HIDE DEF k
    <3>1. QED
      BY <1>1, <1>6, <2>1
  <2>3. Selected(flat[n], S) = kept[n]
    BY <1>9
  <2> HIDE DEF k
  <2>4. flat[k] = flat[n] \o seqs[k] /\ kept[k] = kept[n] \o parts[k]
    BY <1>6, <1>7, <2>1
  <2> DEFINE a == flat[n]
             b == seqs[k]
  <2>5. a \in Seq(T) /\ b \in Seq(T)
    BY <2>2
  <2> HIDE DEF a, b
  <2>6. Selected(a \o b, S) = Selected(a, S) \o Selected(b, S)
    BY <2>5, SelectedConcat
  <2>7. Selected(flat[k], S) = kept[k]
    BY <1>2, <2>1, <2>3, <2>4, <2>6 DEF a, b
  <2>8. QED
    BY <2>1, <2>7 DEF k
<1>10. 0 .. m \subseteq P
  <2> HIDE DEF P
  <2>1. QED
    BY <1>1, <1>8, <1>9, UpTo
<1>11. m \in 0 .. m
  BY <1>1
<1>12. QED
  BY <1>6, <1>7, <1>10, <1>11 DEF m, parts

(* The image of a sequence under a function on its elements.               *)
Mapping(f, s) == [i \in DOMAIN s |-> f[s[i]]]

LEMMA MappingIn ==
    ASSUME NEW T, NEW f, NEW s \in Seq(T)
    PROVE  Mapping(f, s) \in Seq({ f[x] : x \in T })
<1>1. Mapping(f, s) \in [1 .. Len(s) -> { f[x] : x \in T }]
  BY DEF Mapping
<1>2. QED
  BY <1>1

LEMMA MappingAppend ==
    ASSUME NEW T, NEW f, NEW s \in Seq(T), NEW e \in T
    PROVE  Mapping(f, Append(s, e)) = Append(Mapping(f, s), f[e])
<1> DEFINE U == { f[x] : x \in T }
           a == Mapping(f, s)
           b == Mapping(f, Append(s, e))
           m == Len(s)
<1>1. /\ m \in Nat /\ Append(s, e) \in Seq(T) /\ Len(Append(s, e)) = m + 1
      /\ Append(s, e)[m + 1] = e
      /\ \A i \in 1 .. m : Append(s, e)[i] = s[i]
  OBVIOUS
<1>2. a \in Seq(U) /\ b \in Seq(U)
  <2> DEFINE t == Append(s, e)
  <2>1. t \in Seq(T)
    BY <1>1
  <2> HIDE DEF t
  <2>2. Mapping(f, s) \in Seq(U) /\ Mapping(f, t) \in Seq(U)
    BY <2>1, MappingIn
  <2>3. QED
    BY <2>2 DEF t
<1>3. Len(a) = m /\ \A i \in 1 .. m : a[i] = f[s[i]]
  <2>1. a = [i \in 1 .. m |-> f[s[i]]]
    BY DEF Mapping
  <2> HIDE DEF a, m
  <2>2. QED
    BY <1>1, <1>2, <2>1
<1>4. Len(b) = m + 1 /\ \A i \in 1 .. m + 1 : b[i] = f[Append(s, e)[i]]
  <2>1. DOMAIN Append(s, e) = 1 .. m + 1
    BY <1>1
  <2>2. b = [i \in 1 .. m + 1 |-> f[Append(s, e)[i]]]
    BY <2>1 DEF Mapping
  <2> HIDE DEF b, m
  <2>3. QED
    BY <1>1, <1>2, <2>2
<1>5. f[e] \in U
  OBVIOUS
<1> HIDE DEF a, b, m, U
<1> DEFINE c == Append(a, f[e])
<1>6. /\ c \in Seq(U) /\ Len(c) = m + 1 /\ c[m + 1] = f[e]
      /\ \A i \in 1 .. m : c[i] = a[i]
  BY <1>2, <1>3, <1>5
<1>7. \A i \in 1 .. m + 1 : b[i] = c[i]
  <2> HIDE DEF c
  <2>1. \A i \in 1 .. m + 1 : i = m + 1 \/ i \in 1 .. m
    BY <1>1
  <2>2. \A i \in 1 .. m : b[i] = c[i]
    BY <1>1, <1>3, <1>4, <1>6
  <2>3. b[m + 1] = c[m + 1]
    BY <1>1, <1>4, <1>6
  <2>4. QED
    BY <2>1, <2>2, <2>3
<1>8. b = c
  <2> HIDE DEF c
  <2>1. QED
    BY <1>2, <1>4, <1>6, <1>7
<1>9. QED
  BY <1>8 DEF a, b

(* Selecting by what the image is, or selecting first: the same.           *)
LEMMA SelectedMapping ==
    ASSUME NEW T, NEW s \in Seq(T), NEW f, NEW C, NEW S,
           \A i \in 1 .. Len(s) : s[i] \in C <=> f[s[i]] \in S
    PROVE  Selected(Mapping(f, s), S) = Mapping(f, Selected(s, C))
<1> DEFINE U == { f[x] : x \in T }
           t == Mapping(f, s)
           m == Len(s)
<1>1. m \in Nat /\ \A i \in 1 .. m : s[i] \in T
  OBVIOUS
<1>2. t \in Seq(U)
  BY MappingIn
<1>3. Len(t) = m /\ \A i \in 1 .. m : t[i] = f[s[i]]
  <2>1. t = [i \in 1 .. m |-> f[s[i]]]
    BY DEF Mapping
  <2> HIDE DEF t, m
  <2>2. QED
    BY <1>1, <1>2, <2>1
<1> HIDE DEF t, U
<1>4. PICK kept : IsSelection(kept, T, s, C)
  BY SelectedSteps
<1>5. PICK image : IsSelection(image, U, t, S)
  BY <1>2, SelectedSteps
<1>6. /\ kept \in [0 .. m -> Seq(T)] /\ kept[0] = << >> /\ Selected(s, C) = kept[m]
      /\ \A n \in 1 .. m : s[n] \in C => kept[n] = Append(kept[n - 1], s[n])
      /\ \A n \in 1 .. m : s[n] \notin C => kept[n] = kept[n - 1]
  BY <1>4 DEF IsSelection
<1>7. /\ image[0] = << >> /\ Selected(t, S) = image[m]
      /\ \A n \in 1 .. m : f[s[n]] \in S => image[n] = Append(image[n - 1], f[s[n]])
      /\ \A n \in 1 .. m : f[s[n]] \notin S => image[n] = image[n - 1]
  BY <1>3, <1>5 DEF IsSelection
<1>8. \A n \in 1 .. m : s[n] \in C <=> f[s[n]] \in S
  OBVIOUS
<1> HIDE DEF m
<1> DEFINE P == { n \in 0 .. m : image[n] = Mapping(f, kept[n]) }
<1>9. 0 \in P
  <2>1. 0 \in 0 .. m
    BY <1>1
  <2>2. Mapping(f, << >>) = << >>
    BY DEF Mapping
  <2>3. QED
    BY <1>6, <1>7, <2>1, <2>2
<1>10. ASSUME NEW n \in 0 .. m - 1, n \in P
       PROVE  n + 1 \in P
  <2> DEFINE k == n + 1
  <2>1. k \in 1 .. m /\ k \in 0 .. m /\ k - 1 = n /\ n \in 0 .. m
    BY <1>1
  <2>2. image[n] = Mapping(f, kept[n])
    BY <1>10
  <2> HIDE DEF k
  <2>3. kept[n] \in Seq(T) /\ s[k] \in T
    BY <1>1, <1>6, <2>1
  <2>4. CASE s[k] \in C
    <3>1. kept[k] = Append(kept[n], s[k]) /\ image[k] = Append(image[n], f[s[k]])
      BY <1>6, <1>7, <1>8, <2>1, <2>4
    <3>2. Mapping(f, Append(kept[n], s[k])) = Append(Mapping(f, kept[n]), f[s[k]])
      BY <2>3, MappingAppend
    <3>3. QED
      BY <2>1, <2>2, <3>1, <3>2 DEF k
  <2>5. CASE s[k] \notin C
    <3>1. kept[k] = kept[n] /\ image[k] = image[n]
      BY <1>6, <1>7, <1>8, <2>1, <2>5
    <3>2. QED
      BY <2>1, <2>2, <3>1 DEF k
  <2>6. QED
    BY <2>4, <2>5
<1>11. 0 .. m \subseteq P
  <2> HIDE DEF P
  <2>1. QED
    BY <1>1, <1>9, <1>10, UpTo
<1>12. m \in 0 .. m
  BY <1>1
<1>13. QED
  BY <1>6, <1>7, <1>11, <1>12 DEF t

(* One sequence more, at the end.                                          *)
LEMMA FlattenedAppend ==
    ASSUME NEW T, NEW seqs \in Seq(Seq(T)), NEW e \in Seq(T)
    PROVE  FlattenSeq(Append(seqs, e)) = FlattenSeq(seqs) \o e
<1> DEFINE m == Len(seqs)
           more == Append(seqs, e)
<1>1. /\ m \in Nat /\ more \in Seq(Seq(T)) /\ Len(more) = m + 1 /\ more[m + 1] = e
      /\ \A n \in 1 .. m : more[n] = seqs[n]
  OBVIOUS
<1> HIDE DEF more
<1>2. PICK flat : IsFlattening(flat, T, seqs)
  BY FlattenedSteps
<1>3. PICK flat2 : IsFlattening(flat2, T, more)
  BY <1>1, FlattenedSteps
<1>4. /\ flat[0] = << >> /\ FlattenSeq(seqs) = flat[m]
      /\ \A n \in 1 .. m : flat[n] = flat[n - 1] \o seqs[n]
  BY <1>2 DEF IsFlattening
<1>5. /\ flat2[0] = << >> /\ FlattenSeq(more) = flat2[m + 1]
      /\ \A n \in 1 .. m + 1 : flat2[n] = flat2[n - 1] \o more[n]
  BY <1>1, <1>3 DEF IsFlattening
<1> HIDE DEF m
<1> DEFINE P == { n \in 0 .. m : flat2[n] = flat[n] }
<1>6. 0 \in P
  BY <1>1, <1>4, <1>5
<1>7. ASSUME NEW n \in 0 .. m - 1, n \in P
      PROVE  n + 1 \in P
  <2> DEFINE k == n + 1
  <2>1. k \in 1 .. m /\ k \in 0 .. m /\ k \in 1 .. m + 1 /\ k - 1 = n /\ flat2[n] = flat[n]
    BY <1>1, <1>7
  <2> HIDE DEF k
  <2>2. flat2[k] = flat[k]
    BY <1>1, <1>4, <1>5, <2>1
  <2>3. QED
    BY <2>1, <2>2 DEF k
<1>8. 0 .. m \subseteq P
  <2> HIDE DEF P
  <2>1. QED
    BY <1>1, <1>6, <1>7, UpTo
<1>9. flat2[m] = flat[m]
  <2>1. m \in 0 .. m
    BY <1>1
  <2>2. QED
    BY <1>8, <2>1
<1>10. flat2[m + 1] = flat2[m] \o e
  <2> DEFINE k == m + 1
  <2>1. k \in 1 .. m + 1 /\ k - 1 = m /\ more[k] = e
    BY <1>1
  <2> HIDE DEF k
  <2>2. flat2[k] = flat2[m] \o e
    BY <1>5, <2>1
  <2>3. QED
    BY <2>2 DEF k
<1>11. QED
  BY <1>4, <1>5, <1>9, <1>10 DEF more

(* Where the elements that are kept stood: each at its own place, in order. *)
IsPlacing(place, s, S) ==
    /\ place \in [1 .. Len(Selected(s, S)) -> 1 .. Len(s)]
    /\ \A i \in 1 .. Len(Selected(s, S)) : Selected(s, S)[i] = s[place[i]]
    /\ \A i, j \in 1 .. Len(Selected(s, S)) : i < j => place[i] < place[j]

LEMMA SelectedPlaces ==
    ASSUME NEW T, NEW s \in Seq(T), NEW S
    PROVE  \E place : IsPlacing(place, s, S)
<1> DEFINE m == Len(s)
<1>1. m \in Nat /\ \A n \in 1 .. m : s[n] \in T
  OBVIOUS
<1>2. PICK kept : IsSelection(kept, T, s, S)
  BY SelectedSteps
<1>3. /\ kept \in [0 .. m -> Seq(T)] /\ kept[0] = << >> /\ Selected(s, S) = kept[m]
      /\ \A n \in 1 .. m : s[n] \in S => kept[n] = Append(kept[n - 1], s[n])
      /\ \A n \in 1 .. m : s[n] \notin S => kept[n] = kept[n - 1]
  BY <1>2 DEF IsSelection
<1> HIDE DEF m
<1> DEFINE Places(g, n) == /\ g \in [1 .. Len(kept[n]) -> 1 .. n]
                           /\ \A i \in 1 .. Len(kept[n]) : kept[n][i] = s[g[i]]
                           /\ \A i, j \in 1 .. Len(kept[n]) : i < j => g[i] < g[j]
           P == { n \in 0 .. m : \E g : Places(g, n) }
<1>4. 0 \in P
  <2> DEFINE none == [i \in {} |-> 0]
  <2>1. 0 \in 0 .. m /\ Len(kept[0]) = 0 /\ 1 .. 0 = {}
    BY <1>1, <1>3
  <2>2. Places(none, 0)
    BY <2>1
  <2> HIDE DEF Places
  <2>3. QED
    BY <2>1, <2>2
<1>5. ASSUME NEW n \in 0 .. m - 1, n \in P
      PROVE  n + 1 \in P
  <2> DEFINE k == n + 1
  <2>1. k \in 1 .. m /\ k \in 0 .. m /\ k - 1 = n /\ n \in 0 .. m /\ n \in Nat /\ n < k
    BY <1>1
  <2>2. PICK g : Places(g, n)
    BY <1>5
  <2> HIDE DEF k
  <2>3. kept[n] \in Seq(T) /\ s[k] \in T
    BY <1>1, <1>3, <2>1
  <2> DEFINE q == Len(kept[n])
  <2>4. /\ q \in Nat /\ g \in [1 .. q -> 1 .. n]
        /\ \A i \in 1 .. q : kept[n][i] = s[g[i]]
        /\ \A i, j \in 1 .. q : i < j => g[i] < g[j]
    BY <2>2, <2>3
  <2>5. CASE s[k] \in S
    <3> DEFINE h == [i \in 1 .. q + 1 |-> IF i = q + 1 THEN k ELSE g[i]]
    <3>1. kept[k] = Append(kept[n], s[k])
      BY <1>3, <2>1, <2>5
    <3>2. /\ Len(kept[k]) = q + 1 /\ kept[k][q + 1] = s[k]
          /\ \A i \in 1 .. q : kept[k][i] = kept[n][i]
      BY <2>3, <3>1
    <3> HIDE DEF q, Places
    <3>3. \A i \in 1 .. q + 1 : i = q + 1 \/ (i \in 1 .. q /\ i # q + 1)
      BY <2>4
    <3>4. q + 1 \in 1 .. q + 1
      BY <2>4
    <3>5. h[q + 1] = k /\ \A i \in 1 .. q : h[i] = g[i]
      BY <2>4, <3>4
    <3>6. h \in [1 .. q + 1 -> 1 .. k]
      <4>1. \A i \in 1 .. q : g[i] \in 1 .. k
        BY <2>1, <2>4
      <4>2. k \in 1 .. k
        BY <2>1
      <4>3. QED
        BY <3>3, <4>1, <4>2
    <3> HIDE DEF h
    <3>7. \A i \in 1 .. q + 1 : kept[k][i] = s[h[i]]
      BY <2>4, <3>2, <3>3, <3>5
    <3>8. ASSUME NEW i \in 1 .. q + 1, NEW j \in 1 .. q + 1, i < j
          PROVE  h[i] < h[j]
      <4>1. i \in 1 .. q
        BY <2>4, <3>8
      <4>2. CASE j \in 1 .. q
        BY <2>4, <3>5, <3>8, <4>1, <4>2
      <4>3. CASE j = q + 1
        <5>1. g[i] \in 1 .. n
          BY <2>4, <4>1
        <5>2. QED
          BY <2>1, <3>5, <4>1, <4>3, <5>1
      <4>4. QED
        BY <3>3, <4>2, <4>3
    <3>9. Places(h, k)
      BY <3>2, <3>6, <3>7, <3>8 DEF Places
    <3>10. QED
      BY <2>1, <3>9 DEF k
  <2>6. CASE s[k] \notin S
    <3>1. kept[k] = kept[n]
      BY <1>3, <2>1, <2>6
    <3>2. \A i \in 1 .. n : i \in 1 .. k
      BY <2>1
    <3>3. g \in [1 .. q -> 1 .. k]
      <4>1. \A i \in 1 .. q : g[i] \in 1 .. k
        BY <2>4, <3>2
      <4> HIDE DEF q
      <4>2. g = [i \in 1 .. q |-> g[i]]
        BY <2>4
      <4>3. QED
        BY <4>1, <4>2
    <3>4. Places(g, k)
      BY <2>4, <3>1, <3>3
    <3> HIDE DEF Places
    <3>5. QED
      BY <2>1, <3>4 DEF k
  <2>7. QED
    BY <2>5, <2>6
<1>6. 0 .. m \subseteq P
  <2> HIDE DEF P
  <2>1. QED
    BY <1>1, <1>4, <1>5, UpTo
<1>7. PICK g : Places(g, m)
  <2>1. m \in 0 .. m
    BY <1>1
  <2> HIDE DEF Places
  <2>2. QED
    BY <1>6, <2>1
<1>8. IsPlacing(g, s, S)
  BY <1>3, <1>7 DEF IsPlacing, m
<1>9. QED
  BY <1>8

(* What a contiguous selection keeps is the slice it selects.              *)
Between(s, S, f, g) ==
    /\ f \in 1 .. Len(s) + 1 /\ g \in f .. Len(s) + 1
    /\ \A i \in 1 .. Len(s) : s[i] \in S <=> i \in f .. g - 1

LEMMA SelectedRun ==
    ASSUME NEW T, NEW s \in Seq(T), NEW S, NEW f, NEW g, Between(s, S, f, g)
    PROVE  Selected(s, S) = SubSeq(s, f, g - 1)
<1> DEFINE m == Len(s)
           L == g - f
           Kept(u, n) == /\ u \in Seq(T)
                         /\ n < f => Len(u) = 0
                         /\ n \in f .. g - 1 => Len(u) = (n - f) + 1
                         /\ n >= g => Len(u) = L
                         /\ \A i \in 1 .. Len(u) : u[i] = s[f + i - 1]
<1>1. /\ m \in Nat /\ f \in 1 .. m + 1 /\ g \in f .. m + 1 /\ f \in Nat /\ g \in Nat
      /\ L \in Nat /\ f <= g
      /\ \A i \in 1 .. m : s[i] \in T
      /\ \A i \in 1 .. m : s[i] \in S <=> i \in f .. g - 1
  BY DEF Between
<1>2. PICK kept : IsSelection(kept, T, s, S)
  BY SelectedSteps
<1>3. /\ kept \in [0 .. m -> Seq(T)] /\ kept[0] = << >> /\ Selected(s, S) = kept[m]
      /\ \A n \in 1 .. m : s[n] \in S => kept[n] = Append(kept[n - 1], s[n])
      /\ \A n \in 1 .. m : s[n] \notin S => kept[n] = kept[n - 1]
  BY <1>2 DEF IsSelection
<1> HIDE DEF m
<1> DEFINE P == { n \in 0 .. m : Kept(kept[n], n) }
<1>4. 0 \in P
  <2>1. 0 \in 0 .. m /\ 0 < f /\ ~ (0 >= g) /\ ~ (0 \in f .. g - 1)
    BY <1>1
  <2>2. Len(<< >>) = 0 /\ << >> \in Seq(T)
    OBVIOUS
  <2>3. QED
    BY <1>3, <2>1, <2>2
<1>5. ASSUME NEW n \in 0 .. m - 1, n \in P
      PROVE  n + 1 \in P
  <2> DEFINE j == n + 1
             u == kept[n]
             v == kept[j]
  <2>1. j \in 1 .. m /\ j \in 0 .. m /\ j - 1 = n /\ n \in Nat /\ j \in Nat /\ j = n + 1
    BY <1>1
  <2>2. Kept(u, n)
    BY <1>5
  <2>3. u \in Seq(T) /\ Len(u) \in Nat /\ \A i \in 1 .. Len(u) : u[i] = s[f + i - 1]
    BY <2>2
  <2> HIDE DEF j
  <2>4. (s[j] \in S => v = Append(u, s[j])) /\ (s[j] \notin S => v = u)
    BY <1>3, <2>1
  <2>5. (n < f => Len(u) = 0) /\ (n \in f .. g - 1 => Len(u) = (n - f) + 1) /\ (n >= g => Len(u) = L)
    BY <2>2
  <2> HIDE DEF u, v
  <2>6. CASE j \in f .. g - 1
    <3>1. s[j] \in S /\ s[j] \in T
      BY <1>1, <2>1, <2>6
    <3>2. v = Append(u, s[j])
      BY <2>4, <3>1
    <3>3. v \in Seq(T) /\ Len(v) = Len(u) + 1 /\ v[Len(u) + 1] = s[j]
          /\ \A i \in 1 .. Len(u) : v[i] = u[i]
      BY <2>3, <3>1, <3>2
    <3> DEFINE l == Len(u)
    <3>4. l \in Nat /\ l = j - f /\ f + (l + 1) - 1 = j /\ l + 1 = (j - f) + 1
      <4>1. l \in Nat
        BY <2>3
      <4>2. (n < f => l = 0) /\ (n \in f .. g - 1 => l = (n - f) + 1)
        BY <2>5
      <4> HIDE DEF l
      <4>3. QED
        BY <1>1, <2>1, <2>6, <4>1, <4>2
    <3> HIDE DEF l
    <3>5. \A i \in 1 .. l + 1 : v[i] = s[f + i - 1]
      <4>1. \A i \in 1 .. l + 1 : i = l + 1 \/ i \in 1 .. l
        BY <3>4
      <4>2. \A i \in 1 .. l : v[i] = s[f + i - 1]
        BY <2>3, <3>3 DEF l
      <4>3. v[l + 1] = s[f + (l + 1) - 1]
        BY <3>3, <3>4 DEF l
      <4>4. QED
        BY <4>1, <4>2, <4>3
    <3>6. ~ (j < f) /\ ~ (j >= g)
      BY <1>1, <2>1, <2>6
    <3>7. Len(v) = l + 1
      BY <3>3 DEF l
    <3>8. QED
      BY <2>1, <3>3, <3>4, <3>5, <3>6, <3>7 DEF v, j
  <2>7. CASE j \notin f .. g - 1
    <3>1. v = u
      BY <1>1, <2>1, <2>4, <2>7
    <3> DEFINE l == Len(u)
    <3>2. l \in Nat /\ (j < f => l = 0) /\ (j >= g => l = L)
      <4>1. l \in Nat
        BY <2>3
      <4>2. (n < f => l = 0) /\ (n \in f .. g - 1 => l = (n - f) + 1) /\ (n >= g => l = L)
        BY <2>5
      <4> HIDE DEF l
      <4>3. j < f => l = 0
        BY <1>1, <2>1, <4>2
      <4>4. j >= g => l = g - f
        BY <1>1, <2>1, <4>1, <4>2, <2>7
      <4>5. QED
        BY <4>1, <4>3, <4>4
    <3> HIDE DEF L
    <3>3. QED
      BY <2>1, <2>3, <2>7, <3>1, <3>2 DEF v, j
  <2>8. QED
    BY <2>6, <2>7
<1>6. m \in P
  <2> HIDE DEF P
  <2>1. 0 .. m \subseteq P
    BY <1>1, <1>4, <1>5, UpTo
  <2>2. QED
    BY <1>1, <2>1
<1> DEFINE u == kept[m]
<1>7. Kept(u, m)
  BY <1>6
<1>8. u \in Seq(T) /\ \A i \in 1 .. Len(u) : u[i] = s[f + i - 1]
  BY <1>7
<1>9. (m < f => Len(u) = 0) /\ (m \in f .. g - 1 => Len(u) = (m - f) + 1) /\ (m >= g => Len(u) = L)
  BY <1>7
<1> HIDE DEF u
<1>10. Len(u) = L
  <2> DEFINE l == Len(u)
  <2>1. (m < f => l = 0) /\ (m \in f .. g - 1 => l = (m - f) + 1) /\ (m >= g => l = g - f)
    BY <1>9
  <2> HIDE DEF l, L
  <2>2. l = g - f
    BY <1>1, <2>1
  <2>3. QED
    BY <2>2 DEF l, L
<1> DEFINE t == SubSeq(s, f, g - 1)
<1>11. t \in Seq(T) /\ Len(t) = L /\ \A i \in 1 .. L : t[i] = s[f + i - 1]
  <2>1. f \in 1 .. Len(s) + 1 /\ g \in f .. Len(s) + 1
    BY <1>1 DEF m
  <2>2. f \in Nat /\ g - 1 \in Nat /\ f \in 1 .. (g - 1) + 1 /\ g - 1 \in f - 1 .. Len(s)
    BY <1>1, <2>1
  <2>3. Len(t) = L /\ \A i \in 1 .. L : t[i] = s[f + i - 1]
    BY <1>1, <2>2
  <2>4. \A i \in f .. g - 1 : s[i] \in T
    BY <1>1, <2>1
  <2>5. t \in Seq(T)
    BY <2>2, <2>4
  <2>6. QED
    BY <2>3, <2>5
<1> HIDE DEF t, L
<1>12. u = t
  BY <1>8, <1>10, <1>11, SeqEqual
<1>13. QED
  BY <1>3, <1>12 DEF u, t

LEMMA OnlyIs ==
    ASSUME NEW e
    PROVE  Only({e}) = e
BY DEF Only

LEMMA TabledIs ==
    ASSUME NEW f
    PROVE  Tabled(f) = f
BY DEF Tabled

(***************************************************************************)
(* Bags, and their sums.                                                   *)
(***************************************************************************)
FiniteSubsets(S) == { D \in SUBSET S : IsFiniteSet(D) }

BagsOver(S) == UNION { [D -> Nat \ {0}] : D \in FiniteSubsets(S) }

LEMMA EmptyBagIs ==
    /\ DOMAIN EmptyBag = {}
    /\ \A S : EmptyBag \in BagsOver(S)
<1>1. EmptyBag = [e \in {} |-> 1]
  BY DEF EmptyBag, SetToBag
<1>2. DOMAIN EmptyBag = {}
  BY <1>1
<1>3. ASSUME NEW S
      PROVE  EmptyBag \in BagsOver(S)
  <2>1. EmptyBag \in [{} -> Nat \ {0}]
    BY <1>1
  <2>2. {} \in FiniteSubsets(S)
    BY FS_EmptySet DEF FiniteSubsets
  <2>3. QED
    BY <2>1, <2>2 DEF BagsOver
<1>4. QED
  BY <1>2, <1>3

LEMMA BagIs ==
    ASSUME NEW S, NEW b \in BagsOver(S)
    PROVE  /\ b \in [DOMAIN b -> Nat \ {0}]
           /\ DOMAIN b \subseteq S /\ IsFiniteSet(DOMAIN b)
           /\ \A e \in DOMAIN b : b[e] \in Nat /\ b[e] > 0
<1>1. PICK D \in FiniteSubsets(S) : b \in [D -> Nat \ {0}]
  BY DEF BagsOver
<1>2. DOMAIN b = D
  BY <1>1
<1>3. QED
  BY <1>1, <1>2 DEF FiniteSubsets

LEMMA BagOf ==
    ASSUME NEW S, NEW D \in FiniteSubsets(S), NEW b \in [D -> Nat \ {0}]
    PROVE  b \in BagsOver(S)
BY DEF BagsOver

LEMMA BagOfOne ==
    ASSUME NEW S, NEW e \in S
    PROVE  SetToBag({e}) \in BagsOver(S)
<1>1. {e} \in FiniteSubsets(S)
  BY FS_Singleton DEF FiniteSubsets
<1>2. SetToBag({e}) \in [{e} -> Nat \ {0}]
  BY DEF SetToBag
<1>3. QED
  BY <1>1, <1>2, BagOf

LEMMA BagSum ==
    ASSUME NEW S, NEW a \in BagsOver(S), NEW b \in BagsOver(S)
    PROVE  /\ a (+) b \in BagsOver(S)
           /\ DOMAIN (a (+) b) = DOMAIN a \cup DOMAIN b
           /\ \A e : Tallied(e, a (+) b) = Tallied(e, a) + Tallied(e, b)
<1> DEFINE D == DOMAIN a \cup DOMAIN b
<1>1. /\ DOMAIN a \subseteq S /\ IsFiniteSet(DOMAIN a) /\ \A e \in DOMAIN a : a[e] \in Nat /\ a[e] > 0
      /\ DOMAIN b \subseteq S /\ IsFiniteSet(DOMAIN b) /\ \A e \in DOMAIN b : b[e] \in Nat /\ b[e] > 0
  BY BagIs
<1>2. a (+) b = [e \in D |-> Tallied(e, a) + Tallied(e, b)]
  BY DEF (+), Tallied
<1>3. \A e : Tallied(e, a) \in Nat /\ Tallied(e, b) \in Nat
  BY <1>1 DEF Tallied
<1>4. \A e \in D : Tallied(e, a) + Tallied(e, b) \in Nat \ {0}
  <2>1. ASSUME NEW e \in D
        PROVE  Tallied(e, a) > 0 \/ Tallied(e, b) > 0
    BY <1>1 DEF Tallied
  <2> HIDE DEF D
  <2>2. QED
    BY <1>3, <2>1
<1>5. D \in FiniteSubsets(S)
  BY <1>1, FS_Union DEF FiniteSubsets
<1>6. \A e : e \notin D => Tallied(e, a) = 0 /\ Tallied(e, b) = 0
  BY DEF Tallied
<1> HIDE DEF D
<1>7. a (+) b \in [D -> Nat \ {0}]
  BY <1>2, <1>4
<1>8. a (+) b \in BagsOver(S)
  BY <1>5, <1>7, BagOf
<1>9. ASSUME NEW e
      PROVE  Tallied(e, a (+) b) = Tallied(e, a) + Tallied(e, b)
  <2>1. CASE e \in D
    <3>1. Tallied(e, a (+) b) = (a (+) b)[e]
      BY <1>7, <2>1 DEF Tallied
    <3>2. QED
      BY <1>2, <2>1, <3>1
  <2>2. CASE e \notin D
    <3>1. Tallied(e, a (+) b) = 0
      BY <1>7, <2>2 DEF Tallied
    <3>2. QED
      BY <1>6, <2>2, <3>1
  <2>3. QED
    BY <2>1, <2>2
<1>10. QED
  BY <1>7, <1>8, <1>9 DEF D

(***************************************************************************)
(* The number of copies in a bag: it may be summed in any order.           *)
(***************************************************************************)
IsSumming(f, b) ==
    /\ f \in [SUBSET DOMAIN b -> Nat] /\ f[{}] = 0
    /\ \A X \in SUBSET DOMAIN b : \A x \in X : f[X] = b[x] + f[X \ {x}]
    /\ BagCardinality(b) = f[DOMAIN b]

(* What holds of the empty set, and of a set when it holds of each that    *)
(* lacks one element, holds of the subsets of a finite set.                *)
LEMMA SubsetInduction ==
    ASSUME NEW D, IsFiniteSet(D), NEW R, {} \in R,
           \A X \in SUBSET D : X # {} /\ (\A x \in X : X \ {x} \in R) => X \in R
    PROVE  SUBSET D \subseteq R
<1> DEFINE m == Cardinality(D)
           P == { n \in 0 .. m : \A X \in SUBSET D : Cardinality(X) = n => X \in R }
<1>1. m \in Nat
  BY FS_CardinalityType
<1>2. \A X \in SUBSET D : IsFiniteSet(X) /\ Cardinality(X) \in Nat /\ Cardinality(X) <= m
  BY FS_Subset, FS_CardinalityType
<1> HIDE DEF m
<1>3. 0 \in P
  <2>1. \A X \in SUBSET D : Cardinality(X) = 0 => X = {}
    BY <1>2, FS_EmptySet
  <2>2. QED
    BY <1>1, <2>1
<1>4. ASSUME NEW n \in 0 .. m - 1, n \in P
      PROVE  n + 1 \in P
  <2> DEFINE k == n + 1
  <2>1. k \in 0 .. m /\ k # 0 /\ k - 1 = n
    BY <1>1
  <2> HIDE DEF k
  <2>2. ASSUME NEW X \in SUBSET D, Cardinality(X) = k
        PROVE  X \in R
    <3>1. X # {}
      BY <2>1, <2>2, FS_EmptySet
    <3>2. ASSUME NEW x \in X
          PROVE  X \ {x} \in R
      <4>1. Cardinality(X \ {x}) = n
        BY <1>2, <2>1, <2>2, FS_RemoveElement
      <4>2. X \ {x} \in SUBSET D
        OBVIOUS
      <4>3. QED
        BY <1>4, <4>1, <4>2
    <3>3. QED
      BY <3>1, <3>2
  <2>3. QED
    BY <2>1, <2>2 DEF k
<1>5. 0 .. m \subseteq P
  <2> HIDE DEF P
  <2>1. QED
    BY <1>1, <1>3, <1>4, UpTo
<1>6. ASSUME NEW X \in SUBSET D
      PROVE  X \in R
  <2>1. Cardinality(X) \in 0 .. m
    BY <1>1, <1>2
  <2>2. QED
    BY <1>5, <2>1
<1>7. QED
  BY <1>6

LEMMA SummingExists ==
    ASSUME NEW S, NEW b \in BagsOver(S)
    PROVE  \E f : IsSumming(f, b)
<1> DEFINE D == DOMAIN b
           m == Cardinality(D)
           elt(X) == CHOOSE e \in X : TRUE
           G(f) == [X \in SUBSET D |-> IF X = {} THEN 0 ELSE b[elt(X)] + f[X \ {elt(X)}]]
           F == [SUBSET D -> Nat]
           zero == [X \in SUBSET D |-> 0]
           step == [e \in F \X (1 .. m) |-> G(e[1])]
           sum == CHOOSE f : f = G(f)
<1>1. /\ IsFiniteSet(D) /\ m \in Nat /\ \A x \in D : b[x] \in Nat
  BY BagIs, FS_CardinalityType
<1>2. BagCardinality(b) = sum[D]
  BY DEF BagCardinality
<1>3. \A X \in SUBSET D : X # {} => elt(X) \in X /\ X \ {elt(X)} \in SUBSET D
  OBVIOUS
<1>4. \A X \in SUBSET D : \A x \in X : /\ Cardinality(X) \in Nat /\ Cardinality(X) > 0
                                       /\ Cardinality(X \ {x}) = Cardinality(X) - 1
                                       /\ Cardinality(X \ {x}) \in Nat
  <2> SUFFICES ASSUME NEW X \in SUBSET D, NEW x \in X
               PROVE  /\ Cardinality(X) \in Nat /\ Cardinality(X) > 0
                      /\ Cardinality(X \ {x}) = Cardinality(X) - 1
                      /\ Cardinality(X \ {x}) \in Nat
    OBVIOUS
  <2>1. IsFiniteSet(X) /\ IsFiniteSet(X \ {x})
    BY <1>1, FS_Subset, FS_RemoveElement
  <2>2. Cardinality(X) \in Nat /\ Cardinality(X \ {x}) \in Nat
    BY <2>1, FS_CardinalityType
  <2>3. Cardinality(X \ {x}) = Cardinality(X) - 1
    BY <2>1, FS_RemoveElement
  <2>4. QED
    BY <2>2, <2>3
<1>5. \A X \in SUBSET D : Cardinality(X) \in Nat /\ Cardinality(X) <= m /\ (Cardinality(X) = 0 => X = {})
  <2> SUFFICES ASSUME NEW X \in SUBSET D
               PROVE  Cardinality(X) \in Nat /\ Cardinality(X) <= m /\ (Cardinality(X) = 0 => X = {})
    OBVIOUS
  <2>1. IsFiniteSet(X) /\ Cardinality(X) <= m
    BY <1>1, FS_Subset
  <2>2. QED
    BY <2>1, FS_CardinalityType, FS_EmptySet
<1> HIDE DEF D, m, elt, sum
<1>6. \A f \in F : G(f) \in F
  <2> SUFFICES ASSUME NEW f \in F
               PROVE  G(f) \in F
    OBVIOUS
  <2>1. \A X \in SUBSET D : (IF X = {} THEN 0 ELSE b[elt(X)] + f[X \ {elt(X)}]) \in Nat
    BY <1>1, <1>3
  <2>2. QED
    BY <2>1
<1>7. zero \in F
  OBVIOUS
<1>8. step \in [F \X (1 .. m) -> F]
  <2> HIDE DEF G, F
  <2>1. QED
    BY <1>6
<1>9. PICK g : IsRun(g, F, zero, m, step)
  <2> HIDE DEF F, zero, step
  <2>1. QED
    BY <1>1, <1>7, <1>8, Recursion
<1>10. /\ g \in [0 .. m -> F] /\ g[0] = zero
       /\ \A n \in 1 .. m : g[n] = G(g[n - 1])
  <2>1. /\ g \in [0 .. m -> F] /\ g[0] = zero
        /\ \A n \in 1 .. m : g[n] = step[g[n - 1], n]
    BY <1>9 DEF IsRun
  <2>2. ASSUME NEW n \in 1 .. m
        PROVE  step[g[n - 1], n] = G(g[n - 1])
    <3> HIDE DEF F, G
    <3>1. n - 1 \in 0 .. m
      BY <1>1
    <3>2. <<g[n - 1], n>> \in F \X (1 .. m)
      BY <2>1, <3>1
    <3>3. QED
      BY <3>2
  <2>3. QED
    BY <2>1, <2>2
<1> DEFINE Settled(n) == \A X \in SUBSET D : Cardinality(X) <= n => G(g[n])[X] = g[n][X]
           P == { n \in 0 .. m : Settled(n) }
<1>11. \A f, X : X \in SUBSET D => G(f)[X] = IF X = {} THEN 0 ELSE b[elt(X)] + f[X \ {elt(X)}]
  OBVIOUS
<1>12. 0 \in P
  <2>1. 0 \in 0 .. m
    BY <1>1
  <2>2. \A X \in SUBSET D : Cardinality(X) <= 0 => X = {}
    BY <1>5
  <2>3. \A X \in SUBSET D : zero[X] = 0
    OBVIOUS
  <2> HIDE DEF G, zero
  <2>4. QED
    BY <1>10, <1>11, <2>1, <2>2, <2>3
<1> HIDE DEF G, F, zero, step
<1>13. ASSUME NEW n \in 0 .. m - 1, n \in P
       PROVE  n + 1 \in P
  <2> DEFINE k == n + 1
  <2>1. k \in 1 .. m /\ k \in 0 .. m /\ k - 1 = n /\ n \in Nat /\ Settled(n)
    BY <1>1, <1>13
  <2>2. \A i \in Nat : i <= k => i - 1 <= n
    BY <2>1
  <2> HIDE DEF k
  <2>3. g[k] = G(g[n])
    BY <1>10, <2>1
  <2>4. ASSUME NEW X \in SUBSET D, Cardinality(X) <= k, X # {}
        PROVE  G(g[k])[X] = g[k][X]
    <3> DEFINE e == elt(X)
               Y == X \ {e}
    <3>1. e \in X /\ Y \in SUBSET D
      BY <1>3, <2>4
    <3>2. Cardinality(Y) <= n
      BY <1>4, <2>2, <2>4, <3>1
    <3>3. G(g[n])[Y] = g[n][Y]
      BY <2>1, <3>1, <3>2
    <3>4. G(g[k])[X] = b[e] + g[k][Y]
      BY <1>11, <2>4
    <3>5. g[k][X] = b[e] + g[n][Y]
      BY <1>11, <2>3, <2>4
    <3>6. g[k][Y] = g[n][Y]
      BY <2>3, <3>3
    <3> HIDE DEF e, Y
    <3>7. QED
      BY <3>4, <3>5, <3>6
  <2>5. G(g[k])[{}] = g[k][{}]
    BY <1>11, <2>3
  <2>6. QED
    BY <2>1, <2>4, <2>5 DEF k
<1>14. m \in P
  <2> HIDE DEF P
  <2>1. 0 .. m \subseteq P
    BY <1>1, <1>12, <1>13, UpTo
  <2>2. QED
    BY <1>1, <2>1
<1>15. g[m] \in F /\ g[m] = G(g[m])
  <2>1. g[m] \in F /\ G(g[m]) \in F
    BY <1>1, <1>6, <1>10
  <2>2. \A X \in SUBSET D : G(g[m])[X] = g[m][X]
    BY <1>5, <1>14
  <2>3. QED
    BY <2>1, <2>2 DEF F
<1>16. sum = G(sum)
  BY <1>15 DEF sum
<1>17. /\ sum[{}] = 0
       /\ \A X \in SUBSET D : X # {} => sum[X] = b[elt(X)] + sum[X \ {elt(X)}]
  <2>1. \A X \in SUBSET D : sum[X] = IF X = {} THEN 0 ELSE b[elt(X)] + sum[X \ {elt(X)}]
    BY <1>11, <1>16
  <2>2. {} \in SUBSET D
    OBVIOUS
  <2>3. QED
    BY <2>1, <2>2
<1> DEFINE N == { X \in SUBSET D : sum[X] \in Nat }
<1>18. SUBSET D \subseteq N
  <2>1. {} \in N
    BY <1>17
  <2>2. ASSUME NEW X \in SUBSET D, X # {}, \A x \in X : X \ {x} \in N
        PROVE  X \in N
    <3> DEFINE p == b[elt(X)]
               q == sum[X \ {elt(X)}]
    <3>1. elt(X) \in X
      BY <1>3, <2>2
    <3>2. sum[X] = p + q /\ p \in Nat /\ q \in Nat
      BY <1>1, <1>17, <2>2, <3>1
    <3> HIDE DEF p, q
    <3>3. QED
      BY <3>2
  <2> HIDE DEF N
  <2>3. QED
    BY <1>1, <2>1, <2>2, SubsetInduction
<1>19. \A X \in SUBSET D : sum[X] \in Nat
  BY <1>18
<1> DEFINE Q == { X \in SUBSET D : \A x \in X : sum[X] = b[x] + sum[X \ {x}] }
<1>20. SUBSET D \subseteq Q
  <2>1. {} \in Q
    OBVIOUS
  <2>2. ASSUME NEW X \in SUBSET D, X # {}, \A x \in X : X \ {x} \in Q
        PROVE  X \in Q
    <3> DEFINE e == elt(X)
    <3>1. e \in X /\ sum[X] = b[e] + sum[X \ {e}]
      BY <1>3, <1>17, <2>2
    <3> HIDE DEF e
    <3>2. ASSUME NEW x \in X, x # e
          PROVE  sum[X] = b[x] + sum[X \ {x}]
      <4> DEFINE Y == (X \ {e}) \ {x}
                 s == sum[Y]
                 p == b[x]
                 q == b[e]
      <4>1. x \in X \ {e} /\ e \in X \ {x} /\ (X \ {x}) \ {e} = Y /\ Y \in SUBSET D
        BY <3>1, <3>2
      <4>2. sum[X \ {e}] = p + s
        BY <2>2, <3>1, <4>1
      <4>3. sum[X \ {x}] = q + s
        BY <2>2, <4>1
      <4>4. s \in Nat /\ p \in Nat /\ q \in Nat
        BY <1>1, <1>19, <3>1, <4>1
      <4>5. sum[X] = q + sum[X \ {e}]
        BY <3>1
      <4> HIDE DEF s, p, q
      <4>6. sum[X] = p + sum[X \ {x}]
        BY <4>2, <4>3, <4>4, <4>5
      <4>7. QED
        BY <4>6 DEF p
    <3>3. QED
      BY <3>1, <3>2
  <2> HIDE DEF Q
  <2>3. QED
    BY <1>1, <2>1, <2>2, SubsetInduction
<1>21. \A X \in SUBSET D : \A x \in X : sum[X] = b[x] + sum[X \ {x}]
  BY <1>20
<1>22. sum \in [SUBSET D -> Nat]
  <2>1. sum = [X \in SUBSET D |-> sum[X]]
    BY <1>16 DEF G
  <2>2. QED
    BY <1>19, <2>1
<1>23. IsSumming(sum, b)
  BY <1>2, <1>17, <1>21, <1>22 DEF IsSumming, D
<1>24. QED
  BY <1>23

LEMMA CardinalityIs ==
    ASSUME NEW S, NEW b \in BagsOver(S)
    PROVE  /\ BagCardinality(b) \in Nat
           /\ BagCardinality(b) = 0 <=> DOMAIN b = {}
<1>1. PICK f : IsSumming(f, b)
  BY SummingExists
<1> DEFINE D == DOMAIN b
<1>2. /\ f \in [SUBSET D -> Nat] /\ f[{}] = 0
      /\ \A X \in SUBSET D : \A x \in X : f[X] = b[x] + f[X \ {x}]
      /\ BagCardinality(b) = f[D]
  BY <1>1 DEF IsSumming
<1>3. \A x \in D : b[x] \in Nat /\ b[x] > 0
  BY BagIs
<1> HIDE DEF D
<1>4. f[D] \in Nat
  BY <1>2
<1>5. ASSUME NEW x \in D
      PROVE  f[D] # 0
  <2> DEFINE p == b[x]
             q == f[D \ {x}]
  <2>1. f[D] = p + q /\ p \in Nat /\ p > 0 /\ q \in Nat
    <3>1. D \ {x} \in SUBSET D /\ D \in SUBSET D
      OBVIOUS
    <3>2. QED
      BY <1>2, <1>3, <3>1
  <2> HIDE DEF p, q
  <2>2. QED
    BY <2>1
<1>6. QED
  BY <1>2, <1>4, <1>5 DEF D

LEMMA CardinalityAdds ==
    ASSUME NEW S, NEW a \in BagsOver(S), NEW b \in BagsOver(S)
    PROVE  BagCardinality(a (+) b) = BagCardinality(a) + BagCardinality(b)
<1> DEFINE c == a (+) b
           A == DOMAIN a
           B == DOMAIN b
           C == DOMAIN c
<1>1. c \in BagsOver(S) /\ C = A \cup B /\ \A e : Tallied(e, c) = Tallied(e, a) + Tallied(e, b)
  BY BagSum
<1> HIDE DEF c
<1>2. PICK f : IsSumming(f, a)
  BY SummingExists
<1>3. PICK g : IsSumming(g, b)
  BY SummingExists
<1>4. PICK h : IsSumming(h, c)
  BY <1>1, SummingExists
<1>5. /\ f \in [SUBSET A -> Nat] /\ f[{}] = 0 /\ BagCardinality(a) = f[A]
      /\ \A X \in SUBSET A : \A x \in X : f[X] = a[x] + f[X \ {x}]
  BY <1>2 DEF IsSumming
<1>6. /\ g \in [SUBSET B -> Nat] /\ g[{}] = 0 /\ BagCardinality(b) = g[B]
      /\ \A X \in SUBSET B : \A x \in X : g[X] = b[x] + g[X \ {x}]
  BY <1>3 DEF IsSumming
<1>7. /\ h \in [SUBSET C -> Nat] /\ h[{}] = 0 /\ BagCardinality(c) = h[C]
      /\ \A X \in SUBSET C : \A x \in X : h[X] = c[x] + h[X \ {x}]
  BY <1>4 DEF IsSumming
<1>8. /\ IsFiniteSet(C) /\ (\A x \in A : a[x] \in Nat) /\ (\A x \in B : b[x] \in Nat)
  BY <1>1, BagIs
<1>9. \A x \in C : c[x] = Tallied(x, a) + Tallied(x, b)
  BY <1>1 DEF Tallied
<1>10. \A x : Tallied(x, a) \in Nat /\ Tallied(x, b) \in Nat
  BY <1>8 DEF Tallied
<1> HIDE DEF A, B, C
<1>11. ASSUME NEW X \in SUBSET C, NEW x \in X
       PROVE  /\ f[X \cap A] = Tallied(x, a) + f[(X \ {x}) \cap A]
              /\ f[(X \ {x}) \cap A] \in Nat
  <2>1. X \cap A \in SUBSET A /\ (X \ {x}) \cap A \in SUBSET A
    OBVIOUS
  <2>2. f[X \cap A] \in Nat /\ f[(X \ {x}) \cap A] \in Nat
    BY <1>5, <2>1
  <2>3. CASE x \in A
    <3>1. x \in X \cap A /\ (X \cap A) \ {x} = (X \ {x}) \cap A
      BY <2>3
    <3>2. Tallied(x, a) = a[x]
      BY <2>3 DEF Tallied, A
    <3>3. QED
      BY <1>5, <2>1, <2>2, <3>1, <3>2
  <2>4. CASE x \notin A
    <3>1. X \cap A = (X \ {x}) \cap A
      BY <2>4
    <3>2. Tallied(x, a) = 0
      BY <2>4 DEF Tallied, A
    <3>3. \A n \in Nat : n = 0 + n
      OBVIOUS
    <3>4. QED
      BY <2>2, <3>1, <3>2, <3>3
  <2>5. QED
    BY <2>3, <2>4
<1>12. ASSUME NEW X \in SUBSET C, NEW x \in X
       PROVE  /\ g[X \cap B] = Tallied(x, b) + g[(X \ {x}) \cap B]
              /\ g[(X \ {x}) \cap B] \in Nat
  <2>1. X \cap B \in SUBSET B /\ (X \ {x}) \cap B \in SUBSET B
    OBVIOUS
  <2>2. g[X \cap B] \in Nat /\ g[(X \ {x}) \cap B] \in Nat
    BY <1>6, <2>1
  <2>3. CASE x \in B
    <3>1. x \in X \cap B /\ (X \cap B) \ {x} = (X \ {x}) \cap B
      BY <2>3
    <3>2. Tallied(x, b) = b[x]
      BY <2>3 DEF Tallied, B
    <3>3. QED
      BY <1>6, <2>1, <2>2, <3>1, <3>2
  <2>4. CASE x \notin B
    <3>1. X \cap B = (X \ {x}) \cap B
      BY <2>4
    <3>2. Tallied(x, b) = 0
      BY <2>4 DEF Tallied, B
    <3>3. \A n \in Nat : n = 0 + n
      OBVIOUS
    <3>4. QED
      BY <2>2, <3>1, <3>2, <3>3
  <2>5. QED
    BY <2>3, <2>4
<1> DEFINE R == { X \in SUBSET C : h[X] = f[X \cap A] + g[X \cap B] }
<1>13. {} \in R
  <2>1. {} \cap A = {} /\ {} \cap B = {} /\ {} \in SUBSET C
    OBVIOUS
  <2>2. QED
    BY <1>5, <1>6, <1>7, <2>1
<1>14. ASSUME NEW X \in SUBSET C, X # {}, \A x \in X : X \ {x} \in R
       PROVE  X \in R
  <2>1. PICK x \in X : TRUE
    BY <1>14
  <2> DEFINE Y == X \ {x}
             p == Tallied(x, a)
             q == Tallied(x, b)
             u == f[Y \cap A]
             v == g[Y \cap B]
  <2>2. /\ h[Y] = u + v /\ f[X \cap A] = p + u /\ g[X \cap B] = q + v
        /\ p \in Nat /\ q \in Nat /\ u \in Nat /\ v \in Nat
    BY <1>10, <1>11, <1>12, <1>14
  <2>3. h[X] = c[x] + h[Y] /\ c[x] = p + q
    BY <1>7, <1>9
  <2> HIDE DEF Y, p, q, u, v
  <2>4. h[X] = f[X \cap A] + g[X \cap B]
    BY <2>2, <2>3
  <2>5. QED
    BY <2>4
<1>15. C \in R
  <2> HIDE DEF R
  <2>1. SUBSET C \subseteq R
    BY <1>8, <1>13, <1>14, SubsetInduction
  <2>2. QED
    BY <2>1
<1>16. C \cap A = A /\ C \cap B = B
  BY <1>1 DEF A, B, C
<1>17. QED
  BY <1>5, <1>6, <1>7, <1>15, <1>16 DEF c

LEMMA TalliedIn ==
    ASSUME NEW S, NEW b \in BagsOver(S)
    PROVE  \A e : /\ Tallied(e, b) \in Nat
                  /\ Tallied(e, b) # 0 <=> e \in DOMAIN b
                  /\ e \notin S => Tallied(e, b) = 0
BY BagIs DEF Tallied

(* A bag is what it tallies.                                               *)
LEMMA BagsEqual ==
    ASSUME NEW S, NEW a \in BagsOver(S), NEW b \in BagsOver(S),
           \A e \in S : Tallied(e, a) = Tallied(e, b)
    PROVE  a = b
<1>1. \A e : Tallied(e, a) = Tallied(e, b)
  BY TalliedIn
<1>2. DOMAIN a = DOMAIN b
  BY <1>1, TalliedIn
<1>3. \A e \in DOMAIN a : a[e] = b[e]
  BY <1>1, <1>2 DEF Tallied
<1>4. a = [e \in DOMAIN a |-> a[e]] /\ b = [e \in DOMAIN b |-> b[e]]
  BY BagIs
<1>5. QED
  BY <1>2, <1>3, <1>4

(* What is left of a bag, and what a smaller one leaves of it.             *)
LEMMA BagPart ==
    ASSUME NEW S, NEW b \in BagsOver(S), NEW D \in SUBSET DOMAIN b
    PROVE  /\ [e \in D |-> b[e]] \in BagsOver(S)
           /\ \A e : Tallied(e, [x \in D |-> b[x]]) = IF e \in D THEN Tallied(e, b) ELSE 0
<1>1. IsFiniteSet(D) /\ D \subseteq S
  BY BagIs, FS_Subset
<1>2. [e \in D |-> b[e]] \in [D -> Nat \ {0}]
  BY BagIs
<1>3. D \in FiniteSubsets(S)
  BY <1>1 DEF FiniteSubsets
<1>4. [e \in D |-> b[e]] \in BagsOver(S)
  BY <1>2, <1>3, BagOf
<1>5. \A e : Tallied(e, [x \in D |-> b[x]]) = IF e \in D THEN Tallied(e, b) ELSE 0
  BY DEF Tallied
<1>6. QED
  BY <1>4, <1>5

LEMMA BagMinus ==
    ASSUME NEW S, NEW a \in BagsOver(S), NEW b \in BagsOver(S)
    PROVE  /\ a (-) b \in BagsOver(S)
           /\ \A e : Tallied(e, b) <= Tallied(e, a) =>
                        Tallied(e, a (-) b) = Tallied(e, a) - Tallied(e, b)
           /\ \A e : Tallied(e, b) = 0 => Tallied(e, a (-) b) = Tallied(e, a)
<1> DEFINE left == [e \in DOMAIN a |-> IF e \in DOMAIN b THEN a[e] - b[e] ELSE a[e]]
           D == { d \in DOMAIN left : left[d] > 0 }
<1>1. a (-) b = [e \in D |-> left[e]]
  BY DEF (-)
<1>2. /\ \A e \in DOMAIN a : a[e] \in Nat /\ a[e] > 0
      /\ \A e \in DOMAIN b : b[e] \in Nat /\ b[e] > 0
      /\ IsFiniteSet(DOMAIN a) /\ DOMAIN a \subseteq S
  BY BagIs
<1>3. \A e \in DOMAIN a : left[e] \in Int /\ left[e] = a[e] - Tallied(e, b)
  BY <1>2 DEF Tallied
<1>4. DOMAIN left = DOMAIN a
  OBVIOUS
<1> HIDE DEF left
<1>5. D \in FiniteSubsets(S)
  BY <1>2, <1>4, FS_Subset DEF FiniteSubsets
<1>6. [e \in D |-> left[e]] \in [D -> Nat \ {0}]
  BY <1>3, <1>4
<1>7. a (-) b \in BagsOver(S)
  BY <1>1, <1>5, <1>6, BagOf
<1>8. \A e : /\ e \in D => Tallied(e, a (-) b) = left[e]
             /\ e \notin D => Tallied(e, a (-) b) = 0
  BY <1>1 DEF Tallied
<1>9. \A e : Tallied(e, a) \in Nat /\ Tallied(e, b) \in Nat
  BY TalliedIn
<1>10. \A e : /\ e \in DOMAIN a => e \in DOMAIN left /\ left[e] = Tallied(e, a) - Tallied(e, b)
              /\ e \notin DOMAIN a => Tallied(e, a) = 0 /\ e \notin DOMAIN left
  BY <1>3, <1>4 DEF Tallied
<1>11. ASSUME NEW e, Tallied(e, b) <= Tallied(e, a)
       PROVE  Tallied(e, a (-) b) = Tallied(e, a) - Tallied(e, b)
  <2> DEFINE p == Tallied(e, a)
             q == Tallied(e, b)
             r == Tallied(e, a (-) b)
  <2>1. p \in Nat /\ q \in Nat /\ q <= p
    BY <1>9, <1>11
  <2>2. CASE e \in DOMAIN a
    <3>1. e \in DOMAIN left /\ left[e] = p - q
      BY <1>10, <2>2
    <3>2. e \in D => r = left[e]
      BY <1>8
    <3>3. e \notin D => r = 0 /\ ~ (left[e] > 0)
      BY <1>8, <3>1
    <3> HIDE DEF p, q, r, D
    <3>4. r = p - q
      BY <2>1, <3>1, <3>2, <3>3
    <3>5. QED
      BY <3>4 DEF p, q, r
  <2>3. CASE e \notin DOMAIN a
    <3>1. p = 0 /\ r = 0
      BY <1>8, <1>10, <2>3
    <3> HIDE DEF p, q, r, D
    <3>2. r = p - q
      BY <2>1, <3>1
    <3>3. QED
      BY <3>2 DEF p, q, r
  <2>4. QED
    BY <2>2, <2>3
<1>12. ASSUME NEW e, Tallied(e, b) = 0
       PROVE  Tallied(e, a (-) b) = Tallied(e, a)
  <2>1. \A n \in Nat : 0 <= n /\ n - 0 = n
    OBVIOUS
  <2>2. QED
    BY <1>9, <1>11, <1>12, <2>1
<1>13. QED
  BY <1>7, <1>11, <1>12

(***************************************************************************)
(* The sum of a sequence of bags.                                          *)
(***************************************************************************)
IsSum(sum, S, bags) ==
    /\ sum \in [0 .. Len(bags) -> BagsOver(S)]
    /\ sum[0] = EmptyBag
    /\ \A n \in 1 .. Len(bags) : sum[n] = sum[n - 1] (+) bags[n]
    /\ SumOf(bags) = sum[Len(bags)]

LEMMA SumSteps ==
    ASSUME NEW S, NEW bags \in Seq(BagsOver(S))
    PROVE  \E sum : IsSum(sum, S, bags)
<1> DEFINE m == Len(bags)
           T == BagsOver(S)
           Body(f) == [n \in 0 .. m |-> IF n = 0 THEN EmptyBag ELSE f[n - 1] (+) bags[n]]
           sum == CHOOSE f : f = Body(f)
           step == [e \in T \X (1 .. m) |-> e[1] (+) bags[e[2]]]
<1>1. m \in Nat /\ \A n \in 1 .. m : bags[n] \in T
  OBVIOUS
<1>2. SumOf(bags) = sum[m]
  BY DEF SumOf
<1>3. EmptyBag \in T
  BY EmptyBagIs
<1>4. \A a \in T : \A n \in 1 .. m : a (+) bags[n] \in T
  <2> SUFFICES ASSUME NEW a \in T, NEW n \in 1 .. m
               PROVE  a (+) bags[n] \in T
    OBVIOUS
  <2>1. a \in BagsOver(S) /\ bags[n] \in BagsOver(S)
    BY <1>1
  <2>2. QED
    BY <2>1, BagSum
<1> HIDE DEF m, T
<1>5. step \in [T \X (1 .. m) -> T]
  BY <1>4
<1>6. PICK g : IsRun(g, T, EmptyBag, m, step)
  <2> HIDE DEF step
  <2>1. QED
    BY <1>1, <1>3, <1>5, Recursion
<1>7. /\ g \in [0 .. m -> T] /\ g[0] = EmptyBag
      /\ \A n \in 1 .. m : g[n] = g[n - 1] (+) bags[n]
  <2>1. g \in [0 .. m -> T] /\ g[0] = EmptyBag /\ \A n \in 1 .. m : g[n] = step[g[n - 1], n]
    BY <1>6 DEF IsRun
  <2>2. ASSUME NEW n \in 1 .. m
        PROVE  step[g[n - 1], n] = g[n - 1] (+) bags[n]
    <3>1. n - 1 \in 0 .. m
      BY <1>1
    <3>2. <<g[n - 1], n>> \in T \X (1 .. m)
      BY <2>1, <3>1
    <3>3. QED
      BY <3>2
  <2>3. QED
    BY <2>1, <2>2
<1>8. g = Body(g)
  <2>1. \A n \in 0 .. m : n = 0 \/ (n \in 1 .. m /\ n # 0)
    BY <1>1
  <2>2. \A n \in 0 .. m : g[n] = Body(g)[n]
    BY <1>7, <2>1
  <2>3. g = [n \in 0 .. m |-> g[n]]
    BY <1>7
  <2>4. Body(g) = [n \in 0 .. m |-> Body(g)[n]]
    OBVIOUS
  <2> HIDE DEF Body
  <2>5. QED
    BY <2>2, <2>3, <2>4
<1>9. sum = Body(sum)
  <2> HIDE DEF Body
  <2>1. QED
    BY <1>8
<1> HIDE DEF sum
<1>10. /\ sum[0] = EmptyBag
       /\ \A n \in 1 .. m : sum[n] = sum[n - 1] (+) bags[n]
  <2>1. \A n \in 0 .. m : Body(sum)[n] = IF n = 0 THEN EmptyBag ELSE sum[n - 1] (+) bags[n]
    OBVIOUS
  <2> HIDE DEF Body
  <2>2. 0 \in 0 .. m /\ \A n \in 1 .. m : n \in 0 .. m /\ n # 0
    BY <1>1
  <2>3. QED
    BY <1>9, <2>1, <2>2
<1> DEFINE P == { n \in 0 .. m : sum[n] \in T }
<1>11. 0 \in P
  BY <1>1, <1>3, <1>10
<1>12. ASSUME NEW n \in 0 .. m - 1, n \in P
       PROVE  n + 1 \in P
  <2> DEFINE k == n + 1
  <2>1. k \in 1 .. m /\ k \in 0 .. m /\ k - 1 = n /\ sum[n] \in T
    BY <1>1, <1>12
  <2> HIDE DEF k
  <2>2. sum[k] \in T
    BY <1>4, <1>10, <2>1
  <2>3. QED
    BY <2>1, <2>2 DEF k
<1>13. \A n \in 0 .. m : sum[n] \in T
  <2> HIDE DEF P
  <2>1. 0 .. m \subseteq P
    BY <1>1, <1>11, <1>12, UpTo
  <2>2. QED
    BY <2>1 DEF P
<1>14. sum \in [0 .. m -> T]
  <2>1. sum = [n \in 0 .. m |-> sum[n]]
    BY <1>9 DEF Body
  <2>2. QED
    BY <1>13, <2>1
<1>15. IsSum(sum, S, bags)
  BY <1>2, <1>10, <1>14 DEF IsSum, m, T
<1>16. QED
  BY <1>15

LEMMA SumIn ==
    ASSUME NEW S, NEW bags \in Seq(BagsOver(S))
    PROVE  SumOf(bags) \in BagsOver(S)
<1>1. PICK sum : IsSum(sum, S, bags)
  BY SumSteps
<1>2. Len(bags) \in 0 .. Len(bags)
  OBVIOUS
<1>3. QED
  BY <1>1, <1>2 DEF IsSum

LEMMA SumAppend ==
    ASSUME NEW S, NEW bags \in Seq(BagsOver(S)), NEW b \in BagsOver(S)
    PROVE  SumOf(Append(bags, b)) = SumOf(bags) (+) b
<1> DEFINE more == Append(bags, b)
           m == Len(bags)
           k == m + 1
<1>1. /\ m \in Nat /\ more \in Seq(BagsOver(S)) /\ Len(more) = k /\ more[k] = b
      /\ \A n \in 1 .. m : more[n] = bags[n]
  OBVIOUS
<1>2. PICK f : IsSum(f, S, bags)
  BY SumSteps
<1>3. PICK g : IsSum(g, S, more)
  BY <1>1, SumSteps
<1> HIDE DEF more
<1>4. /\ f[0] = EmptyBag /\ SumOf(bags) = f[m]
      /\ \A n \in 1 .. m : f[n] = f[n - 1] (+) bags[n]
  BY <1>2 DEF IsSum
<1>5. /\ g[0] = EmptyBag /\ SumOf(more) = g[k]
      /\ \A n \in 1 .. k : g[n] = g[n - 1] (+) more[n]
  BY <1>1, <1>3 DEF IsSum
<1> DEFINE P == { n \in 0 .. m : g[n] = f[n] }
<1>6. 0 .. m \subseteq P
  <2>1. 0 \in P
    BY <1>1, <1>4, <1>5
  <2>2. ASSUME NEW n \in 0 .. m - 1, n \in P
        PROVE  n + 1 \in P
    <3> DEFINE j == n + 1
    <3>1. j \in 1 .. m /\ j \in 1 .. k /\ j \in 0 .. m /\ j - 1 = n
      BY <1>1
    <3> HIDE DEF j, k
    <3>2. g[j] = f[j]
      BY <1>1, <1>4, <1>5, <2>2, <3>1
    <3>3. QED
      BY <3>1, <3>2 DEF j
  <2> HIDE DEF P
  <2>3. QED
    BY <1>1, <2>1, <2>2, UpTo
<1>7. m \in 0 .. m /\ k \in 1 .. k /\ k - 1 = m
  BY <1>1
<1> HIDE DEF k
<1>8. g[m] = f[m]
  BY <1>6, <1>7
<1>9. QED
  BY <1>1, <1>4, <1>5, <1>7, <1>8 DEF more

(* One bag of the sum exchanged for another.                               *)
Exchanged(u, v, i) ==
    /\ Len(u) = Len(v) /\ i \in 1 .. Len(u)
    /\ \A n \in 1 .. Len(u) : n # i => u[n] = v[n]

LEMMA SumExchanged ==
    ASSUME NEW S, NEW u \in Seq(BagsOver(S)), NEW v \in Seq(BagsOver(S)), NEW i, Exchanged(u, v, i),
           NEW e
    PROVE  /\ Tallied(e, u[i]) <= Tallied(e, SumOf(u))
           /\ Tallied(e, SumOf(v)) = Tallied(e, SumOf(u)) - Tallied(e, u[i]) + Tallied(e, v[i])
<1> DEFINE m == Len(u)
           x == Tallied(e, u[i])
           y == Tallied(e, v[i])
<1>1. /\ m \in Nat /\ Len(v) = m /\ i \in 1 .. m
      /\ \A n \in 1 .. m : n # i => u[n] = v[n]
      /\ \A n \in 1 .. m : u[n] \in BagsOver(S) /\ v[n] \in BagsOver(S)
  BY DEF Exchanged
<1>2. PICK f : IsSum(f, S, u)
  BY SumSteps
<1>3. PICK g : IsSum(g, S, v)
  BY SumSteps
<1> HIDE DEF m
<1>4. /\ f \in [0 .. m -> BagsOver(S)] /\ f[0] = EmptyBag /\ SumOf(u) = f[m]
      /\ \A n \in 1 .. m : f[n] = f[n - 1] (+) u[n]
  BY <1>2 DEF IsSum, m
<1>5. /\ g \in [0 .. m -> BagsOver(S)] /\ g[0] = EmptyBag /\ SumOf(v) = g[m]
      /\ \A n \in 1 .. m : g[n] = g[n - 1] (+) v[n]
  BY <1>1, <1>3 DEF IsSum
<1> DEFINE F == [n \in 0 .. m |-> Tallied(e, f[n])]
           G == [n \in 0 .. m |-> Tallied(e, g[n])]
           U == [n \in 1 .. m |-> Tallied(e, u[n])]
           V == [n \in 1 .. m |-> Tallied(e, v[n])]
<1>6. F \in [0 .. m -> Nat] /\ G \in [0 .. m -> Nat] /\ U \in [1 .. m -> Nat] /\ V \in [1 .. m -> Nat]
  <2>1. \A n \in 0 .. m : Tallied(e, f[n]) \in Nat /\ Tallied(e, g[n]) \in Nat
    BY <1>4, <1>5, TalliedIn
  <2>2. \A n \in 1 .. m : Tallied(e, u[n]) \in Nat /\ Tallied(e, v[n]) \in Nat
    BY <1>1, TalliedIn
  <2>3. QED
    BY <2>1, <2>2
<1>7. F[0] = 0 /\ G[0] = 0
  <2>1. Tallied(e, EmptyBag) = 0
    BY EmptyBagIs DEF Tallied
  <2>2. 0 \in 0 .. m
    BY <1>1
  <2>3. QED
    BY <1>4, <1>5, <2>1, <2>2
<1>8. \A n \in 1 .. m : F[n] = F[n - 1] + U[n] /\ G[n] = G[n - 1] + V[n] /\ (n # i => U[n] = V[n])
  <2> SUFFICES ASSUME NEW n \in 1 .. m
               PROVE  F[n] = F[n - 1] + U[n] /\ G[n] = G[n - 1] + V[n] /\ (n # i => U[n] = V[n])
    OBVIOUS
  <2>1. n \in 0 .. m /\ n - 1 \in 0 .. m
    BY <1>1
  <2>2. f[n - 1] \in BagsOver(S) /\ u[n] \in BagsOver(S) /\ g[n - 1] \in BagsOver(S) /\ v[n] \in BagsOver(S)
    BY <1>1, <1>4, <1>5, <2>1
  <2> DEFINE p == f[n - 1]
             q == g[n - 1]
             r == u[n]
             t == v[n]
  <2>3. f[n] = p (+) r /\ g[n] = q (+) t
    BY <1>4, <1>5
  <2>4. p \in BagsOver(S) /\ q \in BagsOver(S) /\ r \in BagsOver(S) /\ t \in BagsOver(S)
    BY <2>2
  <2> HIDE DEF p, q, r, t
  <2>5. \A z : Tallied(z, p (+) r) = Tallied(z, p) + Tallied(z, r)
    BY <2>4, BagSum
  <2>6. \A z : Tallied(z, q (+) t) = Tallied(z, q) + Tallied(z, t)
    BY <2>4, BagSum
  <2>7. QED
    BY <1>1, <2>1, <2>3, <2>5, <2>6 DEF p, q, r, t
<1>9. x = U[i] /\ y = V[i] /\ Tallied(e, SumOf(u)) = F[m] /\ Tallied(e, SumOf(v)) = G[m]
  <2>1. m \in 0 .. m
    BY <1>1
  <2>2. QED
    BY <1>1, <1>4, <1>5, <2>1
<1>10. x \in Nat /\ y \in Nat
  BY <1>1, <1>6, <1>9
<1> HIDE DEF F, G, U, V, x, y
<1> DEFINE P == { n \in 0 .. m : IF n < i THEN G[n] = F[n]
                                 ELSE x <= F[n] /\ G[n] + x = F[n] + y }
<1>11. 0 .. m \subseteq P
  <2>1. 0 \in P
    BY <1>1, <1>7
  <2>2. ASSUME NEW n \in 0 .. m - 1, n \in P
        PROVE  n + 1 \in P
    <3> DEFINE j == n + 1
               a == F[n]
               b == G[n]
               c == U[j]
               d == V[j]
    <3>1. j \in 1 .. m /\ j \in 0 .. m /\ j - 1 = n /\ n \in Nat /\ n \in 0 .. m /\ i \in Nat
          /\ (n < i <=> j <= i) /\ (j < i <=> (j <= i /\ j # i))
      BY <1>1
    <3> HIDE DEF j
    <3>2. /\ F[j] = a + c /\ G[j] = b + d /\ (j # i => c = d) /\ (j = i => c = x /\ d = y)
      BY <1>8, <1>9, <3>1
    <3>3. a \in Nat /\ b \in Nat /\ c \in Nat /\ d \in Nat
      BY <1>6, <3>1
    <3>4. IF j <= i THEN b = a ELSE x <= a /\ b + x = a + y
      BY <2>2, <3>1
    <3> HIDE DEF a, b, c, d
    <3>5. IF j < i THEN G[j] = F[j] ELSE x <= F[j] /\ G[j] + x = F[j] + y
      <4>1. CASE j < i
        BY <3>1, <3>2, <3>4, <4>1
      <4>2. CASE j = i
        <5>1. b = a /\ c = x /\ d = y
          BY <3>1, <3>2, <3>4, <4>2
        <5>2. x <= a + x /\ (a + y) + x = (a + x) + y
          BY <1>10, <3>3
        <5>3. QED
          BY <3>1, <3>2, <4>2, <5>1, <5>2
      <4>3. CASE ~ (j <= i)
        <5>1. x <= a /\ b + x = a + y /\ c = d
          BY <3>1, <3>2, <3>4, <4>3
        <5>2. x <= a + c /\ (b + c) + x = (a + c) + y
          BY <1>10, <3>3, <5>1
        <5>3. QED
          BY <3>1, <3>2, <4>3, <5>1, <5>2
      <4>4. QED
        BY <3>1, <4>1, <4>2, <4>3
    <3>6. QED
      BY <3>1, <3>5 DEF j
  <2> HIDE DEF P
  <2>3. QED
    BY <1>1, <2>1, <2>2, UpTo
<1>12. x <= F[m] /\ G[m] + x = F[m] + y /\ F[m] \in Nat /\ G[m] \in Nat
  <2>1. m \in 0 .. m /\ ~ (m < i)
    BY <1>1
  <2>2. QED
    BY <1>6, <1>11, <2>1
<1>13. G[m] = F[m] - x + y
  <2> DEFINE a == F[m]
             b == G[m]
  <2>1. a \in Nat /\ b \in Nat /\ b + x = a + y
    BY <1>12
  <2> HIDE DEF a, b
  <2>2. b = a - x + y
    BY <1>10, <2>1
  <2>3. QED
    BY <2>2 DEF a, b
<1>14. QED
  BY <1>9, <1>12, <1>13 DEF x, y

(***************************************************************************)
(* A recursion as its definition writes it: the chosen function takes the  *)
(* step wherever the value before is one of the set, and so always.        *)
(***************************************************************************)
IsChosen(walk, T, a, m, step) ==
    /\ walk = [n \in 0 .. m |-> walk[n]]
    /\ walk[0] = a
    /\ \A n \in 1 .. m : walk[n - 1] \in T => walk[n] = step[walk[n - 1], n]

LEMMA ChosenRun ==
    ASSUME NEW T, NEW a \in T, NEW m \in Nat, NEW step \in [T \X (1 .. m) -> T], NEW walk,
           IsChosen(walk, T, a, m, step)
    PROVE  IsRun(walk, T, a, m, step)
<1> DEFINE P == { n \in 0 .. m : walk[n] \in T }
<1>1. /\ walk[0] = a
      /\ \A n \in 1 .. m : walk[n - 1] \in T => walk[n] = step[walk[n - 1], n]
  BY DEF IsChosen
<1>2. 0 \in P
  <2>1. 0 \in 0 .. m
    OBVIOUS
  <2>2. QED
    BY <1>1, <2>1
<1>3. ASSUME NEW n \in 0 .. m - 1, n \in P
      PROVE  n + 1 \in P
  <2> DEFINE k == n + 1
  <2>1. k \in 1 .. m /\ k \in 0 .. m /\ k - 1 = n /\ n \in 0 .. m
    OBVIOUS
  <2> HIDE DEF k
  <2>2. walk[n] \in T
    BY <1>3
  <2>3. walk[k] = step[walk[n], k]
    BY <1>1, <2>1, <2>2
  <2>4. walk[k] \in T
    BY <2>1, <2>2, <2>3
  <2>5. QED
    BY <2>1, <2>4 DEF k
<1> HIDE DEF P
<1>4. 0 .. m \subseteq P
  BY <1>2, <1>3, UpTo
<1>5. \A n \in 0 .. m : walk[n] \in T
  BY <1>4 DEF P
<1>6. \A n \in 1 .. m : n - 1 \in 0 .. m
  OBVIOUS
<1>7. walk \in [0 .. m -> T]
  BY <1>5 DEF IsChosen
<1>8. QED
  BY <1>1, <1>5, <1>6, <1>7 DEF IsRun

(* A property that the start has and that a step keeps holds all along.    *)
IsKept(R, T, m, step) == \A n \in 1 .. m : \A x \in R \cap T : step[x, n] \in R

LEMMA RunKeeps ==
    ASSUME NEW T, NEW a, NEW m \in Nat, NEW step, NEW f, IsRun(f, T, a, m, step),
           NEW R, a \in R, IsKept(R, T, m, step)
    PROVE  \A n \in 0 .. m : f[n] \in R
<1> DEFINE P == { n \in 0 .. m : f[n] \in R }
<1>1. f[0] = a /\ (\A n \in 1 .. m : f[n] = step[f[n - 1], n]) /\ \A n \in 0 .. m : f[n] \in T
  BY DEF IsRun
<1>2. 0 \in P
  <2>1. 0 \in 0 .. m
    OBVIOUS
  <2>2. QED
    BY <1>1, <2>1
<1>3. ASSUME NEW n \in 0 .. m - 1, n \in P
      PROVE  n + 1 \in P
  <2> DEFINE k == n + 1
  <2>1. k \in 1 .. m /\ k \in 0 .. m /\ k - 1 = n /\ n \in 0 .. m
    OBVIOUS
  <2> HIDE DEF k
  <2>2. f[n] \in R \cap T
    BY <1>1, <1>3, <2>1
  <2>3. f[k] = step[f[n], k]
    BY <1>1, <2>1
  <2>4. f[k] \in R
    BY <2>1, <2>2, <2>3 DEF IsKept
  <2>5. QED
    BY <2>1, <2>4 DEF k
<1> HIDE DEF P
<1>4. 0 .. m \subseteq P
  BY <1>2, <1>3, UpTo
<1>5. QED
  BY <1>4 DEF P

(***************************************************************************)
(* Totals.                                                                 *)
(***************************************************************************)
IsTotal(total, numbers) ==
    /\ total \in [0 .. Len(numbers) -> Int]
    /\ total[0] = 0
    /\ \A n \in 1 .. Len(numbers) : total[n] = total[n - 1] + numbers[n]
    /\ TotalOf(numbers) = total[Len(numbers)]

LEMMA TotalSteps ==
    ASSUME NEW numbers \in Seq(Int)
    PROVE  \E total : IsTotal(total, numbers)
<1> DEFINE m == Len(numbers)
           F(x, n) == x + numbers[n]
           Body(f) == [n \in 0 .. m |-> IF n = 0 THEN 0 ELSE F(f[n - 1], n)]
           total == CHOOSE f : f = Body(f)
           step == [e \in Int \X (1 .. m) |-> F(e[1], e[2])]
<1>1. m \in Nat /\ \A n \in 1 .. m : numbers[n] \in Int
  OBVIOUS
<1>2. TotalOf(numbers) = total[m]
  BY DEF TotalOf
<1>3. step \in [Int \X (1 .. m) -> Int]
  BY <1>1
<1>4. \A x \in Int : \A n \in 1 .. m : step[x, n] = F(x, n)
  OBVIOUS
<1> HIDE DEF m, F, step
<1>5. PICK g : IsRun(g, Int, 0, m, step)
  <2> DEFINE T == Int
             zero == 0
  <2>1. zero \in T /\ step \in [T \X (1 .. m) -> T]
    BY <1>3
  <2> HIDE DEF T, zero
  <2>2. \E g : IsRun(g, T, zero, m, step)
    BY <1>1, <2>1, Recursion
  <2>3. QED
    BY <2>2 DEF T, zero
<1>6. g \in [0 .. m -> Int] /\ g[0] = 0 /\ \A n \in 1 .. m : g[n] = F(g[n - 1], n)
  <2>1. \A n \in 1 .. m : n - 1 \in 0 .. m
    BY <1>1
  <2>2. QED
    BY <1>4, <1>5, <2>1 DEF IsRun
<1>7. g = Body(g)
  <2>1. \A n \in 0 .. m : n = 0 \/ n \in 1 .. m
    BY <1>1
  <2>2. QED
    BY <1>6, <2>1
<1>8. total = Body(total)
  <2> HIDE DEF Body
  <2>1. QED
    BY <1>7
<1> HIDE DEF total
<1>9. /\ total = [n \in 0 .. m |-> total[n]] /\ total[0] = 0
      /\ \A n \in 1 .. m : total[n] = F(total[n - 1], n)
  <2>1. 0 \in 0 .. m /\ \A n \in 1 .. m : n \in 0 .. m /\ n # 0
    BY <1>1
  <2>2. QED
    BY <1>8, <2>1
<1>10. IsRun(total, Int, 0, m, step)
  <2> DEFINE T == Int
             zero == 0
  <2>1. IsChosen(total, T, zero, m, step)
    BY <1>4, <1>9 DEF IsChosen
  <2>2. zero \in T /\ step \in [T \X (1 .. m) -> T]
    BY <1>3
  <2> HIDE DEF T, zero
  <2>3. IsRun(total, T, zero, m, step)
    BY <1>1, <2>1, <2>2, ChosenRun
  <2>4. QED
    BY <2>3 DEF T, zero
<1>11. QED
  BY <1>2, <1>9, <1>10 DEF IsTotal, IsRun, m, F

LEMMA TotalIn ==
    ASSUME NEW numbers \in Seq(Int)
    PROVE  TotalOf(numbers) \in Int
<1>1. PICK total : IsTotal(total, numbers)
  BY TotalSteps
<1>2. Len(numbers) \in 0 .. Len(numbers)
  OBVIOUS
<1>3. QED
  BY <1>1, <1>2 DEF IsTotal

LEMMA TotalExchanged ==
    ASSUME NEW u \in Seq(Int), NEW v \in Seq(Int), NEW i, Exchanged(u, v, i)
    PROVE  TotalOf(v) = TotalOf(u) - u[i] + v[i]
<1> DEFINE m == Len(u)
<1>1. /\ m \in Nat /\ Len(v) = m /\ i \in 1 .. m
      /\ \A n \in 1 .. m : n # i => u[n] = v[n]
      /\ \A n \in 1 .. m : u[n] \in Int /\ v[n] \in Int
  BY DEF Exchanged
<1>2. PICK f : IsTotal(f, u)
  BY TotalSteps
<1>3. PICK g : IsTotal(g, v)
  BY TotalSteps
<1> DEFINE P == { n \in 0 .. m : g[n] = IF n < i THEN f[n] ELSE f[n] - u[i] + v[i] }
<1>4. /\ f \in [0 .. m -> Int] /\ g \in [0 .. m -> Int] /\ f[0] = 0 /\ g[0] = 0
      /\ \A n \in 1 .. m : f[n] = f[n - 1] + u[n] /\ g[n] = g[n - 1] + v[n]
      /\ TotalOf(u) = f[m] /\ TotalOf(v) = g[m]
  BY <1>1, <1>2, <1>3 DEF IsTotal
<1> HIDE DEF m
<1>5. 0 \in P
  BY <1>1, <1>4
<1>6. ASSUME NEW n \in 0 .. m - 1, n \in P
      PROVE  n + 1 \in P
  <2> DEFINE k == n + 1
  <2>1. k \in 1 .. m /\ k - 1 = n /\ k \in 0 .. m /\ n \in 0 .. m
    BY <1>1
  <2>2. f[k] = f[n] + u[k] /\ g[k] = g[n] + v[k]
    BY <1>4, <2>1
  <2>3. f[k] \in Int /\ g[k] \in Int /\ u[k] \in Int /\ v[k] \in Int /\ f[n] \in Int /\ g[n] \in Int
        /\ u[i] \in Int /\ v[i] \in Int
    BY <1>1, <1>4, <2>1
  <2>4. g[n] = IF n < i THEN f[n] ELSE f[n] - u[i] + v[i]
    BY <1>6
  <2>5. CASE k < i
    <3>1. n < i /\ k # i
      BY <1>1, <2>1, <2>5
    <3>2. g[k] = f[k]
      BY <1>1, <2>1, <2>2, <2>4, <3>1
    <3>3. QED
      BY <2>1, <2>5, <3>2 DEF k
  <2>6. CASE k = i
    <3>1. n < i
      BY <1>1, <2>1, <2>6
    <3>2. f[k] = f[n] + u[i] /\ g[k] = f[n] + v[i]
      BY <2>2, <2>4, <2>6, <3>1
    <3>3. ~ (k < i)
      BY <1>1, <2>1, <2>6
    <3> DEFINE x == f[n]
               y == v[i]
               z == u[i]
    <3>4. x \in Int /\ y \in Int /\ z \in Int /\ f[k] = x + z /\ g[k] = x + y
      BY <2>3, <3>2
    <3> HIDE DEF x, y, z
    <3>5. g[k] = f[k] - z + y
      BY <3>4
    <3> HIDE DEF k
    <3>6. k \in P
      BY <2>1, <3>3, <3>5 DEF y, z
    <3>7. QED
      BY <3>6 DEF k
  <2>7. CASE k > i
    <3>1. ~ (n < i) /\ k # i /\ ~ (k < i)
      BY <1>1, <2>1, <2>7
    <3>2. u[k] = v[k] /\ g[n] = f[n] - u[i] + v[i]
      BY <1>1, <2>1, <2>4, <3>1
    <3>3. g[k] = (f[n] - u[i] + v[i]) + u[k] /\ f[k] = f[n] + u[k]
      BY <2>2, <3>2
    <3> DEFINE x == u[i]
               y == v[i]
               z == u[k]
               w == f[n]
    <3>4. x \in Int /\ y \in Int /\ z \in Int /\ w \in Int
      BY <2>3
    <3>5. g[k] = (w - x + y) + z /\ f[k] = w + z
      BY <3>3
    <3> HIDE DEF x, y, z, w
    <3>6. g[k] = f[k] - x + y
      BY <3>4, <3>5
    <3>7. QED
      BY <2>1, <3>1, <3>6 DEF k, x, y
  <2>8. QED
    BY <1>1, <2>1, <2>5, <2>6, <2>7
<1> HIDE DEF P
<1>7. 0 .. m \subseteq P
  BY <1>1, <1>5, <1>6, UpTo
<1>8. m \in P /\ ~ (m < i)
  BY <1>1, <1>7
<1>9. QED
  BY <1>4, <1>8 DEF P

LEMMA TotalNat ==
    ASSUME NEW numbers \in Seq(Nat)
    PROVE  /\ TotalOf(numbers) \in Nat
           /\ \A i \in 1 .. Len(numbers) : numbers[i] <= TotalOf(numbers)
<1> DEFINE m == Len(numbers)
<1>1. m \in Nat /\ numbers \in Seq(Int) /\ \A n \in 1 .. m : numbers[n] \in Nat
  OBVIOUS
<1>2. PICK f : IsTotal(f, numbers)
  BY <1>1, TotalSteps
<1>3. /\ f \in [0 .. m -> Int] /\ f[0] = 0
      /\ \A n \in 1 .. m : f[n] = f[n - 1] + numbers[n]
      /\ TotalOf(numbers) = f[m]
  BY <1>2 DEF IsTotal
<1> DEFINE P == { n \in 0 .. m : f[n] >= 0 /\ \A i \in 1 .. n : numbers[i] <= f[n] }
<1> HIDE DEF m
<1>4. 0 \in P
  BY <1>1, <1>3
<1>5. ASSUME NEW n \in 0 .. m - 1, n \in P
      PROVE  n + 1 \in P
  <2> DEFINE k == n + 1
  <2>1. k \in 1 .. m /\ k - 1 = n /\ k \in 0 .. m /\ n \in 0 .. m
    BY <1>1
  <2>2. f[k] = f[n] + numbers[k] /\ numbers[k] \in Nat /\ f[n] \in Int /\ f[k] \in Int /\ f[n] >= 0
    BY <1>1, <1>3, <1>5, <2>1
  <2>3. ASSUME NEW i \in 1 .. k
        PROVE  numbers[i] <= f[k]
    <3>1. CASE i = k
      BY <2>2, <3>1
    <3>2. CASE i # k
      <4>1. i \in 1 .. n /\ i \in 1 .. m
        BY <1>1, <2>1, <3>2
      <4>2. numbers[i] <= f[n] /\ numbers[i] \in Nat
        BY <1>1, <1>5, <4>1
      <4>3. QED
        BY <2>2, <4>2
    <3>3. QED
      BY <3>1, <3>2
  <2>4. f[k] >= 0
    BY <2>2
  <2>5. QED
    BY <2>1, <2>3, <2>4 DEF k
<1> HIDE DEF P
<1>6. 0 .. m \subseteq P
  BY <1>1, <1>4, <1>5, UpTo
<1>7. m \in P
  BY <1>1, <1>6
<1>8. f[m] \in Int
  BY <1>1, <1>3
<1>9. QED
  BY <1>3, <1>7, <1>8 DEF P, m


(***************************************************************************)
(* Tallies over whatever keys they have, and their replacement.            *)
(***************************************************************************)
IsTally(b) == b \in BagsOver(DOMAIN b)

LEMMA TallyIn ==
    ASSUME NEW S, NEW b
    PROVE  /\ b \in BagsOver(S) => IsTally(b)
           /\ IsTally(b) /\ DOMAIN b \subseteq S => b \in BagsOver(S)
<1>1. ASSUME b \in BagsOver(S)
      PROVE  IsTally(b)
  <2>1. b \in [DOMAIN b -> Nat \ {0}] /\ IsFiniteSet(DOMAIN b)
    BY <1>1, BagIs
  <2>2. DOMAIN b \in FiniteSubsets(DOMAIN b)
    BY <2>1 DEF FiniteSubsets
  <2>3. QED
    BY <2>1, <2>2, BagOf DEF IsTally
<1>2. ASSUME IsTally(b), DOMAIN b \subseteq S
      PROVE  b \in BagsOver(S)
  <2>1. b \in [DOMAIN b -> Nat \ {0}] /\ IsFiniteSet(DOMAIN b)
    BY <1>2, BagIs DEF IsTally
  <2>2. DOMAIN b \in FiniteSubsets(S)
    BY <1>2, <2>1 DEF FiniteSubsets
  <2>3. QED
    BY <2>1, <2>2, BagOf
<1>3. QED
  BY <1>1, <1>2

LEMMA TallyOf ==
    ASSUME NEW D, IsFiniteSet(D), NEW b \in [D -> Nat \ {0}]
    PROVE  IsTally(b)
<1>1. D \in FiniteSubsets(D)
  BY DEF FiniteSubsets
<1>2. b \in BagsOver(D)
  BY <1>1, BagOf
<1>3. QED
  BY <1>2, TallyIn

LEMMA TallyIs ==
    ASSUME NEW b, IsTally(b)
    PROVE  /\ b \in [DOMAIN b -> Nat \ {0}] /\ IsFiniteSet(DOMAIN b)
           /\ \A e : /\ Tallied(e, b) \in Nat
                     /\ Tallied(e, b) # 0 <=> e \in DOMAIN b
<1>1. b \in BagsOver(DOMAIN b)
  BY DEF IsTally
<1>2. QED
  BY <1>1, BagIs, TalliedIn

LEMMA EmptyTally == IsTally(EmptyBag) /\ \A e : Tallied(e, EmptyBag) = 0
BY EmptyBagIs, TallyIn DEF Tallied

LEMMA TallySum ==
    ASSUME NEW a, NEW b, IsTally(a), IsTally(b)
    PROVE  IsTally(a (+) b) /\ \A e : Tallied(e, a (+) b) = Tallied(e, a) + Tallied(e, b)
<1> DEFINE S == DOMAIN a \cup DOMAIN b
<1>1. a \in BagsOver(S) /\ b \in BagsOver(S)
  BY TallyIn
<1>2. QED
  BY <1>1, BagSum, TallyIn

LEMMA TalliesEqual ==
    ASSUME NEW a, NEW b, IsTally(a), IsTally(b), \A e : Tallied(e, a) = Tallied(e, b)
    PROVE  a = b
<1> DEFINE S == DOMAIN a \cup DOMAIN b
<1>1. a \in BagsOver(S) /\ b \in BagsOver(S)
  BY TallyIn
<1>2. QED
  BY <1>1, BagsEqual

(* The keys a replacement leaves alone.                                    *)
LEMMA UnmovedKey ==
    ASSUME NEW t, NEW old, NEW new, NEW e, e \notin Moved(old, new)
    PROVE  Tallied(e, Replaced(t, old, new)) = Tallied(e, t)
<1> DEFINE moved == Moved(old, new)
           Count(k) == IF k \in moved THEN Tallied(k, t) + Tallied(k, new) - Tallied(k, old)
                       ELSE Tallied(k, t)
           D == { k \in (DOMAIN t) \cup moved : Count(k) # 0 }
<1>1. Replaced(t, old, new) = [k \in D |-> Count(k)]
  BY DEF Replaced
<1>2. Count(e) = Tallied(e, t)
  OBVIOUS
<1> HIDE DEF Count, moved
<1>3. e \in D <=> e \in DOMAIN t /\ Tallied(e, t) # 0
  BY <1>2 DEF moved
<1> HIDE DEF D
<1>4. CASE e \in D
  BY <1>1, <1>2, <1>4 DEF Tallied
<1>5. CASE e \notin D
  BY <1>1, <1>3, <1>5 DEF Tallied
<1>6. QED
  BY <1>4, <1>5

LEMMA ReplacedIs ==
    ASSUME NEW t, NEW old, NEW new, IsTally(t), IsTally(old), IsTally(new),
           \A e : Tallied(e, old) <= Tallied(e, t)
    PROVE  /\ IsTally(Replaced(t, old, new))
           /\ \A e : Tallied(e, Replaced(t, old, new))
                       = Tallied(e, t) - Tallied(e, old) + Tallied(e, new)
<1> DEFINE moved == Moved(old, new)
           Count(k) == IF k \in moved THEN Tallied(k, t) + Tallied(k, new) - Tallied(k, old)
                       ELSE Tallied(k, t)
           D == { k \in (DOMAIN t) \cup moved : Count(k) # 0 }
           r == Replaced(t, old, new)
<1>1. r = [k \in D |-> Count(k)]
  BY DEF Replaced
<1>2. \A e : Tallied(e, t) \in Nat /\ Tallied(e, old) \in Nat /\ Tallied(e, new) \in Nat
  BY TallyIs
<1>3. \A e : e \notin moved => Tallied(e, old) = Tallied(e, new)
  BY DEF Moved, Tallied
<1>4. ASSUME NEW e
      PROVE  Count(e) = Tallied(e, t) - Tallied(e, old) + Tallied(e, new) /\ Count(e) \in Nat
  <2> DEFINE x == Tallied(e, t)
             y == Tallied(e, old)
             z == Tallied(e, new)
  <2>1. x \in Nat /\ y \in Nat /\ z \in Nat /\ y <= x /\ (e \notin moved => y = z)
    BY <1>2, <1>3
  <2>2. Count(e) = IF e \in moved THEN x + z - y ELSE x
    OBVIOUS
  <2> HIDE DEF x, y, z, Count, moved
  <2>3. Count(e) = x - y + z /\ Count(e) \in Nat
    BY <2>1, <2>2
  <2>4. QED
    BY <2>3 DEF x, y, z
<1>5. moved \subseteq DOMAIN old \cup DOMAIN new
  BY DEF Moved
<1>6. IsFiniteSet(D)
  <2>1. IsFiniteSet(DOMAIN t \cup (DOMAIN old \cup DOMAIN new))
    BY TallyIs, FS_Union
  <2>2. D \subseteq DOMAIN t \cup (DOMAIN old \cup DOMAIN new)
    BY <1>5
  <2> HIDE DEF D
  <2>3. QED
    BY <2>1, <2>2, FS_Subset
<1> HIDE DEF Count
<1>7. \A e \in D : Count(e) \in Nat \ {0}
  BY <1>4
<1>8. ASSUME NEW e, e \notin D
      PROVE  Count(e) = 0
  <2>1. CASE e \in moved
    BY <1>8, <2>1
  <2>2. CASE e \notin moved /\ e \in DOMAIN t
    BY <1>8, <2>2
  <2>3. CASE e \notin moved /\ e \notin DOMAIN t
    BY <2>3 DEF Count, Tallied
  <2>4. QED
    BY <2>1, <2>2, <2>3
<1> HIDE DEF D, moved, r
<1>9. IsTally(r)
  <2>1. r \in [D -> Nat \ {0}]
    BY <1>1, <1>7
  <2>2. QED
    BY <1>6, <2>1, TallyOf
<1>10. \A e : Tallied(e, r) = Count(e)
  BY <1>1, <1>8 DEF Tallied
<1>11. QED
  BY <1>4, <1>9, <1>10 DEF r

(***************************************************************************)
(* Sequences of tallies.                                                   *)
(***************************************************************************)
AreTallies(u, m) ==
    /\ m \in Nat
    /\ u = [n \in 1 .. m |-> u[n]]
    /\ \A n \in 1 .. m : IsTally(u[n])

LEMMA TalliesIn ==
    ASSUME NEW m, NEW u, AreTallies(u, m), NEW S, \A n \in 1 .. m : DOMAIN u[n] \subseteq S
    PROVE  u \in Seq(BagsOver(S)) /\ Len(u) = m
<1>1. m \in Nat /\ u = [n \in 1 .. m |-> u[n]]
  BY DEF AreTallies
<1>2. \A n \in 1 .. m : u[n] \in BagsOver(S)
  BY TallyIn DEF AreTallies
<1>3. u \in [1 .. m -> BagsOver(S)]
  BY <1>1, <1>2
<1>4. QED
  BY <1>1, <1>3

LEMMA SumOfTallies ==
    ASSUME NEW m, NEW u, AreTallies(u, m)
    PROVE  IsTally(SumOf(u))
<1> DEFINE S == UNION { DOMAIN u[n] : n \in 1 .. m }
<1>1. u \in Seq(BagsOver(S))
  BY TalliesIn
<1>2. SumOf(u) \in BagsOver(S)
  BY <1>1, SumIn
<1>3. QED
  BY <1>2, TallyIn

LEMMA DomainInUnion ==
    ASSUME NEW I, NEW f, NEW n \in I
    PROVE  DOMAIN f[n] \subseteq UNION { DOMAIN f[k] : k \in I }
<1>1. DOMAIN f[n] \in { DOMAIN f[k] : k \in I }
  OBVIOUS
<1>2. QED
  BY <1>1, Zenon

SameBut(u, v, m, i) == i \in 1 .. m /\ \A n \in 1 .. m : n # i => u[n] = v[n]

LEMMA SumReplaced ==
    ASSUME NEW m, NEW u, NEW v, AreTallies(u, m), AreTallies(v, m), NEW i, SameBut(u, v, m, i)
    PROVE  Replaced(SumOf(u), u[i], v[i]) = SumOf(v)
<1> DEFINE U == UNION { DOMAIN u[k] : k \in 1 .. m }
           V == UNION { DOMAIN v[k] : k \in 1 .. m }
           S == U \cup V
           r == Replaced(SumOf(u), u[i], v[i])
<1>0. \A n \in 1 .. m : DOMAIN u[n] \subseteq S /\ DOMAIN v[n] \subseteq S
  <2>1. \A n \in 1 .. m : DOMAIN u[n] \subseteq U
    BY DomainInUnion
  <2>2. \A n \in 1 .. m : DOMAIN v[n] \subseteq V
    BY DomainInUnion
  <2> HIDE DEF U, V
  <2>3. QED
    BY <2>1, <2>2
<1> HIDE DEF S
<1>1. u \in Seq(BagsOver(S)) /\ Len(u) = m
  BY <1>0, TalliesIn
<1>2. v \in Seq(BagsOver(S)) /\ Len(v) = m
  BY <1>0, TalliesIn
<1>3. Exchanged(u, v, i)
  BY <1>1, <1>2 DEF Exchanged, SameBut
<1>4. \A e : /\ Tallied(e, u[i]) <= Tallied(e, SumOf(u))
             /\ Tallied(e, SumOf(v)) = Tallied(e, SumOf(u)) - Tallied(e, u[i]) + Tallied(e, v[i])
  BY <1>1, <1>2, <1>3, SumExchanged
<1>5. IsTally(SumOf(u)) /\ IsTally(SumOf(v)) /\ IsTally(u[i]) /\ IsTally(v[i])
  BY SumOfTallies DEF AreTallies, SameBut
<1>6. IsTally(r) /\ \A e : Tallied(e, r) = Tallied(e, SumOf(u)) - Tallied(e, u[i]) + Tallied(e, v[i])
  BY <1>4, <1>5, ReplacedIs
<1>7. \A e : Tallied(e, r) = Tallied(e, SumOf(v))
  BY <1>4, <1>6
<1> HIDE DEF r
<1>8. r = SumOf(v)
  BY <1>5, <1>6, <1>7, TalliesEqual
<1>9. QED
  BY <1>8 DEF r

(* The sum of no tally, and of empty ones.                                 *)
LEMMA SumOfEmpty ==
    ASSUME NEW m \in Nat
    PROVE  SumOf([n \in 1 .. m |-> EmptyBag]) = EmptyBag
<1> DEFINE u == [n \in 1 .. m |-> EmptyBag]
           T == BagsOver({})
<1>1. u \in Seq(T) /\ Len(u) = m
  <2>1. EmptyBag \in T
    BY EmptyBagIs
  <2> HIDE DEF T
  <2>2. QED
    BY <2>1
<1>2. SumOf(u) \in T
  BY <1>1, SumIn
<1>3. \A e : Tallied(e, SumOf(u)) = Tallied(e, EmptyBag)
  BY <1>2, TalliedIn, EmptyTally
<1>4. IsTally(SumOf(u)) /\ IsTally(EmptyBag)
  BY <1>2, EmptyTally, TallyIn
<1>5. QED
  BY <1>3, <1>4, TalliesEqual

LEMMA CountedIs ==
    ASSUME NEW T, NEW s \in Seq(T)
    PROVE  IsTally(Counted(s))
<1> DEFINE m == Len(s)
           D == { s[i] : i \in 1 .. m }
           At(e) == { i \in 1 .. m : s[i] = e }
<1>1. m \in Nat /\ DOMAIN s = 1 .. m
  OBVIOUS
<1>2. IsFiniteSet(1 .. m)
  BY <1>1, FS_Interval
<1>3. Range(s) = D
  BY <1>1 DEF Range
<1>4. Counted(s) = [e \in D |-> Cardinality(At(e))]
  BY <1>1, <1>3 DEF Counted
<1> HIDE DEF m
<1>5. IsFiniteSet(D)
  <2> DEFINE f == [i \in 1 .. m |-> s[i]]
  <2>1. f \in [1 .. m -> D]
    OBVIOUS
  <2>2. \A e \in D : \E i \in 1 .. m : f[i] = e
    OBVIOUS
  <2> HIDE DEF f, D
  <2>3. f \in Surjection(1 .. m, D)
    BY <2>1, <2>2 DEF Surjection
  <2>4. QED
    BY <1>2, <2>3, FS_Surjection
<1>6. ASSUME NEW e \in D
      PROVE  Cardinality(At(e)) \in Nat \ {0}
  <2>1. At(e) # {} /\ At(e) \subseteq 1 .. m
    OBVIOUS
  <2> HIDE DEF At
  <2>2. IsFiniteSet(At(e))
    BY <1>2, <2>1, FS_Subset
  <2>3. QED
    BY <2>1, <2>2, FS_CardinalityType, FS_EmptySet
<1> HIDE DEF At, D
<1>7. Counted(s) \in [D -> Nat \ {0}]
  BY <1>4, <1>6
<1>8. QED
  BY <1>5, <1>7, TallyOf

LEMMA TimesIs ==
    ASSUME NEW n \in Nat \ {0}, NEW S, IsFiniteSet(S)
    PROVE  IsTally(Times(n, S)) /\ IsTally(SetToBag(S))
<1>1. Times(n, S) \in [S -> Nat \ {0}] /\ SetToBag(S) \in [S -> Nat \ {0}]
  BY DEF Times, SetToBag
<1>2. QED
  BY <1>1, TallyOf

(* What stands before the last element, and that element.                  *)
LEMMA FrontIn ==
    ASSUME NEW T, NEW s \in Seq(T)
    PROVE  Front(s) \in Seq(T)
<1>1. Len(s) \in Nat /\ \A i \in 1 .. Len(s) : s[i] \in T
  OBVIOUS
<1>2. \A i \in 1 .. Len(s) - 1 : s[i] \in T
  BY <1>1
<1> DEFINE n == Len(s) - 1
<1>3. Front(s) = [i \in 1 .. n |-> s[i]] /\ n \in Int
  <2>1. Front(s) = SubSeq(s, 1, Len(s) - 1)
    BY DEF Front
  <2>2. QED
    BY <1>1, <2>1
<1>4. CASE n \in Nat
  <2> HIDE DEF n
  <2>1. QED
    BY <1>2, <1>3, <1>4 DEF n
<1>5. CASE n \notin Nat
  <2>1. 1 .. n = 1 .. 0
    BY <1>1, <1>5
  <2> HIDE DEF n
  <2>2. QED
    BY <1>3, <2>1
<1>6. QED
  BY <1>4, <1>5

LEMMA LastIn ==
    ASSUME NEW T, NEW s \in Seq(T), s # << >>
    PROVE  Last(s) \in T
BY DEF Last

(* Where a sequence of sequences has an element.                           *)
PlacesIn(seqs) == UNION { {v} \X DOMAIN seqs[v] : v \in DOMAIN seqs }

LEMMA PlacesAre ==
    ASSUME NEW T, NEW seqs \in Seq(Seq(T))
    PROVE  /\ PlacesOf(seqs) \in Seq(PlacesIn(seqs))
           /\ \A p \in PlacesIn(seqs) : /\ p[1] \in DOMAIN seqs /\ p[2] \in DOMAIN seqs[p[1]]
                                        /\ p = <<p[1], p[2]>> /\ p[1] \in Nat /\ p[2] \in Nat
                                        /\ seqs[p[1]][p[2]] \in T
<1> DEFINE places == [v \in DOMAIN seqs |-> [i \in DOMAIN seqs[v] |-> <<v, i>>]]
<1>1. places \in Seq(Seq(PlacesIn(seqs)))
  <2>1. ASSUME NEW v \in DOMAIN seqs
        PROVE  [i \in DOMAIN seqs[v] |-> <<v, i>>] \in Seq(PlacesIn(seqs))
    <3>1. seqs[v] \in Seq(T)
      OBVIOUS
    <3>2. \A i \in DOMAIN seqs[v] : <<v, i>> \in PlacesIn(seqs)
      BY DEF PlacesIn
    <3>3. QED
      BY <3>1, <3>2
  <2>2. DOMAIN seqs = 1 .. Len(seqs) /\ Len(seqs) \in Nat
    OBVIOUS
  <2>3. QED
    BY <2>1, <2>2
<1>2. PlacesOf(seqs) \in Seq(PlacesIn(seqs))
  BY <1>1, FlattenedIn DEF PlacesOf
<1>3. ASSUME NEW p \in PlacesIn(seqs)
      PROVE  /\ p[1] \in DOMAIN seqs /\ p[2] \in DOMAIN seqs[p[1]]
             /\ p = <<p[1], p[2]>> /\ p[1] \in Nat /\ p[2] \in Nat /\ seqs[p[1]][p[2]] \in T
  <2>1. PICK v \in DOMAIN seqs : p \in {v} \X DOMAIN seqs[v]
    BY DEF PlacesIn
  <2>2. p[1] = v /\ p[2] \in DOMAIN seqs[v] /\ p = <<v, p[2]>>
    BY <2>1
  <2>3. seqs[v] \in Seq(T) /\ v \in Nat
    OBVIOUS
  <2>4. p[2] \in Nat /\ seqs[v][p[2]] \in T
    BY <2>2, <2>3
  <2>5. QED
    BY <2>2, <2>3, <2>4
<1>4. QED
  BY <1>2, <1>3

(* An image of a finite set, and the elements of a sequence, are finitely  *)
(* many.                                                                   *)
LEMMA ImageFinite ==
    ASSUME NEW S, IsFiniteSet(S), NEW f
    PROVE  IsFiniteSet({ f[x] : x \in S })
<1> DEFINE D == { f[x] : x \in S }
           g == [x \in S |-> f[x]]
<1>1. g \in [S -> D]
  OBVIOUS
<1>2. \A e \in D : \E x \in S : g[x] = e
  OBVIOUS
<1> HIDE DEF g, D
<1>3. g \in Surjection(S, D)
  BY <1>1, <1>2 DEF Surjection
<1>4. IsFiniteSet(D)
  BY <1>3, FS_Surjection
<1>5. QED
  BY <1>4 DEF D

LEMMA RangeFinite ==
    ASSUME NEW T, NEW s \in Seq(T)
    PROVE  IsFiniteSet(Range(s)) /\ IsFiniteSet(DOMAIN s)
<1>1. Len(s) \in Nat /\ DOMAIN s = 1 .. Len(s)
  OBVIOUS
<1>2. IsFiniteSet(DOMAIN s)
  BY <1>1, FS_Interval
<1>3. QED
  BY <1>2, ImageFinite DEF Range

(* A count of what is there.                                               *)
LEMMA CountPositive ==
    ASSUME NEW S, IsFiniteSet(S), S # {}
    PROVE  Cardinality(S) \in Nat \ {0}
BY FS_CardinalityType, FS_EmptySet

(* A function over an initial segment is a sequence of its values.         *)
LEMMA SequenceOf ==
    ASSUME NEW m \in Nat, NEW s, s = [k \in 1 .. m |-> s[k]]
    PROVE  s \in Seq({ s[k] : k \in 1 .. m }) /\ Len(s) = m /\ DOMAIN s = 1 .. m
<1> DEFINE T == { s[k] : k \in 1 .. m }
<1>1. \A k \in 1 .. m : s[k] \in T
  OBVIOUS
<1> HIDE DEF T
<1>2. s \in [1 .. m -> T]
  BY <1>1
<1>3. s \in Seq(T)
  BY <1>2
<1>4. QED
  BY <1>2, <1>3 DEF T

LEMMA LengthIn ==
    ASSUME NEW T, NEW s \in Seq(T)
    PROVE  /\ Len(s) \in Nat /\ DOMAIN s = 1 .. Len(s) /\ Len(s) \in 0 .. Len(s)
           /\ \A k \in 1 .. Len(s) : k \in Nat /\ s[k] \in T
<1> DEFINE m == Len(s)
<1>1. m \in Nat /\ DOMAIN s = 1 .. m /\ \A k \in 1 .. m : k \in Nat /\ s[k] \in T
  OBVIOUS
<1> HIDE DEF m
<1>2. m \in 0 .. m
  BY <1>1
<1>3. QED
  BY <1>1, <1>2 DEF m

LEMMA IndicesAre ==
    ASSUME NEW T, NEW s \in Seq(T), NEW S
    PROVE  /\ IndicesIn(s, S) \in Seq(1 .. Len(s))
           /\ \A k \in DOMAIN IndicesIn(s, S) : IndicesIn(s, S)[k] \in S
<1> DEFINE at == [i \in DOMAIN s |-> i]
<1>1. at \in Seq(1 .. Len(s))
  <2>1. Len(s) \in Nat /\ DOMAIN s = 1 .. Len(s)
    BY LengthIn
  <2>2. QED
    BY <2>1
<1>2. IndicesIn(s, S) = Selected(at, S)
  BY DEF IndicesIn
<1> HIDE DEF at
<1>3. Selected(at, S) \in Seq(1 .. Len(s))
  BY <1>1, SelectedElements
<1>4. \A k \in 1 .. Len(Selected(at, S)) : Selected(at, S)[k] \in S
  BY <1>1, SelectedElements
<1>5. QED
  BY <1>2, <1>3, <1>4, LengthIn

(* A part of a tally is a tally.                                           *)
LEMMA PartOfTally ==
    ASSUME NEW t, IsTally(t), NEW D \in SUBSET DOMAIN t
    PROVE  IsTally(Restrict(t, D))
<1>1. t \in [DOMAIN t -> Nat \ {0}] /\ IsFiniteSet(DOMAIN t)
  BY TallyIs
<1>2. Restrict(t, D) \in [D -> Nat \ {0}]
  BY <1>1 DEF Restrict
<1>3. IsFiniteSet(D)
  BY <1>1, FS_Subset
<1>4. QED
  BY <1>2, <1>3, TallyOf

(* The copies of a bag are those in a set and those out of it.             *)
LEMMA CopiesInAndOut ==
    ASSUME NEW t, IsTally(t), NEW S
    PROVE  /\ CopiesOf(S, t) \in Nat /\ CopiesOf((DOMAIN t) \ S, t) \in Nat
           /\ BagCardinality(t) = CopiesOf(S, t) + CopiesOf((DOMAIN t) \ S, t)
<1> DEFINE D == DOMAIN t
           p == [k \in S \cap D |-> t[k]]
           q == [k \in (D \ S) \cap D |-> t[k]]
<1>1. t \in BagsOver(D)
  BY DEF IsTally
<1>2. S \cap D \in SUBSET D /\ (D \ S) \cap D \in SUBSET D
  OBVIOUS
<1>3. /\ p \in BagsOver(D) /\ \A e : Tallied(e, p) = IF e \in S \cap D THEN Tallied(e, t) ELSE 0
      /\ q \in BagsOver(D)
      /\ \A e : Tallied(e, q) = IF e \in (D \ S) \cap D THEN Tallied(e, t) ELSE 0
  <2> HIDE DEF D
  <2>1. QED
    BY <1>1, <1>2, BagPart DEF D
<1>4. \A e : Tallied(e, t) \in Nat /\ (e \notin D => Tallied(e, t) = 0)
  BY TallyIs
<1>5. CopiesOf(S, t) = BagCardinality(p) /\ CopiesOf(D \ S, t) = BagCardinality(q)
  BY DEF CopiesOf
<1> HIDE DEF p, q, D
<1>6. p (+) q = t
  <2> p \in BagsOver(D) /\ q \in BagsOver(D)
    BY <1>3
  <2>1. \A e : Tallied(e, p (+) q) = Tallied(e, p) + Tallied(e, q)
    BY BagSum
  <2>2. p (+) q \in BagsOver(D)
    BY BagSum
  <2>3. \A e \in D : Tallied(e, p (+) q) = Tallied(e, t)
    BY <1>3, <1>4, <2>1
  <2> DEFINE sum == p (+) q
  <2> HIDE DEF sum
  <2>4. sum \in BagsOver(D) /\ \A e \in D : Tallied(e, sum) = Tallied(e, t)
    BY <2>2, <2>3 DEF sum
  <2>5. sum = t
    BY <1>1, <2>4, BagsEqual
  <2>6. QED
    BY <2>5 DEF sum
<1>7. BagCardinality(p (+) q) = BagCardinality(p) + BagCardinality(q)
  BY <1>3, CardinalityAdds
<1>8. BagCardinality(p) \in Nat /\ BagCardinality(q) \in Nat
  BY <1>3, CardinalityIs
<1>9. QED
  BY <1>5, <1>6, <1>7, <1>8 DEF D

(* Four things are finitely many.                                          *)
LEMMA OneFinite ==
    ASSUME NEW a, NEW b, NEW c, NEW d
    PROVE  IsFiniteSet({a, b, c, d})
<1>1. IsFiniteSet({a}) /\ IsFiniteSet({b}) /\ IsFiniteSet({c}) /\ IsFiniteSet({d})
  BY FS_Singleton
<1>2. IsFiniteSet(({a} \cup {b}) \cup ({c} \cup {d}))
  BY <1>1, FS_Union
<1>3. ({a} \cup {b}) \cup ({c} \cup {d}) = {a, b, c, d}
  OBVIOUS
<1>4. QED
  BY <1>2, <1>3

(* A function on an initial segment of the naturals, and a sequence of     *)
(* such.                                                                   *)
IsSequence(s) == \E T : s \in Seq(T)

AreSequences(f, m) == m \in Nat /\ f = [k \in 1 .. m |-> f[k]] /\ \A k \in 1 .. m : IsSequence(f[k])

LEMMA SequencesIn ==
    ASSUME NEW f, NEW m, AreSequences(f, m)
    PROVE  \E T : f \in Seq(Seq(T))
<1> DEFINE part == [k \in 1 .. m |-> { f[k][i] : i \in DOMAIN f[k] }]
           T == UNION { part[k] : k \in 1 .. m }
<1>1. ASSUME NEW k \in 1 .. m
      PROVE  f[k] \in Seq(T)
  <2> DEFINE s == f[k]
             P == part[k]
  <2>1. PICK S : s \in Seq(S)
    BY DEF AreSequences, IsSequence
  <2>2. P = { s[i] : i \in DOMAIN s } /\ P \subseteq T
    OBVIOUS
  <2> HIDE DEF s, P, part, T
  <2>3. Len(s) \in Nat /\ DOMAIN s = 1 .. Len(s)
    BY <2>1, LengthIn
  <2>4. \A i \in 1 .. Len(s) : s[i] \in T
    BY <2>2, <2>3
  <2>5. s = [i \in 1 .. Len(s) |-> s[i]]
    BY <2>1
  <2>6. s \in Seq(T)
    BY <2>3, <2>4, <2>5
  <2>7. QED
    BY <2>6 DEF s
<1> HIDE DEF T
<1>2. f \in Seq(Seq(T))
  BY <1>1 DEF AreSequences
<1>3. QED
  BY <1>2

(* An appended sequence, as a function.                                    *)
LEMMA AppendIs ==
    ASSUME NEW T, NEW s \in Seq(T), NEW e \in T
    PROVE  Append(s, e) = [i \in 1 .. Len(s) + 1 |-> IF i = Len(s) + 1 THEN e ELSE s[i]]
<1> DEFINE t == Append(s, e)
<1>1. /\ t \in Seq(T) /\ Len(t) = Len(s) + 1 /\ Len(s) \in Nat
      /\ \A i \in 1 .. Len(s) + 1 : t[i] = IF i = Len(s) + 1 THEN e ELSE s[i]
  OBVIOUS
<1> HIDE DEF t
<1>2. t = [i \in 1 .. Len(s) + 1 |-> t[i]]
  BY <1>1
<1>3. QED
  BY <1>1, <1>2 DEF t

(* The sums of nothing.                                                    *)
LEMMA TotalOfZeros ==
    ASSUME NEW m \in Nat
    PROVE  TotalOf([n \in 1 .. m |-> 0]) = 0
<1> DEFINE u == [n \in 1 .. m |-> 0]
<1>1. u \in Seq(Int) /\ Len(u) = m /\ \A n \in 1 .. m : u[n] = 0
  <2>1. u \in [1 .. m -> Int]
    OBVIOUS
  <2>2. \A n \in 1 .. m : u[n] = 0
    OBVIOUS
  <2> HIDE DEF u
  <2>3. QED
    BY <2>1, <2>2
<1> HIDE DEF u
<1>2. PICK f : IsTotal(f, u)
  BY <1>1, TotalSteps
<1>3. f \in [0 .. m -> Int] /\ f[0] = 0 /\ TotalOf(u) = f[m] /\ \A n \in 1 .. m : f[n] = f[n - 1] + 0
  BY <1>1, <1>2 DEF IsTotal
<1> DEFINE P == { n \in 0 .. m : f[n] = 0 }
<1>4. 0 \in P
  BY <1>3
<1>5. ASSUME NEW n \in 0 .. m - 1, n \in P
      PROVE  n + 1 \in P
  <2>1. n + 1 \in 1 .. m /\ n + 1 \in 0 .. m /\ n + 1 - 1 = n
    OBVIOUS
  <2>2. f[n + 1] = f[n] + 0
    BY <1>3, <2>1
  <2>3. QED
    BY <1>5, <2>1, <2>2
<1> HIDE DEF P
<1>6. 0 .. m \subseteq P
  BY <1>4, <1>5, UpTo
<1>7. m \in P
  BY <1>6
<1>8. QED
  BY <1>3, <1>7 DEF P, u

LEMMA FlattenedNothing ==
    ASSUME NEW m \in Nat
    PROVE  FlattenSeq([n \in 1 .. m |-> << >>]) = << >>
<1> DEFINE f == [n \in 1 .. m |-> << >>]
           flat == FlattenSeq(f)
<1>1. f \in Seq(Seq({}))
  <2> DEFINE T == Seq({})
  <2>1. << >> \in T
    OBVIOUS
  <2> HIDE DEF T
  <2>2. f \in Seq(T)
    BY <2>1
  <2>3. QED
    BY <2>2 DEF T
<1> HIDE DEF f
<1>2. flat \in Seq({})
  BY <1>1, FlattenedIn
<1> HIDE DEF flat
<1>3. flat = << >>
  BY <1>2
<1>4. QED
  BY <1>3 DEF flat, f

LEMMA SumsOfNothing ==
    /\ SumOf(<< >>) = EmptyBag /\ TotalOf(<< >>) = 0 /\ FlattenSeq(<< >>) = << >>
    /\ Counted(<< >>) = EmptyBag
<1>1. SumOf([n \in 1 .. 0 |-> EmptyBag]) = EmptyBag
  BY SumOfEmpty
<1>2. TotalOf([n \in 1 .. 0 |-> 0]) = 0
  BY TotalOfZeros
<1>3. FlattenSeq([n \in 1 .. 0 |-> << >>]) = << >>
  BY FlattenedNothing
<1>4. /\ [n \in 1 .. 0 |-> EmptyBag] = << >> /\ [n \in 1 .. 0 |-> 0] = << >>
      /\ [n \in 1 .. 0 |-> << >>] = << >>
  OBVIOUS
<1>5. Counted(<< >>) = EmptyBag
  <2>1. Range(<< >>) = {}
    BY DEF Range
  <2>2. QED
    BY <2>1 DEF Counted, EmptyBag, SetToBag
<1>6. QED
  BY <1>1, <1>2, <1>3, <1>4, <1>5

(* A tally none of whose keys moved is the same tally.                     *)
LEMMA UnmovedTally ==
    ASSUME NEW t, NEW old, NEW new, IsTally(t), IsTally(Replaced(t, old, new)), Moved(old, new) = {}
    PROVE  Replaced(t, old, new) = t
BY UnmovedKey, TalliesEqual

(* What stands before each of the parts whose lengths are given.           *)
IsBase(base, lens) ==
    /\ base \in [0 .. Len(lens) -> Nat]
    /\ base[0] = 0
    /\ \A n \in 1 .. Len(lens) : base[n] = base[n - 1] + lens[n]
    /\ \A n \in 0 .. Len(lens) : TotalOf([k \in 1 .. n |-> lens[k]]) = base[n]

LEMMA TotalOfPrefix ==
    ASSUME NEW numbers \in Seq(Int), NEW total, IsTotal(total, numbers), NEW n \in 0 .. Len(numbers)
    PROVE  TotalOf([k \in 1 .. n |-> numbers[k]]) = total[n]
<1> DEFINE part == [k \in 1 .. n |-> numbers[k]]
           m == Len(numbers)
<1>1. m \in Nat /\ n \in Nat /\ n <= m /\ \A k \in 1 .. m : numbers[k] \in Int
  OBVIOUS
<1>2. part \in Seq(Int) /\ Len(part) = n /\ \A k \in 1 .. n : part[k] = numbers[k]
  <2>1. part \in [1 .. n -> Int]
    BY <1>1
  <2>2. \A k \in 1 .. n : part[k] = numbers[k]
    OBVIOUS
  <2> HIDE DEF part
  <2>3. QED
    BY <1>1, <2>1, <2>2
<1> HIDE DEF part
<1>3. PICK sum : IsTotal(sum, part)
  BY <1>2, TotalSteps
<1>4. /\ sum[0] = 0 /\ TotalOf(part) = sum[n]
      /\ \A k \in 1 .. n : sum[k] = sum[k - 1] + part[k]
  BY <1>2, <1>3 DEF IsTotal
<1>5. /\ total[0] = 0
      /\ \A k \in 1 .. n : total[k] = total[k - 1] + numbers[k]
  <2>1. \A k \in 1 .. n : k \in 1 .. m
    BY <1>1
  <2>2. QED
    BY <2>1 DEF IsTotal
<1> DEFINE S == { k \in 0 .. n : sum[k] = total[k] }
<1>6. 0 \in S
  BY <1>1, <1>4, <1>5
<1>7. ASSUME NEW j \in 0 .. n - 1, j \in S
      PROVE  j + 1 \in S
  <2> DEFINE k == j + 1
  <2>1. k \in 1 .. n /\ k - 1 = j /\ k \in 0 .. n
    BY <1>1
  <2> HIDE DEF k
  <2>2. sum[k] = total[k]
    BY <1>2, <1>4, <1>5, <1>7, <2>1
  <2>3. QED
    BY <2>1, <2>2 DEF k
<1> HIDE DEF S
<1>8. n \in S
  <2>1. n \in 0 .. n
    BY <1>1
  <2>2. QED
    BY <1>1, <1>6, <1>7, <2>1, UpTo
<1>9. QED
  BY <1>4, <1>8 DEF S, part

LEMMA BaseExists ==
    ASSUME NEW lens \in Seq(Nat)
    PROVE  \E base : IsBase(base, lens)
<1> DEFINE m == Len(lens)
<1>1. lens \in Seq(Int) /\ m \in Nat /\ \A k \in 1 .. m : lens[k] \in Nat
  OBVIOUS
<1>2. PICK base : IsTotal(base, lens)
  BY <1>1, TotalSteps
<1>3. /\ base \in [0 .. m -> Int] /\ base[0] = 0
      /\ \A k \in 1 .. m : base[k] = base[k - 1] + lens[k]
  BY <1>2 DEF IsTotal
<1>4. \A n \in 0 .. m : TotalOf([k \in 1 .. n |-> lens[k]]) = base[n]
  BY <1>1, <1>2, TotalOfPrefix
<1> DEFINE S == { k \in 0 .. m : base[k] \in Nat }
<1> HIDE DEF m
<1>5. 0 \in S
  BY <1>1, <1>3
<1>6. ASSUME NEW j \in 0 .. m - 1, j \in S
      PROVE  j + 1 \in S
  <2> DEFINE k == j + 1
  <2>1. k \in 1 .. m /\ k - 1 = j /\ k \in 0 .. m
    BY <1>1
  <2> HIDE DEF k
  <2>2. base[j] \in Nat /\ lens[k] \in Nat /\ base[k] = base[j] + lens[k]
    <3>1. base[j] \in Nat
      BY <1>6
    <3> HIDE DEF S
    <3>2. QED
      BY <1>1, <1>3, <2>1, <3>1
  <2>3. base[k] \in Nat
    BY <2>2
  <2>4. QED
    BY <2>1, <2>3 DEF k
<1> HIDE DEF S
<1>7. 0 .. m \subseteq S
  BY <1>1, <1>5, <1>6, UpTo
<1>8. base \in [0 .. m -> Nat]
  BY <1>3, <1>7 DEF S
<1>9. QED
  BY <1>3, <1>4, <1>8 DEF IsBase, m

LensOf(seqs) == [i \in 1 .. Len(seqs) |-> Len(seqs[i])]

LEMMA LensIn ==
    ASSUME NEW T, NEW seqs \in Seq(Seq(T))
    PROVE  LensOf(seqs) \in Seq(Nat) /\ Len(LensOf(seqs)) = Len(seqs)
           /\ \A i \in 1 .. Len(seqs) : LensOf(seqs)[i] = Len(seqs[i])
<1>1. Len(seqs) \in Nat /\ \A i \in 1 .. Len(seqs) : Len(seqs[i]) \in Nat
  <2>1. \A i \in 1 .. Len(seqs) : seqs[i] \in Seq(T)
    OBVIOUS
  <2>2. QED
    BY <2>1
<1> DEFINE n == Len(seqs)
           lens == [i \in 1 .. n |-> Len(seqs[i])]
<1>2. lens \in [1 .. n -> Nat] /\ \A i \in 1 .. n : lens[i] = Len(seqs[i])
  BY <1>1
<1> HIDE DEF lens
<1>3. lens \in Seq(Nat) /\ Len(lens) = n
  BY <1>1, <1>2
<1>4. QED
  BY <1>2, <1>3 DEF LensOf, lens

(* Where each element of the parts stands in their concatenation.          *)
ComesFrom(flat, base, seqs) ==
    \A k \in 1 .. Len(flat) :
       \E i \in 1 .. Len(seqs) : \E j \in 1 .. Len(seqs[i]) : k = base[i - 1] + j

LEMMA FlattenedAt ==
    ASSUME NEW T, NEW seqs \in Seq(Seq(T)), NEW base, IsBase(base, LensOf(seqs))
    PROVE  /\ Len(FlattenSeq(seqs)) = base[Len(seqs)]
           /\ \A i \in 1 .. Len(seqs) : \A j \in 1 .. Len(seqs[i]) :
                 /\ base[i - 1] + j \in 1 .. Len(FlattenSeq(seqs))
                 /\ FlattenSeq(seqs)[base[i - 1] + j] = seqs[i][j]
           /\ ComesFrom(FlattenSeq(seqs), base, seqs)
<1> DEFINE m == Len(seqs)
<1>1. m \in Nat /\ \A i \in 1 .. m : seqs[i] \in Seq(T) /\ Len(seqs[i]) \in Nat
  <2>1. \A i \in 1 .. m : seqs[i] \in Seq(T)
    OBVIOUS
  <2>2. QED
    BY <2>1
<1>2. /\ base \in [0 .. m -> Nat] /\ base[0] = 0
      /\ \A n \in 1 .. m : base[n] = base[n - 1] + Len(seqs[n])
  BY LensIn DEF IsBase
<1>3. PICK flat : IsFlattening(flat, T, seqs)
  BY FlattenedSteps
<1>4. /\ flat \in [0 .. m -> Seq(T)] /\ flat[0] = << >> /\ FlattenSeq(seqs) = flat[m]
      /\ \A n \in 1 .. m : flat[n] = flat[n - 1] \o seqs[n]
  BY <1>3 DEF IsFlattening
<1> DEFINE Placed(n) ==
             /\ Len(flat[n]) = base[n]
             /\ \A i \in 1 .. n : \A j \in 1 .. Len(seqs[i]) :
                   /\ base[i - 1] + j \in 1 .. base[n]
                   /\ flat[n][base[i - 1] + j] = seqs[i][j]
             /\ \A k \in 1 .. base[n] :
                   \E i \in 1 .. n : \E j \in 1 .. Len(seqs[i]) : k = base[i - 1] + j
           S == { n \in 0 .. m : Placed(n) }
<1> HIDE DEF m
<1>5. 0 \in S
  <2>1. Placed(0)
    BY <1>2, <1>4
  <2>2. QED
    BY <1>1, <2>1
<1>6. ASSUME NEW p \in 0 .. m - 1, p \in S
      PROVE  p + 1 \in S
  <2> DEFINE n == p + 1
  <2>1. n \in 1 .. m /\ n - 1 = p /\ n \in 0 .. m /\ p \in 0 .. m /\ n \in Nat /\ p \in Nat
    BY <1>1
  <2>2. Placed(p)
    BY <1>6
  <2>3. \A i \in 1 .. n : i = n \/ i \in 1 .. p
    BY <2>1
  <2>9. \A i \in 1 .. p : i \in 1 .. n
    BY <2>1
  <2>10. \A i \in 1 .. n : i \in 1 .. m /\ i - 1 \in 0 .. m
    BY <1>1, <2>1
  <2> HIDE DEF n
  <2> DEFINE x == flat[p]
             y == seqs[n]
             a == base[p]
  <2>4. /\ x \in Seq(T) /\ y \in Seq(T) /\ a \in Nat /\ Len(y) \in Nat /\ Len(x) = a
        /\ flat[n] = x \o y /\ base[n] = a + Len(y)
    BY <1>1, <1>2, <1>4, <2>1, <2>2
  <2>5. /\ Len(x \o y) = a + Len(y)
        /\ \A k \in 1 .. a : (x \o y)[k] = x[k]
        /\ \A j \in 1 .. Len(y) : (x \o y)[a + j] = y[j]
    <3> HIDE DEF x, y, a, S
    <3>1. /\ Len(x \o y) = Len(x) + Len(y)
          /\ \A k \in 1 .. Len(x) + Len(y) : (x \o y)[k] = IF k <= Len(x) THEN x[k] ELSE y[k - Len(x)]
      BY <2>4, ConcatProperties
    <3>2. ASSUME NEW k \in 1 .. a
          PROVE  (x \o y)[k] = x[k]
      BY <2>4, <3>1, <3>2
    <3>3. ASSUME NEW j \in 1 .. Len(y)
          PROVE  (x \o y)[a + j] = y[j]
      <4>1. a + j \in 1 .. a + Len(y) /\ ~ (a + j <= a) /\ (a + j) - a = j
        BY <2>4, <3>3
      <4>2. QED
        BY <2>4, <3>1, <4>1
    <3>4. QED
      BY <2>4, <3>1, <3>2, <3>3
  <2> DEFINE z == x \o y
  <2>6. ASSUME NEW i \in 1 .. n, NEW j \in 1 .. Len(seqs[i])
        PROVE  base[i - 1] + j \in 1 .. base[n] /\ flat[n][base[i - 1] + j] = seqs[i][j]
    <3>1. CASE i = n
      <4>1. base[i - 1] = a /\ seqs[i] = y /\ j \in 1 .. Len(y)
        BY <2>1, <2>6, <3>1
      <4> HIDE DEF a, y, x
      <4>2. a + j \in 1 .. a + Len(y)
        BY <2>4, <4>1
      <4>3. QED
        BY <2>4, <2>5, <4>1, <4>2
    <3>2. CASE i \in 1 .. p
      <4>1. base[i - 1] + j \in 1 .. a /\ x[base[i - 1] + j] = seqs[i][j]
        BY <2>2, <2>6, <3>2
      <4>2. base[i - 1] \in Nat
        BY <1>2, <2>6, <2>10
      <4> HIDE DEF a, y, x
      <4>3. base[i - 1] + j \in 1 .. a + Len(y)
        BY <2>4, <4>1, <4>2
      <4>4. QED
        BY <2>4, <2>5, <4>1, <4>3
    <3>3. QED
      BY <2>3, <3>1, <3>2
  <2>7. ASSUME NEW k \in 1 .. base[n]
        PROVE  \E i \in 1 .. n : \E j \in 1 .. Len(seqs[i]) : k = base[i - 1] + j
    <3>1. CASE k <= a
      <4>1. k \in 1 .. base[p]
        BY <2>4, <2>7, <3>1
      <4>2. PICK i \in 1 .. p : \E j \in 1 .. Len(seqs[i]) : k = base[i - 1] + j
        BY <2>2, <4>1
      <4>3. QED
        BY <2>9, <4>2
    <3>2. CASE ~ (k <= a)
      <4> DEFINE j == k - a
      <4>1. j \in 1 .. Len(y) /\ k = a + j
        <5> HIDE DEF a, y, x
        <5>1. QED
          BY <2>4, <2>7, <3>2
      <4> HIDE DEF j
      <4>2. n \in 1 .. n /\ j \in 1 .. Len(seqs[n]) /\ k = base[n - 1] + j
        BY <2>1, <4>1
      <4>3. QED
        BY <4>2
    <3>3. QED
      BY <3>1, <3>2
  <2>8. QED
    <3>1. Len(flat[n]) = base[n]
      BY <2>4, <2>5
    <3>2. Placed(n)
      BY <2>6, <2>7, <3>1
    <3>3. QED
      BY <2>1, <3>2 DEF n
<1> HIDE DEF S
<1>7. m \in S
  <2>1. m \in 0 .. m
    BY <1>1
  <2>2. QED
    BY <1>1, <1>5, <1>6, <2>1, UpTo
<1>8. Placed(m)
  BY <1>7 DEF S
<1> DEFINE f == FlattenSeq(seqs)
<1>9. f = flat[m]
  BY <1>4
<1>10. Len(f) = base[m] /\ \A i \in 1 .. m : \A j \in 1 .. Len(seqs[i]) :
          base[i - 1] + j \in 1 .. Len(f) /\ f[base[i - 1] + j] = seqs[i][j]
  BY <1>8, <1>9
<1>11. \A k \in 1 .. base[m] :
          \E i \in 1 .. m : \E j \in 1 .. Len(seqs[i]) : k = base[i - 1] + j
  BY <1>8
<1> HIDE DEF f, Placed
<1>12. ComesFrom(f, base, seqs)
  BY <1>10, <1>11 DEF ComesFrom, m
<1>13. QED
  BY <1>10, <1>12 DEF m, f

(* The front and the last element of a sequence, and what is appended to   *)
(* it.                                                                     *)
LEMMA FrontIs ==
    ASSUME NEW T, NEW s \in Seq(T), s # << >>
    PROVE  /\ Front(s) \in Seq(T) /\ Len(Front(s)) = Len(s) - 1 /\ Last(s) = s[Len(s)] /\ Last(s) \in T
           /\ Len(s) \in Nat \ {0} /\ \A i \in 1 .. Len(s) - 1 : Front(s)[i] = s[i]
<1>1. Len(s) \in Nat \ {0} /\ \A i \in 1 .. Len(s) : s[i] \in T
  OBVIOUS
<1>2. Front(s) = [i \in 1 .. Len(s) - 1 |-> s[i]]
  BY <1>1 DEF Front
<1>3. Front(s) \in [1 .. Len(s) - 1 -> T] /\ Len(s) - 1 \in Nat
  BY <1>1, <1>2
<1>4. \A i \in 1 .. Len(s) - 1 : Front(s)[i] = s[i]
  BY <1>2
<1> DEFINE front == Front(s)
           n == Len(s) - 1
<1>5. front \in [1 .. n -> T] /\ n \in Nat
  BY <1>3
<1> HIDE DEF front, n
<1>6. front \in Seq(T) /\ Len(front) = n
  BY <1>5
<1>7. Last(s) = s[Len(s)] /\ Last(s) \in T
  BY <1>1 DEF Last
<1>8. QED
  BY <1>1, <1>4, <1>6, <1>7 DEF front, n

LEMMA RangeOfAppend ==
    ASSUME NEW T, NEW s \in Seq(T), NEW e \in T
    PROVE  Range(Append(s, e)) = Range(s) \cup {e}
<1> DEFINE t == Append(s, e)
           n == Len(s)
<1>1. n \in Nat /\ DOMAIN s = 1 .. n /\ DOMAIN t = 1 .. n + 1 /\ t[n + 1] = e /\ \A i \in 1 .. n : t[i] = s[i]
  OBVIOUS
<1> HIDE DEF t, n
<1>2. 1 .. n + 1 = (1 .. n) \cup {n + 1}
  BY <1>1
<1>3. Range(t) = Range(s) \cup {e}
  BY <1>1, <1>2 DEF Range
<1>4. QED
  BY <1>3 DEF t

LEMMA RangeOfFront ==
    ASSUME NEW T, NEW s \in Seq(T), s # << >>
    PROVE  Range(s) = Range(Front(s)) \cup {Last(s)}
<1> DEFINE f == Front(s)
           n == Len(s)
<1>1. /\ n \in Nat \ {0} /\ DOMAIN s = 1 .. n /\ DOMAIN f = 1 .. n - 1 /\ s[n] = Last(s)
      /\ \A i \in 1 .. n - 1 : f[i] = s[i]
  BY FrontIs
<1> HIDE DEF f, n
<1>2. 1 .. n = (1 .. n - 1) \cup {n}
  BY <1>1
<1>3. Range(s) = Range(f) \cup {Last(s)}
  BY <1>1, <1>2 DEF Range
<1>4. QED
  BY <1>3 DEF f

LEMMA MappingOfFront ==
    ASSUME NEW T, NEW f, NEW s \in Seq(T)
    PROVE  /\ Mapping(f, s) = << >> <=> s = << >>
           /\ Len(Mapping(f, s)) = Len(s)
           /\ s # << >> => /\ Mapping(f, Front(s)) = Front(Mapping(f, s))
                           /\ Last(Mapping(f, s)) = f[Last(s)]
<1> DEFINE t == Mapping(f, s)
           n == Len(s)
           U == { f[x] : x \in T }
<1>1. n \in Nat /\ DOMAIN s = 1 .. n /\ s = [i \in 1 .. n |-> s[i]]
  OBVIOUS
<1>2. t \in Seq(U)
  BY MappingIn
<1>3. t = [i \in 1 .. n |-> f[s[i]]]
  BY <1>1 DEF Mapping
<1>4. Len(t) = n
  <2>1. DOMAIN t = 1 .. n
    BY <1>3
  <2> HIDE DEF t, U, n
  <2>2. QED
    BY <1>1, <1>2, <2>1
<1>5. t = << >> <=> s = << >>
  <2> HIDE DEF t, U
  <2>1. QED
    BY <1>2, <1>4
<1>6. ASSUME s # << >>
      PROVE  Mapping(f, Front(s)) = Front(t) /\ Last(t) = f[Last(s)]
  <2>1. /\ Front(s) \in Seq(T) /\ Len(Front(s)) = n - 1 /\ Last(s) = s[n]
        /\ n \in Nat \ {0} /\ \A i \in 1 .. n - 1 : Front(s)[i] = s[i]
    BY <1>6, FrontIs
  <2>2. /\ Front(t) \in Seq(U) /\ Len(Front(t)) = n - 1 /\ Last(t) = t[n]
        /\ \A i \in 1 .. n - 1 : Front(t)[i] = t[i]
    <3> HIDE DEF t, U, n
    <3>1. QED
      BY <1>2, <1>4, <1>5, <1>6, FrontIs
  <2>3. Last(t) = f[Last(s)]
    BY <1>3, <2>1, <2>2
  <2> DEFINE p == Front(s)
             q == Front(t)
  <2>4. DOMAIN p = 1 .. n - 1 /\ q = [i \in 1 .. n - 1 |-> q[i]]
    <3> HIDE DEF p, q, t, U, n
    <3>1. DOMAIN p = 1 .. n - 1
      BY <2>1 DEF p
    <3>2. q \in Seq(U) /\ Len(q) = n - 1
      BY <2>2 DEF q
    <3>3. QED
      BY <3>1, <3>2
  <2>5. \A i \in 1 .. n - 1 : i \in 1 .. n
    BY <1>1
  <2>6. \A i \in 1 .. n - 1 : q[i] = f[p[i]]
    BY <1>3, <2>1, <2>2, <2>5
  <2> HIDE DEF p, q, t, U, n
  <2>7. Mapping(f, p) = q
    BY <2>4, <2>6 DEF Mapping
  <2>8. QED
    BY <2>3, <2>7 DEF p, q
<1>7. QED
  BY <1>4, <1>5, <1>6 DEF t

(* A pair with a number put before it.                                     *)
Triples == Nat \X Nat \X Nat

InChapter(c, S) == [p \in S |-> <<c>> \o p]

IsTriple(t, c, p) ==
    t = <<c, p[1], p[2]>> /\ t \in Triples /\ t[1] = c /\ t[2] = p[1] /\ t[3] = p[2]

LEMMA Longer ==
    ASSUME NEW c \in Nat, NEW p, p[1] \in Nat, p[2] \in Nat, p = <<p[1], p[2]>>
    PROVE  IsTriple(<<c>> \o p, c, p)
<1> DEFINE x == p[1]
           y == p[2]
<1>1. x \in Nat /\ y \in Nat /\ p = <<x, y>>
  OBVIOUS
<1> HIDE DEF x, y
<1> DEFINE a == <<c>>
           z == a \o p
           w == <<c, x, y>>
<1>2. a \in Seq(Nat) /\ Len(a) = 1 /\ a[1] = c
  OBVIOUS
<1>3. p \in Seq(Nat) /\ Len(p) = 2 /\ p[1] = x /\ p[2] = y
  BY <1>1
<1>4. w \in Seq(Nat) /\ Len(w) = 3 /\ w[1] = c /\ w[2] = x /\ w[3] = y /\ w \in Triples
  BY <1>1 DEF Triples
<1> HIDE DEF a, w
<1>5. /\ a \o p \in Seq(Nat) /\ Len(a \o p) = Len(a) + Len(p)
      /\ \A i \in 1 .. Len(a) + Len(p) : (a \o p)[i] = IF i <= Len(a) THEN a[i] ELSE p[i - Len(a)]
  BY <1>2, <1>3, ConcatProperties
<1>6. z \in Seq(Nat) /\ Len(z) = 3 /\ z[1] = c /\ z[2] = x /\ z[3] = y
  BY <1>2, <1>3, <1>5
<1> HIDE DEF z
<1>7. z = w
  <2>1. \A i \in 1 .. 3 : z[i] = w[i]
    <3>1. \A i \in 1 .. 3 : i = 1 \/ i = 2 \/ i = 3
      OBVIOUS
    <3>2. QED
      BY <1>4, <1>6, <3>1
  <2>2. z = [i \in 1 .. 3 |-> z[i]] /\ w = [i \in 1 .. 3 |-> w[i]]
    <3>1. \A s \in Seq(Nat) : s = [i \in 1 .. Len(s) |-> s[i]]
      OBVIOUS
    <3>2. QED
      BY <1>4, <1>6, <3>1
  <2>3. QED
    BY <2>1, <2>2
<1>8. z = <<c, x, y>>
  BY <1>7 DEF w
<1>9. QED
  BY <1>4, <1>6, <1>7, <1>8 DEF IsTriple, x, y, z, a

(* The least of a finite set, for a strict total order.                    *)
IsOrder(R, D) ==
    /\ \A a \in D : <<a, a>> \notin R
    /\ \A a, b \in D : a # b => <<a, b>> \in R \/ <<b, a>> \in R
    /\ \A a, b, c \in D : <<a, b>> \in R /\ <<b, c>> \in R => <<a, c>> \in R

LEMMA LeastExists ==
    ASSUME NEW D, IsFiniteSet(D), D # {}, NEW R, IsOrder(R, D)
    PROVE  \E a \in D : \A b \in D \ {a} : <<a, b>> \in R
<1> DEFINE Q == { X \in SUBSET D : X # {} => \E a \in X : \A b \in X \ {a} : <<a, b>> \in R }
<1>1. {} \in Q
  OBVIOUS
<1>2. ASSUME NEW X \in SUBSET D, X # {}, \A x \in X : X \ {x} \in Q
      PROVE  X \in Q
  <2>1. PICK x : x \in X
    BY <1>2
  <2>2. CASE X \ {x} = {}
    <3>1. \A b \in X \ {x} : <<x, b>> \in R
      BY <2>2
    <3>2. QED
      BY <2>1, <3>1
  <2>3. CASE X \ {x} # {}
    <3>1. PICK a \in X \ {x} : \A b \in (X \ {x}) \ {a} : <<a, b>> \in R
      BY <1>2, <2>1, <2>3
    <3>2. a \in D /\ x \in D /\ a # x
      BY <2>1, <3>1
    <3>3. CASE <<a, x>> \in R
      <4>1. \A b \in X \ {a} : <<a, b>> \in R
        BY <3>1, <3>3
      <4>2. QED
        BY <3>1, <4>1
    <3>4. CASE <<x, a>> \in R
      <4>1. ASSUME NEW b \in X \ {x}
            PROVE  <<x, b>> \in R
        <5>1. CASE b = a
          BY <3>4, <5>1
        <5>2. CASE b # a
          <6>1. <<a, b>> \in R /\ b \in D
            BY <3>1, <4>1, <5>2
          <6>2. QED
            BY <3>2, <3>4, <6>1 DEF IsOrder
        <5>3. QED
          BY <5>1, <5>2
      <4>2. QED
        BY <2>1, <4>1
    <3>5. QED
      BY <3>2, <3>3, <3>4 DEF IsOrder
  <2>4. QED
    BY <2>2, <2>3
<1>3. D \in SUBSET D
  OBVIOUS
<1> HIDE DEF Q
<1>4. SUBSET D \subseteq Q
  BY <1>1, <1>2, SubsetInduction
<1>5. D \in Q
  BY <1>3, <1>4
<1>6. QED
  BY <1>5 DEF Q

(***************************************************************************)
(* Counting what is split into parts.                                      *)
(***************************************************************************)
Splits(P, D) ==
    /\ \A d \in D : IsFiniteSet(P[d])
    /\ \A d, e \in D : d # e => P[d] \cap P[e] = {}

PartsOf(P, D) == UNION { P[d] : d \in D }

LEMMA PartsWith ==
    ASSUME NEW P, NEW D, Splits(P, D), NEW X \in SUBSET D, NEW x \in D, x \notin X,
           IsFiniteSet(PartsOf(P, X))
    PROVE  /\ PartsOf(P, X \cup {x}) = PartsOf(P, X) \cup P[x]
           /\ IsFiniteSet(PartsOf(P, X \cup {x}))
           /\ Cardinality(PartsOf(P, X \cup {x})) = Cardinality(PartsOf(P, X)) + Cardinality(P[x])
           /\ Cardinality(PartsOf(P, X)) \in Nat /\ Cardinality(P[x]) \in Nat
<1> DEFINE S == PartsOf(P, X)
           T == P[x]
           W == PartsOf(P, X \cup {x})
<1>1. W = S \cup T
  BY DEF PartsOf
<1>2. S \cap T = {}
  <2>1. ASSUME NEW y \in S, y \in T
        PROVE  FALSE
    <3>1. PICK d \in X : y \in P[d]
      BY <2>1 DEF PartsOf
    <3>2. d \in D /\ d # x
      BY <3>1
    <3>3. P[d] \cap P[x] = {}
      BY <3>2 DEF Splits
    <3>4. QED
      BY <2>1, <3>1, <3>3
  <2>2. QED
    BY <2>1
<1>3. IsFiniteSet(S) /\ IsFiniteSet(T)
  BY DEF Splits
<1> HIDE DEF S, T, W
<1>4. IsFiniteSet(S \cup T) /\ Cardinality(S \cup T) = Cardinality(S) + Cardinality(T) - Cardinality(S \cap T)
  BY <1>3, FS_Union
<1>5. Cardinality(S) \in Nat /\ Cardinality(T) \in Nat /\ Cardinality(S \cap T) = 0
  BY <1>2, <1>3, FS_CardinalityType, FS_EmptySet
<1>6. Cardinality(S \cup T) = Cardinality(S) + Cardinality(T)
  BY <1>4, <1>5
<1>7. QED
  BY <1>1, <1>4, <1>5, <1>6 DEF S, T, W

LEMMA NoParts ==
    ASSUME NEW P
    PROVE  PartsOf(P, {}) = {} /\ IsFiniteSet(PartsOf(P, {})) /\ Cardinality(PartsOf(P, {})) = 0
<1>1. PartsOf(P, {}) = {}
  BY DEF PartsOf
<1>2. QED
  BY <1>1, FS_EmptySet

LEMMA PartsFinite ==
    ASSUME NEW m \in Nat, NEW P, Splits(P, 1 .. m)
    PROVE  IsFiniteSet(PartsOf(P, 1 .. m))
<1> DEFINE Q == { n \in 0 .. m : IsFiniteSet(PartsOf(P, 1 .. n)) }
<1>1. 0 \in Q
  <2>1. 1 .. 0 = {} /\ 0 \in 0 .. m
    OBVIOUS
  <2>2. QED
    BY <2>1, NoParts
<1>2. ASSUME NEW p \in 0 .. m - 1, p \in Q
      PROVE  p + 1 \in Q
  <2> DEFINE n == p + 1
             A == 1 .. p
             B == 1 .. m
  <2>1. n \in B /\ n \in 0 .. m /\ A \in SUBSET B /\ n \notin A /\ A \cup {n} = 1 .. n
    OBVIOUS
  <2>2. IsFiniteSet(PartsOf(P, A)) /\ Splits(P, B)
    BY <1>2
  <2> HIDE DEF n, A, B, Q
  <2>3. IsFiniteSet(PartsOf(P, A \cup {n}))
    BY <2>1, <2>2, PartsWith
  <2>4. QED
    BY <2>1, <2>3 DEF n, Q
<1> HIDE DEF Q
<1>3. m \in Q
  <2>1. m \in 0 .. m
    OBVIOUS
  <2>2. QED
    BY <1>1, <1>2, <2>1, UpTo
<1>4. QED
  BY <1>3 DEF Q

(* The copies in a bag, when each of its keys counts a part.               *)
LEMMA CopiesCounted ==
    ASSUME NEW D, NEW b, IsTally(b), DOMAIN b = D, NEW P, Splits(P, D),
           \A d \in D : b[d] = Cardinality(P[d])
    PROVE  IsFiniteSet(PartsOf(P, D)) /\ BagCardinality(b) = Cardinality(PartsOf(P, D))
<1>1. b \in BagsOver(D) /\ IsFiniteSet(D)
  BY TallyIs DEF IsTally
<1>2. PICK f : IsSumming(f, b)
  BY <1>1, SummingExists
<1>3. /\ f[{}] = 0 /\ BagCardinality(b) = f[D]
      /\ \A X \in SUBSET D : \A x \in X : f[X] = b[x] + f[X \ {x}]
  BY <1>2 DEF IsSumming
<1> DEFINE Q == { X \in SUBSET D : IsFiniteSet(PartsOf(P, X)) /\ Cardinality(PartsOf(P, X)) = f[X] }
<1>4. {} \in Q
  BY <1>3, NoParts
<1>5. ASSUME NEW X \in SUBSET D, X # {}, \A x \in X : X \ {x} \in Q
      PROVE  X \in Q
  <2>1. PICK x : x \in X
    BY <1>5
  <2> DEFINE Y == X \ {x}
  <2>2. Y \in SUBSET D /\ x \in D /\ x \notin Y /\ Y \cup {x} = X
    BY <2>1
  <2>3. IsFiniteSet(PartsOf(P, Y)) /\ Cardinality(PartsOf(P, Y)) = f[Y]
    BY <1>5, <2>1
  <2>4. f[X] = b[x] + f[Y]
    BY <1>3, <2>1
  <2> HIDE DEF Y, Q
  <2>5. /\ IsFiniteSet(PartsOf(P, Y \cup {x}))
        /\ Cardinality(PartsOf(P, Y \cup {x})) = Cardinality(PartsOf(P, Y)) + Cardinality(P[x])
        /\ Cardinality(PartsOf(P, Y)) \in Nat /\ Cardinality(P[x]) \in Nat
    BY <2>2, <2>3, PartsWith
  <2>6. IsFiniteSet(PartsOf(P, X)) /\ Cardinality(PartsOf(P, X)) = f[X]
    BY <2>2, <2>3, <2>4, <2>5
  <2>7. QED
    BY <2>6 DEF Q
<1>6. D \in SUBSET D
  OBVIOUS
<1> HIDE DEF Q
<1>7. D \in Q
  BY <1>1, <1>4, <1>5, <1>6, SubsetInduction
<1>8. QED
  BY <1>3, <1>7 DEF Q

(* What a sum of bags tallies, when each of them counts a part.            *)
LEMMA SumCounts ==
    ASSUME NEW m, NEW u, AreTallies(u, m), NEW e, NEW P, Splits(P, 1 .. m),
           \A n \in 1 .. m : Tallied(e, u[n]) = Cardinality(P[n])
    PROVE  /\ IsFiniteSet(PartsOf(P, 1 .. m))
           /\ Tallied(e, SumOf(u)) = Cardinality(PartsOf(P, 1 .. m))
<1> DEFINE S == UNION { DOMAIN u[n] : n \in 1 .. m }
<1>0. m \in Nat
  BY DEF AreTallies
<1>1. u \in Seq(BagsOver(S)) /\ Len(u) = m
  <2>1. \A n \in 1 .. m : DOMAIN u[n] \subseteq S
    BY DomainInUnion
  <2> HIDE DEF S
  <2>2. QED
    BY <2>1, TalliesIn
<1> HIDE DEF S
<1>2. PICK sum : IsSum(sum, S, u)
  BY <1>1, SumSteps
<1>3. /\ sum \in [0 .. m -> BagsOver(S)] /\ sum[0] = EmptyBag /\ SumOf(u) = sum[m]
      /\ \A n \in 1 .. m : sum[n] = sum[n - 1] (+) u[n]
  BY <1>1, <1>2 DEF IsSum
<1>4. \A n \in 1 .. m : u[n] \in BagsOver(S)
  BY <1>1
<1> DEFINE Q == { n \in 0 .. m : /\ IsFiniteSet(PartsOf(P, 1 .. n))
                                /\ Tallied(e, sum[n]) = Cardinality(PartsOf(P, 1 .. n)) }
<1>5. 0 \in Q
  <2>1. 1 .. 0 = {} /\ 0 \in 0 .. m
    BY <1>0
  <2>2. Tallied(e, sum[0]) = 0
    BY <1>3, EmptyTally
  <2>3. QED
    BY <2>1, <2>2, NoParts
<1>6. ASSUME NEW p \in 0 .. m - 1, p \in Q
      PROVE  p + 1 \in Q
  <2> DEFINE n == p + 1
  <2>1. n \in 1 .. m /\ n - 1 = p /\ n \in 0 .. m /\ p \in 0 .. m
    BY <1>0
  <2>2. 1 .. p \in SUBSET (1 .. m) /\ n \notin 1 .. p /\ (1 .. p) \cup {n} = 1 .. n
    BY <1>0
  <2>3. IsFiniteSet(PartsOf(P, 1 .. p)) /\ Tallied(e, sum[p]) = Cardinality(PartsOf(P, 1 .. p))
    BY <1>6
  <2> HIDE DEF n, Q
  <2>4. Tallied(e, sum[n]) = Tallied(e, sum[p]) + Tallied(e, u[n])
    <3>1. sum[n] = sum[p] (+) u[n] /\ sum[p] \in BagsOver(S) /\ u[n] \in BagsOver(S)
      BY <1>3, <1>4, <2>1
    <3> DEFINE x == sum[p]
               y == u[n]
    <3>2. x \in BagsOver(S) /\ y \in BagsOver(S)
      BY <3>1
    <3> HIDE DEF x, y
    <3>3. \A k : Tallied(k, x (+) y) = Tallied(k, x) + Tallied(k, y)
      BY <3>2, BagSum
    <3>4. Tallied(e, x (+) y) = Tallied(e, x) + Tallied(e, y)
      BY <3>3
    <3>5. QED
      BY <3>1, <3>4 DEF x, y
  <2> DEFINE A == 1 .. p
             B == 1 .. m
  <2>5. A \in SUBSET B /\ n \in B /\ n \notin A /\ Splits(P, B) /\ IsFiniteSet(PartsOf(P, A))
    BY <2>1, <2>2, <2>3
  <2> HIDE DEF A, B
  <2>6. /\ IsFiniteSet(PartsOf(P, A \cup {n}))
        /\ Cardinality(PartsOf(P, A \cup {n})) = Cardinality(PartsOf(P, A)) + Cardinality(P[n])
    BY <2>5, PartsWith
  <2>7. IsFiniteSet(PartsOf(P, 1 .. n)) /\ Tallied(e, sum[n]) = Cardinality(PartsOf(P, 1 .. n))
    BY <2>1, <2>2, <2>3, <2>4, <2>6 DEF A
  <2>8. QED
    BY <2>1, <2>7 DEF n, Q
<1> HIDE DEF Q
<1>7. m \in Q
  <2>1. m \in 0 .. m
    BY <1>0
  <2>2. QED
    BY <1>0, <1>5, <1>6, <2>1, UpTo
<1>8. QED
  BY <1>3, <1>7 DEF Q

(* An image under an injection has as many elements.                       *)
LEMMA ImageCounted ==
    ASSUME NEW A, IsFiniteSet(A), NEW f, \A p, q \in A : p # q => f[p] # f[q]
    PROVE  /\ IsFiniteSet({ f[p] : p \in A })
           /\ Cardinality({ f[p] : p \in A }) = Cardinality(A)
<1> DEFINE B == { f[p] : p \in A }
           g == [p \in A |-> f[p]]
<1>1. g \in [A -> B] /\ (\A b \in B : \E p \in A : g[p] = b) /\ \A p, q \in A : g[p] = g[q] => p = q
  <2>1. g \in [A -> B]
    OBVIOUS
  <2>2. \A b \in B : \E p \in A : g[p] = b
    OBVIOUS
  <2>3. QED
    BY <2>1, <2>2
<1> HIDE DEF B, g
<1>2. g \in Surjection(A, B) /\ g \in Injection(A, B)
  <2>1. g \in Surjection(A, B)
    BY <1>1 DEF Surjection
  <2>2. g \in Injection(A, B)
    BY <1>1 DEF Injection, IsInjective
  <2>3. QED
    BY <2>1, <2>2
<1>3. IsFiniteSet(B) /\ (Cardinality(B) = Cardinality(A) <=> g \in Injection(A, B))
  BY <1>2, FS_Surjection
<1>4. QED
  BY <1>2, <1>3 DEF B

(* The bases of later parts are not less.                                  *)
LEMMA BaseGrows ==
    ASSUME NEW lens \in Seq(Nat), NEW base, IsBase(base, lens)
    PROVE  \A n \in 0 .. Len(lens) : base[n] \in Nat /\ \A k \in 0 .. n : base[k] <= base[n]
<1> DEFINE m == Len(lens)
           Q == { n \in 0 .. m : \A k \in 0 .. n : base[k] <= base[n] }
<1>1. /\ m \in Nat /\ base \in [0 .. m -> Nat] /\ base[0] = 0
      /\ \A n \in 1 .. m : base[n] = base[n - 1] + lens[n] /\ lens[n] \in Nat
  BY DEF IsBase
<1> HIDE DEF m
<1>2. \A n \in 0 .. m : base[n] \in Nat
  BY <1>1
<1>3. 0 \in Q
  BY <1>1
<1>4. ASSUME NEW p \in 0 .. m - 1, p \in Q
      PROVE  p + 1 \in Q
  <2> DEFINE n == p + 1
  <2>1. n \in 1 .. m /\ n - 1 = p /\ n \in 0 .. m /\ p \in 0 .. m /\ \A k \in 0 .. n : k = n \/ k \in 0 .. p
    BY <1>1
  <2>2. \A k \in 0 .. p : base[k] <= base[p] /\ k \in 0 .. m
    BY <1>1, <1>4
  <2> HIDE DEF n, Q
  <2>3. base[p] <= base[n]
    <3>1. base[n] = base[p] + lens[n] /\ lens[n] \in Nat /\ base[p] \in Nat
      BY <1>1, <1>2, <2>1
    <3>2. QED
      BY <3>1
  <2>4. ASSUME NEW k \in 0 .. n
        PROVE  base[k] <= base[n]
    <3>1. CASE k = n
      BY <1>2, <2>1, <3>1
    <3>2. CASE k \in 0 .. p
      <4>1. base[k] <= base[p] /\ base[k] \in Nat /\ base[p] \in Nat /\ base[n] \in Nat
        BY <1>2, <2>1, <2>2, <3>2
      <4>2. QED
        BY <2>3, <4>1
    <3>3. QED
      BY <2>1, <3>1, <3>2
  <2>5. QED
    BY <2>1, <2>4 DEF n, Q
<1> HIDE DEF Q
<1>5. 0 .. m \subseteq Q
  BY <1>1, <1>3, <1>4, UpTo
<1>6. QED
  BY <1>2, <1>5 DEF Q, m

(* The places of a sequence of sequences are enumerated in their order.    *)
PairOrder ==
    { z \in (Nat \X Nat) \X (Nat \X Nat) :
        z[1][1] < z[2][1] \/ (z[1][1] = z[2][1] /\ z[1][2] < z[2][2]) }

IsEnumeration(at, S, R) ==
    /\ at \in Seq(S)
    /\ \A p \in S : \E k \in 1 .. Len(at) : at[k] = p
    /\ \A k, l \in 1 .. Len(at) : k < l => <<at[k], at[l]>> \in R

LEMMA PlacesAscend ==
    ASSUME NEW T, NEW seqs \in Seq(Seq(T))
    PROVE  IsEnumeration(PlacesOf(seqs), PlacesIn(seqs), PairOrder)
<1> DEFINE at == PlacesOf(seqs)
           S == PlacesIn(seqs)
           m == Len(seqs)
           parts == [v \in DOMAIN seqs |-> [i \in DOMAIN seqs[v] |-> <<v, i>>]]
           lens == LensOf(parts)
<1>1. /\ at \in Seq(S)
      /\ \A p \in S : /\ p[1] \in DOMAIN seqs /\ p[2] \in DOMAIN seqs[p[1]] /\ p = <<p[1], p[2]>>
                      /\ p[1] \in Nat /\ p[2] \in Nat
  BY PlacesAre
<1>2. /\ m \in Nat /\ DOMAIN seqs = 1 .. m
      /\ \A v \in 1 .. m : /\ seqs[v] \in Seq(T) /\ DOMAIN seqs[v] = 1 .. Len(seqs[v])
                           /\ Len(seqs[v]) \in Nat /\ v \in Nat
  OBVIOUS
<1>3. \A v \in 1 .. m : /\ parts[v] \in Seq(S) /\ Len(parts[v]) = Len(seqs[v])
                        /\ \A i \in 1 .. Len(seqs[v]) : parts[v][i] = <<v, i>>
  <2>1. ASSUME NEW v \in 1 .. m
        PROVE  /\ parts[v] \in Seq(S) /\ Len(parts[v]) = Len(seqs[v])
               /\ \A i \in 1 .. Len(seqs[v]) : parts[v][i] = <<v, i>>
    <3> DEFINE n == Len(seqs[v])
    <3>1. n \in Nat /\ DOMAIN seqs[v] = 1 .. n /\ v \in DOMAIN seqs
      BY <1>2
    <3>2. \A i \in 1 .. n : <<v, i>> \in S
      BY <3>1 DEF PlacesIn
    <3>3. parts[v] = [i \in 1 .. n |-> <<v, i>>]
      BY <3>1
    <3> HIDE DEF n, S, parts
    <3>4. parts[v] \in Seq(S) /\ Len(parts[v]) = n /\ \A i \in 1 .. n : parts[v][i] = <<v, i>>
      BY <3>1, <3>2, <3>3
    <3>5. QED
      BY <3>4 DEF n
  <2>2. QED
    BY <2>1
<1>4. parts \in Seq(Seq(S)) /\ Len(parts) = m
  <2> DEFINE V == Seq(S)
  <2> HIDE DEF V, S
  <2>1. \A v \in 1 .. m : parts[v] \in V
    BY <1>3 DEF V, S
  <2>2. parts = [v \in 1 .. m |-> parts[v]]
    BY <1>2
  <2> HIDE DEF parts
  <2>3. parts \in [1 .. m -> V]
    BY <2>1, <2>2
  <2>4. parts \in Seq(V) /\ Len(parts) = m
    BY <1>2, <2>3
  <2>5. QED
    BY <2>4 DEF V
<1>5. at = FlattenSeq(parts)
  BY DEF PlacesOf
<1> HIDE DEF at, S, m, parts, lens
<1>6. lens \in Seq(Nat) /\ Len(lens) = m /\ \A v \in 1 .. m : lens[v] = Len(parts[v])
  BY <1>4, LensIn DEF lens
<1>7. PICK base : IsBase(base, lens)
  BY <1>6, BaseExists
<1>8. \A n \in 0 .. m : base[n] \in Nat /\ \A k \in 0 .. n : base[k] <= base[n]
  BY <1>6, <1>7, BaseGrows
<1>9. /\ \A v \in 1 .. m : base[v] = base[v - 1] + Len(parts[v])
  BY <1>6, <1>7 DEF IsBase
<1> DEFINE flat == FlattenSeq(parts)
           q == Len(parts)
<1>10. IsBase(base, LensOf(parts)) /\ q = m /\ at = flat
  BY <1>4, <1>5, <1>7 DEF lens
<1>11. /\ \A i \in 1 .. q : \A j \in 1 .. Len(parts[i]) :
             base[i - 1] + j \in 1 .. Len(flat) /\ flat[base[i - 1] + j] = parts[i][j]
       /\ ComesFrom(flat, base, parts)
  BY <1>4, <1>10, FlattenedAt
<1> HIDE DEF flat
<1>12. \A i \in 1 .. m : \A j \in 1 .. Len(parts[i]) :
             base[i - 1] + j \in 1 .. Len(at) /\ at[base[i - 1] + j] = <<i, j>>
  BY <1>3, <1>10, <1>11
<1>13. \A k \in 1 .. Len(at) : \E i \in 1 .. m : \E j \in 1 .. Len(parts[i]) : k = base[i - 1] + j
  BY <1>10, <1>11 DEF ComesFrom
<1>14. ASSUME NEW p \in S
       PROVE  \E k \in 1 .. Len(at) : at[k] = p
  <2>1. p[1] \in 1 .. m /\ p[2] \in 1 .. Len(parts[p[1]]) /\ p = <<p[1], p[2]>>
    BY <1>1, <1>2, <1>3
  <2>2. QED
    BY <1>12, <2>1
<1>15. ASSUME NEW k \in 1 .. Len(at), NEW l \in 1 .. Len(at), k < l
       PROVE  <<at[k], at[l]>> \in PairOrder
  <2>a. PICK a \in 1 .. m : \E i \in 1 .. Len(parts[a]) : k = base[a - 1] + i
    BY <1>13
  <2>1. PICK i \in 1 .. Len(parts[a]) : k = base[a - 1] + i
    BY <2>a
  <2>b. PICK b \in 1 .. m : \E j \in 1 .. Len(parts[b]) : l = base[b - 1] + j
    BY <1>13
  <2>2. PICK j \in 1 .. Len(parts[b]) : l = base[b - 1] + j
    BY <2>b
  <2>3. at[k] = <<a, i>> /\ at[l] = <<b, j>>
    BY <1>12, <2>1, <2>2
  <2>4. /\ a \in Nat /\ b \in Nat /\ Len(parts[a]) \in Nat /\ Len(parts[b]) \in Nat
        /\ a - 1 \in 0 .. m /\ b - 1 \in 0 .. m /\ b \in 0 .. m
    BY <1>2, <1>3
  <2>5. i \in Nat /\ j \in Nat /\ i >= 1 /\ j <= Len(parts[b])
    BY <2>4
  <2>6. base[a - 1] \in Nat /\ base[b - 1] \in Nat /\ base[b] = base[b - 1] + Len(parts[b])
    BY <1>8, <1>9, <2>4
  <2>7. ~ (b < a)
    <3>1. ASSUME b < a
          PROVE  FALSE
      <4>1. b \in 0 .. a - 1
        BY <2>4, <3>1
      <4>2. base[b] <= base[a - 1]
        BY <1>8, <2>4, <4>1
      <4> DEFINE x == base[a - 1]
                 y == base[b - 1]
                 z == base[b]
      <4>3. /\ x \in Nat /\ y \in Nat /\ z = y + Len(parts[b]) /\ z <= x
            /\ k = x + i /\ l = y + j /\ k < l
        BY <1>15, <2>1, <2>2, <2>6, <4>2
      <4> HIDE DEF x, y, z
      <4>4. QED
        BY <2>4, <2>5, <4>3
    <3>2. QED
      BY <3>1
  <2> DEFINE u == <<<<a, i>>, <<b, j>>>>
  <2>c. u \in (Nat \X Nat) \X (Nat \X Nat)
    BY <2>4, <2>5
  <2>d. u[1][1] = a /\ u[1][2] = i /\ u[2][1] = b /\ u[2][2] = j
    OBVIOUS
  <2>e. u = <<at[k], at[l]>>
    BY <2>3
  <2> HIDE DEF u
  <2>8. CASE a < b
    BY <2>8, <2>c, <2>d, <2>e DEF PairOrder
  <2>9. CASE a = b
    <3>1. i < j
      BY <1>15, <2>1, <2>2, <2>5, <2>6, <2>9
    <3>2. QED
      BY <2>9, <2>c, <2>d, <2>e, <3>1 DEF PairOrder
  <2>10. QED
    BY <2>4, <2>7, <2>8, <2>9
<1>16. QED
  BY <1>1, <1>14, <1>15 DEF IsEnumeration, at, S

(* An enumeration reaches its elements one at a time, in the order.        *)
UpTill(at, n) == { at[k] : k \in 1 .. n }

LEMMA Enumerated ==
    ASSUME NEW S, NEW R, \A p \in S : <<p, p>> \notin R, NEW at, IsEnumeration(at, S, R)
    PROVE  /\ UpTill(at, 0) = {}
           /\ UpTill(at, Len(at)) = S
           /\ \A n \in 1 .. Len(at) : /\ UpTill(at, n) = UpTill(at, n - 1) \cup {at[n]}
                                      /\ at[n] \in S /\ at[n] \notin UpTill(at, n - 1)
                                      /\ \A q \in UpTill(at, n - 1) : <<q, at[n]>> \in R
<1> DEFINE m == Len(at)
<1>1. /\ m \in Nat /\ \A k \in 1 .. m : at[k] \in S
      /\ \A p \in S : \E k \in 1 .. m : at[k] = p
      /\ \A k, l \in 1 .. m : k < l => <<at[k], at[l]>> \in R
  BY LengthIn DEF IsEnumeration
<1> HIDE DEF m
<1>2. UpTill(at, 0) = {}
  <2>1. 1 .. 0 = {}
    OBVIOUS
  <2>2. QED
    BY <2>1 DEF UpTill
<1>3. UpTill(at, m) = S
  BY <1>1 DEF UpTill
<1>4. ASSUME NEW n \in 1 .. m
      PROVE  /\ UpTill(at, n) = UpTill(at, n - 1) \cup {at[n]}
             /\ at[n] \in S /\ at[n] \notin UpTill(at, n - 1)
             /\ \A q \in UpTill(at, n - 1) : <<q, at[n]>> \in R
  <2>1. 1 .. n = (1 .. n - 1) \cup {n} /\ \A k \in 1 .. n - 1 : k \in 1 .. m /\ k < n
    BY <1>1
  <2>2. \A q \in UpTill(at, n - 1) : <<q, at[n]>> \in R
    BY <1>1, <2>1 DEF UpTill
  <2>3. UpTill(at, n) = UpTill(at, n - 1) \cup {at[n]}
    BY <2>1 DEF UpTill
  <2>4. QED
    BY <1>1, <2>2, <2>3
<1>5. QED
  BY <1>2, <1>3, <1>4 DEF m

(* A place of a corpus, in two ways.                                       *)
LEMMA Joined22 ==
    ASSUME NEW a \in Nat, NEW b \in Nat, NEW c \in Nat, NEW d \in Nat
    PROVE  <<a, b>> \o <<c, d>> = <<a, b, c, d>>
<1> DEFINE x == <<a, b>>
           y == <<c, d>>
           z == x \o y
           w == <<a, b, c, d>>
<1>1. x \in Seq(Nat) /\ Len(x) = 2 /\ x[1] = a /\ x[2] = b
  OBVIOUS
<1>2. y \in Seq(Nat) /\ Len(y) = 2 /\ y[1] = c /\ y[2] = d
  OBVIOUS
<1>3. w \in Seq(Nat) /\ Len(w) = 4 /\ w[1] = a /\ w[2] = b /\ w[3] = c /\ w[4] = d
  OBVIOUS
<1> HIDE DEF x, y, w
<1>4. /\ x \o y \in Seq(Nat) /\ Len(x \o y) = Len(x) + Len(y)
      /\ \A i \in 1 .. Len(x) + Len(y) : (x \o y)[i] = IF i <= Len(x) THEN x[i] ELSE y[i - Len(x)]
  BY <1>1, <1>2, ConcatProperties
<1>5. z \in Seq(Nat) /\ Len(z) = 4 /\ z[1] = a /\ z[2] = b /\ z[3] = c /\ z[4] = d
  <2>1. z \in Seq(Nat) /\ Len(z) = 4
    BY <1>1, <1>2, <1>4
  <2>2. \A i \in 1 .. Len(x) + Len(y) : z[i] = IF i <= Len(x) THEN x[i] ELSE y[i - Len(x)]
    BY <1>4
  <2> HIDE DEF z
  <2>3. z[1] = x[1] /\ z[2] = x[2] /\ z[3] = y[1] /\ z[4] = y[2]
    BY <1>1, <1>2, <2>2
  <2>4. QED
    BY <1>1, <1>2, <2>1, <2>3
<1> HIDE DEF z
<1>6. \A i \in 1 .. 4 : z[i] = w[i]
  <2>1. \A i \in 1 .. 4 : i = 1 \/ i = 2 \/ i = 3 \/ i = 4
    OBVIOUS
  <2>2. QED
    BY <1>3, <1>5, <2>1
<1>7. z = w
  <2>1. \A s \in Seq(Nat) : s = [i \in 1 .. Len(s) |-> s[i]]
    OBVIOUS
  <2>2. QED
    BY <1>3, <1>5, <1>6, <2>1
<1>8. QED
  BY <1>7 DEF z, w, x, y

LEMMA Joined13 ==
    ASSUME NEW a \in Nat, NEW b \in Nat, NEW c \in Nat, NEW d \in Nat
    PROVE  <<a>> \o <<b, c, d>> = <<a, b, c, d>>
<1> DEFINE x == <<a>>
           y == <<b, c, d>>
           z == x \o y
           w == <<a, b, c, d>>
<1>1. x \in Seq(Nat) /\ Len(x) = 1 /\ x[1] = a
  OBVIOUS
<1>2. y \in Seq(Nat) /\ Len(y) = 3 /\ y[1] = b /\ y[2] = c /\ y[3] = d
  OBVIOUS
<1>3. w \in Seq(Nat) /\ Len(w) = 4 /\ w[1] = a /\ w[2] = b /\ w[3] = c /\ w[4] = d
  OBVIOUS
<1> HIDE DEF x, y, w
<1>4. /\ x \o y \in Seq(Nat) /\ Len(x \o y) = Len(x) + Len(y)
      /\ \A i \in 1 .. Len(x) + Len(y) : (x \o y)[i] = IF i <= Len(x) THEN x[i] ELSE y[i - Len(x)]
  BY <1>1, <1>2, ConcatProperties
<1>5. z \in Seq(Nat) /\ Len(z) = 4 /\ z[1] = a /\ z[2] = b /\ z[3] = c /\ z[4] = d
  <2>1. z \in Seq(Nat) /\ Len(z) = 4
    BY <1>1, <1>2, <1>4
  <2>2. \A i \in 1 .. Len(x) + Len(y) : z[i] = IF i <= Len(x) THEN x[i] ELSE y[i - Len(x)]
    BY <1>4
  <2> HIDE DEF z
  <2>3. z[1] = x[1] /\ z[2] = y[1] /\ z[3] = y[2] /\ z[4] = y[3]
    BY <1>1, <1>2, <2>2
  <2>4. QED
    BY <1>1, <1>2, <2>1, <2>3
<1> HIDE DEF z
<1>6. \A i \in 1 .. 4 : z[i] = w[i]
  <2>1. \A i \in 1 .. 4 : i = 1 \/ i = 2 \/ i = 3 \/ i = 4
    OBVIOUS
  <2>2. QED
    BY <1>3, <1>5, <2>1
<1>7. z = w
  <2>1. \A s \in Seq(Nat) : s = [i \in 1 .. Len(s) |-> s[i]]
    OBVIOUS
  <2>2. QED
    BY <1>3, <1>5, <1>6, <2>1
<1>8. QED
  BY <1>7 DEF z, w, x, y

(* What is kept of a sequence is what of it is in the set.                 *)
LEMMA SelectedRange ==
    ASSUME NEW T, NEW s \in Seq(T), NEW S
    PROVE  Range(Selected(s, S)) = S \cap Range(s)
<1>1. \A e : (\E i \in 1 .. Len(Selected(s, S)) : Selected(s, S)[i] = e) <=> e \in S /\ \E i \in 1 .. Len(s) : s[i] = e
  BY SelectedElements
<1>2. Selected(s, S) \in Seq(T)
  BY SelectedElements
<1> DEFINE kept == Selected(s, S)
<1> HIDE DEF kept
<1>3. DOMAIN kept = 1 .. Len(kept) /\ DOMAIN s = 1 .. Len(s)
  BY <1>2, LengthIn DEF kept
<1>4. \A e : (\E i \in DOMAIN kept : kept[i] = e) <=> e \in S /\ \E i \in DOMAIN s : s[i] = e
  BY <1>1, <1>3 DEF kept
<1>5. QED
  BY <1>4 DEF Range, kept

(* The indices of a set are found in their order.                          *)
LEMMA IndicesFound ==
    ASSUME NEW T, NEW s \in Seq(T), NEW S
    PROVE  /\ IndicesIn(s, S) \in Seq(1 .. Len(s))
           /\ Range(IndicesIn(s, S)) = S \cap 1 .. Len(s)
           /\ \A k, l \in 1 .. Len(IndicesIn(s, S)) : k < l => IndicesIn(s, S)[k] < IndicesIn(s, S)[l]
<1> DEFINE m == Len(s)
           at == [i \in DOMAIN s |-> i]
           found == Selected(at, S)
<1>1. m \in Nat /\ DOMAIN s = 1 .. m
  BY LengthIn
<1>2. at \in [1 .. m -> 1 .. m] /\ \A i \in 1 .. m : at[i] = i
  BY <1>1
<1>3. IndicesIn(s, S) = found
  BY DEF IndicesIn
<1> HIDE DEF at, m
<1>4. at \in Seq(1 .. m) /\ Len(at) = m
  BY <1>1, <1>2
<1>5. found \in Seq(1 .. m)
  BY <1>4, SelectedElements
<1>6. PICK place : IsPlacing(place, at, S)
  BY <1>4, SelectedPlaces
<1>7. Range(found) = S \cap 1 .. m
  <2>1. Range(found) = S \cap Range(at)
    BY <1>4, SelectedRange
  <2>2. Range(at) = 1 .. m
    BY <1>2 DEF Range
  <2>3. QED
    BY <2>1, <2>2
<1> HIDE DEF found
<1>8. \A k, l \in 1 .. Len(found) : k < l => found[k] < found[l]
  <2>1. /\ place \in [1 .. Len(found) -> 1 .. m]
        /\ \A i \in 1 .. Len(found) : found[i] = at[place[i]]
        /\ \A i, j \in 1 .. Len(found) : i < j => place[i] < place[j]
    BY <1>4, <1>6 DEF IsPlacing, found
  <2>2. \A i \in 1 .. Len(found) : found[i] = place[i]
    BY <1>2, <2>1
  <2>3. QED
    BY <2>1, <2>2
<1>9. QED
  BY <1>3, <1>5, <1>7, <1>8 DEF m

(* No two elements of a sequence have the same key.                        *)
IsKeyed(s, key) == \A i, j \in 1 .. Len(s) : i # j => key[s[i]] # key[s[j]]

(* What is in a flattened sequence.                                        *)
LEMMA FlattenedRange ==
    ASSUME NEW T, NEW seqs \in Seq(Seq(T))
    PROVE  Range(FlattenSeq(seqs)) = UNION { Range(seqs[i]) : i \in DOMAIN seqs }
<1> DEFINE flat == FlattenSeq(seqs)
<1>1. LensOf(seqs) \in Seq(Nat)
  BY LensIn
<1>2. PICK base : IsBase(base, LensOf(seqs))
  BY <1>1, BaseExists
<1>3. /\ \A i \in 1 .. Len(seqs) : \A j \in 1 .. Len(seqs[i]) :
            base[i - 1] + j \in 1 .. Len(flat) /\ flat[base[i - 1] + j] = seqs[i][j]
      /\ ComesFrom(flat, base, seqs)
  BY <1>2, FlattenedAt
<1>4. flat \in Seq(T)
  BY FlattenedIn
<1>5. DOMAIN flat = 1 .. Len(flat) /\ DOMAIN seqs = 1 .. Len(seqs)
      /\ \A i \in 1 .. Len(seqs) : DOMAIN seqs[i] = 1 .. Len(seqs[i])
  <2>1. DOMAIN seqs = 1 .. Len(seqs) /\ \A i \in 1 .. Len(seqs) : seqs[i] \in Seq(T)
    BY LengthIn
  <2>2. QED
    BY <1>4, <2>1, LengthIn
<1> HIDE DEF flat
<1>6. ASSUME NEW e \in Range(flat) PROVE \E i \in DOMAIN seqs : e \in Range(seqs[i])
  <2>1. PICK k \in 1 .. Len(flat) : e = flat[k]
    BY <1>5 DEF Range
  <2>2. PICK i \in 1 .. Len(seqs) : \E j \in 1 .. Len(seqs[i]) : k = base[i - 1] + j
    BY <1>3 DEF ComesFrom
  <2>3. PICK j \in 1 .. Len(seqs[i]) : k = base[i - 1] + j
    BY <2>2
  <2>4. e = seqs[i][j]
    BY <1>3, <2>1, <2>3
  <2>5. QED
    BY <1>5, <2>4 DEF Range
<1>7. ASSUME NEW i \in DOMAIN seqs, NEW e \in Range(seqs[i]) PROVE e \in Range(flat)
  <2>1. PICK j \in 1 .. Len(seqs[i]) : e = seqs[i][j]
    BY <1>5 DEF Range
  <2>2. base[i - 1] + j \in DOMAIN flat /\ flat[base[i - 1] + j] = e
    BY <1>3, <1>5, <2>1
  <2>3. QED
    BY <2>2 DEF Range
<1>8. QED
  BY <1>6, <1>7 DEF flat

(* Sequences that keep keys apart, each in itself and from each other.     *)
LEMMA FlattenedKeyed ==
    ASSUME NEW T, NEW seqs \in Seq(Seq(T)), NEW key,
           \A i \in 1 .. Len(seqs) : IsKeyed(seqs[i], key),
           \A i, k \in 1 .. Len(seqs) : i # k =>
              \A x \in Range(seqs[i]), y \in Range(seqs[k]) : key[x] # key[y]
    PROVE  IsKeyed(FlattenSeq(seqs), key)
<1> DEFINE flat == FlattenSeq(seqs)
<1>1. LensOf(seqs) \in Seq(Nat)
  BY LensIn
<1>2. PICK base : IsBase(base, LensOf(seqs))
  BY <1>1, BaseExists
<1>3. /\ \A i \in 1 .. Len(seqs) : \A j \in 1 .. Len(seqs[i]) :
            flat[base[i - 1] + j] = seqs[i][j]
      /\ ComesFrom(flat, base, seqs)
  BY <1>2, FlattenedAt
<1>4. \A i \in 1 .. Len(seqs) : \A j \in 1 .. Len(seqs[i]) : seqs[i][j] \in Range(seqs[i])
  <2>1. \A i \in 1 .. Len(seqs) : seqs[i] \in Seq(T)
    BY LengthIn
  <2>2. \A i \in 1 .. Len(seqs) : DOMAIN seqs[i] = 1 .. Len(seqs[i])
    BY <2>1, LengthIn
  <2>3. QED
    BY <2>2 DEF Range
<1> HIDE DEF flat
<1> SUFFICES ASSUME NEW m \in 1 .. Len(flat), NEW n \in 1 .. Len(flat), m # n
             PROVE  key[flat[m]] # key[flat[n]]
  BY DEF IsKeyed, flat
<1>5. PICK i \in 1 .. Len(seqs) : \E j \in 1 .. Len(seqs[i]) : m = base[i - 1] + j
  BY <1>3 DEF ComesFrom
<1>6. PICK j \in 1 .. Len(seqs[i]) : m = base[i - 1] + j
  BY <1>5
<1>7. PICK k \in 1 .. Len(seqs) : \E l \in 1 .. Len(seqs[k]) : n = base[k - 1] + l
  BY <1>3 DEF ComesFrom
<1>8. PICK l \in 1 .. Len(seqs[k]) : n = base[k - 1] + l
  BY <1>7
<1>9. flat[m] = seqs[i][j] /\ flat[n] = seqs[k][l]
  BY <1>3, <1>6, <1>8
<1>10. CASE i = k
  <2>1. j # l
    BY <1>6, <1>8, <1>10
  <2>2. QED
    BY <1>9, <1>10, <2>1 DEF IsKeyed
<1>11. CASE i # k
  BY <1>4, <1>9, <1>11
<1>12. QED
  BY <1>10, <1>11

(* A sequence without a recurring key has as many elements as values.      *)
LEMMA KeyedCount ==
    ASSUME NEW T, NEW s \in Seq(T), NEW key, IsKeyed(s, key)
    PROVE  IsFiniteSet(Range(s)) /\ Len(s) = Cardinality(Range(s))
<1> DEFINE m == Len(s)
           D == 1 .. m
<1>1. m \in Nat /\ DOMAIN s = D
  BY LengthIn
<1>2. IsFiniteSet(D) /\ Cardinality(D) = m
  BY <1>1, FS_Interval
<1>3. \A i, j \in D : i # j => s[i] # s[j]
  BY DEF IsKeyed
<1> HIDE DEF D, m
<1>4. IsFiniteSet({ s[i] : i \in D }) /\ Cardinality({ s[i] : i \in D }) = Cardinality(D)
  BY <1>2, <1>3, ImageCounted
<1>5. Range(s) = { s[i] : i \in D }
  BY <1>1 DEF Range
<1>6. QED
  BY <1>2, <1>4, <1>5 DEF m

(* Where all sequences but one are empty.                                  *)
LEMMA FlattenedOne ==
    ASSUME NEW T, NEW seqs \in Seq(Seq(T)), NEW i \in 1 .. Len(seqs),
           \A k \in 1 .. Len(seqs) : k # i => seqs[k] = << >>
    PROVE  FlattenSeq(seqs) = seqs[i]
<1> DEFINE m == Len(seqs)
<1>1. PICK flat : IsFlattening(flat, T, seqs)
  BY FlattenedSteps
<1>2. m \in Nat /\ seqs[i] \in Seq(T)
  BY LengthIn
<1>3. /\ flat \in [0 .. m -> Seq(T)] /\ flat[0] = << >>
      /\ \A n \in 1 .. m : flat[n] = flat[n - 1] \o seqs[n]
      /\ FlattenSeq(seqs) = flat[m]
  BY <1>1 DEF IsFlattening
<1> DEFINE S == { n \in 0 .. m : flat[n] = IF n < i THEN << >> ELSE seqs[i] }
<1> HIDE DEF m
<1>4. i \in 1 .. m /\ \A k \in 1 .. m : k # i => seqs[k] = << >>
  BY DEF m
<1>5. 0 \in S
  BY <1>2, <1>3, <1>4
<1>6. \A n \in 0 .. m - 1 : n \in S => n + 1 \in S
  <2> SUFFICES ASSUME NEW n \in 0 .. m - 1, n \in S PROVE n + 1 \in S
    OBVIOUS
  <2>1. n \in 0 .. m /\ n + 1 \in 1 .. m /\ n + 1 \in 0 .. m /\ (n + 1) - 1 = n
    BY <1>2
  <2>2. flat[n + 1] = flat[n] \o seqs[n + 1]
    BY <1>3, <2>1
  <2>3. \A s \in Seq(T) : << >> \o s = s /\ s \o << >> = s
    OBVIOUS
  <2>4. CASE n + 1 = i
    <3>1. flat[n] = << >> /\ ~ n + 1 < i
      BY <2>4
    <3>2. flat[n + 1] = seqs[i]
      BY <1>2, <2>2, <2>3, <2>4, <3>1
    <3>3. QED
      BY <2>1, <3>1, <3>2
  <2>5. CASE n + 1 # i
    <3>1. seqs[n + 1] = << >> /\ (n < i <=> n + 1 < i)
      BY <1>2, <1>4, <2>1, <2>5
    <3>2. flat[n + 1] = flat[n]
      BY <1>2, <1>3, <2>1, <2>2, <2>3, <3>1
    <3>3. QED
      BY <2>1, <3>1, <3>2
  <2>6. QED
    BY <2>4, <2>5
<1> HIDE DEF S
<1>7. 0 .. m \subseteq S
  BY <1>2, <1>5, <1>6, UpTo
<1>8. m \in S /\ ~ m < i
  BY <1>2, <1>4, <1>7
<1>9. QED
  BY <1>3, <1>8 DEF S

(* Where the elements selected from a sequence stand: the k-th has k - 1   *)
(* of them before it.                                                      *)
IsRanking(at, s, S) ==
    /\ at \in Seq(1 .. Len(s)) /\ Len(at) = Len(Selected(s, S))
    /\ \A k \in 1 .. Len(at) :
          /\ at[k] \in 1 .. Len(s) /\ s[at[k]] \in S /\ Selected(s, S)[k] = s[at[k]]
          /\ Cardinality({ j \in 1 .. at[k] - 1 : s[j] \in S }) = k - 1
    /\ \A i \in 1 .. Len(s) : s[i] \in S => \E k \in 1 .. Len(at) : at[k] = i

(* An ascending sequence has k - 1 of its elements below the k-th.         *)
LEMMA BelowCounted ==
    ASSUME NEW m \in Nat, NEW at \in Seq(1 .. m),
           \A k, l \in 1 .. Len(at) : k < l => at[k] < at[l],
           NEW k \in 1 .. Len(at)
    PROVE  Cardinality({ j \in 1 .. at[k] - 1 : j \in Range(at) }) = k - 1
<1> DEFINE n == Len(at)
           D == 1 .. k - 1
<1>1. n \in Nat /\ DOMAIN at = 1 .. n /\ \A l \in 1 .. n : at[l] \in 1 .. m
  BY LengthIn
<1>2. k \in 1 .. n /\ \A l, h \in 1 .. n : l < h => at[l] < at[h]
  OBVIOUS
<1> HIDE DEF n
<1>3. k - 1 \in Nat /\ D \subseteq 1 .. n
  BY <1>1, <1>2
<1>4. IsFiniteSet(D) /\ Cardinality(D) = k - 1
  BY <1>3, FS_Interval
<1>5. \A i, j \in D : i # j => at[i] # at[j]
  <2> SUFFICES ASSUME NEW i \in D, NEW j \in D, i # j PROVE at[i] # at[j]
    OBVIOUS
  <2>1. i \in 1 .. n /\ j \in 1 .. n /\ (i < j \/ j < i)
    BY <1>1, <1>3
  <2>2. at[i] < at[j] \/ at[j] < at[i]
    BY <1>2, <2>1
  <2>3. QED
    BY <1>1, <2>1, <2>2
<1>6. { j \in 1 .. at[k] - 1 : j \in Range(at) } = { at[l] : l \in D }
  <2>1. ASSUME NEW j \in 1 .. at[k] - 1, j \in Range(at) PROVE \E l \in D : j = at[l]
    <3>1. PICK l \in 1 .. n : j = at[l]
      BY <1>1, <2>1 DEF Range
    <3>2. ~ (k < l) /\ l # k
      BY <1>1, <1>2, <3>1
    <3>3. l \in D
      BY <1>1, <1>2, <3>1, <3>2
    <3>4. QED
      BY <3>1, <3>3
  <2>2. ASSUME NEW l \in D PROVE at[l] \in 1 .. at[k] - 1 /\ at[l] \in Range(at)
    <3>1. l \in 1 .. n /\ l < k
      BY <1>1, <1>2, <1>3
    <3>2. at[l] < at[k]
      BY <1>2, <3>1
    <3>3. at[l] \in 1 .. at[k] - 1
      BY <1>1, <1>2, <3>1, <3>2
    <3>4. at[l] \in Range(at)
      BY <1>1, <3>1 DEF Range
    <3>5. QED
      BY <3>3, <3>4
  <2>3. QED
    BY <2>1, <2>2
<1> HIDE DEF D
<1>7. Cardinality({ at[l] : l \in D }) = Cardinality(D)
  BY <1>4, <1>5, ImageCounted
<1>8. QED
  BY <1>4, <1>6, <1>7

(* Every selected element has its place.                                   *)
LEMMA SelectedRanks ==
    ASSUME NEW T, NEW s \in Seq(T), NEW S
    PROVE  \E at : IsRanking(at, s, S)
<1> DEFINE m == Len(s)
           C == { i \in 1 .. m : s[i] \in S }
           ids == [i \in DOMAIN s |-> i]
           at == IndicesIn(s, C)
           n == Len(at)
<1>1. m \in Nat /\ DOMAIN s = 1 .. m
  BY LengthIn
<1>2. at \in Seq(1 .. m) /\ Range(at) = C \cap 1 .. m
      /\ \A k, l \in 1 .. n : k < l => at[k] < at[l]
  <2> HIDE DEF C
  <2>1. QED
    BY IndicesFound
<1>3. ids \in Seq(1 .. m) /\ Len(ids) = m /\ \A i \in 1 .. m : ids[i] = i
  <2> HIDE DEF m
  <2>1. ids \in [1 .. m -> 1 .. m]
    BY <1>1
  <2>2. QED
    BY <1>1, <2>1
<1>4. Selected(Mapping(s, ids), S) = Mapping(s, Selected(ids, C))
  <2>1. \A i \in 1 .. Len(ids) : ids[i] \in C <=> s[ids[i]] \in S
    BY <1>3
  <2> HIDE DEF ids, C
  <2>2. QED
    BY <1>3, <2>1, SelectedMapping
<1>5. Mapping(s, ids) = s
  <2>1. s = [i \in 1 .. m |-> s[i]]
    BY <1>1
  <2>2. Mapping(s, ids) = [i \in 1 .. m |-> s[i]]
    <3>1. DOMAIN ids = 1 .. m
      BY <1>1
    <3>2. QED
      BY <1>3, <3>1 DEF Mapping
  <2>3. QED
    BY <2>1, <2>2
<1>6. Selected(s, S) = [k \in DOMAIN at |-> s[at[k]]]
  BY <1>4, <1>5 DEF Mapping, IndicesIn
<1> HIDE DEF at, ids, m
<1>7. n \in Nat /\ DOMAIN at = 1 .. n /\ \A k \in 1 .. n : at[k] \in 1 .. m
  BY <1>2, LengthIn
<1> HIDE DEF n
<1>8. Range(at) = C
  BY <1>2
<1>9. Len(Selected(s, S)) = n /\ \A k \in 1 .. n : Selected(s, S)[k] = s[at[k]]
  BY <1>6, <1>7
<1>10. \A k \in 1 .. n : s[at[k]] \in S
  BY <1>7, <1>8 DEF Range
<1>11. ASSUME NEW k \in 1 .. n
       PROVE  Cardinality({ j \in 1 .. at[k] - 1 : s[j] \in S }) = k - 1
  <2>1. Cardinality({ j \in 1 .. at[k] - 1 : j \in Range(at) }) = k - 1
    BY <1>1, <1>2, <1>11, BelowCounted DEF n
  <2>2. { j \in 1 .. at[k] - 1 : j \in Range(at) } = { j \in 1 .. at[k] - 1 : s[j] \in S }
    <3>1. at[k] \in 1 .. m
      BY <1>7
    <3>2. \A j \in 1 .. at[k] - 1 : j \in 1 .. m
      BY <1>1, <3>1
    <3>3. QED
      BY <1>8, <3>2
  <2>3. QED
    BY <2>1, <2>2
<1>12. \A i \in 1 .. m : s[i] \in S => \E k \in 1 .. n : at[k] = i
  BY <1>7, <1>8 DEF Range
<1>13. IsRanking(at, s, S)
  BY <1>2, <1>7, <1>9, <1>10, <1>11, <1>12 DEF IsRanking, m, n
<1>14. QED
  BY <1>13

(* Where nothing is in the set, nothing is selected.                       *)
LEMMA SelectedNothing ==
    ASSUME NEW T, NEW s \in Seq(T), NEW S, \A i \in 1 .. Len(s) : s[i] \notin S
    PROVE  Selected(s, S) = << >>
<1> DEFINE kept == Selected(s, S)
<1>1. kept \in Seq(T) /\ \A e : (\E i \in 1 .. Len(kept) : kept[i] = e)
                                <=> e \in S /\ \E i \in 1 .. Len(s) : s[i] = e
  <2>1. Selected(s, S) \in Seq(T)
    BY SelectedElements
  <2>2. \A e : (\E i \in 1 .. Len(Selected(s, S)) : Selected(s, S)[i] = e)
               <=> e \in S /\ \E i \in 1 .. Len(s) : s[i] = e
    BY SelectedElements
  <2>3. QED
    BY <2>1, <2>2
<1> HIDE DEF kept
<1>2. ~ \E i \in 1 .. Len(kept) : TRUE
  BY <1>1
<1>3. Len(kept) \in Nat
  BY <1>1, LengthIn
<1>4. Len(kept) = 0
  <2>1. CASE Len(kept) > 0
    <3>1. 1 \in 1 .. Len(kept)
      BY <1>3, <2>1
    <3>2. QED
      BY <1>2, <3>1
  <2>2. QED
    BY <1>3, <2>1
<1>5. kept = << >>
  BY <1>1, <1>4
<1>6. QED
  BY <1>5 DEF kept

(***************************************************************************)
(* Tallies that differ in some keys, or hold what their parts hold.        *)
(***************************************************************************)
(* Two tallies that tell the same outside S.                               *)
AgreeBut(t, u, S) == \A e : e \notin S => Tallied(e, t) = Tallied(e, u)

(* A total over some keys of an inventory moves by what those keys moved.  *)
LEMMA LettersShift ==
    ASSUME NEW t, NEW u, IsTally(t), IsTally(u), NEW S, AgreeBut(t, u, S)
    PROVE  BagCardinality(u) = BagCardinality(t) + CopiesOf(S, u) - CopiesOf(S, t)
<1> DEFINE A == (DOMAIN t) \ S
           B == (DOMAIN u) \ S
           p == [k \in A \cap DOMAIN t |-> t[k]]
           q == [k \in B \cap DOMAIN u |-> u[k]]
<1>1. A = B
  BY TallyIs DEF AgreeBut
<1>2. \A k \in A : t[k] = u[k]
  <2>1. \A k \in A : k \in DOMAIN t /\ k \in DOMAIN u /\ k \notin S
    BY <1>1
  <2>2. QED
    BY <2>1 DEF AgreeBut, Tallied
<1>3. p = q
  BY <1>1, <1>2
<1>4. CopiesOf(A, t) = CopiesOf(B, u)
  BY <1>3 DEF CopiesOf
<1>5. /\ CopiesOf(S, t) \in Nat /\ CopiesOf(A, t) \in Nat
      /\ BagCardinality(t) = CopiesOf(S, t) + CopiesOf(A, t)
      /\ CopiesOf(S, u) \in Nat /\ CopiesOf(B, u) \in Nat
      /\ BagCardinality(u) = CopiesOf(S, u) + CopiesOf(B, u)
  BY CopiesInAndOut
<1> HIDE DEF A, B
<1>6. QED
  BY <1>4, <1>5

(* A sum tallies what one of its parts does.                               *)
LEMMA SumHolds ==
    ASSUME NEW m, NEW u, AreTallies(u, m), NEW i \in 1 .. m, NEW e, Tallied(e, u[i]) > 0
    PROVE  Tallied(e, SumOf(u)) > 0
<1> DEFINE S == UNION { DOMAIN u[n] : n \in 1 .. m }
<1>1. u \in Seq(BagsOver(S)) /\ Len(u) = m
  <2>1. \A n \in 1 .. m : DOMAIN u[n] \subseteq S
    BY DomainInUnion
  <2> HIDE DEF S
  <2>2. QED
    BY <2>1, TalliesIn
<1> HIDE DEF S
<1>2. Exchanged(u, u, i)
  BY <1>1 DEF Exchanged
<1>3. Tallied(e, u[i]) <= Tallied(e, SumOf(u))
  BY <1>1, <1>2, SumExchanged
<1>4. Tallied(e, u[i]) \in Nat /\ Tallied(e, SumOf(u)) \in Nat
  <2>1. IsTally(u[i]) /\ IsTally(SumOf(u))
    BY SumOfTallies DEF AreTallies
  <2>2. QED
    BY <2>1, TallyIs
<1>5. QED
  BY <1>3, <1>4

(* What is listed is counted.                                              *)
LEMMA CountedHolds ==
    ASSUME NEW T, NEW s \in Seq(T), NEW e \in Range(s)
    PROVE  Tallied(e, Counted(s)) > 0
<1>1. IsTally(Counted(s))
  BY CountedIs
<1>2. e \in DOMAIN Counted(s)
  BY DEF Counted
<1>3. Tallied(e, Counted(s)) \in Nat /\ Tallied(e, Counted(s)) # 0
  BY <1>1, <1>2, TallyIs
<1>4. QED
  BY <1>3

(***************************************************************************)
(* Sets of indices by rank.                                                *)
(***************************************************************************)
(* What begins among C ends there.                                         *)
LEMMA EndExists ==
    ASSUME NEW m \in Nat, NEW i \in 1 .. m, NEW C, i \in C
    PROVE  \E j \in i .. m : i .. j \subseteq C /\ (j = m \/ j + 1 \notin C)
<1> SUFFICES ASSUME \A j \in i .. m : i .. j \subseteq C => j # m /\ j + 1 \in C
             PROVE  FALSE
  OBVIOUS
<1> DEFINE d == m - i
           P == { n \in 0 .. d : i .. i + n \subseteq C }
<1>1. i \in Nat /\ d \in Nat /\ i + d = m
  OBVIOUS
<1> HIDE DEF d
<1>2. 0 \in P
  <2>1. 0 \in 0 .. d /\ i .. i + 0 = {i}
    BY <1>1
  <2>2. QED
    BY <2>1
<1>3. ASSUME NEW n \in 0 .. d - 1, n \in P
      PROVE  n + 1 \in P
  <2>1. i + n \in i .. m /\ i .. i + n \subseteq C
    BY <1>1, <1>3
  <2>2. i + n + 1 \in C
    BY <2>1
  <2>3. \A k \in i .. i + (n + 1) : k \in i .. i + n \/ k = i + n + 1
    BY <1>1
  <2>4. n + 1 \in 0 .. d
    BY <1>1
  <2>5. QED
    BY <2>1, <2>2, <2>3, <2>4
<1>4. 0 .. d \subseteq P
  <2> HIDE DEF P
  <2>1. QED
    BY <1>1, <1>2, <1>3, UpTo
<1>5. d \in P
  <2>1. d \in 0 .. d
    BY <1>1
  <2>2. QED
    BY <1>4, <2>1
<1>6. m \in i .. m /\ i .. m \subseteq C
  BY <1>1, <1>5
<1>7. QED
  BY <1>6

(* The greatest of a set of numbers.                                       *)
LEMMA GreatestIs ==
    ASSUME NEW X \in SUBSET Nat, NEW x \in X, \A y \in X : y <= x
    PROVE  Max(X) = x
<1>1. Max(X) = CHOOSE z \in X : \A y \in X : z >= y
  BY DEF Max
<1>2. Max(X) \in X /\ \A y \in X : Max(X) >= y
  BY <1>1
<1> DEFINE m == Max(X)
<1>3. m \in Nat /\ x \in Nat /\ m >= x /\ m <= x
  BY <1>2
<1> HIDE DEF m
<1>4. m = x
  BY <1>3
<1>5. QED
  BY <1>4 DEF m

(* The i-th member of a set of numbers.                                    *)
OfRank(Q, i) == CHOOSE b \in Q : Cardinality({ a \in Q : a <= b }) = i

(* How many members of a set of indices there are up to each index.        *)
LEMMA NthIs ==
    ASSUME NEW m \in Nat, NEW Q \in SUBSET (1 .. m)
    PROVE  /\ Cardinality(Q \cap (1 .. 0)) = 0
           /\ \A n \in 0 .. m : Cardinality(Q \cap (1 .. n)) \in Nat
           /\ \A k \in 1 .. m : Cardinality(Q \cap (1 .. k))
                = Cardinality(Q \cap (1 .. k - 1)) + IF k \in Q THEN 1 ELSE 0
           /\ \A k \in Q : OfRank(Q, Cardinality(Q \cap (1 .. k))) = k
<1>1. \A n \in 0 .. m : IsFiniteSet(Q \cap (1 .. n))
  <2> SUFFICES ASSUME NEW n \in 0 .. m
               PROVE  IsFiniteSet(Q \cap (1 .. n))
    OBVIOUS
  <2>1. n \in Int /\ 1 \in Int
    OBVIOUS
  <2>2. IsFiniteSet(1 .. n)
    BY <2>1, FS_Interval
  <2> DEFINE all == 1 .. n
  <2>3. (Q \cap all) \in SUBSET all
    OBVIOUS
  <2> HIDE DEF all
  <2>4. IsFiniteSet(all)
    BY <2>2 DEF all
  <2>5. IsFiniteSet(Q \cap all)
    BY <2>3, <2>4, FS_Subset
  <2>6. QED
    BY <2>5 DEF all
<1>2. Q \cap (1 .. 0) = {}
  OBVIOUS
<1>3. ASSUME NEW k \in 1 .. m
      PROVE  Cardinality(Q \cap (1 .. k)) = Cardinality(Q \cap (1 .. k - 1)) + IF k \in Q THEN 1 ELSE 0
  <2> DEFINE before == Q \cap (1 .. k - 1)
  <2>1. IsFiniteSet(before) /\ k \notin before
    <3>1. k - 1 \in 0 .. m
      OBVIOUS
    <3>2. QED
      BY <1>1, <3>1
  <2>2. Q \cap (1 .. k) = IF k \in Q THEN before \cup {k} ELSE before
    <3>1. \A n \in 1 .. k : n \in 1 .. k - 1 \/ n = k
      OBVIOUS
    <3>2. \A n \in 1 .. k - 1 : n \in 1 .. k
      OBVIOUS
    <3>3. k \in 1 .. k
      OBVIOUS
    <3>4. QED
      BY <3>1, <3>2, <3>3
  <2> HIDE DEF before
  <2>3. Cardinality(before) \in Nat /\ Cardinality(before \cup {k}) = Cardinality(before) + 1
    BY <2>1, FS_CardinalityType, FS_AddElement
  <2>4. CASE k \in Q
    <3>1. Cardinality(Q \cap (1 .. k)) = Cardinality(before) + 1
      BY <2>2, <2>3, <2>4
    <3>2. QED
      BY <2>4, <3>1 DEF before
  <2>5. CASE k \notin Q
    <3>1. Cardinality(Q \cap (1 .. k)) = Cardinality(before)
      BY <2>2, <2>5
    <3>2. Cardinality(Q \cap (1 .. k)) = Cardinality(before) + 0
      BY <2>3, <3>1
    <3>3. QED
      BY <2>5, <3>2 DEF before
  <2>6. QED
    BY <2>4, <2>5
<1>4. ASSUME NEW k \in Q
      PROVE  OfRank(Q, Cardinality(Q \cap (1 .. k))) = k
  <2> DEFINE upto == [b \in Q |-> { a \in Q : a <= b }]
  <2>0. \A b \in Q : upto[b] = { a \in Q : a <= b } /\ b \in Nat /\ 1 <= b /\ b <= m
    OBVIOUS
  <2> HIDE DEF upto
  <2>1. \A b \in Q : upto[b] = Q \cap (1 .. b) /\ b \in 0 .. m
    <3> SUFFICES ASSUME NEW b \in Q
                 PROVE  upto[b] = Q \cap (1 .. b) /\ b \in 0 .. m
      OBVIOUS
    <3>1. upto[b] = { a \in Q : a <= b } /\ b \in Nat /\ b <= m
      BY <2>0
    <3>2. \A a \in Q : a \in Nat /\ 1 <= a
      BY <2>0
    <3>3. \A a \in Q : a \in 1 .. b <=> a <= b
      BY <3>1, <3>2
    <3>4. upto[b] = Q \cap (1 .. b)
      BY <3>1, <3>3, Zenon
    <3>5. QED
      BY <3>1, <3>4
  <2>2. \A b \in Q : b \in upto[b] /\ IsFiniteSet(upto[b])
    <3>1. \A b \in Q : b \in 1 .. b
      BY <2>0
    <3>2. QED
      BY <1>1, <2>1, <3>1
  <2>3. ASSUME NEW b \in Q, NEW d \in Q, b < d
        PROVE  upto[b] \subseteq upto[d] /\ d \notin upto[b]
    <3>1. \A a \in Q : a <= b => a <= d
      BY <2>0, <2>3
    <3>2. ~ (d <= b)
      BY <2>0, <2>3
    <3>3. QED
      BY <2>0, <3>1, <3>2
  <2>4. \A b, d \in Q : b < d \/ d < b \/ b = d
    BY <2>0
  <2>5. OfRank(Q, Cardinality(upto[k])) = CHOOSE b \in Q : Cardinality(upto[b]) = Cardinality(upto[k])
    <3>1. \A b \in Q : Cardinality({ a \in Q : a <= b }) = Cardinality(upto[b])
      BY <2>0
    <3>2. QED
      BY <3>1 DEF OfRank
  <2>6. \A b, d \in Q : Cardinality(upto[b]) = Cardinality(upto[d]) => b = d
    <3> SUFFICES ASSUME NEW b \in Q, NEW d \in Q, b < d, Cardinality(upto[b]) = Cardinality(upto[d])
                 PROVE  FALSE
      BY <2>4
    <3>1. upto[b] \subseteq upto[d] /\ IsFiniteSet(upto[d])
      BY <2>2, <2>3
    <3>2. upto[b] = upto[d]
      BY <3>1, FS_Subset
    <3>3. QED
      BY <2>2, <2>3, <3>2
  <2>7. QED
    BY <2>1, <2>5, <2>6
<1>5. Cardinality(Q \cap (1 .. 0)) = 0 /\ \A n \in 0 .. m : Cardinality(Q \cap (1 .. n)) \in Nat
  BY <1>1, <1>2, FS_EmptySet, FS_CardinalityType
<1>6. QED
  BY <1>3, <1>4, <1>5

(* Each rank is that of a member.                                          *)
LEMMA RankReached ==
    ASSUME NEW m \in Nat, NEW Q \in SUBSET (1 .. m), NEW i \in 1 .. Cardinality(Q)
    PROVE  \E b \in Q : Cardinality({ a \in Q : a <= b }) = i
<1> DEFINE rank == [b \in Q |-> Cardinality({ a \in Q : a <= b })]
           J == 1 .. Cardinality(Q)
<1>1. \A b \in Q : rank[b] = Cardinality(Q \cap (1 .. b)) /\ b \in 1 .. m
  <2> SUFFICES ASSUME NEW b \in Q
               PROVE  { a \in Q : a <= b } = Q \cap (1 .. b) /\ b \in 1 .. m
    OBVIOUS
  <2>1. \A a \in Q : a \in 1 .. b <=> a <= b
    OBVIOUS
  <2>2. QED
    BY <2>1
<1>2. IsFiniteSet(Q)
  <2>1. m \in Int /\ 1 \in Int
    OBVIOUS
  <2>2. IsFiniteSet(1 .. m)
    BY <2>1, FS_Interval
  <2> DEFINE all == 1 .. m
  <2>3. Q \in SUBSET all /\ IsFiniteSet(all)
    BY <2>2
  <2> HIDE DEF all
  <2>4. QED
    BY <2>3, FS_Subset
<1>3. \A b \in Q : rank[b] \in J
  <2> SUFFICES ASSUME NEW b \in Q
               PROVE  rank[b] \in J
    OBVIOUS
  <2> DEFINE low == Q \cap (1 .. b)
  <2>1. low \in SUBSET Q /\ b \in low
    OBVIOUS
  <2>2. rank[b] = Cardinality(low)
    BY <1>1
  <2> HIDE DEF low, rank
  <2>3. IsFiniteSet(low) /\ Cardinality(low) <= Cardinality(Q)
    BY <1>2, <2>1, FS_Subset
  <2>4. Cardinality(low) \in Nat /\ Cardinality(Q) \in Nat /\ Cardinality(low) # 0
    BY <1>2, <2>1, <2>3, FS_CardinalityType, FS_EmptySet
  <2>5. QED
    BY <2>2, <2>3, <2>4
<1>4. \A b, d \in Q : rank[b] = rank[d] => b = d
  <2>1. \A k \in Q : OfRank(Q, Cardinality(Q \cap (1 .. k))) = k
    BY NthIs
  <2> HIDE DEF rank
  <2>2. QED
    BY <1>1, <2>1
<1>5. DOMAIN rank = Q
  OBVIOUS
<1>11. rank = [b \in DOMAIN rank |-> rank[b]]
  OBVIOUS
<1> HIDE DEF rank
<1>6. IsFiniteSet(J) /\ Cardinality(J) = Cardinality(Q)
  <2> DEFINE q == Cardinality(Q)
  <2>1. q \in Nat
    BY <1>2, FS_CardinalityType
  <2> HIDE DEF q
  <2>2. 1 \in Int /\ q \in Int /\ (1 > q => q = 0) /\ q - 1 + 1 = q
    BY <2>1
  <2>3. IsFiniteSet(1 .. q) /\ Cardinality(1 .. q) = IF 1 > q THEN 0 ELSE q - 1 + 1
    BY <2>2, FS_Interval
  <2>4. QED
    BY <2>2, <2>3 DEF q
<1> DEFINE R == { rank[b] : b \in Q }
<1>7. R \in SUBSET J
  BY <1>3
<1>8. Cardinality(R) = Cardinality(Q)
  <2>1. rank \in [Q -> R]
    <3>1. rank = [b \in Q |-> rank[b]]
      BY <1>5, <1>11
    <3>2. QED
      BY <3>1
  <2>2. rank \in Surjection(Q, R)
    BY <2>1 DEF Surjection
  <2>3. rank \in Injection(Q, R)
    BY <1>4, <2>1 DEF Injection, IsInjective
  <2> HIDE DEF R
  <2>4. QED
    BY <1>2, <2>2, <2>3, FS_Surjection
<1> HIDE DEF J
<1>9. R = J
  BY <1>6, <1>7, <1>8, FS_Subset
<1>10. QED
  BY <1>9 DEF J, rank

(* What is nothing outside Q is what the members of Q have, in their order. *)
LEMMA RanksFlatten ==
    ASSUME NEW m, NEW f, AreSequences(f, m), NEW Q \in SUBSET (1 .. m),
           \A b \in 1 .. m : b \notin Q => f[b] = << >>
    PROVE  FlattenSeq([i \in 1 .. Cardinality(Q) |-> f[OfRank(Q, i)]]) = FlattenSeq(f)
<1>1. PICK T : f \in Seq(Seq(T))
  BY SequencesIn
<1> DEFINE c == [n \in 0 .. m |-> Cardinality(Q \cap (1 .. n))]
           Picked(n) == [i \in 1 .. c[n] |-> f[OfRank(Q, i)]]
           Prefix(n) == [i \in 1 .. n |-> f[i]]
           P == { n \in 0 .. m : /\ \A i \in 1 .. c[n] : f[OfRank(Q, i)] \in Seq(T)
                                 /\ FlattenSeq(Picked(n)) = FlattenSeq(Prefix(n)) }
<1>2. m \in Nat /\ f = [k \in 1 .. m |-> f[k]] /\ \A k \in 1 .. m : f[k] \in Seq(T)
  <2>1. m \in Nat /\ f = [k \in 1 .. m |-> f[k]]
    BY DEF AreSequences
  <2>2. DOMAIN f = 1 .. m
    BY <2>1
  <2>3. QED
    BY <1>1, <2>1, <2>2
<1>3. /\ c[0] = 0 /\ \A n \in 0 .. m : c[n] \in Nat
      /\ \A k \in 1 .. m : c[k] = c[k - 1] + IF k \in Q THEN 1 ELSE 0
      /\ \A k \in Q : OfRank(Q, c[k]) = k
  <2>1. /\ 0 \in 0 .. m /\ \A k \in 1 .. m : k \in 0 .. m /\ k - 1 \in 0 .. m
        /\ \A k \in Q : k \in 0 .. m
    BY <1>2
  <2>2. \A n \in 0 .. m : c[n] = Cardinality(Q \cap (1 .. n))
    OBVIOUS
  <2> HIDE DEF c
  <2>3. \A k \in 1 .. m : c[k - 1] = Cardinality(Q \cap (1 .. k - 1))
    BY <2>1, <2>2
  <2>4. \A k \in 1 .. m : c[k] = Cardinality(Q \cap (1 .. k))
    BY <2>1, <2>2
  <2>5. m \in Nat
    BY <1>2
  <2> DEFINE in(n) == Cardinality(Q \cap (1 .. n))
  <2>10. /\ in(0) = 0 /\ \A n \in 0 .. m : in(n) \in Nat
         /\ \A k \in 1 .. m : in(k) = in(k - 1) + IF k \in Q THEN 1 ELSE 0
    BY <2>5, NthIs
  <2>11. /\ \A n \in 0 .. m : c[n] = in(n)
         /\ \A k \in 1 .. m : c[k - 1] = in(k - 1) /\ c[k] = in(k)
    BY <2>2, <2>3, <2>4
  <2> HIDE DEF in
  <2>6. c[0] = 0 /\ \A n \in 0 .. m : c[n] \in Nat
    BY <2>1, <2>10, <2>11
  <2>7. \A k \in 1 .. m : c[k] = c[k - 1] + IF k \in Q THEN 1 ELSE 0
    BY <2>10, <2>11
  <2>8. \A k \in Q : OfRank(Q, c[k]) = k
    BY <2>1, <2>2, <2>5, NthIs
  <2>9. QED
    BY <2>6, <2>7, <2>8
<1>4. c[m] = Cardinality(Q)
  <2>1. Q \cap (1 .. m) = Q /\ m \in 0 .. m
    BY <1>2
  <2>2. QED
    BY <2>1
<1> HIDE DEF c
<1>5. 0 \in P
  <2>1. 0 \in 0 .. m /\ 1 .. c[0] = {}
    BY <1>2, <1>3
  <2>2. Picked(0) = << >> /\ Prefix(0) = << >>
    BY <2>1
  <2>3. QED
    BY <2>1, <2>2
<1>6. ASSUME NEW n \in 0 .. m - 1, n \in P
      PROVE  n + 1 \in P
  <2> DEFINE k == n + 1
  <2>1. k \in 1 .. m /\ k \in 0 .. m /\ n \in Nat /\ k - 1 = n /\ n \in 0 .. m
    BY <1>2
  <2>2. f[k] \in Seq(T) /\ \A i \in 1 .. n : f[i] \in Seq(T)
    BY <1>2, <2>1
  <2>3. Prefix(n) \in Seq(Seq(T)) /\ Prefix(k) = Append(Prefix(n), f[k])
    <3> DEFINE X == Seq(T)
    <3> HIDE DEF X
    <3>1. Prefix(n) \in [1 .. n -> X] /\ Prefix(n) \in Seq(X) /\ Len(Prefix(n)) = n
      BY <2>1, <2>2 DEF X
    <3>2. \A i \in 1 .. k : i \in 1 .. n \/ i = k
      BY <2>1
    <3>3. Append(Prefix(n), f[k]) = [i \in 1 .. n + 1 |-> IF i = n + 1 THEN f[k] ELSE Prefix(n)[i]]
      <4> DEFINE p == Prefix(n)
                 e == f[k]
      <4> HIDE DEF p, e
      <4>1. Append(p, e) = [i \in 1 .. Len(p) + 1 |-> IF i = Len(p) + 1 THEN e ELSE p[i]]
        BY <3>1 DEF p
      <4>2. QED
        BY <3>1, <4>1 DEF p, e
    <3>4. QED
      BY <3>1, <3>2, <3>3 DEF X
  <2> DEFINE x == Picked(n)
             y == Prefix(n)
  <2>4. /\ \A i \in 1 .. c[n] : f[OfRank(Q, i)] \in Seq(T)
        /\ FlattenSeq(x) = FlattenSeq(y) /\ c[n] \in Nat
    BY <1>3, <1>6, <2>1
  <2>5. x \in Seq(Seq(T)) /\ Len(x) = c[n]
    <3> DEFINE X == Seq(T)
               l == c[n]
    <3> HIDE DEF X, l
    <3>1. x = [i \in 1 .. l |-> f[OfRank(Q, i)]] /\ l \in Nat /\ \A i \in 1 .. l : f[OfRank(Q, i)] \in X
      BY <2>4 DEF X, l
    <3> HIDE DEF x
    <3>2. x \in [1 .. l -> X]
      BY <3>1
    <3>3. x \in Seq(X) /\ Len(x) = l
      BY <3>1, <3>2
    <3>4. QED
      BY <3>3 DEF X, l
  <2>6. CASE k \in Q
    <3>1. c[k] = c[n] + 1 /\ OfRank(Q, c[k]) = k
      BY <1>3, <2>1, <2>6
    <3>2. \A i \in 1 .. c[k] : i \in 1 .. c[n] \/ i = c[k]
      BY <2>4, <3>1
    <3>3. \A i \in 1 .. c[k] : f[OfRank(Q, i)] \in Seq(T)
      BY <2>2, <2>4, <3>1, <3>2
    <3>4. Picked(k) = Append(x, f[k])
      <4>1. Append(x, f[k]) = [i \in 1 .. c[n] + 1 |-> IF i = c[n] + 1 THEN f[k] ELSE x[i]]
        <5> DEFINE e == f[k]
        <5> HIDE DEF x, e
        <5>1. Append(x, e) = [i \in 1 .. Len(x) + 1 |-> IF i = Len(x) + 1 THEN e ELSE x[i]]
          <6>1. x \in Seq(Seq(T)) /\ e \in Seq(T)
            BY <2>2, <2>5 DEF e
          <6>2. QED
            BY <6>1, AppendIs
        <5>2. QED
          BY <2>5, <5>1 DEF e
      <4>2. \A i \in 1 .. c[n] : x[i] = f[OfRank(Q, i)]
        OBVIOUS
      <4> HIDE DEF k, x
      <4>3. QED
        BY <3>1, <3>2, <4>1, <4>2
    <3>5. FlattenSeq(Append(x, f[k])) = FlattenSeq(Append(y, f[k]))
      <4> DEFINE e == f[k]
      <4>1. e \in Seq(T) /\ y \in Seq(Seq(T))
        BY <2>2, <2>3
      <4> HIDE DEF x, y, e
      <4>2. FlattenSeq(Append(x, e)) = FlattenSeq(x) \o e /\ FlattenSeq(Append(y, e)) = FlattenSeq(y) \o e
        BY <2>5, <4>1, FlattenedAppend
      <4>3. QED
        BY <2>4, <4>2 DEF e
    <3>6. FlattenSeq(Picked(k)) = FlattenSeq(Prefix(k))
      <4> HIDE DEF Picked, Prefix, k
      <4>1. QED
        BY <2>3, <3>4, <3>5
    <3>7. QED
      BY <2>1, <3>3, <3>6
  <2>7. CASE k \notin Q
    <3>1. c[k] = c[n] /\ f[k] = << >>
      <4>1. c[k] = c[n] + 0
        BY <1>3, <2>1, <2>7
      <4>2. QED
        BY <2>1, <2>4, <2>7, <4>1
    <3>2. Picked(k) = x
      BY <3>1
    <3>3. FlattenSeq(Append(y, << >>)) = FlattenSeq(y)
      <4>1. << >> \in Seq(T) /\ y \in Seq(Seq(T))
        BY <2>3
      <4> HIDE DEF y
      <4>2. FlattenSeq(Append(y, << >>)) = FlattenSeq(y) \o << >> /\ FlattenSeq(y) \in Seq(T)
        BY <4>1, FlattenedAppend, FlattenedIn
      <4> DEFINE z == FlattenSeq(y)
      <4> HIDE DEF z
      <4>3. z \in Seq(T)
        BY <4>2 DEF z
      <4>4. z \o << >> = z
        BY <4>3
      <4>5. QED
        BY <4>2, <4>4 DEF z
    <3>4. FlattenSeq(Picked(k)) = FlattenSeq(Prefix(k))
      <4> HIDE DEF Picked, Prefix, k
      <4>1. QED
        BY <2>3, <2>4, <3>1, <3>2, <3>3
    <3>5. \A i \in 1 .. c[k] : f[OfRank(Q, i)] \in Seq(T)
      BY <2>4, <3>1
    <3>6. QED
      BY <2>1, <3>4, <3>5
  <2>8. QED
    BY <2>6, <2>7
<1>7. 0 .. m \subseteq P
  <2> HIDE DEF P
  <2>1. QED
    BY <1>2, <1>5, <1>6, UpTo
<1>8. m \in P
  <2>1. m \in 0 .. m
    BY <1>2
  <2> HIDE DEF P
  <2>2. QED
    BY <1>7, <2>1
<1>9. Prefix(m) = f
  BY <1>2
<1>10. Picked(m) = [i \in 1 .. Cardinality(Q) |-> f[OfRank(Q, i)]]
  BY <1>4
<1>11. FlattenSeq(Picked(m)) = FlattenSeq(Prefix(m))
  BY <1>8
<1> HIDE DEF Picked, Prefix
<1>12. QED
  BY <1>9, <1>10, <1>11

(***************************************************************************)
(* Pairs of indices, none crossing another, and a stack of open ones.      *)
(***************************************************************************)
Pairing(m) == [stack : Seq(1 .. m), pairs : SUBSET ((1 .. m) \X (1 .. m))]

(* What is on the stack is in order and unmatched, and pairs nest.          *)
Ascends(s) == \A k, l \in 1 .. Len(s) : k < l => s[k] < s[l]

LiesClear(s, pairs) == \A p \in pairs : \A k \in 1 .. Len(s) : s[k] < p[1] \/ p[2] < s[k]

Nested(pairs) ==
    /\ \A p \in pairs : p[1] < p[2]
    /\ \A p, q \in pairs : p[1] < q[1] => p[2] < q[1] \/ q[2] < p[2]

WellPaired(r, n) ==
    /\ \A k \in 1 .. Len(r.stack) : r.stack[k] <= n
    /\ \A p \in r.pairs : p[2] <= n
    /\ Ascends(r.stack) /\ LiesClear(r.stack, r.pairs) /\ Nested(r.pairs)

Matched(pairs) == UNION { {p[1], p[2]} : p \in pairs }

PairedOrOpen(r) == Range(r.stack) \cup Matched(r.pairs)

Shifted(b, S) == { b + k : k \in S }

(* One more pair matches its two events.                                   *)
LEMMA MatchedWith ==
    ASSUME NEW P, NEW z
    PROVE  Matched(P \cup {z}) = Matched(P) \cup {z[1], z[2]}
<1> DEFINE Q == P \cup {z}
<1>1. \A e : e \in Matched(Q) <=> \E p \in Q : e \in {p[1], p[2]}
  BY DEF Matched
<1>2. \A e : e \in Matched(P) <=> \E p \in P : e \in {p[1], p[2]}
  BY DEF Matched
<1>3. \A p : p \in Q <=> p \in P \/ p = z
  OBVIOUS
<1> HIDE DEF Q
<1>4. Matched(Q) = Matched(P) \cup {z[1], z[2]}
  BY <1>1, <1>2, <1>3
<1>5. QED
  BY <1>4 DEF Q

(* What is matched or open is among the events so far.                     *)
LEMMA TakenBefore ==
    ASSUME NEW m \in Nat, NEW w \in Pairing(m), NEW n \in 0 .. m, WellPaired(w, n)
    PROVE  PairedOrOpen(w) \subseteq 1 .. n
<1>1. w.stack \in Seq(1 .. m) /\ w.pairs \in SUBSET ((1 .. m) \X (1 .. m))
  BY DEF Pairing
<1>2. \A e \in Range(w.stack) : e \in 1 .. n
  <2>1. \A k \in 1 .. Len(w.stack) : w.stack[k] \in 1 .. m /\ w.stack[k] <= n
    BY <1>1 DEF WellPaired
  <2>2. DOMAIN w.stack = 1 .. Len(w.stack)
    BY <1>1
  <2>3. QED
    BY <2>1, <2>2 DEF Range
<1>3. \A p \in w.pairs : p[1] \in 1 .. n /\ p[2] \in 1 .. n
  <2>1. \A p \in w.pairs : p[1] \in 1 .. m /\ p[2] \in 1 .. m /\ p[1] < p[2] /\ p[2] <= n
    BY <1>1 DEF WellPaired, Nested
  <2>2. QED
    BY <2>1
<1>4. \A e \in Matched(w.pairs) : \E p \in w.pairs : e = p[1] \/ e = p[2]
  BY DEF Matched
<1>5. QED
  BY <1>2, <1>3, <1>4 DEF PairedOrOpen

(***************************************************************************)
(* The places of a table of texts, one chapter after the other.            *)
(***************************************************************************)
(* The places of S where w has the form raw.                               *)
FormSites(w, S, raw) == { p \in S : w[p] = raw }

(* The sites of a part, put behind those of what came before.              *)
IsPart(w, S, R, v, P, Q, f) ==
    /\ \A p, q \in P : p # q => f[p] # f[q]
    /\ \A p \in P : f[p] \notin S /\ w[f[p]] = v[p]
    /\ \A q \in S, p \in P : <<q, f[p]>> \in R
    /\ \A p, q \in P : <<p, q>> \in Q => <<f[p], f[q]>> \in R

ImageOf(f, P) == { f[p] : p \in P }

(* The places of a form in a text with one more part: those before, and    *)
(* those of the part.                                                      *)
LEMMA PartSpelled ==
    ASSUME NEW w, NEW S, NEW R, NEW v, NEW P, NEW Q, NEW f, IsPart(w, S, R, v, P, Q, f),
           IsFiniteSet(S), IsFiniteSet(P), NEW r
    PROVE  /\ FormSites(w, S \cup ImageOf(f, P), r)
                = FormSites(w, S, r) \cup ImageOf(f, FormSites(v, P, r))
           /\ Cardinality(FormSites(w, S \cup ImageOf(f, P), r))
                = Cardinality(FormSites(w, S, r)) + Cardinality(FormSites(v, P, r))
           /\ Cardinality(FormSites(w, S, r)) \in Nat /\ Cardinality(FormSites(v, P, r)) \in Nat
<1> DEFINE A == FormSites(w, S, r)
           B == FormSites(v, P, r)
           T == ImageOf(f, P)
           C == ImageOf(f, B)
           W == FormSites(w, S \cup T, r)
<1>1. W = A \cup C
  <2>1. ASSUME NEW x \in W
        PROVE  x \in A \cup C
    <3>1. w[x] = r /\ (x \in S \/ x \in T)
      BY <2>1 DEF FormSites
    <3>2. CASE x \in S
      BY <3>1, <3>2 DEF FormSites
    <3>3. CASE x \in T
      <4>1. PICK p \in P : x = f[p]
        BY <3>3 DEF ImageOf
      <4>2. v[p] = r
        BY <3>1, <4>1 DEF IsPart
      <4>3. p \in B
        BY <4>2 DEF FormSites
      <4>4. QED
        BY <4>1, <4>3 DEF ImageOf
    <3>4. QED
      BY <3>1, <3>2, <3>3
  <2>2. ASSUME NEW x \in A \cup C
        PROVE  x \in W
    <3>1. CASE x \in A
      BY <3>1 DEF FormSites
    <3>2. CASE x \in C
      <4>1. PICK p \in B : x = f[p]
        BY <3>2 DEF ImageOf
      <4>2. p \in P /\ v[p] = r
        BY <4>1 DEF FormSites
      <4>3. w[x] = r /\ x \in T
        BY <4>1, <4>2 DEF IsPart, ImageOf
      <4>4. QED
        BY <4>3 DEF FormSites
    <3>3. QED
      BY <2>2, <3>1, <3>2
  <2> HIDE DEF A, C, W
  <2>3. QED
    BY <2>1, <2>2
<1>2. A \cap C = {}
  <2>1. ASSUME NEW x \in A, x \in C
        PROVE  FALSE
    <3>1. PICK p \in B : x = f[p]
      BY <2>1 DEF ImageOf
    <3>2. p \in P /\ x \in S
      BY <2>1, <3>1 DEF FormSites
    <3>3. QED
      BY <3>1, <3>2 DEF IsPart
  <2>2. QED
    BY <2>1
<1>3. A \in SUBSET S /\ B \in SUBSET P
  BY DEF FormSites
<1>4. IsFiniteSet(A) /\ IsFiniteSet(B)
  BY <1>3, FS_Subset
<1>5. IsFiniteSet(C) /\ Cardinality(C) = Cardinality(B)
  <2>1. \A p, q \in B : p # q => f[p] # f[q]
    BY <1>3 DEF IsPart
  <2> HIDE DEF B
  <2>2. QED
    BY <1>4, <2>1, ImageCounted DEF ImageOf
<1> HIDE DEF A, B, C, T, W
<1>6. Cardinality(A \cup C) = Cardinality(A) + Cardinality(C) - Cardinality(A \cap C)
  BY <1>4, <1>5, FS_Union
<1>7. Cardinality(A) \in Nat /\ Cardinality(B) \in Nat /\ Cardinality(A \cap C) = 0
  BY <1>2, <1>4, FS_CardinalityType, FS_EmptySet
<1>8. Cardinality(W) = Cardinality(A) + Cardinality(B)
  BY <1>1, <1>5, <1>6, <1>7
<1>9. QED
  BY <1>1, <1>7, <1>8 DEF A, B, C, T, W

WrittenIn(chapter) == [p \in PlacesIn(chapter) |-> chapter[p[1]][p[2]]]

(* A place of the corpus is its book, chapter, verse and index.            *)
Quads == Nat \X Nat \X Nat \X Nat

(* The order of the places of a corpus.                                    *)
Sooner(a, b) ==
    \/ a[1] < b[1]
    \/ a[1] = b[1] /\ a[2] < b[2]
    \/ a[1] = b[1] /\ a[2] = b[2] /\ a[3] < b[3]
    \/ a[1] = b[1] /\ a[2] = b[2] /\ a[3] = b[3] /\ a[4] < b[4]

QuadOrder == { z \in Quads \X Quads : Sooner(z[1], z[2]) }

(* Every place of the table of a corpus.                                   *)
QuadsIn(table) ==
    { q \in Quads : /\ q[1] \in DOMAIN table /\ q[2] \in DOMAIN table[q[1]]
                    /\ <<q[3], q[4]>> \in PlacesIn(table[q[1]][q[2]]) }

(* A place of a corpus is its book, chapter, verse and unit.               *)
LEMMA QuadIs ==
    ASSUME NEW q \in Quads
    PROVE  /\ q = <<q[1], q[2], q[3], q[4]>>
           /\ Tail(q) = <<q[2], q[3], q[4]>>
           /\ q[1] \in Nat /\ q[2] \in Nat /\ q[3] \in Nat /\ q[4] \in Nat
<1>1. q = <<q[1], q[2], q[3], q[4]>> /\ q[1] \in Nat /\ q[2] \in Nat /\ q[3] \in Nat /\ q[4] \in Nat
  BY DEF Quads
<1> DEFINE a == q[1]
           b == q[2]
           c == q[3]
           d == q[4]
<1>2. q = <<a, b, c, d>>
  BY <1>1
<1> HIDE DEF a, b, c, d
<1>3. Tail(<<a, b, c, d>>) = <<b, c, d>>
  OBVIOUS
<1>4. QED
  BY <1>1, <1>2, <1>3 DEF a, b, c, d

CorpusOver(U) == Seq(Seq(Seq(Seq(U))))

TextOf(table) == [q \in QuadsIn(table) |-> table[q[1]][q[2]][q[3]][q[4]]]

ChapterPlaces(table, at) == [p \in PlacesIn(table[at[1]][at[2]]) |-> at \o p]

(* The places of the chapters named so far.                                *)
PlacesFrom(table, at, n) == { q \in QuadsIn(table) : <<q[1], q[2]>> \in UpTill(at, n) }

(* The chapter named e adds its places, all later, to those of S.          *)
ExtendsPlaces(table, e, S, T) ==
    LET chapter == table[e[1]][e[2]]
        f == ChapterPlaces(table, e)
        P == PlacesIn(chapter) IN
    /\ e[1] \in DOMAIN table /\ e[2] \in DOMAIN table[e[1]]
    /\ \A p \in P : f[p] = e \o p
    /\ T = S \cup ImageOf(f, P)
    /\ IsPart(TextOf(table), S, QuadOrder, WrittenIn(chapter), P, PairOrder, f)

(* The places of one more chapter come after those before it.              *)
LEMMA ChapterIsPart ==
    ASSUME NEW U, NEW table \in CorpusOver(U), NEW n \in 1 .. Len(PlacesOf(table))
    PROVE  ExtendsPlaces(table, PlacesOf(table)[n], PlacesFrom(table, PlacesOf(table), n - 1),
                         PlacesFrom(table, PlacesOf(table), n))
<1> DEFINE at == PlacesOf(table)
           e == at[n]
           b == e[1]
           c == e[2]
           chapter == table[b][c]
           P == PlacesIn(chapter)
           f == ChapterPlaces(table, e)
           S == PlacesFrom(table, at, n - 1)
           T == PlacesFrom(table, at, n)
           w == TextOf(table)
           v == WrittenIn(chapter)
           H == PlacesIn(table)
<1>1. \A p \in H : p[1] \in DOMAIN table /\ p[2] \in DOMAIN table[p[1]] /\ p = <<p[1], p[2]>> /\ p[1] \in Nat /\ p[2] \in Nat
  <2>1. table \in Seq(Seq(Seq(Seq(U))))
    BY DEF CorpusOver
  <2> DEFINE V == Seq(Seq(U))
  <2>2. table \in Seq(Seq(V))
    BY <2>1
  <2> HIDE DEF V
  <2>3. QED
    BY <2>2, PlacesAre
<1>2. IsEnumeration(at, H, PairOrder)
  <2> DEFINE V == Seq(Seq(U))
  <2>1. table \in Seq(Seq(V))
    BY DEF CorpusOver
  <2> HIDE DEF V
  <2>2. QED
    BY <2>1, PlacesAscend
<1>3. \A p \in H : <<p, p>> \notin PairOrder
  BY <1>1 DEF PairOrder
<1>4. /\ UpTill(at, n) = UpTill(at, n - 1) \cup {e} /\ e \in H /\ e \notin UpTill(at, n - 1)
      /\ \A q \in UpTill(at, n - 1) : <<q, e>> \in PairOrder
  <2> HIDE DEF H
  <2>1. QED
    BY <1>2, <1>3, Enumerated
<1>5. b \in DOMAIN table /\ c \in DOMAIN table[b] /\ e = <<b, c>> /\ b \in Nat /\ c \in Nat
  BY <1>1, <1>4
<1>6. chapter \in Seq(Seq(U))
  BY <1>5 DEF CorpusOver
<1>7. \A p \in P : p[1] \in Nat /\ p[2] \in Nat /\ p = <<p[1], p[2]>> /\ v[p] = chapter[p[1]][p[2]]
  BY <1>6, PlacesAre DEF WrittenIn
<1> HIDE DEF at, e, P, v, chapter
<1>8. \A p \in P : f[p] = e \o p
  BY DEF ChapterPlaces, P, chapter
<1> HIDE DEF f
<1>9. ASSUME NEW p \in P
      PROVE  f[p] = <<b, c, p[1], p[2]>>
  <2> DEFINE x == p[1]
             y == p[2]
  <2>1. x \in Nat /\ y \in Nat /\ p = <<x, y>>
    BY <1>7
  <2> HIDE DEF x, y, b, c
  <2>2. <<b, c>> \o <<x, y>> = <<b, c, x, y>>
    BY <1>5, <2>1, Joined22
  <2>3. QED
    BY <1>5, <1>8, <2>1, <2>2 DEF x, y
<1> HIDE DEF b, c, H
<1>10. \A p \in P : /\ f[p] \in Quads /\ f[p][1] = b /\ f[p][2] = c /\ f[p][3] = p[1] /\ f[p][4] = p[2]
  <2>1. ASSUME NEW p \in P
        PROVE  /\ f[p] \in Quads /\ f[p][1] = b /\ f[p][2] = c /\ f[p][3] = p[1] /\ f[p][4] = p[2]
    <3> DEFINE x == p[1]
               y == p[2]
    <3>1. x \in Nat /\ y \in Nat /\ b \in Nat /\ c \in Nat /\ f[p] = <<b, c, x, y>>
      BY <1>5, <1>7, <1>9
    <3> HIDE DEF x, y
    <3>2. <<b, c, x, y>> \in Quads
      BY <3>1 DEF Quads
    <3>3. QED
      BY <3>1, <3>2 DEF x, y
  <2>2. QED
    BY <2>1
<1>11. \A p \in P : f[p] \in QuadsIn(table) /\ w[f[p]] = v[p]
  <2>1. ASSUME NEW p \in P
        PROVE  f[p] \in QuadsIn(table) /\ w[f[p]] = v[p]
    <3> DEFINE q == f[p]
    <3>1. q \in Quads /\ q[1] = b /\ q[2] = c /\ q[3] = p[1] /\ q[4] = p[2]
      BY <1>10
    <3> HIDE DEF q
    <3>2. q \in QuadsIn(table)
      BY <1>5, <1>7, <3>1 DEF QuadsIn, P, chapter
    <3>3. w[q] = v[p]
      BY <1>7, <3>1, <3>2 DEF TextOf, chapter
    <3>4. QED
      BY <3>2, <3>3 DEF q
  <2>2. QED
    BY <2>1
<1>12. T = S \cup ImageOf(f, P)
  <2>1. ASSUME NEW q \in T
        PROVE  q \in S \cup ImageOf(f, P)
    <3>1. q \in QuadsIn(table) /\ <<q[1], q[2]>> \in UpTill(at, n)
      BY <2>1 DEF PlacesFrom
    <3>2. CASE <<q[1], q[2]>> \in UpTill(at, n - 1)
      BY <3>1, <3>2 DEF PlacesFrom
    <3>3. CASE <<q[1], q[2]>> = e
      <4> DEFINE p == <<q[3], q[4]>>
      <4>1. q[1] = b /\ q[2] = c
        BY <1>5, <3>3
      <4>2. p \in P /\ q \in Quads
        BY <3>1, <4>1 DEF QuadsIn, P, chapter
      <4>3. f[p] = <<b, c, q[3], q[4]>>
        BY <1>9, <4>2
      <4>4. q = f[p]
        BY <4>1, <4>2, <4>3, QuadIs
      <4>5. QED
        BY <4>2, <4>4 DEF ImageOf
    <3>4. QED
      BY <1>4, <3>1, <3>2, <3>3
  <2>2. ASSUME NEW q \in S
        PROVE  q \in T
    BY <1>4 DEF PlacesFrom
  <2>3. ASSUME NEW p \in P
        PROVE  f[p] \in T
    BY <1>4, <1>5, <1>10, <1>11 DEF PlacesFrom
  <2> HIDE DEF S, T
  <2>4. QED
    BY <2>1, <2>2, <2>3 DEF ImageOf
<1>13. \A p, q \in P : p # q => f[p] # f[q]
  BY <1>7, <1>10
<1>14. \A p \in P : f[p] \notin S /\ w[f[p]] = v[p]
  BY <1>4, <1>5, <1>10, <1>11 DEF PlacesFrom
<1>15. ASSUME NEW q \in S, NEW p \in P
       PROVE  <<q, f[p]>> \in QuadOrder
  <2> DEFINE g == f[p]
  <2>1. q \in Quads /\ <<q[1], q[2]>> \in UpTill(at, n - 1)
    BY DEF PlacesFrom, QuadsIn
  <2>2. <<<<q[1], q[2]>>, <<b, c>>>> \in PairOrder
    BY <1>4, <1>5, <2>1
  <2>3. q[1] < b \/ (q[1] = b /\ q[2] < c)
    BY <2>2 DEF PairOrder
  <2>4. g \in Quads /\ g[1] = b /\ g[2] = c
    BY <1>10
  <2> HIDE DEF g
  <2>5. Sooner(q, g)
    BY <2>3, <2>4 DEF Sooner
  <2>6. QED
    BY <2>1, <2>4, <2>5 DEF QuadOrder, g
<1>16. ASSUME NEW p \in P, NEW q \in P, <<p, q>> \in PairOrder
       PROVE  <<f[p], f[q]>> \in QuadOrder
  <2> DEFINE g == f[p]
             h == f[q]
  <2>1. /\ g \in Quads /\ g[1] = b /\ g[2] = c /\ g[3] = p[1] /\ g[4] = p[2]
        /\ h \in Quads /\ h[1] = b /\ h[2] = c /\ h[3] = q[1] /\ h[4] = q[2]
    BY <1>10
  <2>2. p[1] < q[1] \/ (p[1] = q[1] /\ p[2] < q[2])
    BY <1>16 DEF PairOrder
  <2> HIDE DEF g, h
  <2>3. Sooner(g, h)
    BY <2>1, <2>2 DEF Sooner
  <2>4. QED
    BY <2>1, <2>3 DEF QuadOrder, g, h
<1> HIDE DEF S, w
<1>17. IsPart(w, S, QuadOrder, v, P, PairOrder, f)
  BY <1>13, <1>14, <1>15, <1>16 DEF IsPart
<1>18. QED
  BY <1>5, <1>8, <1>12, <1>17 DEF ExtendsPlaces, at, e, b, c, chapter, P, f, S, T, w, v

(***************************************************************************)
(* Stretches of one letter.                                                *)
(***************************************************************************)
IsWritten(letter) == letter # ""

(* From s to n stands one letter, and neither before nor after.            *)
IsStretch(letters, m, s, n) ==
    /\ s \in 1 .. n /\ n \in 1 .. m
    /\ \A k \in s .. n : letters[k] = letters[s]
    /\ s = 1 \/ letters[s - 1] # letters[s]
    /\ n = m \/ letters[n + 1] # letters[s]

(* Two stretches that meet are one.                                        *)
LEMMA StretchesMeet ==
    ASSUME NEW letters, NEW m \in Nat, NEW i, NEW j, IsStretch(letters, m, i, j),
           NEW s, NEW n, IsStretch(letters, m, s, n), j \in s .. n
    PROVE  i = s /\ j = n
<1>1. /\ i \in Nat /\ j \in Nat /\ s \in Nat /\ n \in Nat /\ i <= j /\ s <= n /\ j <= m /\ n <= m
      /\ s <= j /\ j <= n /\ 1 <= i /\ 1 <= s
  BY DEF IsStretch
<1>2. /\ \A k \in s .. n : letters[k] = letters[s]
      /\ \A k \in i .. j : letters[k] = letters[i]
      /\ s = 1 \/ letters[s - 1] # letters[s]
      /\ i = 1 \/ letters[i - 1] # letters[i]
      /\ n = m \/ letters[n + 1] # letters[s]
      /\ j = m \/ letters[j + 1] # letters[i]
  BY DEF IsStretch
<1>3. letters[i] = letters[s]
  <2>1. j \in i .. j /\ j \in s .. n
    BY <1>1
  <2>2. QED
    BY <1>2, <2>1
<1>4. j = n
  <2>1. j # n => j + 1 \in s .. n /\ j # m
    BY <1>1
  <2>2. QED
    BY <1>2, <1>3, <2>1
<1>5. ~ (i > s)
  <2>1. i > s => i - 1 \in s .. n /\ i # 1
    BY <1>1
  <2>2. QED
    BY <1>2, <1>3, <2>1
<1>6. ~ (i < s)
  <2>1. i < s => s - 1 \in i .. j /\ s # 1
    BY <1>1
  <2>2. QED
    BY <1>2, <1>3, <2>1
<1>7. QED
  BY <1>1, <1>4, <1>5, <1>6

(* A stretch lies within the letters.                                      *)
LEMMA StretchIn ==
    ASSUME NEW letters, NEW m \in Nat, NEW s, NEW n, IsStretch(letters, m, s, n)
    PROVE  /\ s \in Nat /\ n \in Nat /\ s \in 1 .. m /\ n \in 1 .. m /\ 1 <= s /\ s <= n
           /\ s \in s .. n /\ n \in s .. n
BY DEF IsStretch

(* The runs of a verse long enough to be listed.                           *)
AreMaximal(M, letters, m) ==
    /\ \A r \in M : r = <<r[1], r[2]>> /\ r[1] \in 1 .. m /\ r[2] \in 1 .. m
    /\ \A i, j : <<i, j>> \in M <=> IsStretch(letters, m, i, j) /\ IsWritten(letters[i]) /\ j - i + 1 >= 3

UpToIndex(M, n) == { r \in M : r[2] <= n }

GainsRun(M, s, n) ==
    UpToIndex(M, n) = UpToIndex(M, s - 1) \cup (IF n - s + 1 >= 3 THEN {<<s, n>>} ELSE {})

(* A run under way that the next letter ends is a maximal one.             *)
LEMMA RunEnds ==
    ASSUME NEW letters, NEW m \in Nat, NEW M, AreMaximal(M, letters, m),
           NEW s, NEW n, IsStretch(letters, m, s, n), IsWritten(letters[s])
    PROVE  GainsRun(M, s, n)
<1>1. \A r \in M : r = <<r[1], r[2]>> /\ r[1] \in 1 .. m /\ r[2] \in 1 .. m
  BY DEF AreMaximal
<1>2. \A i, j : <<i, j>> \in M <=> IsStretch(letters, m, i, j) /\ IsWritten(letters[i]) /\ j - i + 1 >= 3
  BY DEF AreMaximal
<1>3. s \in Nat /\ n \in Nat /\ 1 <= s /\ s <= n
  BY StretchIn
<1>4. ASSUME NEW r \in M, r[2] \in s .. n
      PROVE  r = <<s, n>> /\ n - s + 1 >= 3
  <2>1. r = <<r[1], r[2]>> /\ <<r[1], r[2]>> \in M
    BY <1>1
  <2>2. IsStretch(letters, m, r[1], r[2]) /\ r[2] - r[1] + 1 >= 3
    BY <1>2, <2>1
  <2> DEFINE i == r[1]
             j == r[2]
  <2>3. IsStretch(letters, m, i, j) /\ j \in s .. n
    BY <1>4, <2>2
  <2> HIDE DEF i, j
  <2>4. i = s /\ j = n
    BY <2>3, StretchesMeet
  <2>5. QED
    BY <2>1, <2>2, <2>4 DEF i, j
<1>5. n - s + 1 >= 3 => <<s, n>> \in M
  BY <1>2
<1> DEFINE A == { r \in M : r[2] <= n }
           B == { r \in M : r[2] <= s - 1 }
           C == IF n - s + 1 >= 3 THEN {<<s, n>>} ELSE {}
<1>6. \A x \in 1 .. m : x <= n <=> x <= s - 1 \/ x \in s .. n
  BY <1>3
<1>7. \A r \in M : r[2] <= n <=> r[2] <= s - 1 \/ r[2] \in s .. n
  BY <1>1, <1>6
<1>8. A \subseteq B \cup C
  BY <1>4, <1>7
<1>9. C \subseteq A
  <2>1. <<s, n>>[2] = n /\ n <= n
    BY <1>3
  <2>2. QED
    BY <1>5, <2>1
<1>10. B \subseteq A
  BY <1>7
<1>11. QED
  BY <1>8, <1>9, <1>10 DEF GainsRun, UpToIndex

(* A blank where no run is under way ends none.                            *)
LEMMA BlankEndsNothing ==
    ASSUME NEW letters, NEW m \in Nat, NEW M, AreMaximal(M, letters, m), NEW n \in 1 .. m,
           ~ IsWritten(letters[n])
    PROVE  UpToIndex(M, n) = UpToIndex(M, n - 1)
<1>1. \A r \in M : r = <<r[1], r[2]>> /\ r[1] \in 1 .. m /\ r[2] \in 1 .. m
  BY DEF AreMaximal
<1>2. \A i, j : <<i, j>> \in M => IsStretch(letters, m, i, j) /\ IsWritten(letters[i])
  BY DEF AreMaximal
<1>3. ASSUME NEW r \in M, r[2] = n
      PROVE  FALSE
  <2>1. IsStretch(letters, m, r[1], r[2]) /\ IsWritten(letters[r[1]])
    BY <1>1, <1>2
  <2>2. r[2] \in r[1] .. r[2]
    BY <2>1, StretchIn
  <2>3. letters[r[2]] = letters[r[1]]
    BY <2>1, <2>2 DEF IsStretch
  <2>4. QED
    BY <1>3, <2>1, <2>3
<1>4. \A x \in 1 .. m : x # n => (x <= n <=> x <= n - 1)
  OBVIOUS
<1>5. \A x \in 1 .. m : x <= n - 1 => x <= n
  OBVIOUS
<1>6. \A r \in M : r[2] <= n <=> r[2] <= n - 1
  BY <1>1, <1>3, <1>4
<1>7. QED
  BY <1>6 DEF UpToIndex
==============================================================================
