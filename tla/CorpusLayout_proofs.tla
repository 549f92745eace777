------------------------- MODULE CorpusLayout_proofs -------------------------
(***************************************************************************)
(* Proofs about CorpusLayout: for corpora, batches and ceilings of every    *)
(* size, the locally maintained layout is the one a fresh construction     *)
(* derives, and the corpus stays one it would accept.                      *)
(***************************************************************************)
EXTENDS CorpusLayout, DataInduction, FiniteSetTheorems

(***************************************************************************)
(* Ordered: a set of positions enumerated upward, in the only way there is. *)
(***************************************************************************)
Enumerates(s, k, S) ==
    /\ s \in [1 .. k -> S]
    /\ \A a, b \in 1 .. k : a < b => s[a] < s[b]
    /\ \A i \in S : \E n \in 1 .. k : s[n] = i

LEMMA EnumeratedCount ==
    ASSUME NEW k \in Nat, NEW S \in SUBSET Int, NEW s, Enumerates(s, k, S)
    PROVE  IsFiniteSet(S) /\ Cardinality(S) = k
<1>1. s \in Bijection(1 .. k, S)
  <2>1. \A a, b \in 1 .. k : s[a] = s[b] => a = b
    <3>1. SUFFICES ASSUME NEW a \in 1 .. k, NEW b \in 1 .. k, s[a] = s[b]
                   PROVE  a = b
      OBVIOUS
    <3>2. s[a] \in Int /\ s[b] \in Int
      BY DEF Enumerates
    <3>3. ~ (a < b) /\ ~ (b < a)
      BY <3>1, <3>2 DEF Enumerates
    <3>4. QED
      BY <3>3
  <2>2. QED
    BY <2>1 DEF Enumerates, Bijection, Injection, Surjection, IsInjective
<1>2. ExistsBijection(1 .. k, S)
  BY <1>1 DEF ExistsBijection
<1>3. IsFiniteSet(1 .. k)
  BY FS_Interval
<1>4. IsFiniteSet(S)
  BY <1>2, <1>3, FS_Bijection
<1>5. QED
  BY <1>2, <1>4, FS_CountingElements

LEMMA OrderedIs ==
    ASSUME NEW k \in Nat, NEW S \in SUBSET Int, NEW s, Enumerates(s, k, S)
    PROVE  Ordered(S) = s
<1> DEFINE Below(i) == { j \in S : j < i }
<1>1. /\ s \in [1 .. k -> S]
      /\ \A a, b \in 1 .. k : a < b => s[a] < s[b]
      /\ \A i \in S : \E n \in 1 .. k : s[n] = i
  BY DEF Enumerates
<1>2. ASSUME NEW n \in 1 .. k
      PROVE  Cardinality(Below(s[n])) = n - 1
  <2> DEFINE t == [m \in 1 .. n - 1 |-> s[m]]
  <2>1. \A m \in 1 .. n - 1 : m \in 1 .. k /\ m < n
    OBVIOUS
  <2>2. t \in [1 .. n - 1 -> Below(s[n])]
    BY <1>1, <2>1
  <2>3. \A a, b \in 1 .. n - 1 : a < b => t[a] < t[b]
    BY <1>1, <2>1
  <2>4. ASSUME NEW j \in Below(s[n])
        PROVE  \E m \in 1 .. n - 1 : t[m] = j
    <3>1. PICK m \in 1 .. k : s[m] = j
      BY <1>1
    <3>2. m < n
      <4>1. s[m] < s[n] /\ s[m] \in Int /\ s[n] \in Int
        BY <1>1, <3>1
      <4>2. ~ (n < m) /\ n # m
        BY <1>1, <4>1
      <4>3. QED
        BY <4>2
    <3>3. QED
      BY <3>1, <3>2
  <2>5. \A i : Below(i) \in SUBSET Int
    OBVIOUS
  <2>6. Enumerates(t, n - 1, Below(s[n]))
    <3> HIDE DEF t, Below
    <3>1. QED
      BY <2>2, <2>3, <2>4 DEF Enumerates
  <2> HIDE DEF t, Below
  <2>7. n - 1 \in Nat
    OBVIOUS
  <2>8. QED
    BY <2>5, <2>6, <2>7, EnumeratedCount
<1>3. ASSUME NEW n \in 1 .. k
      PROVE  Nth(S, n) = s[n]
  <2>1. \A i \in S : Cardinality(Below(i)) = n - 1 => i = s[n]
    <3>1. SUFFICES ASSUME NEW i \in S, Cardinality(Below(i)) = n - 1
                   PROVE  i = s[n]
      OBVIOUS
    <3>2. PICK m \in 1 .. k : s[m] = i
      BY <1>1
    <3> HIDE DEF Below
    <3>3. m - 1 = n - 1
      BY <1>2, <3>1, <3>2
    <3>4. QED
      BY <3>2, <3>3
  <2>2. s[n] \in S /\ Cardinality(Below(s[n])) = n - 1
    BY <1>1, <1>2
  <2>3. Nth(S, n) = CHOOSE i \in S : Cardinality(Below(i)) = n - 1
    BY DEF Nth
  <2> HIDE DEF Below
  <2>4. QED
    BY <2>1, <2>2, <2>3
<1>4. Cardinality(S) = k
  BY EnumeratedCount
<1>5. Ordered(S) = [n \in 1 .. k |-> Nth(S, n)]
  BY <1>4 DEF Ordered
<1>6. s = [n \in 1 .. k |-> s[n]]
  BY <1>1
<1>7. QED
  BY <1>3, <1>5, <1>6

(***************************************************************************)
(* Chains: ranges [first, next) that tile [a, e), as books tile a corpus    *)
(* and chapters a book.                                                    *)
(***************************************************************************)
Chained(s, a, e) ==
    /\ a \in Nat /\ e \in Nat
    /\ Len(s) \in Nat /\ DOMAIN s = 1 .. Len(s)
    /\ \A n \in 1 .. Len(s) : /\ s[n].first \in Nat /\ s[n].next \in Nat
                              /\ s[n].first < s[n].next
    /\ \A n \in 2 .. Len(s) : s[n].first = s[n - 1].next
    /\ Len(s) = 0 => a = e
    /\ Len(s) # 0 => s[1].first = a /\ s[Len(s)].next = e

LEMMA ChainOrder ==
    ASSUME NEW s, NEW a, NEW e, Chained(s, a, e)
    PROVE  /\ \A n \in 1 .. Len(s) : \A m \in 1 .. n - 1 : s[m].next <= s[n].first
           /\ \A n \in 1 .. Len(s) : a <= s[n].first /\ s[n].next <= e
<1> DEFINE k == Len(s)
           P == { n \in 0 .. k : \A m \in 1 .. n - 1 : s[m].next <= s[n].first }
<1>1. /\ k \in Nat /\ a \in Nat /\ e \in Nat
      /\ \A n \in 1 .. k : s[n].first \in Nat /\ s[n].next \in Nat /\ s[n].first < s[n].next
      /\ \A n \in 2 .. k : s[n].first = s[n - 1].next
      /\ k # 0 => s[1].first = a /\ s[k].next = e
  BY DEF Chained
<1> HIDE DEF k
<1>2. 0 \in P
  BY <1>1
<1>3. ASSUME NEW n \in 0 .. k - 1, n \in P
      PROVE  n + 1 \in P
  <2> DEFINE j == n + 1
  <2>1. j \in 1 .. k /\ j \in 0 .. k /\ j - 1 = n /\ n \in 0 .. k
    BY <1>1
  <2>2. \A m \in 1 .. n - 1 : s[m].next <= s[n].first
    BY <1>3
  <2> HIDE DEF j
  <2>3. ASSUME NEW m \in 1 .. j - 1
        PROVE  s[m].next <= s[j].first
    <3>1. n \in 1 .. k /\ j \in 2 .. k /\ m \in 1 .. k
      <4>1. m \in Nat /\ 1 <= m /\ m <= n
        BY <2>1
      <4>2. QED
        BY <1>1, <2>1, <4>1
    <3>2. s[j].first = s[n].next
      BY <1>1, <2>1, <3>1
    <3>3. m = n \/ m \in 1 .. n - 1
      BY <2>1
    <3>4. QED
      BY <1>1, <2>2, <3>1, <3>2, <3>3
  <2>4. QED
    BY <2>1, <2>3 DEF j
<1>4. 0 .. k \subseteq P
  <2> HIDE DEF P
  <2>1. QED
    BY <1>1, <1>2, <1>3, UpTo
<1>5. \A n \in 1 .. k : \A m \in 1 .. n - 1 : s[m].next <= s[n].first
  <2>1. \A n \in 1 .. k : n \in 0 .. k
    OBVIOUS
  <2>2. QED
    BY <1>4, <2>1
<1>6. ASSUME NEW n \in 1 .. k
      PROVE  a <= s[n].first /\ s[n].next <= e
  <2>1. 1 \in 1 .. k /\ k \in 1 .. k /\ (n = 1 \/ 1 \in 1 .. n - 1) /\ (n = k \/ n \in 1 .. k - 1)
    BY <1>1
  <2>2. a <= s[n].first
    BY <1>1, <1>5, <2>1
  <2>3. s[n].next <= e
    BY <1>1, <1>5, <2>1
  <2>4. QED
    BY <2>2, <2>3
<1>7. QED
  BY <1>5, <1>6 DEF k

LEMMA ChainCovers ==
    ASSUME NEW s, NEW a, NEW e, Chained(s, a, e), NEW i \in a .. e - 1
    PROVE  \E n \in 1 .. Len(s) : i \in s[n].first .. s[n].next - 1
<1> SUFFICES ASSUME ~ \E n \in 1 .. Len(s) : i \in s[n].first .. s[n].next - 1
             PROVE  FALSE
  OBVIOUS
<1> DEFINE k == Len(s)
           P == { n \in 0 .. k : n = 0 \/ s[n].next <= i }
<1>1. /\ k \in Nat /\ a \in Nat /\ e \in Nat
      /\ \A n \in 1 .. k : s[n].first \in Nat /\ s[n].next \in Nat /\ s[n].first < s[n].next
      /\ \A n \in 2 .. k : s[n].first = s[n - 1].next
      /\ k = 0 => a = e
      /\ k # 0 => s[1].first = a /\ s[k].next = e
  BY DEF Chained
<1>2. \A n \in 1 .. k : s[n].first <= i => s[n].next <= i
  BY <1>1
<1> HIDE DEF k
<1>3. 0 \in P
  BY <1>1
<1>4. ASSUME NEW n \in 0 .. k - 1, n \in P
      PROVE  n + 1 \in P
  <2> DEFINE j == n + 1
  <2>1. j \in 1 .. k /\ j \in 0 .. k /\ j - 1 = n /\ (n = 0 => j = 1) /\ (n # 0 => j \in 2 .. k)
    BY <1>1
  <2>2. n # 0 => s[n].next <= i
    BY <1>4
  <2> HIDE DEF j
  <2>3. s[j].first <= i
    BY <1>1, <2>1, <2>2
  <2>4. s[j].next <= i
    BY <1>2, <2>1, <2>3
  <2>5. QED
    BY <2>1, <2>4 DEF j
<1>5. 0 .. k \subseteq P
  <2> HIDE DEF P
  <2>1. QED
    BY <1>1, <1>3, <1>4, UpTo
<1>6. k \in P
  BY <1>1, <1>5
<1>7. QED
  BY <1>1, <1>6

(***************************************************************************)
(* Colours: what the elements of a range share, the book of a verse or its *)
(* whole key.  No colour comes back in a chain of distinctly coloured       *)
(* ranges, and where none does, there is such a chain.                     *)
(***************************************************************************)
Coloured(s, c) ==
    \A n \in 1 .. Len(s) : \A i \in s[n].first .. s[n].next - 1 : c[i] = c[s[n].first]

Apart(s, c) == \A m, n \in 1 .. Len(s) : c[s[m].first] = c[s[n].first] => m = n

Heads(c, a, e) == { i \in a .. e - 1 : i = a \/ c[i] # c[i - 1] }

LEMMA ChainHeads ==
    ASSUME NEW s, NEW a, NEW e, Chained(s, a, e), NEW c, Coloured(s, c), Apart(s, c)
    PROVE  Enumerates([n \in 1 .. Len(s) |-> s[n].first], Len(s), Heads(c, a, e))
<1> DEFINE k == Len(s)
           t == [n \in 1 .. k |-> s[n].first]
<1>1. /\ k \in Nat /\ a \in Nat /\ e \in Nat
      /\ \A n \in 1 .. k : s[n].first \in Nat /\ s[n].next \in Nat /\ s[n].first < s[n].next
      /\ \A n \in 2 .. k : s[n].first = s[n - 1].next
      /\ k # 0 => s[1].first = a
  BY DEF Chained
<1>2. /\ \A n \in 1 .. k : \A m \in 1 .. n - 1 : s[m].next <= s[n].first
      /\ \A n \in 1 .. k : a <= s[n].first /\ s[n].next <= e
  BY ChainOrder
<1>3. /\ \A n \in 1 .. k : \A i \in s[n].first .. s[n].next - 1 : c[i] = c[s[n].first]
      /\ \A m, n \in 1 .. k : c[s[m].first] = c[s[n].first] => m = n
  BY DEF Coloured, Apart
<1>4. \A i \in a .. e - 1 : \E n \in 1 .. k : i \in s[n].first .. s[n].next - 1
  BY ChainCovers
<1> HIDE DEF k
<1>5. ASSUME NEW n \in 1 .. k
      PROVE  s[n].first \in Heads(c, a, e)
  <2>1. s[n].first \in a .. e - 1
    BY <1>1, <1>2
  <2>2. CASE n = 1
    BY <1>1, <2>1, <2>2 DEF Heads
  <2>3. CASE n # 1
    <3> DEFINE m == n - 1
    <3>1. n \in 2 .. k /\ m \in 1 .. k /\ m # n /\ s[n].first = s[m].next
      BY <1>1, <2>3
    <3> HIDE DEF m
    <3>2. s[n].first - 1 \in s[m].first .. s[m].next - 1
      BY <1>1, <3>1
    <3>3. c[s[n].first - 1] = c[s[m].first]
      BY <1>3, <3>1, <3>2
    <3>4. c[s[n].first] # c[s[n].first - 1]
      BY <1>3, <3>1, <3>3
    <3>5. QED
      BY <2>1, <3>4 DEF Heads
  <2>4. QED
    BY <2>2, <2>3
<1>6. ASSUME NEW i \in Heads(c, a, e)
      PROVE  \E n \in 1 .. k : t[n] = i
  <2>1. i \in a .. e - 1 /\ (i = a \/ c[i] # c[i - 1])
    BY DEF Heads
  <2>2. PICK n \in 1 .. k : i \in s[n].first .. s[n].next - 1
    BY <1>4, <2>1
  <2>3. i = s[n].first
    <3>1. SUFFICES ASSUME s[n].first < i
                   PROVE  FALSE
      BY <1>1, <2>1, <2>2
    <3>2. i # a
      BY <1>1, <1>2, <2>1, <2>2, <3>1
    <3>3. i - 1 \in s[n].first .. s[n].next - 1
      BY <1>1, <2>1, <2>2, <3>1
    <3>4. c[i] = c[i - 1]
      BY <1>3, <2>2, <3>3
    <3>5. QED
      BY <2>1, <3>2, <3>4
  <2>4. QED
    BY <2>3
<1>7. t \in [1 .. k -> Heads(c, a, e)]
  BY <1>5
<1>8. \A m, n \in 1 .. k : m < n => t[m] < t[n]
  <2>1. SUFFICES ASSUME NEW m \in 1 .. k, NEW n \in 1 .. k, m < n
                 PROVE  s[m].first < s[n].first
    OBVIOUS
  <2>2. m \in 1 .. n - 1
    BY <2>1
  <2>3. s[m].next <= s[n].first
    BY <1>2, <2>2
  <2>4. QED
    BY <1>1, <2>3
<1> HIDE DEF t
<1>9. Enumerates(t, k, Heads(c, a, e))
  BY <1>6, <1>7, <1>8 DEF Enumerates
<1>10. QED
  BY <1>9 DEF t, k

LEMMA OrderedHeads ==
    ASSUME NEW s, NEW a, NEW e, Chained(s, a, e), NEW c, Coloured(s, c), Apart(s, c)
    PROVE  Ordered(Heads(c, a, e)) = [n \in 1 .. Len(s) |-> s[n].first]
<1>1. Len(s) \in Nat /\ a \in Nat /\ e \in Nat
  BY DEF Chained
<1>2. Heads(c, a, e) \in SUBSET Int
  BY <1>1 DEF Heads
<1>3. Enumerates([n \in 1 .. Len(s) |-> s[n].first], Len(s), Heads(c, a, e))
  BY ChainHeads
<1>4. QED
  BY <1>1, <1>2, <1>3, OrderedIs

Ranges == [first : Nat, next : Nat]

NoReturn(c, a, e) ==
    \A i, j \in a .. e - 1 : i <= j /\ c[i] = c[j] => \A m \in i .. j : c[m] = c[i]

IsChain(s, a, e, c) ==
    s \in Seq(Ranges) /\ Chained(s, a, e) /\ Coloured(s, c) /\ Apart(s, c)

(* One more position of the last colour.                                   *)
LEMMA ChainGrows ==
    ASSUME NEW s, NEW a, NEW e, NEW c, IsChain(s, a, e, c), e # a, c[e] = c[e - 1]
    PROVE  \E t : IsChain(t, a, e + 1, c)
<1> DEFINE k == Len(s)
           t == [s EXCEPT ![k] = [first |-> s[k].first, next |-> e + 1]]
<1>1. /\ k \in Nat /\ a \in Nat /\ e \in Nat /\ DOMAIN s = 1 .. k
      /\ \A n \in 1 .. k : s[n].first \in Nat /\ s[n].next \in Nat /\ s[n].first < s[n].next
      /\ \A n \in 2 .. k : s[n].first = s[n - 1].next
      /\ s[1].first = a /\ s[k].next = e /\ k # 0
      /\ s \in Seq(Ranges)
  BY DEF IsChain, Chained
<1>2. /\ \A n \in 1 .. k : \A i \in s[n].first .. s[n].next - 1 : c[i] = c[s[n].first]
      /\ \A m, n \in 1 .. k : c[s[m].first] = c[s[n].first] => m = n
  BY DEF IsChain, Coloured, Apart
<1> HIDE DEF k
<1>3. k \in 1 .. k
  BY <1>1
<1>4. /\ t \in Seq(Ranges) /\ Len(t) = k /\ DOMAIN t = 1 .. k
      /\ t[k] = [first |-> s[k].first, next |-> e + 1]
      /\ \A n \in 1 .. k : n # k => t[n] = s[n]
  <2> DEFINE last == [first |-> s[k].first, next |-> e + 1]
  <2>1. last \in Ranges
    BY <1>1, <1>3 DEF Ranges
  <2> HIDE DEF last
  <2>2. t = [s EXCEPT ![k] = last]
    BY DEF last
  <2>3. QED
    BY <1>1, <1>3, <2>1, <2>2 DEF k, last
<1> HIDE DEF t
<1>5. /\ \A n \in 1 .. k : t[n].first = s[n].first
      /\ t[k].next = e + 1 /\ \A n \in 1 .. k : n # k => t[n].next = s[n].next
  BY <1>4
<1>6. Chained(t, a, e + 1)
  <2>1. ASSUME NEW n \in 1 .. k
        PROVE  t[n].first \in Nat /\ t[n].next \in Nat /\ t[n].first < t[n].next
    <3>1. CASE n = k
      <4>1. s[k].first \in Nat /\ s[k].first < s[k].next
        BY <1>1, <1>3
      <4>2. t[n].first = s[k].first /\ t[n].next = e + 1
        BY <1>5, <3>1
      <4>3. QED
        BY <1>1, <4>1, <4>2
    <3>2. CASE n # k
      BY <1>1, <1>5, <3>2
    <3>3. QED
      BY <3>1, <3>2
  <2>2. \A n \in 2 .. k : t[n].first = t[n - 1].next
    <3>1. \A n \in 2 .. k : n \in 1 .. k /\ n - 1 \in 1 .. k /\ n - 1 # k
      BY <1>1
    <3>2. QED
      BY <1>1, <1>5, <3>1
  <2>3. t[1].first = a
    <3>1. 1 \in 1 .. k /\ k # 0
      BY <1>1
    <3>2. QED
      BY <1>1, <1>5, <3>1
  <2>4. QED
    BY <1>1, <1>4, <1>5, <2>1, <2>2, <2>3 DEF Chained
<1>7. Coloured(t, c)
  <2>1. ASSUME NEW n \in 1 .. k, NEW i \in t[n].first .. t[n].next - 1
        PROVE  c[i] = c[t[n].first]
    <3>1. CASE n # k
      BY <1>2, <1>5, <3>1
    <3>2. CASE n = k /\ i # e
      <4>1. i \in s[k].first .. s[k].next - 1
        BY <1>1, <1>3, <1>5, <3>2
      <4>2. QED
        BY <1>2, <1>3, <1>5, <3>2, <4>1
    <3>3. CASE n = k /\ i = e
      <4>1. e - 1 \in s[k].first .. s[k].next - 1
        BY <1>1, <1>3
      <4>2. QED
        BY <1>2, <1>3, <1>5, <3>3, <4>1
    <3>4. QED
      BY <3>1, <3>2, <3>3
  <2>2. QED
    BY <1>4, <2>1 DEF Coloured
<1>8. Apart(t, c)
  BY <1>2, <1>4, <1>5 DEF Apart
<1>9. QED
  BY <1>4, <1>6, <1>7, <1>8 DEF IsChain

(* One position of a new colour.                                           *)
LEMMA ChainExtends ==
    ASSUME NEW s, NEW a, NEW e, NEW c, IsChain(s, a, e, c), NoReturn(c, a, e + 1),
           e = a \/ c[e] # c[e - 1]
    PROVE  \E t : IsChain(t, a, e + 1, c)
<1> DEFINE k == Len(s)
           last == [first |-> e, next |-> e + 1]
           t == Append(s, last)
<1>1. /\ k \in Nat /\ a \in Nat /\ e \in Nat
      /\ \A n \in 1 .. k : s[n].first \in Nat /\ s[n].next \in Nat /\ s[n].first < s[n].next
      /\ \A n \in 2 .. k : s[n].first = s[n - 1].next
      /\ k = 0 => a = e
      /\ k # 0 => s[1].first = a /\ s[k].next = e
      /\ s \in Seq(Ranges)
  BY DEF IsChain, Chained
<1>2. /\ \A n \in 1 .. k : \A i \in s[n].first .. s[n].next - 1 : c[i] = c[s[n].first]
      /\ \A m, n \in 1 .. k : c[s[m].first] = c[s[n].first] => m = n
  BY DEF IsChain, Coloured, Apart
<1>3. \A n \in 1 .. k : a <= s[n].first /\ s[n].next <= e
  BY ChainOrder DEF IsChain
<1>4. /\ t \in Seq(Ranges) /\ Len(t) = k + 1 /\ DOMAIN t = 1 .. k + 1
      /\ t[k + 1] = last /\ \A n \in 1 .. k : t[n] = s[n]
  <2>1. last \in Ranges
    BY <1>1 DEF Ranges
  <2> HIDE DEF last
  <2>2. QED
    BY <1>1, <2>1
<1>5. last.first = e /\ last.next = e + 1
  OBVIOUS
<1> HIDE DEF k, t, last
<1>6. \A n \in 1 .. k + 1 : n = k + 1 \/ n \in 1 .. k
  BY <1>1
<1>7. Chained(t, a, e + 1)
  <2>1. ASSUME NEW n \in 1 .. k + 1
        PROVE  t[n].first \in Nat /\ t[n].next \in Nat /\ t[n].first < t[n].next
    <3>1. CASE n = k + 1
      <4>1. t[n].first = e /\ t[n].next = e + 1
        BY <1>4, <1>5, <3>1
      <4>2. QED
        BY <1>1, <4>1
    <3>2. CASE n \in 1 .. k
      BY <1>1, <1>4, <3>2
    <3>3. QED
      BY <1>6, <3>1, <3>2
  <2>2. \A n \in 2 .. k + 1 : t[n].first = t[n - 1].next
    <3>1. SUFFICES ASSUME NEW n \in 2 .. k + 1
                   PROVE  t[n].first = t[n - 1].next
      OBVIOUS
    <3>2. CASE n \in 2 .. k
      <4>1. n \in 1 .. k /\ n - 1 \in 1 .. k
        BY <1>1, <3>2
      <4>2. QED
        BY <1>1, <1>4, <3>2, <4>1
    <3>3. CASE n = k + 1
      <4>1. k # 0 /\ n - 1 = k /\ k \in 1 .. k
        <5>1. k \in Nat
          BY <1>1
        <5>2. n >= 2 /\ n \in Nat
          BY <3>1, <5>1
        <5>3. QED
          BY <3>3, <5>1, <5>2
      <4>2. QED
        BY <1>1, <1>4, <1>5, <3>3, <4>1
    <3>4. QED
      BY <1>1, <3>2, <3>3
  <2>3. t[1].first = a
    <3>1. CASE k = 0
      BY <1>1, <1>4, <1>5, <3>1
    <3>2. CASE k # 0
      BY <1>1, <1>4, <3>2
    <3>3. QED
      BY <3>1, <3>2
  <2>4. k + 1 # 0 /\ k + 1 \in Nat /\ e + 1 \in Nat /\ t[k + 1].next = e + 1
    BY <1>1, <1>4, <1>5
  <2>5. QED
    BY <1>1, <1>4, <2>1, <2>2, <2>3, <2>4 DEF Chained
<1>8. Coloured(t, c)
  <2>1. ASSUME NEW n \in 1 .. k + 1, NEW i \in t[n].first .. t[n].next - 1
        PROVE  c[i] = c[t[n].first]
    <3>1. CASE n \in 1 .. k
      BY <1>2, <1>4, <3>1
    <3>2. CASE n = k + 1
      <4>1. i = e
        BY <1>1, <1>4, <1>5, <3>2
      <4>2. QED
        BY <1>4, <1>5, <3>2, <4>1
    <3>3. QED
      BY <1>6, <3>1, <3>2
  <2>2. QED
    BY <1>4, <2>1 DEF Coloured
<1>9. \A n \in 1 .. k : c[s[n].first] # c[e]
  <2>1. SUFFICES ASSUME NEW n \in 1 .. k, c[s[n].first] = c[e]
                 PROVE  FALSE
    OBVIOUS
  <2>2. s[n].first \in a .. e + 1 - 1 /\ e \in a .. e + 1 - 1 /\ s[n].first <= e - 1
    <3>1. s[n].first \in Nat /\ s[n].next \in Nat /\ s[n].first < s[n].next
      BY <1>1
    <3>2. a <= s[n].first /\ s[n].next <= e
      BY <1>3
    <3>3. QED
      BY <1>1, <3>1, <3>2
  <2>3. e - 1 \in s[n].first .. e
    BY <1>1, <2>2
  <2>4. c[e - 1] = c[s[n].first]
    BY <2>1, <2>2, <2>3 DEF NoReturn
  <2>5. e # a
    BY <1>1, <1>3, <2>2
  <2>6. QED
    BY <2>1, <2>4, <2>5
<1>10. Apart(t, c)
  <2>1. t[k + 1].first = e /\ \A n \in 1 .. k : t[n].first = s[n].first
    BY <1>4, <1>5
  <2>2. QED
    BY <1>2, <1>4, <1>6, <1>9, <2>1 DEF Apart
<1>11. QED
  BY <1>4, <1>7, <1>8, <1>10 DEF IsChain

LEMMA ChainExists ==
    ASSUME NEW a \in Nat, NEW e \in Nat, a <= e, NEW c, NoReturn(c, a, e)
    PROVE  \E s : IsChain(s, a, e, c)
<1> DEFINE P == { n \in 0 .. e - a : \E s : IsChain(s, a, a + n, c) }
<1>1. e - a \in Nat
  OBVIOUS
<1>2. 0 \in P
  <2>1. IsChain(<< >>, a, a, c)
    BY DEF IsChain, Chained, Coloured, Apart
  <2>2. a + 0 = a
    OBVIOUS
  <2>3. QED
    BY <1>1, <2>1, <2>2
<1>3. ASSUME NEW n \in 0 .. e - a - 1, n \in P
      PROVE  n + 1 \in P
  <2> DEFINE b == a + n
  <2>1. PICK s : IsChain(s, a, b, c)
    BY <1>3
  <2>2. b \in Nat /\ a <= b /\ b + 1 <= e /\ a + (n + 1) = b + 1 /\ n + 1 \in 0 .. e - a
    BY <1>1
  <2> HIDE DEF b
  <2>3. NoReturn(c, a, b + 1)
    <3>1. SUFFICES ASSUME NEW i \in a .. (b + 1) - 1, NEW j \in a .. (b + 1) - 1,
                          i <= j, c[i] = c[j], NEW m \in i .. j
                   PROVE  c[m] = c[i]
      BY DEF NoReturn
    <3>2. i \in a .. e - 1 /\ j \in a .. e - 1
      BY <2>2
    <3>3. QED
      BY <3>1, <3>2 DEF NoReturn
  <2>4. \E t : IsChain(t, a, b + 1, c)
    BY <2>1, <2>3, ChainGrows, ChainExtends
  <2>5. QED
    BY <2>2, <2>4
<1>4. 0 .. e - a \subseteq P
  <2> HIDE DEF P
  <2>1. \A n \in 0 .. (e - a) - 1 : n \in P => n + 1 \in P
    BY <1>1, <1>3
  <2>2. QED
    BY <1>1, <1>2, <2>1, UpTo
<1>5. e - a \in P /\ a + (e - a) = e
  BY <1>1, <1>4
<1>6. QED
  BY <1>5

(* The longest run from a position on ends where the colour does.          *)
RunOf(c, N, i) == { j \in i .. N : \A m \in i .. j : c[m] = c[i] }

LEMMA RunIs ==
    ASSUME NEW N \in Nat, NEW i \in 1 .. N, NEW e \in i + 1 .. N + 1, NEW c,
           \A m \in i .. e - 1 : c[m] = c[i],
           e <= N => c[e] # c[i]
    PROVE  RunOf(c, N, i) = i .. e - 1 /\ i + Cardinality(RunOf(c, N, i)) = e
<1> DEFINE run == { j \in i .. N : \A m \in i .. j : c[m] = c[i] }
<1>1. ASSUME NEW j \in i .. e - 1
      PROVE  j \in run
  BY <1>1
<1>2. ASSUME NEW j \in run
      PROVE  j \in i .. e - 1
  <2>1. j \in i .. N /\ \A m \in i .. j : c[m] = c[i]
    OBVIOUS
  <2>2. SUFFICES ASSUME e <= j
                 PROVE  FALSE
    BY <2>1
  <2>3. e \in i .. j /\ e <= N
    BY <2>1, <2>2
  <2>4. QED
    BY <2>1, <2>3
<1>3. run = i .. e - 1
  <2> HIDE DEF run
  <2>1. QED
    BY <1>1, <1>2
<1>4. Cardinality(i .. e - 1) = e - i
  <2>1. i \in Int /\ e - 1 \in Int /\ ~ (i > e - 1) /\ (e - 1) - i + 1 = e - i
    OBVIOUS
  <2>2. QED
    BY <2>1, FS_Interval
<1>5. i + Cardinality(run) = e
  <2> HIDE DEF run
  <2>1. QED
    BY <1>3, <1>4
<1>6. RunOf(c, N, i) = run
  BY DEF RunOf
<1> HIDE DEF run
<1>7. QED
  BY <1>3, <1>5, <1>6

(***************************************************************************)
(* A book of a layout, said without its construction: chapters of distinct  *)
(* names tile it, each with its own range and the hash of what it holds.   *)
(***************************************************************************)
ContentHashes == Seq(Key) \X Seq(Texts)

ChapterRecords == [chapter : Chapters, first : Nat, next : Nat, hash : ContentHashes]

BookRecords ==
    [slug : Slugs, first : Nat, next : Nat, chapters : Seq(ChapterRecords),
     hash : Seq(Chapters \X ContentHashes)]

ChapterOf(ks, ts, first, next) ==
    [chapter |-> ks[first].chapter, first |-> first, next |-> next,
     hash |-> ContentHash(SubSeq(ks, first, next - 1), SubSeq(ts, first, next - 1))]

IsBook(b, ks, ts) ==
    /\ b \in BookRecords
    /\ b.first \in 1 .. Len(ks) /\ b.next \in b.first + 1 .. Len(ks) + 1
    /\ \A i \in b.first .. b.next - 1 : ks[i].book = b.slug
    /\ Chained(b.chapters, b.first, b.next)
    /\ \A n \in 1 .. Len(b.chapters) :
          b.chapters[n] = ChapterOf(ks, ts, b.chapters[n].first, b.chapters[n].next)
    /\ Coloured(b.chapters, ks) /\ Apart(b.chapters, ks)
    /\ b.hash = FoldBookHash(b.chapters)

Ends(b, ks) == b.next <= Len(ks) => ks[b.next].book # b.slug

LEMMA BookRunIs ==
    ASSUME NEW ks \in Seq(Key), NEW i \in 1 .. Len(ks), NEW e \in i + 1 .. Len(ks) + 1,
           \A m \in i .. e - 1 : ks[m].book = ks[i].book,
           e <= Len(ks) => ks[e].book # ks[i].book
    PROVE  BookRun(ks, i) = i .. e - 1 /\ i + Cardinality(BookRun(ks, i)) = e
<1> DEFINE N == Len(ks)
           c == [m \in 1 .. N |-> ks[m].book]
           run == { j \in i .. N : \A m \in i .. j : c[m] = c[i] }
<1>1. N \in Nat
  OBVIOUS
<1>2. BookRun(ks, i) = run
  <2>1. \A j \in i .. N : \A m \in i .. j : m \in 1 .. N
    BY <1>1
  <2>2. BookRun(ks, i) = { j \in i .. N : \A m \in i .. j : ks[m].book = ks[i].book }
    BY DEF BookRun
  <2>3. \A j \in i .. N : (\A m \in i .. j : c[m] = c[i]) <=> \A m \in i .. j : ks[m].book = ks[i].book
    BY <2>1
  <2> HIDE DEF c, N
  <2>4. QED
    BY <2>2, <2>3
<1>3. \A m \in i .. e - 1 : c[m] = c[i]
  <2>1. \A m \in i .. e - 1 : m \in 1 .. N
    BY <1>1
  <2>2. QED
    BY <2>1
<1>4. e <= N => c[e] # c[i]
  BY <1>1
<1> HIDE DEF c
<1>5. run = RunOf(c, N, i)
  BY DEF RunOf
<1>6. RunOf(c, N, i) = i .. e - 1 /\ i + Cardinality(RunOf(c, N, i)) = e
  <2>1. i \in 1 .. N /\ e \in i + 1 .. N + 1
    OBVIOUS
  <2> HIDE DEF N
  <2>2. QED
    BY <1>1, <1>3, <1>4, <2>1, RunIs
<1> HIDE DEF run
<1>7. QED
  BY <1>2, <1>5, <1>6

LEMMA ChapterRunIs ==
    ASSUME NEW ks \in Seq(Key), NEW i \in 1 .. Len(ks), NEW e \in i + 1 .. Len(ks) + 1,
           \A m \in i .. e - 1 : ks[m] = ks[i],
           e <= Len(ks) => ks[e] # ks[i]
    PROVE  ChapterRun(ks, i) = i .. e - 1 /\ i + Cardinality(ChapterRun(ks, i)) = e
<1>1. Len(ks) \in Nat
  OBVIOUS
<1>2. ChapterRun(ks, i) = RunOf(ks, Len(ks), i)
  BY DEF ChapterRun, RunOf
<1>3. RunOf(ks, Len(ks), i) = i .. e - 1 /\ i + Cardinality(RunOf(ks, Len(ks), i)) = e
  BY <1>1, RunIs
<1>4. QED
  BY <1>2, <1>3

LEMMA BookIsBuilt ==
    ASSUME NEW ks \in Seq(Key), NEW ts \in Seq(Texts), NEW b, IsBook(b, ks, ts), Ends(b, ks)
    PROVE  BuildBookAt(ks, ts, b.first) = b
<1> DEFINE N == Len(ks)
           chs == b.chapters
           k == Len(chs)
           start == b.first
<1>1. /\ N \in Nat /\ start \in 1 .. N /\ b.next \in start + 1 .. N + 1
      /\ \A i \in start .. b.next - 1 : ks[i].book = b.slug
      /\ b.next <= N => ks[b.next].book # b.slug
      /\ b \in BookRecords
  BY DEF IsBook, Ends
<1>2. /\ k \in Nat /\ DOMAIN chs = 1 .. k
      /\ \A n \in 1 .. k : chs[n].first \in Nat /\ chs[n].next \in Nat /\ chs[n].first < chs[n].next
      /\ \A n \in 2 .. k : chs[n].first = chs[n - 1].next
      /\ k # 0 /\ chs[k].next = b.next
  BY <1>1 DEF IsBook, Chained
<1>3. /\ \A n \in 1 .. k : \A i \in chs[n].first .. chs[n].next - 1 : ks[i] = ks[chs[n].first]
      /\ \A m, n \in 1 .. k : ks[chs[m].first] = ks[chs[n].first] => m = n
      /\ \A n \in 1 .. k : chs[n] = ChapterOf(ks, ts, chs[n].first, chs[n].next)
      /\ b.hash = FoldBookHash(chs)
  BY DEF IsBook, Coloured, Apart
<1>4. \A n \in 1 .. k : start <= chs[n].first /\ chs[n].next <= b.next
  BY ChainOrder DEF IsBook
<1>5. start \in start .. b.next - 1
  BY <1>1
<1>6. ks[start].book = b.slug
  BY <1>1, <1>5
<1>7. BookRun(ks, start) = start .. b.next - 1 /\ start + Cardinality(BookRun(ks, start)) = b.next
  <2> HIDE DEF start, N
  <2>1. start \in 1 .. Len(ks) /\ b.next \in start + 1 .. Len(ks) + 1
    BY <1>1 DEF N
  <2>2. \A m \in start .. b.next - 1 : ks[m].book = ks[start].book
    BY <1>1, <1>6
  <2>3. b.next <= Len(ks) => ks[b.next].book # ks[start].book
    BY <1>1, <1>6 DEF N
  <2>4. QED
    BY <2>1, <2>2, <2>3, BookRunIs
<1> DEFINE heads == Ordered({ i \in BookRun(ks, start) : i = start \/ ks[i] # ks[i - 1] })
<1>8. heads = [n \in 1 .. k |-> chs[n].first]
  <2>1. { i \in BookRun(ks, start) : i = start \/ ks[i] # ks[i - 1] } = Heads(ks, start, b.next)
    BY <1>7 DEF Heads
  <2>2. heads = Ordered(Heads(ks, start, b.next))
    BY <2>1
  <2>3. Chained(chs, start, b.next) /\ Coloured(chs, ks) /\ Apart(chs, ks)
    BY DEF IsBook
  <2> HIDE DEF chs, start, heads
  <2>4. Ordered(Heads(ks, start, b.next)) = [n \in 1 .. Len(chs) |-> chs[n].first]
    BY <2>3, OrderedHeads
  <2>5. QED
    BY <2>2, <2>4 DEF k
<1> HIDE DEF heads
<1>9. ASSUME NEW n \in 1 .. k
      PROVE  ChapterAt(ks, ts, chs[n].first) = chs[n]
  <2> DEFINE i == chs[n].first
             e == chs[n].next
  <2>1. i \in 1 .. N /\ e \in i + 1 .. N + 1
    <3>1. i \in Nat /\ e \in Nat /\ i < e
      BY <1>2
    <3>2. start <= i /\ e <= b.next
      BY <1>4
    <3>3. start \in Nat /\ b.next \in Nat /\ 1 <= start /\ b.next <= N + 1
      BY <1>1
    <3> HIDE DEF i, e, start, N
    <3>4. QED
      BY <1>1, <3>1, <3>2, <3>3
  <2>2. e <= N => ks[e] # ks[i]
    <3>1. CASE n = k
      <4>1. e = b.next /\ i \in start .. b.next - 1
        BY <1>1, <1>2, <1>4, <3>1
      <4>2. ks[i].book = b.slug
        BY <1>1, <4>1
      <4>3. QED
        BY <1>1, <4>1, <4>2
    <3>2. CASE n # k
      <4> DEFINE j == n + 1
      <4>1. j \in 2 .. k /\ j \in 1 .. k /\ j - 1 = n /\ j # n
        BY <1>2, <3>2
      <4> HIDE DEF j
      <4>2. chs[j].first = e
        BY <1>2, <4>1
      <4>3. ks[chs[j].first] # ks[chs[n].first]
        BY <1>3, <4>1
      <4>4. QED
        BY <4>2, <4>3
    <3>3. QED
      BY <3>1, <3>2
  <2>3. \A m \in i .. e - 1 : ks[m] = ks[i]
    BY <1>3
  <2> HIDE DEF i, e
  <2>4. i + Cardinality(ChapterRun(ks, i)) = e
    BY <2>1, <2>2, <2>3, ChapterRunIs DEF N
  <2>5. ChapterAt(ks, ts, i) = ChapterOf(ks, ts, i, e)
    BY <2>4 DEF ChapterAt, ChapterOf
  <2>6. QED
    BY <1>3, <2>5 DEF i, e
<1> DEFINE built == BuildBookAt(ks, ts, start)
           chapters == [n \in DOMAIN heads |-> ChapterAt(ks, ts, heads[n])]
<1>10. chapters = chs
  <2>1. chapters = [n \in 1 .. k |-> chs[n]]
    BY <1>8, <1>9
  <2>2. chs = [n \in 1 .. k |-> chs[n]]
    <3>1. chs \in Seq(ChapterRecords)
      BY <1>1 DEF BookRecords
    <3> HIDE DEF chs
    <3>2. QED
      BY <3>1 DEF k
  <2>3. QED
    BY <2>1, <2>2
<1>11. built = [slug |-> ks[start].book, first |-> start,
                next |-> start + Cardinality(BookRun(ks, start)),
                chapters |-> chapters, hash |-> FoldBookHash(chapters)]
  BY DEF BuildBookAt, heads
<1> HIDE DEF built, chapters
<1>12. built = [slug |-> b.slug, first |-> b.first, next |-> b.next,
                chapters |-> b.chapters, hash |-> b.hash]
  BY <1>3, <1>6, <1>7, <1>10, <1>11
<1>13. b = [slug |-> b.slug, first |-> b.first, next |-> b.next,
            chapters |-> b.chapters, hash |-> b.hash]
  BY <1>1 DEF BookRecords
<1>14. QED
  BY <1>12, <1>13 DEF built

(***************************************************************************)
(* A chain seen from elsewhere: what it tiles, moved by d.                 *)
(***************************************************************************)
LEMMA SliceIn ==
    ASSUME NEW T, NEW s \in Seq(T), NEW m \in 1 .. Len(s) + 1, NEW n \in m .. Len(s) + 1
    PROVE  /\ SubSeq(s, m, n - 1) \in Seq(T) /\ Len(SubSeq(s, m, n - 1)) = n - m
           /\ \A i \in 1 .. n - m : SubSeq(s, m, n - 1)[i] = s[m + i - 1]
<1>1. m \in Nat /\ n - 1 \in Nat /\ m \in 1 .. (n - 1) + 1 /\ n - 1 \in m - 1 .. Len(s) /\ n - m \in Nat
  OBVIOUS
<1>2. Len(SubSeq(s, m, n - 1)) = n - m
  BY <1>1
<1>3. \A i \in 1 .. n - m : SubSeq(s, m, n - 1)[i] = s[m + i - 1]
  BY <1>1
<1>4. \A i \in m .. n - 1 : s[i] \in T
  BY <1>1
<1>5. SubSeq(s, m, n - 1) \in Seq(T)
  BY <1>1, <1>4
<1>6. QED
  BY <1>2, <1>3, <1>5

LEMMA SliceMoves ==
    ASSUME NEW T, NEW s \in Seq(T), NEW t \in Seq(T), NEW d \in Int,
           NEW m \in 1 .. Len(s) + 1, NEW n \in m .. Len(s) + 1,
           m + d \in 1 .. Len(t) + 1, n + d \in m + d .. Len(t) + 1,
           \A i \in m .. n - 1 : t[i + d] = s[i]
    PROVE  SubSeq(t, m + d, n + d - 1) = SubSeq(s, m, n - 1)
<1> DEFINE m2 == m + d
           n2 == n + d
           u == SubSeq(t, m2, n2 - 1)
           v == SubSeq(s, m, n - 1)
<1>1. m2 \in 1 .. Len(t) + 1 /\ n2 \in m2 .. Len(t) + 1 /\ n2 - m2 = n - m
  OBVIOUS
<1> HIDE DEF m2, n2
<1>2. /\ v \in Seq(T) /\ Len(v) = n - m /\ \A i \in 1 .. n - m : v[i] = s[m + i - 1]
  BY SliceIn
<1>3. /\ u \in Seq(T) /\ Len(u) = n2 - m2 /\ \A i \in 1 .. n2 - m2 : u[i] = t[m2 + i - 1]
  BY <1>1, SliceIn
<1> HIDE DEF u, v
<1>4. ASSUME NEW i \in 1 .. n - m
      PROVE  u[i] = v[i]
  <2> DEFINE j == m + i - 1
  <2>1. j \in m .. n - 1 /\ m2 + i - 1 = j + d
    BY DEF m2
  <2> HIDE DEF j
  <2>2. t[j + d] = s[j]
    BY <2>1
  <2>3. u[i] = t[m2 + i - 1] /\ v[i] = s[j]
    BY <1>1, <1>2, <1>3 DEF j
  <2>4. QED
    BY <2>1, <2>2, <2>3
<1>5. u = v
  <2>1. Len(u) = Len(v) /\ \A i \in 1 .. Len(v) : u[i] = v[i]
    BY <1>1, <1>2, <1>3, <1>4
  <2>2. u \in Seq(T) /\ v \in Seq(T)
    BY <1>2, <1>3
  <2>3. QED
    BY <1>1, <1>2, <1>3, <2>1, <2>2, SeqEqual
<1>6. QED
  BY <1>5 DEF u, v, m2, n2

LEMMA ChainMoves ==
    ASSUME NEW s, NEW t, NEW a, NEW e, NEW d \in Int, Chained(s, a, e), a + d \in Nat,
           Len(t) = Len(s), DOMAIN t = 1 .. Len(s),
           \A n \in 1 .. Len(s) : t[n].first = s[n].first + d /\ t[n].next = s[n].next + d
    PROVE  Chained(t, a + d, e + d)
<1> DEFINE k == Len(s)
<1>1. /\ k \in Nat /\ a \in Nat /\ e \in Nat
      /\ \A n \in 1 .. k : s[n].first \in Nat /\ s[n].next \in Nat /\ s[n].first < s[n].next
      /\ \A n \in 2 .. k : s[n].first = s[n - 1].next
      /\ k = 0 => a = e
      /\ k # 0 => s[1].first = a /\ s[k].next = e
      /\ Len(t) = k /\ DOMAIN t = 1 .. k
      /\ \A n \in 1 .. k : t[n].first = s[n].first + d /\ t[n].next = s[n].next + d
  BY DEF Chained
<1>2. \A n \in 1 .. k : a <= s[n].first /\ s[n].next <= e
  BY ChainOrder
<1> HIDE DEF k
<1>3. \A n \in 1 .. k : t[n].first \in Nat /\ t[n].next \in Nat /\ t[n].first < t[n].next
  <2>1. SUFFICES ASSUME NEW n \in 1 .. k
                 PROVE  t[n].first \in Nat /\ t[n].next \in Nat /\ t[n].first < t[n].next
    OBVIOUS
  <2>2. s[n].first \in Nat /\ s[n].next \in Nat /\ s[n].first < s[n].next /\ a <= s[n].first
    BY <1>1, <1>2
  <2>3. t[n].first = s[n].first + d /\ t[n].next = s[n].next + d
    BY <1>1
  <2>4. a + d \in Nat /\ a \in Nat
    BY <1>1
  <2> DEFINE f == s[n].first
             g == s[n].next
  <2>5. f \in Nat /\ g \in Nat /\ f < g /\ a <= f
    BY <2>2
  <2> HIDE DEF f, g
  <2>6. f + d \in Nat /\ g + d \in Nat /\ f + d < g + d
    BY <2>4, <2>5
  <2>7. QED
    BY <2>3, <2>6 DEF f, g
<1>4. \A n \in 2 .. k : t[n].first = t[n - 1].next
  <2>1. \A n \in 2 .. k : n \in 1 .. k /\ n - 1 \in 1 .. k
    BY <1>1
  <2>2. QED
    BY <1>1, <2>1
<1>5. k # 0 => t[1].first = a + d /\ t[k].next = e + d
  <2>1. k # 0 => 1 \in 1 .. k /\ k \in 1 .. k
    BY <1>1
  <2>2. QED
    BY <1>1, <2>1
<1>6. e + d \in Nat
  <2>1. CASE k = 0
    BY <1>1, <2>1
  <2>2. CASE k # 0
    <3>1. k \in 1 .. k
      BY <1>1, <2>2
    <3>2. QED
      BY <1>3, <1>5, <2>2, <3>1
  <2>3. QED
    BY <2>1, <2>2
<1>7. QED
  BY <1>1, <1>3, <1>4, <1>5, <1>6 DEF Chained

Displaced(s, t, d) ==
    /\ Len(t) = Len(s)
    /\ \A n \in 1 .. Len(s) : t[n].first = s[n].first + d /\ t[n].next = s[n].next + d

Recoloured(c, c2, a, e, d) == \A i \in a .. e - 1 : c2[i + d] = c[i]

LEMMA ColoursMove ==
    ASSUME NEW s, NEW t, NEW a, NEW e, NEW d \in Int, Chained(s, a, e), Displaced(s, t, d),
           NEW c, NEW c2, Recoloured(c, c2, a, e, d)
    PROVE  /\ Coloured(s, c) => Coloured(t, c2)
           /\ Apart(s, c) => Apart(t, c2)
<1> DEFINE k == Len(s)
<1>1. /\ k \in Nat /\ a \in Nat /\ e \in Nat
      /\ \A n \in 1 .. k : s[n].first \in Nat /\ s[n].next \in Nat /\ s[n].first < s[n].next
      /\ Len(t) = k
      /\ \A n \in 1 .. k : t[n].first = s[n].first + d /\ t[n].next = s[n].next + d
      /\ \A i \in a .. e - 1 : c2[i + d] = c[i]
  BY DEF Chained, Displaced, Recoloured
<1>2. \A n \in 1 .. k : a <= s[n].first /\ s[n].next <= e
  BY ChainOrder
<1> HIDE DEF k
<1>3. \A n \in 1 .. k : c2[t[n].first] = c[s[n].first]
  <2>1. \A n \in 1 .. k : s[n].first \in a .. e - 1
    <3>1. SUFFICES ASSUME NEW n \in 1 .. k
                   PROVE  s[n].first \in a .. e - 1
      OBVIOUS
    <3>2. s[n].first \in Nat /\ s[n].next \in Nat /\ s[n].first < s[n].next
          /\ a <= s[n].first /\ s[n].next <= e
      BY <1>1, <1>2
    <3>3. QED
      BY <1>1, <3>2
  <2>2. QED
    BY <1>1, <2>1
<1>4. ASSUME Coloured(s, c)
      PROVE  Coloured(t, c2)
  <2>1. \A n \in 1 .. k : \A i \in s[n].first .. s[n].next - 1 : c[i] = c[s[n].first]
    BY <1>4 DEF Coloured, k
  <2>2. ASSUME NEW n \in 1 .. k, NEW i \in t[n].first .. t[n].next - 1
        PROVE  c2[i] = c2[t[n].first]
    <3> DEFINE j == i - d
    <3>1. /\ s[n].first \in Nat /\ s[n].next \in Nat
          /\ a <= s[n].first /\ s[n].next <= e
          /\ t[n].first = s[n].first + d /\ t[n].next = s[n].next + d
      BY <1>1, <1>2
    <3>2. i \in Int
      BY <3>1
    <3>3. j \in s[n].first .. s[n].next - 1 /\ j + d = i
      BY <3>1, <3>2
    <3>4. j \in a .. e - 1
      BY <1>1, <3>1, <3>3
    <3> HIDE DEF j
    <3>5. c2[j + d] = c[j] /\ c[j] = c[s[n].first]
      BY <1>1, <2>1, <3>3, <3>4
    <3>6. QED
      BY <1>3, <3>3, <3>5
  <2>3. QED
    BY <1>1, <2>2 DEF Coloured
<1>5. ASSUME Apart(s, c)
      PROVE  Apart(t, c2)
  BY <1>1, <1>3, <1>5 DEF Apart, k
<1>6. QED
  BY <1>4, <1>5

(* A book is found again wherever its verses are, and is itself there.     *)
LEMMA ShiftedIs ==
    ASSUME NEW b \in BookRecords, NEW d \in Int
    PROVE  ShiftBook(b, b.first + d) =
             [slug |-> b.slug, first |-> b.first + d, next |-> b.next + d,
              chapters |-> [n \in DOMAIN b.chapters |->
                  [chapter |-> b.chapters[n].chapter, first |-> b.chapters[n].first + d,
                   next |-> b.chapters[n].next + d, hash |-> b.chapters[n].hash]],
              hash |-> b.hash]
<1> DEFINE by == (b.first + d) - b.first
           range == ShiftRange(b, by)
           shifted == [n \in DOMAIN b.chapters |-> ShiftRange(b.chapters[n], by)]
           moved == [n \in DOMAIN b.chapters |->
               [chapter |-> b.chapters[n].chapter, first |-> b.chapters[n].first + d,
                next |-> b.chapters[n].next + d, hash |-> b.chapters[n].hash]]
<1>1. b.first \in Nat /\ by = d
  BY DEF BookRecords
<1> HIDE DEF by
<1>2. ASSUME NEW n \in DOMAIN b.chapters
      PROVE  shifted[n] = moved[n]
  <2>1. b.chapters[n] \in ChapterRecords
    BY DEF BookRecords
  <2> DEFINE c == b.chapters[n]
             half == [c EXCEPT !.first = @ + d]
  <2>2. c \in ChapterRecords
    BY <2>1
  <2> HIDE DEF c
  <2>3. half = [chapter |-> c.chapter, first |-> c.first + d, next |-> c.next, hash |-> c.hash]
    BY <2>2 DEF ChapterRecords
  <2>4. ShiftRange(c, d) = [half EXCEPT !.next = @ + d]
    BY DEF ShiftRange
  <2> HIDE DEF half
  <2>5. [half EXCEPT !.next = @ + d]
          = [chapter |-> c.chapter, first |-> c.first + d, next |-> c.next + d, hash |-> c.hash]
    BY <2>3
  <2>6. QED
    BY <1>1, <2>4, <2>5 DEF c
<1>3. shifted = moved
  BY <1>2
<1>4. range = [slug |-> b.slug, first |-> b.first + d, next |-> b.next + d,
               chapters |-> b.chapters, hash |-> b.hash]
  <2> DEFINE half == [b EXCEPT !.first = @ + d]
  <2>1. half = [slug |-> b.slug, first |-> b.first + d, next |-> b.next,
                chapters |-> b.chapters, hash |-> b.hash]
    BY DEF BookRecords
  <2>2. range = [half EXCEPT !.next = @ + d]
    BY <1>1 DEF ShiftRange
  <2> HIDE DEF half, range
  <2>3. QED
    BY <2>1, <2>2
<1> HIDE DEF range
<1>5. [range EXCEPT !.chapters = moved]
        = [slug |-> b.slug, first |-> b.first + d, next |-> b.next + d, chapters |-> moved,
           hash |-> b.hash]
  <2> HIDE DEF moved
  <2>1. QED
    BY <1>4
<1>6. ShiftBook(b, b.first + d) = [range EXCEPT !.chapters = shifted]
  <2>1. range.chapters = b.chapters
    BY <1>4
  <2>2. ShiftBook(b, b.first + d)
          = [range EXCEPT !.chapters = [n \in DOMAIN range.chapters |-> ShiftRange(range.chapters[n], by)]]
    BY DEF ShiftBook, range, by
  <2>3. QED
    BY <2>1, <2>2
<1>7. QED
  BY <1>3, <1>5, <1>6

LEMMA ShiftStays ==
    ASSUME NEW b \in BookRecords
    PROVE  ShiftBook(b, b.first) = b
<1> DEFINE moved == [n \in DOMAIN b.chapters |->
               [chapter |-> b.chapters[n].chapter, first |-> b.chapters[n].first + 0,
                next |-> b.chapters[n].next + 0, hash |-> b.chapters[n].hash]]
<1>1. /\ b.first \in Nat /\ b.first + 0 = b.first /\ b.next + 0 = b.next
      /\ b.chapters \in Seq(ChapterRecords)
  BY DEF BookRecords
<1>2. ShiftBook(b, b.first + 0)
        = [slug |-> b.slug, first |-> b.first + 0, next |-> b.next + 0, chapters |-> moved,
           hash |-> b.hash]
  BY ShiftedIs
<1>3. moved = b.chapters
  <2>1. ASSUME NEW n \in DOMAIN b.chapters
        PROVE  moved[n] = b.chapters[n]
    <3>1. b.chapters[n] \in ChapterRecords
      BY <1>1
    <3> DEFINE c == b.chapters[n]
    <3> HIDE DEF c
    <3>2. [chapter |-> c.chapter, first |-> c.first + 0, next |-> c.next + 0, hash |-> c.hash] = c
      BY <3>1 DEF c, ChapterRecords
    <3>3. QED
      BY <3>2 DEF c
  <2>2. b.chapters = [n \in DOMAIN b.chapters |-> b.chapters[n]]
    BY <1>1
  <2>3. QED
    BY <2>1, <2>2
<1> HIDE DEF moved
<1>4. QED
  BY <1>1, <1>2, <1>3 DEF BookRecords

IsCorpus(ks, ts) == ks \in Seq(Key) /\ ts \in Seq(Texts) /\ Len(ts) = Len(ks)

(* The verses from a to e, moved by d.                                     *)
Found(ks, ts, ks2, ts2, a, e, d) ==
    /\ 1 <= a + d /\ e + d <= Len(ks2) + 1
    /\ \A i \in a .. e - 1 : ks2[i + d] = ks[i] /\ ts2[i + d] = ts[i]

LEMMA BookMoves ==
    ASSUME NEW ks, NEW ts, IsCorpus(ks, ts), NEW ks2, NEW ts2, IsCorpus(ks2, ts2),
           NEW b, IsBook(b, ks, ts), NEW d \in Int,
           Found(ks, ts, ks2, ts2, b.first, b.next, d)
    PROVE  /\ IsBook(ShiftBook(b, b.first + d), ks2, ts2)
           /\ ShiftBook(b, b.first + d).first = b.first + d
           /\ ShiftBook(b, b.first + d).next = b.next + d
           /\ ShiftBook(b, b.first + d).slug = b.slug
<1> DEFINE chs == b.chapters
           k == Len(chs)
           moved == [n \in DOMAIN chs |->
               [chapter |-> chs[n].chapter, first |-> chs[n].first + d,
                next |-> chs[n].next + d, hash |-> chs[n].hash]]
           q == ShiftBook(b, b.first + d)
<1>0. /\ ks \in Seq(Key) /\ ts \in Seq(Texts) /\ Len(ts) = Len(ks) /\ Len(ks) \in Nat
      /\ ks2 \in Seq(Key) /\ ts2 \in Seq(Texts) /\ Len(ts2) = Len(ks2) /\ Len(ks2) \in Nat
      /\ 1 <= b.first + d /\ b.next + d <= Len(ks2) + 1
      /\ \A i \in b.first .. b.next - 1 : ks2[i + d] = ks[i] /\ ts2[i + d] = ts[i]
  BY DEF IsCorpus, Found
<1>1. /\ b \in BookRecords
      /\ b.first \in 1 .. Len(ks) /\ b.next \in b.first + 1 .. Len(ks) + 1
      /\ \A i \in b.first .. b.next - 1 : ks[i].book = b.slug
      /\ Chained(chs, b.first, b.next)
      /\ \A n \in 1 .. k : chs[n] = ChapterOf(ks, ts, chs[n].first, chs[n].next)
      /\ Coloured(chs, ks) /\ Apart(chs, ks)
      /\ b.hash = FoldBookHash(chs)
  BY DEF IsBook
<1>2. /\ k \in Nat /\ DOMAIN chs = 1 .. k /\ chs \in Seq(ChapterRecords)
      /\ \A n \in 1 .. k : chs[n].first \in Nat /\ chs[n].next \in Nat /\ chs[n].first < chs[n].next
      /\ \A n \in 1 .. k : b.first <= chs[n].first /\ chs[n].next <= b.next
  BY <1>0, <1>1, ChainOrder DEF Chained, BookRecords
<1>3. q = [slug |-> b.slug, first |-> b.first + d, next |-> b.next + d, chapters |-> moved,
           hash |-> b.hash]
  BY <1>0, <1>1, ShiftedIs
<1>4. /\ \A n \in 1 .. k : moved[n] = [chapter |-> chs[n].chapter, first |-> chs[n].first + d,
                                       next |-> chs[n].next + d, hash |-> chs[n].hash]
      /\ DOMAIN moved = 1 .. k
  BY <1>2
<1> HIDE DEF q, moved, k
<1>5. /\ q.slug = b.slug /\ q.first = b.first + d /\ q.next = b.next + d /\ q.chapters = moved
      /\ q.hash = b.hash
  BY <1>3
<1>6. \A n \in 1 .. k : chs[n] \in ChapterRecords
  BY <1>2 DEF k
<1>7. ASSUME NEW n \in 1 .. k
      PROVE  moved[n] \in ChapterRecords
  <2>1. /\ chs[n].first \in Nat /\ chs[n].next \in Nat /\ b.first <= chs[n].first
        /\ chs[n].first < chs[n].next
    BY <1>2
  <2>2. b.first + d \in Nat /\ b.first \in Nat
    BY <1>0, <1>1
  <2> DEFINE f == chs[n].first
             g == chs[n].next
  <2>3. f + d \in Nat /\ g + d \in Nat
    <3>1. f \in Nat /\ g \in Nat /\ b.first <= f /\ f < g
      BY <1>0, <2>1
    <3> HIDE DEF f, g
    <3>2. QED
      BY <1>0, <2>2, <3>1
  <2> HIDE DEF f, g
  <2>4. moved[n] = [chapter |-> chs[n].chapter, first |-> f + d, next |-> g + d,
                    hash |-> chs[n].hash]
    BY <1>4 DEF f, g
  <2>5. chs[n].chapter \in Chapters /\ chs[n].hash \in ContentHashes
    BY <1>6 DEF ChapterRecords
  <2>6. QED
    BY <1>0, <2>3, <2>4, <2>5 DEF ChapterRecords
<1>8. moved \in Seq(ChapterRecords) /\ Len(moved) = k
  <2>1. moved = [n \in 1 .. k |-> moved[n]]
    BY <1>4 DEF moved
  <2>2. moved \in [1 .. k -> ChapterRecords]
    BY <1>7, <2>1
  <2>3. QED
    BY <1>2, <2>2
<1>9. q \in BookRecords
  <2>1. b.first + d \in Nat /\ b.next + d \in Nat
    BY <1>0, <1>1
  <2>2. b.slug \in Slugs /\ b.hash \in Seq(Chapters \X ContentHashes)
    BY <1>0, <1>1 DEF BookRecords
  <2>3. QED
    BY <1>3, <1>8, <2>1, <2>2 DEF BookRecords
<1>10. q.first \in 1 .. Len(ks2) /\ q.next \in q.first + 1 .. Len(ks2) + 1
  BY <1>0, <1>1, <1>5
<1>11. \A i \in q.first .. q.next - 1 : ks2[i].book = q.slug
  <2>1. SUFFICES ASSUME NEW i \in q.first .. q.next - 1
                 PROVE  ks2[i].book = b.slug
    BY <1>5
  <2> DEFINE j == i - d
  <2>2. j \in b.first .. b.next - 1 /\ j + d = i
    BY <1>0, <1>1, <1>5
  <2> HIDE DEF j
  <2>3. ks2[j + d] = ks[j] /\ ks[j].book = b.slug
    BY <1>0, <1>1, <2>2
  <2>4. QED
    BY <1>0, <2>2, <2>3
<1>12. \A n \in 1 .. k : moved[n].first = chs[n].first + d /\ moved[n].next = chs[n].next + d
  BY <1>4
<1>13. Chained(moved, b.first + d, b.next + d)
  <2>1. b.first + d \in Nat
    BY <1>0, <1>1
  <2>2. QED
    BY <1>0, <1>1, <1>4, <1>8, <1>12, <2>1, ChainMoves DEF k
<1>14. Coloured(moved, ks2) /\ Apart(moved, ks2)
  <2>1. \A i \in b.first .. b.next - 1 : ks2[i + d] = ks[i]
    BY <1>0
  <2>2. Chained(chs, b.first, b.next) /\ Coloured(chs, ks) /\ Apart(chs, ks)
    BY <1>0, <1>1
  <2>3. /\ Len(moved) = Len(chs)
        /\ \A n \in 1 .. Len(chs) : moved[n].first = chs[n].first + d /\ moved[n].next = chs[n].next + d
    BY <1>8, <1>12 DEF k
  <2> DEFINE a == b.first
             e == b.next
             s == b.chapters
  <2>4. /\ Chained(s, a, e) /\ Coloured(s, ks) /\ Apart(s, ks)
        /\ Displaced(s, moved, d) /\ Recoloured(ks, ks2, a, e, d)
    BY <1>0, <2>1, <2>2, <2>3 DEF Displaced, Recoloured
  <2> HIDE DEF a, e, s
  <2>5. /\ Coloured(s, ks) => Coloured(moved, ks2)
        /\ Apart(s, ks) => Apart(moved, ks2)
    BY <2>4, ColoursMove
  <2>6. QED
    BY <1>0, <2>4, <2>5
<1>15. ASSUME NEW n \in 1 .. k
       PROVE  moved[n] = ChapterOf(ks2, ts2, moved[n].first, moved[n].next)
  <2> DEFINE f == chs[n].first
             g == chs[n].next
             f2 == f + d
             g2 == g + d
  <2>1. /\ f \in Nat /\ g \in Nat /\ f < g /\ b.first <= f /\ g <= b.next
        /\ b.first \in Nat /\ b.next \in Nat /\ 1 <= b.first /\ b.next <= Len(ks) + 1
    BY <1>0, <1>1, <1>2
  <2> HIDE DEF f, g
  <2>2. /\ f \in 1 .. Len(ks) + 1 /\ g \in f .. Len(ks) + 1
        /\ f + d \in 1 .. Len(ks2) + 1 /\ g + d \in f + d .. Len(ks2) + 1
    BY <1>0, <2>1
  <2>3. \A i \in f .. g - 1 : i \in b.first .. b.next - 1
    BY <1>0, <2>1
  <2>4. SubSeq(ks2, f + d, g + d - 1) = SubSeq(ks, f, g - 1)
    <3>1. \A i \in f .. g - 1 : ks2[i + d] = ks[i]
      BY <1>0, <2>3
    <3>2. QED
      BY <1>0, <2>2, <3>1, SliceMoves
  <2>5. SubSeq(ts2, f + d, g + d - 1) = SubSeq(ts, f, g - 1)
    <3>1. \A i \in f .. g - 1 : ts2[i + d] = ts[i]
      BY <1>0, <2>3
    <3>2. /\ f \in 1 .. Len(ts) + 1 /\ g \in f .. Len(ts) + 1
          /\ f + d \in 1 .. Len(ts2) + 1 /\ g + d \in f + d .. Len(ts2) + 1
      BY <1>0, <2>2
    <3>3. QED
      BY <1>0, <3>1, <3>2, SliceMoves
  <2>6. ks2[f + d] = ks[f]
    <3>1. f \in b.first .. b.next - 1
      BY <1>0, <2>1
    <3>2. QED
      BY <1>0, <3>1
  <2>7. moved[n].first = f2 /\ moved[n].next = g2 /\ moved[n].chapter = chs[n].chapter
        /\ moved[n].hash = chs[n].hash
    BY <1>4 DEF f, g
  <2>8. chs[n] = ChapterOf(ks, ts, f, g)
    BY <1>0, <1>1 DEF f, g, k
  <2>9. chs[n].chapter = ks[f].chapter
        /\ chs[n].hash = ContentHash(SubSeq(ks, f, g - 1), SubSeq(ts, f, g - 1))
    BY <1>0, <2>8 DEF ChapterOf
  <2> DEFINE content == ContentHash(SubSeq(ks, f, g - 1), SubSeq(ts, f, g - 1))
             content2 == ContentHash(SubSeq(ks2, f2, g2 - 1), SubSeq(ts2, f2, g2 - 1))
             name == ks[f].chapter
             name2 == ks2[f2].chapter
  <2>10. content2 = content /\ name2 = name
    <3>1. f2 = f + d /\ g2 - 1 = g + d - 1
      BY <1>0, <2>1
    <3> HIDE DEF f2, g2
    <3>2. SubSeq(ks2, f2, g2 - 1) = SubSeq(ks, f, g - 1)
      BY <1>0, <2>4, <3>1
    <3>3. SubSeq(ts2, f2, g2 - 1) = SubSeq(ts, f, g - 1)
      BY <1>0, <2>5, <3>1
    <3>4. name2 = name
      BY <1>0, <2>6, <3>1
    <3>5. QED
      BY <1>0, <3>2, <3>3, <3>4, Zenon
  <2>11. moved[n] = [chapter |-> name, first |-> f2, next |-> g2, hash |-> content]
    BY <1>4, <2>9 DEF f, g
  <2>12. ChapterOf(ks2, ts2, f2, g2)
           = [chapter |-> name2, first |-> f2, next |-> g2, hash |-> content2]
    BY DEF ChapterOf
  <2> HIDE DEF content, content2, name, name2, f2, g2
  <2>13. moved[n] = ChapterOf(ks2, ts2, f2, g2)
    BY <1>0, <2>10, <2>11, <2>12
  <2>14. QED
    BY <1>0, <2>7, <2>13
<1>16. q.hash = FoldBookHash(moved)
  <2>1. \A n \in 1 .. k : moved[n].chapter = chs[n].chapter /\ moved[n].hash = chs[n].hash
    BY <1>4
  <2>2. FoldBookHash(moved) = [n \in 1 .. k |-> <<moved[n].chapter, moved[n].hash>>]
    BY <1>4 DEF FoldBookHash
  <2>3. FoldBookHash(chs) = [n \in 1 .. k |-> <<chs[n].chapter, chs[n].hash>>]
    BY <1>2 DEF FoldBookHash
  <2>4. QED
    BY <1>0, <1>1, <1>5, <2>1, <2>2, <2>3
<1>17. IsBook(q, ks2, ts2)
  BY <1>5, <1>8, <1>9, <1>10, <1>11, <1>13, <1>14, <1>15, <1>16 DEF IsBook
<1>18. QED
  BY <1>5, <1>17 DEF q

(* Verses of one book in which no chapter reopens make a book.             *)
LEMMA BookExists ==
    ASSUME NEW ks, NEW ts, IsCorpus(ks, ts),
           NEW f \in 1 .. Len(ks), NEW e \in f + 1 .. Len(ks) + 1,
           \A i \in f .. e - 1 : ks[i].book = ks[f].book,
           NoReturn(ks, f, e)
    PROVE  \E b : IsBook(b, ks, ts) /\ b.first = f /\ b.next = e
<1>1. /\ ks \in Seq(Key) /\ ts \in Seq(Texts) /\ Len(ts) = Len(ks) /\ Len(ks) \in Nat
      /\ f \in Nat /\ e \in Nat /\ f <= e /\ 1 <= f /\ e <= Len(ks) + 1
  BY DEF IsCorpus
<1>2. PICK s : IsChain(s, f, e, ks)
  BY <1>1, ChainExists
<1>3. /\ s \in Seq(Ranges) /\ Chained(s, f, e) /\ Coloured(s, ks) /\ Apart(s, ks)
  BY <1>2 DEF IsChain
<1> DEFINE k == Len(s)
           chs == [n \in 1 .. k |-> ChapterOf(ks, ts, s[n].first, s[n].next)]
           b == [slug |-> ks[f].book, first |-> f, next |-> e, chapters |-> chs,
                 hash |-> FoldBookHash(chs)]
<1>4. /\ k \in Nat
      /\ \A n \in 1 .. k : s[n].first \in Nat /\ s[n].next \in Nat /\ s[n].first < s[n].next
      /\ \A n \in 1 .. k : f <= s[n].first /\ s[n].next <= e
  BY <1>3, ChainOrder DEF Chained
<1>5. \A n \in 1 .. k : /\ chs[n] = ChapterOf(ks, ts, s[n].first, s[n].next)
                        /\ chs[n].first = s[n].first /\ chs[n].next = s[n].next
  BY DEF ChapterOf
<1>6. DOMAIN chs = 1 .. k
  OBVIOUS
<1> HIDE DEF k, chs
<1>7. ASSUME NEW n \in 1 .. k
      PROVE  chs[n] \in ChapterRecords
  <2> DEFINE i == s[n].first
             j == s[n].next
  <2>1. i \in Nat /\ j \in Nat /\ i < j /\ f <= i /\ j <= e
    BY <1>4
  <2>2. chs[n] = ChapterOf(ks, ts, i, j)
    BY <1>5
  <2> HIDE DEF i, j
  <2>3. i \in 1 .. Len(ks) + 1 /\ j \in i .. Len(ks) + 1 /\ i \in 1 .. Len(ks)
    BY <1>1, <2>1
  <2>4. SubSeq(ks, i, j - 1) \in Seq(Key)
    BY <1>1, <2>3, SliceIn
  <2>5. SubSeq(ts, i, j - 1) \in Seq(Texts)
    <3>1. i \in 1 .. Len(ts) + 1 /\ j \in i .. Len(ts) + 1
      BY <1>1, <2>3
    <3>2. QED
      BY <1>1, <3>1, SliceIn
  <2>6. ContentHash(SubSeq(ks, i, j - 1), SubSeq(ts, i, j - 1)) \in ContentHashes
    BY <2>4, <2>5 DEF ContentHash, ContentHashes
  <2>7. ks[i].chapter \in Chapters
    <3>1. ks[i] \in Key
      BY <1>1, <2>3
    <3>2. QED
      BY <3>1 DEF Key
  <2>8. QED
    BY <2>1, <2>2, <2>6, <2>7 DEF ChapterOf, ChapterRecords
<1>8. chs \in Seq(ChapterRecords) /\ Len(chs) = k
  <2>1. chs = [n \in 1 .. k |-> chs[n]]
    BY DEF chs
  <2>2. chs \in [1 .. k -> ChapterRecords]
    BY <1>7, <2>1
  <2>3. QED
    BY <1>4, <2>2
<1>9. FoldBookHash(chs) \in Seq(Chapters \X ContentHashes)
  <2>1. \A n \in 1 .. k : <<chs[n].chapter, chs[n].hash>> \in Chapters \X ContentHashes
    BY <1>7 DEF ChapterRecords
  <2>2. FoldBookHash(chs) = [n \in 1 .. k |-> <<chs[n].chapter, chs[n].hash>>]
    BY <1>6 DEF FoldBookHash
  <2>3. FoldBookHash(chs) \in [1 .. k -> Chapters \X ContentHashes]
    BY <2>1, <2>2
  <2>4. QED
    BY <1>4, <2>3
<1>10. /\ b.slug = ks[f].book /\ b.first = f /\ b.next = e /\ b.chapters = chs
       /\ b.hash = FoldBookHash(chs)
  OBVIOUS
<1>11. b \in BookRecords
  <2>1. ks[f] \in Key
    BY <1>1
  <2>2. ks[f].book \in Slugs
    BY <2>1 DEF Key
  <2>3. QED
    BY <1>1, <1>8, <1>9, <2>2 DEF BookRecords
<1>12. Displaced(s, chs, 0)
  <2>1. \A n \in 1 .. k : s[n].first + 0 = s[n].first /\ s[n].next + 0 = s[n].next
    BY <1>4
  <2>2. QED
    BY <1>5, <1>8, <2>1 DEF Displaced, k
<1>13. Chained(chs, f, e)
  <2>1. f + 0 = f /\ e + 0 = e /\ 0 \in Int /\ f + 0 \in Nat
    BY <1>1
  <2>2. Chained(chs, f + 0, e + 0)
    BY <1>3, <1>6, <1>12, <2>1, ChainMoves DEF Displaced, k
  <2>3. QED
    BY <2>1, <2>2
<1>14. Coloured(chs, ks) /\ Apart(chs, ks)
  <2>1. Recoloured(ks, ks, f, e, 0)
    BY <1>1 DEF Recoloured
  <2>2. QED
    BY <1>3, <1>12, <2>1, ColoursMove
<1>15. \A n \in 1 .. k : chs[n] = ChapterOf(ks, ts, chs[n].first, chs[n].next)
  BY <1>5
<1> HIDE DEF b
<1>16. IsBook(b, ks, ts)
  BY <1>8, <1>10, <1>11, <1>13, <1>14, <1>15 DEF IsBook
<1>17. QED
  BY <1>10, <1>16

(***************************************************************************)
(* A layout, said without its construction: books of distinct slugs tile   *)
(* the corpus.                                                             *)
(***************************************************************************)
IsLayout(books, ks, ts) ==
    /\ books \in Seq(BookRecords)
    /\ Chained(books, 1, Len(ks) + 1)
    /\ \A n \in 1 .. Len(books) : IsBook(books[n], ks, ts)
    /\ \A m, n \in 1 .. Len(books) : books[m].slug = books[n].slug => m = n

(* What follows a book is of another.                                      *)
LEMMA BookEnds ==
    ASSUME NEW ks, NEW ts, IsCorpus(ks, ts), NEW books, IsLayout(books, ks, ts),
           NEW n \in 1 .. Len(books)
    PROVE  Ends(books[n], ks)
<1> DEFINE k == Len(books)
           m == n + 1
           N == Len(ks)
<1>1. /\ k \in Nat /\ N \in Nat
      /\ \A i \in 1 .. k : /\ books[i].first \in Nat /\ books[i].next \in Nat
                           /\ books[i].first < books[i].next
      /\ \A i \in 2 .. k : books[i].first = books[i - 1].next
      /\ k # 0 => books[k].next = N + 1
      /\ \A i \in 1 .. k : IsBook(books[i], ks, ts)
      /\ \A i, j \in 1 .. k : books[i].slug = books[j].slug => i = j
  BY DEF IsLayout, Chained, IsCorpus
<1> HIDE DEF k
<1>2. n \in 1 .. k
  BY DEF k
<1>3. SUFFICES ASSUME books[n].next <= N
               PROVE  ks[books[n].next].book # books[n].slug
  BY DEF Ends
<1>4. n # k
  <2>1. k # 0
    BY <1>1, <1>2
  <2>2. QED
    BY <1>1, <1>3, <2>1
<1>5. m \in 2 .. k /\ m \in 1 .. k /\ m - 1 = n /\ m # n
  BY <1>1, <1>2, <1>4
<1> HIDE DEF m
<1>6. books[m].first = books[n].next /\ books[m].slug # books[n].slug
  BY <1>1, <1>2, <1>5
<1>7. books[m].first \in books[m].first .. books[m].next - 1
  BY <1>1, <1>5
<1>8. ks[books[m].first].book = books[m].slug
  BY <1>1, <1>5, <1>7 DEF IsBook
<1>9. QED
  BY <1>6, <1>8

LEMMA LayoutIsBuilt ==
    ASSUME NEW ks, NEW ts, IsCorpus(ks, ts), NEW books, IsLayout(books, ks, ts)
    PROVE  BuildLayout(ks, ts) = books
<1> DEFINE N == Len(ks)
           k == Len(books)
           c == [i \in 1 .. N |-> ks[i].book]
           firsts == { i \in 1 .. N : i = 1 \/ ks[i].book # ks[i - 1].book }
           heads == Ordered(firsts)
<1>1. /\ ks \in Seq(Key) /\ ts \in Seq(Texts) /\ N \in Nat
      /\ books \in Seq(BookRecords) /\ k \in Nat
      /\ Chained(books, 1, N + 1)
      /\ \A n \in 1 .. k : /\ books[n].first \in Nat /\ books[n].next \in Nat
                           /\ books[n].first < books[n].next
      /\ \A n \in 1 .. k : IsBook(books[n], ks, ts)
      /\ \A m, n \in 1 .. k : books[m].slug = books[n].slug => m = n
  <2>1. ks \in Seq(Key) /\ ts \in Seq(Texts) /\ N \in Nat
    BY DEF IsCorpus
  <2>2. /\ books \in Seq(BookRecords) /\ Chained(books, 1, N + 1)
        /\ \A n \in 1 .. k : IsBook(books[n], ks, ts)
        /\ \A m, n \in 1 .. k : books[m].slug = books[n].slug => m = n
    BY DEF IsLayout
  <2>3. k \in Nat /\ \A n \in 1 .. k : /\ books[n].first \in Nat /\ books[n].next \in Nat
                                        /\ books[n].first < books[n].next
    BY <2>2 DEF Chained
  <2>4. QED
    BY <2>1, <2>2, <2>3
<1>2. \A n \in 1 .. k : 1 <= books[n].first /\ books[n].next <= N + 1
  BY <1>1, ChainOrder
<1>3. \A n \in 1 .. k : \A i \in books[n].first .. books[n].next - 1 :
         i \in 1 .. N /\ c[i] = books[n].slug
  <2>1. SUFFICES ASSUME NEW n \in 1 .. k, NEW i \in books[n].first .. books[n].next - 1
                 PROVE  i \in 1 .. N /\ c[i] = books[n].slug
    BY Zenon
  <2>2. i \in 1 .. N
    BY <1>1, <1>2
  <2>3. ks[i].book = books[n].slug
    BY <1>1 DEF IsBook
  <2>4. QED
    BY <2>2, <2>3
<1>4. firsts = Heads(c, 1, N + 1)
  <2>1. (N + 1) - 1 = N
    BY <1>1
  <2>2. \A i \in 1 .. N : i = 1 \/ i - 1 \in 1 .. N
    BY <1>1
  <2>3. \A i \in 1 .. N : (i = 1 \/ ks[i].book # ks[i - 1].book) <=> (i = 1 \/ c[i] # c[i - 1])
    BY <2>2
  <2>4. Heads(c, 1, N + 1) = { i \in 1 .. N : i = 1 \/ c[i] # c[i - 1] }
    BY <2>1 DEF Heads
  <2> HIDE DEF c, N
  <2>5. QED
    BY <2>3, <2>4
<1> HIDE DEF c, k
<1>5. \A n \in 1 .. k : books[n].first \in books[n].first .. books[n].next - 1
  BY <1>1
<1>6. Coloured(books, c) /\ Apart(books, c)
  <2>1. \A n \in 1 .. k : c[books[n].first] = books[n].slug
    BY <1>3, <1>5
  <2>2. \A n \in 1 .. k : \A i \in books[n].first .. books[n].next - 1 :
           c[i] = c[books[n].first]
    BY <1>3, <2>1
  <2>3. \A m, n \in 1 .. k : c[books[m].first] = c[books[n].first] => m = n
    BY <1>1, <2>1
  <2>4. QED
    BY <2>2, <2>3 DEF Coloured, Apart, k
<1>7. heads = [n \in 1 .. k |-> books[n].first]
  <2>1. Ordered(Heads(c, 1, N + 1)) = [n \in 1 .. Len(books) |-> books[n].first]
    BY <1>1, <1>6, OrderedHeads
  <2>2. QED
    BY <1>4, <2>1 DEF k
<1>8. BuildLayout(ks, ts) = [n \in DOMAIN heads |-> BuildBookAt(ks, ts, heads[n])]
  BY DEF BuildLayout
<1> HIDE DEF heads
<1>9. \A n \in 1 .. k : BuildBookAt(ks, ts, books[n].first) = books[n]
  <2>1. \A n \in 1 .. k : Ends(books[n], ks)
    BY BookEnds DEF k
  <2>2. QED
    BY <1>1, <2>1, BookIsBuilt
<1>10. BuildLayout(ks, ts) = [n \in 1 .. k |-> books[n]]
  BY <1>7, <1>8, <1>9
<1>11. books = [n \in 1 .. k |-> books[n]]
  BY <1>1 DEF k
<1>12. QED
  BY <1>10, <1>11

(* Verses in which nothing reopens have a layout: the one built of them.   *)
LEMMA LayoutExists ==
    ASSUME NEW ks, NEW ts, IsCorpus(ks, ts), NoReopenedBook(ks), NoReopenedChapter(ks)
    PROVE  IsLayout(BuildLayout(ks, ts), ks, ts)
<1> DEFINE N == Len(ks)
           c == [i \in 1 .. N |-> ks[i].book]
<1>1. ks \in Seq(Key) /\ N \in Nat /\ DOMAIN ks = 1 .. N /\ (N + 1) - 1 = N
  BY DEF IsCorpus
<1>2. ASSUME NEW i \in 1 .. N, NEW j \in 1 .. N, i <= j, ks[i].book = ks[j].book,
             NEW m \in i .. j
      PROVE  ks[m].book = ks[i].book
  <2>1. j \in BookRun(ks, i)
    BY <1>1, <1>2 DEF NoReopenedBook
  <2>2. QED
    BY <2>1 DEF BookRun
<1>3. ASSUME NEW i \in 1 .. N, NEW j \in 1 .. N, i <= j, ks[i] = ks[j], NEW m \in i .. j
      PROVE  ks[m] = ks[i]
  <2>1. j \in ChapterRun(ks, i)
    BY <1>1, <1>3 DEF NoReopenedChapter
  <2>2. QED
    BY <2>1 DEF ChapterRun
<1> HIDE DEF N
<1>4. NoReturn(c, 1, N + 1)
  <2>1. SUFFICES ASSUME NEW i \in 1 .. N, NEW j \in 1 .. N, i <= j, c[i] = c[j], NEW m \in i .. j
                 PROVE  c[m] = c[i]
    BY <1>1 DEF NoReturn
  <2>2. m \in 1 .. N
    BY <1>1
  <2>3. ks[i].book = ks[j].book
    BY <2>1
  <2>4. ks[m].book = ks[i].book
    BY <1>2, <2>1, <2>3
  <2>5. QED
    BY <2>2, <2>4
<1>5. \A i \in 1 .. N : c[i] = ks[i].book
  OBVIOUS
<1> HIDE DEF c
<1>6. PICK s : IsChain(s, 1, N + 1, c)
  <2>1. 1 \in Nat /\ N + 1 \in Nat /\ 1 <= N + 1
    BY <1>1
  <2>2. QED
    BY <1>4, <2>1, ChainExists
<1> DEFINE k == Len(s)
<1>7. /\ k \in Nat /\ Chained(s, 1, N + 1)
      /\ \A n \in 1 .. k : s[n].first \in Nat /\ s[n].next \in Nat /\ s[n].first < s[n].next
      /\ \A n \in 1 .. k : 1 <= s[n].first /\ s[n].next <= N + 1
      /\ \A n \in 1 .. k : \A i \in s[n].first .. s[n].next - 1 : c[i] = c[s[n].first]
      /\ \A m, n \in 1 .. k : c[s[m].first] = c[s[n].first] => m = n
  BY <1>6, ChainOrder DEF IsChain, Chained, Coloured, Apart
<1> HIDE DEF k
<1> DEFINE Over(b, n) == IsBook(b, ks, ts) /\ b.first = s[n].first /\ b.next = s[n].next
           books == [n \in 1 .. k |-> CHOOSE b : Over(b, n)]
<1>8. ASSUME NEW n \in 1 .. k
      PROVE  \E b : Over(b, n)
  <2> DEFINE f == s[n].first
             e == s[n].next
  <2>1. /\ f \in Nat /\ e \in Nat /\ f < e /\ 1 <= f /\ e <= N + 1
        /\ \A i \in f .. e - 1 : c[i] = c[f]
    BY <1>7
  <2> HIDE DEF f, e
  <2>2. f \in 1 .. N /\ e \in f + 1 .. N + 1 /\ \A i \in f .. e - 1 : i \in 1 .. N
    BY <1>1, <2>1
  <2>3. \A i \in f .. e - 1 : ks[i].book = ks[f].book
    BY <1>5, <2>1, <2>2
  <2>4. NoReturn(ks, f, e)
    BY <1>3, <2>2 DEF NoReturn
  <2>5. \E b : IsBook(b, ks, ts) /\ b.first = f /\ b.next = e
    BY <2>2, <2>3, <2>4, BookExists DEF N
  <2>6. QED
    BY <2>5 DEF f, e
<1>9. \A n \in 1 .. k : Over(books[n], n)
  <2>1. ASSUME NEW n \in 1 .. k
        PROVE  Over(CHOOSE b : Over(b, n), n)
    <3> HIDE DEF Over
    <3>1. QED
      BY <1>8
  <2> HIDE DEF Over
  <2>2. \A n \in 1 .. k : books[n] = CHOOSE b : Over(b, n)
    OBVIOUS
  <2>3. QED
    BY <2>1, <2>2
<1>10. books \in Seq(BookRecords) /\ Len(books) = k /\ DOMAIN books = 1 .. k
  <2>1. \A n \in 1 .. k : books[n] \in BookRecords
    BY <1>9 DEF IsBook
  <2>2. books = [n \in 1 .. k |-> books[n]]
    OBVIOUS
  <2> HIDE DEF books
  <2>3. books \in [1 .. k -> BookRecords]
    BY <2>1, <2>2
  <2>4. QED
    BY <1>7, <2>3
<1> HIDE DEF books
<1>11. Chained(books, 1, N + 1)
  <2>1. \A n \in 1 .. k : books[n].first = s[n].first + 0 /\ books[n].next = s[n].next + 0
    BY <1>7, <1>9
  <2>2. 1 + 0 = 1 /\ (N + 1) + 0 = N + 1 /\ 0 \in Int /\ 1 + 0 \in Nat
    BY <1>1
  <2>3. Chained(books, 1 + 0, (N + 1) + 0)
    BY <1>7, <1>10, <2>1, <2>2, ChainMoves DEF k
  <2>4. QED
    BY <2>2, <2>3
<1>12. \A m, n \in 1 .. k : books[m].slug = books[n].slug => m = n
  <2>1. ASSUME NEW n \in 1 .. k
        PROVE  books[n].slug = c[s[n].first]
    <3>1. IsBook(books[n], ks, ts) /\ books[n].first = s[n].first /\ books[n].next = s[n].next
      BY <1>9
    <3>2. s[n].first \in s[n].first .. s[n].next - 1 /\ s[n].first \in 1 .. N
      BY <1>1, <1>7
    <3>3. ks[s[n].first].book = books[n].slug
      BY <3>1, <3>2 DEF IsBook
    <3>4. QED
      BY <1>5, <3>2, <3>3
  <2>2. QED
    BY <1>7, <2>1
<1>13. IsLayout(books, ks, ts)
  <2>1. \A n \in 1 .. k : IsBook(books[n], ks, ts)
    BY <1>9
  <2>2. QED
    BY <1>10, <1>11, <1>12, <2>1 DEF IsLayout, N
<1>14. BuildLayout(ks, ts) = books
  BY <1>13, LayoutIsBuilt
<1>15. QED
  BY <1>13, <1>14

(* And where there is a layout, nothing reopens.                           *)
LEMMA LayoutAdmits ==
    ASSUME NEW ks, NEW ts, IsCorpus(ks, ts), NEW books, IsLayout(books, ks, ts)
    PROVE  /\ NoReopenedBook(ks) /\ NoReopenedChapter(ks)
           /\ \A i \in 1 .. Len(ks) : \E n \in 1 .. Len(books) :
                 /\ books[n].slug = ks[i].book
                 /\ BookRun(ks, i) \subseteq books[n].first .. books[n].next - 1
<1> DEFINE N == Len(ks)
           k == Len(books)
<1>1. /\ N \in Nat /\ k \in Nat /\ DOMAIN ks = 1 .. N /\ (N + 1) - 1 = N
      /\ Chained(books, 1, N + 1)
      /\ \A n \in 1 .. k : IsBook(books[n], ks, ts)
      /\ \A m, n \in 1 .. k : books[m].slug = books[n].slug => m = n
  BY DEF IsCorpus, IsLayout, Chained
<1>2. \A n \in 1 .. k : books[n].first \in Nat /\ books[n].next \in Nat
  BY <1>1 DEF Chained
<1> HIDE DEF N, k
<1>3. ASSUME NEW i \in 1 .. N
      PROVE  \E n \in 1 .. k : i \in books[n].first .. books[n].next - 1
  <2>1. i \in 1 .. (N + 1) - 1
    BY <1>1
  <2>2. QED
    BY <1>1, <2>1, ChainCovers DEF k
<1>4. \A n \in 1 .. k : \A i \in books[n].first .. books[n].next - 1 : ks[i].book = books[n].slug
  BY <1>1 DEF IsBook
<1>5. ASSUME NEW i \in 1 .. N, NEW j \in 1 .. N, ks[i].book = ks[j].book, NEW n \in 1 .. k,
             i \in books[n].first .. books[n].next - 1
      PROVE  j \in books[n].first .. books[n].next - 1
  <2>1. PICK m \in 1 .. k : j \in books[m].first .. books[m].next - 1
    BY <1>3
  <2>2. m = n
    BY <1>1, <1>4, <1>5, <2>1
  <2>3. QED
    BY <2>1, <2>2
<1>6. NoReopenedBook(ks)
  <2>1. SUFFICES ASSUME NEW i \in 1 .. N, NEW j \in 1 .. N, ks[i].book = ks[j].book, i <= j
                 PROVE  j \in i .. N /\ \A m \in i .. j : ks[m].book = ks[i].book
    BY <1>1 DEF NoReopenedBook, BookRun, N
  <2>2. PICK n \in 1 .. k : i \in books[n].first .. books[n].next - 1
    BY <1>3
  <2>3. j \in books[n].first .. books[n].next - 1
    BY <1>5, <2>1, <2>2
  <2>4. \A m \in i .. j : m \in books[n].first .. books[n].next - 1
    BY <1>2, <2>2, <2>3
  <2>5. j \in i .. N
    BY <1>1, <2>1
  <2>6. QED
    BY <1>4, <2>2, <2>4, <2>5
<1>7. NoReopenedChapter(ks)
  <2>1. SUFFICES ASSUME NEW i \in 1 .. N, NEW j \in 1 .. N, ks[i] = ks[j], i <= j
                 PROVE  j \in i .. N /\ \A m \in i .. j : ks[m] = ks[i]
    BY <1>1 DEF NoReopenedChapter, ChapterRun, N
  <2>2. PICK n \in 1 .. k : i \in books[n].first .. books[n].next - 1
    BY <1>3
  <2>3. j \in books[n].first .. books[n].next - 1
    BY <1>5, <2>1, <2>2
  <2> DEFINE chs == books[n].chapters
             f == books[n].first
             e == books[n].next
             q == Len(chs)
  <2>4. Chained(chs, f, e) /\ Coloured(chs, ks) /\ Apart(chs, ks)
    BY <1>1 DEF IsBook
  <2>5. i \in f .. e - 1 /\ j \in f .. e - 1
    BY <2>2, <2>3
  <2> HIDE DEF chs, f, e
  <2>6. PICK a \in 1 .. q : i \in chs[a].first .. chs[a].next - 1
    BY <2>4, <2>5, ChainCovers
  <2>7. PICK b \in 1 .. q : j \in chs[b].first .. chs[b].next - 1
    BY <2>4, <2>5, ChainCovers
  <2>8. \A p \in 1 .. q : \A m \in chs[p].first .. chs[p].next - 1 : ks[m] = ks[chs[p].first]
    BY <2>4 DEF Coloured
  <2>9. a = b
    <3>1. ks[i] = ks[chs[a].first] /\ ks[j] = ks[chs[b].first]
      BY <2>6, <2>7, <2>8
    <3>2. QED
      BY <2>1, <2>4, <3>1 DEF Apart
  <2>10. chs[a].first \in Nat /\ chs[a].next \in Nat
    BY <2>4 DEF Chained
  <2>11. \A m \in i .. j : m \in chs[a].first .. chs[a].next - 1
    BY <2>6, <2>7, <2>9, <2>10
  <2>12. j \in i .. N
    BY <1>1, <2>1
  <2>13. QED
    BY <2>6, <2>8, <2>11, <2>12
<1>8. ASSUME NEW i \in 1 .. N
      PROVE  \E n \in 1 .. k : /\ books[n].slug = ks[i].book
                               /\ BookRun(ks, i) \subseteq books[n].first .. books[n].next - 1
  <2>1. PICK n \in 1 .. k : i \in books[n].first .. books[n].next - 1
    BY <1>3
  <2>2. ASSUME NEW j \in BookRun(ks, i)
        PROVE  j \in books[n].first .. books[n].next - 1
    <3>1. j \in i .. N /\ \A m \in i .. j : ks[m].book = ks[i].book
      BY DEF BookRun, N
    <3>2. j \in 1 .. N /\ j \in i .. j
      BY <1>1, <3>1
    <3>3. ks[i].book = ks[j].book
      BY <3>1, <3>2
    <3>4. QED
      BY <1>5, <2>1, <3>2, <3>3
  <2>3. QED
    BY <1>4, <2>1, <2>2
<1>9. QED
  BY <1>6, <1>7, <1>8 DEF N, k

(***************************************************************************)
(* Chains cut and joined, as a layout is around the book that changed.     *)
(***************************************************************************)
LEMMA ChainSplit ==
    ASSUME NEW T, NEW s \in Seq(T), NEW a, NEW e, Chained(s, a, e), NEW n \in 1 .. Len(s)
    PROVE  /\ SubSeq(s, 1, n - 1) \in Seq(T) /\ Len(SubSeq(s, 1, n - 1)) = n - 1
           /\ \A i \in 1 .. n - 1 : SubSeq(s, 1, n - 1)[i] = s[i]
           /\ SubSeq(s, n + 1, Len(s)) \in Seq(T) /\ Len(SubSeq(s, n + 1, Len(s))) = Len(s) - n
           /\ \A i \in 1 .. Len(s) - n : SubSeq(s, n + 1, Len(s))[i] = s[n + i]
           /\ Chained(SubSeq(s, 1, n - 1), a, s[n].first)
           /\ Chained(SubSeq(s, n + 1, Len(s)), s[n].next, e)
<1> DEFINE k == Len(s)
           u == SubSeq(s, 1, n - 1)
           v == SubSeq(s, n + 1, k)
<1>1. /\ k \in Nat /\ n \in 1 .. k /\ n \in Nat
      /\ a \in Nat /\ e \in Nat
      /\ \A i \in 1 .. k : s[i].first \in Nat /\ s[i].next \in Nat /\ s[i].first < s[i].next
      /\ \A i \in 2 .. k : s[i].first = s[i - 1].next
      /\ s[1].first = a /\ s[k].next = e
  BY DEF Chained
<1>2. u \in Seq(T) /\ Len(u) = n - 1 /\ \A i \in 1 .. n - 1 : u[i] = s[i]
  BY <1>1
<1>3. v \in Seq(T) /\ Len(v) = k - n /\ \A i \in 1 .. k - n : v[i] = s[n + i]
  <2>1. v \in Seq(T)
    BY <1>1
  <2>2. n + 1 \in Int /\ k \in Int /\ k - (n + 1) + 1 = k - n
    BY <1>1
  <2>3. \A i \in n + 1 .. k : s[i] \in T
    BY <1>1
  <2>4. /\ Len(v) = IF n + 1 <= k THEN k - (n + 1) + 1 ELSE 0
        /\ \A i \in 1 .. k - (n + 1) + 1 : v[i] = s[(n + 1) + i - 1]
    BY <2>2, <2>3, SubSeqProperties
  <2> HIDE DEF v, k
  <2>5. Len(v) = k - n
    BY <1>1, <2>4
  <2>6. \A i \in 1 .. k - n : (n + 1) + i - 1 = n + i
    BY <1>1
  <2>7. QED
    BY <2>1, <2>2, <2>4, <2>5, <2>6
<1> HIDE DEF u, v, k
<1>4. Chained(u, a, s[n].first)
  <2>1. \A i \in 1 .. n - 1 : i \in 1 .. k
    BY <1>1
  <2>2. \A i \in 2 .. n - 1 : i \in 2 .. k /\ i \in 1 .. n - 1 /\ i - 1 \in 1 .. n - 1
    BY <1>1
  <2>3. \A i \in 1 .. n - 1 : u[i].first \in Nat /\ u[i].next \in Nat /\ u[i].first < u[i].next
    BY <1>1, <1>2, <2>1
  <2>4. \A i \in 2 .. n - 1 : u[i].first = u[i - 1].next
    BY <1>1, <1>2, <2>2
  <2>5. n - 1 = 0 => a = s[n].first
    BY <1>1
  <2>6. n - 1 # 0 => u[1].first = a /\ u[n - 1].next = s[n].first
    <3>1. SUFFICES ASSUME n - 1 # 0
                   PROVE  u[1].first = a /\ u[n - 1].next = s[n].first
      OBVIOUS
    <3>2. 1 \in 1 .. n - 1 /\ n - 1 \in 1 .. n - 1 /\ n \in 2 .. k
      BY <1>1, <3>1
    <3>3. QED
      BY <1>1, <1>2, <3>2
  <2>7. s[n].first \in Nat /\ n - 1 \in Nat /\ DOMAIN u = 1 .. Len(u)
    BY <1>1, <1>2
  <2>8. QED
    BY <1>1, <1>2, <2>3, <2>4, <2>5, <2>6, <2>7 DEF Chained
<1>5. Chained(v, s[n].next, e)
  <2>1. \A i \in 1 .. k - n : n + i \in 1 .. k
    BY <1>1
  <2>2. \A i \in 2 .. k - n : n + i \in 2 .. k /\ i \in 1 .. k - n /\ i - 1 \in 1 .. k - n
                              /\ n + (i - 1) = (n + i) - 1
    BY <1>1
  <2>3. \A i \in 1 .. k - n : v[i].first \in Nat /\ v[i].next \in Nat /\ v[i].first < v[i].next
    BY <1>1, <1>3, <2>1
  <2>4. \A i \in 2 .. k - n : v[i].first = v[i - 1].next
    BY <1>1, <1>3, <2>2
  <2>5. k - n = 0 => s[n].next = e
    <3>1. k - n = 0 => k = n
      BY <1>1
    <3>2. QED
      BY <1>1, <3>1
  <2>6. k - n # 0 => v[1].first = s[n].next /\ v[k - n].next = e
    <3>1. SUFFICES ASSUME k - n # 0
                   PROVE  v[1].first = s[n].next /\ v[k - n].next = e
      OBVIOUS
    <3>2. 1 \in 1 .. k - n /\ k - n \in 1 .. k - n /\ n + (k - n) = k /\ n + 1 \in 2 .. k
          /\ (n + 1) - 1 = n
      BY <1>1, <3>1
    <3>3. s[n + 1].first = s[n].next
      BY <1>1, <3>2
    <3>4. v[1] = s[n + 1] /\ v[k - n] = s[k]
      BY <1>3, <3>2
    <3>5. QED
      BY <1>1, <3>3, <3>4
  <2>7. s[n].next \in Nat /\ k - n \in Nat /\ DOMAIN v = 1 .. Len(v)
    BY <1>1, <1>3
  <2>8. QED
    BY <1>1, <1>3, <2>3, <2>4, <2>5, <2>6, <2>7 DEF Chained
<1>6. QED
  BY <1>2, <1>3, <1>4, <1>5 DEF u, v, k

LEMMA ChainJoin ==
    ASSUME NEW T, NEW s \in Seq(T), NEW t \in Seq(T), NEW a, NEW m, NEW e,
           Chained(s, a, m), Chained(t, m, e)
    PROVE  Chained(s \o t, a, e)
<1> DEFINE j == Len(s)
           k == Len(t)
           u == s \o t
<1>1. /\ j \in Nat /\ a \in Nat /\ m \in Nat
      /\ \A i \in 1 .. j : s[i].first \in Nat /\ s[i].next \in Nat /\ s[i].first < s[i].next
      /\ \A i \in 2 .. j : s[i].first = s[i - 1].next
      /\ j = 0 => a = m
      /\ j # 0 => s[1].first = a /\ s[j].next = m
  BY DEF Chained
<1>2. /\ k \in Nat /\ e \in Nat
      /\ \A i \in 1 .. k : t[i].first \in Nat /\ t[i].next \in Nat /\ t[i].first < t[i].next
      /\ \A i \in 2 .. k : t[i].first = t[i - 1].next
      /\ k = 0 => m = e
      /\ k # 0 => t[1].first = m /\ t[k].next = e
  BY DEF Chained
<1>3. /\ u \in Seq(T) /\ Len(u) = j + k /\ DOMAIN u = 1 .. j + k
      /\ \A i \in 1 .. j : u[i] = s[i]
      /\ \A i \in 1 .. k : u[j + i] = t[i]
  OBVIOUS
<1> HIDE DEF j, k, u
<1>4. ASSUME NEW i \in 1 .. j + k
      PROVE  i \in 1 .. j \/ (i - j \in 1 .. k /\ j + (i - j) = i)
  BY <1>1, <1>2
<1>5. ASSUME NEW i \in 1 .. j + k
      PROVE  u[i].first \in Nat /\ u[i].next \in Nat /\ u[i].first < u[i].next
  <2>1. CASE i \in 1 .. j
    BY <1>1, <1>3, <2>1
  <2>2. CASE i - j \in 1 .. k /\ j + (i - j) = i
    <3>1. u[i] = t[i - j]
      BY <1>3, <2>2
    <3>2. QED
      BY <1>2, <2>2, <3>1
  <2>3. QED
    BY <1>4, <2>1, <2>2
<1>6. ASSUME NEW i \in 2 .. j + k
      PROVE  u[i].first = u[i - 1].next
  <2>1. CASE i \in 2 .. j
    <3>1. i \in 1 .. j /\ i - 1 \in 1 .. j
      BY <1>1, <2>1
    <3>2. QED
      BY <1>1, <1>3, <2>1, <3>1
  <2>2. CASE i = j + 1
    <3>1. j # 0 /\ j \in 1 .. j /\ i - 1 = j
      <4>1. i >= 2
        OBVIOUS
      <4>2. QED
        BY <1>1, <2>2, <4>1
    <3>2. k # 0 /\ 1 \in 1 .. k
      BY <1>1, <1>2, <2>2
    <3>3. u[i] = t[1] /\ u[i - 1] = s[j]
      BY <1>3, <2>2, <3>1, <3>2
    <3>4. QED
      BY <1>1, <1>2, <3>1, <3>2, <3>3
  <2>3. CASE i > j + 1
    <3> DEFINE p == i - j
    <3>1. p \in 2 .. k /\ p \in 1 .. k /\ p - 1 \in 1 .. k /\ j + p = i /\ j + (p - 1) = i - 1
      BY <1>1, <1>2, <2>3
    <3> HIDE DEF p
    <3>2. u[i] = t[p] /\ u[i - 1] = t[p - 1]
      <4>1. u[j + p] = t[p] /\ u[j + (p - 1)] = t[p - 1]
        BY <1>3, <3>1
      <4>2. QED
        BY <3>1, <4>1
    <3>3. QED
      BY <1>2, <3>1, <3>2
  <2>4. i \in 2 .. j \/ i = j + 1 \/ i > j + 1
    BY <1>1, <1>2
  <2>5. QED
    BY <2>1, <2>2, <2>3, <2>4
<1>7. j + k = 0 => a = e
  BY <1>1, <1>2
<1>8. j + k # 0 => u[1].first = a
  <2>1. CASE j = 0
    <3>1. j + k # 0 => k # 0 /\ 1 \in 1 .. k /\ j + 1 = 1
      BY <1>1, <1>2, <2>1
    <3>2. QED
      BY <1>1, <1>2, <1>3, <2>1, <3>1
  <2>2. CASE j # 0
    <3>1. 1 \in 1 .. j
      BY <1>1, <2>2
    <3>2. QED
      BY <1>1, <1>3, <2>2, <3>1
  <2>3. QED
    BY <2>1, <2>2
<1>9. j + k # 0 => u[j + k].next = e
  <2>1. CASE k = 0
    <3>1. j + k # 0 => j # 0 /\ j \in 1 .. j /\ j + k = j
      BY <1>1, <1>2, <2>1
    <3>2. QED
      BY <1>1, <1>2, <1>3, <2>1, <3>1
  <2>2. CASE k # 0
    <3>1. k \in 1 .. k
      BY <1>2, <2>2
    <3>2. QED
      BY <1>2, <1>3, <2>2, <3>1
  <2>3. QED
    BY <2>1, <2>2
<1>10. Chained(u, a, e)
  <2>1. Len(u) \in Nat /\ DOMAIN u = 1 .. Len(u)
    BY <1>1, <1>2, <1>3
  <2>2. QED
    BY <1>1, <1>2, <1>3, <1>5, <1>6, <1>7, <1>8, <1>9, <2>1 DEF Chained
<1>11. QED
  BY <1>10 DEF u

(* One range is a chain.                                                   *)
LEMMA ChainOfOne ==
    ASSUME NEW b, b.first \in Nat, b.next \in Nat, b.first < b.next
    PROVE  Chained(<<b>>, b.first, b.next)
<1>1. Len(<<b>>) = 1 /\ <<b>>[1] = b /\ DOMAIN <<b>> = 1 .. 1
  OBVIOUS
<1>2. \A n \in 1 .. 1 : n = 1
  OBVIOUS
<1>3. 2 .. 1 = {}
  OBVIOUS
<1> DEFINE s == <<b>>
<1> HIDE DEF s
<1>4. Chained(s, b.first, b.next)
  BY <1>1, <1>2, <1>3 DEF Chained, s
<1>5. QED
  BY <1>4 DEF s

(* Re-tiling moves every book by as much as the first.                     *)
LEMMA RetileIs ==
    ASSUME NEW books \in Seq(BookRecords), NEW a, NEW e, Chained(books, a, e), NEW start \in Nat
    PROVE  /\ DOMAIN Retile(books, start) = 1 .. Len(books)
           /\ \A n \in 1 .. Len(books) :
                 Retile(books, start)[n] = ShiftBook(books[n], books[n].first + (start - a))
<1> DEFINE k == Len(books)
           d == start - a
           Body(f) == [n \in 0 .. k |->
                          IF n = 0 THEN start
                          ELSE f[n - 1] + (books[n].next - books[n].first)]
           before == CHOOSE f : f = Body(f)
           ends == [n \in 0 .. k |-> IF n = 0 THEN start ELSE books[n].next + d]
<1>1. /\ k \in Nat /\ a \in Nat
      /\ \A n \in 1 .. k : books[n].first \in Nat /\ books[n].next \in Nat
      /\ \A n \in 2 .. k : books[n].first = books[n - 1].next
      /\ k # 0 => books[1].first = a
      /\ DOMAIN books = 1 .. k
  BY DEF Chained
<1>2. Retile(books, start) = [n \in 1 .. k |-> ShiftBook(books[n], before[n - 1])]
  BY <1>1 DEF Retile
<1> HIDE DEF k
<1>3. d \in Int
  BY <1>1
<1>4. ASSUME NEW n \in 1 .. k
      PROVE  /\ ends[n] = books[n].next + d
             /\ ends[n - 1] = books[n].first + d
  <2>1. n \in 0 .. k /\ n # 0 /\ n - 1 \in 0 .. k
    BY <1>1
  <2>2. ends[n] = books[n].next + d
    BY <2>1
  <2>3. CASE n = 1
    <3>1. ends[n - 1] = start /\ books[n].first = a
      BY <1>1, <2>1, <2>3
    <3>2. QED
      BY <1>1, <2>2, <3>1
  <2>4. CASE n # 1
    <3>1. n \in 2 .. k /\ n - 1 # 0
      BY <1>1, <2>4
    <3>2. ends[n - 1] = books[n - 1].next + d
      BY <2>1, <3>1
    <3>3. QED
      BY <1>1, <2>2, <3>1, <3>2
  <2>5. QED
    BY <2>3, <2>4
<1> HIDE DEF d
<1>5. ends = Body(ends)
  <2>1. \A n \in 0 .. k : ends[n] = IF n = 0 THEN start
                                    ELSE ends[n - 1] + (books[n].next - books[n].first)
    <3>1. SUFFICES ASSUME NEW n \in 0 .. k
                   PROVE  ends[n] = IF n = 0 THEN start
                                    ELSE ends[n - 1] + (books[n].next - books[n].first)
      OBVIOUS
    <3>2. CASE n = 0
      BY <3>2
    <3>3. CASE n # 0
      <4>1. n \in 1 .. k
        BY <1>1, <3>3
      <4>2. ends[n] = books[n].next + d /\ ends[n - 1] = books[n].first + d
        BY <1>4, <4>1
      <4> HIDE DEF ends
      <4>3. books[n].next + d = (books[n].first + d) + (books[n].next - books[n].first)
        BY <1>1, <1>3, <4>1
      <4>4. QED
        BY <3>3, <4>2, <4>3
    <3>4. QED
      BY <3>2, <3>3
  <2>2. ends = [n \in 0 .. k |-> ends[n]]
    OBVIOUS
  <2> HIDE DEF ends
  <2>3. Body(ends) = [n \in 0 .. k |-> ends[n]]
    BY <2>1
  <2> HIDE DEF Body
  <2>4. QED
    BY <2>2, <2>3
<1>6. before = Body(before)
  <2> HIDE DEF Body
  <2>1. QED
    BY <1>5
<1> HIDE DEF before
<1>7. \A n \in 0 .. k : before[n] = IF n = 0 THEN start
                                    ELSE before[n - 1] + (books[n].next - books[n].first)
  <2>1. \A n \in 0 .. k : Body(before)[n] = IF n = 0 THEN start
                              ELSE before[n - 1] + (books[n].next - books[n].first)
    OBVIOUS
  <2> HIDE DEF Body
  <2>2. QED
    BY <1>6, <2>1
<1>8. \A n \in 0 .. k : ends[n] = IF n = 0 THEN start
                                  ELSE ends[n - 1] + (books[n].next - books[n].first)
  <2>1. \A n \in 0 .. k : Body(ends)[n] = IF n = 0 THEN start
                              ELSE ends[n - 1] + (books[n].next - books[n].first)
    BY Zenon
  <2> HIDE DEF Body, ends
  <2>2. QED
    BY <1>5, <2>1
<1> HIDE DEF Body, ends
<1> DEFINE P == { n \in 0 .. k : before[n] = ends[n] }
<1>9. 0 \in P
  BY <1>1, <1>7, <1>8
<1>10. ASSUME NEW n \in 0 .. k - 1, n \in P
       PROVE  n + 1 \in P
  <2> DEFINE j == n + 1
  <2>1. j \in 0 .. k /\ j # 0 /\ j - 1 = n /\ before[n] = ends[n]
    BY <1>1, <1>10
  <2> HIDE DEF j
  <2>2. before[j] = ends[j]
    BY <1>7, <1>8, <2>1
  <2>3. QED
    BY <2>1, <2>2 DEF j
<1>11. 0 .. k \subseteq P
  <2> HIDE DEF P
  <2>1. QED
    BY <1>1, <1>9, <1>10, UpTo
<1>12. \A n \in 1 .. k : before[n - 1] = books[n].first + d
  <2>1. \A n \in 1 .. k : n - 1 \in 0 .. k
    BY <1>1
  <2>2. QED
    BY <1>4, <1>11, <2>1
<1> DEFINE tiled == Retile(books, start)
<1>13. DOMAIN tiled = 1 .. k /\ \A n \in 1 .. k : tiled[n] = ShiftBook(books[n], before[n - 1])
  BY <1>2
<1> HIDE DEF tiled
<1>14. \A n \in 1 .. k : tiled[n] = ShiftBook(books[n], books[n].first + d)
  BY <1>12, <1>13
<1>15. QED
  BY <1>13, <1>14 DEF tiled, d, k

(***************************************************************************)
(* One book replaced or dropped: what stands before it stays, what follows *)
(* moves by d.                                                             *)
(***************************************************************************)
LEMMA BookStays ==
    ASSUME NEW ks, NEW ts, IsCorpus(ks, ts), NEW ks2, NEW ts2, IsCorpus(ks2, ts2),
           NEW b, IsBook(b, ks, ts), Found(ks, ts, ks2, ts2, b.first, b.next, 0)
    PROVE  IsBook(b, ks2, ts2)
<1>1. b \in BookRecords
  BY DEF IsBook
<1>2. b.first + 0 = b.first /\ 0 \in Int
  BY <1>1 DEF BookRecords
<1>3. IsBook(ShiftBook(b, b.first + 0), ks2, ts2)
  BY <1>2, BookMoves
<1>4. ShiftBook(b, b.first) = b
  BY <1>1, ShiftStays
<1>5. QED
  BY <1>2, <1>3, <1>4

(* Part of what is found is found.                                         *)
LEMMA FoundWithin ==
    ASSUME NEW ks, NEW ts, NEW ks2, NEW ts2, Len(ks2) \in Nat,
           NEW a \in Int, NEW e \in Int, NEW d \in Int, Found(ks, ts, ks2, ts2, a, e, d),
           NEW b, b.first \in Nat, b.next \in Nat, a <= b.first, b.next <= e
    PROVE  Found(ks, ts, ks2, ts2, b.first, b.next, d)
<1>1. \A i \in b.first .. b.next - 1 : i \in a .. e - 1
  OBVIOUS
<1>2. 1 <= a + d /\ e + d <= Len(ks2) + 1
  BY DEF Found
<1>3. 1 <= b.first + d /\ b.next + d <= Len(ks2) + 1
  BY <1>2
<1>4. QED
  BY <1>1, <1>3 DEF Found

LEMMA RetiledBooks ==
    ASSUME NEW ks, NEW ts, IsCorpus(ks, ts), NEW ks2, NEW ts2, IsCorpus(ks2, ts2),
           NEW v \in Seq(BookRecords), NEW e, NEW g, Chained(v, e, g),
           \A i \in 1 .. Len(v) : IsBook(v[i], ks, ts),
           NEW d \in Int, Found(ks, ts, ks2, ts2, e, g, d)
    PROVE  /\ Retile(v, e + d) \in Seq(BookRecords) /\ Len(Retile(v, e + d)) = Len(v)
           /\ Chained(Retile(v, e + d), e + d, g + d)
           /\ \A i \in 1 .. Len(v) :
                 /\ IsBook(Retile(v, e + d)[i], ks2, ts2)
                 /\ Retile(v, e + d)[i].slug = v[i].slug
                 /\ Retile(v, e + d)[i].first = v[i].first + d
                 /\ Retile(v, e + d)[i].next = v[i].next + d
<1> DEFINE w == Retile(v, e + d)
           k == Len(v)
<1>1. e \in Nat /\ g \in Nat /\ k \in Nat /\ Len(ks2) \in Nat /\ e + d \in Nat /\ (e + d) - e = d
  BY DEF Chained, Found, IsCorpus
<1>2. \A i \in 1 .. k : /\ v[i].first \in Nat /\ v[i].next \in Nat
                        /\ e <= v[i].first /\ v[i].next <= g
  BY ChainOrder DEF Chained
<1>3. /\ DOMAIN w = 1 .. k
      /\ \A i \in 1 .. k : w[i] = ShiftBook(v[i], v[i].first + ((e + d) - e))
  <2> DEFINE start == e + d
  <2>1. start \in Nat
    BY <1>1
  <2> HIDE DEF start
  <2>2. /\ DOMAIN Retile(v, start) = 1 .. Len(v)
        /\ \A i \in 1 .. Len(v) : Retile(v, start)[i] = ShiftBook(v[i], v[i].first + (start - e))
    BY <2>1, RetileIs
  <2>3. QED
    BY <2>2 DEF start
<1>4. w = [i \in 1 .. k |-> w[i]]
  BY <1>3 DEF Retile
<1> HIDE DEF w, k
<1>5. ASSUME NEW i \in 1 .. k
      PROVE  /\ IsBook(w[i], ks2, ts2) /\ w[i].slug = v[i].slug
             /\ w[i].first = v[i].first + d /\ w[i].next = v[i].next + d
  <2> DEFINE b == v[i]
  <2>1. IsBook(b, ks, ts) /\ b.first \in Nat /\ b.next \in Nat /\ e <= b.first /\ b.next <= g
    BY <1>2 DEF k
  <2>2. w[i] = ShiftBook(b, b.first + d)
    BY <1>1, <1>3
  <2> HIDE DEF b
  <2>3. Found(ks, ts, ks2, ts2, b.first, b.next, d)
    <3>1. e \in Int /\ g \in Int /\ Len(ks2) \in Nat
      BY <1>1
    <3>2. b.first \in Nat /\ b.next \in Nat /\ e <= b.first /\ b.next <= g
      BY <2>1
    <3>3. QED
      BY <3>1, <3>2, FoundWithin
  <2>4. /\ IsBook(ShiftBook(b, b.first + d), ks2, ts2)
        /\ ShiftBook(b, b.first + d).first = b.first + d
        /\ ShiftBook(b, b.first + d).next = b.next + d
        /\ ShiftBook(b, b.first + d).slug = b.slug
    BY <2>1, <2>3, BookMoves
  <2>5. QED
    BY <2>2, <2>4 DEF b
<1>6. w \in Seq(BookRecords) /\ Len(w) = k
  <2>1. \A i \in 1 .. k : w[i] \in BookRecords
    BY <1>5 DEF IsBook
  <2>2. w \in [1 .. k -> BookRecords]
    BY <1>4, <2>1
  <2>3. QED
    BY <1>1, <2>2
<1>7. Chained(w, e + d, g + d)
  <2>1. /\ Len(w) = Len(v) /\ DOMAIN w = 1 .. Len(v)
        /\ \A i \in 1 .. Len(v) : w[i].first = v[i].first + d /\ w[i].next = v[i].next + d
    BY <1>3, <1>5, <1>6 DEF k
  <2>2. QED
    BY <1>1, <2>1, ChainMoves
<1>8. QED
  BY <1>5, <1>6, <1>7 DEF w, k

IsJoin(u, s, t, T) ==
    /\ u \in Seq(T) /\ Len(u) = Len(s) + Len(t)
    /\ \A m \in 1 .. Len(s) : u[m] = s[m]
    /\ \A m \in 1 .. Len(t) : u[Len(s) + m] = t[m]

LEMMA Joined ==
    ASSUME NEW T, NEW s \in Seq(T), NEW t \in Seq(T)
    PROVE  IsJoin(s \o t, s, t, T)
  BY DEF IsJoin

(* The books of the layout afterwards: where each one stood before.        *)
IsDescent(old, fresh, books) ==
    /\ old \in [1 .. Len(fresh) -> 1 .. Len(books)]
    /\ \A m \in 1 .. Len(fresh) : fresh[m].slug = books[old[m]].slug
    /\ \A l, m \in 1 .. Len(fresh) : l < m => old[l] < old[m]

(* The books before the n-th, that one or none, and those that follow it.  *)
InPlaceOf(u, mid, w, books, n) ==
    /\ Len(u) = n - 1 /\ Len(mid) <= 1 /\ Len(w) = Len(books) - n
    /\ \A m \in 1 .. n - 1 : u[m] = books[m]
    /\ \A m \in 1 .. Len(mid) : mid[m].slug = books[n].slug
    /\ \A m \in 1 .. Len(books) - n : w[m].slug = books[n + m].slug

LEMMA DescentOf ==
    ASSUME NEW T, NEW u \in Seq(T), NEW mid \in Seq(T), NEW w \in Seq(T),
           NEW books \in Seq(T), NEW n \in 1 .. Len(books), InPlaceOf(u, mid, w, books, n)
    PROVE  \E old : IsDescent(old, (u \o mid) \o w, books)
<1> DEFINE k == Len(books)
           q == Len(mid)
           r == (n - 1) + q
           fresh == (u \o mid) \o w
           old == [m \in 1 .. Len(fresh) |-> IF m <= r THEN m ELSE m + (1 - q)]
<1>1. k \in Nat /\ n \in 1 .. k /\ n \in Nat /\ (q = 0 \/ q = 1) /\ r \in Nat
  <2>1. k \in Nat /\ q \in Nat /\ q <= 1 /\ n \in 1 .. k
    BY DEF InPlaceOf
  <2> HIDE DEF k, q
  <2>2. QED
    BY <2>1
<1>2. /\ u \o mid \in Seq(T) /\ Len(u \o mid) = r
      /\ \A m \in 1 .. n - 1 : (u \o mid)[m] = u[m]
      /\ \A m \in 1 .. q : (u \o mid)[(n - 1) + m] = mid[m]
  <2>1. Len(u) = n - 1 /\ Len(mid) = q
    BY DEF InPlaceOf
  <2>2. IsJoin(u \o mid, u, mid, T)
    BY Joined
  <2> HIDE DEF q
  <2>3. QED
    BY <2>1, <2>2 DEF IsJoin
<1>3. /\ Len(fresh) = r + (k - n)
      /\ \A m \in 1 .. r : fresh[m] = (u \o mid)[m]
      /\ \A m \in 1 .. k - n : fresh[r + m] = w[m]
  <2> DEFINE um == u \o mid
  <2>1. um \in Seq(T) /\ Len(um) = r
    BY <1>2
  <2> HIDE DEF um, r
  <2>2. w \in Seq(T) /\ Len(w) = k - n
    BY DEF InPlaceOf
  <2>3. IsJoin(um \o w, um, w, T)
    BY <2>1, <2>2, Joined
  <2>4. QED
    BY <2>1, <2>2, <2>3 DEF um, IsJoin
<1> HIDE DEF fresh
<1>4. \A m \in 1 .. n - 1 : u[m] = books[m]
  BY DEF InPlaceOf
<1>5. \A m \in 1 .. q : mid[m].slug = books[n].slug
  BY DEF InPlaceOf
<1>6. \A m \in 1 .. k - n : w[m].slug = books[n + m].slug
  BY DEF InPlaceOf
<1>7. \A m \in 1 .. Len(fresh) : old[m] = IF m <= r THEN m ELSE m + (1 - q)
  OBVIOUS
<1>8. old = [m \in 1 .. Len(fresh) |-> old[m]]
  OBVIOUS
<1>9. q = 0 => r = n - 1
  BY <1>1
<1>10. q = 1 => r = n
  BY <1>1
<1> HIDE DEF k, q, r, old
<1>11. ASSUME NEW m \in 1 .. Len(fresh)
       PROVE  old[m] \in 1 .. k /\ fresh[m].slug = books[old[m]].slug
  <2>1. m \in Nat /\ 1 <= m /\ m <= r + (k - n)
    BY <1>1, <1>3
  <2>2. CASE m <= n - 1
    <3>1. m \in 1 .. n - 1 /\ m \in 1 .. r /\ m <= r /\ m \in 1 .. k
      BY <1>1, <1>9, <1>10, <2>1, <2>2
    <3>2. old[m] = m /\ fresh[m] = books[m]
      BY <1>2, <1>3, <1>4, <1>7, <3>1
    <3>3. QED
      BY <3>1, <3>2
  <2>3. CASE n <= m /\ m <= r
    <3>1. q = 1 /\ m = n /\ m \in 1 .. r /\ 1 \in 1 .. q /\ (n - 1) + 1 = m
      BY <1>1, <1>9, <1>10, <2>1, <2>3
    <3>2. old[m] = n
      BY <1>7, <2>3, <3>1
    <3>3. fresh[m] = mid[1]
      <4>1. (u \o mid)[(n - 1) + 1] = mid[1]
        BY <1>2, <3>1
      <4>2. QED
        BY <1>3, <3>1, <4>1
    <3>4. QED
      BY <1>1, <1>5, <3>1, <3>2, <3>3
  <2>4. CASE m > r
    <3> DEFINE i == m - r
    <3>1. i \in 1 .. k - n /\ r + i = m /\ ~ (m <= r) /\ m + (1 - q) = n + i /\ n + i \in 1 .. k
      <4>1. m + (1 - q) = n + i
        BY <1>1, <1>9, <1>10, <2>1
      <4>2. QED
        BY <1>1, <2>1, <2>4, <4>1
    <3> HIDE DEF i
    <3>2. old[m] = n + i
      BY <1>7, <3>1
    <3>3. fresh[r + i] = w[i] /\ w[i].slug = books[n + i].slug
      BY <1>3, <1>6, <3>1
    <3>4. QED
      BY <3>1, <3>2, <3>3
  <2>5. m <= n - 1 \/ (n <= m /\ m <= r) \/ m > r
    BY <1>1, <2>1
  <2>6. QED
    BY <2>2, <2>3, <2>4, <2>5
<1>12. ASSUME NEW l \in 1 .. Len(fresh), NEW m \in 1 .. Len(fresh), l < m
       PROVE  old[l] < old[m]
  <2>1. l \in Nat /\ m \in Nat
    BY <1>1, <1>3
  <2>2. /\ old[l] = IF l <= r THEN l ELSE l + (1 - q)
        /\ old[m] = IF m <= r THEN m ELSE m + (1 - q)
    BY <1>7
  <2>3. QED
    BY <1>1, <1>12, <2>1, <2>2
<1>13. old \in [1 .. Len(fresh) -> 1 .. k]
  BY <1>8, <1>11
<1>14. IsDescent(old, fresh, books)
  BY <1>11, <1>12, <1>13 DEF IsDescent, k
<1>15. QED
  BY <1>14 DEF fresh

(* The verses of the n-th book replaced by d more: the rest is found again. *)
Around(ks, ts, ks2, ts2, b, d) ==
    /\ Len(ks2) = Len(ks) + d
    /\ Found(ks, ts, ks2, ts2, 1, b.first, 0)
    /\ Found(ks, ts, ks2, ts2, b.next, Len(ks) + 1, d)

(* What stands in its place: one book of its name, or none.                *)
InItsPlace(mid, ks2, ts2, b, d) ==
    /\ mid \in Seq(BookRecords) /\ Len(mid) <= 1
    /\ Chained(mid, b.first, b.next + d)
    /\ \A m \in 1 .. Len(mid) : IsBook(mid[m], ks2, ts2) /\ mid[m].slug = b.slug

Resplicing(books, n, mid, d) ==
    (SubSeq(books, 1, n - 1) \o mid)
      \o Retile(SubSeq(books, n + 1, Len(books)), books[n].next + d)

Width(b) == b.next - b.first

IsResplice(ks, ts, books, ks2, ts2, n, mid, d) ==
    /\ IsCorpus(ks, ts) /\ IsLayout(books, ks, ts) /\ n \in 1 .. Len(books) /\ d \in Int
    /\ IsCorpus(ks2, ts2) /\ Around(ks, ts, ks2, ts2, books[n], d)
    /\ InItsPlace(mid, ks2, ts2, books[n], d)

IsRespliced(fresh, books, ks2, ts2, mid) ==
    /\ IsLayout(fresh, ks2, ts2)
    /\ \E old : IsDescent(old, fresh, books)
    /\ \A m \in 1 .. Len(fresh) :
          \/ \E i \in 1 .. Len(mid) : fresh[m] = mid[i]
          \/ \E i \in 1 .. Len(books) : Width(fresh[m]) = Width(books[i])

LEMMA LayoutAround ==
    ASSUME NEW ks, NEW ts, NEW books, NEW ks2, NEW ts2, NEW n, NEW mid, NEW d,
           IsResplice(ks, ts, books, ks2, ts2, n, mid, d)
    PROVE  IsRespliced(Resplicing(books, n, mid, d), books, ks2, ts2, mid)
<1> SUFFICES ASSUME IsCorpus(ks, ts), IsLayout(books, ks, ts), n \in 1 .. Len(books), d \in Int,
                    IsCorpus(ks2, ts2), Around(ks, ts, ks2, ts2, books[n], d),
                    InItsPlace(mid, ks2, ts2, books[n], d)
             PROVE  IsRespliced(Resplicing(books, n, mid, d), books, ks2, ts2, mid)
  BY DEF IsResplice
<1> DEFINE k == Len(books)
           N == Len(ks)
           f == books[n].first
           e == books[n].next
           u == SubSeq(books, 1, n - 1)
           v == SubSeq(books, n + 1, k)
           w == Retile(v, e + d)
           um == u \o mid
           fresh == um \o w
<1>1. /\ books \in Seq(BookRecords) /\ Chained(books, 1, N + 1)
      /\ \A m \in 1 .. k : IsBook(books[m], ks, ts)
      /\ \A l, m \in 1 .. k : books[l].slug = books[m].slug => l = m
  BY DEF IsLayout
<1>2. /\ k \in Nat /\ n \in 1 .. k /\ n \in Nat /\ N \in Nat
      /\ \A m \in 1 .. k : books[m].first \in Nat /\ books[m].next \in Nat
                           /\ books[m].first < books[m].next
  BY <1>1 DEF IsCorpus, Chained
<1>3. \A m \in 1 .. k : 1 <= books[m].first /\ books[m].next <= N + 1
  BY <1>1, ChainOrder
<1>4. /\ Len(ks2) = N + d /\ Len(ks2) \in Nat
      /\ Found(ks, ts, ks2, ts2, 1, f, 0) /\ Found(ks, ts, ks2, ts2, e, N + 1, d)
  BY DEF Around, IsCorpus
<1>5. /\ mid \in Seq(BookRecords) /\ Len(mid) <= 1 /\ Chained(mid, f, e + d)
      /\ \A m \in 1 .. Len(mid) : IsBook(mid[m], ks2, ts2) /\ mid[m].slug = books[n].slug
  BY DEF InItsPlace
<1>6. /\ u \in Seq(BookRecords) /\ Len(u) = n - 1 /\ \A i \in 1 .. n - 1 : u[i] = books[i]
      /\ v \in Seq(BookRecords) /\ Len(v) = k - n /\ \A i \in 1 .. k - n : v[i] = books[n + i]
      /\ Chained(u, 1, f) /\ Chained(v, e, N + 1)
  <2> DEFINE a == 1
             g == N + 1
  <2>1. Chained(books, a, g) /\ n \in 1 .. Len(books)
    BY <1>1
  <2> HIDE DEF a, g, N
  <2>2. /\ SubSeq(books, 1, n - 1) \in Seq(BookRecords) /\ Len(SubSeq(books, 1, n - 1)) = n - 1
        /\ \A i \in 1 .. n - 1 : SubSeq(books, 1, n - 1)[i] = books[i]
        /\ SubSeq(books, n + 1, Len(books)) \in Seq(BookRecords)
        /\ Len(SubSeq(books, n + 1, Len(books))) = Len(books) - n
        /\ \A i \in 1 .. Len(books) - n : SubSeq(books, n + 1, Len(books))[i] = books[n + i]
        /\ Chained(SubSeq(books, 1, n - 1), a, books[n].first)
        /\ Chained(SubSeq(books, n + 1, Len(books)), books[n].next, g)
    BY <1>1, <2>1, ChainSplit
  <2>3. QED
    BY <2>2 DEF a, g
<1> HIDE DEF u, v, N, f, e
<1>7. \A i \in 1 .. Len(v) : IsBook(v[i], ks, ts)
  <2>1. \A i \in 1 .. k - n : n + i \in 1 .. k
    BY <1>2
  <2>2. QED
    BY <1>1, <1>6, <2>1
<1>8. /\ w \in Seq(BookRecords) /\ Len(w) = k - n
      /\ Chained(w, e + d, (N + 1) + d)
      /\ \A i \in 1 .. k - n : /\ IsBook(w[i], ks2, ts2) /\ w[i].slug = v[i].slug
                               /\ w[i].first = v[i].first + d /\ w[i].next = v[i].next + d
  <2> DEFINE g == N + 1
  <2>1. Chained(v, e, g) /\ Found(ks, ts, ks2, ts2, e, g, d) /\ v \in Seq(BookRecords)
    BY <1>4, <1>6
  <2> HIDE DEF g
  <2>2. /\ Retile(v, e + d) \in Seq(BookRecords) /\ Len(Retile(v, e + d)) = Len(v)
        /\ Chained(Retile(v, e + d), e + d, g + d)
        /\ \A i \in 1 .. Len(v) :
              /\ IsBook(Retile(v, e + d)[i], ks2, ts2)
              /\ Retile(v, e + d)[i].slug = v[i].slug
              /\ Retile(v, e + d)[i].first = v[i].first + d
              /\ Retile(v, e + d)[i].next = v[i].next + d
    BY <1>7, <2>1, RetiledBooks
  <2>3. QED
    BY <1>6, <2>2 DEF g
<1> HIDE DEF w, k
<1>9. ASSUME NEW i \in 1 .. n - 1
      PROVE  IsBook(u[i], ks2, ts2)
  <2>1. i \in 1 .. k
    BY <1>2
  <2>2. u[i] = books[i] /\ IsBook(books[i], ks, ts)
    BY <1>1, <1>6, <2>1
  <2>3. /\ u[i].first \in Nat /\ u[i].next \in Nat /\ 1 <= u[i].first /\ u[i].next <= f
        /\ f \in Int /\ 1 \in Int /\ 0 \in Int
    <3>1. i \in 1 .. Len(u)
      BY <1>6
    <3>2. \A m \in 1 .. Len(u) : 1 <= u[m].first /\ u[m].next <= f
      BY <1>6, ChainOrder
    <3>3. f \in Nat /\ \A m \in 1 .. Len(u) : u[m].first \in Nat /\ u[m].next \in Nat
      BY <1>6 DEF Chained
    <3>4. QED
      BY <3>1, <3>2, <3>3
  <2>4. Found(ks, ts, ks2, ts2, u[i].first, u[i].next, 0)
    BY <1>4, <2>3, FoundWithin
  <2>5. IsBook(u[i], ks, ts)
    BY <2>2
  <2>6. QED
    BY <2>4, <2>5, BookStays
<1>10. IsJoin(um, u, mid, BookRecords) /\ Chained(um, 1, e + d)
  BY <1>5, <1>6, Joined, ChainJoin
<1>11. um \in Seq(BookRecords)
  BY <1>10 DEF IsJoin
<1> HIDE DEF um
<1>12. IsJoin(fresh, um, w, BookRecords) /\ Chained(fresh, 1, (N + 1) + d)
  BY <1>8, <1>10, <1>11, Joined, ChainJoin
<1>13. fresh = (u \o mid) \o w
  BY DEF um
<1> HIDE DEF fresh
<1>14. ASSUME NEW m \in 1 .. Len(fresh)
       PROVE  \/ \E i \in 1 .. n - 1 : fresh[m] = u[i]
              \/ \E i \in 1 .. Len(mid) : fresh[m] = mid[i]
              \/ \E i \in 1 .. k - n : fresh[m] = w[i]
  <2>1. ASSUME NEW T, NEW x, NEW s \in Seq(T), NEW t \in Seq(T), IsJoin(x, s, t, T),
               NEW j \in 1 .. Len(x)
        PROVE  \/ \E i \in 1 .. Len(s) : x[j] = s[i]
               \/ \E i \in 1 .. Len(t) : x[j] = t[i]
    <3>1. Len(x) = Len(s) + Len(t) /\ Len(s) \in Nat /\ Len(t) \in Nat
      BY <2>1 DEF IsJoin
    <3>2. CASE j \in 1 .. Len(s)
      BY <2>1, <3>2 DEF IsJoin
    <3>3. CASE j \notin 1 .. Len(s)
      <4> DEFINE i == j - Len(s)
      <4>1. i \in 1 .. Len(t) /\ Len(s) + i = j
        BY <3>1, <3>3
      <4> HIDE DEF i
      <4>2. x[j] = t[i]
        BY <2>1, <4>1 DEF IsJoin
      <4>3. QED
        BY <4>1, <4>2
    <3>4. QED
      BY <3>2, <3>3
  <2>2. \/ \E i \in 1 .. Len(um) : fresh[m] = um[i]
        \/ \E i \in 1 .. Len(w) : fresh[m] = w[i]
    BY <1>8, <1>11, <1>12, <2>1
  <2>3. \A j \in 1 .. Len(um) : \/ \E i \in 1 .. Len(u) : um[j] = u[i]
                                \/ \E i \in 1 .. Len(mid) : um[j] = mid[i]
    <3>1. u \in Seq(BookRecords) /\ mid \in Seq(BookRecords) /\ IsJoin(um, u, mid, BookRecords)
      BY <1>5, <1>6, <1>10
    <3>2. SUFFICES ASSUME NEW j \in 1 .. Len(um)
                   PROVE  \/ \E i \in 1 .. Len(u) : um[j] = u[i]
                          \/ \E i \in 1 .. Len(mid) : um[j] = mid[i]
      OBVIOUS
    <3>3. QED
      BY <2>1, <3>1
  <2>4. QED
    BY <1>6, <1>8, <2>2, <2>3
<1>15. \A m \in 1 .. Len(fresh) : IsBook(fresh[m], ks2, ts2)
  BY <1>5, <1>8, <1>9, <1>14
<1>16. InPlaceOf(u, mid, w, books, n)
  BY <1>5, <1>6, <1>8 DEF InPlaceOf, k
<1>17. PICK old : IsDescent(old, fresh, books)
  BY <1>1, <1>5, <1>6, <1>8, <1>13, <1>16, DescentOf
<1>18. \A l, m \in 1 .. Len(fresh) : fresh[l].slug = fresh[m].slug => l = m
  <2>1. SUFFICES ASSUME NEW l \in 1 .. Len(fresh), NEW m \in 1 .. Len(fresh),
                        fresh[l].slug = fresh[m].slug, l # m
                 PROVE  FALSE
    OBVIOUS
  <2>2. old[l] \in 1 .. k /\ old[m] \in 1 .. k /\ books[old[l]].slug = books[old[m]].slug
    BY <1>17, <2>1 DEF IsDescent, k
  <2>3. old[l] = old[m]
    BY <1>1, <2>2 DEF k
  <2>4. l < m \/ m < l
    BY <2>1
  <2>5. old[l] < old[m] \/ old[m] < old[l]
    BY <1>17, <2>4 DEF IsDescent
  <2>6. QED
    BY <1>2, <2>2, <2>3, <2>5
<1>19. IsLayout(fresh, ks2, ts2)
  <2>1. (N + 1) + d = Len(ks2) + 1
    BY <1>2, <1>4
  <2>2. fresh \in Seq(BookRecords)
    BY <1>12 DEF IsJoin
  <2>3. QED
    BY <1>12, <1>15, <1>18, <2>1, <2>2 DEF IsLayout
<1>20. ASSUME NEW m \in 1 .. Len(fresh)
       PROVE  \/ \E i \in 1 .. Len(mid) : fresh[m] = mid[i]
              \/ \E i \in 1 .. k : Width(fresh[m]) = Width(books[i])
  <2>1. CASE \E i \in 1 .. n - 1 : fresh[m] = u[i]
    <3>1. \A i \in 1 .. n - 1 : i \in 1 .. k
      BY <1>2
    <3>2. QED
      BY <1>6, <2>1, <3>1
  <2>2. CASE \E i \in 1 .. k - n : fresh[m] = w[i]
    <3>1. PICK i \in 1 .. k - n : fresh[m] = w[i]
      BY <2>2
    <3>2. n + i \in 1 .. k /\ v[i] = books[n + i]
      BY <1>2, <1>6
    <3>3. books[n + i].first \in Nat /\ books[n + i].next \in Nat
      BY <1>2, <3>2
    <3> DEFINE x == books[n + i].first
               y == books[n + i].next
    <3>4. w[i].first = x + d /\ w[i].next = y + d
      BY <1>8, <3>2
    <3>5. x \in Nat /\ y \in Nat
      BY <3>3
    <3>6. Width(w[i]) = Width(books[n + i])
      <4> HIDE DEF x, y
      <4>1. (y + d) - (x + d) = y - x
        BY <3>5
      <4>2. Width(w[i]) = (y + d) - (x + d)
        BY <3>4 DEF Width
      <4>3. QED
        BY <4>1, <4>2 DEF Width, x, y
    <3>7. QED
      BY <3>1, <3>2, <3>6
  <2>3. QED
    BY <1>14, <2>1, <2>2
<1>21. fresh = Resplicing(books, n, mid, d)
  BY <1>13 DEF Resplicing, u, v, w, k, e
<1>22. IsRespliced(fresh, books, ks2, ts2, mid)
  BY <1>17, <1>19, <1>20 DEF IsRespliced, k
<1>23. QED
  BY <1>21, <1>22

(***************************************************************************)
(* A run of verses replaced, in the two parallel sequences at once.        *)
(***************************************************************************)
IsSplice(t, s, new, a, e, T) ==
    /\ t \in Seq(T)
    /\ Len(t) = Len(s) + (Len(new) - (e - a))
    /\ \A i \in 1 .. a - 1 : t[i] = s[i]
    /\ \A i \in 1 .. Len(new) : t[(a - 1) + i] = new[i]
    /\ \A i \in e .. Len(s) : t[i + (Len(new) - (e - a))] = s[i]

LEMMA SpliceIs ==
    ASSUME NEW T, NEW s \in Seq(T), NEW new \in Seq(T), NEW run,
           run.first \in 1 .. Len(s), run.next \in run.first .. Len(s) + 1
    PROVE  IsSplice(Splice(s, run, new), s, new, run.first, run.next, T)
<1> DEFINE N == Len(s)
           L == Len(new)
           a == run.first
           e == run.next
           u == SubSeq(s, 1, a - 1)
           v == SubSeq(s, e, N)
           um == u \o new
           t == um \o v
           d == L - (e - a)
<1>1. N \in Nat /\ L \in Nat /\ a \in 1 .. N /\ e \in a .. N + 1 /\ a \in Nat /\ e \in Nat
  OBVIOUS
<1>2. u \in Seq(T) /\ Len(u) = a - 1 /\ \A i \in 1 .. a - 1 : u[i] = s[i]
  BY <1>1
<1>3. v \in Seq(T) /\ Len(v) = (N + 1) - e /\ \A i \in 1 .. (N + 1) - e : v[i] = s[e + i - 1]
  <2> DEFINE n == N + 1
  <2>1. n \in e .. Len(s) + 1 /\ e \in 1 .. Len(s) + 1 /\ n - 1 = N
    BY <1>1
  <2> HIDE DEF n
  <2>2. /\ SubSeq(s, e, n - 1) \in Seq(T) /\ Len(SubSeq(s, e, n - 1)) = n - e
        /\ \A i \in 1 .. n - e : SubSeq(s, e, n - 1)[i] = s[e + i - 1]
    BY <2>1, SliceIn
  <2>3. QED
    BY <2>1, <2>2 DEF n
<1> HIDE DEF u, v, L, N, a, e
<1>4. /\ um \in Seq(T) /\ Len(um) = (a - 1) + L
      /\ \A i \in 1 .. a - 1 : um[i] = s[i]
      /\ \A i \in 1 .. L : um[(a - 1) + i] = new[i]
  <2>1. IsJoin(u \o new, u, new, T)
    BY <1>2, Joined
  <2>2. QED
    BY <1>2, <2>1 DEF IsJoin, L
<1> HIDE DEF um
<1>5. /\ t \in Seq(T) /\ Len(t) = ((a - 1) + L) + ((N + 1) - e)
      /\ \A i \in 1 .. (a - 1) + L : t[i] = um[i]
      /\ \A i \in 1 .. (N + 1) - e : t[((a - 1) + L) + i] = v[i]
  <2>1. IsJoin(um \o v, um, v, T)
    BY <1>3, <1>4, Joined
  <2>2. QED
    BY <1>3, <1>4, <2>1 DEF IsJoin
<1> HIDE DEF t
<1>6. Len(t) = N + d
  BY <1>1, <1>5
<1>7. \A i \in 1 .. a - 1 : t[i] = s[i]
  <2>1. \A i \in 1 .. a - 1 : i \in 1 .. (a - 1) + L
    BY <1>1
  <2>2. QED
    BY <1>4, <1>5, <2>1
<1>8. \A i \in 1 .. L : t[(a - 1) + i] = new[i]
  <2>1. \A i \in 1 .. L : (a - 1) + i \in 1 .. (a - 1) + L
    BY <1>1
  <2>2. QED
    BY <1>4, <1>5, <2>1
<1>9. ASSUME NEW i \in e .. N
      PROVE  t[i + d] = s[i]
  <2> DEFINE j == (i - e) + 1
  <2>1. j \in 1 .. (N + 1) - e /\ ((a - 1) + L) + j = i + d /\ e + j - 1 = i
    BY <1>1
  <2> HIDE DEF j, d
  <2>2. t[((a - 1) + L) + j] = v[j] /\ v[j] = s[e + j - 1]
    BY <1>3, <1>5, <2>1
  <2>3. QED
    BY <2>1, <2>2
<1>10. t = Splice(s, run, new)
  BY DEF Splice, t, um, u, v, a, e, N
<1>11. IsSplice(t, s, new, a, e, T)
  BY <1>5, <1>6, <1>7, <1>8, <1>9 DEF IsSplice, N, L
<1>12. QED
  BY <1>10, <1>11 DEF a, e

LEMMA SpliceFinds ==
    ASSUME NEW ks, NEW ts, IsCorpus(ks, ts), NEW nk, NEW nt, IsCorpus(nk, nt), NEW run,
           run.first \in 1 .. Len(ks), run.next \in run.first .. Len(ks) + 1,
           NEW d \in Int, run.first + Len(nk) = run.next + d
    PROVE  /\ IsCorpus(Splice(ks, run, nk), Splice(ts, run, nt))
           /\ \A b : /\ b.first \in Nat /\ b.next \in Nat /\ 1 <= b.first
                     /\ b.first <= run.first /\ run.next <= b.next /\ b.next <= Len(ks) + 1
                     => Around(ks, ts, Splice(ks, run, nk), Splice(ts, run, nt), b, d)
<1> DEFINE N == Len(ks)
           L == Len(nk)
           a == run.first
           e == run.next
           ks2 == Splice(ks, run, nk)
           ts2 == Splice(ts, run, nt)
<1>1. /\ ks \in Seq(Key) /\ ts \in Seq(Texts) /\ Len(ts) = N /\ N \in Nat
      /\ nk \in Seq(Key) /\ nt \in Seq(Texts) /\ Len(nt) = L /\ L \in Nat
      /\ a \in 1 .. N /\ e \in a .. N + 1 /\ a \in Nat /\ e \in Nat
      /\ d \in Int /\ a + L = e + d /\ L - (e - a) = d
  <2>1. /\ ks \in Seq(Key) /\ ts \in Seq(Texts) /\ Len(ts) = N /\ N \in Nat
        /\ nk \in Seq(Key) /\ nt \in Seq(Texts) /\ Len(nt) = L /\ L \in Nat
    BY DEF IsCorpus
  <2>2. a \in 1 .. N /\ e \in a .. N + 1 /\ a + L = e + d
    OBVIOUS
  <2> HIDE DEF ks2, ts2, a, e, N, L
  <2>3. a \in Nat /\ e \in Nat /\ L \in Nat
    BY <2>1, <2>2
  <2>4. L - (e - a) = d
    BY <2>2, <2>3
  <2>5. QED
    BY <2>1, <2>2, <2>3, <2>4
<1>2. IsSplice(ks2, ks, nk, a, e, Key)
  BY <1>1, SpliceIs
<1>3. IsSplice(ts2, ts, nt, a, e, Texts)
  BY <1>1, SpliceIs
<1> HIDE DEF ks2, ts2, a, e, N, L
<1>4. /\ ks2 \in Seq(Key) /\ Len(ks2) = N + d
      /\ \A i \in 1 .. a - 1 : ks2[i] = ks[i]
      /\ \A i \in e .. N : ks2[i + d] = ks[i]
  BY <1>1, <1>2 DEF IsSplice, N, L
<1>5. /\ ts2 \in Seq(Texts) /\ Len(ts2) = N + d
      /\ \A i \in 1 .. a - 1 : ts2[i] = ts[i]
      /\ \A i \in e .. N : ts2[i + d] = ts[i]
  BY <1>1, <1>3 DEF IsSplice, L
<1>6. IsCorpus(ks2, ts2)
  BY <1>4, <1>5 DEF IsCorpus
<1>7. Len(ks2) \in Nat
  BY <1>4
<1>8. Found(ks, ts, ks2, ts2, 1, a, 0)
  <2>1. 1 <= 1 + 0 /\ a + 0 <= Len(ks2) + 1
    BY <1>1, <1>4
  <2>2. ASSUME NEW i \in 1 .. a - 1
        PROVE  ks2[i + 0] = ks[i] /\ ts2[i + 0] = ts[i]
    <3>1. i + 0 = i
      OBVIOUS
    <3>2. QED
      BY <1>4, <1>5, <3>1
  <2>3. QED
    BY <2>1, <2>2 DEF Found
<1>9. Found(ks, ts, ks2, ts2, e, N + 1, d)
  <2>1. 1 <= e + d /\ (N + 1) + d <= Len(ks2) + 1 /\ (N + 1) - 1 = N
    <3>1. e \in Nat /\ a \in Nat /\ 1 <= a /\ L \in Nat /\ a + L = e + d /\ N \in Nat
      BY <1>1
    <3>2. Len(ks2) = N + d
      BY <1>4
    <3>4. (N + 1) + d = (N + d) + 1
      BY <3>1
    <3>5. 1 <= e + d
      BY <3>1
    <3>6. (N + 1) + d <= Len(ks2) + 1
      BY <3>1, <3>2, <3>4
    <3>7. QED
      BY <3>1, <3>5, <3>6
  <2>2. QED
    BY <1>4, <1>5, <2>1 DEF Found
<1>10. ASSUME NEW b, b.first \in Nat, b.next \in Nat, 1 <= b.first,
              b.first <= a, e <= b.next, b.next <= N + 1
       PROVE  Around(ks, ts, ks2, ts2, b, d)
  <2> DEFINE p == [first |-> 1, next |-> b.first]
             q == [first |-> b.next, next |-> N + 1]
  <2>1. Found(ks, ts, ks2, ts2, p.first, p.next, 0)
    <3>1. p.first \in Nat /\ p.next \in Nat /\ 1 <= p.first /\ p.next <= a
      BY <1>10
    <3>2. 1 \in Int /\ a \in Int /\ 0 \in Int
      BY <1>1
    <3> HIDE DEF p
    <3>3. QED
      BY <1>7, <1>8, <3>1, <3>2, FoundWithin
  <2>2. Found(ks, ts, ks2, ts2, q.first, q.next, d)
    <3> DEFINE g == N + 1
    <3>1. q.first \in Nat /\ q.next \in Nat /\ e <= q.first /\ q.next <= g
      BY <1>1, <1>10
    <3>2. e \in Int /\ g \in Int /\ d \in Int
      BY <1>1
    <3>3. Found(ks, ts, ks2, ts2, e, g, d)
      BY <1>9
    <3> HIDE DEF q, g
    <3>4. QED
      BY <1>7, <3>1, <3>2, <3>3, FoundWithin
  <2>3. QED
    BY <1>4, <2>1, <2>2 DEF Around, N
<1>11. QED
  BY <1>6, <1>10 DEF ks2, ts2, a, e, N

(* No colour comes back in a chain of distinctly coloured ranges.          *)
LEMMA ChainReturns ==
    ASSUME NEW s, NEW a, NEW e, NEW c, Chained(s, a, e), Coloured(s, c), Apart(s, c)
    PROVE  NoReturn(c, a, e)
<1> DEFINE k == Len(s)
<1>1. SUFFICES ASSUME NEW i \in a .. e - 1, NEW j \in a .. e - 1, i <= j, c[i] = c[j],
                      NEW m \in i .. j
               PROVE  c[m] = c[i]
  BY DEF NoReturn
<1>2. a \in Nat /\ e \in Nat /\ \A n \in 1 .. k : s[n].first \in Nat /\ s[n].next \in Nat
  BY DEF Chained
<1>3. \A n \in 1 .. k : \A x \in s[n].first .. s[n].next - 1 : c[x] = c[s[n].first]
  BY DEF Coloured
<1>4. PICK n \in 1 .. k : i \in s[n].first .. s[n].next - 1
  BY ChainCovers
<1>5. PICK l \in 1 .. k : j \in s[l].first .. s[l].next - 1
  BY ChainCovers
<1>6. l = n
  <2>1. c[s[l].first] = c[s[n].first]
    BY <1>1, <1>3, <1>4, <1>5
  <2>2. QED
    BY <2>1 DEF Apart
<1>7. m \in s[n].first .. s[n].next - 1
  BY <1>2, <1>4, <1>5, <1>6
<1>8. QED
  BY <1>3, <1>4, <1>7

(***************************************************************************)
(* A chapter run replaced by other verses of its key: its book is one       *)
(* again, rebuilt from where it stood.                                     *)
(***************************************************************************)
Regrown(ks, ks2, f, g, a, e, L, d) ==
    /\ \A i \in f .. a - 1 : ks2[i] = ks[i]
    /\ \A i \in a .. a + L - 1 : ks2[i] = ks[a]
    /\ \A i \in e .. g - 1 : ks2[i + d] = ks[i]

LEMMA ReturnsAfter ==
    ASSUME NEW ks, NEW f \in Nat, NEW g \in Nat, NoReturn(ks, f, g),
           NEW a \in Nat, NEW e \in Nat, f <= a, a < e, e <= g,
           NEW L \in Nat \ {0}, NEW d \in Int, a + L = e + d,
           NEW ks2, Regrown(ks, ks2, f, g, a, e, L, d)
    PROVE  NoReturn(ks2, f, g + d)
<1> DEFINE old(i) == IF i < a THEN i ELSE IF i < a + L THEN a ELSE i - d
<1>1. /\ d \in Int /\ a + L = e + d
      /\ \A i \in f .. a - 1 : ks2[i] = ks[i]
      /\ \A i \in a .. a + L - 1 : ks2[i] = ks[a]
      /\ \A i \in e .. g - 1 : ks2[i + d] = ks[i]
  BY DEF Regrown
<1>2. ASSUME NEW i \in f .. (g + d) - 1
      PROVE  old(i) \in f .. g - 1 /\ ks2[i] = ks[old(i)]
  <2>1. i \in Int /\ f <= i /\ i < g + d
    BY <1>1
  <2>2. CASE i < a
    <3>1. i \in f .. a - 1 /\ i \in f .. g - 1 /\ old(i) = i
      BY <2>1, <2>2
    <3>2. QED
      BY <1>1, <3>1
  <2>3. CASE a <= i /\ i < a + L
    <3>1. i \in a .. a + L - 1 /\ old(i) = a /\ a \in f .. g - 1
      BY <2>1, <2>3
    <3>2. QED
      BY <1>1, <3>1
  <2>4. CASE a + L <= i
    <3>1. i - d \in e .. g - 1 /\ (i - d) + d = i /\ i - d \in f .. g - 1
      BY <1>1, <2>1, <2>4
    <3>2. old(i) = i - d
      BY <2>1, <2>4
    <3> HIDE DEF old
    <3>3. QED
      BY <1>1, <3>1, <3>2
  <2>5. QED
    BY <2>1, <2>2, <2>3, <2>4
<1>3. ASSUME NEW i \in f .. (g + d) - 1, NEW j \in f .. (g + d) - 1, i <= j
      PROVE  old(i) <= old(j)
  <2>1. i \in Int /\ j \in Int
    BY <1>1
  <2>2. QED
    BY <1>1, <1>3, <2>1
<1> HIDE DEF old
<1>4. SUFFICES ASSUME NEW i \in f .. (g + d) - 1, NEW j \in f .. (g + d) - 1,
                      i <= j, ks2[i] = ks2[j], NEW m \in i .. j
               PROVE  ks2[m] = ks2[i]
  BY DEF NoReturn
<1>5. m \in f .. (g + d) - 1 /\ i <= m /\ m <= j
  BY <1>1
<1>6. old(i) \in f .. g - 1 /\ old(j) \in f .. g - 1 /\ old(m) \in f .. g - 1
      /\ old(i) <= old(m) /\ old(m) <= old(j)
  BY <1>2, <1>3, <1>4, <1>5
<1>7. ks2[i] = ks[old(i)] /\ ks2[j] = ks[old(j)] /\ ks2[m] = ks[old(m)]
  BY <1>2, <1>5
<1>8. old(m) \in old(i) .. old(j) /\ old(i) <= old(j)
  BY <1>6
<1>9. ks[old(i)] = ks[old(j)]
  BY <1>4, <1>7
<1>10. ks[old(m)] = ks[old(i)]
  BY <1>6, <1>8, <1>9 DEF NoReturn
<1>11. QED
  BY <1>7, <1>10

(* What a run of replace_chapter brings: verses of that key, at least one. *)
IsRunOf(nk, nt, key) ==
    IsCorpus(nk, nt) /\ Len(nk) # 0 /\ \A i \in 1 .. Len(nk) : nk[i] = key

IsChapterOf(run, b) == \E m \in 1 .. Len(b.chapters) : b.chapters[m] = run

IsSpliced(ks2, ts2, ks, ts, run, nk, nt) ==
    ks2 = Splice(ks, run, nk) /\ ts2 = Splice(ts, run, nt)

LEMMA BookRespliced ==
    ASSUME NEW ks, NEW ts, IsCorpus(ks, ts), NEW books, IsLayout(books, ks, ts),
           NEW n \in 1 .. Len(books), NEW run, IsChapterOf(run, books[n]),
           NEW nk, NEW nt, IsRunOf(nk, nt, ks[run.first]),
           NEW d \in Int, run.first + Len(nk) = run.next + d,
           NEW ks2, NEW ts2, IsSpliced(ks2, ts2, ks, ts, run, nk, nt)
    PROVE  /\ IsCorpus(ks2, ts2) /\ Around(ks, ts, ks2, ts2, books[n], d)
           /\ InItsPlace(<<BuildBookAt(ks2, ts2, books[n].first)>>, ks2, ts2, books[n], d)
           /\ BuildBookAt(ks2, ts2, books[n].first).first = books[n].first
           /\ BuildBookAt(ks2, ts2, books[n].first).next = books[n].next + d
<1> DEFINE b == books[n]
           f == b.first
           g == b.next
           a == run.first
           e == run.next
           N == Len(ks)
           L == Len(nk)
<1>1. IsBook(b, ks, ts) /\ Ends(b, ks)
  BY BookEnds DEF IsLayout
<1>2. /\ b \in BookRecords /\ N \in Nat
      /\ f \in 1 .. N /\ g \in f + 1 .. N + 1 /\ f \in Nat /\ g \in Nat
      /\ \A i \in f .. g - 1 : ks[i].book = b.slug
      /\ Chained(b.chapters, f, g) /\ Coloured(b.chapters, ks) /\ Apart(b.chapters, ks)
  <2>1. N \in Nat
    BY DEF IsCorpus
  <2>2. /\ b \in BookRecords /\ f \in 1 .. N /\ g \in f + 1 .. N + 1
        /\ \A i \in f .. g - 1 : ks[i].book = b.slug
        /\ Chained(b.chapters, f, g) /\ Coloured(b.chapters, ks) /\ Apart(b.chapters, ks)
    BY <1>1 DEF IsBook
  <2>3. f \in Nat /\ g \in Nat
    BY <2>2 DEF Chained
  <2>4. QED
    BY <2>1, <2>2, <2>3
<1>3. /\ a \in Nat /\ e \in Nat /\ a < e /\ f <= a /\ e <= g
  <2>1. PICK m \in 1 .. Len(b.chapters) : b.chapters[m] = run
    BY DEF IsChapterOf
  <2>2. f <= b.chapters[m].first /\ b.chapters[m].next <= g
    BY <1>2, ChainOrder
  <2>3. b.chapters[m].first \in Nat /\ b.chapters[m].next \in Nat
        /\ b.chapters[m].first < b.chapters[m].next
    BY <1>2 DEF Chained
  <2>4. QED
    BY <2>1, <2>2, <2>3
<1>4. /\ IsCorpus(nk, nt) /\ L \in Nat \ {0} /\ \A i \in 1 .. L : nk[i] = ks[a]
  BY DEF IsRunOf, IsCorpus
<1>5. a \in 1 .. N /\ e \in a .. N + 1 /\ a + L = e + d /\ L - (e - a) = d
  <2>1. a + L = e + d
    OBVIOUS
  <2> HIDE DEF a, e, N, L, b, f, g
  <2>2. f \in Nat /\ 1 <= f /\ g \in Nat /\ g <= N + 1 /\ L \in Nat
    BY <1>2, <1>4
  <2>3. a \in Nat /\ e \in Nat /\ a < e /\ f <= a /\ e <= g /\ N \in Nat
    BY <1>2, <1>3
  <2>4. L - (e - a) = d
    BY <2>1, <2>2, <2>3
  <2>5. a \in 1 .. N /\ e \in a .. N + 1
    BY <2>2, <2>3
  <2>6. QED
    BY <2>1, <2>4, <2>5
<1>6. IsCorpus(ks2, ts2) /\ Around(ks, ts, ks2, ts2, b, d)
  <2>1. b.first \in Nat /\ b.next \in Nat /\ 1 <= b.first
        /\ b.first <= run.first /\ run.next <= b.next /\ b.next <= Len(ks) + 1
    BY <1>2, <1>3
  <2>2. run.first \in 1 .. Len(ks) /\ run.next \in run.first .. Len(ks) + 1
    BY <1>5
  <2> HIDE DEF b
  <2>3. QED
    BY <1>4, <2>1, <2>2, SpliceFinds DEF IsSpliced
<1>7. IsSplice(ks2, ks, nk, a, e, Key)
  BY <1>4, <1>5, SpliceIs DEF IsCorpus, IsSpliced
<1>8. Len(ks2) = N + d /\ ks2 \in Seq(Key)
  BY <1>6 DEF Around, IsCorpus
<1> HIDE DEF a, e, N, L, b, f, g
<1>0. /\ f \in Nat /\ 1 <= f /\ f <= a /\ a \in Nat /\ a < e /\ e \in Nat /\ e <= g
      /\ g \in Nat /\ g <= N + 1 /\ N \in Nat /\ L \in Nat /\ L >= 1
      /\ a + L = e + d /\ d \in Int /\ Len(ks2) = N + d
  BY <1>2, <1>3, <1>4, <1>5, <1>8
<1> HIDE DEF IsLayout, IsRunOf, IsCorpus
<1>9. /\ \A i \in f .. a - 1 : ks2[i] = ks[i]
      /\ \A i \in a .. a + L - 1 : ks2[i] = ks[a]
      /\ \A i \in e .. g - 1 : ks2[i + d] = ks[i]
  <2>1. \A i \in f .. a - 1 : i \in 1 .. a - 1
    BY <1>2, <1>3
  <2>2. \A i \in e .. g - 1 : i \in e .. N
    BY <1>2, <1>3
  <2>3. /\ \A i \in 1 .. a - 1 : ks2[i] = ks[i]
        /\ \A i \in 1 .. L : ks2[(a - 1) + i] = nk[i]
        /\ \A i \in e .. N : ks2[i + (L - (e - a))] = ks[i]
    BY <1>7 DEF IsSplice, L, N
  <2>4. ASSUME NEW i \in a .. a + L - 1
        PROVE  ks2[i] = ks[a]
    <3> DEFINE j == (i - a) + 1
    <3>1. j \in 1 .. L /\ (a - 1) + j = i
      BY <1>0
    <3> HIDE DEF j
    <3>2. ks2[(a - 1) + j] = nk[j] /\ nk[j] = ks[a]
      BY <1>4, <2>3, <3>1
    <3>3. QED
      BY <3>1, <3>2
  <2>5. QED
    BY <1>5, <2>1, <2>2, <2>3, <2>4
<1>10. NoReturn(ks2, f, g + d)
  <2>1. NoReturn(ks, f, g)
    BY <1>2, ChainReturns
  <2>2. L \in Nat \ {0} /\ a + L = e + d
    BY <1>0
  <2>3. Regrown(ks, ks2, f, g, a, e, L, d)
    BY <1>9 DEF Regrown
  <2>4. QED
    BY <1>0, <2>1, <2>2, <2>3, ReturnsAfter
<1>11. f \in 1 .. Len(ks2) /\ g + d \in f + 1 .. Len(ks2) + 1
  BY <1>0
<1>12. \A i \in f .. (g + d) - 1 : ks2[i].book = b.slug
  <2>1. SUFFICES ASSUME NEW i \in f .. (g + d) - 1
                 PROVE  ks2[i].book = b.slug
    OBVIOUS
  <2>2. i \in Int /\ f <= i /\ i < g + d /\ a + L = e + d
    BY <1>0
  <2>3. CASE i < a
    <3>1. i \in f .. a - 1 /\ i \in f .. g - 1
      BY <1>0, <2>2, <2>3
    <3>2. QED
      BY <1>2, <1>9, <3>1
  <2>4. CASE a <= i /\ i < a + L
    <3>1. i \in a .. a + L - 1 /\ a \in f .. g - 1
      BY <1>0, <2>2, <2>4
    <3>2. QED
      BY <1>2, <1>9, <3>1
  <2>5. CASE a + L <= i
    <3>1. i - d \in e .. g - 1 /\ i - d \in f .. g - 1 /\ (i - d) + d = i
      BY <1>0, <2>2, <2>5
    <3>2. ks2[(i - d) + d] = ks[i - d] /\ ks[i - d].book = b.slug
      BY <1>2, <1>9, <3>1
    <3>3. QED
      BY <3>1, <3>2
  <2>6. QED
    BY <1>0, <2>2, <2>3, <2>4, <2>5
<1>13. PICK p : IsBook(p, ks2, ts2) /\ p.first = f /\ p.next = g + d
  <2> DEFINE h == g + d
  <2>1. f \in 1 .. Len(ks2) /\ h \in f + 1 .. Len(ks2) + 1 /\ NoReturn(ks2, f, h)
    BY <1>10, <1>11
  <2>2. \A i \in f .. h - 1 : ks2[i].book = ks2[f].book
    <3>1. f \in f .. h - 1
      BY <1>0, <2>1
    <3>2. QED
      BY <1>12, <3>1
  <2> HIDE DEF h
  <2>3. \E p : IsBook(p, ks2, ts2) /\ p.first = f /\ p.next = h
    BY <1>6, <2>1, <2>2, BookExists
  <2>4. QED
    BY <2>3 DEF h
<1>14. p.slug = b.slug
  <2>1. f \in f .. (g + d) - 1
    BY <1>0
  <2>2. ks2[f].book = p.slug
    BY <1>13, <2>1 DEF IsBook
  <2>3. QED
    BY <1>12, <2>1, <2>2
<1>15. Ends(p, ks2)
  <2>1. SUFFICES ASSUME g + d <= Len(ks2)
                 PROVE  ks2[g + d].book # b.slug
    BY <1>13, <1>14 DEF Ends
  <2>2. g \in g .. (N + 1) - 1 /\ g <= N
    BY <1>0, <2>1
  <2>3. ks2[g + d] = ks[g]
    BY <1>6, <2>2 DEF Around, Found, g, N
  <2>4. ks[g].book # b.slug
    BY <1>1, <2>2 DEF Ends, g, N
  <2>5. QED
    BY <2>3, <2>4
<1>16. BuildBookAt(ks2, ts2, f) = p
  <2>1. ks2 \in Seq(Key) /\ ts2 \in Seq(Texts)
    BY <1>6 DEF IsCorpus
  <2>2. BuildBookAt(ks2, ts2, p.first) = p
    BY <1>13, <1>15, <2>1, BookIsBuilt
  <2>3. QED
    BY <1>13, <2>2
<1>17. InItsPlace(<<p>>, ks2, ts2, b, d)
  <2>1. p \in BookRecords /\ p.first \in Nat /\ p.next \in Nat /\ p.first < p.next
    <3>1. p \in BookRecords
      BY <1>13 DEF IsBook
    <3>2. f < g + d /\ f \in Nat /\ g + d \in Nat
      BY <1>0
    <3>3. QED
      BY <1>13, <3>1, <3>2
  <2>2. Chained(<<p>>, f, g + d)
    <3>1. Chained(<<p>>, p.first, p.next)
      BY <2>1, ChainOfOne
    <3>2. QED
      BY <1>13, <3>1
  <2>3. <<p>> \in Seq(BookRecords) /\ Len(<<p>>) = 1 /\ \A l \in 1 .. 1 : <<p>>[l] = p
    BY <2>1
  <2>4. QED
    BY <1>13, <1>14, <2>2, <2>3 DEF InItsPlace, f, g
<1>18. QED
  BY <1>6, <1>13, <1>16, <1>17 DEF b, f, g

(***************************************************************************)
(* A book removed: the verses that name it are its range.                  *)
(***************************************************************************)
Naming(ks, slug) == { i \in DOMAIN ks : ks[i].book = slug }

LEMMA BookNamed ==
    ASSUME NEW ks, NEW ts, IsCorpus(ks, ts), NEW books, IsLayout(books, ks, ts),
           NEW n \in 1 .. Len(books)
    PROVE  Naming(ks, books[n].slug) = books[n].first .. books[n].next - 1
<1> DEFINE N == Len(ks)
           k == Len(books)
<1>1. /\ ks \in Seq(Key) /\ N \in Nat /\ DOMAIN ks = 1 .. N /\ (N + 1) - 1 = N
      /\ Chained(books, 1, N + 1)
      /\ \A m \in 1 .. k : IsBook(books[m], ks, ts)
      /\ \A l, m \in 1 .. k : books[l].slug = books[m].slug => l = m
  BY DEF IsCorpus, IsLayout
<1>2. \A m \in 1 .. k : \A i \in books[m].first .. books[m].next - 1 : ks[i].book = books[m].slug
  BY <1>1 DEF IsBook
<1>3. ASSUME NEW i \in 1 .. N, ks[i].book = books[n].slug
      PROVE  i \in books[n].first .. books[n].next - 1
  <2>1. i \in 1 .. (N + 1) - 1
    BY <1>1
  <2> DEFINE g == N + 1
  <2>2. PICK m \in 1 .. k : i \in books[m].first .. books[m].next - 1
    <3>1. Chained(books, 1, g) /\ i \in 1 .. g - 1
      BY <1>1, <2>1
    <3> HIDE DEF g
    <3>2. QED
      BY <3>1, ChainCovers
  <2>3. m = n
    BY <1>1, <1>2, <1>3, <2>2
  <2>4. QED
    BY <2>2, <2>3
<1>4. ASSUME NEW i \in books[n].first .. books[n].next - 1
      PROVE  i \in 1 .. N
  <2>1. books[n].first \in 1 .. N /\ books[n].next \in books[n].first + 1 .. N + 1
    BY <1>1 DEF IsBook
  <2>2. QED
    BY <1>1, <2>1
<1>5. QED
  BY <1>1, <1>2, <1>3, <1>4 DEF Naming

LEMMA FirstOfRange ==
    ASSUME NEW f \in Nat, NEW g \in Nat, f < g
    PROVE  Nth(f .. g - 1, 1) = f
<1> DEFINE S == f .. g - 1
           k == g - f
           s == [n \in 1 .. k |-> f + n - 1]
<1>1. k \in Nat /\ 1 \in 1 .. k /\ S \in SUBSET Int
  OBVIOUS
<1>2. Enumerates(s, k, S)
  <2>1. \A n \in 1 .. k : s[n] = f + n - 1 /\ f + n - 1 \in S
    BY <1>1
  <2>2. s \in [1 .. k -> S]
    BY <2>1
  <2>3. \A a, b \in 1 .. k : a < b => s[a] < s[b]
    BY <1>1, <2>1
  <2>4. ASSUME NEW i \in S
        PROVE  \E n \in 1 .. k : s[n] = i
    <3> DEFINE n == (i - f) + 1
    <3>1. n \in 1 .. k /\ f + n - 1 = i
      OBVIOUS
    <3> HIDE DEF n, s, k, S
    <3>2. QED
      BY <2>1, <3>1
  <2> HIDE DEF s, k, S
  <2>5. QED
    BY <2>2, <2>3, <2>4 DEF Enumerates
<1> HIDE DEF S, k
<1>3. s[1] = f
  BY <1>1
<1> HIDE DEF s
<1>4. Ordered(S) = s
  BY <1>1, <1>2, OrderedIs
<1>5. Cardinality(S) = k
  BY <1>1, <1>2, EnumeratedCount
<1>6. Ordered(S)[1] = Nth(S, 1)
  BY <1>1, <1>5 DEF Ordered
<1>7. QED
  BY <1>3, <1>4, <1>6 DEF S

LEMMA BookRemoved ==
    ASSUME NEW ks, NEW ts, IsCorpus(ks, ts), NEW books, IsLayout(books, ks, ts),
           NEW n \in 1 .. Len(books)
    PROVE  LET run == [first |-> books[n].first, next |-> books[n].next]
               d == books[n].first - books[n].next
               ks2 == Splice(ks, run, << >>)
               ts2 == Splice(ts, run, << >>)
           IN /\ books[n].first + Cardinality(BookRun(ks, books[n].first)) = books[n].next
              /\ Nth(Naming(ks, books[n].slug), 1) = books[n].first
              /\ d \in Int /\ books[n].next + d = books[n].first /\ d < 0
              /\ IsCorpus(ks2, ts2)
              /\ Around(ks, ts, ks2, ts2, books[n], d)
              /\ InItsPlace(<< >>, ks2, ts2, books[n], d)
<1> DEFINE b == books[n]
           f == b.first
           g == b.next
           run == [first |-> f, next |-> g]
           ks2 == Splice(ks, run, << >>)
           ts2 == Splice(ts, run, << >>)
           N == Len(ks)
           d == f - g
<1>1. IsBook(b, ks, ts) /\ Ends(b, ks)
  BY BookEnds DEF IsLayout
<1>2. /\ ks \in Seq(Key) /\ N \in Nat /\ f \in Nat /\ g \in Nat
      /\ f \in 1 .. N /\ g \in f + 1 .. N + 1
      /\ \A i \in f .. g - 1 : ks[i].book = b.slug
      /\ g <= N => ks[g].book # b.slug
  BY <1>1 DEF IsBook, Ends, IsCorpus
<1>3. f + Cardinality(BookRun(ks, f)) = g
  <2>1. f \in f .. g - 1
    BY <1>2
  <2>2. /\ \A i \in f .. g - 1 : ks[i].book = ks[f].book
        /\ g <= N => ks[g].book # ks[f].book
    BY <1>2, <2>1
  <2> HIDE DEF f, g, N
  <2>3. QED
    BY <1>2, <2>2, BookRunIs DEF N
<1>4. Nth(Naming(ks, b.slug), 1) = f
  <2>1. Naming(ks, b.slug) = f .. g - 1
    BY BookNamed
  <2>2. f < g
    BY <1>2
  <2> HIDE DEF f, g
  <2>3. QED
    BY <1>2, <2>1, <2>2, FirstOfRange
<1>5. d \in Int /\ g + d = f /\ d < 0
  <2> HIDE DEF f, g
  <2>1. QED
    BY <1>2
<1> HIDE DEF f, g, d
<1>6. IsCorpus(<< >>, << >>) /\ Len(<< >>) = 0
  BY DEF IsCorpus
<1>7. /\ run.first \in 1 .. N /\ run.next \in run.first .. N + 1
      /\ run.first + Len(<< >>) = run.next + d
      /\ run.first = f /\ run.next = g
  BY <1>2, <1>5
<1> DEFINE none == << >>
<1>8. /\ IsCorpus(ks2, ts2)
      /\ Around(ks, ts, ks2, ts2, b, d)
  <2>1. IsCorpus(none, none) /\ run.first + Len(none) = run.next + d
    BY <1>6, <1>7
  <2>2. /\ b.first \in Nat /\ b.next \in Nat /\ 1 <= b.first
        /\ b.first <= run.first /\ run.next <= b.next /\ b.next <= Len(ks) + 1
    BY <1>2, <1>7 DEF f, g
  <2>3. ks2 = Splice(ks, run, none) /\ ts2 = Splice(ts, run, none)
    OBVIOUS
  <2>4. run.first \in 1 .. Len(ks) /\ run.next \in run.first .. Len(ks) + 1
    BY <1>7
  <2> HIDE DEF none, run, ks2, ts2, b
  <2>5. QED
    BY <1>5, <2>1, <2>2, <2>3, <2>4, SpliceFinds
<1>9. InItsPlace(<< >>, ks2, ts2, b, d)
  <2>1. Chained(<< >>, f, f)
    BY <1>2 DEF Chained
  <2>2. Chained(<< >>, b.first, b.next + d)
    BY <1>5, <2>1 DEF f, g
  <2> HIDE DEF ks2, ts2, b
  <2>3. QED
    BY <2>2 DEF InItsPlace
<1>10. QED
  BY <1>3, <1>4, <1>5, <1>8, <1>9 DEF f, g, d

(***************************************************************************)
(* A corpus built up piece by piece: what is spliced so far has a layout,   *)
(* and one more piece appends one more book to it.                         *)
(***************************************************************************)
IsFresh(piece, slug) ==
    /\ piece.carried = << >>
    /\ Len(piece.keys) <= MaxBook
    /\ \A i \in 1 .. Len(piece.keys) : piece.keys[i].book = slug
    /\ NoReopenedChapter(piece.keys)

IsCarried(piece, slug, ks, ts) ==
    \E b : /\ piece.carried = <<b>> /\ b.slug = slug
           /\ IsBook(b, ks, ts) /\ Width(b) <= MaxBook
           /\ piece.keys = Slice(ks, b) /\ piece.texts = Slice(ts, b)

IsPiece(piece, slug, ks, ts) ==
    /\ IsCorpus(piece.keys, piece.texts) /\ Len(piece.keys) # 0
    /\ IsFresh(piece, slug) \/ IsCarried(piece, slug, ks, ts)

Grown(ks3, ts3, ks2, ts2, piece) == ks3 = ks2 \o piece.keys /\ ts3 = ts2 \o piece.texts

(* The book a piece adds to the verses before it.                          *)
LaidOf(piece, ks2, ks3, ts3) ==
    IF piece.carried # << >> THEN ShiftBook(piece.carried[1], Len(ks2) + 1)
    ELSE BuildBookAt(ks3, ts3, Len(ks2) + 1)

IsLaid(q, slug, ks2, ks3, ts3) ==
    /\ IsBook(q, ks3, ts3) /\ q.slug = slug /\ Width(q) <= MaxBook
    /\ q.first = Len(ks2) + 1 /\ q.next = Len(ks3) + 1

LEMMA GrownIs ==
    ASSUME NEW ks2, NEW ts2, IsCorpus(ks2, ts2), NEW piece, IsCorpus(piece.keys, piece.texts),
           NEW ks3, NEW ts3, Grown(ks3, ts3, ks2, ts2, piece)
    PROVE  /\ IsCorpus(ks3, ts3) /\ Len(ks3) = Len(ks2) + Len(piece.keys)
           /\ Found(ks2, ts2, ks3, ts3, 1, Len(ks2) + 1, 0)
           /\ \A i \in 1 .. Len(piece.keys) : /\ ks3[Len(ks2) + i] = piece.keys[i]
                                              /\ ts3[Len(ks2) + i] = piece.texts[i]
<1> DEFINE N == Len(ks2)
           L == Len(piece.keys)
<1>1. /\ ks2 \in Seq(Key) /\ ts2 \in Seq(Texts) /\ Len(ts2) = N /\ N \in Nat
      /\ piece.keys \in Seq(Key) /\ piece.texts \in Seq(Texts) /\ Len(piece.texts) = L /\ L \in Nat
  BY DEF IsCorpus
<1>2. IsJoin(ks3, ks2, piece.keys, Key)
  BY <1>1, Joined DEF Grown
<1>3. IsJoin(ts3, ts2, piece.texts, Texts)
  BY <1>1, Joined DEF Grown
<1> HIDE DEF N, L
<1>4. /\ ks3 \in Seq(Key) /\ Len(ks3) = N + L
      /\ \A i \in 1 .. N : ks3[i] = ks2[i]
      /\ \A i \in 1 .. L : ks3[N + i] = piece.keys[i]
  BY <1>2 DEF IsJoin, N, L
<1>5. /\ ts3 \in Seq(Texts) /\ Len(ts3) = N + L
      /\ \A i \in 1 .. N : ts3[i] = ts2[i]
      /\ \A i \in 1 .. L : ts3[N + i] = piece.texts[i]
  BY <1>1, <1>3 DEF IsJoin
<1>6. IsCorpus(ks3, ts3)
  BY <1>4, <1>5 DEF IsCorpus
<1>7. Found(ks2, ts2, ks3, ts3, 1, N + 1, 0)
  <2>1. 1 <= 1 + 0 /\ (N + 1) + 0 <= Len(ks3) + 1 /\ (N + 1) - 1 = N
    BY <1>1, <1>4
  <2>2. ASSUME NEW i \in 1 .. N
        PROVE  ks3[i + 0] = ks2[i] /\ ts3[i + 0] = ts2[i]
    <3>1. i + 0 = i
      OBVIOUS
    <3>2. QED
      BY <1>4, <1>5, <3>1
  <2>3. QED
    BY <2>1, <2>2 DEF Found
<1>8. QED
  BY <1>4, <1>5, <1>6, <1>7 DEF N, L

LEMMA CarriedLaid ==
    ASSUME NEW ks, NEW ts, IsCorpus(ks, ts), NEW ks2, NEW ts2, IsCorpus(ks2, ts2),
           NEW piece, NEW slug, IsPiece(piece, slug, ks, ts), IsCarried(piece, slug, ks, ts),
           NEW ks3, NEW ts3, Grown(ks3, ts3, ks2, ts2, piece)
    PROVE  IsLaid(LaidOf(piece, ks2, ks3, ts3), slug, ks2, ks3, ts3)
<1> DEFINE N == Len(ks2)
           L == Len(piece.keys)
<1>1. PICK b : /\ piece.carried = <<b>> /\ b.slug = slug
               /\ IsBook(b, ks, ts) /\ Width(b) <= MaxBook
               /\ piece.keys = Slice(ks, b) /\ piece.texts = Slice(ts, b)
  BY DEF IsCarried
<1> DEFINE f == b.first
           g == b.next
           d == (N + 1) - f
<1>2. /\ IsCorpus(ks3, ts3) /\ Len(ks3) = N + L
      /\ \A i \in 1 .. L : ks3[N + i] = piece.keys[i] /\ ts3[N + i] = piece.texts[i]
  BY GrownIs DEF IsPiece
<1>3. /\ ks \in Seq(Key) /\ ts \in Seq(Texts) /\ Len(ts) = Len(ks) /\ Len(ks) \in Nat /\ N \in Nat
      /\ f \in 1 .. Len(ks) /\ g \in f + 1 .. Len(ks) + 1 /\ f \in Nat /\ g \in Nat
  BY <1>1 DEF IsBook, IsCorpus
<1> HIDE DEF N, L, f, g
<1>4. /\ L = g - f
      /\ \A i \in 1 .. g - f : piece.keys[i] = ks[f + i - 1] /\ piece.texts[i] = ts[f + i - 1]
  <2>1. f \in 1 .. Len(ks) + 1 /\ g \in f .. Len(ks) + 1
    BY <1>3
  <2>2. f \in 1 .. Len(ts) + 1 /\ g \in f .. Len(ts) + 1
    BY <1>3, <2>1
  <2>3. piece.keys = SubSeq(ks, f, g - 1) /\ piece.texts = SubSeq(ts, f, g - 1)
    BY <1>1 DEF Slice, f, g
  <2>4. /\ Len(SubSeq(ks, f, g - 1)) = g - f
        /\ \A i \in 1 .. g - f : SubSeq(ks, f, g - 1)[i] = ks[f + i - 1]
    BY <1>3, <2>1, SliceIn
  <2>5. \A i \in 1 .. g - f : SubSeq(ts, f, g - 1)[i] = ts[f + i - 1]
    BY <1>3, <2>2, SliceIn
  <2>6. QED
    BY <2>3, <2>4, <2>5 DEF L
<1>5. d \in Int /\ f + d = N + 1 /\ g + d = (N + L) + 1 /\ L > 0
  BY <1>3, <1>4
<1> HIDE DEF d
<1>6. Found(ks, ts, ks3, ts3, f, g, d)
  <2>1. 1 <= f + d /\ g + d <= Len(ks3) + 1
    BY <1>2, <1>3, <1>5
  <2>2. ASSUME NEW i \in f .. g - 1
        PROVE  ks3[i + d] = ks[i] /\ ts3[i + d] = ts[i]
    <3> DEFINE j == (i - f) + 1
    <3>1. j \in 1 .. g - f /\ N + j = i + d /\ f + j - 1 = i
      BY <1>3, <1>5
    <3> HIDE DEF j
    <3>2. ks3[N + j] = piece.keys[j] /\ ts3[N + j] = piece.texts[j]
      BY <1>2, <1>4, <3>1
    <3>3. piece.keys[j] = ks[f + j - 1] /\ piece.texts[j] = ts[f + j - 1]
      BY <1>4, <3>1
    <3>4. QED
      BY <3>1, <3>2, <3>3
  <2>3. QED
    BY <2>1, <2>2 DEF Found
<1>7. /\ IsBook(ShiftBook(b, f + d), ks3, ts3) /\ ShiftBook(b, f + d).first = f + d
      /\ ShiftBook(b, f + d).next = g + d /\ ShiftBook(b, f + d).slug = b.slug
  BY <1>1, <1>2, <1>5, <1>6, BookMoves DEF f, g
<1> DEFINE q == ShiftBook(b, f + d)
<1>8. LaidOf(piece, ks2, ks3, ts3) = q
  <2>1. piece.carried # << >> /\ piece.carried[1] = b
    BY <1>1
  <2>2. QED
    BY <1>5, <2>1 DEF LaidOf, N
<1> HIDE DEF q
<1>9. Width(q) <= MaxBook
  <2>1. q.first = f + d /\ q.next = g + d
    BY <1>7 DEF q
  <2>2. (g + d) - (f + d) = g - f
    BY <1>3, <1>5
  <2>3. Width(q) = g - f
    BY <2>1, <2>2 DEF Width
  <2>4. QED
    BY <1>1, <2>3 DEF Width, f, g
<1>10. IsLaid(q, slug, ks2, ks3, ts3)
  BY <1>1, <1>2, <1>5, <1>7, <1>9 DEF IsLaid, q, N
<1>11. QED
  BY <1>8, <1>10

LEMMA FreshLaid ==
    ASSUME NEW ks, NEW ts, NEW ks2, NEW ts2, IsCorpus(ks2, ts2),
           NEW piece, NEW slug, IsPiece(piece, slug, ks, ts), IsFresh(piece, slug),
           NEW ks3, NEW ts3, Grown(ks3, ts3, ks2, ts2, piece)
    PROVE  IsLaid(LaidOf(piece, ks2, ks3, ts3), slug, ks2, ks3, ts3)
<1> DEFINE N == Len(ks2)
           nk == piece.keys
           L == Len(nk)
           f == N + 1
           e == (N + L) + 1
<1>1. /\ IsCorpus(ks3, ts3) /\ Len(ks3) = N + L
      /\ \A i \in 1 .. L : ks3[N + i] = nk[i]
  BY GrownIs DEF IsPiece
<1>2. /\ ks3 \in Seq(Key) /\ ts3 \in Seq(Texts) /\ N \in Nat /\ L \in Nat /\ L # 0
      /\ DOMAIN nk = 1 .. L
  BY <1>1 DEF IsPiece, IsCorpus
<1>3. /\ piece.carried = << >> /\ L <= MaxBook
      /\ \A i \in 1 .. L : nk[i].book = slug
      /\ NoReopenedChapter(nk)
  BY DEF IsFresh
<1> HIDE DEF N, nk, L
<1>4. f \in 1 .. Len(ks3) /\ e \in f + 1 .. Len(ks3) + 1 /\ e = Len(ks3) + 1
  BY <1>1, <1>2
<1>5. ASSUME NEW i \in f .. e - 1
      PROVE  i - N \in 1 .. L /\ ks3[i] = nk[i - N]
  <2> DEFINE j == i - N
  <2>1. j \in 1 .. L /\ N + j = i
    BY <1>2
  <2> HIDE DEF j
  <2>2. ks3[N + j] = nk[j]
    BY <1>1, <2>1
  <2>3. QED
    BY <2>1, <2>2 DEF j
<1>6. \A i \in f .. e - 1 : ks3[i].book = slug
  BY <1>3, <1>5
<1>7. NoReturn(ks3, f, e)
  <2>1. SUFFICES ASSUME NEW i \in f .. e - 1, NEW j \in f .. e - 1, i <= j, ks3[i] = ks3[j],
                        NEW m \in i .. j
                 PROVE  ks3[m] = ks3[i]
    BY DEF NoReturn
  <2>2. m \in f .. e - 1 /\ i - N <= j - N /\ m - N \in i - N .. j - N
    BY <1>2
  <2>3. nk[i - N] = nk[j - N] /\ i - N \in DOMAIN nk /\ j - N \in DOMAIN nk
    BY <1>2, <1>5, <2>1
  <2>4. j - N \in ChapterRun(nk, i - N)
    BY <1>3, <2>2, <2>3 DEF NoReopenedChapter
  <2>5. nk[m - N] = nk[i - N]
    BY <2>2, <2>4 DEF ChapterRun
  <2>6. QED
    BY <1>5, <2>2, <2>5
<1> HIDE DEF f, e
<1>8. PICK p : IsBook(p, ks3, ts3) /\ p.first = f /\ p.next = e
  <2>1. f \in f .. e - 1
    BY <1>4
  <2>2. \A i \in f .. e - 1 : ks3[i].book = ks3[f].book
    BY <1>6, <2>1
  <2>3. QED
    BY <1>1, <1>4, <1>7, <2>2, BookExists
<1>9. Ends(p, ks3)
  <2>1. ~ (e <= Len(ks3))
    BY <1>1, <1>2, <1>4
  <2>2. QED
    BY <1>8, <2>1 DEF Ends
<1>10. BuildBookAt(ks3, ts3, f) = p
  <2>1. BuildBookAt(ks3, ts3, p.first) = p
    BY <1>2, <1>8, <1>9, BookIsBuilt
  <2>2. QED
    BY <1>8, <2>1
<1>11. LaidOf(piece, ks2, ks3, ts3) = p
  BY <1>3, <1>10 DEF LaidOf, f, N
<1>12. p.slug = slug
  <2>1. f \in f .. e - 1
    BY <1>4
  <2>2. ks3[f].book = p.slug
    BY <1>8, <2>1 DEF IsBook
  <2>3. QED
    BY <1>6, <2>1, <2>2
<1>13. Width(p) <= MaxBook
  <2>1. e - f = L
    BY <1>2 DEF e, f
  <2>2. QED
    BY <1>3, <1>8, <2>1 DEF Width
<1>14. IsLaid(p, slug, ks2, ks3, ts3)
  BY <1>4, <1>8, <1>12, <1>13 DEF IsLaid, f, N
<1>15. QED
  BY <1>11, <1>14

LEMMA LayoutGrows ==
    ASSUME NEW ks2, NEW ts2, IsCorpus(ks2, ts2), NEW books, IsLayout(books, ks2, ts2),
           NEW ks3, NEW ts3, IsCorpus(ks3, ts3), Found(ks2, ts2, ks3, ts3, 1, Len(ks2) + 1, 0),
           NEW q, NEW slug, IsLaid(q, slug, ks2, ks3, ts3),
           \A m \in 1 .. Len(books) : books[m].slug # slug
    PROVE  IsLayout(Append(books, q), ks3, ts3)
<1> DEFINE k == Len(books)
           j == k + 1
           fresh == Append(books, q)
           h == Len(ks2) + 1
           e == Len(ks3) + 1
<1>1. /\ books \in Seq(BookRecords) /\ k \in Nat /\ Chained(books, 1, h) /\ h \in Nat
      /\ \A m \in 1 .. k : IsBook(books[m], ks2, ts2)
      /\ \A l, m \in 1 .. k : books[l].slug = books[m].slug => l = m
      /\ Len(ks3) \in Nat /\ e \in Nat
  BY DEF IsLayout, IsCorpus
<1>2. IsBook(q, ks3, ts3) /\ q.slug = slug /\ q.first = h /\ q.next = e
  BY DEF IsLaid
<1>3. q \in BookRecords /\ q.first < q.next
  <2>1. /\ q \in BookRecords /\ q.first \in 1 .. Len(ks3)
        /\ q.next \in q.first + 1 .. Len(ks3) + 1
    BY <1>2 DEF IsBook
  <2>2. QED
    BY <2>1
<1>4. /\ fresh \in Seq(BookRecords) /\ Len(fresh) = j /\ fresh[j] = q
      /\ \A m \in 1 .. k : fresh[m] = books[m]
  BY <1>1, <1>3
<1>5. \A m \in 1 .. j : m \in 1 .. k \/ m = j
  BY <1>1
<1>6. fresh = books \o <<q>>
  BY <1>1, <1>3
<1> HIDE DEF fresh, j, k, h, e
<1>7. Chained(fresh, 1, e)
  <2>1. h \in Nat /\ e \in Nat /\ h < e
    BY <1>1, <1>2, <1>3
  <2>2. Chained(<<q>>, h, e)
    <3>1. Chained(<<q>>, q.first, q.next)
      BY <1>2, <1>3, <2>1, ChainOfOne
    <3>2. QED
      BY <1>2, <3>1
  <2>3. <<q>> \in Seq(BookRecords)
    BY <1>3
  <2>4. Chained(books \o <<q>>, 1, e)
    BY <1>1, <2>2, <2>3, ChainJoin
  <2>5. QED
    BY <1>6, <2>4
<1>8. ASSUME NEW m \in 1 .. k
      PROVE  IsBook(books[m], ks3, ts3)
  <2> DEFINE b == books[m]
  <2>1. 1 <= b.first /\ b.next <= h
    BY <1>1, ChainOrder DEF k
  <2>2. b.first \in Nat /\ b.next \in Nat
    BY <1>1 DEF Chained, k
  <2>3. IsBook(b, ks2, ts2)
    BY <1>1
  <2> HIDE DEF b
  <2>4. Found(ks2, ts2, ks3, ts3, 1, h, 0)
    BY DEF h
  <2>5. Found(ks2, ts2, ks3, ts3, b.first, b.next, 0)
    <3>1. 1 \in Int /\ h \in Int /\ 0 \in Int
      BY <1>1
    <3>2. QED
      BY <1>1, <2>1, <2>2, <2>4, <3>1, FoundWithin
  <2>6. IsBook(b, ks3, ts3)
    BY <2>3, <2>5, BookStays
  <2>7. QED
    BY <2>6 DEF b
<1>9. \A m \in 1 .. j : IsBook(fresh[m], ks3, ts3)
  BY <1>2, <1>4, <1>5, <1>8
<1>10. \A l, m \in 1 .. j : fresh[l].slug = fresh[m].slug => l = m
  <2>1. \A m \in 1 .. k : books[m].slug # slug
    BY DEF k
  <2>2. QED
    BY <1>1, <1>2, <1>4, <1>5, <2>1
<1>11. IsLayout(fresh, ks3, ts3)
  BY <1>4, <1>7, <1>9, <1>10 DEF IsLayout, e
<1>12. QED
  BY <1>11 DEF fresh

(* FlattenSeq of the first n parts, one part at a time.                    *)
LEMMA PartsThrough ==
    ASSUME NEW T, NEW f, NEW n \in Nat, \A m \in 1 .. n + 1 : f[m] \in Seq(T)
    PROVE  FlattenSeq([m \in 1 .. n + 1 |-> f[m]]) = FlattenSeq([m \in 1 .. n |-> f[m]]) \o f[n + 1]
<1> DEFINE s == [m \in 1 .. n |-> f[m]]
           t == [m \in 1 .. n + 1 |-> f[m]]
           j == n + 1
<1>1. s \in Seq(Seq(T)) /\ Len(s) = n
  <2>1. \A m \in 1 .. n : m \in 1 .. n + 1
    OBVIOUS
  <2>2. s \in [1 .. n -> Seq(T)]
    BY <2>1
  <2>3. QED
    BY <2>2
<1>2. j \in 1 .. n + 1 /\ f[j] \in Seq(T)
  OBVIOUS
<1>3. t = Append(s, f[j])
  <2>1. Append(s, f[j]) \in Seq(Seq(T)) /\ Len(Append(s, f[j])) = j
    BY <1>1, <1>2
  <2>2. t \in Seq(Seq(T)) /\ Len(t) = j
    <3>1. t \in [1 .. j -> Seq(T)]
      OBVIOUS
    <3>2. QED
      BY <3>1
  <2>3. ASSUME NEW m \in 1 .. j
        PROVE  t[m] = Append(s, f[j])[m]
    <3>1. t[m] = f[m]
      OBVIOUS
    <3>2. CASE m \in 1 .. n
      <4>1. s[m] = f[m] /\ Append(s, f[j])[m] = s[m]
        BY <1>1, <1>2, <3>2
      <4>2. QED
        BY <3>1, <4>1
    <3>3. CASE m = j
      <4>1. Append(s, f[j])[j] = f[j]
        BY <1>1, <1>2
      <4>2. QED
        BY <3>1, <3>3, <4>1
    <3>4. QED
      BY <3>2, <3>3
  <2> HIDE DEF t, s, j
  <2>4. QED
    BY <2>1, <2>2, <2>3, SeqEqual
<1> HIDE DEF s, t
<1>4. FlattenSeq(t) = FlattenSeq(s) \o f[j]
  BY <1>1, <1>2, <1>3, FlattenedAppend
<1>5. QED
  BY <1>4 DEF s, t

(* What a piece brought is what its book holds, then and later.            *)
HoldsPiece(b, piece, ks2, ts2) ==
    Slice(ks2, b) = piece.keys /\ Slice(ts2, b) = piece.texts

LEMMA SliceStays ==
    ASSUME NEW T, NEW s \in Seq(T), NEW t \in Seq(T), NEW m \in 1 .. Len(s) + 1,
           NEW n \in m .. Len(s) + 1, n <= Len(t) + 1, \A i \in m .. n - 1 : t[i] = s[i]
    PROVE  SubSeq(t, m, n - 1) = SubSeq(s, m, n - 1)
<1>1. n \in m .. Len(t) + 1 /\ m \in 1 .. Len(t) + 1 /\ n - m \in Nat
  OBVIOUS
<1> DEFINE u == SubSeq(t, m, n - 1)
           v == SubSeq(s, m, n - 1)
<1>2. u \in Seq(T) /\ Len(u) = n - m /\ \A i \in 1 .. n - m : u[i] = t[m + i - 1]
  BY <1>1, SliceIn
<1>3. v \in Seq(T) /\ Len(v) = n - m /\ \A i \in 1 .. n - m : v[i] = s[m + i - 1]
  BY SliceIn
<1>4. \A i \in 1 .. n - m : m + i - 1 \in m .. n - 1
  BY <1>1
<1> HIDE DEF u, v
<1>5. \A i \in 1 .. n - m : u[i] = v[i]
  BY <1>2, <1>3, <1>4
<1>6. u = v
  BY <1>2, <1>3, <1>5, SeqEqual
<1>7. QED
  BY <1>6 DEF u, v

LEMMA HeldStays ==
    ASSUME NEW ks2, NEW ts2, IsCorpus(ks2, ts2), NEW b, IsBook(b, ks2, ts2),
           NEW ks3, NEW ts3, IsCorpus(ks3, ts3), Found(ks2, ts2, ks3, ts3, 1, Len(ks2) + 1, 0),
           NEW piece, HoldsPiece(b, piece, ks2, ts2)
    PROVE  HoldsPiece(b, piece, ks3, ts3)
<1> DEFINE f == b.first
           g == b.next
           N == Len(ks2)
<1>1. /\ ks2 \in Seq(Key) /\ ts2 \in Seq(Texts) /\ Len(ts2) = N /\ N \in Nat
      /\ ks3 \in Seq(Key) /\ ts3 \in Seq(Texts) /\ Len(ts3) = Len(ks3) /\ Len(ks3) \in Nat
      /\ f \in 1 .. N /\ g \in f + 1 .. N + 1
  BY DEF IsCorpus, IsBook
<1>2. /\ (N + 1) + 0 <= Len(ks3) + 1
      /\ \A i \in 1 .. (N + 1) - 1 : ks3[i + 0] = ks2[i] /\ ts3[i + 0] = ts2[i]
  BY DEF Found
<1> HIDE DEF f, g, N
<1>3. /\ f \in 1 .. N + 1 /\ g \in f .. N + 1 /\ g <= Len(ks3) + 1
      /\ \A i \in f .. g - 1 : i \in 1 .. (N + 1) - 1 /\ i + 0 = i
  BY <1>1, <1>2
<1>4. \A i \in f .. g - 1 : ks3[i] = ks2[i] /\ ts3[i] = ts2[i]
  <2>1. SUFFICES ASSUME NEW i \in f .. g - 1
                 PROVE  ks3[i] = ks2[i] /\ ts3[i] = ts2[i]
    OBVIOUS
  <2>2. i \in 1 .. (N + 1) - 1 /\ i + 0 = i
    BY <1>3
  <2>3. ks3[i + 0] = ks2[i] /\ ts3[i + 0] = ts2[i]
    BY <1>2, <2>2
  <2>4. QED
    BY <2>2, <2>3
<1>5. SubSeq(ks3, f, g - 1) = SubSeq(ks2, f, g - 1)
  BY <1>1, <1>3, <1>4, SliceStays DEF N
<1>6. SubSeq(ts3, f, g - 1) = SubSeq(ts2, f, g - 1)
  BY <1>1, <1>3, <1>4, SliceStays
<1>7. QED
  BY <1>5, <1>6 DEF HoldsPiece, Slice, f, g

LEMMA LaidHolds ==
    ASSUME NEW ks2, NEW ts2, IsCorpus(ks2, ts2), NEW piece, IsCorpus(piece.keys, piece.texts),
           NEW ks3, NEW ts3, Grown(ks3, ts3, ks2, ts2, piece),
           NEW q, NEW slug, IsLaid(q, slug, ks2, ks3, ts3)
    PROVE  HoldsPiece(q, piece, ks3, ts3)
<1> DEFINE N == Len(ks2)
           L == Len(piece.keys)
           f == N + 1
           e == (N + L) + 1
<1>1. /\ IsCorpus(ks3, ts3) /\ Len(ks3) = N + L
      /\ \A i \in 1 .. L : ks3[N + i] = piece.keys[i] /\ ts3[N + i] = piece.texts[i]
  BY GrownIs
<1>2. /\ ks3 \in Seq(Key) /\ ts3 \in Seq(Texts) /\ Len(ts3) = N + L /\ N \in Nat /\ L \in Nat
      /\ piece.keys \in Seq(Key) /\ piece.texts \in Seq(Texts) /\ Len(piece.texts) = L
  BY <1>1 DEF IsCorpus
<1>3. q.first = f /\ q.next = e
  BY <1>1 DEF IsLaid
<1> HIDE DEF N
<1>4. Len(piece.keys) = L
  OBVIOUS
<1> HIDE DEF L
<1>5. f \in 1 .. (N + L) + 1 /\ e \in f .. (N + L) + 1 /\ e - f = L
  BY <1>2
<1>6. \A i \in 1 .. L : f + i - 1 = N + i
  BY <1>2
<1> HIDE DEF f, e
<1> DEFINE u == SubSeq(ks3, f, e - 1)
           v == SubSeq(ts3, f, e - 1)
<1>7. u \in Seq(Key) /\ Len(u) = L /\ \A i \in 1 .. L : u[i] = ks3[f + i - 1]
  <2>1. f \in 1 .. Len(ks3) + 1 /\ e \in f .. Len(ks3) + 1
    BY <1>1, <1>5
  <2>2. /\ SubSeq(ks3, f, e - 1) \in Seq(Key) /\ Len(SubSeq(ks3, f, e - 1)) = e - f
        /\ \A i \in 1 .. e - f : SubSeq(ks3, f, e - 1)[i] = ks3[f + i - 1]
    BY <1>2, <2>1, SliceIn
  <2>3. QED
    BY <1>5, <2>2
<1>8. v \in Seq(Texts) /\ Len(v) = L /\ \A i \in 1 .. L : v[i] = ts3[f + i - 1]
  <2>1. f \in 1 .. Len(ts3) + 1 /\ e \in f .. Len(ts3) + 1
    BY <1>2, <1>5
  <2>2. /\ SubSeq(ts3, f, e - 1) \in Seq(Texts) /\ Len(SubSeq(ts3, f, e - 1)) = e - f
        /\ \A i \in 1 .. e - f : SubSeq(ts3, f, e - 1)[i] = ts3[f + i - 1]
    BY <1>2, <2>1, SliceIn
  <2>3. QED
    BY <1>5, <2>2
<1> HIDE DEF u, v
<1>9. \A i \in 1 .. L : u[i] = piece.keys[i] /\ v[i] = piece.texts[i]
  BY <1>1, <1>6, <1>7, <1>8
<1>10. u = piece.keys
  BY <1>2, <1>4, <1>7, <1>9, SeqEqual
<1>11. v = piece.texts
  BY <1>2, <1>8, <1>9, SeqEqual
<1>12. QED
  BY <1>3, <1>10, <1>11 DEF HoldsPiece, Slice, u, v

Laid(pieces, n) == [m \in 1 .. n |-> PieceLayout(pieces, m)]

Assembled(pieces, slugs, size, ks, ts) ==
    /\ \A n \in 1 .. size : IsPiece(pieces[n], slugs[n], ks, ts)
    /\ \A m, n \in 1 .. size : slugs[m] = slugs[n] => m = n

IsAssembly(pieces, slugs, n) ==
    /\ IsCorpus(KeysThrough(pieces, n), TextsThrough(pieces, n))
    /\ IsLayout(Laid(pieces, n), KeysThrough(pieces, n), TextsThrough(pieces, n))
    /\ \A m \in 1 .. n : /\ PieceLayout(pieces, m).slug = slugs[m]
                         /\ Width(PieceLayout(pieces, m)) <= MaxBook
                         /\ HoldsPiece(PieceLayout(pieces, m), pieces[m],
                                       KeysThrough(pieces, n), TextsThrough(pieces, n))

LEMMA PieceAssembled ==
    ASSUME NEW ks, NEW ts, IsCorpus(ks, ts), NEW size \in Nat, NEW pieces, NEW slugs,
           Assembled(pieces, slugs, size, ks, ts),
           NEW n \in 0 .. size - 1, IsAssembly(pieces, slugs, n)
    PROVE  IsAssembly(pieces, slugs, n + 1)
<1> DEFINE j == n + 1
           piece == pieces[j]
           slug == slugs[j]
           ks2 == KeysThrough(pieces, n)
           ts2 == TextsThrough(pieces, n)
           ks3 == KeysThrough(pieces, j)
           ts3 == TextsThrough(pieces, j)
           q == PieceLayout(pieces, j)
<1>1. n \in Nat /\ j \in Nat /\ j \in 1 .. size /\ j - 1 = n /\ (\A m \in 1 .. j : m \in 1 .. size)
      /\ (\A m \in 1 .. j : m \in 1 .. n \/ m = j) /\ (\A m \in 1 .. n : m # j /\ m \in 1 .. j)
  OBVIOUS
<1> HIDE DEF j
<1>2. IsPiece(piece, slug, ks, ts) /\ \A m \in 1 .. n : slugs[m] # slug
  BY <1>1 DEF Assembled
<1>3. /\ IsCorpus(ks2, ts2) /\ IsLayout(Laid(pieces, n), ks2, ts2)
      /\ \A m \in 1 .. n : /\ PieceLayout(pieces, m).slug = slugs[m]
                           /\ Width(PieceLayout(pieces, m)) <= MaxBook
                           /\ HoldsPiece(PieceLayout(pieces, m), pieces[m], ks2, ts2)
  BY DEF IsAssembly
<1>4. \A m \in 1 .. j : pieces[m].keys \in Seq(Key) /\ pieces[m].texts \in Seq(Texts)
  BY <1>1 DEF Assembled, IsPiece, IsCorpus
<1>5. ks3 = ks2 \o piece.keys
  <2> DEFINE f == [m \in 1 .. j |-> pieces[m].keys]
  <2>1. \A m \in 1 .. n + 1 : f[m] \in Seq(Key)
    BY <1>4 DEF j
  <2>2. FlattenSeq([m \in 1 .. n + 1 |-> f[m]]) = FlattenSeq([m \in 1 .. n |-> f[m]]) \o f[n + 1]
    <3> HIDE DEF f
    <3>1. QED
      BY <1>1, <2>1, PartsThrough
  <2>3. [m \in 1 .. n |-> f[m]] = [m \in 1 .. n |-> pieces[m].keys]
    BY <1>1
  <2>4. [m \in 1 .. n + 1 |-> f[m]] = [m \in 1 .. j |-> pieces[m].keys]
    BY DEF j
  <2>5. f[n + 1] = piece.keys
    BY <1>1 DEF j
  <2> HIDE DEF f
  <2>6. QED
    BY <2>2, <2>3, <2>4, <2>5 DEF KeysThrough
<1>6. ts3 = ts2 \o piece.texts
  <2> DEFINE f == [m \in 1 .. j |-> pieces[m].texts]
  <2>1. \A m \in 1 .. n + 1 : f[m] \in Seq(Texts)
    BY <1>4 DEF j
  <2>2. FlattenSeq([m \in 1 .. n + 1 |-> f[m]]) = FlattenSeq([m \in 1 .. n |-> f[m]]) \o f[n + 1]
    <3> HIDE DEF f
    <3>1. QED
      BY <1>1, <2>1, PartsThrough
  <2>3. [m \in 1 .. n |-> f[m]] = [m \in 1 .. n |-> pieces[m].texts]
    BY <1>1
  <2>4. [m \in 1 .. n + 1 |-> f[m]] = [m \in 1 .. j |-> pieces[m].texts]
    BY DEF j
  <2>5. f[n + 1] = piece.texts
    BY <1>1 DEF j
  <2> HIDE DEF f
  <2>6. QED
    BY <2>2, <2>3, <2>4, <2>5 DEF TextsThrough
<1>7. q = LaidOf(piece, ks2, ks3, ts3)
  BY <1>1 DEF PieceLayout, LaidOf
<1> HIDE DEF ks2, ts2, ks3, ts3, piece, slug, q
<1>8. Grown(ks3, ts3, ks2, ts2, piece)
  BY <1>5, <1>6 DEF Grown
<1>9. IsCorpus(ks3, ts3) /\ Found(ks2, ts2, ks3, ts3, 1, Len(ks2) + 1, 0)
  BY <1>2, <1>3, <1>8, GrownIs DEF IsPiece
<1>10. IsLaid(q, slug, ks2, ks3, ts3)
  <2>1. IsLaid(LaidOf(piece, ks2, ks3, ts3), slug, ks2, ks3, ts3)
    <3>1. CASE IsFresh(piece, slug)
      BY <1>2, <1>3, <1>8, <3>1, FreshLaid
    <3>2. CASE IsCarried(piece, slug, ks, ts)
      BY <1>2, <1>3, <1>8, <3>2, CarriedLaid
    <3>3. QED
      BY <1>2, <3>1, <3>2 DEF IsPiece
  <2>2. QED
    BY <1>7, <2>1
<1> DEFINE books == Laid(pieces, n)
<1>11. Len(books) = n /\ books \in Seq(BookRecords) /\ \A m \in 1 .. n : books[m] = PieceLayout(pieces, m)
  <2>1. books \in Seq(BookRecords)
    BY <1>3 DEF IsLayout
  <2>2. DOMAIN books = 1 .. n
    BY DEF Laid
  <2>3. Len(books) = n
    <3> HIDE DEF books
    <3>1. QED
      BY <1>1, <2>1, <2>2
  <2>4. QED
    BY <2>1, <2>3 DEF Laid
<1>12. Laid(pieces, j) = Append(books, q)
  <2>1. q \in BookRecords
    BY <1>10 DEF IsLaid, IsBook
  <2>2. Laid(pieces, j) = [m \in 1 .. j |-> PieceLayout(pieces, m)]
    BY DEF Laid
  <2> HIDE DEF books
  <2>3. /\ Append(books, q) \in Seq(BookRecords) /\ Len(Append(books, q)) = j
        /\ Append(books, q)[j] = q /\ \A m \in 1 .. n : Append(books, q)[m] = books[m]
    BY <1>1, <1>11, <2>1 DEF j
  <2>4. \A m \in 1 .. j : Append(books, q)[m] = PieceLayout(pieces, m)
    BY <1>1, <1>11, <2>3 DEF q
  <2> DEFINE more == Append(books, q)
  <2>5. more = [m \in 1 .. j |-> more[m]]
    <3>1. more \in Seq(BookRecords) /\ Len(more) = j
      BY <2>3
    <3> HIDE DEF more
    <3>2. QED
      BY <1>1, <3>1
  <2> HIDE DEF more
  <2>6. \A m \in 1 .. j : more[m] = PieceLayout(pieces, m)
    BY <2>4 DEF more
  <2>7. QED
    BY <2>2, <2>5, <2>6 DEF more
<1> HIDE DEF books
<1>13. IsLayout(Laid(pieces, j), ks3, ts3)
  <2>1. \A m \in 1 .. Len(books) : books[m].slug # slug
    BY <1>2, <1>3, <1>11
  <2>2. IsLayout(books, ks2, ts2)
    BY <1>3 DEF books
  <2>3. QED
    BY <1>3, <1>9, <1>10, <1>12, <2>1, <2>2, LayoutGrows
<1>14. \A m \in 1 .. j : /\ PieceLayout(pieces, m).slug = slugs[m]
                         /\ Width(PieceLayout(pieces, m)) <= MaxBook
  BY <1>1, <1>3, <1>10 DEF IsLaid, q, slug
<1>15. ASSUME NEW m \in 1 .. j
       PROVE  HoldsPiece(PieceLayout(pieces, m), pieces[m], ks3, ts3)
  <2>1. CASE m = j
    <3>1. HoldsPiece(q, piece, ks3, ts3)
      BY <1>2, <1>3, <1>8, <1>10, LaidHolds DEF IsPiece
    <3>2. QED
      BY <2>1, <3>1 DEF q, piece
  <2>2. CASE m \in 1 .. n
    <3> DEFINE b == books[m]
               part == pieces[m]
    <3>1. IsBook(b, ks2, ts2)
      <4>1. m \in 1 .. Len(books) /\ IsLayout(books, ks2, ts2)
        BY <1>3, <1>11, <2>2 DEF books
      <4>2. QED
        BY <4>1 DEF IsLayout
    <3>2. HoldsPiece(b, part, ks2, ts2)
      BY <1>3, <1>11, <2>2
    <3> HIDE DEF b, part
    <3>3. HoldsPiece(b, part, ks3, ts3)
      BY <1>3, <1>9, <3>1, <3>2, HeldStays
    <3>4. QED
      BY <1>11, <2>2, <3>3 DEF b, part
  <2>3. QED
    BY <1>1, <2>1, <2>2
<1>16. QED
  BY <1>9, <1>13, <1>14, <1>15 DEF IsAssembly, ks3, ts3, j

LEMMA PiecesLaid ==
    ASSUME NEW ks, NEW ts, IsCorpus(ks, ts), NEW size \in Nat, NEW pieces, NEW slugs,
           Assembled(pieces, slugs, size, ks, ts)
    PROVE  IsAssembly(pieces, slugs, size)
<1> DEFINE P == { n \in 0 .. size : IsAssembly(pieces, slugs, n) }
<1>1. IsAssembly(pieces, slugs, 0)
  <2>1. KeysThrough(pieces, 0) = << >> /\ TextsThrough(pieces, 0) = << >>
    <3>1. FlattenSeq(<< >>) = << >>
      <4>1. << >> \in Seq(Seq(Key)) /\ Len(<< >>) = 0
        OBVIOUS
      <4>2. PICK flat : IsFlattening(flat, Key, << >>)
        BY <4>1, FlattenedSteps
      <4>3. QED
        BY <4>1, <4>2 DEF IsFlattening
    <3>2. [m \in 1 .. 0 |-> pieces[m].keys] = << >> /\ [m \in 1 .. 0 |-> pieces[m].texts] = << >>
      OBVIOUS
    <3>3. QED
      BY <3>1, <3>2 DEF KeysThrough, TextsThrough
  <2>2. Laid(pieces, 0) = << >>
    BY DEF Laid
  <2>3. IsCorpus(<< >>, << >>) /\ Len(<< >>) = 0
    BY DEF IsCorpus
  <2>4. Chained(<< >>, 1, Len(<< >>) + 1)
    BY DEF Chained
  <2>5. IsLayout(<< >>, << >>, << >>)
    BY <2>4 DEF IsLayout
  <2>6. QED
    BY <2>1, <2>2, <2>3, <2>5 DEF IsAssembly
<1>2. 0 \in P
  BY <1>1
<1>3. \A n \in 0 .. size - 1 : n \in P => n + 1 \in P
  <2>1. SUFFICES ASSUME NEW n \in 0 .. size - 1, n \in P
                 PROVE  n + 1 \in P
    OBVIOUS
  <2>2. n + 1 \in 0 .. size
    OBVIOUS
  <2>3. IsAssembly(pieces, slugs, n + 1)
    BY <2>1, PieceAssembled
  <2>4. QED
    BY <2>2, <2>3
<1>4. 0 .. size \subseteq P
  <2> HIDE DEF P
  <2>1. QED
    BY <1>2, <1>3, UpTo
<1>5. size \in 0 .. size
  OBVIOUS
<1>6. QED
  BY <1>4, <1>5

(***************************************************************************)
(* The inductive invariant: the corpus is well formed, its layout tiles it  *)
(* with books of distinct slugs, and every index stays addressable.        *)
(***************************************************************************)
Sound(ks, ts, books) ==
    /\ IsCorpus(ks, ts) /\ IsLayout(books, ks, ts)
    /\ Len(ks) <= MaxVerses
    /\ \A n \in 1 .. Len(books) : Width(books[n]) <= MaxBook

Outcomes == {"Changed", "Unchanged", "Rejected"}

IInv == Sound(keys, texts, layout) /\ effect \in Outcomes

LEMMA InitSound ==
    ASSUME CorpusAssumption, Init
    PROVE  IInv
<1>1. Len(<< >>) = 0 /\ IsCorpus(<< >>, << >>)
  BY DEF IsCorpus
<1>2. Chained(<< >>, 1, 0 + 1)
  BY DEF Chained
<1>3. IsLayout(<< >>, << >>, << >>)
  BY <1>1, <1>2 DEF IsLayout
<1>4. Sound(<< >>, << >>, << >>)
  BY <1>1, <1>3 DEF Sound, CorpusAssumption
<1>5. QED
  BY <1>4 DEF Init, IInv, Outcomes

(* Keys that parse are keys.                                               *)
LEMMA ParsedKeys ==
    ASSUME NEW ks \in KeySeqs, Parses(ks)
    PROVE  ks \in Seq(Key)
<1>1. ks \in Seq(Key \cup {Malformed})
  BY DEF KeySeqs
<1>2. \A i \in 1 .. Len(ks) : ks[i] \in Key
  BY <1>1 DEF Parses
<1>3. QED
  BY <1>1, <1>2

(* The books of a sound layout.                                            *)
LEMMA SoundBooks ==
    ASSUME NEW ks, NEW ts, NEW books, Sound(ks, ts, books)
    PROVE  /\ IsCorpus(ks, ts) /\ IsLayout(books, ks, ts)
           /\ books \in Seq(BookRecords) /\ Len(books) \in Nat /\ DOMAIN books = 1 .. Len(books)
           /\ Len(ks) \in Nat
           /\ \A n \in 1 .. Len(books) : IsBook(books[n], ks, ts) /\ Width(books[n]) <= MaxBook
           /\ \A m, n \in 1 .. Len(books) : books[m].slug = books[n].slug => m = n
<1>1. IsCorpus(ks, ts) /\ IsLayout(books, ks, ts)
  BY DEF Sound
<1>2. books \in Seq(BookRecords) /\ Len(ks) \in Nat
  BY <1>1 DEF IsLayout, IsCorpus
<1>3. QED
  BY <1>1, <1>2 DEF Sound, IsLayout

(* try_from_parts builds a sound corpus of what it accepts.                *)
LEMMA AcceptedSound ==
    ASSUME CorpusAssumption, NEW held \in Corpora, Accepted(held.keys, held.texts)
    PROVE  Sound(held.keys, held.texts, BuildLayout(held.keys, held.texts))
<1> DEFINE ks == held.keys
           ts == held.texts
           books == BuildLayout(ks, ts)
<1>1. /\ Len(ks) = Len(ts) /\ Len(ks) <= MaxVerses /\ Parses(ks)
      /\ NoReopenedBook(ks) /\ NoReopenedChapter(ks)
      /\ \A i \in DOMAIN ks : Cardinality(BookRun(ks, i)) <= MaxBook
  BY DEF Accepted
<1>2. ks \in KeySeqs /\ ts \in Seq(Texts)
  BY DEF CorpusAssumption
<1>3. IsCorpus(ks, ts)
  BY <1>1, <1>2, ParsedKeys DEF IsCorpus
<1> HIDE DEF ks, ts
<1>4. IsLayout(books, ks, ts)
  BY <1>1, <1>3, LayoutExists
<1> HIDE DEF books
<1>5. ASSUME NEW n \in 1 .. Len(books)
      PROVE  Width(books[n]) <= MaxBook
  <2> DEFINE b == books[n]
             f == b.first
             g == b.next
  <2>1. IsBook(b, ks, ts)
    BY <1>4 DEF IsLayout
  <2>2. Ends(b, ks)
    BY <1>3, <1>4, BookEnds
  <2>3. /\ ks \in Seq(Key) /\ Len(ks) \in Nat /\ f \in Nat /\ g \in Nat /\ f < g
        /\ f \in 1 .. Len(ks) /\ g \in f + 1 .. Len(ks) + 1
        /\ \A i \in f .. g - 1 : ks[i].book = b.slug
        /\ g <= Len(ks) => ks[g].book # b.slug
    BY <1>3, <2>1, <2>2 DEF IsCorpus, IsBook, Ends
  <2> HIDE DEF b, f, g
  <2>4. f \in f .. g - 1
    BY <2>3
  <2>5. BookRun(ks, f) = f .. g - 1 /\ f + Cardinality(BookRun(ks, f)) = g
    <3>1. \A i \in f .. g - 1 : ks[i].book = ks[f].book
      BY <2>3, <2>4
    <3>2. g <= Len(ks) => ks[g].book # ks[f].book
      BY <2>3, <2>4
    <3>3. QED
      BY <2>3, <3>1, <3>2, BookRunIs
  <2>6. Cardinality(f .. g - 1) = g - f
    <3>1. f \in Int /\ g - 1 \in Int /\ ~ (f > g - 1) /\ (g - 1) - f + 1 = g - f
      BY <2>3
    <3>2. QED
      BY <3>1, FS_Interval
  <2>7. Cardinality(BookRun(ks, f)) <= MaxBook
    BY <1>1, <2>3
  <2>8. QED
    BY <2>5, <2>6, <2>7 DEF Width, f, g, b
<1>6. QED
  BY <1>1, <1>3, <1>4, <1>5 DEF Sound, ks, ts, books

(***************************************************************************)
(* What the mutations do, each as a change of a sound corpus.              *)
(***************************************************************************)
Kept == keys' = keys /\ texts' = texts /\ layout' = layout

(* A book replaced where it stood, or removed.                             *)
IsResplicing(n, mid, d) ==
    /\ layout' = Resplicing(layout, n, mid, d)
    /\ IsResplice(keys, texts, layout, keys', texts', n, mid, d)

LEMMA ResplicingSound ==
    ASSUME CorpusAssumption, Sound(keys, texts, layout), NEW n, NEW mid, NEW d,
           IsResplicing(n, mid, d),
           Len(keys') <= MaxVerses, \A i \in 1 .. Len(mid) : Width(mid[i]) <= MaxBook
    PROVE  Sound(keys', texts', layout') /\ \E old : IsDescent(old, layout', layout)
<1>1. /\ layout' = Resplicing(layout, n, mid, d) /\ IsCorpus(keys', texts')
      /\ IsResplice(keys, texts, layout, keys', texts', n, mid, d)
  BY DEF IsResplicing, IsResplice
<1>2. \A m \in 1 .. Len(layout) : Width(layout[m]) <= MaxBook
  BY DEF Sound
<1>3. IsRespliced(Resplicing(layout, n, mid, d), layout, keys', texts', mid)
  BY <1>1, LayoutAround
<1> DEFINE fresh == Resplicing(layout, n, mid, d)
<1> HIDE DEF fresh
<1>4. /\ IsLayout(fresh, keys', texts')
      /\ \E old : IsDescent(old, fresh, layout)
      /\ \A m \in 1 .. Len(fresh) :
           \/ \E i \in 1 .. Len(mid) : fresh[m] = mid[i]
           \/ \E i \in 1 .. Len(layout) : Width(fresh[m]) = Width(layout[i])
  BY <1>3 DEF IsRespliced, fresh
<1>5. \A m \in 1 .. Len(fresh) : Width(fresh[m]) <= MaxBook
  BY <1>2, <1>4
<1>6. layout' = fresh
  BY <1>1 DEF fresh
<1>7. QED
  BY <1>1, <1>4, <1>5, <1>6 DEF Sound

LEMMA RemovedIs ==
    ASSUME CorpusAssumption, Sound(keys, texts, layout), NEW slug, RemoveBook(slug)
    PROVE  \/ Kept /\ effect' = "Unchanged"
           \/ /\ effect' = "Changed" /\ Len(keys') < Len(keys)
              /\ \E n, d : IsResplicing(n, << >>, d) /\ layout[n].slug = slug
<1>1. CASE Naming(keys, slug) = {}
  BY <1>1 DEF RemoveBook, Refuse, Kept, Naming
<1>2. CASE Naming(keys, slug) # {}
  <2> DEFINE k == Len(layout)
             start == Nth(Naming(keys, slug), 1)
             next == start + Cardinality(BookRun(keys, start))
             run == [first |-> start, next |-> next]
             n == CHOOSE m \in DOMAIN layout : layout[m].slug = slug
  <2>1. /\ keys' = Splice(keys, run, << >>)
        /\ texts' = Splice(texts, run, << >>)
        /\ layout' = SubSeq(layout, 1, n - 1) \o Retile(SubSeq(layout, n + 1, k), start)
        /\ effect' = "Changed"
    BY <1>2 DEF RemoveBook, Naming
  <2>2. /\ IsCorpus(keys, texts) /\ IsLayout(layout, keys, texts)
        /\ k \in Nat /\ DOMAIN layout = 1 .. k /\ layout \in Seq(BookRecords)
        /\ Len(keys) \in Nat
        /\ \A m \in 1 .. k : IsBook(layout[m], keys, texts)
    BY SoundBooks
  <2>3. \E m \in DOMAIN layout : layout[m].slug = slug
    <3>1. PICK i \in DOMAIN keys : keys[i].book = slug
      BY <1>2 DEF Naming
    <3>2. i \in 1 .. (Len(keys) + 1) - 1
      BY <2>2, <3>1 DEF IsCorpus
    <3> DEFINE g == Len(keys) + 1
    <3>3. Chained(layout, 1, g) /\ i \in 1 .. g - 1
      BY <2>2, <3>2 DEF IsLayout
    <3> HIDE DEF g
    <3>4. PICK m \in 1 .. k : i \in layout[m].first .. layout[m].next - 1
      BY <3>3, ChainCovers
    <3>5. keys[i].book = layout[m].slug
      BY <2>2, <3>4 DEF IsBook
    <3>6. QED
      BY <2>2, <3>1, <3>4, <3>5
  <2>4. n \in 1 .. k /\ layout[n].slug = slug
    BY <2>2, <2>3
  <2> HIDE DEF n, k
  <2> DEFINE b == layout[n]
             d == b.first - b.next
             gap == [first |-> b.first, next |-> b.next]
             ks2 == Splice(keys, gap, << >>)
             ts2 == Splice(texts, gap, << >>)
  <2>5. /\ b.first + Cardinality(BookRun(keys, b.first)) = b.next
        /\ Nth(Naming(keys, b.slug), 1) = b.first
        /\ d \in Int /\ b.next + d = b.first /\ d < 0
        /\ IsCorpus(ks2, ts2) /\ Around(keys, texts, ks2, ts2, b, d)
        /\ InItsPlace(<< >>, ks2, ts2, b, d)
    BY <2>2, <2>4, BookRemoved DEF k
  <2>6. start = b.first
    BY <2>4, <2>5
  <2>7. next = b.next
    <3> HIDE DEF start
    <3>1. QED
      BY <2>5, <2>6
  <2>8. run = gap
    BY <2>6, <2>7
  <2> HIDE DEF start, next, run, gap, d
  <2>9. keys' = ks2 /\ texts' = ts2
    BY <2>1, <2>8
  <2> HIDE DEF ks2, ts2
  <2>10. layout' = Resplicing(layout, n, << >>, d)
    <3>1. SubSeq(layout, 1, n - 1) \o << >> = SubSeq(layout, 1, n - 1)
      <4>1. SubSeq(layout, 1, n - 1) \in Seq(BookRecords)
        <5>1. \A i \in 1 .. n - 1 : layout[i] \in BookRecords
          BY <2>2, <2>4
        <5>2. n - 1 \in Nat
          BY <2>2, <2>4
        <5>3. QED
          BY <5>1, <5>2
      <4> DEFINE u == SubSeq(layout, 1, n - 1)
      <4> HIDE DEF u
      <4>2. u \in Seq(BookRecords)
        BY <4>1 DEF u
      <4>3. u \o << >> = u
        BY <4>2
      <4>4. QED
        BY <4>3 DEF u
    <3>2. layout[n].next + d = start
      BY <2>5, <2>6
    <3>3. QED
      BY <2>1, <3>1, <3>2 DEF Resplicing, k
  <2>11. IsResplicing(n, << >>, d)
    <3>1. n \in 1 .. Len(layout)
      BY <2>4 DEF k
    <3>2. IsResplice(keys, texts, layout, ks2, ts2, n, << >>, d)
      BY <2>2, <2>5, <3>1 DEF IsResplice
    <3>3. QED
      BY <2>9, <2>10, <3>2 DEF IsResplicing
  <2>12. Len(keys') < Len(keys)
    <3>1. Len(keys') = Len(keys) + d
      BY <2>5, <2>9 DEF Around
    <3>2. QED
      BY <2>2, <2>5, <3>1
  <2>13. QED
    BY <2>1, <2>4, <2>11, <2>12
<1>3. QED
  BY <1>1, <1>2

(* Only what is already there can be spliced in without a change.          *)
LEMMA SpliceSame ==
    ASSUME NEW T, NEW s \in Seq(T), NEW new \in Seq(T), NEW run,
           run.first \in 1 .. Len(s), run.next \in run.first .. Len(s) + 1,
           Splice(s, run, new) = s
    PROVE  Slice(s, run) = new
<1> DEFINE a == run.first
           e == run.next
           L == Len(new)
           N == Len(s)
<1>1. IsSplice(s, s, new, a, e, T)
  <2>1. IsSplice(Splice(s, run, new), s, new, run.first, run.next, T)
    BY SpliceIs
  <2>2. QED
    BY <2>1
<1>2. N \in Nat /\ L \in Nat /\ a \in 1 .. N /\ e \in a .. N + 1 /\ a \in 1 .. N + 1
  OBVIOUS
<1>3. N = N + (L - (e - a)) /\ \A i \in 1 .. L : s[(a - 1) + i] = new[i]
  BY <1>1 DEF IsSplice
<1>4. SubSeq(s, a, e - 1) \in Seq(T) /\ Len(SubSeq(s, a, e - 1)) = e - a
      /\ \A i \in 1 .. e - a : SubSeq(s, a, e - 1)[i] = s[a + i - 1]
  BY <1>2, SliceIn
<1> DEFINE u == SubSeq(s, a, e - 1)
<1> HIDE DEF a, e, N
<1>5. e - a = L /\ \A i \in 1 .. L : a + i - 1 = (a - 1) + i
  <2>1. a \in Nat /\ e \in Nat /\ L \in Nat /\ N \in Nat
    BY <1>2
  <2> HIDE DEF L
  <2>2. N = N + (L - (e - a))
    BY <1>3 DEF L
  <2>3. e - a = L
    BY <2>1, <2>2
  <2>4. \A i \in 1 .. L : a + i - 1 = (a - 1) + i
    BY <2>1
  <2>5. QED
    BY <2>3, <2>4
<1>6. u \in Seq(T) /\ Len(u) = L /\ \A i \in 1 .. L : u[i] = s[a + i - 1]
  BY <1>4, <1>5
<1> HIDE DEF u
<1>7. u = new
  BY <1>3, <1>5, <1>6, SeqEqual
<1>8. QED
  BY <1>7 DEF u, Slice, a, e

(* What a run is in a sound corpus: verses of one key, hashed as they are.  *)
LEMMA RunOfBook ==
    ASSUME NEW ks, NEW ts, IsCorpus(ks, ts), NEW b, IsBook(b, ks, ts), NEW run, IsChapterOf(run, b)
    PROVE  /\ run.first \in 1 .. Len(ks) /\ run.next \in run.first .. Len(ks) + 1
           /\ run.first \in Nat /\ run.next \in Nat /\ run.first < run.next
           /\ b.first <= run.first /\ run.next <= b.next
           /\ ks[run.first] = [book |-> b.slug, chapter |-> run.chapter]
           /\ \A i \in run.first .. run.next - 1 : ks[i] = ks[run.first]
           /\ run.hash = ContentHash(Slice(ks, run), Slice(ts, run))
<1> DEFINE chs == b.chapters
           f == b.first
           g == b.next
<1>1. PICK m \in 1 .. Len(chs) : chs[m] = run
  BY DEF IsChapterOf
<1>2. /\ ks \in Seq(Key) /\ Len(ks) \in Nat /\ f \in 1 .. Len(ks) /\ g \in f + 1 .. Len(ks) + 1
      /\ \A i \in f .. g - 1 : ks[i].book = b.slug
      /\ Chained(chs, f, g)
      /\ chs[m] = ChapterOf(ks, ts, chs[m].first, chs[m].next)
      /\ Coloured(chs, ks)
  BY <1>1 DEF IsBook, IsCorpus
<1>3. f <= run.first /\ run.next <= g
  BY <1>1, <1>2, ChainOrder
<1>4. run.first \in Nat /\ run.next \in Nat /\ run.first < run.next
  BY <1>1, <1>2 DEF Chained
<1> DEFINE a == run.first
           e == run.next
<1> HIDE DEF a, e, f, g
<1>5. a \in 1 .. Len(ks) /\ e \in a .. Len(ks) + 1 /\ a \in f .. g - 1
  <2>1. a \in Nat /\ e \in Nat /\ a < e /\ f <= a /\ e <= g
    BY <1>3, <1>4 DEF a, e
  <2>2. QED
    BY <1>2, <2>1
<1>6. run = ChapterOf(ks, ts, a, e)
  BY <1>1, <1>2 DEF a, e
<1>7. run.chapter = ks[a].chapter /\ run.hash = ContentHash(SubSeq(ks, a, e - 1), SubSeq(ts, a, e - 1))
  BY <1>6 DEF ChapterOf
<1>8. ks[a] = [book |-> b.slug, chapter |-> run.chapter]
  <2>1. ks[a] \in Key /\ ks[a].book = b.slug
    BY <1>2, <1>5
  <2>2. QED
    BY <1>7, <2>1 DEF Key
<1>9. \A i \in a .. e - 1 : ks[i] = ks[a]
  BY <1>1, <1>2 DEF Coloured, a, e
<1>10. run.hash = ContentHash(Slice(ks, run), Slice(ts, run))
  BY <1>7 DEF Slice, a, e
<1>11. QED
  BY <1>3, <1>4, <1>5, <1>8, <1>9, <1>10 DEF a, e, f, g

(* A chapter named and held in the layout.                                 *)
HasRun(block) ==
    \E n \in 1 .. Len(layout) : \E run :
        /\ IsChapterOf(run, layout[n])
        /\ layout[n].slug = block.slug /\ run.chapter = block.chapter
        /\ Slice(keys, run) = block.keys /\ Slice(texts, run) = block.texts

LEMMA ReplacedChapterIs ==
    ASSUME CorpusAssumption, Sound(keys, texts, layout), NEW block \in Runs, ReplaceChapter(block)
    PROVE  \/ Kept /\ effect' = "Rejected"
           \/ Kept /\ effect' = "Unchanged" /\ HasRun(block)
           \/ /\ effect' = "Changed" /\ corpus' # corpus /\ Len(keys') <= MaxVerses
              /\ \E n, mid, d : /\ IsResplicing(n, mid, d)
                                /\ \A i \in 1 .. Len(mid) : Width(mid[i]) <= MaxBook
<1>1. CASE ~ RunAccepted(block) \/ Located(block.slug, block.chapter) = {}
  BY <1>1 DEF ReplaceChapter, Refuse, Kept
<1>2. CASE RunAccepted(block) /\ Located(block.slug, block.chapter) # {}
  <2>1. PICK at \in Located(block.slug, block.chapter) :
           LET book == layout[at[1]]
               run == book.chapters[at[2]]
           IN IF ~ Addressable(book, run, block) THEN Refuse("Rejected")
              ELSE IF run.hash = ContentHash(block.keys, block.texts)
                      /\ Slice(keys, run) = block.keys /\ Slice(texts, run) = block.texts
                   THEN Refuse("Unchanged")
              ELSE SpliceRun(at[1], run, block)
    BY <1>2 DEF ReplaceChapter
  <2> DEFINE n == at[1]
             b == layout[n]
             run == b.chapters[at[2]]
             nk == block.keys
             nt == block.texts
             N == Len(keys)
             d == Len(nk) - (run.next - run.first)
  <2>2. /\ IsCorpus(keys, texts) /\ IsLayout(layout, keys, texts)
        /\ layout \in Seq(BookRecords) /\ DOMAIN layout = 1 .. Len(layout) /\ N \in Nat
        /\ \A m \in 1 .. Len(layout) : IsBook(layout[m], keys, texts)
    BY SoundBooks
  <2>3. /\ n \in 1 .. Len(layout) /\ b.slug = block.slug
        /\ at[2] \in DOMAIN b.chapters /\ run.chapter = block.chapter
    BY <2>2 DEF Located
  <2>4. IsBook(b, keys, texts)
    BY <2>2, <2>3
  <2>5. IsChapterOf(run, b)
    <3>1. DOMAIN b.chapters = 1 .. Len(b.chapters)
      BY <2>4 DEF IsBook, Chained
    <3>2. QED
      BY <2>3, <3>1 DEF IsChapterOf
  <2>6. /\ block \in [slug : Slugs, chapter : Chapters, keys : KeySeqs, texts : Seq(Texts)]
        /\ Len(nk) = Len(nt) /\ nk # << >> /\ Parses(nk)
        /\ \A i \in DOMAIN nk : nk[i].book = block.slug /\ nk[i].chapter = block.chapter
    BY <1>2 DEF RunAccepted, CorpusAssumption
  <2>7. nk \in Seq(Key) /\ nt \in Seq(Texts)
    BY <2>6, ParsedKeys
  <2> HIDE DEF b, n, run
  <2>8. /\ run.first \in 1 .. N /\ run.next \in run.first .. N + 1
        /\ run.first \in Nat /\ run.next \in Nat /\ run.first < run.next
        /\ keys[run.first] = [book |-> b.slug, chapter |-> run.chapter]
        /\ run.hash = ContentHash(Slice(keys, run), Slice(texts, run))
    BY <2>2, <2>4, <2>5, RunOfBook
  <2> HIDE DEF nk, nt, N
  <2>9. IsRunOf(nk, nt, keys[run.first])
    <3>1. IsCorpus(nk, nt) /\ Len(nk) # 0
      BY <2>6, <2>7 DEF IsCorpus
    <3>2. \A i \in 1 .. Len(nk) : nk[i] = keys[run.first]
      <4>1. SUFFICES ASSUME NEW i \in 1 .. Len(nk)
                     PROVE  nk[i] = [book |-> b.slug, chapter |-> run.chapter]
        BY <2>8
      <4>2. nk[i] \in Key /\ nk[i].book = b.slug /\ nk[i].chapter = run.chapter
        BY <2>3, <2>6, <2>7 DEF b, run, n
      <4>3. QED
        BY <4>2 DEF Key
    <3>3. QED
      BY <3>1, <3>2 DEF IsRunOf
  <2>10. d \in Int /\ run.first + Len(nk) = run.next + d
    <3> DEFINE L == Len(nk)
               a == run.first
               e == run.next
    <3>1. L \in Nat /\ a \in Nat /\ e \in Nat
      BY <2>7, <2>8
    <3> HIDE DEF L, a, e
    <3>2. L - (e - a) \in Int /\ a + L = e + (L - (e - a))
      BY <3>1
    <3>3. QED
      BY <3>2 DEF L, a, e
  <2>11. \/ ~ Addressable(b, run, block) /\ Refuse("Rejected")
         \/ Slice(keys, run) = nk /\ Slice(texts, run) = nt /\ Refuse("Unchanged")
         \/ /\ Addressable(b, run, block) /\ ~ (Slice(keys, run) = nk /\ Slice(texts, run) = nt)
            /\ SpliceRun(n, run, block)
    BY <2>1, <2>8 DEF b, n, run, nk, nt
  <2>12. CASE Refuse("Rejected")
    BY <2>12 DEF Refuse, Kept
  <2>13. CASE Slice(keys, run) = nk /\ Slice(texts, run) = nt /\ Refuse("Unchanged")
    <3>1. HasRun(block)
      BY <2>3, <2>5, <2>13 DEF HasRun, b, n, run, nk, nt
    <3>2. QED
      BY <2>13, <3>1 DEF Refuse, Kept
  <2>14. CASE /\ Addressable(b, run, block) /\ ~ (Slice(keys, run) = nk /\ Slice(texts, run) = nt)
              /\ SpliceRun(n, run, block)
    <3> DEFINE ks2 == Splice(keys, run, nk)
               ts2 == Splice(texts, run, nt)
               q == BuildBookAt(ks2, ts2, b.first)
    <3>1. /\ keys' = ks2 /\ texts' = ts2 /\ effect' = "Changed"
          /\ layout' = (SubSeq(layout, 1, n - 1) \o <<q>>)
                         \o Retile(SubSeq(layout, n + 1, Len(layout)), q.next)
      BY <2>14 DEF SpliceRun, b, nk, nt
    <3>2. IsSpliced(ks2, ts2, keys, texts, run, nk, nt)
      BY DEF IsSpliced
    <3> HIDE DEF ks2, ts2, d
    <3>3. /\ IsCorpus(ks2, ts2) /\ Around(keys, texts, ks2, ts2, b, d)
          /\ InItsPlace(<<q>>, ks2, ts2, b, d)
          /\ q.first = b.first /\ q.next = b.next + d
      <4>1. n \in 1 .. Len(layout)
        BY <2>3 DEF n
      <4>2. IsChapterOf(run, layout[n])
        BY <2>5 DEF b
      <4>3. QED
        BY <2>2, <2>9, <2>10, <3>2, <4>1, <4>2, BookRespliced DEF b
    <3> HIDE DEF q
    <3>4. IsResplicing(n, <<q>>, d)
      <4>1. n \in 1 .. Len(layout)
        BY <2>3 DEF n
      <4>2. IsResplice(keys, texts, layout, ks2, ts2, n, <<q>>, d)
        BY <2>2, <2>10, <3>3, <4>1 DEF IsResplice, b
      <4>3. layout' = Resplicing(layout, n, <<q>>, d)
        BY <3>1, <3>3 DEF Resplicing, b
      <4>4. QED
        BY <3>1, <4>2, <4>3 DEF IsResplicing
    <3>5. (b.next - b.first) + d <= MaxBook /\ N + d <= MaxVerses
      BY <2>14 DEF Addressable, d, nk, N
    <3>6. Len(keys') <= MaxVerses
      BY <3>1, <3>3, <3>5 DEF Around, N
    <3>7. Width(q) <= MaxBook
      <4> DEFINE f == b.first
                 g == b.next
      <4>1. f \in Nat /\ g \in Nat /\ (g - f) + d <= MaxBook
        BY <2>4, <3>5 DEF IsBook, BookRecords
      <4>2. q.first = f /\ q.next = g + d
        BY <3>3
      <4> HIDE DEF f, g
      <4>3. (g + d) - f = (g - f) + d
        BY <2>10, <4>1
      <4>4. QED
        BY <4>1, <4>2, <4>3 DEF Width
    <3>8. \A i \in 1 .. Len(<<q>>) : Width(<<q>>[i]) <= MaxBook
      <4>1. Len(<<q>>) = 1 /\ <<q>>[1] = q /\ \A i \in 1 .. 1 : i = 1
        OBVIOUS
      <4>2. QED
        BY <3>7, <4>1
    <3>9. corpus' # corpus
      <4>1. SUFFICES ASSUME keys' = keys, texts' = texts
                     PROVE  FALSE
        BY DEF corpus
      <4>2. Splice(keys, run, nk) = keys /\ Splice(texts, run, nt) = texts
        BY <3>1, <4>1 DEF ks2, ts2
      <4>3. /\ keys \in Seq(Key) /\ texts \in Seq(Texts) /\ Len(texts) = Len(keys)
            /\ run.first \in 1 .. Len(keys) /\ run.next \in run.first .. Len(keys) + 1
        BY <2>2, <2>8 DEF IsCorpus, N
      <4>4. Slice(keys, run) = nk
        BY <2>7, <4>2, <4>3, SpliceSame
      <4>5. Slice(texts, run) = nt
        BY <2>7, <4>2, <4>3, SpliceSame
      <4>6. QED
        BY <2>14, <4>4, <4>5
    <3>10. QED
      BY <3>1, <3>4, <3>6, <3>8, <3>9
  <2>15. QED
    BY <2>11, <2>12, <2>13, <2>14
<1>3. QED
  BY <1>1, <1>2

(***************************************************************************)
(* The pieces of replace_books.                                            *)
(***************************************************************************)
Blocks == [slug : Slugs, keys : KeySeqs, texts : Seq(Texts)]

PieceRecords == [keys : Seq(Key), texts : Seq(Texts), carried : Seq(BookRecords)]

FreshPiece(block) == [keys |-> block.keys, texts |-> block.texts, carried |-> << >>]

CarriedPiece(b) == [keys |-> Slice(keys, b), texts |-> Slice(texts, b), carried |-> <<b>>]

LEMMA BlockPiece ==
    ASSUME NEW block \in Blocks, BlockAccepted(block)
    PROVE  /\ FreshPiece(block) \in PieceRecords
           /\ IsPiece(FreshPiece(block), block.slug, keys, texts)
<1>1. /\ Len(block.keys) = Len(block.texts) /\ block.keys # << >> /\ Len(block.keys) <= MaxBook
      /\ Parses(block.keys) /\ (\A i \in DOMAIN block.keys : block.keys[i].book = block.slug)
      /\ NoReopenedChapter(block.keys)
  BY DEF BlockAccepted
<1>2. block.keys \in Seq(Key) /\ block.texts \in Seq(Texts)
  BY <1>1, ParsedKeys DEF Blocks
<1>3. Len(block.keys) # 0 /\ DOMAIN block.keys = 1 .. Len(block.keys)
  BY <1>1, <1>2
<1> DEFINE piece == FreshPiece(block)
<1>4. piece.keys = block.keys /\ piece.texts = block.texts /\ piece.carried = << >>
  BY DEF FreshPiece
<1>5. piece \in PieceRecords
  <2>1. << >> \in Seq(BookRecords)
    OBVIOUS
  <2>2. QED
    BY <1>2, <2>1 DEF FreshPiece, PieceRecords
<1> HIDE DEF piece
<1>6. IsPiece(piece, block.slug, keys, texts)
  <2>1. IsFresh(piece, block.slug)
    BY <1>1, <1>3, <1>4 DEF IsFresh
  <2>2. IsCorpus(piece.keys, piece.texts)
    BY <1>1, <1>2, <1>4 DEF IsCorpus
  <2>3. QED
    BY <1>3, <1>4, <2>1, <2>2 DEF IsPiece
<1>7. QED
  BY <1>5, <1>6 DEF piece

LEMMA BookPiece ==
    ASSUME Sound(keys, texts, layout), NEW n \in 1 .. Len(layout)
    PROVE  /\ CarriedPiece(layout[n]) \in PieceRecords
           /\ IsPiece(CarriedPiece(layout[n]), layout[n].slug, keys, texts)
<1> DEFINE b == layout[n]
           piece == CarriedPiece(b)
           f == b.first
           g == b.next
<1>1. IsBook(b, keys, texts) /\ Width(b) <= MaxBook /\ IsCorpus(keys, texts)
  BY SoundBooks
<1>2. /\ keys \in Seq(Key) /\ texts \in Seq(Texts) /\ Len(texts) = Len(keys) /\ Len(keys) \in Nat
      /\ f \in 1 .. Len(keys) /\ g \in f + 1 .. Len(keys) + 1 /\ b \in BookRecords
  BY <1>1 DEF IsBook, IsCorpus
<1> HIDE DEF b
<1>3. /\ piece.keys = SubSeq(keys, f, g - 1) /\ piece.texts = SubSeq(texts, f, g - 1)
      /\ piece.carried = <<b>>
  BY DEF CarriedPiece, Slice
<1> HIDE DEF f, g
<1>4. f \in 1 .. Len(keys) + 1 /\ g \in f .. Len(keys) + 1 /\ f \in 1 .. Len(texts) + 1
      /\ g \in f .. Len(texts) + 1 /\ g - f # 0
  BY <1>2
<1>5. SubSeq(keys, f, g - 1) \in Seq(Key) /\ Len(SubSeq(keys, f, g - 1)) = g - f
  BY <1>2, <1>4, SliceIn
<1>6. SubSeq(texts, f, g - 1) \in Seq(Texts) /\ Len(SubSeq(texts, f, g - 1)) = g - f
  BY <1>2, <1>4, SliceIn
<1>7. piece \in PieceRecords
  <2>1. <<b>> \in Seq(BookRecords)
    BY <1>2
  <2>2. piece = [keys |-> SubSeq(keys, f, g - 1), texts |-> SubSeq(texts, f, g - 1), carried |-> <<b>>]
    BY DEF CarriedPiece, Slice, f, g
  <2>3. QED
    BY <1>5, <1>6, <2>1, <2>2 DEF PieceRecords
<1>8. IsCarried(piece, b.slug, keys, texts)
  <2>1. piece.keys = Slice(keys, b) /\ piece.texts = Slice(texts, b) /\ piece.carried = <<b>>
    BY DEF CarriedPiece
  <2> HIDE DEF piece
  <2>2. QED
    BY <1>1, <2>1 DEF IsCarried
<1> HIDE DEF piece
<1>9. IsPiece(piece, b.slug, keys, texts)
  <2>1. IsCorpus(piece.keys, piece.texts) /\ Len(piece.keys) # 0
    BY <1>3, <1>4, <1>5, <1>6 DEF IsCorpus
  <2>2. QED
    BY <1>8, <2>1 DEF IsPiece
<1>10. QED
  BY <1>7, <1>9 DEF piece, b

(* The blocks of an accepted batch, by their slugs.                        *)
IsBatch(batch) ==
    /\ batch \in Seq(Blocks) /\ DOMAIN batch = 1 .. Len(batch) /\ Len(batch) \in Nat
    /\ \A n \in 1 .. Len(batch) : batch[n] \in Blocks /\ BlockAccepted(batch[n])
    /\ \A m, n \in 1 .. Len(batch) : batch[m].slug = batch[n].slug => m = n
    /\ \A n \in 1 .. Len(batch) : Replacement(batch, batch[n].slug) = batch[n]

LEMMA BatchBlocks ==
    ASSUME CorpusAssumption, NEW batch \in Batches, BatchAccepted(batch)
    PROVE  IsBatch(batch)
<1>1. batch \in Seq(Blocks)
  BY DEF CorpusAssumption, Blocks
<1>2. DOMAIN batch = 1 .. Len(batch) /\ Len(batch) \in Nat /\ \A n \in 1 .. Len(batch) : batch[n] \in Blocks
  BY <1>1
<1>3. /\ \A n \in 1 .. Len(batch) : BlockAccepted(batch[n])
      /\ \A m, n \in 1 .. Len(batch) : batch[m].slug = batch[n].slug => m = n
  BY <1>2 DEF BatchAccepted
<1>4. ASSUME NEW n \in 1 .. Len(batch)
      PROVE  Replacement(batch, batch[n].slug) = batch[n]
  BY <1>2, <1>3 DEF Replacement
<1>5. QED
  BY <1>1, <1>2, <1>3, <1>4 DEF IsBatch

LEMMA AppendedBlocks ==
    ASSUME NEW batch, IsBatch(batch)
    PROVE  /\ Appended(batch) \in Seq(Blocks)
           /\ \A i \in 1 .. Len(Appended(batch)) :
                 /\ Appended(batch)[i] \in Blocks /\ BlockAccepted(Appended(batch)[i])
                 /\ Appended(batch)[i].slug \notin SlugsOf(layout)
           /\ \A i, j \in 1 .. Len(Appended(batch)) :
                 Appended(batch)[i].slug = Appended(batch)[j].slug => i = j
           /\ \A n \in 1 .. Len(batch) : batch[n].slug \notin SlugsOf(layout)
                 => \E i \in 1 .. Len(Appended(batch)) : Appended(batch)[i] = batch[n]
<1> DEFINE S == { block \in ToSet(batch) : block.slug \notin SlugsOf(layout) }
           new == Selected(batch, S)
<1>1. Appended(batch) = new
  BY DEF Appended, InPlace
<1>2. /\ batch \in Seq(Blocks) /\ DOMAIN batch = 1 .. Len(batch)
      /\ \A n \in 1 .. Len(batch) : batch[n] \in Blocks /\ BlockAccepted(batch[n])
      /\ \A m, n \in 1 .. Len(batch) : batch[m].slug = batch[n].slug => m = n
  BY DEF IsBatch
<1>3. \A n \in 1 .. Len(batch) : batch[n].slug \notin SlugsOf(layout) => batch[n] \in S
  BY <1>2 DEF ToSet
<1>4. \A block \in S : block.slug \notin SlugsOf(layout)
  OBVIOUS
<1> HIDE DEF S
<1>5. /\ new \in Seq(Blocks)
      /\ \A e : (\E i \in 1 .. Len(new) : new[i] = e) <=> e \in S /\ \E i \in 1 .. Len(batch) : batch[i] = e
  <2>1. batch \in Seq(Blocks)
    BY <1>2
  <2>2. Selected(batch, S) \in Seq(Blocks)
    BY <2>1, SelectedElements
  <2>3. \A e : (\E i \in 1 .. Len(Selected(batch, S)) : Selected(batch, S)[i] = e)
                  <=> e \in S /\ \E i \in 1 .. Len(batch) : batch[i] = e
    BY <2>1, SelectedElements
  <2>4. QED
    BY <2>2, <2>3
<1>6. PICK place : IsPlacing(place, batch, S)
  BY <1>2, SelectedPlaces
<1>7. /\ place \in [1 .. Len(new) -> 1 .. Len(batch)]
      /\ \A i \in 1 .. Len(new) : new[i] = batch[place[i]]
      /\ \A i, j \in 1 .. Len(new) : i < j => place[i] < place[j]
  BY <1>6 DEF IsPlacing
<1>8. Len(new) \in Nat /\ Len(batch) \in Nat
  BY <1>2, <1>5
<1> HIDE DEF new
<1>9. ASSUME NEW i \in 1 .. Len(new)
      PROVE  new[i] \in Blocks /\ BlockAccepted(new[i]) /\ new[i].slug \notin SlugsOf(layout)
  <2>1. new[i] \in S
    BY <1>5
  <2>2. QED
    BY <1>2, <1>4, <1>7, <2>1
<1>10. ASSUME NEW i \in 1 .. Len(new), NEW j \in 1 .. Len(new), new[i].slug = new[j].slug
       PROVE  i = j
  <2>1. place[i] = place[j] /\ place[i] \in Nat /\ place[j] \in Nat
    BY <1>2, <1>7, <1>8, <1>10
  <2>2. ~ (i < j) /\ ~ (j < i)
    BY <1>7, <2>1
  <2>3. QED
    BY <1>8, <2>2
<1>11. \A n \in 1 .. Len(batch) : batch[n].slug \notin SlugsOf(layout)
                                    => \E i \in 1 .. Len(new) : new[i] = batch[n]
  BY <1>3, <1>5
<1>12. QED
  BY <1>1, <1>5, <1>9, <1>10, <1>11

(* The new blocks keep the order of the batch.                             *)
LEMMA AppendedOrder ==
    ASSUME NEW batch, IsBatch(batch), NEW m \in 1 .. Len(batch), NEW n \in 1 .. Len(batch), m < n,
           batch[m].slug \notin SlugsOf(layout), batch[n].slug \notin SlugsOf(layout)
    PROVE  \E i, j \in 1 .. Len(Appended(batch)) :
              i < j /\ Appended(batch)[i] = batch[m] /\ Appended(batch)[j] = batch[n]
<1> DEFINE S == { block \in ToSet(batch) : block.slug \notin SlugsOf(layout) }
           new == Selected(batch, S)
<1>1. Appended(batch) = new
  BY DEF Appended, InPlace
<1>2. /\ batch \in Seq(Blocks) /\ Len(batch) \in Nat
      /\ \A a, b \in 1 .. Len(batch) : batch[a].slug = batch[b].slug => a = b
  BY DEF IsBatch
<1>3. PICK place : IsPlacing(place, batch, S)
  BY <1>2, SelectedPlaces
<1>4. /\ place \in [1 .. Len(new) -> 1 .. Len(batch)]
      /\ \A i \in 1 .. Len(new) : new[i] = batch[place[i]]
      /\ \A i, j \in 1 .. Len(new) : i < j => place[i] < place[j]
  BY <1>3 DEF IsPlacing
<1>5. PICK i \in 1 .. Len(Appended(batch)) : Appended(batch)[i] = batch[m]
  BY AppendedBlocks
<1>6. PICK j \in 1 .. Len(Appended(batch)) : Appended(batch)[j] = batch[n]
  BY AppendedBlocks
<1>7. Len(Appended(batch)) \in Nat
  BY AppendedBlocks
<1> HIDE DEF new
<1>8. place[i] = m /\ place[j] = n
  BY <1>1, <1>2, <1>4, <1>5, <1>6
<1>9. i # j /\ ~ (j < i)
  BY <1>1, <1>2, <1>4, <1>8
<1>10. QED
  BY <1>5, <1>6, <1>7, <1>9

PieceOf(batch, n) ==
    IF layout[n].slug \in SlugsOf(batch) THEN FreshPiece(Replacement(batch, layout[n].slug))
    ELSE CarriedPiece(layout[n])

LEMMA PiecesAre ==
    ASSUME Sound(keys, texts, layout), NEW batch, IsBatch(batch)
    PROVE  /\ Len(Pieces(batch)) = Len(layout) + Len(Appended(batch))
           /\ Len(Pieces(batch)) \in Nat
           /\ \A n \in 1 .. Len(layout) :
                 /\ Pieces(batch)[n] = PieceOf(batch, n)
                 /\ IsPiece(Pieces(batch)[n], layout[n].slug, keys, texts)
           /\ \A n \in 1 .. Len(Appended(batch)) :
                 IsPiece(Pieces(batch)[Len(layout) + n], Appended(batch)[n].slug, keys, texts)
<1> DEFINE k == Len(layout)
           new == Appended(batch)
           A == [n \in DOMAIN InPlace(batch) |->
                   LET b == InPlace(batch)[n]
                   IN IF b.slug \in SlugsOf(batch)
                      THEN LET block == Replacement(batch, b.slug)
                           IN [keys |-> block.keys, texts |-> block.texts, carried |-> << >>]
                      ELSE [keys |-> Slice(keys, b), texts |-> Slice(texts, b), carried |-> <<b>>]]
           B == [n \in DOMAIN new |->
                   [keys |-> new[n].keys, texts |-> new[n].texts, carried |-> << >>]]
<1>1. Pieces(batch) = A \o B
  BY DEF Pieces
<1>2. k \in Nat /\ DOMAIN layout = 1 .. k
  BY SoundBooks
<1>3. new \in Seq(Blocks) /\ \A i \in 1 .. Len(new) : new[i] \in Blocks /\ BlockAccepted(new[i])
  BY AppendedBlocks
<1>4. A = [n \in 1 .. k |-> PieceOf(batch, n)]
  BY <1>2 DEF InPlace, PieceOf, FreshPiece, CarriedPiece
<1>5. B = [n \in 1 .. Len(new) |-> FreshPiece(new[n])]
  BY <1>3 DEF FreshPiece
<1> HIDE DEF A, B, k, new
<1>6. ASSUME NEW n \in 1 .. k
      PROVE  PieceOf(batch, n) \in PieceRecords /\ IsPiece(PieceOf(batch, n), layout[n].slug, keys, texts)
  <2>1. n \in 1 .. Len(layout)
    BY DEF k
  <2>2. CASE layout[n].slug \in SlugsOf(batch)
    <3>1. PICK m \in DOMAIN batch : batch[m].slug = layout[n].slug
      BY <2>2 DEF SlugsOf
    <3>2. m \in 1 .. Len(batch) /\ batch[m] \in Blocks /\ BlockAccepted(batch[m])
          /\ Replacement(batch, batch[m].slug) = batch[m]
      BY <3>1 DEF IsBatch
    <3>3. PieceOf(batch, n) = FreshPiece(batch[m])
      BY <2>2, <3>1, <3>2 DEF PieceOf
    <3>4. QED
      BY <3>1, <3>2, <3>3, BlockPiece
  <2>3. CASE layout[n].slug \notin SlugsOf(batch)
    <3>1. PieceOf(batch, n) = CarriedPiece(layout[n])
      BY <2>3 DEF PieceOf
    <3>2. QED
      BY <2>1, <3>1, BookPiece
  <2>4. QED
    BY <2>2, <2>3
<1>7. A \in Seq(PieceRecords) /\ Len(A) = k
  <2>1. A \in [1 .. k -> PieceRecords]
    BY <1>4, <1>6
  <2>2. QED
    BY <1>2, <2>1
<1>8. \A n \in 1 .. Len(new) : FreshPiece(new[n]) \in PieceRecords
                               /\ IsPiece(FreshPiece(new[n]), new[n].slug, keys, texts)
  BY <1>3, BlockPiece
<1>9. B \in Seq(PieceRecords) /\ Len(B) = Len(new) /\ Len(new) \in Nat
  <2>1. B \in [1 .. Len(new) -> PieceRecords]
    BY <1>5, <1>8
  <2>2. Len(new) \in Nat
    BY <1>3
  <2>3. QED
    BY <2>1, <2>2
<1>10. IsJoin(A \o B, A, B, PieceRecords)
  BY <1>7, <1>9, Joined
<1>11. /\ Len(Pieces(batch)) = k + Len(new)
       /\ \A n \in 1 .. k : Pieces(batch)[n] = PieceOf(batch, n)
       /\ \A n \in 1 .. Len(new) : Pieces(batch)[k + n] = FreshPiece(new[n])
  BY <1>1, <1>4, <1>5, <1>7, <1>9, <1>10 DEF IsJoin
<1>12. QED
  BY <1>2, <1>6, <1>8, <1>9, <1>11 DEF k, new

LEMMA PiecesAssemble ==
    ASSUME Sound(keys, texts, layout), NEW batch, IsBatch(batch)
    PROVE  \E slugs : /\ Assembled(Pieces(batch), slugs, Len(Pieces(batch)), keys, texts)
                      /\ \A n \in 1 .. Len(layout) : slugs[n] = layout[n].slug
                      /\ \A n \in Len(layout) + 1 .. Len(Pieces(batch)) : slugs[n] \notin SlugsOf(layout)
                      /\ \A i \in 1 .. Len(Appended(batch)) :
                            slugs[Len(layout) + i] = Appended(batch)[i].slug
<1> DEFINE k == Len(layout)
           new == Appended(batch)
           q == Len(new)
           pieces == Pieces(batch)
           slugs == [n \in 1 .. k + q |-> IF n <= k THEN layout[n].slug ELSE new[n - k].slug]
<1>1. /\ k \in Nat /\ DOMAIN layout = 1 .. k
      /\ \A m, n \in 1 .. k : layout[m].slug = layout[n].slug => m = n
  BY SoundBooks
<1>2. /\ new \in Seq(Blocks)
      /\ \A i \in 1 .. q : new[i].slug \notin SlugsOf(layout)
      /\ \A i, j \in 1 .. q : new[i].slug = new[j].slug => i = j
  BY AppendedBlocks
<1>3. /\ Len(pieces) = k + q
      /\ \A n \in 1 .. k : IsPiece(pieces[n], layout[n].slug, keys, texts)
      /\ \A n \in 1 .. q : IsPiece(pieces[k + n], new[n].slug, keys, texts)
  BY PiecesAre
<1>4. q \in Nat
  BY <1>2
<1> HIDE DEF k, q, new, pieces
<1>5. ASSUME NEW n \in 1 .. k
      PROVE  n \in 1 .. k + q /\ slugs[n] = layout[n].slug /\ slugs[n] \in SlugsOf(layout)
  <2>1. n \in 1 .. k + q /\ n <= k
    BY <1>1, <1>4
  <2>2. slugs[n] = layout[n].slug
    BY <2>1
  <2>3. QED
    BY <1>1, <2>1, <2>2 DEF SlugsOf
<1>6. ASSUME NEW n \in k + 1 .. k + q
      PROVE  /\ n - k \in 1 .. q /\ k + (n - k) = n
             /\ slugs[n] = new[n - k].slug /\ slugs[n] \notin SlugsOf(layout)
  <2>1. n \in 1 .. k + q /\ ~ (n <= k) /\ n - k \in 1 .. q /\ k + (n - k) = n
    BY <1>1, <1>4
  <2>2. slugs[n] = new[n - k].slug
    BY <2>1
  <2>3. QED
    BY <1>2, <2>1, <2>2
<1>7. \A n \in 1 .. k + q : n \in 1 .. k \/ n \in k + 1 .. k + q
  BY <1>1, <1>4
<1> HIDE DEF slugs
<1>8. ASSUME NEW n \in 1 .. k + q
      PROVE  IsPiece(pieces[n], slugs[n], keys, texts)
  <2>1. CASE n \in 1 .. k
    BY <1>3, <1>5, <2>1
  <2>2. CASE n \in k + 1 .. k + q
    <3> DEFINE i == n - k
    <3>1. i \in 1 .. q /\ k + i = n /\ slugs[n] = new[i].slug
      BY <1>6, <2>2
    <3> HIDE DEF i
    <3>2. IsPiece(pieces[k + i], new[i].slug, keys, texts)
      BY <1>3, <3>1
    <3>3. QED
      BY <3>1, <3>2
  <2>3. QED
    BY <1>7, <2>1, <2>2
<1>9. ASSUME NEW m \in 1 .. k + q, NEW n \in 1 .. k + q, slugs[m] = slugs[n]
      PROVE  m = n
  <2>1. CASE m \in 1 .. k /\ n \in 1 .. k
    BY <1>1, <1>5, <1>9, <2>1
  <2>2. CASE m \in k + 1 .. k + q /\ n \in k + 1 .. k + q
    <3> DEFINE i == m - k
               j == n - k
    <3>1. i \in 1 .. q /\ k + i = m /\ slugs[m] = new[i].slug
      BY <1>6, <2>2
    <3>2. j \in 1 .. q /\ k + j = n /\ slugs[n] = new[j].slug
      BY <1>6, <2>2
    <3> HIDE DEF i, j
    <3>3. i = j
      BY <1>2, <1>9, <3>1, <3>2
    <3>4. QED
      BY <3>1, <3>2, <3>3
  <2>3. ~ (m \in 1 .. k /\ n \in k + 1 .. k + q) /\ ~ (n \in 1 .. k /\ m \in k + 1 .. k + q)
    BY <1>5, <1>6, <1>9
  <2>4. QED
    BY <1>7, <2>1, <2>2, <2>3
<1>10. Assembled(pieces, slugs, k + q, keys, texts)
  BY <1>8, <1>9 DEF Assembled
<1>11. ASSUME NEW i \in 1 .. q
       PROVE  slugs[k + i] = new[i].slug
  <2>1. k + i \in k + 1 .. k + q /\ (k + i) - k = i
    BY <1>1, <1>4
  <2>2. QED
    BY <1>6, <2>1
<1>12. QED
  BY <1>3, <1>5, <1>6, <1>10, <1>11 DEF k, q, new, pieces

(* What replace_books keeps of the order: every book stays where it stood,  *)
(* and what is new comes after.                                            *)
Prolongs(fresh, books) ==
    /\ Len(books) <= Len(fresh)
    /\ \A n \in 1 .. Len(books) : fresh[n].slug = books[n].slug
    /\ \A n \in Len(books) + 1 .. Len(fresh) : fresh[n].slug \notin SlugsOf(books)

FollowsBatch(batch) ==
    \A s, t \in SlugsOf(layout') \ SlugsOf(layout) :
        Precedes(batch, s, t) => Precedes(layout', s, t)

LEMMA ReplacedBooksIs ==
    ASSUME CorpusAssumption, Sound(keys, texts, layout), NEW batch \in Batches, ReplaceBooks(batch)
    PROVE  \/ Kept /\ effect' = "Rejected"
           \/ Kept /\ effect' = "Unchanged" /\ IsBatch(batch) /\ \A n \in DOMAIN batch : BookMatches(batch[n])
           \/ /\ effect' = "Changed" /\ corpus' # corpus
              /\ Sound(keys', texts', layout') /\ Prolongs(layout', layout) /\ FollowsBatch(batch)
<1> DEFINE pieces == Pieces(batch)
           size == Len(pieces)
<1>1. CASE ~ BatchAccepted(batch)
  BY <1>1 DEF ReplaceBooks, Refuse, Kept
<1>2. CASE BatchAccepted(batch) /\ \A n \in DOMAIN batch : BookMatches(batch[n])
  <2>1. IsBatch(batch)
    BY <1>2, BatchBlocks
  <2>2. QED
    BY <1>2, <2>1 DEF ReplaceBooks, Refuse, Kept
<1>3. CASE /\ BatchAccepted(batch) /\ ~ \A n \in DOMAIN batch : BookMatches(batch[n])
           /\ Len(KeysThrough(pieces, size)) > MaxVerses
  BY <1>3 DEF ReplaceBooks, Refuse, Kept
<1>4. CASE /\ BatchAccepted(batch) /\ ~ \A n \in DOMAIN batch : BookMatches(batch[n])
           /\ ~ (Len(KeysThrough(pieces, size)) > MaxVerses)
  <2>1. /\ keys' = KeysThrough(pieces, size) /\ texts' = TextsThrough(pieces, size)
        /\ layout' = Laid(pieces, size) /\ effect' = "Changed"
    BY <1>4 DEF ReplaceBooks, Laid
  <2>2. IsBatch(batch)
    BY <1>4, BatchBlocks
  <2>3. PICK slugs : /\ Assembled(pieces, slugs, size, keys, texts)
                     /\ \A n \in 1 .. Len(layout) : slugs[n] = layout[n].slug
                     /\ \A n \in Len(layout) + 1 .. size : slugs[n] \notin SlugsOf(layout)
                     /\ \A i \in 1 .. Len(Appended(batch)) :
                           slugs[Len(layout) + i] = Appended(batch)[i].slug
    BY <2>2, PiecesAssemble
  <2>4. /\ IsCorpus(keys, texts) /\ IsLayout(layout, keys, texts)
        /\ Len(layout) \in Nat /\ DOMAIN layout = 1 .. Len(layout)
    BY SoundBooks
  <2>5. /\ size = Len(layout) + Len(Appended(batch)) /\ size \in Nat
        /\ \A n \in 1 .. Len(layout) : pieces[n] = PieceOf(batch, n)
    BY <2>2, PiecesAre
  <2>6. Len(Appended(batch)) \in Nat
    BY <2>2, AppendedBlocks
  <2> HIDE DEF pieces, size
  <2>7. IsAssembly(pieces, slugs, size)
    BY <2>3, <2>4, <2>5, PiecesLaid
  <2>8. Len(layout') = size /\ \A n \in 1 .. size : layout'[n] = PieceLayout(pieces, n)
    BY <2>1, <2>5 DEF Laid
  <2>9. /\ IsCorpus(keys', texts') /\ IsLayout(layout', keys', texts')
        /\ \A m \in 1 .. size : /\ layout'[m].slug = slugs[m] /\ Width(layout'[m]) <= MaxBook
                                /\ HoldsPiece(layout'[m], pieces[m], keys', texts')
    BY <2>1, <2>7, <2>8 DEF IsAssembly
  <2>10. Sound(keys', texts', layout')
    <3>1. Len(keys') <= MaxVerses
      <4>1. Len(keys') \in Nat
        BY <2>9 DEF IsCorpus
      <4>2. MaxVerses \in Nat
        BY DEF CorpusAssumption
      <4>3. ~ (Len(keys') > MaxVerses)
        BY <1>4, <2>1 DEF pieces, size
      <4>4. QED
        BY <4>1, <4>2, <4>3
    <3>2. QED
      BY <2>8, <2>9, <3>1 DEF Sound
  <2>11. Prolongs(layout', layout)
    <3>1. Len(layout) <= size /\ \A n \in 1 .. Len(layout) : n \in 1 .. size
      BY <2>4, <2>5, <2>6
    <3>2. \A n \in Len(layout) + 1 .. size : n \in 1 .. size
      BY <2>4, <2>5
    <3>3. QED
      BY <2>3, <2>8, <2>9, <3>1, <3>2 DEF Prolongs
  <2>12. corpus' # corpus
    <3>1. SUFFICES ASSUME keys' = keys, texts' = texts
                   PROVE  FALSE
      BY DEF corpus
    <3>2. layout' = layout
      <4>1. BuildLayout(keys, texts) = layout
        BY <2>4, LayoutIsBuilt
      <4>2. BuildLayout(keys', texts') = layout'
        BY <2>9, LayoutIsBuilt
      <4>3. QED
        BY <3>1, <4>1, <4>2
    <3>3. Len(Appended(batch)) = 0
      BY <2>4, <2>5, <2>6, <2>8, <3>2
    <3>4. ASSUME NEW x \in DOMAIN batch
          PROVE  BookMatches(batch[x])
      <4>1. x \in 1 .. Len(batch) /\ Replacement(batch, batch[x].slug) = batch[x]
        BY <2>2 DEF IsBatch
      <4>2. batch[x].slug \in SlugsOf(layout)
        <5>1. SUFFICES ASSUME batch[x].slug \notin SlugsOf(layout)
                       PROVE  FALSE
          OBVIOUS
        <5>2. \E i \in 1 .. Len(Appended(batch)) : Appended(batch)[i] = batch[x]
          BY <2>2, <4>1, <5>1, AppendedBlocks
        <5>3. QED
          BY <3>3, <5>2
      <4>3. PICK n \in 1 .. Len(layout) : layout[n].slug = batch[x].slug
        BY <2>4, <4>2 DEF SlugsOf
      <4>4. pieces[n] = FreshPiece(batch[x])
        <5>1. layout[n].slug \in SlugsOf(batch)
          BY <4>3 DEF SlugsOf
        <5>2. QED
          BY <2>5, <4>1, <4>3, <5>1 DEF PieceOf
      <4>5. HoldsPiece(layout[n], pieces[n], keys, texts)
        <5>1. n \in 1 .. size
          BY <2>4, <2>5, <3>3
        <5>2. QED
          BY <2>9, <3>1, <3>2, <5>1
      <4>6. Slice(keys, layout[n]) = batch[x].keys /\ Slice(texts, layout[n]) = batch[x].texts
        BY <4>4, <4>5 DEF HoldsPiece, FreshPiece
      <4>7. QED
        BY <2>4, <4>3, <4>6 DEF BookMatches
    <3>5. QED
      BY <1>4, <3>4
  <2>13. FollowsBatch(batch)
    <3>1. SUFFICES ASSUME NEW s \in SlugsOf(layout') \ SlugsOf(layout),
                          NEW t \in SlugsOf(layout') \ SlugsOf(layout), Precedes(batch, s, t)
                   PROVE  Precedes(layout', s, t)
      BY DEF FollowsBatch
    <3>2. PICK m, n \in 1 .. Len(batch) : m < n /\ batch[m].slug = s /\ batch[n].slug = t
      BY <2>2, <3>1 DEF Precedes, IsBatch
    <3>3. PICK i, j \in 1 .. Len(Appended(batch)) :
                  i < j /\ Appended(batch)[i] = batch[m] /\ Appended(batch)[j] = batch[n]
      BY <2>2, <3>2, AppendedOrder
    <3> DEFINE k == Len(layout)
               a == k + i
               b == k + j
    <3>4. a \in 1 .. size /\ b \in 1 .. size /\ a < b
      BY <2>4, <2>5, <2>6, <3>3
    <3>5. layout'[a].slug = s /\ layout'[b].slug = t
      BY <2>3, <2>9, <3>2, <3>3, <3>4
    <3>6. DOMAIN layout' = 1 .. size
      BY <2>1, <2>5 DEF Laid
    <3> HIDE DEF a, b
    <3>7. QED
      BY <3>4, <3>5, <3>6 DEF Precedes
  <2>14. QED
    BY <2>1, <2>10, <2>11, <2>12, <2>13
<1>5. QED
  BY <1>1, <1>2, <1>3, <1>4

LEMMA ReplacedCorpusIs ==
    ASSUME CorpusAssumption, Sound(keys, texts, layout), NEW held \in Corpora, ReplaceCorpus(held)
    PROVE  \/ Kept /\ effect' = "Rejected"
           \/ Kept /\ effect' = "Unchanged"
           \/ /\ effect' = "Changed" /\ corpus' # corpus /\ Sound(keys', texts', layout')
<1>1. CASE ~ Accepted(held.keys, held.texts)
  BY <1>1 DEF ReplaceCorpus, Refuse, Kept
<1>2. CASE Accepted(held.keys, held.texts) /\ <<held.keys, held.texts>> = corpus
  BY <1>2 DEF ReplaceCorpus, Refuse, Kept
<1>3. CASE Accepted(held.keys, held.texts) /\ <<held.keys, held.texts>> # corpus
  <2>1. /\ keys' = held.keys /\ texts' = held.texts
        /\ layout' = BuildLayout(held.keys, held.texts) /\ effect' = "Changed"
    BY <1>3 DEF ReplaceCorpus
  <2>2. Sound(held.keys, held.texts, BuildLayout(held.keys, held.texts))
    BY <1>3, AcceptedSound
  <2>3. Sound(keys', texts', layout')
    BY <2>1, <2>2
  <2>4. corpus' # corpus
    BY <1>3, <2>1 DEF corpus
  <2>5. QED
    BY <2>1, <2>3, <2>4
<1>4. QED
  BY <1>1, <1>2, <1>3

(***************************************************************************)
(* What a range holds is all the corpus holds of its key.                  *)
(***************************************************************************)
Picks(ks, wanted, r) ==
    /\ r.first \in 1 .. Len(ks) + 1 /\ r.next \in r.first .. Len(ks) + 1
    /\ \A i \in 1 .. Len(ks) : ks[i] \in wanted <=> i \in r.first .. r.next - 1

LEMMA PickedVerses ==
    ASSUME NEW ks, NEW ts, IsCorpus(ks, ts), NEW wanted, NEW r, Picks(ks, wanted, r)
    PROVE  Selected(Verses(ks, ts), wanted \X ToSet(ts)) = Verses(Slice(ks, r), Slice(ts, r))
<1> DEFINE N == Len(ks)
           f == r.first
           g == r.next
           s == Verses(ks, ts)
           S == wanted \X ToSet(ts)
           T == Key \X Texts
           a == SubSeq(ks, f, g - 1)
           b == SubSeq(ts, f, g - 1)
<1>1. /\ ks \in Seq(Key) /\ ts \in Seq(Texts) /\ Len(ts) = N /\ N \in Nat
      /\ DOMAIN ks = 1 .. N /\ DOMAIN ts = 1 .. N
  BY DEF IsCorpus
<1>2. /\ f \in 1 .. N + 1 /\ g \in f .. N + 1
      /\ \A i \in 1 .. N : ks[i] \in wanted <=> i \in f .. g - 1
  BY DEF Picks
<1>3. s = [i \in 1 .. N |-> <<ks[i], ts[i]>>]
  BY <1>1 DEF Verses
<1>4. s \in Seq(T) /\ Len(s) = N /\ \A i \in 1 .. N : s[i] = <<ks[i], ts[i]>>
  <2>1. \A i \in 1 .. N : ks[i] \in Key /\ ts[i] \in Texts
    BY <1>1
  <2>2. s \in [1 .. N -> T]
    BY <1>3, <2>1
  <2>3. QED
    BY <1>1, <1>3, <2>2
<1>5. \A i \in 1 .. N : s[i] \in S <=> i \in f .. g - 1
  <2>1. \A i \in 1 .. N : ts[i] \in ToSet(ts)
    BY <1>1 DEF ToSet
  <2>2. QED
    BY <1>2, <1>4, <2>1
<1>6. Verses(Slice(ks, r), Slice(ts, r)) = Verses(a, b)
  BY DEF Slice
<1> HIDE DEF s, S, T
<1>7. Selected(s, S) = SubSeq(s, f, g - 1)
  <2>1. Between(s, S, f, g)
    BY <1>2, <1>4, <1>5 DEF Between
  <2>2. QED
    BY <1>4, <2>1, SelectedRun
<1> HIDE DEF f, g, N
<1>8. f \in 1 .. Len(ks) + 1 /\ g \in f .. Len(ks) + 1 /\ f \in 1 .. Len(ts) + 1
      /\ g \in f .. Len(ts) + 1 /\ f \in 1 .. Len(s) + 1 /\ g \in f .. Len(s) + 1
  BY <1>1, <1>2, <1>4 DEF N
<1>9. a \in Seq(Key) /\ Len(a) = g - f /\ \A i \in 1 .. g - f : a[i] = ks[f + i - 1]
  BY <1>1, <1>8, SliceIn
<1>10. b \in Seq(Texts) /\ Len(b) = g - f /\ \A i \in 1 .. g - f : b[i] = ts[f + i - 1]
  BY <1>1, <1>8, SliceIn
<1> DEFINE t == SubSeq(s, f, g - 1)
           v == Verses(a, b)
<1>11. t \in Seq(T) /\ Len(t) = g - f /\ \A i \in 1 .. g - f : t[i] = s[f + i - 1]
  BY <1>4, <1>8, SliceIn
<1> DEFINE L == g - f
<1>12. L \in Nat /\ \A i \in 1 .. L : f + i - 1 \in 1 .. N
  <2>1. f \in Nat /\ g \in Nat /\ f >= 1 /\ f <= g /\ g <= N + 1
    BY <1>1, <1>2
  <2>2. QED
    BY <1>1, <2>1
<1> HIDE DEF t, a, b, L
<1>13. v = [i \in 1 .. L |-> <<a[i], b[i]>>]
  BY <1>9 DEF Verses, L
<1>14. v \in Seq(T) /\ Len(v) = L /\ \A i \in 1 .. L : v[i] = <<a[i], b[i]>>
  <2>1. \A i \in 1 .. L : a[i] \in Key /\ b[i] \in Texts
    BY <1>9, <1>10 DEF L
  <2>2. v \in [1 .. L -> T]
    BY <1>13, <2>1 DEF T
  <2>3. QED
    BY <1>12, <1>13, <2>2
<1> HIDE DEF v
<1>15. \A i \in 1 .. L : t[i] = v[i]
  <2>1. SUFFICES ASSUME NEW i \in 1 .. L
                 PROVE  t[i] = v[i]
    OBVIOUS
  <2> DEFINE j == f + i - 1
  <2>2. j \in 1 .. N /\ t[i] = s[j] /\ a[i] = ks[j] /\ b[i] = ts[j]
    BY <1>9, <1>10, <1>11, <1>12 DEF L
  <2> HIDE DEF j
  <2>3. QED
    BY <1>4, <1>14, <2>2
<1>16. t = v
  <2>1. t \in Seq(T) /\ Len(t) = L
    BY <1>11 DEF L
  <2>2. QED
    BY <1>14, <1>15, <2>1, SeqEqual
<1>17. QED
  BY <1>6, <1>7, <1>16 DEF t, v, s, S

LEMMA BookHeld ==
    ASSUME Sound(keys, texts, layout), NEW block, BookMatches(block)
    PROVE  Holds(block, { key \in ToSet(keys) : key.book = block.slug })
<1> DEFINE wanted == { key \in ToSet(keys) : key.book = block.slug }
<1>1. /\ IsCorpus(keys, texts) /\ IsLayout(layout, keys, texts) /\ DOMAIN layout = 1 .. Len(layout)
      /\ \A n \in 1 .. Len(layout) : IsBook(layout[n], keys, texts)
  BY SoundBooks
<1>2. PICK n \in 1 .. Len(layout) : /\ layout[n].slug = block.slug
                                    /\ Slice(keys, layout[n]) = block.keys
                                    /\ Slice(texts, layout[n]) = block.texts
  BY <1>1 DEF BookMatches
<1>3. Naming(keys, block.slug) = layout[n].first .. layout[n].next - 1
  BY <1>1, <1>2, BookNamed
<1>4. DOMAIN keys = 1 .. Len(keys) /\ Len(keys) \in Nat
  BY <1>1 DEF IsCorpus
<1>5. Picks(keys, wanted, layout[n])
  <2> DEFINE b == layout[n]
             f == b.first
             g == b.next
  <2>1. f \in 1 .. Len(keys) /\ g \in f + 1 .. Len(keys) + 1
    BY <1>1, <1>2 DEF IsBook
  <2>2. \A i \in 1 .. Len(keys) : keys[i] \in wanted <=> i \in f .. g - 1
    <3>1. \A i \in 1 .. Len(keys) : keys[i] \in ToSet(keys)
      BY <1>4 DEF ToSet
    <3>2. QED
      BY <1>3, <1>4, <3>1 DEF Naming
  <2> HIDE DEF f, g, b, wanted
  <2>3. f \in 1 .. Len(keys) + 1 /\ g \in f .. Len(keys) + 1
    BY <1>4, <2>1
  <2>4. QED
    BY <2>2, <2>3 DEF Picks, f, g, b
<1> HIDE DEF wanted
<1>6. Selected(Verses(keys, texts), wanted \X ToSet(texts))
         = Verses(Slice(keys, layout[n]), Slice(texts, layout[n]))
  BY <1>1, <1>5, PickedVerses
<1>7. QED
  BY <1>2, <1>6 DEF Holds, wanted

(* Verses of one key are those of one chapter.                             *)
LEMMA ChapterNamed ==
    ASSUME NEW ks, NEW ts, IsCorpus(ks, ts), NEW books, IsLayout(books, ks, ts),
           NEW n \in 1 .. Len(books), NEW run, IsChapterOf(run, books[n]),
           NEW i \in 1 .. Len(ks)
    PROVE  ks[i] = [book |-> books[n].slug, chapter |-> run.chapter]
              <=> i \in run.first .. run.next - 1
<1> DEFINE b == books[n]
           chs == b.chapters
           f == b.first
           g == b.next
<1>1. IsBook(b, ks, ts) /\ ks \in Seq(Key) /\ Len(ks) \in Nat /\ DOMAIN ks = 1 .. Len(ks)
  BY DEF IsLayout, IsCorpus
<1>2. /\ ks[run.first] = [book |-> b.slug, chapter |-> run.chapter]
      /\ \A j \in run.first .. run.next - 1 : ks[j] = ks[run.first]
  BY <1>1, RunOfBook
<1>3. ASSUME ks[i] = ks[run.first]
      PROVE  i \in run.first .. run.next - 1
  <2>1. Naming(ks, b.slug) = f .. g - 1
    BY BookNamed
  <2>2. i \in f .. g - 1
    <3>1. ks[i].book = b.slug
      BY <1>2, <1>3
    <3>2. QED
      BY <1>1, <2>1, <3>1 DEF Naming
  <2>3. Chained(chs, f, g) /\ Coloured(chs, ks) /\ Apart(chs, ks)
    BY <1>1 DEF IsBook
  <2> HIDE DEF f, g, chs, b
  <2>4. PICK m \in 1 .. Len(chs) : i \in chs[m].first .. chs[m].next - 1
    BY <2>2, <2>3, ChainCovers
  <2>5. PICK l \in 1 .. Len(chs) : chs[l] = run
    BY DEF IsChapterOf, chs, b
  <2>6. ks[i] = ks[chs[m].first]
    BY <2>3, <2>4 DEF Coloured
  <2>7. m = l
    BY <1>3, <2>3, <2>5, <2>6 DEF Apart
  <2>8. QED
    BY <2>4, <2>5, <2>7
<1>4. QED
  BY <1>2, <1>3

LEMMA ChapterHeld ==
    ASSUME Sound(keys, texts, layout), NEW block, HasRun(block)
    PROVE  Holds(block, { [book |-> block.slug, chapter |-> block.chapter] })
<1> DEFINE wanted == { [book |-> block.slug, chapter |-> block.chapter] }
<1>1. /\ IsCorpus(keys, texts) /\ IsLayout(layout, keys, texts)
      /\ \A n \in 1 .. Len(layout) : IsBook(layout[n], keys, texts)
  BY SoundBooks
<1>2. PICK n \in 1 .. Len(layout) : \E run :
        /\ IsChapterOf(run, layout[n])
        /\ layout[n].slug = block.slug /\ run.chapter = block.chapter
        /\ Slice(keys, run) = block.keys /\ Slice(texts, run) = block.texts
  BY DEF HasRun
<1>3. PICK run :
        /\ IsChapterOf(run, layout[n])
        /\ layout[n].slug = block.slug /\ run.chapter = block.chapter
        /\ Slice(keys, run) = block.keys /\ Slice(texts, run) = block.texts
  BY <1>2
<1>4. \A i \in 1 .. Len(keys) :
         keys[i] = [book |-> layout[n].slug, chapter |-> run.chapter] <=> i \in run.first .. run.next - 1
  BY <1>1, <1>3, ChapterNamed
<1>5. Picks(keys, wanted, run)
  <2> DEFINE f == run.first
             g == run.next
  <2>1. f \in 1 .. Len(keys) /\ g \in f .. Len(keys) + 1
    BY <1>1, <1>3, RunOfBook
  <2>2. \A i \in 1 .. Len(keys) : keys[i] \in wanted <=> i \in f .. g - 1
    BY <1>3, <1>4
  <2>3. Len(keys) \in Nat
    BY <1>1 DEF IsCorpus
  <2> HIDE DEF f, g, wanted
  <2>4. f \in 1 .. Len(keys) + 1
    BY <2>1, <2>3
  <2>5. QED
    BY <2>1, <2>2, <2>4 DEF Picks, f, g
<1> HIDE DEF wanted
<1>6. Selected(Verses(keys, texts), wanted \X ToSet(texts))
         = Verses(Slice(keys, run), Slice(texts, run))
  BY <1>1, <1>5, PickedVerses
<1>7. QED
  BY <1>3, <1>6 DEF Holds, wanted

(***************************************************************************)
(* Addresses.                                                              *)
(***************************************************************************)
(* The ranges that end at or before g number those before the one that      *)
(* holds it.                                                               *)
LEMMA ChainLocates ==
    ASSUME NEW s, NEW a, NEW e, Chained(s, a, e), NEW n \in 1 .. Len(s),
           NEW g \in s[n].first .. s[n].next - 1
    PROVE  1 + Cardinality({ m \in DOMAIN s : s[m].next <= g }) = n
<1> DEFINE k == Len(s)
<1>1. /\ k \in Nat /\ DOMAIN s = 1 .. k /\ n \in 1 .. k
      /\ \A m \in 1 .. k : s[m].first \in Nat /\ s[m].next \in Nat /\ s[m].first < s[m].next
  BY DEF Chained
<1>2. \A l \in 1 .. k : \A m \in 1 .. l - 1 : s[m].next <= s[l].first
  BY ChainOrder
<1>3. g \in Nat /\ s[n].first <= g /\ g < s[n].next
  BY <1>1
<1> HIDE DEF k
<1>4. ASSUME NEW m \in 1 .. k
      PROVE  s[m].next <= g <=> m \in 1 .. n - 1
  <2>1. CASE m \in 1 .. n - 1
    <3>1. s[m].next <= s[n].first
      BY <1>1, <1>2, <2>1
    <3>2. QED
      BY <1>1, <1>3, <2>1, <3>1
  <2>2. CASE m = n
    BY <1>1, <1>3, <2>2
  <2>3. CASE n \in 1 .. m - 1
    <3>1. s[n].next <= s[m].first
      BY <1>1, <1>2, <2>3
    <3>2. QED
      BY <1>1, <1>3, <2>3, <3>1
  <2>4. m \in 1 .. n - 1 \/ m = n \/ n \in 1 .. m - 1
    BY <1>1
  <2>5. QED
    BY <2>1, <2>2, <2>3, <2>4
<1>5. { m \in DOMAIN s : s[m].next <= g } = 1 .. n - 1
  <2>1. \A m \in 1 .. n - 1 : m \in 1 .. k
    BY <1>1
  <2>2. QED
    BY <1>1, <1>4, <2>1
<1>6. Cardinality(1 .. n - 1) = n - 1
  <2>1. 1 \in Int /\ n - 1 \in Int /\ (1 > n - 1 => n - 1 = 0) /\ (n - 1) - 1 + 1 = n - 1
    BY <1>1
  <2>2. QED
    BY <2>1, FS_Interval
<1>7. n \in Nat /\ 1 + (n - 1) = n
  BY <1>1
<1>8. QED
  BY <1>5, <1>6, <1>7, Zenon

(* A chain has no more ranges than positions.                              *)
LEMMA ChainReach ==
    ASSUME NEW s, NEW a, NEW e, Chained(s, a, e)
    PROVE  \A n \in 1 .. Len(s) : a + n <= s[n].next
<1> DEFINE k == Len(s)
           P == { n \in 0 .. k : n = 0 \/ a + n <= s[n].next }
<1>1. /\ k \in Nat /\ a \in Nat
      /\ \A n \in 1 .. k : s[n].first \in Nat /\ s[n].next \in Nat /\ s[n].first < s[n].next
      /\ \A n \in 2 .. k : s[n].first = s[n - 1].next
      /\ k # 0 => s[1].first = a
  BY DEF Chained
<1> HIDE DEF k
<1>2. 0 \in P
  BY <1>1
<1>3. ASSUME NEW n \in 0 .. k - 1, n \in P
      PROVE  n + 1 \in P
  <2> DEFINE j == n + 1
  <2>1. j \in 1 .. k /\ j \in 0 .. k /\ j - 1 = n /\ (n = 0 => j = 1) /\ (n # 0 => j \in 2 .. k)
        /\ (n # 0 => n \in 1 .. k) /\ j = n + 1 /\ n \in Nat /\ k # 0
    BY <1>1
  <2>2. n # 0 => a + n <= s[n].next
    BY <1>3
  <2> HIDE DEF j
  <2>3. a + n <= s[j].first
    BY <1>1, <2>1, <2>2
  <2>4. s[j].first \in Nat /\ s[j].next \in Nat /\ s[j].first < s[j].next
    BY <1>1, <2>1
  <2>5. a + j <= s[j].next
    BY <1>1, <2>1, <2>3, <2>4
  <2>6. QED
    BY <2>1, <2>5 DEF j
<1>4. 0 .. k \subseteq P
  <2> HIDE DEF P
  <2>1. QED
    BY <1>1, <1>2, <1>3, UpTo
<1>5. \A n \in 1 .. k : n \in 0 .. k /\ n # 0
  BY <1>1
<1>6. QED
  BY <1>4, <1>5 DEF k

LEMMA SoundLocates ==
    ASSUME Sound(keys, texts, layout)
    PROVE  LocateInverts
<1> SUFFICES ASSUME NEW g \in DOMAIN keys
             PROVE  LET at == Locate(g)
                    IN /\ { c.first + at.local : c \in ChapterRanges(at.slug, at.chapter) } = {g}
                       /\ \A c \in ChapterRanges(at.slug, at.chapter) :
                             at.local \in 0 .. c.next - c.first - 1
  BY DEF LocateInverts
<1> DEFINE N == Len(keys)
           e == N + 1
<1>1. /\ IsCorpus(keys, texts) /\ IsLayout(layout, keys, texts)
      /\ DOMAIN layout = 1 .. Len(layout) /\ N \in Nat
      /\ \A n \in 1 .. Len(layout) : IsBook(layout[n], keys, texts)
      /\ \A m, n \in 1 .. Len(layout) : layout[m].slug = layout[n].slug => m = n
  BY SoundBooks
<1>2. Chained(layout, 1, e) /\ g \in 1 .. e - 1
  BY <1>1 DEF IsLayout, IsCorpus
<1> HIDE DEF e
<1>3. PICK n \in 1 .. Len(layout) : g \in layout[n].first .. layout[n].next - 1
  BY <1>2, ChainCovers
<1> DEFINE b == layout[n]
           chs == b.chapters
<1>4. IsBook(b, keys, texts)
  BY <1>1, <1>3
<1>5. /\ Chained(chs, b.first, b.next) /\ Coloured(chs, keys) /\ Apart(chs, keys)
      /\ b.first \in 1 .. N /\ b.next \in b.first + 1 .. N + 1
      /\ \A i \in b.first .. b.next - 1 : keys[i].book = b.slug
      /\ \A m \in 1 .. Len(chs) : chs[m] = ChapterOf(keys, texts, chs[m].first, chs[m].next)
  BY <1>4 DEF IsBook
<1>6. DOMAIN chs = 1 .. Len(chs) /\ Len(chs) \in Nat
      /\ \A m \in 1 .. Len(chs) : chs[m].first \in Nat /\ chs[m].next \in Nat /\ chs[m].first < chs[m].next
  BY <1>5 DEF Chained
<1>7. PICK m \in 1 .. Len(chs) : g \in chs[m].first .. chs[m].next - 1
  <2> DEFINE x == b.first
             y == b.next
  <2>1. Chained(chs, x, y) /\ g \in x .. y - 1
    BY <1>3, <1>5
  <2> HIDE DEF x, y, chs
  <2>2. QED
    BY <2>1, ChainCovers
<1> DEFINE c == chs[m]
           at == [slug |-> b.slug, chapter |-> c.chapter, local |-> g - c.first]
<1>8. 1 + Cardinality({ i \in DOMAIN layout : layout[i].next <= g }) = n
  BY <1>2, <1>3, ChainLocates
<1>9. 1 + Cardinality({ i \in DOMAIN chs : chs[i].next <= g }) = m
  <2> DEFINE x == b.first
             y == b.next
  <2>1. Chained(chs, x, y)
    BY <1>5
  <2> HIDE DEF x, y, chs
  <2>2. QED
    BY <1>7, <2>1, ChainLocates
<1>10. Locate(g) = at
  BY <1>8, <1>9 DEF Locate
<1>11. m \in 1 .. N
  <2> DEFINE x == b.first
             y == b.next
  <2>1. Chained(chs, x, y) /\ x \in 1 .. N /\ y \in x + 1 .. N + 1
    BY <1>5
  <2>2. x + m <= c.next /\ c.next <= y
    <3> HIDE DEF x, y, chs
    <3>1. \A i \in 1 .. Len(chs) : x + i <= chs[i].next
      BY <2>1, ChainReach
    <3>2. \A i \in 1 .. Len(chs) : chs[i].next <= y
      BY <2>1, ChainOrder
    <3>3. QED
      BY <1>7, <3>1, <3>2
  <2>3. m \in Nat /\ m >= 1 /\ c.next \in Nat
    BY <1>6, <1>7
  <2> HIDE DEF x, y, c
  <2>4. QED
    BY <1>1, <2>1, <2>2, <2>3
<1>12. Located(b.slug, c.chapter) = { <<n, m>> }
  <2>1. <<n, m>> \in Located(b.slug, c.chapter)
    BY <1>1, <1>3, <1>6, <1>7, <1>11 DEF Located
  <2>2. ASSUME NEW to \in Located(b.slug, c.chapter)
        PROVE  to = <<n, m>>
    <3>1. PICK i \in DOMAIN layout, j \in 1 .. Len(keys) : to = <<i, j>>
      BY <2>2 DEF Located
    <3>2. /\ layout[i].slug = b.slug
          /\ j \in DOMAIN layout[i].chapters
          /\ layout[i].chapters[j].chapter = c.chapter
      BY <2>2, <3>1 DEF Located
    <3>3. i = n
      BY <1>1, <1>3, <3>1, <3>2
    <3>4. j \in 1 .. Len(chs) /\ chs[j].chapter = c.chapter
      BY <1>6, <3>2, <3>3
    <3>5. IsChapterOf(chs[j], b) /\ IsChapterOf(c, b)
      BY <1>7, <3>4 DEF IsChapterOf
    <3> HIDE DEF b
    <3>6. keys[chs[j].first] = [book |-> b.slug, chapter |-> chs[j].chapter]
      BY <1>1, <1>4, <3>5, RunOfBook
    <3>7. keys[c.first] = [book |-> b.slug, chapter |-> c.chapter]
      BY <1>1, <1>4, <3>5, RunOfBook
    <3>8. keys[chs[j].first] = keys[chs[m].first]
      BY <3>4, <3>6, <3>7
    <3>9. j = m
      BY <1>5, <1>7, <3>4, <3>8 DEF Apart
    <3>10. QED
      BY <3>1, <3>3, <3>9
  <2>3. QED
    BY <2>1, <2>2
<1>13. ChapterRanges(b.slug, c.chapter) = {c}
  BY <1>12 DEF ChapterRanges
<1>14. c.first + (g - c.first) = g /\ g - c.first \in 0 .. c.next - c.first - 1
  <2>1. c.first \in Nat /\ c.next \in Nat /\ g \in c.first .. c.next - 1
    BY <1>6, <1>7
  <2> HIDE DEF c
  <2>2. QED
    BY <2>1
<1>15. at.slug = b.slug /\ at.chapter = c.chapter /\ at.local = g - c.first
  OBVIOUS
<1> HIDE DEF at, c, b
<1>16. QED
  BY <1>10, <1>13, <1>14, <1>15

(***************************************************************************)
(* Every step.                                                             *)
(***************************************************************************)
IsStep ==
    \/ Kept /\ effect' \in {"Rejected", "Unchanged"}
    \/ effect' = "Changed" /\ corpus' # corpus /\ Sound(keys', texts', layout')

OrderKept ==
    /\ \A s, t \in SlugsOf(layout) \cap SlugsOf(layout') :
          Precedes(layout, s, t) => Precedes(layout', s, t)
    /\ \A s \in SlugsOf(layout) \cap SlugsOf(layout'),
          t \in SlugsOf(layout') \ SlugsOf(layout) : Precedes(layout', s, t)

LEMMA DescentOrder ==
    ASSUME Sound(keys, texts, layout), Sound(keys', texts', layout'),
           NEW old, IsDescent(old, layout', layout)
    PROVE  OrderKept
<1>1. /\ DOMAIN layout = 1 .. Len(layout) /\ Len(layout) \in Nat
      /\ \A m, n \in 1 .. Len(layout) : layout[m].slug = layout[n].slug => m = n
  BY SoundBooks
<1>2. DOMAIN layout' = 1 .. Len(layout') /\ Len(layout') \in Nat
  <2>1. layout' \in Seq(BookRecords)
    BY DEF Sound, IsLayout
  <2>2. QED
    BY <2>1
<1>3. /\ \A i \in 1 .. Len(layout') : old[i] \in 1 .. Len(layout) /\ layout'[i].slug = layout[old[i]].slug
      /\ \A i, j \in 1 .. Len(layout') : i < j => old[i] < old[j]
  BY DEF IsDescent
<1>4. ASSUME NEW s \in SlugsOf(layout) \cap SlugsOf(layout'),
             NEW t \in SlugsOf(layout) \cap SlugsOf(layout'), Precedes(layout, s, t)
      PROVE  Precedes(layout', s, t)
  <2>1. PICK m \in 1 .. Len(layout), n \in 1 .. Len(layout) :
               m < n /\ layout[m].slug = s /\ layout[n].slug = t
    BY <1>1, <1>4 DEF Precedes
  <2>2. PICK i \in 1 .. Len(layout') : layout'[i].slug = s
    BY <1>2, <1>4 DEF SlugsOf
  <2>3. PICK j \in 1 .. Len(layout') : layout'[j].slug = t
    BY <1>2, <1>4 DEF SlugsOf
  <2>4. old[i] = m /\ old[j] = n
    BY <1>1, <1>3, <2>1, <2>2, <2>3
  <2>5. ~ (i = j) /\ ~ (j < i)
    BY <1>1, <1>3, <2>1, <2>4
  <2>6. i < j
    BY <1>2, <2>5
  <2>7. QED
    BY <1>2, <2>2, <2>3, <2>6 DEF Precedes
<1>5. SlugsOf(layout') \subseteq SlugsOf(layout)
  <2>1. SUFFICES ASSUME NEW i \in 1 .. Len(layout')
                 PROVE  layout'[i].slug \in SlugsOf(layout)
    BY <1>2 DEF SlugsOf
  <2>2. QED
    BY <1>1, <1>3 DEF SlugsOf
<1>6. QED
  BY <1>4, <1>5 DEF OrderKept

LEMMA ProlongedOrder ==
    ASSUME Sound(keys, texts, layout), Sound(keys', texts', layout'), Prolongs(layout', layout)
    PROVE  OrderKept
<1> DEFINE k == Len(layout)
           l == Len(layout')
<1>1. DOMAIN layout = 1 .. k /\ k \in Nat
  BY SoundBooks
<1>2. DOMAIN layout' = 1 .. l /\ l \in Nat
  <2>1. layout' \in Seq(BookRecords)
    BY DEF Sound, IsLayout
  <2>2. QED
    BY <2>1
<1>3. /\ k <= l
      /\ \A n \in 1 .. k : layout'[n].slug = layout[n].slug
      /\ \A n \in k + 1 .. l : layout'[n].slug \notin SlugsOf(layout)
  BY DEF Prolongs
<1> HIDE DEF k, l
<1>4. \A n \in 1 .. k : n \in 1 .. l
  BY <1>1, <1>2, <1>3
<1>5. ASSUME NEW s, NEW t, Precedes(layout, s, t)
      PROVE  Precedes(layout', s, t)
  <2>1. PICK m \in 1 .. k, n \in 1 .. k : m < n /\ layout[m].slug = s /\ layout[n].slug = t
    BY <1>1, <1>5 DEF Precedes
  <2>2. QED
    BY <1>2, <1>3, <1>4, <2>1 DEF Precedes
<1>6. ASSUME NEW s \in SlugsOf(layout), NEW t \in SlugsOf(layout') \ SlugsOf(layout)
      PROVE  Precedes(layout', s, t)
  <2>1. PICK m \in 1 .. k : layout[m].slug = s
    BY <1>1 DEF SlugsOf
  <2>2. PICK n \in 1 .. l : layout'[n].slug = t
    BY <1>2 DEF SlugsOf
  <2>3. n \notin 1 .. k
    <3>1. n \in 1 .. k => t \in SlugsOf(layout)
      BY <1>1, <1>3, <2>2 DEF SlugsOf
    <3>2. QED
      BY <1>6, <3>1
  <2>4. m < n
    BY <1>1, <1>2, <2>3
  <2>5. QED
    BY <1>2, <1>3, <1>4, <2>1, <2>2, <2>4 DEF Precedes
<1>7. QED
  BY <1>5, <1>6 DEF OrderKept

LEMMA KeptOrder ==
    ASSUME Kept
    PROVE  OrderKept
<1>1. layout' = layout
  BY DEF Kept
<1>2. QED
  BY <1>1 DEF OrderKept

LEMMA StepIs ==
    ASSUME CorpusAssumption, IInv, Next
    PROVE  IsStep /\ ((\E held \in Corpora : ReplaceCorpus(held)) \/ OrderKept)
<1>1. Sound(keys, texts, layout)
  BY DEF IInv
<1>2. CASE \E held \in Corpora : ReplaceCorpus(held)
  <2>1. PICK held \in Corpora : ReplaceCorpus(held)
    BY <1>2
  <2>2. QED
    BY <1>1, <1>2, <2>1, ReplacedCorpusIs DEF IsStep
<1>3. CASE \E batch \in Batches : ReplaceBooks(batch)
  <2>1. PICK batch \in Batches : ReplaceBooks(batch)
    BY <1>3
  <2>2. \/ Kept /\ effect' = "Rejected"
        \/ Kept /\ effect' = "Unchanged"
        \/ /\ effect' = "Changed" /\ corpus' # corpus
           /\ Sound(keys', texts', layout') /\ Prolongs(layout', layout)
    BY <1>1, <2>1, ReplacedBooksIs
  <2>3. CASE Kept /\ effect' \in {"Rejected", "Unchanged"}
    BY <2>3, KeptOrder DEF IsStep
  <2>4. CASE /\ effect' = "Changed" /\ corpus' # corpus
             /\ Sound(keys', texts', layout') /\ Prolongs(layout', layout)
    BY <1>1, <2>4, ProlongedOrder DEF IsStep
  <2>5. QED
    BY <2>2, <2>3, <2>4
<1>4. CASE \E block \in Runs : ReplaceChapter(block)
  <2>1. PICK block \in Runs : ReplaceChapter(block)
    BY <1>4
  <2>2. \/ Kept /\ effect' \in {"Rejected", "Unchanged"}
        \/ /\ effect' = "Changed" /\ corpus' # corpus /\ Len(keys') <= MaxVerses
           /\ \E n, mid, d : /\ IsResplicing(n, mid, d)
                             /\ \A i \in 1 .. Len(mid) : Width(mid[i]) <= MaxBook
    BY <1>1, <2>1, ReplacedChapterIs
  <2>3. CASE Kept /\ effect' \in {"Rejected", "Unchanged"}
    BY <2>3, KeptOrder DEF IsStep
  <2>4. CASE /\ effect' = "Changed" /\ corpus' # corpus /\ Len(keys') <= MaxVerses
             /\ \E n, mid, d : /\ IsResplicing(n, mid, d)
                               /\ \A i \in 1 .. Len(mid) : Width(mid[i]) <= MaxBook
    <3>1. PICK n, mid, d : /\ IsResplicing(n, mid, d)
                           /\ \A i \in 1 .. Len(mid) : Width(mid[i]) <= MaxBook
      BY <2>4
    <3>2. Sound(keys', texts', layout') /\ \E old : IsDescent(old, layout', layout)
      BY <1>1, <2>4, <3>1, ResplicingSound
    <3>3. QED
      BY <1>1, <2>4, <3>2, DescentOrder DEF IsStep
  <2>5. QED
    BY <2>2, <2>3, <2>4
<1>5. CASE \E slug \in Slugs : RemoveBook(slug)
  <2>1. PICK slug \in Slugs : RemoveBook(slug)
    BY <1>5
  <2>2. \/ Kept /\ effect' = "Unchanged"
        \/ /\ effect' = "Changed" /\ Len(keys') < Len(keys)
           /\ \E n, d : IsResplicing(n, << >>, d) /\ layout[n].slug = slug
    BY <1>1, <2>1, RemovedIs
  <2>3. CASE Kept /\ effect' = "Unchanged"
    BY <2>3, KeptOrder DEF IsStep
  <2>4. CASE /\ effect' = "Changed" /\ Len(keys') < Len(keys)
             /\ \E n, d : IsResplicing(n, << >>, d) /\ layout[n].slug = slug
    <3>1. PICK n, d : IsResplicing(n, << >>, d)
      BY <2>4
    <3>2. /\ Len(keys) \in Nat /\ Len(keys) <= MaxVerses /\ MaxVerses \in Nat
          /\ Len(keys') \in Nat
      <4>1. IsCorpus(keys', texts')
        BY <3>1 DEF IsResplicing, IsResplice
      <4>2. QED
        BY <1>1, <4>1 DEF Sound, IsCorpus, CorpusAssumption
    <3>3. Len(keys') <= MaxVerses
      BY <2>4, <3>2
    <3>4. \A i \in 1 .. Len(<< >>) : Width(<< >>[i]) <= MaxBook
      OBVIOUS
    <3>5. Sound(keys', texts', layout') /\ \E old : IsDescent(old, layout', layout)
      BY <1>1, <3>1, <3>3, <3>4, ResplicingSound
    <3>6. corpus' # corpus
      <4>1. SUFFICES ASSUME keys' = keys
                     PROVE  FALSE
        BY DEF corpus
      <4>2. Len(keys) < Len(keys)
        BY <2>4, <4>1
      <4>3. QED
        BY <3>2, <4>2
    <3>7. QED
      BY <1>1, <2>4, <3>5, <3>6, DescentOrder DEF IsStep
  <2>5. QED
    BY <2>2, <2>3, <2>4
<1>6. QED
  BY <1>2, <1>3, <1>4, <1>5 DEF Next

LEMMA StepSound ==
    ASSUME CorpusAssumption, IInv, [Next]_vars
    PROVE  IInv'
<1>1. CASE Next
  <2>1. IsStep
    BY <1>1, StepIs
  <2>2. QED
    BY <2>1 DEF IsStep, Kept, IInv, Outcomes
<1>2. CASE UNCHANGED vars
  BY <1>2 DEF vars, IInv
<1>3. QED
  BY <1>1, <1>2

LEMMA Invariance == Spec => []IInv
<1>1. Init => IInv
  BY CorpusAssumption, InitSound
<1>2. IInv /\ [Next]_vars => IInv'
  BY CorpusAssumption, StepSound
<1>3. QED
  BY <1>1, <1>2, PTL DEF Spec

(***************************************************************************)
(* The theorems.                                                           *)
(***************************************************************************)
(* Every key parses and every verse is addressable, the texts stay parallel *)
(* to the keys, and no book is empty.                                      *)
THEOREM TypeCorrect == Spec => []TypeOK
<1>1. ASSUME IInv
      PROVE  TypeOK
  <2>1. /\ IsCorpus(keys, texts) /\ DOMAIN layout = 1 .. Len(layout)
        /\ \A n \in 1 .. Len(layout) : IsBook(layout[n], keys, texts)
    BY <1>1, SoundBooks DEF IInv
  <2>2. /\ keys \in Seq(Key) /\ Len(texts) = Len(keys) /\ Len(keys) \in Nat
        /\ Len(keys) <= MaxVerses /\ MaxVerses \in Nat
    BY <1>1, <2>1, CorpusAssumption DEF IInv, Sound, IsCorpus
  <2>3. \A i \in DOMAIN keys : keys[i].book \in Slugs
    <3>1. \A i \in DOMAIN keys : keys[i] \in Key
      BY <2>2
    <3>2. \A key \in Key : key.book \in Slugs
      BY DEF Key
    <3>3. QED
      BY <3>1, <3>2
  <2>4. ASSUME NEW n \in DOMAIN layout
        PROVE  layout[n].slug \in Slugs /\ layout[n].first < layout[n].next
    <3> DEFINE b == layout[n]
    <3>1. b \in BookRecords /\ b.first \in 1 .. Len(keys) /\ b.next \in b.first + 1 .. Len(keys) + 1
      BY <2>1 DEF IsBook
    <3> HIDE DEF b
    <3>2. b.slug \in Slugs /\ b.first \in Nat /\ b.next \in Nat
      BY <3>1 DEF BookRecords
    <3>3. b.first < b.next
      BY <2>2, <3>1, <3>2
    <3>4. QED
      BY <3>2, <3>3 DEF b
  <2>5. effect \in {"Changed", "Unchanged", "Rejected"}
    BY <1>1 DEF IInv, Outcomes
  <2>6. Len(keys) \in 0 .. MaxVerses
    BY <2>2
  <2>7. QED
    BY <2>2, <2>3, <2>4, <2>5, <2>6 DEF TypeOK
<1>2. QED
  BY <1>1, Invariance, PTL

(* CorpusLayout::splice_books, splice_chapter and remove_book: after any    *)
(* edits, the locally maintained books, chapters, ranges and hashes are    *)
(* those CorpusLayout::build derives from the verses.                      *)
THEOREM LayoutNeverGoesStale == Spec => []LayoutIsFresh
<1>1. ASSUME IInv
      PROVE  LayoutIsFresh
  <2>1. IsCorpus(keys, texts) /\ IsLayout(layout, keys, texts)
    BY <1>1, SoundBooks DEF IInv
  <2>2. QED
    BY <2>1, LayoutIsBuilt DEF LayoutIsFresh
<1>2. QED
  BY <1>1, Invariance, PTL

(* The edits check less than construction does, a block at a time, and yet  *)
(* never leave a corpus try_from_parts would refuse.                       *)
THEOREM EditsStayConstructible == Spec => []StaysConstructible
<1>1. ASSUME IInv
      PROVE  StaysConstructible
  <2>1. /\ IsCorpus(keys, texts) /\ IsLayout(layout, keys, texts)
        /\ \A n \in 1 .. Len(layout) : IsBook(layout[n], keys, texts) /\ Width(layout[n]) <= MaxBook
    BY <1>1, SoundBooks DEF IInv
  <2>2. /\ NoReopenedBook(keys) /\ NoReopenedChapter(keys)
        /\ \A i \in 1 .. Len(keys) : \E n \in 1 .. Len(layout) :
              /\ layout[n].slug = keys[i].book
              /\ BookRun(keys, i) \subseteq layout[n].first .. layout[n].next - 1
    BY <2>1, LayoutAdmits
  <2>3. /\ keys \in Seq(Key) /\ Len(texts) = Len(keys) /\ DOMAIN keys = 1 .. Len(keys)
        /\ Len(keys) <= MaxVerses /\ Len(keys) \in Nat
    BY <1>1, <2>1 DEF IInv, Sound, IsCorpus
  <2>4. Parses(keys)
    BY <2>3, CorpusAssumption DEF Parses
  <2>5. ASSUME NEW i \in DOMAIN keys
        PROVE  Cardinality(BookRun(keys, i)) <= MaxBook
    <3>1. PICK n \in 1 .. Len(layout) : BookRun(keys, i) \subseteq layout[n].first .. layout[n].next - 1
      BY <2>2, <2>3
    <3> DEFINE b == layout[n]
               f == b.first
               g == b.next
               R == f .. g - 1
    <3>2. f \in 1 .. Len(keys) /\ g \in f + 1 .. Len(keys) + 1 /\ g - f <= MaxBook
      BY <2>1, <3>1 DEF IsBook, Width
    <3>3. f \in Nat /\ g \in Nat /\ f < g
      BY <2>3, <3>2
    <3>4. BookRun(keys, i) \subseteq R
      BY <3>1
    <3> HIDE DEF f, g, b
    <3>5. IsFiniteSet(R) /\ Cardinality(R) = g - f
      <4>1. f \in Int /\ g - 1 \in Int /\ ~ (f > g - 1) /\ (g - 1) - f + 1 = g - f
        BY <3>3
      <4>2. QED
        BY <4>1, FS_Interval
    <3>6. Cardinality(BookRun(keys, i)) <= Cardinality(R) /\ IsFiniteSet(BookRun(keys, i))
      <4> HIDE DEF R
      <4>1. QED
        BY <3>4, <3>5, FS_Subset
    <3>7. Cardinality(BookRun(keys, i)) \in Nat
      BY <3>6, FS_CardinalityType
    <3>8. MaxBook \in Nat
      BY CorpusAssumption
    <3> DEFINE x == Cardinality(BookRun(keys, i))
    <3>9. x \in Nat /\ x <= g - f /\ g - f <= MaxBook
      BY <3>2, <3>5, <3>6, <3>7
    <3> HIDE DEF x
    <3>10. x <= MaxBook
      BY <3>3, <3>8, <3>9
    <3>11. QED
      BY <3>10 DEF x
  <2>6. QED
    BY <2>2, <2>3, <2>4, <2>5 DEF StaysConstructible, Accepted
<1>2. QED
  BY <1>1, Invariance, PTL

(* locate and chapter_range invert each other: a verse's chapter-local      *)
(* address leads back to it, through the only run of that name.            *)
THEOREM AddressesInvert == Spec => []LocateInverts
<1>1. IInv => LocateInverts
  BY SoundLocates DEF IInv
<1>2. QED
  BY <1>1, Invariance, PTL

(* MutationEffect tells the truth: Changed exactly when the verses moved,   *)
(* Unchanged only when the corpus already held what was asked for.         *)
THEOREM EffectsAreHonest == Spec => EffectIsHonest
<1> DEFINE Honest ==
        /\ effect' = "Changed" <=> corpus' # corpus
        /\ effect' # "Changed" => layout' = layout
        /\ BecameUnchanged => \A batch \in Batches : ReplaceBooks(batch) =>
               \A n \in DOMAIN batch :
                   Holds(batch[n], { key \in ToSet(keys) : key.book = batch[n].slug })
        /\ BecameUnchanged => \A block \in Runs : ReplaceChapter(block) =>
               Holds(block, { [book |-> block.slug, chapter |-> block.chapter] })
<1>1. ASSUME IInv, Next
      PROVE  Honest
  <2>1. Sound(keys, texts, layout)
    BY <1>1 DEF IInv
  <2>2. IsStep
    BY <1>1, CorpusAssumption, StepIs
  <2>3. (effect' = "Changed" <=> corpus' # corpus) /\ (effect' # "Changed" => layout' = layout)
    BY <2>2 DEF IsStep, Kept, corpus
  <2>4. ASSUME BecameUnchanged, NEW batch \in Batches, ReplaceBooks(batch), NEW n \in DOMAIN batch
        PROVE  Holds(batch[n], { key \in ToSet(keys) : key.book = batch[n].slug })
    <3>1. effect' = "Unchanged"
      BY <2>4 DEF BecameUnchanged
    <3>2. BookMatches(batch[n])
      BY <2>1, <2>4, <3>1, CorpusAssumption, ReplacedBooksIs
    <3>3. QED
      BY <2>1, <3>2, BookHeld
  <2>5. ASSUME BecameUnchanged, NEW block \in Runs, ReplaceChapter(block)
        PROVE  Holds(block, { [book |-> block.slug, chapter |-> block.chapter] })
    <3>1. effect' = "Unchanged"
      BY <2>5 DEF BecameUnchanged
    <3>2. HasRun(block)
      BY <2>1, <2>5, <3>1, CorpusAssumption, ReplacedChapterIs
    <3>3. QED
      BY <2>1, <3>2, ChapterHeld
  <2>6. QED
    BY <2>3, <2>4, <2>5
<1>2. IInv /\ [Next]_vars => [Honest]_vars
  BY <1>1
<1>3. QED
  BY <1>2, Invariance, PTL DEF Spec, EffectIsHonest

(* Edits never reorder the presented books: a replaced book keeps its       *)
(* place, a removed one closes the gap, new ones come last as their batch  *)
(* has them.                                                               *)
THEOREM EditsKeepTheOrder == Spec => PresentedOrderKept
<1> DEFINE Ordering ==
        \/ \E held \in Corpora : ReplaceCorpus(held)
        \/ /\ \A s, t \in SlugsOf(layout) \cap SlugsOf(layout') :
                 Precedes(layout, s, t) => Precedes(layout', s, t)
           /\ \A s \in SlugsOf(layout) \cap SlugsOf(layout'),
                 t \in SlugsOf(layout') \ SlugsOf(layout) : Precedes(layout', s, t)
           /\ \A s, t \in SlugsOf(layout') \ SlugsOf(layout), batch \in Batches :
                 Precedes(batch, s, t) /\ ReplaceBooks(batch) => Precedes(layout', s, t)
<1>1. ASSUME IInv, Next
      PROVE  Ordering
  <2>1. (\E held \in Corpora : ReplaceCorpus(held)) \/ OrderKept
    BY <1>1, CorpusAssumption, StepIs
  <2>2. ASSUME NEW s \in SlugsOf(layout') \ SlugsOf(layout),
               NEW t \in SlugsOf(layout') \ SlugsOf(layout), NEW batch \in Batches,
               Precedes(batch, s, t), ReplaceBooks(batch)
        PROVE  Precedes(layout', s, t)
    <3>1. layout' # layout
      BY <2>2
    <3>2. ~ Kept
      BY <3>1 DEF Kept
    <3>3. Sound(keys, texts, layout)
      BY <1>1 DEF IInv
    <3>4. FollowsBatch(batch)
      BY <2>2, <3>2, <3>3, CorpusAssumption, ReplacedBooksIs
    <3>5. QED
      BY <2>2, <3>4 DEF FollowsBatch
  <2>3. QED
    BY <2>1, <2>2 DEF OrderKept
<1>2. IInv /\ [Next]_vars => [Ordering]_vars
  BY <1>1
<1>3. QED
  BY <1>2, Invariance, PTL DEF Spec, PresentedOrderKept
==============================================================================
