-------------------------- MODULE Publication_proofs --------------------------
(***************************************************************************)
(* Proofs about Publication and the records it sends.  What the decoder    *)
(* reads back shows the finding that was packed, for texts of any length   *)
(* and fields of any width; and for every corpus, reference and            *)
(* configuration, what the handle answers and what the application shows   *)
(* is the analysis of the inputs it is shown for.                          *)
(***************************************************************************)
EXTENDS Publication, DataInduction, FiniteSetTheorems

Scalars == [bytes : 1 .. 4, units : 1 .. 2]

(***************************************************************************)
(* The projection.  Bytes and units both grow with every scalar, so a      *)
(* boundary has one place in the text, and a range in bytes holds the       *)
(* scalars of its image in units.                                          *)
(***************************************************************************)
Ends == [bytes : Nat, units : Nat]

Increasing(ends, n) ==
    /\ ends \in [0 .. n -> Ends]
    /\ \A j \in 0 .. n : \A i \in 0 .. j - 1 :
          ends[i].bytes < ends[j].bytes /\ ends[i].units < ends[j].units

(* Boundaries, step by step.                                               *)
LEMMA BoundariesSteps ==
    ASSUME NEW text \in Seq(Scalars)
    PROVE  /\ Boundaries(text) \in [0 .. Len(text) -> Ends]
           /\ \A i \in 1 .. Len(text) :
                 /\ Boundaries(text)[i].bytes = Boundaries(text)[i - 1].bytes + text[i].bytes
                 /\ Boundaries(text)[i].units = Boundaries(text)[i - 1].units + text[i].units
<1> DEFINE m == Len(text)
           none == [bytes |-> 0, units |-> 0]
           After(e, s) == [bytes |-> e.bytes + s.bytes, units |-> e.units + s.units]
           Body(f) == [i \in 0 .. m |-> IF i = 0 THEN none ELSE After(f[i - 1], text[i])]
           ends == CHOOSE f : f = Body(f)
           step == [e \in Ends \X (1 .. m) |-> After(e[1], text[e[2]])]
<1>1. m \in Nat /\ none \in Ends /\ \A i \in 1 .. m : text[i] \in Scalars
  BY DEF Ends
<1>2. Boundaries(text) = ends
  BY DEF Boundaries
<1>3. \A e \in Ends, s \in Scalars : After(e, s) \in Ends
  BY DEF Ends, Scalars
<1>4. step \in [Ends \X (1 .. m) -> Ends]
  <2> HIDE DEF After, m
  <2>1. QED
    BY <1>1, <1>3
<1>5. PICK g \in [0 .. m -> Ends] : g[0] = none /\ \A n \in 1 .. m : g[n] = step[g[n - 1], n]
  <2> HIDE DEF step, m, none
  <2>1. \E g : IsRun(g, Ends, none, m, step)
    BY <1>1, <1>4, Recursion
  <2>2. QED
    BY <2>1 DEF IsRun
<1>6. ASSUME NEW i \in 1 .. m
      PROVE  g[i] = After(g[i - 1], text[i])
  <2>1. i - 1 \in 0 .. m
    BY <1>1
  <2> HIDE DEF After, m, none
  <2>2. <<g[i - 1], i>> \in Ends \X (1 .. m)
    BY <2>1
  <2>3. step[g[i - 1], i] = After(g[i - 1], text[i])
    BY <2>2
  <2> HIDE DEF step
  <2>4. QED
    BY <1>5, <2>3
<1>7. g = Body(g)
  <2> HIDE DEF After, step, m, none
  <2>1. \A i \in 0 .. m : i = 0 \/ i \in 1 .. m
    BY <1>1
  <2>2. \A i \in 0 .. m : g[i] = Body(g)[i]
    BY <1>5, <1>6, <2>1
  <2>3. g = [i \in 0 .. m |-> g[i]]
    OBVIOUS
  <2>4. Body(g) = [i \in 0 .. m |-> Body(g)[i]]
    OBVIOUS
  <2> HIDE DEF Body
  <2>5. QED
    BY <2>2, <2>3, <2>4
<1>8. ends = Body(ends)
  <2> HIDE DEF Body
  <2>1. QED
    BY <1>7
<1> HIDE DEF ends, After, none, m, step
<1>9. /\ ends[0] = none
      /\ \A i \in 1 .. m : ends[i] = After(ends[i - 1], text[i])
      /\ ends = [i \in 0 .. m |-> ends[i]]
  <2>1. \A i \in 0 .. m : Body(ends)[i] = IF i = 0 THEN none ELSE After(ends[i - 1], text[i])
    OBVIOUS
  <2>2. Body(ends) = [i \in 0 .. m |-> Body(ends)[i]]
    OBVIOUS
  <2> HIDE DEF Body
  <2>3. 0 \in 0 .. m /\ \A i \in 1 .. m : i \in 0 .. m /\ i # 0
    BY <1>1
  <2>4. \A i \in 0 .. m : ends[i] = IF i = 0 THEN none ELSE After(ends[i - 1], text[i])
    BY <1>8, <2>1
  <2>5. QED
    BY <1>8, <2>2, <2>3, <2>4
<1>10. \A i \in 0 .. m : ends[i] \in Ends
  <2> DEFINE P == { i \in 0 .. m : ends[i] \in Ends }
  <2>1. 0 \in P
    <3>1. 0 \in 0 .. m
      BY <1>1
    <3>2. QED
      BY <1>1, <1>9, <3>1
  <2>2. ASSUME NEW i \in 0 .. m - 1, i \in P
        PROVE  i + 1 \in P
    <3> DEFINE k == i + 1
    <3>1. k \in 1 .. m /\ k \in 0 .. m /\ k - 1 = i /\ ends[i] \in Ends
      BY <1>1, <2>2
    <3> HIDE DEF k
    <3>2. ends[k] = After(ends[i], text[k])
      BY <1>9, <3>1
    <3>3. ends[k] \in Ends
      BY <1>1, <1>3, <3>1, <3>2
    <3>4. QED
      BY <3>1, <3>3 DEF k
  <2>3. 0 .. m \subseteq P
    <3> HIDE DEF P
    <3>1. QED
      BY <1>1, <2>1, <2>2, UpTo
  <2>4. QED
    BY <2>3
<1>11. ends \in [0 .. m -> Ends]
  BY <1>9, <1>10
<1>12. \A i \in 1 .. m : /\ ends[i].bytes = ends[i - 1].bytes + text[i].bytes
                         /\ ends[i].units = ends[i - 1].units + text[i].units
  <2>1. \A e, s : After(e, s).bytes = e.bytes + s.bytes /\ After(e, s).units = e.units + s.units
    BY DEF After
  <2>2. QED
    BY <1>9, <2>1
<1>13. QED
  BY <1>2, <1>11, <1>12 DEF m

LEMMA BoundariesIncrease ==
    ASSUME NEW text \in Seq(Scalars)
    PROVE  Increasing(Boundaries(text), Len(text))
<1> DEFINE m == Len(text)
           ends == Boundaries(text)
           Below(j) == \A i \in 0 .. j - 1 :
                          ends[i].bytes < ends[j].bytes /\ ends[i].units < ends[j].units
           P == { j \in 0 .. m : Below(j) }
<1>1. m \in Nat /\ \A i \in 1 .. m : text[i] \in Scalars
  OBVIOUS
<1>2. /\ ends \in [0 .. m -> Ends]
      /\ \A i \in 1 .. m : /\ ends[i].bytes = ends[i - 1].bytes + text[i].bytes
                           /\ ends[i].units = ends[i - 1].units + text[i].units
  BY BoundariesSteps
<1> HIDE DEF m, ends
<1>3. 0 \in P
  <2>1. 0 \in 0 .. m /\ 0 .. 0 - 1 = {}
    BY <1>1
  <2>2. QED
    BY <2>1
<1>4. ASSUME NEW j \in 0 .. m - 1, j \in P
      PROVE  j + 1 \in P
  <2> DEFINE k == j + 1
  <2>1. k \in 1 .. m /\ k \in 0 .. m /\ k - 1 = j /\ j \in 0 .. m
    BY <1>1
  <2>2. Below(j)
    BY <1>4
  <2> HIDE DEF k
  <2>3. ends[k] \in Ends /\ ends[j] \in Ends /\ text[k] \in Scalars
    BY <1>1, <1>2, <2>1
  <2>4. ends[j].bytes < ends[k].bytes /\ ends[j].units < ends[k].units
    BY <1>2, <2>1, <2>3 DEF Ends, Scalars
  <2>5. ASSUME NEW i \in 0 .. k - 1
        PROVE  ends[i].bytes < ends[k].bytes /\ ends[i].units < ends[k].units
    <3>1. i = j \/ i \in 0 .. j - 1
      BY <2>1
    <3>2. ends[i] \in Ends
      <4>1. i \in 0 .. m
        BY <1>1, <2>1
      <4>2. QED
        BY <1>2, <4>1
    <3>3. CASE i \in 0 .. j - 1
      BY <2>2, <2>3, <2>4, <3>2, <3>3 DEF Ends
    <3>4. QED
      BY <2>4, <3>1, <3>3
  <2>6. QED
    BY <2>1, <2>5 DEF k
<1>5. 0 .. m \subseteq P
  <2> HIDE DEF P
  <2>1. QED
    BY <1>1, <1>3, <1>4, UpTo
<1>6. QED
  BY <1>2, <1>5 DEF Increasing, m, ends

LEMMA InOrder ==
    ASSUME NEW n \in Nat, NEW ends, Increasing(ends, n), NEW a \in 0 .. n, NEW i \in 0 .. n
    PROVE  /\ ends[a].bytes <= ends[i].bytes <=> a <= i
           /\ ends[a].units <= ends[i].units <=> a <= i
<1>1. ends[a] \in Ends /\ ends[i] \in Ends
  BY DEF Increasing
<1>2. CASE a = i
  BY <1>1, <1>2 DEF Ends
<1>3. CASE a < i
  <2>1. a \in 0 .. i - 1
    BY <1>3
  <2>2. QED
    BY <1>1, <1>3, <2>1 DEF Ends, Increasing
<1>4. CASE i < a
  <2>1. i \in 0 .. a - 1
    BY <1>4
  <2>2. QED
    BY <1>1, <1>4, <2>1 DEF Ends, Increasing
<1>5. QED
  BY <1>2, <1>3, <1>4

LEMMA UnitsAt ==
    ASSUME NEW n \in Nat, NEW ends, Increasing(ends, n), NEW a \in 0 .. n
    PROVE  Units(ends, ends[a].bytes) = ends[a].units
<1> DEFINE end == CHOOSE e \in Range(ends) : e.bytes = ends[a].bytes
<1>1. DOMAIN ends = 0 .. n
  BY DEF Increasing
<1>2. end \in Range(ends) /\ end.bytes = ends[a].bytes
  <2>1. \E e \in Range(ends) : e.bytes = ends[a].bytes
    BY <1>1 DEF Range
  <2>2. QED
    BY <2>1
<1> HIDE DEF end
<1>3. PICK i \in 0 .. n : end = ends[i]
  BY <1>1, <1>2 DEF Range
<1>4. ends[a] \in Ends /\ ends[i] \in Ends
  BY DEF Increasing
<1>5. a <= i /\ i <= a
  BY <1>2, <1>3, <1>4, InOrder DEF Ends
<1>6. i = a
  BY <1>5
<1>7. QED
  BY <1>3, <1>6 DEF Units, end

(* project_utf16_checked: the units of a range that is not refused hold     *)
(* exactly the scalars its bytes hold.                                     *)
LEMMA ProjectionIsExact ==
    ASSUME NEW n \in Nat, NEW ends, Increasing(ends, n), NEW range, Projectable(range, ends)
    PROVE  InUnits(ends, Units(ends, range.start), Units(ends, range.end))
             = InBytes(ends, range.start, range.end)
<1>1. DOMAIN ends = 0 .. n
  BY DEF Increasing
<1>2. PICK a \in 0 .. n : ends[a].bytes = range.start
  BY <1>1 DEF Projectable, IsBoundary
<1>3. PICK b \in 0 .. n : ends[b].bytes = range.end
  BY <1>1 DEF Projectable, IsBoundary
<1>4. Units(ends, range.start) = ends[a].units /\ Units(ends, range.end) = ends[b].units
  <2>1. Units(ends, ends[a].bytes) = ends[a].units
    BY UnitsAt
  <2>2. Units(ends, ends[b].bytes) = ends[b].units
    BY UnitsAt
  <2>3. QED
    BY <1>2, <1>3, <2>1, <2>2
<1>5. ASSUME NEW i \in 0 .. n \ {0}
      PROVE  /\ ends[a].units <= ends[i - 1].units <=> ends[a].bytes <= ends[i - 1].bytes
             /\ ends[i].units <= ends[b].units <=> ends[i].bytes <= ends[b].bytes
  <2>1. i - 1 \in 0 .. n /\ i \in 0 .. n
    OBVIOUS
  <2>2. /\ ends[a].units <= ends[i - 1].units <=> a <= i - 1
        /\ ends[a].bytes <= ends[i - 1].bytes <=> a <= i - 1
    BY <2>1, InOrder
  <2>3. /\ ends[i].units <= ends[b].units <=> i <= b
        /\ ends[i].bytes <= ends[b].bytes <=> i <= b
    BY <2>1, InOrder
  <2>4. QED
    BY <2>2, <2>3
<1>6. QED
  BY <1>1, <1>2, <1>3, <1>4, <1>5 DEF InUnits, InBytes

(***************************************************************************)
(* Scores and counts.                                                      *)
(***************************************************************************)
(* quantize_score: the nearest step, half a step away at most.             *)
LEMMA QuantizedIsNearest ==
    ASSUME NEW score, Scorable(score)
    PROVE  ShowsScore(Quantized(score), score)
<1>1. CASE score = NoScore
  BY <1>1 DEF ShowsScore, Quantized
<1>2. CASE score # NoScore
  <2>1. score \in Nat /\ ScoreUnit \in Nat \ {0} /\ ScoreMax \in Nat
    BY <1>2, WidthAssumption DEF Scorable
  <2> DEFINE a == 2 * score * ScoreMax + ScoreUnit
             d == 2 * ScoreUnit
             q == a \div d
             r == a % d
  <2>2. a \in Int /\ d \in Nat \ {0}
    BY <2>1
  <2>3. a = d * q + r /\ q \in Int /\ r \in 0 .. d - 1
    <3> HIDE DEF a, d
    <3>1. QED
      BY <2>2
  <2>4. Quantized(score) = q
    BY <1>2 DEF Quantized
  <2> HIDE DEF q, r
  <2>5. 2 * (q * ScoreUnit - score * ScoreMax) = ScoreUnit - r
    <3> DEFINE x == q * ScoreUnit
               y == score * ScoreMax
    <3>1. d * q = 2 * x /\ 2 * score * ScoreMax = 2 * y /\ x \in Int /\ y \in Int
      BY <2>1, <2>3
    <3> HIDE DEF x, y
    <3>2. 2 * (x - y) = ScoreUnit - r
      BY <2>1, <2>3, <3>1
    <3>3. QED
      BY <3>2 DEF x, y
  <2> DEFINE off == q * ScoreUnit - score * ScoreMax
  <2>6. -ScoreUnit <= 2 * off /\ 2 * off <= ScoreUnit
    <3>1. 2 * off = ScoreUnit - r
      BY <2>5
    <3> HIDE DEF off
    <3>2. QED
      BY <2>1, <2>3, <3>1
  <2>7. QED
    BY <1>2, <2>4, <2>6 DEF ShowsScore
<1>3. QED
  BY <1>1, <1>2

(* extract_digest: a ratio is rounded to the nearest percent, and clamped  *)
(* and marked where that is no longer below the ceiling.                   *)
LEMMA DigestShowsRatio ==
    ASSUME NEW ratio \in Nat
    PROVE  ShowsRatio(RatioDigest(ratio), ratio)
<1> DEFINE a == 2 * ratio + PercentUnit
           d == 2 * PercentUnit
           q == a \div d
           r == a % d
           digest == RatioDigest(ratio)
<1>1. LaneMax \in Nat /\ PercentUnit \in Nat \ {0}
  BY WidthAssumption
<1>2. a \in Int /\ d \in Nat \ {0}
  BY <1>1
<1>3. a = d * q + r /\ q \in Int /\ r \in 0 .. d - 1
  <2> HIDE DEF a, d
  <2>1. QED
    BY <1>2
<1>4. digest = [shape |-> "count-pair", lanes |-> <<Lane(q), 0>>, saturated |-> q >= LaneMax]
  BY DEF RatioDigest, Percent
<1> HIDE DEF q, r, digest
<1> DEFINE x == q * PercentUnit
<1>5. /\ x \in Int /\ 2 * (x - ratio) = PercentUnit - r
      /\ 2 * (x - ratio) <= PercentUnit /\ -PercentUnit <= 2 * (x - ratio)
  <2>1. d * q = 2 * x /\ x \in Int
    BY <1>1, <1>3
  <2> HIDE DEF x
  <2>2. QED
    BY <1>1, <1>3, <2>1
<1>6. CASE q >= LaneMax
  <2> DEFINE y == LaneMax * PercentUnit
  <2>1. Lane(q) = LaneMax
    BY <1>1, <1>3, <1>6 DEF Lane
  <2>2. digest.lanes = <<LaneMax, 0>> /\ digest.saturated
    <3>1. digest.lanes = <<LaneMax, 0>>
      BY <1>4, <2>1
    <3>2. digest.saturated
      BY <1>4, <1>6, Zenon
    <3>3. QED
      BY <3>1, <3>2
  <2>3. y <= x /\ y \in Int
    BY <1>1, <1>3, <1>6
  <2>4. 2 * (y - ratio) <= PercentUnit
    <3> HIDE DEF x, y
    <3>1. QED
      BY <1>1, <1>5, <2>3
  <2>5. QED
    BY <2>2, <2>4 DEF ShowsRatio, digest
<1>7. CASE ~ (q >= LaneMax)
  <2>1. Lane(q) = q /\ q < LaneMax
    BY <1>1, <1>3, <1>7 DEF Lane
  <2>2. digest.lanes = <<q, 0>> /\ ~ digest.saturated /\ q < LaneMax
    <3>1. digest.lanes = <<q, 0>>
      BY <1>4, <2>1
    <3>2. ~ digest.saturated
      BY <1>4, <1>7, Zenon
    <3>3. QED
      BY <2>1, <3>1, <3>2
  <2>3. QED
    BY <1>5, <2>2 DEF ShowsRatio, digest
<1>8. QED
  BY <1>6, <1>7

(* A count is itself, or the ceiling and marked.                           *)
LEMMA DigestShowsCounts ==
    ASSUME NEW f, f.code # "paired", \A i \in DOMAIN f.counts : f.counts[i] \in Nat
    PROVE  ShowsCounts(Digest(f), f.counts)
<1>1. LaneMax \in Nat
  BY WidthAssumption
<1>2. CASE DigestShape(f.code) = "count-pair"
  <2>1. /\ Digest(f).shape = "count-pair"
        /\ Digest(f).lanes = [i \in DOMAIN f.counts |-> Lane(f.counts[i])]
        /\ Digest(f).saturated = Saturated(f.counts)
    BY <1>2 DEF Digest, CountDigest
  <2>2. \A i \in DOMAIN f.counts :
           IF f.counts[i] <= LaneMax THEN Lane(f.counts[i]) = f.counts[i]
           ELSE Lane(f.counts[i]) = LaneMax /\ Saturated(f.counts)
    BY <1>1 DEF Lane, Saturated
  <2>3. QED
    BY <2>1, <2>2 DEF ShowsCounts, Saturated
<1>3. CASE DigestShape(f.code) = "u32"
  <2>1. Digest(f) = [shape |-> "u32", lanes |-> f.counts, saturated |-> FALSE]
    BY <1>3 DEF Digest
  <2>2. QED
    BY <2>1 DEF ShowsCounts
<1>4. CASE DigestShape(f.code) \notin {"count-pair", "u32"}
  <2>1. Digest(f) = [shape |-> "none", lanes |-> << >>, saturated |-> FALSE]
    BY <1>4 DEF Digest
  <2>2. QED
    BY <2>1 DEF ShowsCounts
<1>5. QED
  BY <1>2, <1>3, <1>4

(***************************************************************************)
(* A finding that pack does not refuse is shown by the row decoded from     *)
(* its record: the verse, the characters, the score to the nearest step,   *)
(* a ratio to the nearest percent, the counts, or their marked ceiling.     *)
(***************************************************************************)
THEOREM RowShowsItsFinding ==
    ASSUME NEW text \in Seq(Scalars), NEW keys, NEW f,
           Recordable(f, keys, Boundaries(text)),
           \A i \in DOMAIN f.counts : f.counts[i] \in Nat
    PROVE  Shows(Row(Record(f, Boundaries(text)), keys), f, keys[f.key], Boundaries(text))
<1> DEFINE ends == Boundaries(text)
           row == Row(Record(f, ends), keys)
<1>1. Len(text) \in Nat /\ Increasing(ends, Len(text))
  BY BoundariesIncrease
<1>2. /\ Projectable(f.range, ends) /\ Scorable(f.score)
      /\ f.code = "paired" => f.counts[1] \in Nat
  BY DEF Recordable, Digestible
<1> HIDE DEF ends
<1>3. /\ row.sid = keys[f.key] /\ row.code = f.code /\ row.severity = f.severity
      /\ row.start = Units(ends, f.range.start) /\ row.end = Units(ends, f.range.end)
      /\ row.score = Quantized(f.score) /\ row.digest = Digest(f)
  BY DEF Row, Record
<1> HIDE DEF row
<1>4. InUnits(ends, row.start, row.end) = InBytes(ends, f.range.start, f.range.end)
  BY <1>1, <1>2, <1>3, ProjectionIsExact
<1>5. /\ ShowsScore(row.score, f.score)
      /\ IF f.code = "paired" THEN ShowsRatio(row.digest, f.counts[1])
         ELSE ShowsCounts(row.digest, f.counts)
  <2>1. ShowsScore(row.score, f.score)
    BY <1>2, <1>3, QuantizedIsNearest
  <2>2. CASE f.code = "paired"
    <3>1. row.digest = RatioDigest(f.counts[1])
      BY <1>3, <2>2 DEF Digest
    <3>2. QED
      BY <1>2, <2>1, <2>2, <3>1, DigestShowsRatio
  <2>3. CASE f.code # "paired"
    BY <1>3, <2>1, <2>3, DigestShowsCounts
  <2>4. QED
    BY <2>2, <2>3
<1>6. Shows(row, f, keys[f.key], ends)
  BY <1>3, <1>4, <1>5 DEF Shows
<1>7. QED
  BY <1>6 DEF row, ends

(***************************************************************************)
(* The findings of an analysis, one of two kinds at each verse.            *)
(***************************************************************************)
Placed == [sid : ToSet(Books), verse : DOMAIN Verses]

PairedAt(in, k) ==
    [key |-> k, code |-> "paired", severity |-> in.config,
     range |-> [start |-> 0, end |-> BytesIn(Text(in, k))], score |-> ScoreUnit,
     counts |-> <<Verses[Corpus[in.target][k].verse].ratio>>, args |-> <<in.reference>>]

FiredAt(in, k) ==
    [key |-> k, code |-> Verses[Corpus[in.target][k].verse].code, severity |-> in.config,
     range |-> Verses[Corpus[in.target][k].verse].range,
     score |-> Verses[Corpus[in.target][k].verse].score,
     counts |-> <<Fired(in.target, Verses[Corpus[in.target][k].verse].code),
                  Len(Corpus[in.target])>>,
     args |-> IF Verses[Corpus[in.target][k].verse].code = "bare" THEN NoArgs ELSE <<in.target>>]

Findable(in) ==
    { PairedAt(in, k) : k \in DOMAIN Corpus[in.target] }
        \cup { FiredAt(in, k) : k \in DOMAIN Corpus[in.target] }

LEMMA CorpusIn ==
    ASSUME NEW target \in Targets
    PROVE  Corpus[target] \in Seq(Placed)
<1> DEFINE Of(n) == [v \in DOMAIN Holding[target][Books[n]] |->
                        [sid |-> Books[n], verse |-> Holding[target][Books[n]][v]]]
           seqs == [n \in DOMAIN Books |-> Of(n)]
<1>1. /\ Books \in Seq(ToSet(Books)) /\ Holding[target] \in [ToSet(Books) -> Seq(DOMAIN Verses)]
  BY PublicationAssumption
<1>2. ASSUME NEW n \in DOMAIN Books
      PROVE  Of(n) \in Seq(Placed)
  <2> DEFINE verses == Holding[target][Books[n]]
  <2>1. Books[n] \in ToSet(Books) /\ verses \in Seq(DOMAIN Verses)
    BY <1>1
  <2> HIDE DEF verses
  <2>2. [v \in DOMAIN verses |-> [sid |-> Books[n], verse |-> verses[v]]]
            \in [1 .. Len(verses) -> Placed]
    BY <2>1 DEF Placed
  <2>3. Len(verses) \in Nat
    BY <2>1
  <2>4. Of(n) \in [1 .. Len(verses) -> Placed]
    BY <2>2 DEF verses
  <2> HIDE DEF Of
  <2>5. QED
    BY <2>3, <2>4
<1>3. seqs \in Seq(Seq(Placed))
  <2> HIDE DEF Of
  <2>1. seqs \in [1 .. Len(Books) -> Seq(Placed)]
    BY <1>1, <1>2
  <2>2. Len(Books) \in Nat
    BY <1>1
  <2> HIDE DEF seqs
  <2>3. QED
    BY <2>1, <2>2
<1>4. Corpus[target] = FlattenSeq(seqs)
  BY TabledIs DEF Corpus
<1> HIDE DEF seqs
<1>5. QED
  BY <1>3, <1>4, FlattenedIn

LEMMA PlacedAre ==
    ASSUME NEW target \in Targets
    PROVE  /\ DOMAIN Corpus[target] = 1 .. Len(Corpus[target]) /\ Len(Corpus[target]) \in Nat
           /\ \A k \in DOMAIN Corpus[target] : Corpus[target][k] \in Placed
           /\ DOMAIN Keys[target] = DOMAIN Corpus[target]
<1> DEFINE s == Corpus[target]
<1>1. s \in Seq(Placed)
  BY CorpusIn
<1>2. Keys[target] = [k \in DOMAIN Corpus[target] |-> Corpus[target][k].sid]
  BY TabledIs DEF Keys
<1> HIDE DEF s
<1>3. DOMAIN s = 1 .. Len(s) /\ Len(s) \in Nat /\ \A k \in DOMAIN s : s[k] \in Placed
  BY <1>1
<1>4. QED
  BY <1>2, <1>3 DEF s

LEMMA TextIs ==
    ASSUME NEW in \in Inputs, NEW k \in DOMAIN Corpus[in.target]
    PROVE  \E text \in Seq(Scalars) : Text(in, k) = Boundaries(text)
<1> DEFINE v == Corpus[in.target][k].verse
<1>1. v \in DOMAIN Verses
  BY PlacedAre DEF Inputs, Placed
<1>2. Verses[v].text \in Seq(Scalars)
  BY <1>1, PublicationAssumption DEF Scalars
<1> HIDE DEF v
<1>3. Texts[v] = Boundaries(Verses[v].text)
  BY <1>1, TabledIs DEF Texts
<1>4. Text(in, k) = Texts[v]
  BY DEF Text, v
<1>5. QED
  BY <1>2, <1>3, <1>4

LEMMA FiredIsACount ==
    ASSUME NEW target \in Targets, NEW code
    PROVE  Fired(target, code) \in Nat
<1> DEFINE S == { k \in DOMAIN Corpus[target] : Verses[Corpus[target][k].verse].code = code }
           m == Len(Corpus[target])
<1>1. m \in Nat /\ S \subseteq 1 .. m
  BY PlacedAre
<1> HIDE DEF S, m
<1>2. IsFiniteSet(1 .. m)
  BY <1>1, FS_Interval
<1>3. IsFiniteSet(S)
  BY <1>1, <1>2, FS_Subset
<1>4. Cardinality(S) \in Nat
  BY <1>3, FS_CardinalityType
<1>5. QED
  BY <1>4 DEF Fired, S

LEMMA FindableFields ==
    ASSUME NEW in \in Inputs, NEW f \in Findable(in)
    PROVE  /\ f.key \in DOMAIN Corpus[in.target]
           /\ \A i \in DOMAIN f.counts : f.counts[i] \in Nat
<1>1. Len(Corpus[in.target]) \in Nat /\ in.target \in Targets
  BY PlacedAre DEF Inputs
<1>2. CASE f \in { PairedAt(in, k) : k \in DOMAIN Corpus[in.target] }
  <2>1. PICK k \in DOMAIN Corpus[in.target] : f = PairedAt(in, k)
    BY <1>2
  <2>2. f.key = k /\ f.counts = <<Verses[Corpus[in.target][k].verse].ratio>>
    BY <2>1 DEF PairedAt
  <2>3. Verses[Corpus[in.target][k].verse].ratio \in Nat
    BY <1>1, PlacedAre, PublicationAssumption DEF Placed
  <2>4. QED
    BY <2>2, <2>3
<1>3. CASE f \in { FiredAt(in, k) : k \in DOMAIN Corpus[in.target] }
  <2>1. PICK k \in DOMAIN Corpus[in.target] : f = FiredAt(in, k)
    BY <1>3
  <2>2. /\ f.key = k
        /\ f.counts = <<Fired(in.target, Verses[Corpus[in.target][k].verse].code),
                        Len(Corpus[in.target])>>
    BY <2>1 DEF FiredAt
  <2>3. Fired(in.target, Verses[Corpus[in.target][k].verse].code) \in Nat
    BY <1>1, FiredIsACount
  <2>4. QED
    BY <1>1, <2>2, <2>3
<1>4. QED
  BY <1>2, <1>3 DEF Findable

(* What one verse adds.                                                    *)
FoundAt(in, k) == OfReference(in, k) \o OfTarget(in, k)

FoundBy(in) == [k \in 1 .. Len(Corpus[in.target]) |-> FoundAt(in, k)]

LEMMA FoundAtIs ==
    ASSUME NEW in \in Inputs, NEW k \in 1 .. Len(Corpus[in.target])
    PROVE  /\ \/ OfReference(in, k) = << >>
              \/ HasReference(in) /\ OfReference(in, k) = <<PairedAt(in, k)>>
           /\ OfTarget(in, k) = << >> \/ OfTarget(in, k) = <<FiredAt(in, k)>>
           /\ PairedAt(in, k) \in Findable(in) /\ FiredAt(in, k) \in Findable(in)
           /\ OfReference(in, k) \in Seq(Findable(in)) /\ OfTarget(in, k) \in Seq(Findable(in))
           /\ FoundAt(in, k) \in Seq(Findable(in))
<1>1. k \in DOMAIN Corpus[in.target]
  BY PlacedAre DEF Inputs
<1>2. PairedAt(in, k) \in Findable(in) /\ FiredAt(in, k) \in Findable(in)
  BY <1>1 DEF Findable
<1>3. \/ OfReference(in, k) = << >>
      \/ HasReference(in) /\ OfReference(in, k) = <<PairedAt(in, k)>>
  BY DEF OfReference, PairedAt
<1>4. OfTarget(in, k) = << >> \/ OfTarget(in, k) = <<FiredAt(in, k)>>
  BY DEF OfTarget, FiredAt
<1>5. OfReference(in, k) \in Seq(Findable(in)) /\ OfTarget(in, k) \in Seq(Findable(in))
  <2>1. /\ << >> \in Seq(Findable(in))
        /\ <<PairedAt(in, k)>> \in Seq(Findable(in)) /\ <<FiredAt(in, k)>> \in Seq(Findable(in))
    BY <1>2
  <2>2. QED
    BY <1>3, <1>4, <2>1
<1>6. FoundAt(in, k) \in Seq(Findable(in))
  BY <1>5 DEF FoundAt
<1>7. QED
  BY <1>2, <1>3, <1>4, <1>5, <1>6

LEMMA FoundByIn ==
    ASSUME NEW in \in Inputs
    PROVE  FoundBy(in) \in Seq(Seq(Findable(in))) /\ Len(FoundBy(in)) = Len(Corpus[in.target])
<1> DEFINE m == Len(Corpus[in.target])
<1>1. m \in Nat
  BY PlacedAre DEF Inputs
<1>2. FoundBy(in) = [k \in 1 .. m |-> FoundAt(in, k)]
  BY DEF FoundBy
<1>3. \A k \in 1 .. m : FoundAt(in, k) \in Seq(Findable(in))
  BY FoundAtIs
<1> HIDE DEF m
<1>4. FoundBy(in) \in [1 .. m -> Seq(Findable(in))]
  BY <1>2, <1>3
<1>5. QED
  BY <1>1, <1>4 DEF m

LEMMA FindingsAre ==
    ASSUME NEW in \in Inputs
    PROVE  Findings[in] = FlattenSeq(FoundBy(in)) /\ Findings[in] \in Seq(Findable(in))
<1>1. Findings[in] = Assembled(in)
  BY TabledIs DEF Findings
<1>2. DOMAIN Corpus[in.target] = 1 .. Len(Corpus[in.target])
  BY PlacedAre DEF Inputs
<1>3. Assembled(in) = FlattenSeq(FoundBy(in))
  BY <1>2 DEF Assembled, FoundBy, FoundAt
<1>4. FlattenSeq(FoundBy(in)) \in Seq(Findable(in))
  BY FoundByIn, FlattenedIn
<1>5. QED
  BY <1>1, <1>3, <1>4

LEMMA FindingIs ==
    ASSUME NEW in \in Inputs, NEW i \in DOMAIN Findings[in]
    PROVE  /\ Findings[in][i] \in Findable(in)
           /\ Findings[in][i].key \in DOMAIN Corpus[in.target]
           /\ \A n \in DOMAIN Findings[in][i].counts : Findings[in][i].counts[n] \in Nat
<1>1. Findings[in][i] \in Findable(in)
  BY FindingsAre
<1>2. QED
  BY <1>1, FindableFields

(***************************************************************************)
(* What the application shows of a buffer.                                 *)
(***************************************************************************)
Shown(in) == Materialized(Pack(in).records, Keys[in.target])

LEMMA ShownIs ==
    ASSUME NEW in \in Inputs
    PROVE  /\ DOMAIN Pack(in).records = DOMAIN Findings[in]
           /\ DOMAIN Shown(in).rows = DOMAIN Findings[in]
           /\ \A i \in DOMAIN Findings[in] :
                 Shown(in).rows[i]
                   = Row(Record(Findings[in][i], Text(in, Findings[in][i].key)), Keys[in.target])
BY DEF Shown, Materialized, Pack

(* Packing and decoding loses nothing that a row shows.                    *)
LEMMA ShownIsExact ==
    ASSUME NEW in \in Inputs, Packable(in)
    PROVE  ShowsTheAnalysis(Shown(in).rows, in)
<1>1. ASSUME NEW i \in DOMAIN Findings[in]
      PROVE  Shows(Shown(in).rows[i], Findings[in][i], Keys[in.target][Findings[in][i].key],
                   Text(in, Findings[in][i].key))
  <2> DEFINE f == Findings[in][i]
             keys == Keys[in.target]
  <2>1. f.key \in DOMAIN Corpus[in.target] /\ \A n \in DOMAIN f.counts : f.counts[n] \in Nat
    BY FindingIs
  <2>2. Recordable(f, keys, Text(in, f.key))
    BY DEF Packable
  <2>3. Shown(in).rows[i] = Row(Record(f, Text(in, f.key)), keys)
    BY ShownIs
  <2> HIDE DEF f, keys
  <2>4. PICK text \in Seq(Scalars) : Text(in, f.key) = Boundaries(text)
    BY <2>1, TextIs
  <2>5. Shows(Row(Record(f, Boundaries(text)), keys), f, keys[f.key], Boundaries(text))
    BY <2>1, <2>2, <2>4, RowShowsItsFinding
  <2>6. QED
    BY <2>3, <2>4, <2>5 DEF f, keys
<1>2. QED
  BY <1>1, ShownIs DEF ShowsTheAnalysis

(***************************************************************************)
(* The salvage of a stored buffer: the findings that are left are those    *)
(* the rules report once the reference is gone.                            *)
(***************************************************************************)
ReferenceRemoved(was, in) ==
    /\ was \in Inputs /\ in \in Inputs
    /\ TargetContextId(was) = TargetContextId(in)
    /\ HasReference(was) /\ ~ HasReference(in)

Unpaired(in) == { f \in Findable(in) : f.code # "paired" }

LEMMA SameText ==
    ASSUME NEW was, NEW in, ReferenceRemoved(was, in)
    PROVE  /\ was.target = in.target /\ was.config = in.config
           /\ \A k : Text(was, k) = Text(in, k) /\ FiredAt(was, k) = FiredAt(in, k)
                        /\ OfTarget(was, k) = OfTarget(in, k) /\ OfReference(in, k) = << >>
<1>1. was.target = in.target /\ was.config = in.config
  BY DEF ReferenceRemoved, TargetContextId
<1>2. ~ HasReference(in)
  BY DEF ReferenceRemoved
<1>3. ASSUME NEW k
      PROVE  /\ Text(was, k) = Text(in, k) /\ FiredAt(was, k) = FiredAt(in, k)
             /\ OfTarget(was, k) = OfTarget(in, k) /\ OfReference(in, k) = << >>
  <2>1. Text(was, k) = Text(in, k)
    BY <1>1 DEF Text
  <2>2. FiredAt(was, k) = FiredAt(in, k)
    BY <1>1 DEF FiredAt
  <2>3. OfTarget(was, k) = OfTarget(in, k)
    BY <1>1 DEF OfTarget
  <2>4. OfReference(in, k) = << >>
    BY <1>2 DEF OfReference
  <2>5. QED
    BY <2>1, <2>2, <2>3, <2>4
<1>4. QED
  BY <1>1, <1>3

LEMMA WithoutReferenceAt ==
    ASSUME NEW was, NEW in, ReferenceRemoved(was, in), NEW k \in 1 .. Len(Corpus[was.target])
    PROVE  Selected(FoundAt(was, k), Unpaired(was)) = FoundAt(in, k)
<1> DEFINE T == Findable(was)
           U == Unpaired(was)
           r == PairedAt(was, k)
           t == FiredAt(was, k)
<1>1. was \in Inputs /\ in \in Inputs
  BY DEF ReferenceRemoved
<1>2. /\ OfReference(was, k) = << >> \/ OfReference(was, k) = <<r>>
      /\ OfTarget(was, k) = << >> \/ OfTarget(was, k) = <<t>>
      /\ r \in T /\ t \in T
      /\ OfReference(was, k) \in Seq(T) /\ OfTarget(was, k) \in Seq(T)
  BY <1>1, FoundAtIs
<1>3. r \notin U
  BY DEF PairedAt, Unpaired
<1>4. t \in U
  <2>1. Corpus[was.target][k].verse \in DOMAIN Verses
    BY <1>1, PlacedAre DEF Inputs, Placed
  <2>2. t.code # "paired"
    BY <2>1, PublicationAssumption DEF FiredAt
  <2>3. QED
    BY <1>2, <2>2 DEF Unpaired
<1> HIDE DEF T, U, r, t
<1>5. Selected(OfReference(was, k), U) = << >>
  BY <1>2, <1>3, SelectedSmall
<1>6. Selected(OfTarget(was, k), U) = OfTarget(was, k)
  BY <1>2, <1>4, SelectedSmall
<1>7. Selected(FoundAt(was, k), U) = << >> \o OfTarget(was, k)
  BY <1>2, <1>5, <1>6, SelectedConcat DEF FoundAt
<1>8. FoundAt(in, k) = << >> \o OfTarget(was, k)
  BY SameText DEF FoundAt
<1>9. QED
  BY <1>7, <1>8 DEF U

LEMMA WithoutReference ==
    ASSUME NEW was, NEW in, ReferenceRemoved(was, in)
    PROVE  Findings[in] = Selected(Findings[was], Unpaired(was))
<1> DEFINE m == Len(Corpus[was.target])
           U == Unpaired(was)
           kept == [k \in 1 .. m |-> Selected(FoundBy(was)[k], U)]
<1>1. was \in Inputs /\ in \in Inputs /\ was.target = in.target
  BY SameText DEF ReferenceRemoved
<1>2. FoundBy(was) \in Seq(Seq(Findable(was))) /\ Len(FoundBy(was)) = m
  BY <1>1, FoundByIn
<1>3. \A k \in 1 .. m : FoundBy(was)[k] = FoundAt(was, k)
  BY DEF FoundBy
<1> HIDE DEF U, m
<1>4. Selected(FlattenSeq(FoundBy(was)), U) = FlattenSeq(kept)
  BY <1>2, SelectedFlatten
<1>5. \A k \in 1 .. m : Selected(FoundAt(was, k), U) = FoundAt(in, k)
  BY WithoutReferenceAt DEF U, m
<1>6. FoundBy(in) = [k \in 1 .. m |-> FoundAt(in, k)]
  BY <1>1 DEF FoundBy, m
<1>7. kept = FoundBy(in)
  BY <1>3, <1>5, <1>6
<1>8. QED
  BY <1>1, <1>4, <1>7, FindingsAre DEF U

LEMMA StillPackable ==
    ASSUME NEW was, NEW in, ReferenceRemoved(was, in), Packable(was)
    PROVE  Packable(in)
<1> DEFINE F == Findings[was]
           G == Findings[in]
<1>1. was \in Inputs /\ in \in Inputs
  BY DEF ReferenceRemoved
<1>2. F \in Seq(Findable(was)) /\ G \in Seq(Findable(in))
  BY <1>1, FindingsAre
<1>3. G = Selected(F, Unpaired(was))
  BY WithoutReference
<1>4. \A i \in DOMAIN F :
         Recordable(F[i], Keys[was.target], Text(was, F[i].key))
  BY DEF Packable
<1> HIDE DEF F, G
<1>5. ASSUME NEW i \in DOMAIN G
      PROVE  Recordable(G[i], Keys[in.target], Text(in, G[i].key))
  <2>1. i \in 1 .. Len(G)
    BY <1>2
  <2>2. \E j \in 1 .. Len(F) : F[j] = G[i]
    <3> DEFINE U == Unpaired(was)
    <3> HIDE DEF U
    <3>1. \A e : (\E n \in 1 .. Len(Selected(F, U)) : Selected(F, U)[n] = e)
                    <=> e \in U /\ \E j \in 1 .. Len(F) : F[j] = e
      BY <1>2, SelectedElements
    <3>2. \E n \in 1 .. Len(Selected(F, U)) : Selected(F, U)[n] = G[i]
      BY <1>3, <2>1 DEF U
    <3>3. QED
      BY <3>1, <3>2
  <2>3. PICK j \in DOMAIN F : F[j] = G[i]
    BY <1>2, <2>2
  <2>4. Recordable(G[i], Keys[was.target], Text(was, G[i].key))
    BY <1>4, <2>3
  <2>5. Text(was, G[i].key) = Text(in, G[i].key) /\ was.target = in.target
    BY SameText
  <2>6. QED
    BY <2>4, <2>5
<1>6. QED
  BY <1>5 DEF Packable, G

LEMMA KeptAreTheRest ==
    ASSUME NEW was, NEW in, ReferenceRemoved(was, in)
    PROVE  Kept(Pack(was).records) = Pack(in).records
<1> DEFINE T == Findable(was)
           F == Findings[was]
           g == [f \in T |-> Record(f, Text(was, f.key))]
           records == Pack(was).records
           S == { r \in ToSet(records) :
                    InputDependency(r.code) # "target-and-reference-silent-when-absent" }
<1>1. was \in Inputs /\ in \in Inputs
  BY DEF ReferenceRemoved
<1>2. F \in Seq(T) /\ Findings[in] = Selected(F, Unpaired(was))
  BY <1>1, FindingsAre, WithoutReference
<1>3. records = Mapping(g, F)
  <2>1. \A i \in DOMAIN F : F[i] \in T
    BY <1>2
  <2>2. records = [i \in DOMAIN F |-> Record(F[i], Text(was, F[i].key))]
    BY DEF Pack
  <2> HIDE DEF F, T, records
  <2>3. QED
    BY <2>1, <2>2 DEF Mapping
<1>4. \A f \in T : g[f].code = f.code
  BY DEF Record
<1>5. \A i \in 1 .. Len(F) : F[i] \in Unpaired(was) <=> g[F[i]] \in S
  <2>1. SUFFICES ASSUME NEW i \in 1 .. Len(F)
                 PROVE  F[i] \in Unpaired(was) <=> g[F[i]] \in S
    OBVIOUS
  <2>2. F[i] \in T /\ i \in DOMAIN F
    BY <1>2
  <2>3. g[F[i]] \in ToSet(records)
    <3> HIDE DEF g, F, T, records
    <3>1. records[i] = g[F[i]] /\ i \in DOMAIN records
      BY <1>3, <2>2 DEF Mapping
    <3>2. QED
      BY <3>1 DEF ToSet
  <2>4. g[F[i]].code = F[i].code
    BY <1>4, <2>2
  <2> HIDE DEF g, F, records
  <2>5. F[i] \in Unpaired(was) <=> F[i].code # "paired"
    BY <2>2 DEF Unpaired
  <2>6. QED
    BY <2>3, <2>4, <2>5 DEF InputDependency
<1>6. Kept(records) = Selected(records, S)
  BY DEF Kept
<1>7. \A f \in T : g[f] = Record(f, Text(in, f.key))
  BY SameText
<1>8. \A i \in DOMAIN Findings[in] : Findings[in][i] \in T
  <2>1. Selected(F, Unpaired(was)) \in Seq(T)
    BY <1>2, SelectedElements
  <2>2. QED
    BY <1>2, <2>1
<1> HIDE DEF T, F, g, records, S
<1>9. Selected(Mapping(g, F), S) = Mapping(g, Selected(F, Unpaired(was)))
  BY <1>2, <1>5, SelectedMapping
<1>10. Mapping(g, Findings[in]) = Pack(in).records
  BY <1>7, <1>8 DEF Mapping, Pack
<1>11. QED
  BY <1>2, <1>3, <1>6, <1>9, <1>10 DEF records

(***************************************************************************)
(* The inductive invariant.  Every buffer, in hand or stored, is a pack     *)
(* that succeeded; every snapshot shows, row for row, what a decoder makes  *)
(* of one; what the handle publishes is of the inputs it holds now.        *)
(***************************************************************************)
PublicationIsCurrent ==
    /\ last_analysis_id = None \/ last_analysis_id = inputs
    /\ last_analysis_id = None => last_args = << >>
    /\ last_analysis_id # None => last_args = Args[inputs]

IsPack(buffer) == \E in \in Inputs : Packable(in) /\ buffer = Pack(in)

BuffersArePacked == (bytes # None => IsPack(bytes)) /\ (saved # None => IsPack(saved))

ShowsInputs(shown, in) ==
    /\ shown.analysisId = in
    /\ shown.provenance \in {"live", "reference-removed"}
    /\ shown.findings = Shown(in).rows
    /\ shown.identities = Shown(in).identities

SnapshotIsShown ==
    snapshot # None => \E in \in Inputs : Packable(in) /\ ShowsInputs(snapshot, in)

IInv ==
    /\ inputs \in Inputs
    /\ engine \in {"Dirty", "CleanPublished"}
    /\ PublicationIsCurrent
    /\ BuffersArePacked
    /\ SnapshotIsShown

LEMMA PackIs ==
    ASSUME NEW in \in Inputs
    PROVE  /\ Pack(in).analysisId = in
           /\ Pack(in).targetContextId = TargetContextId(in)
           /\ Pack(in).hasReference = HasReference(in)
           /\ Packable(in) => in \in DOMAIN Packed /\ Packed[in] = Pack(in)
           /\ in \in DOMAIN Packed => Packable(in)
           /\ Args[in] = [i \in DOMAIN Findings[in] |-> Findings[in][i].args]
<1>1. Packed = [i \in { i \in Inputs : Packable(i) } |-> Pack(i)]
  BY TabledIs DEF Packed
<1>2. Args[in] = [i \in DOMAIN Findings[in] |-> Findings[in][i].args]
  BY TabledIs DEF Args
<1>3. /\ Pack(in).analysisId = in
      /\ Pack(in).targetContextId = TargetContextId(in)
      /\ Pack(in).hasReference = HasReference(in)
  BY DEF Pack, AnalysisId
<1>4. QED
  BY <1>1, <1>2, <1>3

(* A decoder, given the keys of the corpus a buffer was packed from.        *)
LEMMA DecodedIs ==
    ASSUME NEW in \in Inputs, NEW buffer, buffer = Pack(in)
    PROVE  Materialized(buffer.records, KeysOf(buffer)) = Shown(in)
BY PackIs DEF KeysOf, Shown

LEMMA SnapshotShows ==
    ASSUME NEW in \in Inputs, NEW raw, raw.analysisId = in
    PROVE  ShowsInputs(Snapshot(raw, Shown(in).rows, Shown(in).identities), in)
BY DEF ShowsInputs, Snapshot

(* What an identity and the visible fields leave unsaid of a row: nothing. *)
LEMMA RowsAgree ==
    ASSUME NEW r, NEW keys, NEW q, NEW others,
           IdentityOf(r, keys) = IdentityOf(q, others),
           VisibleEqual(Row(r, keys), Row(q, others))
    PROVE  Row(r, keys) = Row(q, others)
<1>1. /\ keys[r.key] = others[q.key] /\ r.code = q.code
      /\ r.start = q.start /\ r.end = q.end
  BY DEF IdentityOf
<1>2. /\ r.severity = q.severity /\ r.score = q.score
      /\ r.hasArgs = q.hasArgs /\ r.digest = q.digest
  BY DEF VisibleEqual, Row
<1>3. QED
  BY <1>1, <1>2 DEF Row

(* The object an older snapshot lends is the row itself.                   *)
LEMMA ReusedIsTheRow ==
    ASSUME NEW was \in Inputs, ShowsInputs(snapshot, was),
           NEW in \in Inputs, NEW i \in DOMAIN Shown(in).rows
    PROVE  Reused(Shown(in).identities[i], Shown(in).rows[i]) = Shown(in).rows[i]
<1> DEFINE identity == Shown(in).identities[i]
           row == Shown(in).rows[i]
           same == { j \in DOMAIN snapshot.findings :
                       snapshot.identities[j] = identity /\ VisibleEqual(snapshot.findings[j], row) }
<1>1. ASSUME NEW j \in same
      PROVE  snapshot.findings[j] = row
  <2> DEFINE q == Pack(was).records[j]
             r == Pack(in).records[i]
             keys == Keys[in.target]
             others == Keys[was.target]
  <2>1. snapshot.findings = Shown(was).rows /\ snapshot.identities = Shown(was).identities
    BY DEF ShowsInputs
  <2>2. Shown(was).rows[j] = Row(q, others) /\ Shown(was).identities[j] = IdentityOf(q, others)
    BY <2>1 DEF Shown, Materialized
  <2>3. row = Row(r, keys) /\ identity = IdentityOf(r, keys)
    BY DEF Shown, Materialized
  <2>4. snapshot.identities[j] = identity /\ VisibleEqual(snapshot.findings[j], row)
    BY <1>1
  <2> HIDE DEF q, r, keys, others, row, identity
  <2>5. Row(q, others) = Row(r, keys)
    BY <2>1, <2>2, <2>3, <2>4, RowsAgree
  <2>6. QED
    BY <2>1, <2>2, <2>3, <2>5
<1>2. Reused(identity, row) = IF same = {} THEN row ELSE snapshot.findings[CHOOSE j \in same : TRUE]
  BY DEF Reused
<1> HIDE DEF same, row, identity
<1>3. same # {} => (CHOOSE j \in same : TRUE) \in same
  OBVIOUS
<1>4. Reused(identity, row) = row
  <2>1. CASE same = {}
    BY <1>2, <2>1
  <2>2. CASE same # {}
    BY <1>1, <1>2, <1>3, <2>2
  <2>3. QED
    BY <2>1, <2>2
<1>5. QED
  BY <1>4 DEF row, identity

LEMMA InitIInv == Init => IInv
BY DEF Init, IInv, PublicationIsCurrent, BuffersArePacked, SnapshotIsShown

(* What leaves the application alone leaves its part of the invariant.     *)
LEMMA ApplicationKept ==
    ASSUME IInv, UNCHANGED application
    PROVE  BuffersArePacked' /\ SnapshotIsShown'
BY DEF IInv, application, BuffersArePacked, IsPack, SnapshotIsShown, ShowsInputs

LEMMA HandleKept ==
    ASSUME IInv, UNCHANGED <<inputs, engine, wrapper>>
    PROVE  inputs' \in Inputs /\ engine' \in {"Dirty", "CleanPublished"} /\ PublicationIsCurrent'
BY DEF IInv, wrapper, PublicationIsCurrent

LEMMA NoneIsNoInput == \A in \in Inputs : in # None
BY PublicationAssumption

LEMMA ChangeKeeps ==
    ASSUME IInv, NEW in \in Inputs, Change(in)
    PROVE  IInv'
BY ApplicationKept DEF Change, Invalidate, IInv, PublicationIsCurrent

(* Something is gone, so the corpus is another.                            *)
LEMMA RemovalChanges ==
    ASSUME IInv, NEW slugs \in SUBSET Slugs, RemoveBooks(slugs)
    PROVE  inputs' \in Inputs /\ inputs' # inputs
<1>1. inputs \in Inputs /\ inputs.target \in Targets
  BY DEF IInv, Inputs
<1>2. PICK target \in Left[inputs.target][slugs] : inputs' = [inputs EXCEPT !.target = target]
  BY DEF RemoveBooks
<1>3. Left[inputs.target][slugs]
        = { t \in Targets : \A b \in Slugs :
              Holding[t][b] = IF b \in slugs THEN << >> ELSE Holding[inputs.target][b] }
  <2>1. Left = [t \in Targets |-> [gone \in SUBSET Slugs |->
                   { u \in Targets : \A b \in Slugs :
                       Holding[u][b] = IF b \in gone THEN << >> ELSE Holding[t][b] }]]
    BY TabledIs, Zenon DEF Left
  <2>2. QED
    BY <1>1, <2>1
<1>4. PICK b \in Slugs : b \in slugs /\ Holding[inputs.target][b] # << >>
  <2>1. Held[inputs.target] = { b \in Slugs : Holding[inputs.target][b] # << >> }
    <3>1. Held = [t \in Targets |-> { b \in Slugs : Holding[t][b] # << >> }]
      BY TabledIs, Zenon DEF Held
    <3>2. QED
      BY <1>1, <3>1
  <2>2. QED
    BY <2>1 DEF RemoveBooks
<1>5. target \in Targets /\ target # inputs.target
  BY <1>2, <1>3, <1>4
<1>6. QED
  BY <1>1, <1>2, <1>5 DEF Inputs

LEMMA RemoveBooksKeeps ==
    ASSUME IInv, NEW slugs \in SUBSET Slugs, RemoveBooks(slugs)
    PROVE  IInv'
BY ApplicationKept, RemovalChanges
   DEF RemoveBooks, InvalidateRemoved, Invalidate, IInv, PublicationIsCurrent

LEMMA AnalyzeKeeps ==
    ASSUME IInv, Analyze
    PROVE  IInv'
<1>1. inputs \in Inputs /\ Packable(inputs) /\ Packed[inputs] = Pack(inputs)
  BY PackIs DEF IInv, Analyze
<1>2. IsPack(bytes)'
  BY <1>1 DEF Analyze, IsPack
<1>3. BuffersArePacked' /\ SnapshotIsShown'
  BY <1>2 DEF IInv, Analyze, BuffersArePacked, IsPack, SnapshotIsShown, ShowsInputs
<1>4. PublicationIsCurrent'
  BY <1>1, NoneIsNoInput DEF Analyze, PublicationIsCurrent, AnalysisId
<1>5. QED
  BY <1>1, <1>3, <1>4 DEF Analyze, IInv

LEMMA PackFailsKeeps ==
    ASSUME IInv, PackFails
    PROVE  IInv'
BY ApplicationKept DEF PackFails, PublishNothing, wrapper, IInv, PublicationIsCurrent

LEMMA ConstructKeeps ==
    ASSUME IInv, NEW in \in Inputs, Construct(in)
    PROVE  IInv'
BY DEF Construct, IInv, PublicationIsCurrent, BuffersArePacked, IsPack, SnapshotIsShown

LEMMA DecodeFindingsKeeps ==
    ASSUME IInv, DecodeFindings
    PROVE  IInv'
<1>1. PICK in \in Inputs : Packable(in) /\ bytes = Pack(in)
  BY DEF IInv, DecodeFindings, BuffersArePacked, IsPack
<1>2. snapshot' = Snapshot(bytes, Shown(in).rows, Shown(in).identities)
  BY <1>1, DecodedIs DEF DecodeFindings
<1>3. ShowsInputs(snapshot, in)'
  <2>1. ShowsInputs(Snapshot(bytes, Shown(in).rows, Shown(in).identities), in)
    BY <1>1, PackIs, SnapshotShows
  <2>2. QED
    BY <1>2, <2>1 DEF ShowsInputs
<1>4. SnapshotIsShown' /\ BuffersArePacked'
  BY <1>1, <1>3 DEF SnapshotIsShown, IInv, DecodeFindings, BuffersArePacked, IsPack
<1>5. QED
  BY <1>4, HandleKept DEF DecodeFindings, IInv

LEMMA ReconcileFindingsKeeps ==
    ASSUME IInv, ReconcileFindings
    PROVE  IInv'
<1>1. PICK in \in Inputs : Packable(in) /\ bytes = Pack(in)
  BY DEF IInv, ReconcileFindings, BuffersArePacked, IsPack
<1>2. PICK was \in Inputs : ShowsInputs(snapshot, was)
  BY DEF IInv, ReconcileFindings, SnapshotIsShown
<1> DEFINE next == Shown(in)
           rows == [i \in DOMAIN next.rows |-> Reused(next.identities[i], next.rows[i])]
<1>3. snapshot' = Snapshot(bytes, rows, next.identities)
  BY <1>1, DecodedIs DEF ReconcileFindings
<1>4. rows = next.rows
  <2>1. \A i \in DOMAIN next.rows : Reused(next.identities[i], next.rows[i]) = next.rows[i]
    BY <1>2, ReusedIsTheRow
  <2>2. next.rows = [i \in DOMAIN next.rows |-> next.rows[i]]
    BY DEF Shown, Materialized
  <2> HIDE DEF next
  <2>3. QED
    BY <2>1, <2>2
<1>5. ShowsInputs(snapshot, in)'
  <2>1. ShowsInputs(Snapshot(bytes, Shown(in).rows, Shown(in).identities), in)
    BY <1>1, PackIs, SnapshotShows
  <2>2. QED
    BY <1>3, <1>4, <2>1 DEF ShowsInputs
<1>6. SnapshotIsShown' /\ BuffersArePacked'
  BY <1>1, <1>5 DEF SnapshotIsShown, IInv, ReconcileFindings, BuffersArePacked, IsPack
<1>7. QED
  BY <1>6, HandleKept DEF ReconcileFindings, IInv

LEMMA SaveKeeps ==
    ASSUME IInv, Save
    PROVE  IInv'
<1>1. SnapshotIsShown' /\ BuffersArePacked'
  BY DEF Save, IInv, BuffersArePacked, IsPack, SnapshotIsShown, ShowsInputs
<1>2. QED
  BY <1>1, HandleKept DEF Save, IInv

(* What a stored buffer is opened as, when it is not discarded.            *)
LEMMA OpenedIs ==
    ASSUME IInv, DecodePersisted, ExactMatch \/ Salvageable
    PROVE  Packable(inputs) /\ ShowsInputs(snapshot, inputs)' /\ saved' = saved /\ saved # None
<1>1. PICK was \in Inputs : Packable(was) /\ saved = Pack(was)
  BY DEF IInv, DecodePersisted, BuffersArePacked, IsPack
<1>2. inputs \in Inputs /\ UNCHANGED inputs /\ saved # None
  BY DEF IInv, DecodePersisted
<1>3. CASE ExactMatch
  <2>1. was = inputs
    BY <1>1, <1>3, PackIs DEF ExactMatch, AnalysisId
  <2>2. LoadedFrom(saved.records) = Shown(inputs)
    BY <1>1, <2>1 DEF LoadedFrom, Shown
  <2>3. snapshot' = Snapshot(saved, Shown(inputs).rows, Shown(inputs).identities)
    BY <1>3, <2>2 DEF DecodePersisted, Loaded
  <2>4. ShowsInputs(Snapshot(saved, Shown(inputs).rows, Shown(inputs).identities), inputs)
    BY <1>1, <1>2, <2>1, PackIs, SnapshotShows
  <2>5. ShowsInputs(snapshot, inputs)'
    BY <1>2, <2>3, <2>4 DEF ShowsInputs
  <2>6. QED
    BY <1>1, <1>2, <1>3, <2>1, <2>5 DEF DecodePersisted
<1>4. CASE ~ ExactMatch /\ Salvageable
  <2>1. ReferenceRemoved(was, inputs)
    BY <1>1, <1>2, <1>4, PackIs DEF Salvageable, ReferenceRemoved
  <2>2. LoadedFrom(Kept(saved.records)) = Shown(inputs)
    BY <1>1, <2>1, KeptAreTheRest DEF LoadedFrom, Shown
  <2>3. snapshot' = Salvaged(Shown(inputs))
    BY <1>4, <2>2 DEF DecodePersisted
  <2>4. ShowsInputs(Salvaged(Shown(inputs)), inputs)
    BY DEF ShowsInputs, Salvaged, AnalysisId
  <2>5. ShowsInputs(snapshot, inputs)'
    BY <1>2, <2>3, <2>4 DEF ShowsInputs
  <2>6. QED
    BY <1>1, <1>2, <1>4, <2>1, <2>5, StillPackable DEF DecodePersisted
<1>5. QED
  BY <1>3, <1>4

LEMMA DecodePersistedKeeps ==
    ASSUME IInv, DecodePersisted
    PROVE  IInv'
<1>1. UNCHANGED <<inputs, engine, wrapper, bytes>> /\ inputs \in Inputs
  BY DEF DecodePersisted, IInv
<1>2. CASE ExactMatch \/ Salvageable
  <2>1. Packable(inputs) /\ ShowsInputs(snapshot, inputs)' /\ saved' = saved
    BY <1>2, OpenedIs
  <2>2. SnapshotIsShown' /\ BuffersArePacked'
    BY <1>1, <2>1 DEF SnapshotIsShown, IInv, BuffersArePacked, IsPack
  <2>3. QED
    BY <1>1, <2>2, HandleKept DEF IInv
<1>3. CASE ~ (ExactMatch \/ Salvageable)
  <2>1. saved' = None /\ UNCHANGED snapshot
    BY <1>3 DEF DecodePersisted
  <2>2. SnapshotIsShown' /\ BuffersArePacked'
    BY <1>1, <2>1 DEF SnapshotIsShown, ShowsInputs, IInv, BuffersArePacked, IsPack
  <2>3. QED
    BY <1>1, <2>2, HandleKept DEF IInv
<1>4. QED
  BY <1>2, <1>3

LEMMA StepIInv == IInv /\ [Next]_vars => IInv'
<1> SUFFICES ASSUME IInv, [Next]_vars
             PROVE  IInv'
  OBVIOUS
<1>1. ASSUME NEW in \in Inputs, Change(in)
      PROVE  IInv'
  BY <1>1, ChangeKeeps
<1>2. ASSUME NEW in \in Inputs, Construct(in)
      PROVE  IInv'
  BY <1>2, ConstructKeeps
<1>3. ASSUME NEW slugs \in SUBSET Slugs, RemoveBooks(slugs)
      PROVE  IInv'
  BY <1>3, RemoveBooksKeeps
<1>4. ASSUME Analyze \/ PackFails
      PROVE  IInv'
  BY <1>4, AnalyzeKeeps, PackFailsKeeps
<1>5. ASSUME DecodeFindings \/ ReconcileFindings \/ Save \/ DecodePersisted
      PROVE  IInv'
  BY <1>5, DecodeFindingsKeeps, ReconcileFindingsKeeps, SaveKeeps, DecodePersistedKeeps
<1>6. CASE UNCHANGED vars
  BY <1>6, ApplicationKept, HandleKept DEF vars, IInv
<1>7. QED
  BY <1>1, <1>2, <1>3, <1>4, <1>5, <1>6 DEF Next

LEMMA Inductive == Spec => []IInv
<1>1. QED
  BY InitIInv, StepIInv, PTL DEF Spec

(***************************************************************************)
(* The theorems.                                                           *)
(***************************************************************************)
(* Every buffer in hand or in storage is the pack of the analysis its id    *)
(* names, and no argument is kept without its id.                          *)
THEOREM TypeCorrect == Spec => []TypeOK
<1>1. IInv => TypeOK
  <2>1. SUFFICES ASSUME IInv PROVE TypeOK
    OBVIOUS
  <2>2. ASSUME NEW buffer, IsPack(buffer)
        PROVE  buffer = Packed[buffer.analysisId]
    BY <2>2, PackIs DEF IsPack
  <2>3. \A buffer \in {bytes, saved} \ {None} : buffer = Packed[buffer.analysisId]
    BY <2>1, <2>2 DEF IInv, BuffersArePacked
  <2>4. snapshot # None => snapshot.provenance \in {"live", "reference-removed"}
    BY <2>1 DEF IInv, SnapshotIsShown, ShowsInputs
  <2>5. QED
    BY <2>1, <2>3, <2>4 DEF TypeOK, IInv, PublicationIsCurrent
<1>2. QED
  BY <1>1, Inductive, PTL

(* Whatever the application shows, decoded, reconciled with an older        *)
(* snapshot or salvaged from storage, is row for row what the analysis its *)
(* id names found.                                                         *)
THEOREM SnapshotsAreExact == Spec => []SnapshotIsExact
<1>1. IInv => SnapshotIsExact
  BY ShownIsExact DEF IInv, SnapshotIsShown, ShowsInputs, SnapshotIsExact
<1>2. QED
  BY <1>1, Inductive, PTL

(* When the handle accepts a snapshot's id it answers every index of the    *)
(* snapshot, with the arguments of that finding.                           *)
THEOREM LookupsAreAnswered == Spec => []LookupsAnswerTheSnapshot
<1>1. IInv => LookupsAnswerTheSnapshot
  <2>1. SUFFICES ASSUME IInv, snapshot # None, CheckCurrentId(snapshot.analysisId)
                 PROVE  LET indices == [i \in DOMAIN snapshot.findings |-> i]
                        IN /\ Answered(snapshot.analysisId, indices)
                           /\ FindingsArgs(indices) = Args[snapshot.analysisId]
    BY DEF LookupsAnswerTheSnapshot
  <2>2. PICK in \in Inputs : ShowsInputs(snapshot, in)
    BY <2>1 DEF IInv, SnapshotIsShown
  <2>3. snapshot.analysisId = in /\ DOMAIN snapshot.findings = DOMAIN Findings[in]
    BY <2>2, ShownIs DEF ShowsInputs
  <2>4. last_args = Args[in]
    BY <2>1, <2>3 DEF IInv, PublicationIsCurrent, CheckCurrentId
  <2>5. DOMAIN Args[in] = DOMAIN Findings[in]
        /\ Args[in] = [i \in DOMAIN Findings[in] |-> Args[in][i]]
    BY PackIs
  <2> DEFINE indices == [i \in DOMAIN snapshot.findings |-> i]
  <2>6. DOMAIN indices = DOMAIN Findings[in] /\ \A i \in DOMAIN indices : indices[i] = i
    BY <2>3
  <2> HIDE DEF indices
  <2>7. Answered(snapshot.analysisId, indices)
    BY <2>1, <2>4, <2>5, <2>6 DEF Answered
  <2>8. FindingsArgs(indices) = [i \in DOMAIN Findings[in] |-> Args[in][i]]
    BY <2>4, <2>6 DEF FindingsArgs
  <2>9. QED
    BY <2>3, <2>5, <2>7, <2>8 DEF indices
<1>2. QED
  BY <1>1, Inductive, PTL

(* A stored buffer is either discarded or opened as the exact findings of  *)
(* the inputs the handle holds, the reference removed since included.      *)
THEOREM LoadingIsExact == Spec => LoadedIsCurrent
<1>1. IInv /\ [Next]_vars =>
        [DecodePersisted /\ saved' # None =>
            /\ snapshot'.analysisId = AnalysisId(inputs)
            /\ ShowsTheAnalysis(snapshot'.findings, inputs)]_vars
  <2>1. SUFFICES ASSUME IInv, DecodePersisted, saved' # None
                 PROVE  /\ snapshot'.analysisId = AnalysisId(inputs)
                        /\ ShowsTheAnalysis(snapshot'.findings, inputs)
    OBVIOUS
  <2>2. ExactMatch \/ Salvageable
    BY <2>1 DEF DecodePersisted
  <2>3. Packable(inputs) /\ ShowsInputs(snapshot, inputs)' /\ UNCHANGED inputs /\ inputs \in Inputs
    BY <2>1, <2>2, OpenedIs DEF DecodePersisted, IInv
  <2>4. snapshot'.analysisId = inputs /\ snapshot'.findings = Shown(inputs).rows
    BY <2>3 DEF ShowsInputs
  <2>5. ShowsTheAnalysis(Shown(inputs).rows, inputs)
    BY <2>3, ShownIsExact
  <2>6. QED
    BY <2>4, <2>5 DEF AnalysisId
<1>2. QED
  BY <1>1, Inductive, PTL DEF Spec, LoadedIsCurrent

(* The published id and arguments are the pure analysis of the inputs held  *)
(* now, or nothing: each step is one of the abstract handle, a new handle, *)
(* or leaves inputs and publication alone.                                 *)
THEOREM WireImplementsPureAnalysis == Spec => ImplementsPureAnalysis
<1> DEFINE Step == [Pure!Next \/ \E in \in Inputs : Construct(in)]_<<inputs, last_analysis_id, last_args>>
<1>1. IInv /\ [Next]_vars => Step
  <2> SUFFICES ASSUME IInv, [Next]_vars
               PROVE  Step
    OBVIOUS
  <2>1. ASSUME inputs' \in Inputs, inputs' # inputs, Invalidate
        PROVE  Pure!Next
    BY <2>1 DEF Invalidate, Pure!Next, Pure!Change
  <2>2. ASSUME NEW in \in Inputs, Change(in)
        PROVE  Step
    <3>1. inputs' \in Inputs /\ inputs' # inputs /\ Invalidate
      BY <2>2 DEF Change
    <3>2. QED
      BY <2>1, <3>1
  <2>3. ASSUME NEW slugs \in SUBSET Slugs, RemoveBooks(slugs)
        PROVE  Step
    <3>1. inputs' \in Inputs /\ inputs' # inputs /\ Invalidate
      BY <2>3, RemovalChanges DEF RemoveBooks, InvalidateRemoved
    <3>2. QED
      BY <2>1, <3>1
  <2>4. CASE Analyze
    <3>1. inputs \in Inputs /\ UNCHANGED inputs
      BY <2>4 DEF IInv, Analyze
    <3>2. last_analysis_id' = inputs /\ last_args' = Args[inputs] /\ inputs # None
      BY <2>4, <3>1, NoneIsNoInput DEF Analyze, AnalysisId
    <3>3. PureAnswer[inputs] = <<inputs, Args[inputs]>>
      BY <3>1, TabledIs DEF PureAnswer, AnalysisId
    <3>4. Pure!Analyze
      BY <3>1, <3>2, <3>3 DEF Pure!Analyze
    <3>5. QED
      BY <3>4 DEF Pure!Next
  <2>5. ASSUME NEW in \in Inputs, Construct(in)
        PROVE  Step
    BY <2>5
  <2>6. CASE PackFails \/ DecodeFindings \/ ReconcileFindings \/ Save \/ DecodePersisted
    <3>1. UNCHANGED <<inputs, last_analysis_id, last_args>>
      BY <2>6 DEF PackFails, PublishNothing, DecodeFindings, ReconcileFindings, Save,
                  DecodePersisted, wrapper
    <3>2. QED
      BY <3>1
  <2>7. CASE UNCHANGED vars
    <3>1. UNCHANGED <<inputs, last_analysis_id, last_args>>
      BY <2>7 DEF vars, wrapper
    <3>2. QED
      BY <3>1
  <2>8. QED
    BY <2>2, <2>3, <2>4, <2>5, <2>6, <2>7 DEF Next
<1>2. QED
  BY <1>1, Inductive, PTL DEF Spec, ImplementsPureAnalysis
===============================================================================
