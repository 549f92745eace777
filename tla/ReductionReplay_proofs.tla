------------------------ MODULE ReductionReplay_proofs ------------------------
(***************************************************************************)
(* Proofs about ReductionReplay, for every substrate that meets the        *)
(* contract SubstrateAssumption states and for books of every length.      *)
(***************************************************************************)
EXTENDS ReductionReplay, DataInduction

(***************************************************************************)
(* The inductive invariant.  BookIsColdFold alone is not inductive: while  *)
(* a call replays, the half-built columns have to be a cold fold of the    *)
(* chapters replayed so far, and the replay may start or stop in mid book  *)
(* only because a carried contribution belongs to an earlier chapter and   *)
(* was carried through every chapter in between (OwnerChain).              *)
(***************************************************************************)
OwnerChain(token, entering, leaving, i) ==
    \/ Owner(leaving[i]) = NoOwner
    \/ \E o \in 1 .. i : /\ Owner(leaving[i]) = token[o]
                         /\ \A j \in o + 1 .. i : Owner(entering[j]) = token[o]

BookChain ==
    \A i \in 1 .. book.n : OwnerChain(book.token, book.entering, book.leaving, i)

Observed ==
    pc # "idle" => \A i \in 1 .. input.n : obs[i] = MapChapter(input.token[i], input.stamp[i])

PrefixKept == pc # "idle" => \A i \in 1 .. start - 1 : SamePosition(input, i)

InReplay == pc \in {"replay", "edge"}

CarryIsLast == InReplay => carry = IF k = 1 THEN DefaultState ELSE col.leaving[k - 1]

PartialDeposits(i) ==
    LET d == col.reduced[i].deposits
    IN /\ i + Len(d) <= k - 1
       /\ \A j \in 1 .. Len(d) :
             /\ Owner(col.entering[i + j]) = input.token[i]
             /\ d[j] = [obs |-> obs[i + j], entering |-> col.entering[i + j]]
       /\ i + Len(d) < k - 1 => Owner(col.entering[i + Len(d) + 1]) # input.token[i]

PartialAt(i) ==
    /\ col.entering[i] = IF i = 1 THEN DefaultState ELSE col.leaving[i - 1]
    /\ col.leaving[i] = Leaving(obs[i], col.entering[i])
    /\ col.reduced[i].own = [obs |-> obs[i], entering |-> col.entering[i]]
    /\ col.reduced[i].edge = NoEdge
    /\ PartialDeposits(i)
    /\ OwnerChain(input.token, col.entering, col.leaving, i)

PartialFold == InReplay => \A i \in 1 .. k - 1 : PartialAt(i)

WindowOwnsCarry == InReplay => \A i \in 1 .. start - 1 : Owner(carry) # input.token[i]

EdgeReached ==
    pc = "edge" => k = input.n + 1 \/ Converged(k - 1, carry)

TypeInv == TypeOK /\ PrefixKept /\ EdgeReached

IInv ==
    /\ TypeInv
    /\ BookIsColdFold
    /\ BookChain
    /\ Observed
    /\ CarryIsLast
    /\ PartialFold
    /\ WindowOwnsCarry

(***************************************************************************)
(* Type correctness.                                                       *)
(***************************************************************************)
LEMMA ReduceType ==
    ASSUME NEW o \in Obs, NEW s \in States
    PROVE  ReduceChapter(o, s) \in Reduced
  BY DEF ReduceChapter, Reduced, Reduction

LEMMA CarryOutType ==
    ASSUME NEW r \in Reduced, NEW o \in Obs, NEW s \in States
    PROVE  /\ CarryOut(r, o, s) \in Reduced
           /\ CarryOut(r, o, s).own = r.own
           /\ CarryOut(r, o, s).edge = r.edge
           /\ Len(CarryOut(r, o, s).deposits) = Len(r.deposits) + 1
           /\ \A j \in 1 .. Len(r.deposits) : CarryOut(r, o, s).deposits[j] = r.deposits[j]
           /\ CarryOut(r, o, s).deposits[Len(r.deposits) + 1] = [obs |-> o, entering |-> s]
<1> DEFINE x == [obs |-> o, entering |-> s]
<1>1. x \in Reduction /\ r.deposits \in Seq(Reduction)
  BY DEF Reduced, Reduction
<1> HIDE DEF x
<1>2. /\ Append(r.deposits, x) \in Seq(Reduction)
      /\ Len(Append(r.deposits, x)) = Len(r.deposits) + 1
      /\ \A j \in 1 .. Len(r.deposits) : Append(r.deposits, x)[j] = r.deposits[j]
      /\ Append(r.deposits, x)[Len(r.deposits) + 1] = x
  BY <1>1, AppendProperties
<1>3. CarryOut(r, o, s) = [r EXCEPT !.deposits = Append(r.deposits, x)]
  BY DEF CarryOut, x
<1>4. QED
  BY <1>2, <1>3 DEF Reduced, x

LEMMA FinishType ==
    ASSUME NEW r \in Reduced, NEW s \in States
    PROVE  FinishBook(r, s) \in Reduced
  BY DEF FinishBook, Reduced

(* The typing of the book and of a call's input, column by column. *)
LEMMA InputColumns ==
    ASSUME NEW in \in Inputs
    PROVE  /\ in.n \in 1 .. MaxChapters
           /\ in = [n |-> in.n, token |-> in.token, stamp |-> in.stamp]
           /\ in.token \in TokenColumn(in.n)
           /\ in.token \in [1 .. in.n -> Tokens]
           /\ in.stamp \in [1 .. in.n -> Stamps]
  BY DEF Inputs, Column, TokenColumn

LEMMA BookColumns ==
    ASSUME TypeOK
    PROVE  /\ book.n \in 0 .. MaxChapters
           /\ book.token \in TokenColumn(book.n)
           /\ book.token \in [1 .. book.n -> Tokens]
           /\ book.stamp \in [1 .. book.n -> Stamps]
           /\ book.obs \in [1 .. book.n -> Obs]
           /\ book.entering \in [1 .. book.n -> States]
           /\ book.leaving \in [1 .. book.n -> States]
           /\ book.reduced \in [1 .. book.n -> Reduced]
  BY DEF TypeOK, BookOf, Column, TokenColumn

LEMMA EmptyBookType == EmptyBook.n = 0 /\ EmptyBook \in BookOf(0)
  BY DEF EmptyBook, BookOf, Column, TokenColumn

LEMMA TypeInit == Init => TypeOK
  BY SubstrateAssumption, EmptyBookType DEF Init, TypeOK, IdleType

LEMMA ObserveType ==
    ASSUME TypeOK, NEW in \in Inputs, NEW i \in 1 .. in.n
    PROVE  Observe(in, i) \in Obs
<1>1. CASE \E j \in 1 .. book.n : Reusable(in, i, j)
  BY <1>1, BookColumns DEF Observe
<1>2. CASE ~ \E j \in 1 .. book.n : Reusable(in, i, j)
  BY <1>2, InputColumns DEF Observe, MapChapter, Obs
<1>3. QED
  BY <1>1, <1>2

LEMMA ReducedAfterType ==
    ASSUME TypeOK, pc = "replay", NEW i \in 1 .. k
    PROVE  ReducedAfter(i) \in Reduced
<1> USE DEF ReducedAfter
<1>1. /\ obs[k] \in Obs
      /\ carry \in States
      /\ k \in 1 .. input.n
      /\ input.n \in Nat
      /\ col.reduced \in [1 .. k - 1 -> Reduced]
  BY InputColumns DEF TypeOK, CallType, ReplayType, Column, Columns
<1>2. CASE i = k
  BY <1>1, <1>2, ReduceType
<1>3. CASE i # k
  <2>1. col.reduced[i] \in Reduced
    BY <1>1, <1>3
  <2>2. CarryOut(col.reduced[i], obs[k], carry) \in Reduced
    BY <1>1, <2>1, CarryOutType
  <2>3. QED
    BY <1>3, <2>1, <2>2
<1>4. QED
  BY <1>2, <1>3

(* Where the replay stopped early, the cached book is as long as the input. *)
LEMMA FinalReducedType ==
    ASSUME TypeInv, pc = "edge", NEW i \in 1 .. input.n
    PROVE  /\ FinalReduced(i) \in Reduced
           /\ i >= k => book.n = input.n
<1> USE DEF FinalReduced, TypeInv
<1>1. /\ carry \in States
      /\ k \in 2 .. input.n + 1
      /\ col.reduced \in [1 .. k - 1 -> Reduced]
      /\ start \in 1 .. input.n
      /\ input.n \in Nat
  BY InputColumns DEF TypeOK, CallType, ReplayType, Column, Columns
<1>2. CASE i >= k
  <2>1. Converged(k - 1, carry)
    BY <1>1, <1>2 DEF EdgeReached
  <2>2. book.n = input.n
    BY <2>1 DEF Converged, ReplayedThrough, Structural
  <2>3. QED
    BY <1>1, <1>2, <2>2, BookColumns
<1>3. CASE i < k
  BY <1>1, <1>3, FinishType
<1>4. QED
  BY <1>1, <1>2, <1>3

LEMMA TypeStep == TypeInv /\ [Next]_vars => TypeInv'
<1> SUFFICES ASSUME TypeInv, [Next]_vars
             PROVE  TypeInv'
  OBVIOUS
<1> USE DEF TypeInv
<1>1. ASSUME NEW in \in Inputs, UpdateBook(in)
      PROVE  TypeInv'
  <2>1. obs' \in Column(Obs, in.n)
    BY <1>1, ObserveType DEF UpdateBook, Column
  <2>2. /\ start' \in 1 .. in.n /\ input' = in /\ pc' = "walk"
        /\ k' = 1 /\ carry' = DefaultState /\ col' = NoColumns
        /\ book' = book /\ pending' = pending
    BY <1>1 DEF UpdateBook, TypeOK, IdleType
  <2>3. PrefixKept'
    <3>1. IsFirstChanged(in, start')
      BY <1>1 DEF UpdateBook
    <3>2. \A i \in 1 .. start' - 1 : SamePosition(in, i)
      BY <2>2, <3>1, InputColumns DEF IsFirstChanged, Changed
    <3>3. QED
      BY <2>2, <3>2 DEF PrefixKept, SamePosition
  <2>4. QED
    BY <2>1, <2>2, <2>3 DEF TypeOK, CallType, WalkType, EdgeReached
<1>2. CASE WalkBack
  <2>1. PICK i \in 1 .. start - 1 : start' = i
    BY <1>2 DEF WalkBack
  <2>2. /\ start \in 1 .. input.n /\ input.n \in Nat /\ start' \in 1 .. input.n
        /\ start' - 1 <= start - 1
    BY <1>2, <2>1, InputColumns DEF WalkBack, TypeOK, CallType
  <2>3. PrefixKept'
    BY <1>2, <2>2 DEF WalkBack, PrefixKept, SamePosition
  <2>4. QED
    BY <1>2, <2>2, <2>3 DEF WalkBack, TypeOK, CallType, WalkType, EdgeReached
<1>3. CASE OpenWindow
  <2>1. /\ start \in 1 .. input.n /\ input.n \in Nat /\ book.n \in Nat
        /\ \A i \in 1 .. start - 1 : i <= book.n
    BY <1>3, InputColumns, BookColumns
       DEF OpenWindow, TypeOK, CallType, PrefixKept, SamePosition
  <2>2. EnteringAt(start) \in States
    BY <2>1, BookColumns, SubstrateAssumption DEF EnteringAt
  <2>3. col' \in Columns(start - 1)
    BY <1>3, <2>1, BookColumns DEF OpenWindow, Columns, Column
  <2>4. k' \in start .. input.n + 1 /\ carry' \in States /\ k' = start
    BY <1>3, <2>1, <2>2 DEF OpenWindow
  <2>5. PrefixKept' /\ EdgeReached'
    BY <1>3 DEF OpenWindow, PrefixKept, EdgeReached, SamePosition
  <2>6. QED
    BY <1>3, <2>1, <2>3, <2>4, <2>5 DEF OpenWindow, TypeOK, CallType, ReplayType
<1>4. CASE Replay
  <2>1. /\ k \in start .. input.n /\ input.n \in Nat /\ start \in 1 .. input.n
        /\ obs[k] \in Obs /\ carry \in States
        /\ col.entering \in [1 .. k - 1 -> States]
        /\ col.leaving \in [1 .. k - 1 -> States]
    BY <1>4, InputColumns DEF Replay, TypeOK, CallType, ReplayType, Columns, Column
  <2>2. carry' \in States /\ carry' = Leaving(obs[k], carry)
    BY <1>4, <2>1, SubstrateAssumption DEF Replay
  <2>3. col' \in Columns(k)
    <3>1. [i \in 1 .. k |-> ReducedAfter(i)] \in [1 .. k -> Reduced]
      BY <1>4, ReducedAfterType DEF Replay
    <3>2. [i \in 1 .. k |-> IF i = k THEN carry ELSE col.entering[i]] \in [1 .. k -> States]
      BY <2>1
    <3>3. [i \in 1 .. k |-> IF i = k THEN carry' ELSE col.leaving[i]] \in [1 .. k -> States]
      BY <2>1, <2>2
    <3>4. QED
      BY <1>4, <2>2, <3>1, <3>2, <3>3 DEF Replay, Columns, Column
  <2>4. /\ pc' \in {"replay", "edge"}
        /\ pc' = "replay" => k # input.n
        /\ pc' = "edge" => k = input.n \/ Converged(k, carry')
        /\ k' = k + 1
        /\ UNCHANGED <<book, pending, input, obs, start>>
    BY <1>4, <2>2 DEF Replay
  <2>5. PrefixKept'
    BY <1>4, <2>4 DEF Replay, PrefixKept, SamePosition
  <2>6. EdgeReached'
    BY <2>1, <2>4 DEF EdgeReached, Converged, ReplayedThrough, Structural, Changed,
                      SamePosition, Dangling, OwnedBy
  <2>7. QED
    BY <1>4, <2>1, <2>2, <2>3, <2>4, <2>5, <2>6 DEF Replay, TypeOK, CallType, ReplayType
<1>5. CASE Finish
  <2>1. /\ pc = "edge" /\ input \in Inputs /\ obs \in Column(Obs, input.n)
        /\ col \in Columns(k - 1) /\ k \in 2 .. input.n + 1
        /\ input.n \in Nat /\ input.n \in 0 .. MaxChapters
    BY <1>5, InputColumns, SubstrateAssumption DEF Finish, TypeOK, CallType, ReplayType
  <2>2. \A i \in 1 .. input.n : i >= k => i \in 1 .. book.n
    BY <2>1, FinalReducedType
  <2>3. [i \in 1 .. input.n |-> FinalReduced(i)] \in [1 .. input.n -> Reduced]
    BY <2>1, FinalReducedType
  <2>4. [i \in 1 .. input.n |-> IF i < k THEN col.entering[i] ELSE book.entering[i]]
           \in [1 .. input.n -> States]
    BY <2>1, <2>2, BookColumns DEF Columns, Column
  <2>5. [i \in 1 .. input.n |-> IF i < k THEN col.leaving[i] ELSE book.leaving[i]]
           \in [1 .. input.n -> States]
    BY <2>1, <2>2, BookColumns DEF Columns, Column
  <2>6. book'.n = input.n /\ book' \in BookOf(input.n)
    BY <1>5, <2>1, <2>3, <2>4, <2>5, InputColumns DEF Finish, BookOf, Column
  <2>7. Sites \subseteq Tokens
    BY <2>1, InputColumns DEF Sites, TypeOK, CallType
  <2>8. pending' \in [all : BOOLEAN, chapters : SUBSET Tokens]
    BY <1>5, <2>7 DEF Finish, OweAll, OweChapters, TypeOK
  <2>9. QED
    BY <1>5, <2>1, <2>6, <2>8
       DEF Finish, TypeOK, IdleType, PrefixKept, EdgeReached
<1>6. ASSUME NEW moved \in BOOLEAN, RemoveBook(moved)
      PROVE  TypeInv'
  BY <1>6, EmptyBookType, SubstrateAssumption
     DEF RemoveBook, TypeOK, IdleType, OweAll, local, EdgeReached, PrefixKept
<1>7. CASE Clear
  BY <1>7, EmptyBookType, SubstrateAssumption
     DEF Clear, TypeOK, IdleType, OweAll, local, EdgeReached, PrefixKept
<1>8. CASE Promote
  BY <1>8 DEF Promote, TypeOK, IdleType, local, EdgeReached, PrefixKept
<1>9. CASE UNCHANGED vars
  <2>1. TypeOK'
    BY <1>9 DEF vars, TypeOK, IdleType, CallType, WalkType, ReplayType
  <2>2. PrefixKept'
    BY <1>9 DEF vars, PrefixKept, SamePosition
  <2>3. EdgeReached'
    BY <1>9 DEF vars, EdgeReached, Converged, ReplayedThrough, Structural, Changed,
                SamePosition, Dangling, OwnedBy
  <2>4. QED
    BY <2>1, <2>2, <2>3
<1>10. QED
  BY <1>1, <1>2, <1>3, <1>4, <1>5, <1>6, <1>7, <1>8, <1>9 DEF Next

(* TypeOK holds of every reachable state, for books of every length. *)
THEOREM TypeCorrect == Spec => []TypeOK
<1>1. Init => TypeInv
  BY TypeInit DEF Init, TypeInv, PrefixKept, EdgeReached
<1>2. TypeInv => TypeOK
  BY DEF TypeInv
<1>3. QED
  BY <1>1, <1>2, TypeStep, PTL DEF Spec

(***************************************************************************)
(* The replay rebuilds the cold fold.                                      *)
(***************************************************************************)
LEMMA TokensDistinct ==
    ASSUME NEW in \in Inputs, NEW i \in 1 .. in.n, NEW j \in 1 .. in.n,
           in.token[i] = in.token[j]
    PROVE  i = j
  BY InputColumns DEF TokenColumn

LEMMA BookTokensDistinct ==
    ASSUME TypeOK, NEW i \in 1 .. book.n, NEW j \in 1 .. book.n,
           book.token[i] = book.token[j]
    PROVE  i = j
  BY BookColumns DEF TokenColumn

(* What a running call's locals are, for the steps below. *)
LEMMA ReplayFacts ==
    ASSUME TypeOK, InReplay
    PROVE  /\ input \in Inputs /\ input.n \in Nat
           /\ input.token \in [1 .. input.n -> Tokens]
           /\ start \in 1 .. input.n /\ k \in start .. input.n + 1
           /\ obs \in [1 .. input.n -> Obs]
           /\ carry \in States
           /\ col.entering \in [1 .. k - 1 -> States]
           /\ col.leaving \in [1 .. k - 1 -> States]
           /\ col.reduced \in [1 .. k - 1 -> Reduced]
           /\ \A i \in 1 .. k - 1 : Len(col.reduced[i].deposits) \in Nat
<1>1. input \in Inputs /\ input.n \in Nat /\ input.token \in [1 .. input.n -> Tokens]
  BY InputColumns DEF TypeOK, InReplay, CallType
<1>2. /\ start \in 1 .. input.n /\ k \in start .. input.n + 1
      /\ obs \in [1 .. input.n -> Obs]
      /\ carry \in States
      /\ col.entering \in [1 .. k - 1 -> States]
      /\ col.leaving \in [1 .. k - 1 -> States]
      /\ col.reduced \in [1 .. k - 1 -> Reduced]
  BY DEF TypeOK, InReplay, CallType, ReplayType, Columns, Column
<1>3. \A r \in Reduced : Len(r.deposits) \in Nat
  BY LenProperties DEF Reduced
<1>4. QED
  BY <1>1, <1>2, <1>3

(* A state some chapter left is owned by no chapter it was not carried     *)
(* through: what owns the carry at k is one of the replayed chapters.      *)
LEMMA CarryOwner ==
    ASSUME IInv, InReplay, NEW i \in 1 .. k - 1, Owner(carry) = input.token[i]
    PROVE  /\ i >= start
           /\ i + Len(col.reduced[i].deposits) = k - 1
           /\ \A j \in i + 1 .. k - 1 : Owner(col.entering[j]) = input.token[i]
<1>1. TypeOK
  BY DEF IInv, TypeInv
<1>a. /\ input \in Inputs /\ input.n \in Nat /\ input.token \in [1 .. input.n -> Tokens]
      /\ start \in 1 .. input.n /\ k \in start .. input.n + 1
      /\ \A j \in 1 .. k - 1 : j \in 1 .. input.n
      /\ Len(col.reduced[i].deposits) \in Nat
  BY <1>1, ReplayFacts
<1>2. carry = col.leaving[k - 1] /\ PartialAt(k - 1) /\ PartialAt(i)
  BY <1>1, ReplayFacts DEF IInv, CarryIsLast, PartialFold
<1>3. Owner(carry) \in Tokens /\ Owner(carry) # NoOwner
  BY <1>a, SubstrateAssumption
<1>4. PICK o \in 1 .. k - 1 : /\ Owner(carry) = input.token[o]
                              /\ \A j \in o + 1 .. k - 1 : Owner(col.entering[j]) = input.token[o]
  BY <1>2, <1>3 DEF PartialAt, OwnerChain
<1>5. o = i
  BY <1>a, <1>4, TokensDistinct
<1>6. i >= start
  BY <1>a DEF IInv, WindowOwnsCarry
<1>7. i + Len(col.reduced[i].deposits) = k - 1
  <2> DEFINE m == Len(col.reduced[i].deposits)
  <2>1. /\ i + m <= k - 1
        /\ i + m < k - 1 => Owner(col.entering[i + m + 1]) # input.token[i]
    BY <1>2 DEF PartialAt, PartialDeposits
  <2>2. m \in Nat
    BY <1>a
  <2> HIDE DEF m
  <2>3. i + m < k - 1 => i + m + 1 \in i + 1 .. k - 1
    BY <1>a, <2>2
  <2>4. i + m = k - 1
    BY <1>a, <1>4, <1>5, <2>1, <2>2, <2>3
  <2>5. QED
    BY <2>4 DEF m
<1>8. QED
  BY <1>4, <1>5, <1>6, <1>7

(* Nothing is carried into the window: its start was walked back to the    *)
(* owner of whatever entered it.                                           *)
LEMMA NothingEnters ==
    ASSUME IInv, OpenWindow
    PROVE  /\ Owner(EnteringAt(start)) = NoOwner
           /\ start \in 1 .. input.n /\ input.n \in Nat
           /\ start - 1 <= book.n
           /\ \A i \in 1 .. start - 1 : SamePosition(input, i)
           /\ start <= book.n => book.entering[start] = EnteringAt(start)
<1>1. TypeOK /\ PrefixKept
  BY DEF IInv, TypeInv
<1>2. /\ start \in 1 .. input.n /\ input.n \in Nat /\ book.n \in Nat
      /\ \A i \in 1 .. start - 1 : SamePosition(input, i)
  BY <1>1, InputColumns, BookColumns DEF OpenWindow, TypeOK, CallType, PrefixKept
<1>3. start - 1 <= book.n
  BY <1>2 DEF SamePosition
<1>4. CASE start = 1
  <2>1. EnteringAt(start) = DefaultState
    BY <1>4 DEF EnteringAt
  <2>2. start <= book.n => ColdAt(book, 1)
    BY <1>2, <1>4 DEF IInv, BookIsColdFold
  <2>3. QED
    BY <1>2, <1>3, <1>4, <2>1, <2>2, SubstrateAssumption DEF ColdAt
<1>5. CASE start > 1
  <2>1. EnteringAt(start) = book.leaving[start - 1]
    BY <1>2, <1>5 DEF EnteringAt
  <2>2. start - 1 \in 1 .. book.n
    BY <1>2, <1>3, <1>5
  <2>3. OwnerChain(book.token, book.entering, book.leaving, start - 1)
    BY <2>2 DEF IInv, BookChain
  <2>4. \A i \in 1 .. start - 1 : Owner(book.leaving[start - 1]) # book.token[i]
    BY <1>2, <2>1 DEF OpenWindow, OwnedBy, SamePosition
  <2>5. start <= book.n => ColdAt(book, start)
    BY <1>2, <1>5 DEF IInv, BookIsColdFold
  <2>6. QED
    BY <1>2, <1>3, <1>5, <2>1, <2>3, <2>4, <2>5 DEF OwnerChain, ColdAt
<1>6. QED
  BY <1>2, <1>4, <1>5

(* The kept prefix is a complete fold of the chapters below the window.    *)
LEMMA PrefixIsFold ==
    ASSUME IInv, OpenWindow, NEW i \in 1 .. start - 1
    PROVE  PartialAt(i)'
<1>1. /\ i \in 1 .. book.n /\ book.n \in Nat /\ start \in Nat /\ i \in Nat
      /\ book.token[i] = input.token[i] /\ book.stamp[i] = input.stamp[i]
      /\ i \in 1 .. input.n /\ start - 1 <= book.n
  BY NothingEnters, BookColumns DEF SamePosition, IInv, TypeInv
<1>2. ColdAt(book, i)
  BY <1>1 DEF IInv, BookIsColdFold
<1>3. /\ k' = start /\ obs' = obs /\ input' = input
      /\ \A j \in 1 .. start - 1 : /\ col'.entering[j] = book.entering[j]
                                   /\ col'.leaving[j] = book.leaving[j]
                                   /\ col'.reduced[j] = book.reduced[j]
  BY DEF OpenWindow
<1>4. \A j \in 1 .. start - 1 : obs[j] = book.obs[j] /\ input.token[j] = book.token[j]
  <2>1. \A j \in 1 .. start - 1 : j \in 1 .. book.n /\ j \in 1 .. input.n
    BY <1>1, NothingEnters
  <2>2. \A j \in 1 .. start - 1 : ColdAt(book, j) /\ SamePosition(input, j)
    BY <2>1, NothingEnters DEF IInv, BookIsColdFold
  <2>3. \A j \in 1 .. start - 1 : obs[j] = MapChapter(input.token[j], input.stamp[j])
    BY <2>1 DEF IInv, Observed, OpenWindow
  <2>4. \A j \in 1 .. start - 1 :
            book.obs[j] = MapChapter(book.token[j], book.stamp[j])
    BY <2>2 DEF ColdAt
  <2>5. \A j \in 1 .. start - 1 :
            book.token[j] = input.token[j] /\ book.stamp[j] = input.stamp[j]
    BY <2>2 DEF SamePosition
  <2>6. QED
    BY <2>3, <2>4, <2>5
<1> DEFINE m == Len(book.reduced[i].deposits)
<1>5. m \in Nat
  <2>1. book.reduced[i] \in Reduced
    BY <1>1, BookColumns DEF IInv, TypeInv
  <2>2. QED
    BY <2>1, LenProperties DEF Reduced
<1>6. /\ i + m <= book.n
      /\ \A j \in 1 .. m :
            /\ Owner(book.entering[i + j]) = book.token[i]
            /\ book.reduced[i].deposits[j] = [obs |-> book.obs[i + j], entering |-> book.entering[i + j]]
      /\ i + m < book.n => Owner(book.entering[i + m + 1]) # book.token[i]
  BY <1>2 DEF ColdAt, DepositsOf
<1>7. input.token[i] # NoOwner
  BY <1>1, BookColumns, SubstrateAssumption DEF IInv, TypeInv
<1> HIDE DEF m
<1>8. i + m <= start - 1
  <2>1. SUFFICES ASSUME i + m >= start PROVE FALSE
    BY <1>1, <1>5
  <2>2. start - i \in 1 .. m /\ i + (start - i) = start /\ start <= book.n
    BY <1>1, <1>5, <1>6, <2>1
  <2>3. Owner(book.entering[start]) = book.token[i]
    BY <1>6, <2>2
  <2>4. QED
    BY <1>1, <1>7, <2>2, <2>3, NothingEnters
<1>9. PartialDeposits(i)'
  <2>1. \A j \in 1 .. m : i + j \in 1 .. start - 1
    BY <1>1, <1>5, <1>8
  <2>2. i + m < start - 1 => i + m + 1 \in 1 .. start - 1 /\ i + m < book.n
    BY <1>1, <1>5
  <2>3. /\ i + m <= k' - 1
        /\ \A j \in 1 .. m :
              /\ Owner(col'.entering[i + j]) = input'.token[i]
              /\ col'.reduced[i].deposits[j] = [obs |-> obs'[i + j], entering |-> col'.entering[i + j]]
        /\ i + m < k' - 1 => Owner(col'.entering[i + m + 1]) # input'.token[i]
    BY <1>1, <1>3, <1>4, <1>6, <1>8, <2>1, <2>2
  <2>4. QED
    BY <1>3, <2>3 DEF PartialDeposits, m
<1>10. col'.reduced[i].edge = NoEdge
  <2>1. SUFFICES ASSUME Owner(book.leaving[book.n]) = book.token[i] PROVE FALSE
    BY <1>2, <1>3 DEF ColdAt, EdgeOf
  <2>2. OwnerChain(book.token, book.entering, book.leaving, book.n)
    BY <1>1 DEF IInv, BookChain
  <2>3. PICK o \in 1 .. book.n : /\ book.token[i] = book.token[o]
                                 /\ \A j \in o + 1 .. book.n : Owner(book.entering[j]) = book.token[o]
    BY <1>1, <1>7, <2>1, <2>2 DEF OwnerChain
  <2>4. o = i
    BY <1>1, <2>3, BookTokensDistinct DEF IInv, TypeInv
  <2>5. CASE start <= book.n
    BY <1>1, <1>7, <2>3, <2>4, <2>5, NothingEnters
  <2>6. CASE start > book.n
    <3>1. start = book.n + 1 /\ start # 1
      BY <1>1, <2>6
    <3>2. EnteringAt(start) = book.leaving[book.n]
      BY <1>1, <3>1 DEF EnteringAt
    <3>3. QED
      BY <1>1, <1>7, <2>1, <3>2, NothingEnters
  <2>7. QED
    BY <1>1, <2>5, <2>6
<1>11. OwnerChain(input.token, col.entering, col.leaving, i)'
  <2>1. OwnerChain(book.token, book.entering, book.leaving, i)
    BY <1>1 DEF IInv, BookChain
  <2>2. \A j \in 1 .. i : j \in 1 .. start - 1
    BY <1>1
  <2>3. QED
    BY <1>3, <1>4, <2>1, <2>2 DEF OwnerChain
<1>12. QED
  BY <1>1, <1>2, <1>3, <1>4, <1>9, <1>10, <1>11 DEF PartialAt, ColdAt

LEMMA OpenWindowStep ==
    ASSUME IInv, OpenWindow, TypeInv'
    PROVE  IInv'
<1>1. /\ k' = start /\ carry' = EnteringAt(start) /\ pc' = "replay" /\ pc = "walk"
      /\ book' = book /\ input' = input /\ obs' = obs /\ start' = start
      /\ \A i \in 1 .. start - 1 : Owner(EnteringAt(start)) # input.token[i]
      /\ col'.leaving = [i \in 1 .. start - 1 |-> book.leaving[i]]
  BY DEF OpenWindow, OwnedBy
<1>2. BookIsColdFold' /\ BookChain' /\ Observed'
  BY <1>1 DEF IInv, BookIsColdFold, ColdAt, DepositsOf, EdgeOf, BookChain, OwnerChain, Observed
<1>3. CarryIsLast'
  BY <1>1, NothingEnters DEF CarryIsLast, EnteringAt
<1>4. PartialFold'
  BY <1>1, PrefixIsFold DEF PartialFold
<1>5. WindowOwnsCarry'
  BY <1>1 DEF WindowOwnsCarry
<1>6. QED
  BY <1>2, <1>3, <1>4, <1>5 DEF IInv

(* One iteration extends the fold by chapter k, whose reduction deposits    *)
(* into the chapter that owns what entered it and into no other.           *)
LEMMA ReplayColumns ==
    ASSUME IInv, Replay
    PROVE  /\ InReplay /\ k \in start .. input.n
           /\ k' = k + 1 /\ carry' = Leaving(obs[k], carry)
           /\ book' = book /\ input' = input /\ obs' = obs /\ start' = start
           /\ \A i \in 1 .. k - 1 : /\ col'.entering[i] = col.entering[i]
                                    /\ col'.leaving[i] = col.leaving[i]
                                    /\ col'.reduced[i] = ReducedAfter(i)
           /\ col'.entering[k] = carry
           /\ col'.leaving[k] = Leaving(obs[k], carry)
           /\ col'.reduced[k] = ReduceChapter(obs[k], carry)
<1>1. InReplay /\ k \in start .. input.n /\ k \in Nat /\ k >= 1
  <2>1. InReplay /\ TypeOK /\ k <= input.n
    BY DEF IInv, TypeInv, TypeOK, Replay, InReplay
  <2>2. QED
    BY <2>1, ReplayFacts
<1>2. /\ k' = k + 1
      /\ book' = book /\ input' = input /\ obs' = obs /\ start' = start
      /\ carry' = Leaving(obs[k], carry)
      /\ col' = [entering |-> [i \in 1 .. k |-> IF i = k THEN carry ELSE col.entering[i]],
                 leaving  |-> [i \in 1 .. k |-> IF i = k THEN Leaving(obs[k], carry)
                                                         ELSE col.leaving[i]],
                 reduced  |-> [i \in 1 .. k |-> ReducedAfter(i)]]
  BY DEF Replay
<1>3. \A i \in 1 .. k - 1 : i \in 1 .. k /\ i # k
  BY <1>1
<1>4. ReducedAfter(k) = ReduceChapter(obs[k], carry)
  BY DEF ReducedAfter
<1>5. QED
  BY <1>1, <1>2, <1>3, <1>4

LEMMA LeavingOwner ==
    ASSUME IInv, Replay
    PROVE  /\ Owner(Leaving(obs[k], carry)) \in {NoOwner, input.token[k], Owner(carry)}
           /\ obs[k].token = input.token[k]
<1>1. TypeOK /\ InReplay /\ k \in start .. input.n
  BY ReplayColumns DEF IInv, TypeInv
<1>2. k \in 1 .. input.n /\ obs[k] \in Obs /\ carry \in States
  BY <1>1, ReplayFacts
<1>3. obs[k] = MapChapter(input.token[k], input.stamp[k])
  BY <1>1, <1>2 DEF IInv, Observed, InReplay
<1>4. obs[k].token = input.token[k]
  BY <1>3 DEF MapChapter
<1>5. Owner(Leaving(obs[k], carry)) \in {NoOwner, obs[k].token, Owner(carry)}
  BY <1>2, SubstrateAssumption
<1>6. QED
  BY <1>4, <1>5

(* The chapter just replayed. *)
LEMMA ReplayedIsFold ==
    ASSUME IInv, Replay, NEW i \in Nat, i = k
    PROVE  PartialAt(i)'
<1>1. /\ TypeOK /\ InReplay /\ k \in start .. input.n
      /\ k' = k + 1 /\ input' = input /\ obs' = obs
      /\ \A j \in 1 .. i - 1 : /\ col'.entering[j] = col.entering[j]
                               /\ col'.leaving[j] = col.leaving[j]
      /\ col'.entering[i] = carry
      /\ col'.leaving[i] = Leaving(obs[i], carry)
      /\ col'.reduced[i] = ReduceChapter(obs[i], carry)
  BY ReplayColumns DEF IInv, TypeInv
<1>2. i >= 1 /\ input.n \in Nat /\ i \in 1 .. input.n /\ k' - 1 = i
  BY <1>1, ReplayFacts
<1>3. carry = IF i = 1 THEN DefaultState ELSE col.leaving[i - 1]
  BY <1>1 DEF IInv, CarryIsLast
<1>4. i # 1 => i - 1 \in 1 .. i - 1
  BY <1>2
<1>5. PartialDeposits(i)'
  <2>1. col'.reduced[i].deposits = << >>
    BY <1>1 DEF ReduceChapter
  <2>2. QED
    BY <1>1, <1>2, <2>1 DEF PartialDeposits
<1>6. OwnerChain(input'.token, col'.entering, col'.leaving, i)
  <2>1. CASE Owner(Leaving(obs[i], carry)) = NoOwner
    BY <1>1, <2>1 DEF OwnerChain
  <2>2. CASE Owner(Leaving(obs[i], carry)) = input.token[i]
    <3>1. i \in 1 .. i /\ \A j \in i + 1 .. i : FALSE
      BY <1>2
    <3>2. QED
      BY <1>1, <2>2, <3>1 DEF OwnerChain
  <2>3. CASE /\ Owner(Leaving(obs[i], carry)) = Owner(carry)
             /\ Owner(carry) # NoOwner
    <3>1. i # 1
      BY <1>3, <2>3, SubstrateAssumption
    <3>2. PartialAt(i - 1)
      BY <1>1, <1>4, <3>1 DEF IInv, PartialFold
    <3>3. OwnerChain(input.token, col.entering, col.leaving, i - 1)
      BY <3>2 DEF PartialAt
    <3>4. PICK o \in 1 .. i - 1 : /\ Owner(carry) = input.token[o]
                                  /\ \A j \in o + 1 .. i - 1 :
                                        Owner(col.entering[j]) = input.token[o]
      BY <1>3, <2>3, <3>1, <3>3 DEF OwnerChain
    <3>5. o \in 1 .. i /\ \A j \in o + 1 .. i : j = i \/ (j \in o + 1 .. i - 1 /\ j \in 1 .. i - 1)
      BY <1>2
    <3>6. \A j \in o + 1 .. i : Owner(col'.entering[j]) = input.token[o]
      BY <1>1, <3>4, <3>5
    <3>7. QED
      BY <1>1, <2>3, <3>4, <3>5, <3>6 DEF OwnerChain
  <2>4. QED
    BY <2>1, <2>2, <2>3, LeavingOwner
<1>7. col'.entering[i] = IF i = 1 THEN DefaultState ELSE col'.leaving[i - 1]
  BY <1>1, <1>3, <1>4
<1>8. QED
  BY <1>1, <1>5, <1>6, <1>7 DEF PartialAt, ReduceChapter

(* The chapters replayed before it. *)
LEMMA EarlierStayFold ==
    ASSUME IInv, Replay, NEW i \in 1 .. k - 1
    PROVE  PartialAt(i)'
<1>1. /\ TypeOK /\ InReplay
      /\ k' = k + 1 /\ input' = input /\ obs' = obs
      /\ \A j \in 1 .. k - 1 : /\ col'.entering[j] = col.entering[j]
                               /\ col'.leaving[j] = col.leaving[j]
                               /\ col'.reduced[j] = ReducedAfter(j)
      /\ col'.entering[k] = carry
  BY ReplayColumns DEF IInv, TypeInv
<1>2. /\ k \in Nat /\ i \in Nat /\ i # k /\ i >= 1 /\ start \in Nat /\ i < k /\ k' - 1 = k
      /\ col.reduced[i] \in Reduced /\ carry \in States
      /\ Len(col.reduced[i].deposits) \in Nat
  <2>1. /\ start \in 1 .. input.n /\ k \in start .. input.n + 1 /\ input.n \in Nat
        /\ col.reduced \in [1 .. k - 1 -> Reduced] /\ carry \in States
        /\ Len(col.reduced[i].deposits) \in Nat
    BY <1>1, ReplayFacts
  <2>2. QED
    BY <1>1, <2>1
<1>3. obs[k] \in Obs
  <2>1. k \in start .. input.n
    BY ReplayColumns
  <2>2. QED
    BY <1>1, <2>1, ReplayFacts
<1>4. PartialAt(i)
  BY <1>1 DEF IInv, PartialFold
<1> DEFINE m == Len(col.reduced[i].deposits)
<1>5. /\ m \in Nat
      /\ i + m <= k - 1
      /\ \A j \in 1 .. m :
            /\ Owner(col.entering[i + j]) = input.token[i]
            /\ col.reduced[i].deposits[j] = [obs |-> obs[i + j], entering |-> col.entering[i + j]]
      /\ i + m < k - 1 => Owner(col.entering[i + m + 1]) # input.token[i]
  BY <1>2, <1>4 DEF PartialAt, PartialDeposits
<1>6. \A j \in 1 .. m : i + j \in 1 .. k - 1 /\ col'.entering[i + j] = col.entering[i + j]
  <2> HIDE DEF m
  <2>1. \A j \in 1 .. m : i + j \in 1 .. k - 1
    BY <1>2, <1>5
  <2>2. QED
    BY <1>1, <2>1
<1>7. ASSUME Owner(carry) = input.token[i]
      PROVE  /\ PartialDeposits(i)'
             /\ col'.reduced[i].own = col.reduced[i].own
             /\ col'.reduced[i].edge = col.reduced[i].edge
  <2>1. i >= start /\ i + m = k - 1
    BY <1>1, <1>7, CarryOwner
  <2>2. col'.reduced[i] = CarryOut(col.reduced[i], obs[k], carry)
    BY <1>1, <1>2, <1>7, <2>1 DEF ReducedAfter, OwnedBy
  <2>3. /\ Len(col'.reduced[i].deposits) = m + 1
        /\ \A j \in 1 .. m : col'.reduced[i].deposits[j] = col.reduced[i].deposits[j]
        /\ col'.reduced[i].deposits[m + 1] = [obs |-> obs[k], entering |-> carry]
        /\ col'.reduced[i].own = col.reduced[i].own
        /\ col'.reduced[i].edge = col.reduced[i].edge
    <3>1. col.reduced[i] \in Reduced /\ obs[k] \in Obs /\ carry \in States
      BY <1>2, <1>3
    <3> DEFINE c == CarryOut(col.reduced[i], obs[k], carry)
    <3>2. Len(c.deposits) = Len(col.reduced[i].deposits) + 1
      BY <3>1, CarryOutType
    <3>3. \A j \in 1 .. Len(col.reduced[i].deposits) :
              c.deposits[j] = col.reduced[i].deposits[j]
      BY <3>1, CarryOutType
    <3>4. c.deposits[Len(col.reduced[i].deposits) + 1] = [obs |-> obs[k], entering |-> carry]
      BY <3>1, CarryOutType
    <3>5. c.own = col.reduced[i].own /\ c.edge = col.reduced[i].edge
      BY <3>1, CarryOutType
    <3>6. QED
      BY <2>2, <3>2, <3>3, <3>4, <3>5
  <2> HIDE DEF m
  <2>4. \A j \in 1 .. m + 1 : j = m + 1 \/ j \in 1 .. m
    BY <1>5
  <2>5. i + (m + 1) = k
    BY <1>2, <1>5, <2>1
  <2>6. \A j \in 1 .. m + 1 :
            /\ Owner(col'.entering[i + j]) = input.token[i]
            /\ col'.reduced[i].deposits[j] = [obs |-> obs[i + j], entering |-> col'.entering[i + j]]
    BY <1>1, <1>5, <1>6, <1>7, <2>3, <2>4, <2>5
  <2>7. PartialDeposits(i)'
    <3> DEFINE n == Len(col'.reduced[i].deposits)
    <3>1. n = m + 1
      BY <2>3
    <3> HIDE DEF n
    <3>2. /\ i + n <= k' - 1
          /\ \A j \in 1 .. n :
                /\ Owner(col'.entering[i + j]) = input'.token[i]
                /\ col'.reduced[i].deposits[j]
                      = [obs |-> obs'[i + j], entering |-> col'.entering[i + j]]
          /\ ~ (i + n < k' - 1)
      BY <1>1, <1>2, <2>5, <2>6, <3>1
    <3>3. QED
      BY <3>2 DEF PartialDeposits, n
  <2>8. QED
    BY <2>3, <2>7
<1>8. ASSUME Owner(carry) # input.token[i]
      PROVE  /\ PartialDeposits(i)'
             /\ col'.reduced[i].own = col.reduced[i].own
             /\ col'.reduced[i].edge = col.reduced[i].edge
  <2>1. col'.reduced[i] = col.reduced[i]
    BY <1>1, <1>2, <1>8 DEF ReducedAfter, OwnedBy
  <2>2. PartialDeposits(i)'
    <3>1. m = Len(col'.reduced[i].deposits)
      BY <2>1
    <3> HIDE DEF m
    <3>2. i + m < k => (i + m < k - 1 /\ i + m + 1 \in 1 .. k - 1) \/ i + m + 1 = k
      <4>1. k \in Nat /\ i \in Nat /\ m \in Nat /\ i >= 1 /\ i + m <= k - 1
        BY <1>2, <1>5
      <4>2. QED
        BY <4>1
    <3>3. i + m < k => Owner(col'.entering[i + m + 1]) # input.token[i]
      BY <1>1, <1>5, <1>8, <3>2
    <3>4. \A j \in 1 .. m :
                /\ Owner(col'.entering[i + j]) = input'.token[i]
                /\ col'.reduced[i].deposits[j]
                      = [obs |-> obs'[i + j], entering |-> col'.entering[i + j]]
      BY <1>1, <1>5, <1>6, <2>1
    <3>5. i + m <= k' - 1
      <4>1. k' - 1 = k /\ i + m <= k - 1 /\ i \in Nat /\ m \in Nat /\ k \in Nat
        BY <1>2, <1>5
      <4>2. QED
        BY <4>1
    <3>6. QED
      BY <1>1, <1>2, <3>1, <3>3, <3>4, <3>5 DEF PartialDeposits
  <2>3. QED
    BY <2>1, <2>2
<1>9. OwnerChain(input'.token, col'.entering, col'.leaving, i)
  <2>1. OwnerChain(input.token, col.entering, col.leaving, i)
    BY <1>4 DEF PartialAt
  <2>2. \A j \in 1 .. i : j \in 1 .. k - 1
    BY <1>2
  <2>3. \A o \in 1 .. i : \A j \in o + 1 .. i : j \in 1 .. k - 1
    BY <1>2
  <2>4. QED
    BY <1>1, <2>1, <2>2, <2>3 DEF OwnerChain
<1>10. i # 1 => i - 1 \in 1 .. k - 1
  BY <1>2
<1>11. QED
  BY <1>1, <1>4, <1>7, <1>8, <1>9, <1>10 DEF PartialAt

LEMMA ReplayStep ==
    ASSUME IInv, Replay, TypeInv'
    PROVE  IInv'
<1>1. /\ TypeOK /\ InReplay /\ k \in start .. input.n /\ k' = k + 1
      /\ carry' = Leaving(obs[k], carry) /\ col'.leaving[k] = Leaving(obs[k], carry)
      /\ book' = book /\ input' = input /\ obs' = obs /\ start' = start
  BY ReplayColumns DEF IInv, TypeInv
<1>2. k \in Nat /\ k >= 1 /\ k' # 1 /\ k' - 1 = k /\ start \in Nat /\ k <= input.n /\ start <= k
      /\ input \in Inputs /\ input.n \in Nat /\ input.token \in [1 .. input.n -> Tokens]
  BY <1>1, ReplayFacts
<1>3. BookIsColdFold' /\ BookChain'
  BY <1>1 DEF IInv, BookIsColdFold, ColdAt, DepositsOf, EdgeOf, BookChain, OwnerChain
<1>4. Observed'
  BY <1>1 DEF IInv, Observed, InReplay
<1>5. CarryIsLast'
  BY <1>1, <1>2 DEF CarryIsLast
<1>6. PartialFold'
  <2>1. \A i \in 1 .. k - 1 : PartialAt(i)'
    BY EarlierStayFold
  <2>2. \A i \in Nat : i = k => PartialAt(i)'
    BY ReplayedIsFold
  <2>3. \A i \in 1 .. k' - 1 : i \in 1 .. k - 1 \/ (i \in Nat /\ i = k)
    BY <1>2
  <2>4. \A i \in 1 .. k' - 1 : PartialAt(i)'
    BY <2>1, <2>2, <2>3
  <2>5. QED
    BY <2>4 DEF PartialFold
<1>7. WindowOwnsCarry'
  <2>1. ASSUME NEW i \in 1 .. start - 1
        PROVE  Owner(Leaving(obs[k], carry)) # input.token[i]
    <3>1. i \in 1 .. input.n /\ k \in 1 .. input.n /\ i # k
      BY <1>2
    <3>2. input.token[i] # input.token[k] /\ input.token[i] # NoOwner
      BY <1>2, <3>1, TokensDistinct, SubstrateAssumption
    <3>3. Owner(carry) # input.token[i]
      BY <1>1 DEF IInv, WindowOwnsCarry
    <3>4. QED
      BY <3>2, <3>3, LeavingOwner
  <2>2. QED
    BY <1>1, <2>1 DEF WindowOwnsCarry
<1>8. QED
  BY <1>3, <1>4, <1>5, <1>6, <1>7 DEF IInv

(***************************************************************************)
(* The finished book.                                                      *)
(***************************************************************************)
LEMMA FinishColumns ==
    ASSUME IInv, Finish
    PROVE  /\ TypeOK /\ InReplay /\ pc = "edge"
           /\ k \in 2 .. input.n + 1 /\ start \in 1 .. k - 1 /\ input.n \in Nat
           /\ book'.n = input.n /\ book'.token = input.token
           /\ book'.stamp = input.stamp /\ book'.obs = obs
           /\ \A i \in 1 .. k - 1 : /\ i \in 1 .. input.n
                                    /\ book'.entering[i] = col.entering[i]
                                    /\ book'.leaving[i] = col.leaving[i]
           /\ \A i \in k .. input.n : /\ i \in 1 .. input.n
                                      /\ book'.entering[i] = book.entering[i]
                                      /\ book'.leaving[i] = book.leaving[i]
           /\ \A i \in 1 .. input.n : book'.reduced[i] = FinalReduced(i)
           /\ \A i \in 1 .. input.n : obs[i] = MapChapter(input.token[i], input.stamp[i])
           /\ \A i \in 1 .. k - 1 : PartialAt(i)
           /\ carry = col.leaving[k - 1]
<1>1. TypeOK /\ InReplay /\ pc = "edge" /\ k > start
  BY DEF IInv, TypeInv, TypeOK, Finish, InReplay
<1>2. k \in 2 .. input.n + 1 /\ start \in 1 .. k - 1 /\ input.n \in Nat
  BY <1>1, ReplayFacts
<1>3. book' = [n |-> input.n, token |-> input.token, stamp |-> input.stamp, obs |-> obs,
               entering |-> [i \in 1 .. input.n |->
                                IF i < k THEN col.entering[i] ELSE book.entering[i]],
               leaving  |-> [i \in 1 .. input.n |->
                                IF i < k THEN col.leaving[i] ELSE book.leaving[i]],
               reduced  |-> [i \in 1 .. input.n |-> FinalReduced(i)]]
  BY DEF Finish
<1>4. /\ \A i \in 1 .. k - 1 : i \in 1 .. input.n /\ i < k
      /\ \A i \in k .. input.n : i \in 1 .. input.n /\ ~ (i < k)
  BY <1>2
<1>5. /\ \A i \in 1 .. input.n : obs[i] = MapChapter(input.token[i], input.stamp[i])
      /\ \A i \in 1 .. k - 1 : PartialAt(i)
      /\ carry = col.leaving[k - 1]
  BY <1>1, <1>2 DEF IInv, Observed, PartialFold, CarryIsLast
<1>6. QED
  BY <1>1, <1>2, <1>3, <1>4, <1>5

(* The replay ran to the end: the book edge resolves what still dangles.    *)
LEMMA FinishAtEnd ==
    ASSUME IInv, Finish, k = input.n + 1, NEW i \in 1 .. input.n
    PROVE  /\ ColdAt(book', i)
           /\ OwnerChain(book'.token, book'.entering, book'.leaving, i)
<1>1. i \in 1 .. k - 1 /\ i \in Nat /\ k - 1 = input.n /\ i >= 1 /\ ~ (i >= k)
      /\ input.n \in 1 .. k - 1 /\ input.n \in Nat /\ start \in Nat
  BY FinishColumns
<1>2. PartialAt(i)
  BY <1>1, FinishColumns
<1>3. book'.leaving[book'.n] = carry
  BY <1>1, FinishColumns
<1>4. /\ book'.reduced[i].own = col.reduced[i].own
      /\ book'.reduced[i].deposits = col.reduced[i].deposits
      /\ EdgeOf(book', i)
  <2>1. book'.token[i] = input.token[i] /\ book'.reduced[i] = FinalReduced(i)
    BY FinishColumns
  <2>2. col.reduced[i] \in Reduced /\ col.reduced[i].edge = NoEdge
    BY <1>1, <1>2, FinishColumns, ReplayFacts DEF PartialAt
  <2>3. CASE i >= start /\ Owner(carry) = input.token[i]
    <3>1. FinalReduced(i) = [col.reduced[i] EXCEPT !.edge = carry]
      BY <1>1, <2>3 DEF FinalReduced, OwnedBy, FinishBook
    <3>2. QED
      BY <1>3, <2>1, <2>2, <2>3, <3>1 DEF EdgeOf, Reduced
  <2>4. CASE ~ (i >= start /\ Owner(carry) = input.token[i])
    <3>1. FinalReduced(i) = col.reduced[i]
      BY <1>1, <2>4 DEF FinalReduced, OwnedBy
    <3>2. Owner(carry) # input.token[i]
      <4>1. i < start => i \in 1 .. start - 1
        BY <1>1
      <4>2. QED
        BY <1>1, <2>4, <4>1, FinishColumns DEF IInv, WindowOwnsCarry
    <3>3. QED
      BY <1>3, <2>1, <2>2, <3>1, <3>2 DEF EdgeOf
  <2>5. QED
    BY <2>3, <2>4
<1>5. DepositsOf(book', i)
  <2> DEFINE m == Len(col.reduced[i].deposits)
  <2>1. /\ i + m <= k - 1
        /\ \A j \in 1 .. m :
              /\ Owner(col.entering[i + j]) = input.token[i]
              /\ col.reduced[i].deposits[j] = [obs |-> obs[i + j], entering |-> col.entering[i + j]]
        /\ i + m < k - 1 => Owner(col.entering[i + m + 1]) # input.token[i]
    BY <1>2 DEF PartialAt, PartialDeposits
  <2>2. m \in Nat
    BY <1>1, FinishColumns, ReplayFacts
  <2>3. m = Len(book'.reduced[i].deposits)
    BY <1>4
  <2> HIDE DEF m
  <2>4. /\ \A j \in 1 .. m : i + j \in 1 .. k - 1
        /\ i + m < k - 1 => i + m + 1 \in 1 .. k - 1
    BY <1>1, <2>1, <2>2
  <2>5. /\ i + m <= book'.n
        /\ \A j \in 1 .. m :
              /\ Owner(book'.entering[i + j]) = book'.token[i]
              /\ book'.reduced[i].deposits[j]
                    = [obs |-> book'.obs[i + j], entering |-> book'.entering[i + j]]
        /\ i + m < book'.n => Owner(book'.entering[i + m + 1]) # book'.token[i]
    BY <1>1, <1>4, <2>1, <2>4, FinishColumns
  <2>6. QED
    BY <2>3, <2>5 DEF DepositsOf
<1>6. OwnerChain(book'.token, book'.entering, book'.leaving, i)
  <2>1. OwnerChain(input.token, col.entering, col.leaving, i)
    BY <1>2 DEF PartialAt
  <2>2. \A o \in 1 .. i : \A j \in o + 1 .. i : j \in 1 .. k - 1
    BY <1>1
  <2>3. QED
    BY <1>1, <2>1, <2>2, FinishColumns DEF OwnerChain
<1>7. i # 1 => i - 1 \in 1 .. k - 1
  BY <1>1
<1>8. QED
  BY <1>1, <1>2, <1>4, <1>5, <1>6, <1>7, FinishColumns DEF ColdAt, PartialAt

(* The replay converged before the end: nothing is carried past it, and     *)
(* the cached tail is the tail of the input.                               *)
LEMMA ConvergedTail ==
    ASSUME IInv, Finish, k # input.n + 1
    PROVE  /\ k \in 2 .. input.n /\ book.n = input.n
           /\ Owner(carry) = NoOwner
           /\ book.leaving[k - 1] = carry /\ book.entering[k] = carry
           /\ \A i \in k .. input.n : SamePosition(input, i)
<1>1. /\ k \in 2 .. input.n /\ start \in 1 .. k - 1 /\ input.n \in Nat /\ k \in Nat
      /\ k - 1 \in 1 .. k - 1 /\ k - 1 \in 1 .. input.n
  BY FinishColumns
<1>2. Converged(k - 1, carry)
  BY FinishColumns DEF IInv, TypeInv, EdgeReached
<1>3. /\ book.n = input.n /\ book.leaving[k - 1] = carry
      /\ \A i \in k .. input.n : SamePosition(input, i)
  <2>1. ReplayedThrough(k - 1) /\ book.leaving[k - 1] = carry
    BY <1>2 DEF Converged
  <2>2. \A j \in (k - 1) + 1 .. input.n : SamePosition(input, j)
    BY <2>1 DEF ReplayedThrough, Changed
  <2>3. (k - 1) + 1 = k
    BY <1>1
  <2>4. QED
    BY <2>1, <2>2, <2>3 DEF ReplayedThrough, Structural
<1>4. book.entering[k] = carry
  <2>1. ColdAt(book, k)
    BY <1>1, <1>3 DEF IInv, BookIsColdFold
  <2>2. QED
    BY <1>1, <1>3, <2>1 DEF ColdAt
<1>5. Owner(carry) = NoOwner
  <2>1. SUFFICES ASSUME Owner(carry) # NoOwner PROVE FALSE
    OBVIOUS
  <2>2. OwnerChain(input.token, col.entering, col.leaving, k - 1)
    BY <1>1, FinishColumns DEF PartialAt
  <2>3. PICK o \in 1 .. k - 1 : Owner(carry) = input.token[o]
    BY <2>1, <2>2, FinishColumns DEF OwnerChain
  <2>4. o \in 1 .. start - 1 \/ o \in start .. input.n
    BY <1>1
  <2>5. CASE o \in 1 .. start - 1
    BY <2>3, <2>5, FinishColumns DEF IInv, WindowOwnsCarry
  <2>6. CASE o \in start .. input.n
    BY <1>2, <2>3, <2>6 DEF Converged, Dangling, OwnedBy
  <2>7. QED
    BY <2>4, <2>5, <2>6
<1>6. QED
  BY <1>1, <1>3, <1>4, <1>5

(* What is carried into a chapter of the tail belongs to the tail: nothing  *)
(* was carried past the convergence point, in the cached book either.       *)
LEMMA TailOwners ==
    ASSUME IInv, Finish, k # input.n + 1, NEW i \in k .. input.n
    PROVE  \/ Owner(book.leaving[i]) = NoOwner
           \/ \E o \in k .. i : /\ Owner(book.leaving[i]) = book.token[o]
                                /\ \A j \in o + 1 .. i : Owner(book.entering[j]) = book.token[o]
<1>1. /\ k \in 2 .. input.n /\ k \in Nat /\ input.n \in Nat /\ i \in 1 .. book.n
      /\ Owner(book.entering[k]) = NoOwner
  <2>1. k \in 2 .. input.n /\ book.n = input.n /\ Owner(book.entering[k]) = NoOwner
    BY ConvergedTail
  <2>2. input.n \in Nat
    BY FinishColumns
  <2>3. QED
    BY <2>1, <2>2
<1>2. OwnerChain(book.token, book.entering, book.leaving, i)
  BY <1>1 DEF IInv, BookChain
<1>3. ASSUME NEW o \in 1 .. i, o < k,
             \A j \in o + 1 .. i : Owner(book.entering[j]) = book.token[o]
      PROVE  FALSE
  <2>1. k \in o + 1 .. i /\ o \in 1 .. book.n
    <3>1. i \in Nat /\ i >= k /\ book.n \in Nat /\ i <= book.n /\ k \in Nat /\ o \in Nat
      BY <1>1, BookColumns, FinishColumns
    <3>2. QED
      BY <1>3, <3>1
  <2>2. book.token[o] \in Tokens
    BY <2>1, BookColumns, FinishColumns
  <2>3. Owner(book.entering[k]) = book.token[o]
    BY <1>3, <2>1
  <2>4. QED
    BY <1>1, <2>2, <2>3, SubstrateAssumption
<1>4. \A o \in 1 .. i : o < k \/ o \in k .. i
  BY <1>1
<1>5. QED
  BY <1>2, <1>3, <1>4 DEF OwnerChain

(* A replayed chapter before the convergence point.                        *)
LEMMA FinishReplayed ==
    ASSUME IInv, Finish, k # input.n + 1, NEW i \in 1 .. k - 1
    PROVE  /\ ColdAt(book', i)
           /\ OwnerChain(book'.token, book'.entering, book'.leaving, i)
<1>1. /\ k \in 2 .. input.n /\ k \in Nat /\ i \in Nat /\ i >= 1 /\ i < k /\ ~ (i >= k)
      /\ i \in 1 .. input.n /\ input.n \in Nat /\ input.n \in k .. input.n
  BY ConvergedTail, FinishColumns
<1>2. PartialAt(i)
  BY FinishColumns
<1>3. input.token[i] \in Tokens /\ input.token[i] # NoOwner
  <2>1. input.token \in [1 .. input.n -> Tokens]
    BY FinishColumns, ReplayFacts
  <2>2. QED
    BY <1>1, <2>1, SubstrateAssumption
<1>4. book'.reduced[i] = col.reduced[i]
  BY <1>1, FinishColumns DEF FinalReduced
<1>5. Owner(book'.leaving[book'.n]) # book'.token[i]
  <2>1. book'.leaving[book'.n] = book.leaving[input.n] /\ book'.token[i] = input.token[i]
    BY <1>1, FinishColumns
  <2>2. SUFFICES ASSUME Owner(book.leaving[input.n]) = input.token[i] PROVE FALSE
    BY <2>1
  <2>3. PICK o \in k .. input.n : input.token[i] = book.token[o]
    BY <1>1, <1>3, <2>2, TailOwners
  <2>4. book.token[o] = input.token[o]
    BY <2>3, ConvergedTail DEF SamePosition
  <2>5. o \in 1 .. input.n /\ o # i
    BY <1>1
  <2>6. input \in Inputs
    BY FinishColumns, ReplayFacts
  <2>7. QED
    BY <1>1, <2>3, <2>4, <2>5, <2>6, TokensDistinct
<1>6. DepositsOf(book', i)
  <2> DEFINE m == Len(col.reduced[i].deposits)
  <2>1. /\ i + m <= k - 1
        /\ \A j \in 1 .. m :
              /\ Owner(col.entering[i + j]) = input.token[i]
              /\ col.reduced[i].deposits[j] = [obs |-> obs[i + j], entering |-> col.entering[i + j]]
        /\ i + m < k - 1 => Owner(col.entering[i + m + 1]) # input.token[i]
    BY <1>2 DEF PartialAt, PartialDeposits
  <2>2. m \in Nat
    BY FinishColumns, ReplayFacts
  <2>3. m = Len(book'.reduced[i].deposits)
    BY <1>4
  <2> HIDE DEF m
  <2>4. /\ \A j \in 1 .. m : i + j \in 1 .. k - 1
        /\ i + m < k - 1 => i + m + 1 \in 1 .. k - 1
        /\ ~ (i + m < k - 1) => i + m + 1 = k
        /\ i + m <= input.n
    BY <1>1, <2>1, <2>2
  <2>5. Owner(book'.entering[k]) # input.token[i]
    <3>1. book'.entering[k] = book.entering[k]
      BY <1>1, FinishColumns
    <3>2. QED
      BY <1>3, <3>1, ConvergedTail
  <2>6. /\ i + m <= book'.n
        /\ \A j \in 1 .. m :
              /\ Owner(book'.entering[i + j]) = book'.token[i]
              /\ book'.reduced[i].deposits[j]
                    = [obs |-> book'.obs[i + j], entering |-> book'.entering[i + j]]
        /\ i + m < book'.n => Owner(book'.entering[i + m + 1]) # book'.token[i]
    BY <1>1, <1>4, <2>1, <2>4, <2>5, FinishColumns
  <2>7. QED
    BY <2>3, <2>6 DEF DepositsOf
<1>7. OwnerChain(book'.token, book'.entering, book'.leaving, i)
  <2>1. OwnerChain(input.token, col.entering, col.leaving, i)
    BY <1>2 DEF PartialAt
  <2>2. \A o \in 1 .. i : \A j \in o + 1 .. i : j \in 1 .. k - 1
    BY <1>1
  <2>3. QED
    BY <1>1, <2>1, <2>2, FinishColumns DEF OwnerChain
<1>8. i # 1 => i - 1 \in 1 .. k - 1
  BY <1>1
<1>9. EdgeOf(book', i)
  BY <1>2, <1>4, <1>5 DEF EdgeOf, PartialAt
<1>10. QED
  BY <1>1, <1>2, <1>4, <1>6, <1>7, <1>8, <1>9, FinishColumns DEF ColdAt, PartialAt

(* A chapter past the convergence point keeps its cached reduction.        *)
LEMMA FinishTail ==
    ASSUME IInv, Finish, k # input.n + 1, NEW i \in k .. input.n
    PROVE  /\ ColdAt(book', i)
           /\ OwnerChain(book'.token, book'.entering, book'.leaving, i)
<1>1. /\ k \in 2 .. input.n /\ k \in Nat /\ i \in Nat /\ i > 1 /\ i >= k
      /\ i \in 1 .. input.n /\ input.n \in Nat /\ book.n = input.n
      /\ i - 1 \in k .. input.n \/ i - 1 = k - 1
      /\ k - 1 \in 1 .. k - 1 /\ input.n \in k .. input.n
  BY ConvergedTail, FinishColumns
<1>2. ColdAt(book, i)
  BY <1>1 DEF IInv, BookIsColdFold
<1>3. \A j \in k .. input.n : /\ book'.token[j] = book.token[j]
                              /\ book'.stamp[j] = book.stamp[j]
                              /\ book'.obs[j] = book.obs[j]
                              /\ book'.entering[j] = book.entering[j]
                              /\ book'.leaving[j] = book.leaving[j]
  <2>1. \A j \in k .. input.n : /\ book.token[j] = input.token[j]
                                /\ book.stamp[j] = input.stamp[j]
                                /\ j \in 1 .. input.n /\ j \in 1 .. book.n
    BY <1>1, ConvergedTail, FinishColumns DEF SamePosition
  <2>2. \A j \in k .. input.n : book.obs[j] = MapChapter(book.token[j], book.stamp[j])
    BY <2>1 DEF IInv, BookIsColdFold, ColdAt
  <2>3. \A j \in k .. input.n : obs[j] = MapChapter(input.token[j], input.stamp[j])
    BY <2>1, FinishColumns
  <2>4. QED
    BY <2>1, <2>2, <2>3, FinishColumns
<1>4. book'.reduced[i] = book.reduced[i]
  BY <1>1, FinishColumns DEF FinalReduced
<1>5. book'.leaving[i - 1] = book.leaving[i - 1]
  <2>1. book'.leaving[k - 1] = carry
    BY <1>1, FinishColumns
  <2>2. QED
    BY <1>1, <1>3, <2>1, ConvergedTail
<1>6. DepositsOf(book', i)
  <2> DEFINE m == Len(book.reduced[i].deposits)
  <2>1. /\ i + m <= book.n
        /\ \A j \in 1 .. m :
              /\ Owner(book.entering[i + j]) = book.token[i]
              /\ book.reduced[i].deposits[j]
                    = [obs |-> book.obs[i + j], entering |-> book.entering[i + j]]
        /\ i + m < book.n => Owner(book.entering[i + m + 1]) # book.token[i]
    BY <1>2 DEF ColdAt, DepositsOf
  <2>2. m \in Nat
    <3>1. book.reduced[i] \in Reduced
      BY <1>1, BookColumns, FinishColumns
    <3>2. QED
      BY <3>1, LenProperties DEF Reduced
  <2>3. m = Len(book'.reduced[i].deposits)
    BY <1>4
  <2> HIDE DEF m
  <2>4. /\ \A j \in 1 .. m : i + j \in k .. input.n
        /\ i + m < input.n => i + m + 1 \in k .. input.n
    BY <1>1, <2>1, <2>2
  <2>5. /\ i + m <= book'.n
        /\ \A j \in 1 .. m :
              /\ Owner(book'.entering[i + j]) = book'.token[i]
              /\ book'.reduced[i].deposits[j]
                    = [obs |-> book'.obs[i + j], entering |-> book'.entering[i + j]]
        /\ i + m < book'.n => Owner(book'.entering[i + m + 1]) # book'.token[i]
    <3>1. book'.n = book.n
      BY <1>1, FinishColumns
    <3>2. QED
      BY <1>1, <1>3, <1>4, <2>1, <2>4, <3>1
  <2>6. QED
    BY <2>3, <2>5 DEF DepositsOf
<1>7. EdgeOf(book', i)
  <2>1. book'.leaving[book'.n] = book.leaving[book.n]
    BY <1>1, FinishColumns
  <2>2. QED
    BY <1>2, <1>3, <1>4, <2>1 DEF ColdAt, EdgeOf
<1>8. OwnerChain(book'.token, book'.entering, book'.leaving, i)
  <2>1. CASE Owner(book.leaving[i]) = NoOwner
    BY <1>3, <2>1 DEF OwnerChain
  <2>2. ASSUME NEW o \in k .. i, Owner(book.leaving[i]) = book.token[o],
               \A j \in o + 1 .. i : Owner(book.entering[j]) = book.token[o]
        PROVE  OwnerChain(book'.token, book'.entering, book'.leaving, i)
    <3>1. o \in k .. input.n /\ o \in 1 .. i /\ \A j \in o + 1 .. i : j \in k .. input.n
      BY <1>1
    <3>2. Owner(book'.leaving[i]) = book'.token[o]
      BY <1>3, <2>2, <3>1
    <3>3. \A j \in o + 1 .. i : Owner(book'.entering[j]) = book'.token[o]
      BY <1>3, <2>2, <3>1
    <3>4. QED
      BY <3>1, <3>2, <3>3 DEF OwnerChain
  <2>3. QED
    BY <2>1, <2>2, TailOwners
<1>9. QED
  BY <1>1, <1>2, <1>3, <1>4, <1>5, <1>6, <1>7, <1>8 DEF ColdAt

LEMMA FinishStep ==
    ASSUME IInv, Finish, TypeInv'
    PROVE  IInv'
<1>1. \A i \in 1 .. input.n : /\ ColdAt(book', i)
                              /\ OwnerChain(book'.token, book'.entering, book'.leaving, i)
  <2>1. CASE k = input.n + 1
    BY <2>1, FinishAtEnd
  <2>2. CASE k # input.n + 1
    <3>1. \A i \in 1 .. input.n : i \in 1 .. k - 1 \/ i \in k .. input.n
      BY FinishColumns
    <3>2. QED
      BY <2>2, <3>1, FinishReplayed, FinishTail
  <2>3. QED
    BY <2>1, <2>2
<1>2. BookIsColdFold' /\ BookChain'
  BY <1>1, FinishColumns DEF BookIsColdFold, BookChain
<1>3. pc' = "idle"
  BY DEF Finish
<1>4. QED
  BY <1>2, <1>3 DEF IInv, Observed, CarryIsLast, PartialFold, WindowOwnsCarry, InReplay

(* Reuse hands over an observation of the same chapter and the same input:  *)
(* mapped afresh it would be the same.                                     *)
LEMMA UpdateBookStep ==
    ASSUME IInv, NEW in \in Inputs, UpdateBook(in), TypeInv'
    PROVE  IInv'
<1>1. /\ pc' = "walk" /\ input' = in /\ book' = book
      /\ obs' = [i \in 1 .. in.n |-> Observe(in, i)]
  BY DEF UpdateBook
<1>2. ASSUME NEW i \in 1 .. in.n
      PROVE  Observe(in, i) = MapChapter(in.token[i], in.stamp[i])
  <2>1. ASSUME NEW j \in 1 .. book.n, Reusable(in, i, j)
        PROVE  book.obs[j] = MapChapter(in.token[i], in.stamp[i])
    <3>1. book.obs[j] = MapChapter(book.token[j], book.stamp[j])
      BY DEF IInv, BookIsColdFold, ColdAt
    <3>2. QED
      BY <2>1, <3>1 DEF Reusable
  <2>2. QED
    BY <2>1 DEF Observe
<1>3. Observed'
  BY <1>1, <1>2 DEF Observed
<1>4. BookIsColdFold' /\ BookChain'
  BY <1>1 DEF IInv, BookIsColdFold, ColdAt, DepositsOf, EdgeOf, BookChain, OwnerChain
<1>5. QED
  BY <1>1, <1>3, <1>4 DEF IInv, CarryIsLast, PartialFold, WindowOwnsCarry, InReplay

LEMMA InvInit == Init => IInv
  BY TypeInit DEF Init, IInv, TypeInv, PrefixKept, EdgeReached, EmptyBook, BookIsColdFold,
     BookChain, Observed, CarryIsLast, PartialFold, WindowOwnsCarry, InReplay

LEMMA InvStep == IInv /\ [Next]_vars => IInv'
<1> SUFFICES ASSUME IInv, [Next]_vars
             PROVE  IInv'
  OBVIOUS
<1>1. TypeInv'
  BY TypeStep DEF IInv
<1>2. CASE \E in \in Inputs : UpdateBook(in)
  BY <1>1, <1>2, UpdateBookStep
<1>3. CASE WalkBack
  <2>1. book' = book /\ pc' = "walk" /\ input' = input /\ obs' = obs /\ pc = "walk"
    BY <1>3 DEF WalkBack
  <2>2. BookIsColdFold' /\ BookChain' /\ Observed'
    BY <2>1 DEF IInv, BookIsColdFold, ColdAt, DepositsOf, EdgeOf, BookChain, OwnerChain, Observed
  <2>3. QED
    BY <1>1, <2>1, <2>2 DEF IInv, CarryIsLast, PartialFold, WindowOwnsCarry, InReplay
<1>4. CASE OpenWindow
  BY <1>1, <1>4, OpenWindowStep
<1>5. CASE Replay
  BY <1>1, <1>5, ReplayStep
<1>6. CASE Finish
  BY <1>1, <1>6, FinishStep
<1>7. CASE (\E moved \in BOOLEAN : RemoveBook(moved)) \/ Clear
  <2>1. book' = EmptyBook /\ pc' = "idle"
    BY <1>7 DEF RemoveBook, Clear
  <2>2. book'.n = 0
    BY <2>1 DEF EmptyBook
  <2>3. QED
    BY <1>1, <2>1, <2>2 DEF IInv, BookIsColdFold, BookChain, Observed, CarryIsLast,
                            PartialFold, WindowOwnsCarry, InReplay
<1>8. CASE Promote
  <2>1. book' = book /\ pc' = "idle"
    BY <1>8 DEF Promote
  <2>2. BookIsColdFold' /\ BookChain'
    BY <2>1 DEF IInv, BookIsColdFold, ColdAt, DepositsOf, EdgeOf, BookChain, OwnerChain
  <2>3. QED
    BY <1>1, <2>1, <2>2 DEF IInv, Observed, CarryIsLast, PartialFold, WindowOwnsCarry, InReplay
<1>9. CASE UNCHANGED vars
  <2>1. /\ book' = book /\ pc' = pc /\ input' = input /\ obs' = obs
        /\ start' = start /\ k' = k /\ carry' = carry /\ col' = col
    BY <1>9 DEF vars
  <2>2. BookIsColdFold' /\ BookChain' /\ Observed'
    BY <2>1 DEF IInv, BookIsColdFold, ColdAt, DepositsOf, EdgeOf, BookChain, OwnerChain, Observed
  <2>3. CarryIsLast' /\ WindowOwnsCarry'
    BY <2>1 DEF IInv, CarryIsLast, WindowOwnsCarry, InReplay
  <2>4. PartialFold'
    <3>1. ASSUME NEW i, PartialAt(i)
          PROVE  PartialAt(i)'
      <4>1. PartialDeposits(i)'
        BY <2>1, <3>1 DEF PartialAt, PartialDeposits
      <4>2. QED
        BY <2>1, <3>1, <4>1 DEF PartialAt, OwnerChain
    <3>2. InReplay' => InReplay
      BY <2>1 DEF InReplay
    <3>3. QED
      BY <2>1, <3>1, <3>2 DEF IInv, PartialFold
  <2>5. QED
    BY <1>1, <2>2, <2>3, <2>4 DEF IInv
<1>10. QED
  BY <1>2, <1>3, <1>4, <1>5, <1>6, <1>7, <1>8, <1>9 DEF Next

(* Whatever edits, removals and reorderings led to it, the cached book is   *)
(* the cold left-to-right fold of its chapters: no reduction is stale, no   *)
(* deposit is lost or made twice, for every substrate that meets the        *)
(* contract and books of every length.                                     *)
THEOREM ReplayIsCold == Spec => []BookIsColdFold
<1>1. IInv => BookIsColdFold
  BY DEF IInv
<1>2. QED
  BY <1>1, InvInit, InvStep, PTL DEF Spec

(***************************************************************************)
(* The cold build.  Its steps are the resident book, as far as chapter i   *)
(* has seen it: each reduction with the deposits of chapters up to i, and  *)
(* no edge.                                                                *)
(***************************************************************************)
DepositsUpTo(j, i) ==
    SubSeq(book.reduced[j].deposits, 1,
           IF Len(book.reduced[j].deposits) < i - j THEN Len(book.reduced[j].deposits) ELSE i - j)

HeldUpTo(j, i) == [own |-> book.reduced[j].own, deposits |-> DepositsUpTo(j, i), edge |-> NoEdge]

ColumnsUpTo(i) ==
    [entering |-> [j \in 1 .. i |-> book.entering[j]],
     leaving  |-> [j \in 1 .. i |-> book.leaving[j]],
     reduced  |-> [j \in 1 .. i |-> HeldUpTo(j, i)]]

Rebuilding == [n |-> book.n, token |-> book.token, stamp |-> book.stamp]

(* What enters a chapter is owned by j exactly when j holds its deposit.    *)
LEMMA DepositOwner ==
    ASSUME IInv, NEW i \in 1 .. book.n, NEW j \in 1 .. i - 1
    PROVE  book.token[j] = Owner(book.entering[i]) <=> i - j <= Len(book.reduced[j].deposits)
<1> DEFINE d == book.reduced[j].deposits
           size == Len(d)
<1>1. TypeOK
  BY DEF IInv, TypeInv
<1>2. /\ book.n \in Nat /\ i \in Nat /\ j \in Nat /\ j < i /\ i <= book.n
      /\ j \in 1 .. book.n /\ i - 1 \in 1 .. book.n /\ i # 1 /\ i - j \in Nat \ {0}
  BY <1>1, BookColumns
<1>3. ColdAt(book, i) /\ ColdAt(book, j)
  BY <1>2 DEF IInv, BookIsColdFold
<1>4. book.reduced[j] \in Reduced /\ size \in Nat
  BY <1>1, <1>2, BookColumns DEF Reduced
<1>5. /\ j + size <= book.n
      /\ \A m \in 1 .. size : Owner(book.entering[j + m]) = book.token[j]
      /\ j + size < book.n => Owner(book.entering[j + size + 1]) # book.token[j]
  BY <1>3 DEF ColdAt, DepositsOf
<1>6. book.entering[i] = book.leaving[i - 1]
  BY <1>2, <1>3 DEF ColdAt
<1>7. book.token[j] \in Tokens /\ NoOwner \notin Tokens
  BY <1>1, <1>2, BookColumns, SubstrateAssumption
<1>8. OwnerChain(book.token, book.entering, book.leaving, i - 1)
  BY <1>2 DEF IInv, BookChain
<1> HIDE DEF d, size
<1>9. ASSUME book.token[j] = Owner(book.entering[i])
      PROVE  i - j <= size
  <2>1. Owner(book.leaving[i - 1]) # NoOwner
    BY <1>6, <1>7, <1>9
  <2>2. PICK o \in 1 .. i - 1 : /\ Owner(book.leaving[i - 1]) = book.token[o]
                                /\ \A l \in o + 1 .. i - 1 : Owner(book.entering[l]) = book.token[o]
    BY <1>8, <2>1 DEF OwnerChain
  <2>3. o = j
    <3>1. book.token[o] = book.token[j] /\ o \in 1 .. book.n
      BY <1>2, <1>6, <1>9, <2>2
    <3>2. QED
      BY <1>1, <1>2, <3>1, BookTokensDistinct
  <2>4. \A l \in j + 1 .. i : Owner(book.entering[l]) = book.token[j]
    <3>1. \A l \in j + 1 .. i : l = i \/ l \in j + 1 .. i - 1
      BY <1>2
    <3>2. QED
      BY <1>9, <2>2, <2>3, <3>1
  <2>5. ASSUME size < i - j
        PROVE  FALSE
    <3>1. j + size < book.n /\ j + size + 1 \in j + 1 .. i
      BY <1>2, <1>4, <2>5
    <3>2. QED
      BY <1>5, <2>4, <3>1
  <2>6. QED
    BY <1>2, <1>4, <2>5
<1>10. ASSUME i - j <= size
       PROVE  book.token[j] = Owner(book.entering[i])
  <2>1. i - j \in 1 .. size /\ j + (i - j) = i
    BY <1>2, <1>4, <1>10
  <2>2. QED
    BY <1>5, <2>1
<1>11. QED
  BY <1>9, <1>10 DEF d, size

(* One more chapter of the cold build is one more chapter of the book.     *)
LEMMA HeldGrows ==
    ASSUME IInv, NEW i \in 1 .. book.n, NEW j \in 1 .. i - 1
    PROVE  HeldUpTo(j, i) = IF book.token[j] = Owner(book.entering[i])
                            THEN CarryOut(HeldUpTo(j, i - 1), book.obs[i], book.entering[i])
                            ELSE HeldUpTo(j, i - 1)
<1> DEFINE d == book.reduced[j].deposits
           size == Len(d)
           x == [obs |-> book.obs[i], entering |-> book.entering[i]]
           now == DepositsUpTo(j, i)
           before == DepositsUpTo(j, i - 1)
<1>1. TypeOK
  BY DEF IInv, TypeInv
<1>2. /\ book.n \in Nat /\ i \in Nat /\ j \in Nat /\ j < i /\ i <= book.n
      /\ j \in 1 .. book.n /\ i - j \in Nat /\ (i - 1) - j \in Nat /\ i - j = ((i - 1) - j) + 1
  BY <1>1, BookColumns
<1>3. book.reduced[j] \in Reduced /\ d \in Seq(Reduction) /\ size \in Nat
  <2>1. book.reduced[j] \in Reduced
    BY <1>1, <1>2, BookColumns
  <2>2. d \in Seq(Reduction)
    BY <2>1 DEF Reduced
  <2>3. QED
    BY <2>1, <2>2
<1>4. \A m \in 1 .. size : d[m] = [obs |-> book.obs[j + m], entering |-> book.entering[j + m]]
  BY <1>2 DEF IInv, BookIsColdFold, ColdAt, DepositsOf
<1>5. book.token[j] = Owner(book.entering[i]) <=> i - j <= size
  BY DepositOwner
<1>6. /\ now = SubSeq(d, 1, IF size < i - j THEN size ELSE i - j)
      /\ before = SubSeq(d, 1, IF size < (i - 1) - j THEN size ELSE (i - 1) - j)
  BY DEF DepositsUpTo
<1> HIDE DEF d, size, now, before
<1>7. CASE i - j <= size
  <2> DEFINE q == (i - 1) - j
  <2>1. q \in Nat /\ q + 1 = i - j /\ q + 1 <= size /\ ~ (size < q) /\ ~ (size < i - j) /\ q + 1 \in 1 .. size
    BY <1>2, <1>3, <1>7
  <2>2. now = SubSeq(d, 1, q + 1) /\ before = SubSeq(d, 1, q)
    BY <1>6, <2>1
  <2>3. d[q + 1] = x
    <3>1. j + (q + 1) = i
      BY <1>2, <2>1
    <3> HIDE DEF q
    <3>2. QED
      BY <1>4, <2>1, <3>1
  <2> HIDE DEF q, x
  <2>4. SubSeq(d, 1, q + 1) = Append(SubSeq(d, 1, q), d[q + 1])
    <3>1. /\ SubSeq(d, 1, q) \in Seq(Reduction) /\ Len(SubSeq(d, 1, q)) = q
          /\ \A m \in 1 .. q : SubSeq(d, 1, q)[m] = d[m]
      BY <1>3, <2>1 DEF size
    <3>2. /\ SubSeq(d, 1, q + 1) \in Seq(Reduction) /\ Len(SubSeq(d, 1, q + 1)) = q + 1
          /\ \A m \in 1 .. q + 1 : SubSeq(d, 1, q + 1)[m] = d[m]
      BY <1>3, <2>1 DEF size
    <3>3. d[q + 1] \in Reduction
      BY <1>3, <2>1 DEF size
    <3> DEFINE a == SubSeq(d, 1, q)
               b == SubSeq(d, 1, q + 1)
               c == Append(a, d[q + 1])
    <3> HIDE DEF a, b
    <3>4. c \in Seq(Reduction) /\ Len(c) = q + 1 /\ c[q + 1] = d[q + 1] /\ \A m \in 1 .. q : c[m] = a[m]
      BY <2>1, <3>1, <3>3 DEF a
    <3> HIDE DEF c
    <3>5. \A m \in 1 .. q + 1 : b[m] = c[m]
      <4>1. \A m \in 1 .. q + 1 : m = q + 1 \/ m \in 1 .. q
        BY <2>1
      <4>2. QED
        BY <3>1, <3>2, <3>4, <4>1 DEF a, b
    <3>6. b \in Seq(Reduction) /\ Len(b) = q + 1
      BY <3>2 DEF b
    <3>7. b = c
      BY <3>4, <3>5, <3>6, SeqEqual
    <3>8. QED
      BY <3>7 DEF a, b, c
  <2>5. now = Append(before, x)
    BY <2>2, <2>3, <2>4
  <2>6. QED
    BY <1>5, <1>7, <2>5 DEF HeldUpTo, CarryOut, now, before, x
<1>8. CASE ~ (i - j <= size)
  <2>1. now = before
    BY <1>2, <1>3, <1>6, <1>8
  <2>2. QED
    BY <1>5, <1>8, <2>1 DEF HeldUpTo, now, before
<1>9. QED
  BY <1>7, <1>8

LEMMA ColdStepIs ==
    ASSUME IInv, NEW i \in 1 .. book.n
    PROVE  ColdStep(Rebuilding, ColumnsUpTo(i - 1), i) = ColumnsUpTo(i)
<1> DEFINE cold == ColumnsUpTo(i - 1)
           entering == IF i = 1 THEN DefaultState ELSE cold.leaving[i - 1]
           o == MapChapter(book.token[i], book.stamp[i])
<1>1. TypeOK
  BY DEF IInv, TypeInv
<1>2. /\ book.n \in Nat /\ i \in Nat /\ i <= book.n
      /\ \A j \in 1 .. i : j \in 1 .. book.n /\ (j # i => j \in 1 .. i - 1)
      /\ i # 1 => i - 1 \in 1 .. i - 1
  BY <1>1, BookColumns
<1>3. /\ book.obs[i] = o
      /\ book.entering[i] = IF i = 1 THEN DefaultState ELSE book.leaving[i - 1]
      /\ book.leaving[i] = Leaving(book.obs[i], book.entering[i])
      /\ book.reduced[i].own = [obs |-> book.obs[i], entering |-> book.entering[i]]
  BY DEF IInv, BookIsColdFold, ColdAt
<1>4. entering = book.entering[i]
  BY <1>2, <1>3 DEF ColumnsUpTo
<1>5. /\ \A j \in 1 .. i - 1 : /\ cold.entering[j] = book.entering[j]
                               /\ cold.leaving[j] = book.leaving[j]
                               /\ cold.reduced[j] = HeldUpTo(j, i - 1)
  BY DEF ColumnsUpTo
<1>6. HeldUpTo(i, i) = ReduceChapter(o, entering)
  <2> DEFINE d == book.reduced[i].deposits
  <2>1. d \in Seq(Reduction)
    BY <1>1, <1>2, BookColumns DEF Reduced
  <2>2. DepositsUpTo(i, i) = << >>
    <3>1. Len(d) \in Nat /\ i - i = 0
      BY <1>2, <2>1
    <3>2. (IF Len(d) < 0 THEN Len(d) ELSE 0) = 0
      BY <3>1
    <3> HIDE DEF d
    <3>3. SubSeq(d, 1, 0) = << >>
      BY <2>1
    <3>4. QED
      BY <3>1, <3>2, <3>3 DEF DepositsUpTo, d
  <2>3. QED
    BY <1>3, <1>4, <2>2 DEF HeldUpTo, ReduceChapter
<1> HIDE DEF cold, entering, o
<1>7. \A j \in 1 .. i - 1 :
         HeldUpTo(j, i) = IF book.token[j] = Owner(entering)
                          THEN CarryOut(cold.reduced[j], o, entering) ELSE cold.reduced[j]
  BY <1>3, <1>4, <1>5, HeldGrows
<1>8. ColdStep(Rebuilding, cold, i) =
         [entering |-> [j \in 1 .. i |-> IF j = i THEN entering ELSE cold.entering[j]],
          leaving  |-> [j \in 1 .. i |-> IF j = i THEN Leaving(o, entering) ELSE cold.leaving[j]],
          reduced  |-> [j \in 1 .. i |-> IF j = i THEN ReduceChapter(o, entering)
                                         ELSE IF book.token[j] = Owner(entering)
                                              THEN CarryOut(cold.reduced[j], o, entering)
                                              ELSE cold.reduced[j]]]
  BY DEF ColdStep, Rebuilding, entering, o
<1>9. [j \in 1 .. i |-> IF j = i THEN entering ELSE cold.entering[j]] = [j \in 1 .. i |-> book.entering[j]]
  BY <1>2, <1>4, <1>5
<1>10. [j \in 1 .. i |-> IF j = i THEN Leaving(o, entering) ELSE cold.leaving[j]]
         = [j \in 1 .. i |-> book.leaving[j]]
  BY <1>2, <1>3, <1>4, <1>5
<1>11. [j \in 1 .. i |-> IF j = i THEN ReduceChapter(o, entering)
                         ELSE IF book.token[j] = Owner(entering)
                              THEN CarryOut(cold.reduced[j], o, entering)
                              ELSE cold.reduced[j]]
         = [j \in 1 .. i |-> HeldUpTo(j, i)]
  BY <1>2, <1>6, <1>7
<1>12. QED
  BY <1>8, <1>9, <1>10, <1>11 DEF ColumnsUpTo, cold

(* The recursion has the book's columns for its value at every step.       *)
LEMMA ColdColumns ==
    ASSUME IInv, NEW built,
           built = CHOOSE f : f = [i \in 0 .. book.n |->
                                     IF i = 0 THEN NoColumns ELSE ColdStep(Rebuilding, f[i - 1], i)]
    PROVE  \A i \in 0 .. book.n : built[i] = ColumnsUpTo(i)
<1> DEFINE n == book.n
           Body(f) == [i \in 0 .. n |->
                         IF i = 0 THEN NoColumns ELSE ColdStep(Rebuilding, f[i - 1], i)]
           g == [i \in 0 .. n |-> ColumnsUpTo(i)]
<1>1. n \in Nat /\ \A i \in 0 .. n : i = 0 \/ (i \in 1 .. n /\ i - 1 \in 0 .. n)
  BY BookColumns DEF IInv, TypeInv
<1>2. ColumnsUpTo(0) = NoColumns
  BY DEF ColumnsUpTo, NoColumns
<1>3. \A i \in 1 .. n : ColdStep(Rebuilding, ColumnsUpTo(i - 1), i) = ColumnsUpTo(i)
  BY ColdStepIs
<1> HIDE DEF n
<1>4. g = Body(g)
  <2>1. \A i \in 0 .. n : g[i] = IF i = 0 THEN NoColumns ELSE ColdStep(Rebuilding, g[i - 1], i)
    <3>1. \A i \in 1 .. n : g[i - 1] = ColumnsUpTo(i - 1) /\ i # 0
      BY <1>1
    <3>2. \A i \in 0 .. n : g[i] = ColumnsUpTo(i)
      OBVIOUS
    <3> HIDE DEF g
    <3>3. QED
      BY <1>1, <1>2, <1>3, <3>1, <3>2
  <2>2. g = [i \in 0 .. n |-> g[i]]
    OBVIOUS
  <2> HIDE DEF g
  <2>3. QED
    BY <2>1, <2>2
<1>5. built = Body(built)
  <2>1. built = CHOOSE f : f = Body(f)
    BY DEF n
  <2> HIDE DEF Body, g
  <2>2. QED
    BY <1>4, <2>1
<1>6. built[0] = NoColumns /\ \A i \in 1 .. n : built[i] = ColdStep(Rebuilding, built[i - 1], i)
  <2>1. \A i \in 0 .. n : Body(built)[i] = IF i = 0 THEN NoColumns
                                            ELSE ColdStep(Rebuilding, built[i - 1], i)
    OBVIOUS
  <2>2. 0 \in 0 .. n /\ \A i \in 1 .. n : i \in 0 .. n /\ i # 0
    BY <1>1
  <2> HIDE DEF Body
  <2>3. QED
    BY <1>5, <2>1, <2>2
<1> DEFINE P == { i \in 0 .. n : built[i] = ColumnsUpTo(i) }
<1>7. 0 \in P
  BY <1>1, <1>2, <1>6
<1>8. ASSUME NEW i \in 0 .. n - 1, i \in P
      PROVE  i + 1 \in P
  <2> DEFINE m == i + 1
  <2>1. m \in 1 .. n /\ m \in 0 .. n /\ m - 1 = i /\ built[i] = ColumnsUpTo(i)
    BY <1>1, <1>8
  <2> HIDE DEF m
  <2>2. built[m] = ColumnsUpTo(m)
    BY <1>3, <1>6, <2>1
  <2>3. QED
    BY <2>1, <2>2 DEF m
<1>9. 0 .. n \subseteq P
  <2> HIDE DEF P
  <2>1. QED
    BY <1>1, <1>7, <1>8, UpTo
<1>10. QED
  BY <1>9 DEF n

LEMMA ColdBookIs ==
    ASSUME IInv, book.n > 0
    PROVE  book = ColdBook(Rebuilding)
<1> DEFINE built == CHOOSE f : f = [i \in 0 .. book.n |->
                                     IF i = 0 THEN NoColumns ELSE ColdStep(Rebuilding, f[i - 1], i)]
           cold == built[book.n]
           last == cold.leaving[book.n]
<1>1. TypeOK
  BY DEF IInv, TypeInv
<1>2. book.n \in Nat /\ book.n \in 1 .. book.n /\ book.n \in 0 .. book.n
  BY <1>1, BookColumns
<1>3. ColdBook(Rebuilding) =
        [n |-> book.n, token |-> book.token, stamp |-> book.stamp,
         obs |-> [i \in 1 .. book.n |-> MapChapter(book.token[i], book.stamp[i])],
         entering |-> cold.entering, leaving |-> cold.leaving,
         reduced |-> [i \in 1 .. book.n |-> IF book.token[i] = Owner(last)
                                            THEN FinishBook(cold.reduced[i], last)
                                            ELSE cold.reduced[i]]]
  BY DEF ColdBook, Rebuilding
<1> HIDE DEF built
<1>4. cold = ColumnsUpTo(book.n)
  BY <1>2, ColdColumns DEF built
<1> HIDE DEF cold
<1>5. /\ cold.entering = [i \in 1 .. book.n |-> book.entering[i]]
      /\ cold.leaving = [i \in 1 .. book.n |-> book.leaving[i]]
      /\ \A i \in 1 .. book.n : cold.reduced[i] = HeldUpTo(i, book.n)
  BY <1>4 DEF ColumnsUpTo
<1>6. cold.entering = book.entering /\ cold.leaving = book.leaving /\ last = book.leaving[book.n]
  BY <1>1, <1>2, <1>5, BookColumns
<1> HIDE DEF last
<1>7. ASSUME NEW i \in 1 .. book.n
      PROVE  book.reduced[i] = IF book.token[i] = Owner(last) THEN FinishBook(cold.reduced[i], last)
                               ELSE cold.reduced[i]
  <2> DEFINE d == book.reduced[i].deposits
             r == book.reduced[i]
  <2>1. r \in Reduced /\ d \in Seq(Reduction) /\ i \in Nat
    BY <1>1, BookColumns DEF Reduced
  <2>2. i + Len(d) <= book.n /\ r.edge = IF Owner(last) = book.token[i] THEN last ELSE NoEdge
    BY <1>6 DEF IInv, BookIsColdFold, ColdAt, DepositsOf, EdgeOf
  <2>3. DepositsUpTo(i, book.n) = d
    <3>1. Len(d) \in Nat /\ Len(d) <= book.n - i
      <4> DEFINE size == Len(d)
      <4>1. size \in Nat
        BY <2>1
      <4>2. i + size <= book.n
        BY <2>2
      <4> HIDE DEF size
      <4>3. size <= book.n - i
        BY <1>2, <2>1, <4>1, <4>2
      <4>4. QED
        BY <4>1, <4>3 DEF size
    <3>2. (IF Len(d) < book.n - i THEN Len(d) ELSE book.n - i) = Len(d)
      BY <1>2, <2>1, <3>1
    <3>3. SubSeq(d, 1, Len(d)) = d
      BY <2>1
    <3>4. DepositsUpTo(i, book.n) = SubSeq(d, 1, IF Len(d) < book.n - i THEN Len(d) ELSE book.n - i)
      BY DEF DepositsUpTo
    <3> HIDE DEF d
    <3>5. QED
      BY <3>2, <3>3, <3>4
  <2>4. cold.reduced[i] = [own |-> r.own, deposits |-> d, edge |-> NoEdge]
    BY <1>5, <2>3 DEF HeldUpTo
  <2>5. r = [own |-> r.own, deposits |-> d, edge |-> r.edge]
    BY <2>1 DEF Reduced
  <2>6. FinishBook(cold.reduced[i], last) = [own |-> r.own, deposits |-> d, edge |-> last]
    BY <2>4 DEF FinishBook
  <2> HIDE DEF r, d
  <2>7. QED
    BY <2>2, <2>4, <2>5, <2>6 DEF r
<1> DEFINE reduced == [i \in 1 .. book.n |-> IF book.token[i] = Owner(last)
                                             THEN FinishBook(cold.reduced[i], last)
                                             ELSE cold.reduced[i]]
           observed == [i \in 1 .. book.n |-> MapChapter(book.token[i], book.stamp[i])]
<1>8. reduced = book.reduced
  <2>1. book.reduced = [i \in 1 .. book.n |-> book.reduced[i]]
    BY <1>1, BookColumns
  <2>2. QED
    BY <1>7, <2>1
<1>9. observed = book.obs
  <2>1. book.obs = [i \in 1 .. book.n |-> book.obs[i]]
    BY <1>1, BookColumns
  <2>2. \A i \in 1 .. book.n : book.obs[i] = MapChapter(book.token[i], book.stamp[i])
    BY DEF IInv, BookIsColdFold, ColdAt
  <2>3. QED
    BY <2>1, <2>2
<1>10. ColdBook(Rebuilding) = [n |-> book.n, token |-> book.token, stamp |-> book.stamp,
                              obs |-> observed, entering |-> cold.entering,
                              leaving |-> cold.leaving, reduced |-> reduced]
  BY <1>3 DEF last
<1> HIDE DEF reduced, observed
<1>11. book = [n |-> book.n, token |-> book.token, stamp |-> book.stamp, obs |-> book.obs,
              entering |-> book.entering, leaving |-> book.leaving, reduced |-> book.reduced]
  BY <1>1 DEF TypeOK, BookOf
<1>12. QED
  BY <1>6, <1>8, <1>9, <1>10, <1>11

(* The book a resident driver keeps is the very book a build from nothing   *)
(* of the same chapters gives: every column, deposit and edge.             *)
THEOREM ResidentIsCold == Spec => []ResidentEqualsCold
<1>1. IInv => ResidentEqualsCold
  BY ColdBookIs DEF ResidentEqualsCold, Rebuilding
<1>2. QED
  BY <1>1, InvInit, InvStep, PTL DEF Spec

(***************************************************************************)
(* The site delta.                                                         *)
(***************************************************************************)
(* A chapter below the window keeps its cached reduction: nothing the       *)
(* window carries is deposited into it.                                    *)
PrefixReduced == InReplay => \A i \in 1 .. start - 1 : col.reduced[i] = book.reduced[i]

LEMMA PrefixStep == TypeInv /\ PrefixReduced /\ [Next]_vars => PrefixReduced'
<1> SUFFICES ASSUME TypeInv, PrefixReduced, [Next]_vars, InReplay'
             PROVE  (\A i \in 1 .. start - 1 : col.reduced[i] = book.reduced[i])'
  BY DEF PrefixReduced
<1>1. CASE OpenWindow
  BY <1>1 DEF OpenWindow
<1>2. CASE Replay
  <2>1. /\ TypeOK /\ InReplay /\ start' = start /\ book' = book
        /\ col'.reduced = [i \in 1 .. k |-> ReducedAfter(i)]
    BY <1>2 DEF TypeInv, Replay, InReplay
  <2>2. start \in Nat /\ k \in Nat /\ k >= start
    <3>1. start \in 1 .. input.n /\ k \in start .. input.n + 1 /\ input.n \in Nat
      BY <2>1, ReplayFacts
    <3>2. QED
      BY <3>1
  <2>3. \A i \in 1 .. start - 1 : i \in 1 .. k /\ i # k /\ ~ (i >= start)
    BY <2>2
  <2>4. \A i \in 1 .. start - 1 : col'.reduced[i] = col.reduced[i]
    BY <2>1, <2>3 DEF ReducedAfter
  <2>5. QED
    BY <2>1, <2>4 DEF PrefixReduced
<1>3. CASE UNCHANGED vars
  BY <1>3 DEF vars, PrefixReduced, InReplay
<1>4. CASE Promote
  BY <1>4 DEF Promote, InReplay
<1>5. QED
  BY <1>1, <1>2, <1>3, <1>4
     DEF Next, UpdateBook, WalkBack, Finish, RemoveBook, Clear, InReplay

LEMMA FinishOwes ==
    ASSUME IInv, PrefixReduced, Finish, NEW i \in 1 .. book'.n
    PROVE  HeldBefore(i) \/ Owed(pending', book'.token[i])
<1>1. /\ i \in 1 .. input.n /\ book'.token[i] = input.token[i]
      /\ book'.reduced[i] = FinalReduced(i)
  BY FinishColumns
<1>2. /\ start \in 1 .. k - 1 /\ k \in 2 .. input.n + 1 /\ input.n \in Nat
      /\ TypeOK /\ InReplay /\ book.n \in Nat
  BY FinishColumns, BookColumns
<1>3. CASE i \in 1 .. start - 1
  <2>1. ~ (i >= k) /\ ~ (i >= start) /\ book.n \in Nat
    BY <1>2, <1>3
  <2>2. FinalReduced(i) = book.reduced[i]
    BY <1>2, <1>3, <2>1 DEF FinalReduced, PrefixReduced
  <2>3. SamePosition(input, i)
    BY <1>2, <1>3, FinishColumns DEF IInv, TypeInv, PrefixKept
  <2>4. i \in 1 .. book.n /\ book.token[i] = input.token[i]
    BY <1>1, <1>2, <2>3 DEF SamePosition
  <2>5. QED
    BY <1>1, <2>2, <2>4 DEF HeldBefore
<1>4. CASE i \in start .. k - 1
  <2>1. CASE SiteMoved(i)
    <3>1. input.token[i] \in Sites
      BY <1>4, <2>1 DEF Sites
    <3>2. QED
      BY <1>1, <3>1 DEF Finish, Owed, OweAll, OweChapters, IInv, TypeInv, TypeOK
  <2>2. CASE ~ SiteMoved(i)
    BY <1>1, <2>2 DEF SiteMoved, HeldBefore
  <2>3. QED
    BY <2>1, <2>2
<1>5. CASE i \in k .. input.n
  <2>1. k # input.n + 1 /\ i >= k
    BY <1>2, <1>5
  <2>2. SamePosition(input, i) /\ book.n = input.n
    BY <1>5, <2>1, ConvergedTail
  <2>3. FinalReduced(i) = book.reduced[i]
    BY <2>1 DEF FinalReduced
  <2>4. QED
    BY <1>1, <2>2, <2>3 DEF HeldBefore, SamePosition
<1>6. QED
  BY <1>1, <1>2, <1>3, <1>4, <1>5

(* Every chapter whose reduced value moved is owed to the finding lane.     *)
THEOREM MovesAreOwed == Spec => SiteMovesAreOwed
<1> DEFINE Step == \A i \in 1 .. book'.n : HeldBefore(i) \/ Owed(pending', book'.token[i])
<1>1. Init => PrefixReduced
  BY DEF Init, PrefixReduced, InReplay
<1>2. IInv /\ PrefixReduced /\ [Next]_vars => PrefixReduced'
  BY PrefixStep DEF IInv
<1>3. IInv /\ PrefixReduced /\ [Next]_vars => [Step]_vars
  <2> SUFFICES ASSUME IInv, PrefixReduced, Next
               PROVE  Step
    OBVIOUS
  <2>1. CASE Finish
    BY <2>1, FinishOwes
  <2>2. CASE book' = book
    BY <2>2 DEF HeldBefore
  <2>3. CASE book' = EmptyBook
    BY <2>3 DEF EmptyBook
  <2>4. QED
    BY <2>1, <2>2, <2>3
       DEF Next, UpdateBook, WalkBack, OpenWindow, Replay, RemoveBook, Clear, Promote
<1>4. SiteMovesAreOwed <=> [][Step]_vars
  BY DEF SiteMovesAreOwed
<1> HIDE DEF Step
<1>5. QED
  BY <1>1, <1>2, <1>3, <1>4, InvInit, InvStep, PTL DEF Spec

(* What is owed stays owed until the finding lane commits the patch.        *)
THEOREM OwedStaysOwed == Spec => OwedUntilPromoted
<1> DEFINE Step == Promote \/ \A t \in Tokens : Owed(pending, t) => Owed(pending', t)
<1>1. TypeOK /\ [Next]_vars => [Step]_vars
  <2> SUFFICES ASSUME TypeOK, Next
               PROVE  Step
    OBVIOUS
  <2>1. CASE Finish
    BY <2>1 DEF Finish, OweAll, OweChapters, Owed, TypeOK
  <2>2. CASE pending' = pending \/ pending' = OweAll
    BY <2>2 DEF Owed, OweAll
  <2>3. QED
    BY <2>1, <2>2
       DEF Next, UpdateBook, WalkBack, OpenWindow, Replay, RemoveBook, Clear
<1>2. OwedUntilPromoted <=> [][Step]_vars
  BY DEF OwedUntilPromoted
<1> HIDE DEF Step
<1>3. QED
  BY <1>1, <1>2, TypeCorrect, PTL DEF Spec
==============================================================================
