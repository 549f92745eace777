--------------------------- MODULE ReductionReplay ---------------------------
(***************************************************************************)
(* SubstrateCache::update_book: the ordered reduction-to-convergence       *)
(* driver every observation substrate of the analyzer is maintained by.    *)
(*                                                                         *)
(* One book of one substrate.  The cache holds the book's chapters in      *)
(* order; a call brings it up to date with a new ordered list of (opaque   *)
(* chapter token, input stamp) pairs by mapping only the stale chapters,   *)
(* then replaying the left-to-right reduction from the earliest chapter    *)
(* that can be affected until the carried boundary state converges.        *)
(*                                                                         *)
(* The substrate is abstract.  Its boundary states, the owner of a carried *)
(* contribution and the state a chapter leaves are CONSTANTs.  A reduced   *)
(* chapter is the free term of the calls that built it: its own reduction, *)
(* the deposits later chapters made through carry_out, and the book-edge   *)
(* resolution.  Two reduced chapters equal as terms are equal under every  *)
(* concrete substrate, and a deposit made twice or lost shows.             *)
(***************************************************************************)
EXTENDS Integers, Sequences

CONSTANTS
    Tokens,          \* opaque chapter tokens, unique within a book
    Stamps,          \* ObservationInputStamps; equal stamps mean equal input
    States,          \* S::BoundaryState
    DefaultState,    \* the book-start state
    NoOwner,         \* pending_owner answers None
    NoEdge,          \* no book-edge resolution was folded in
    Owner(_),        \* S::pending_owner
    Leaving(_, _),   \* the state S::reduce_chapter(observation, entering) leaves
    MaxChapters      \* the longest book of an instance

Obs == [token : Tokens, stamp : Stamps]

(* What the trait's contract gives the driver: the book starts with nothing *)
(* carried, and a chapter forwards what entered it, resolves it, or         *)
(* replaces it by a contribution of its own.                                *)
ASSUME SubstrateAssumption ==
    /\ MaxChapters \in Nat \ {0}
    /\ NoOwner \notin Tokens
    /\ NoEdge \notin States
    /\ DefaultState \in States
    /\ Owner(DefaultState) = NoOwner
    /\ \A o \in Obs, s \in States :
          /\ Leaving(o, s) \in States
          /\ Owner(Leaving(o, s)) \in {NoOwner, o.token, Owner(s)}

VARIABLES
    book,       \* the cached book, column by column; n = 0 when it is absent
    pending,    \* what the resident finding partition still owes
    pc,         \* where the call is: idle, walk, replay, edge
    input,      \* the call's chapters argument
    obs,        \* observations, one per input position (step 1)
    start,      \* the replay window's first position
    k,          \* the next position to replay
    carry,      \* the boundary state entering position k
    col         \* the entering, leaving and reduced columns below k

vars == <<book, pending, pc, input, obs, start, k, carry, col>>
local == <<input, obs, start, k, carry, col>>

(***************************************************************************)
(* Data.                                                                   *)
(***************************************************************************)
Reduction == [obs : Obs, entering : States]

Reduced == [own : Reduction, deposits : Seq(Reduction), edge : States \cup {NoEdge}]

Column(S, n) == [1 .. n -> S]

(* A chapter token names one chapter of a book: a run may not reopen. *)
TokenColumn(n) == { t \in Column(Tokens, n) : \A i, j \in 1 .. n : t[i] = t[j] => i = j }

Inputs == UNION { [n : {n}, token : TokenColumn(n), stamp : Column(Stamps, n)]
                  : n \in 1 .. MaxChapters }

BookOf(n) == [n : {n}, token : TokenColumn(n), stamp : Column(Stamps, n),
              obs : Column(Obs, n), entering : Column(States, n),
              leaving : Column(States, n), reduced : Column(Reduced, n)]

Columns(n) == [entering : Column(States, n), leaving : Column(States, n),
               reduced : Column(Reduced, n)]

NoInput == [n |-> 0, token |-> << >>, stamp |-> << >>]

NoColumns == [entering |-> << >>, leaving |-> << >>, reduced |-> << >>]

EmptyBook == [n |-> 0, token |-> << >>, stamp |-> << >>, obs |-> << >>,
              entering |-> << >>, leaving |-> << >>, reduced |-> << >>]

(* The chapter map is a pure function of the chapter named by the stamp. *)
MapChapter(t, s) == [token |-> t, stamp |-> s]

(* reduce_chapter's own result, before any later chapter deposits into it. *)
ReduceChapter(o, entering) ==
    [own |-> [obs |-> o, entering |-> entering], deposits |-> << >>, edge |-> NoEdge]

(* reduce_chapter's write through carry_out. *)
CarryOut(red, o, entering) ==
    [red EXCEPT !.deposits = Append(@, [obs |-> o, entering |-> entering])]

FinishBook(red, leaving) == [red EXCEPT !.edge = leaving]

(***************************************************************************)
(* Step 0: every position holds the same token mapped from the same stamp, *)
(* and the call returns without touching anything.                         *)
(***************************************************************************)
SamePosition(in, i) ==
    i <= book.n /\ book.token[i] = in.token[i] /\ book.stamp[i] = in.stamp[i]

Unchanged(in) == book.n = in.n /\ \A i \in 1 .. in.n : SamePosition(in, i)

(* Step 1: reuse is keyed by the chapter's token, never by its position. *)
ReusableByToken(in, i, j) == book.token[j] = in.token[i]    \* mutant: the stamp ignored

Reusable(in, i, j) == book.token[j] = in.token[i] /\ book.stamp[j] = in.stamp[i]

Observe(in, i) ==
    IF \E j \in 1 .. book.n : Reusable(in, i, j)
    THEN book.obs[CHOOSE j \in 1 .. book.n : Reusable(in, i, j)]
    ELSE MapChapter(in.token[i], in.stamp[i])

(* Step 2: where the replay window starts. *)
Changed(in, i) == ~ SamePosition(in, i)

Structural(in) == book.n # in.n

IsFirstChanged(in, f) ==
    \/ /\ f \in 1 .. in.n
       /\ Changed(in, f)
       /\ \A i \in 1 .. f - 1 : ~ Changed(in, i)
    \/ /\ f = 1
       /\ \A i \in 1 .. in.n : ~ Changed(in, i)

EnteringAt(i) == IF i = 1 THEN DefaultState ELSE book.leaving[i - 1]

(* The owner of the carried state sits at position i of the new order. *)
OwnedBy(state, i) == input.token[i] = Owner(state)

DanglingIgnored(state) == FALSE          \* mutant: converges over a dangling carry

Dangling(state) == \E i \in start .. input.n : OwnedBy(state, i)

(* Nothing past position i changed, so every later cached reduction was    *)
(* produced from what a full re-reduce would hand it.                      *)
ReplayedThrough(i) ==
    /\ ~ Structural(input)
    /\ \A j \in i + 1 .. input.n : ~ Changed(input, j)

Converged(i, leaving) ==
    /\ ReplayedThrough(i)
    /\ book.token[i] = input.token[i]
    /\ ~ Dangling(leaving)
    /\ book.leaving[i] = leaving

(***************************************************************************)
(* PendingPartition.                                                       *)
(***************************************************************************)
OweAll == [all |-> TRUE, chapters |-> {}]

OweOnly(tokens) ==                       \* mutant: earlier debts overwritten
    [pending EXCEPT !.chapters = tokens]

OweChapters(tokens) ==
    IF pending.all THEN pending
    ELSE [pending EXCEPT !.chapters = @ \cup tokens]

(***************************************************************************)
(* The call, step by step.  It runs on one thread under &mut self, so      *)
(* nothing else moves until it returns.                                    *)
(***************************************************************************)
UpdateBook(in) ==
    /\ pc = "idle"
    /\ ~ Unchanged(in)
    /\ \E f \in 1 .. in.n : IsFirstChanged(in, f) /\ start' = f
    /\ input' = in
    /\ obs' = [i \in 1 .. in.n |-> Observe(in, i)]
    /\ pc' = "walk"
    /\ UNCHANGED <<book, pending, k, carry, col>>

(* One hop of the window's start back to the owner of what is carried in. *)
WalkBack ==
    /\ pc = "walk"
    /\ \E i \in 1 .. start - 1 : OwnedBy(EnteringAt(start), i) /\ start' = i
    /\ UNCHANGED <<book, pending, pc, input, obs, k, carry, col>>

OpenWindow ==
    /\ pc = "walk"
    /\ \A i \in 1 .. start - 1 : ~ OwnedBy(EnteringAt(start), i)
    /\ pc' = "replay"
    /\ k' = start
    /\ carry' = EnteringAt(start)
    /\ col' = [entering |-> [i \in 1 .. start - 1 |-> book.entering[i]],
               leaving  |-> [i \in 1 .. start - 1 |-> book.leaving[i]],
               reduced  |-> [i \in 1 .. start - 1 |-> book.reduced[i]]]
    /\ UNCHANGED <<book, pending, input, obs, start>>

ReducedAfter(i) ==
    IF i = k THEN ReduceChapter(obs[k], carry)
    ELSE IF i >= start /\ OwnedBy(carry, i) THEN CarryOut(col.reduced[i], obs[k], carry)
    ELSE col.reduced[i]

Replay ==
    /\ pc = "replay"
    /\ LET leaving == Leaving(obs[k], carry)
       IN /\ col' = [entering |-> [i \in 1 .. k |-> IF i = k THEN carry ELSE col.entering[i]],
                     leaving  |-> [i \in 1 .. k |-> IF i = k THEN leaving ELSE col.leaving[i]],
                     reduced  |-> [i \in 1 .. k |-> ReducedAfter(i)]]
          /\ carry' = leaving
          /\ pc' = IF k = input.n \/ Converged(k, leaving) THEN "edge" ELSE "replay"
    /\ k' = k + 1
    /\ UNCHANGED <<book, pending, input, obs, start>>

(* The reduced column of the finished book: the book edge resolves what    *)
(* still dangles if the replay reached it, and every cached reduction past *)
(* the convergence point stands.                                           *)
FinalReduced(i) ==
    IF i >= k THEN book.reduced[i]
    ELSE IF k = input.n + 1 /\ i >= start /\ OwnedBy(carry, i)
         THEN FinishBook(col.reduced[i], carry)
         ELSE col.reduced[i]

(* The site delta: a replayed position is clean iff the same chapter token *)
(* had reduced to the same value before.                                   *)
SiteMovedOwn(i) ==                       \* mutant: the delta taken before later deposits
    ~ \E j \in 1 .. book.n :
         book.token[j] = input.token[i] /\ book.reduced[j].own = FinalReduced(i).own

SiteMoved(i) ==
    ~ \E j \in 1 .. book.n :
         book.token[j] = input.token[i] /\ book.reduced[j] = FinalReduced(i)

Sites == { input.token[i] : i \in { j \in start .. k - 1 : SiteMoved(j) } }

Finish ==
    /\ pc = "edge"
    /\ pending' = IF book.n = 0 THEN OweAll ELSE OweChapters(Sites)
    /\ book' = [n |-> input.n, token |-> input.token, stamp |-> input.stamp, obs |-> obs,
                entering |-> [i \in 1 .. input.n |->
                                 IF i < k THEN col.entering[i] ELSE book.entering[i]],
                leaving  |-> [i \in 1 .. input.n |->
                                 IF i < k THEN col.leaving[i] ELSE book.leaving[i]],
                reduced  |-> [i \in 1 .. input.n |-> FinalReduced(i)]]
    /\ pc' = "idle"
    /\ input' = NoInput /\ obs' = << >> /\ start' = 1 /\ k' = 1
    /\ carry' = DefaultState /\ col' = NoColumns

RemoveBookRows(moved) ==                 \* mutant: the columns outlive their rows
    /\ pc = "idle"
    /\ book.n # 0
    /\ book' = [book EXCEPT !.n = 0]
    /\ pending' = IF moved THEN OweAll ELSE pending
    /\ UNCHANGED <<pc, local>>

(* remove_book: the whole partition is owed when withdrawing the book's    *)
(* contribution moved the corpus aggregate.                                *)
RemoveBook(moved) ==
    /\ pc = "idle"
    /\ book.n # 0
    /\ book' = EmptyBook
    /\ pending' = IF moved THEN OweAll ELSE pending
    /\ UNCHANGED <<pc, local>>

(* clear: the substrate's last consumer was disabled. *)
Clear ==
    /\ pc = "idle"
    /\ book' = EmptyBook
    /\ pending' = OweAll
    /\ UNCHANGED <<pc, local>>

(* promote: the finding lane committed the patch. *)
Promote ==
    /\ pc = "idle"
    /\ pending' = [all |-> FALSE, chapters |-> {}]
    /\ UNCHANGED <<book, pc, local>>

Init ==
    /\ book = EmptyBook
    /\ pending = [all |-> FALSE, chapters |-> {}]
    /\ pc = "idle"
    /\ input = NoInput /\ obs = << >> /\ start = 1 /\ k = 1
    /\ carry = DefaultState /\ col = NoColumns

Next ==
    \/ \E in \in Inputs : UpdateBook(in)
    \/ WalkBack
    \/ OpenWindow
    \/ Replay
    \/ Finish
    \/ \E moved \in BOOLEAN : RemoveBook(moved)
    \/ Clear
    \/ Promote

Spec == Init /\ [][Next]_vars

(***************************************************************************)
(* Properties.                                                             *)
(***************************************************************************)
IdleType ==
    /\ input = NoInput /\ obs = << >> /\ start = 1 /\ k = 1
    /\ carry = DefaultState /\ col = NoColumns

CallType ==
    /\ input \in Inputs
    /\ obs \in Column(Obs, input.n)
    /\ start \in 1 .. input.n

WalkType == k = 1 /\ carry = DefaultState /\ col = NoColumns

ReplayType ==
    /\ k \in start .. input.n + 1
    /\ carry \in States
    /\ col \in Columns(k - 1)

(* Type invariant: the cached book's columns agree in length, its chapter  *)
(* tokens are unique, and the call's locals exist only while it runs.      *)
TypeOK ==
    /\ book.n \in 0 .. MaxChapters /\ book \in BookOf(book.n)
    /\ pending \in [all : BOOLEAN, chapters : SUBSET Tokens]
    /\ pc \in {"idle", "walk", "replay", "edge"}
    /\ pc = "idle" => IdleType
    /\ pc # "idle" => CallType
    /\ pc = "walk" => WalkType
    /\ pc \in {"replay", "edge"} => ReplayType
    /\ pc = "replay" => k <= input.n
    /\ pc = "edge" => k > start

(* The cached book is the cold left-to-right fold of its own chapters: each *)
(* chapter entered with what its predecessor left, holds one deposit per    *)
(* successor it was carried into and no other, and the book edge resolved   *)
(* what still dangled and nothing else.                                     *)
DepositsOf(b, i) ==
    LET d == b.reduced[i].deposits
    IN /\ i + Len(d) <= b.n
       /\ \A j \in 1 .. Len(d) :
             /\ Owner(b.entering[i + j]) = b.token[i]
             /\ d[j] = [obs |-> b.obs[i + j], entering |-> b.entering[i + j]]
       /\ i + Len(d) < b.n => Owner(b.entering[i + Len(d) + 1]) # b.token[i]

EdgeOf(b, i) ==
    b.reduced[i].edge =
        IF Owner(b.leaving[b.n]) = b.token[i] THEN b.leaving[b.n] ELSE NoEdge

ColdAt(b, i) ==
    /\ b.obs[i] = MapChapter(b.token[i], b.stamp[i])
    /\ b.entering[i] = IF i = 1 THEN DefaultState ELSE b.leaving[i - 1]
    /\ b.leaving[i] = Leaving(b.obs[i], b.entering[i])
    /\ b.reduced[i].own = [obs |-> b.obs[i], entering |-> b.entering[i]]
    /\ DepositsOf(b, i)
    /\ EdgeOf(b, i)

(* Safety of update_book: whatever edits led here, and wherever the replay  *)
(* converged, no cached reduction is stale, lost or folded into twice.      *)
BookIsColdFold == \A i \in 1 .. book.n : ColdAt(book, i)

(***************************************************************************)
(* The reference: a whole-book build from nothing, chapter by chapter.     *)
(***************************************************************************)
ColdStep(in, cold, i) ==
    LET entering == IF i = 1 THEN DefaultState ELSE cold.leaving[i - 1]
        o == MapChapter(in.token[i], in.stamp[i])
        folded(j) == IF in.token[j] = Owner(entering)
                     THEN CarryOut(cold.reduced[j], o, entering) ELSE cold.reduced[j]
    IN [entering |-> [j \in 1 .. i |-> IF j = i THEN entering ELSE cold.entering[j]],
        leaving  |-> [j \in 1 .. i |-> IF j = i THEN Leaving(o, entering) ELSE cold.leaving[j]],
        reduced  |-> [j \in 1 .. i |-> IF j = i THEN ReduceChapter(o, entering) ELSE folded(j)]]

ColdBook(in) ==
    LET built[i \in 0 .. in.n] == IF i = 0 THEN NoColumns ELSE ColdStep(in, built[i - 1], i)
        cold == built[in.n]
        last == cold.leaving[in.n]
    IN [n |-> in.n, token |-> in.token, stamp |-> in.stamp,
        obs |-> [i \in 1 .. in.n |-> MapChapter(in.token[i], in.stamp[i])],
        entering |-> cold.entering, leaving |-> cold.leaving,
        reduced |-> [i \in 1 .. in.n |-> IF in.token[i] = Owner(last)
                                         THEN FinishBook(cold.reduced[i], last)
                                         ELSE cold.reduced[i]]]

(* A resident book equals the book a cold build of the same chapters gives. *)
ResidentEqualsCold ==
    book.n > 0 =>
        book = ColdBook([n |-> book.n, token |-> book.token, stamp |-> book.stamp])

(* The site delta names every chapter whose reduced value moved: a chapter  *)
(* of the new book whose reduction the old book did not hold is owed to the *)
(* finding partition.                                                       *)
HeldBefore(i) ==
    \E j \in 1 .. book.n :
        book.token[j] = book'.token[i] /\ book.reduced[j] = book'.reduced[i]

Owed(p, t) == p.all \/ t \in p.chapters

SiteMovesAreOwed ==
    [][\A i \in 1 .. book'.n : HeldBefore(i) \/ Owed(pending', book'.token[i])]_vars

(* What is owed stays owed until the finding lane commits: a later call,    *)
(* a removal or a retry never discharges it.                                *)
OwedUntilPromoted ==
    [][Promote \/ \A t \in Tokens : Owed(pending, t) => Owed(pending', t)]_vars
==============================================================================
