------------------------------- MODULE Brackets -------------------------------
(***************************************************************************)
(* The bracket substrate: LIFO pairing at book scope, reached by reducing  *)
(* chapter by chapter over a carried stack of openers.                     *)
(*                                                                         *)
(* A closer that meets an opener of an earlier chapter records the match   *)
(* in its own reduced chapter, and the book fold resolves it: no chapter   *)
(* reduced before is ever amended, however deep the stack.                 *)
(***************************************************************************)
EXTENDS Tallies, FiniteSets

(* The family of a pair is its open glyph.                                 *)
FamilyOf == (")" :> "(") @@ ("]" :> "[") @@ ("(" :> "(") @@ ("[" :> "[")

IsOpen(glyph) == FamilyOf[glyph] = glyph

(***************************************************************************)
(* Map: the delimiters of a chapter, in text order.                        *)
(***************************************************************************)
Delimiter(v, i, glyph) ==
    [verse |-> v, at |-> i, family |-> FamilyOf[glyph], open |-> IsOpen(glyph)]

Delimiters(chapter, at) ==
    [k \in DOMAIN at |-> Delimiter(at[k][1], at[k][2], chapter[at[k][1]][at[k][2]].glyph)]

IsDelimiter(u) == u.glyph \in DOMAIN FamilyOf

MapBrackets(token, chapter) ==
    LET delimiters == { p \in Range(PlacesOf(chapter)) : IsDelimiter(chapter[p[1]][p[2]]) } IN
    [token |-> token, verses |-> Len(chapter),
     events |-> Delimiters(chapter, Selected(PlacesOf(chapter), delimiters))]

(***************************************************************************)
(* Reduce: one chapter under the stack that enters it.                     *)
(***************************************************************************)
Matches(stack, event) == stack # <<>> /\ Last(stack).family = event.family

(* An opener is pushed, a closer pops its like or is an orphan.            *)
WithEvent(r, i) ==
    LET e == r.events[i] IN
    IF e.open
    THEN [r EXCEPT !.leaving = Append(@, [chapter |-> r.token, idx |-> i, family |-> e.family])]
    ELSE IF Matches(r.leaving, e)
    THEN [r EXCEPT !.leaving = Front(@),
                   !.resolutions = Append(@, [open |-> Last(r.leaving), close |-> i])]
    ELSE [r EXCEPT !.orphans = @ \cup {i}]

ReduceBrackets(obs, entering) ==
    LET walk[n \in 0 .. Len(obs.events)] ==
            IF n = 0
            THEN [token |-> obs.token, verses |-> obs.verses, events |-> obs.events,
                  resolutions |-> <<>>, orphans |-> {}, leaving |-> entering]
            ELSE Only({ WithEvent(r, n) : r \in {walk[n - 1]} })
    IN walk[Len(obs.events)]

(* The book's chapters in order, each under what its predecessor left.     *)
WithBrackets(reduced, obs) ==
    Append(reduced, ReduceBrackets(obs, IF reduced = <<>> THEN <<>> ELSE Last(reduced).leaving))

ReducedBrackets(chapters) ==
    LET walk[n \in 0 .. Len(chapters)] ==
            IF n = 0 THEN <<>>
            ELSE Only({ WithBrackets(reduced, obs) :
                            reduced \in {walk[n - 1]}, obs \in {MapBrackets(n, chapters[n])} })
    IN walk[Len(chapters)]

(***************************************************************************)
(* Fold: chapter-local addresses widen to the book's.                      *)
(***************************************************************************)
EventBase(reduced, i) == TotalOf([k \in 1 .. i - 1 |-> Len(reduced[k].events)])

VerseBase(reduced, i) == TotalOf([k \in 1 .. i - 1 |-> reduced[k].verses])

PlaceOfLast(reduced, token) == Len(reduced)  \* mutant: the opener is of the closing chapter

(* A resolution names its opener's chapter by token, not by place.         *)
PlaceOf(reduced, token) == CHOOSE i \in DOMAIN reduced : reduced[i].token = token

Opener(reduced, p) == EventBase(reduced, PlaceOf(reduced, p.chapter)) + p.idx

Widened(reduced, i) ==
    LET base == VerseBase(reduced, i) IN
    [j \in DOMAIN reduced[i].events |-> [reduced[i].events[j] EXCEPT !.verse = @ + base]]

Pairs(reduced, i) ==
    { <<Opener(reduced, r.open), EventBase(reduced, i) + r.close>> :
        r \in Range(reduced[i].resolutions) }

Strays(reduced, i) == { EventBase(reduced, i) + c : c \in reduced[i].orphans }

UnclosedForgotten(reduced) == {}  \* mutant: what never closed is not an orphan

(* What the last chapter leaves open never closes.                         *)
Unclosed(reduced) ==
    IF reduced = <<>> THEN {} ELSE { Opener(reduced, p) : p \in Range(Last(reduced).leaving) }

FoldBrackets(reduced) ==
    [events |-> FlattenSeq([i \in DOMAIN reduced |-> Widened(reduced, i)]),
     pairs |-> UNION { Pairs(reduced, i) : i \in DOMAIN reduced },
     orphans |-> (UNION { Strays(reduced, i) : i \in DOMAIN reduced }) \cup Unclosed(reduced)]

BookMatch(chapters) == FoldBrackets(ReducedBrackets(chapters))

(***************************************************************************)
(* One book's addend to the family tallies, and the verdict of a family.   *)
(***************************************************************************)
MatchedEvents(match) == UNION { {p[1], p[2]} : p \in match.pairs }

Distance(match, p) == match.events[p[2]].verse - match.events[p[1]].verse

FamilyAddend(match, family) ==
    LET mine == { i \in DOMAIN match.events : match.events[i].family = family }
        pairs == { p \in match.pairs : p[1] \in mine } IN
    [events |-> Cardinality(mine),
     matched |-> Cardinality(mine \cap MatchedEvents(match)),
     distances |-> [d \in { Distance(match, p) : p \in pairs } |->
                       Cardinality({ p \in pairs : Distance(match, p) = d })]]

NoAddends == [events |-> EmptyBag, matched |-> EmptyBag, distances |-> EmptyBag]

(* The addends of all families, each count keyed by its family.            *)
Addends(match) ==
    LET families == { e.family : e \in Range(match.events) }
        of == [f \in families |-> FamilyAddend(match, f)]
        matched == { f \in families : of[f].matched > 0 } IN
    [events |-> [f \in families |-> of[f].events],
     matched |-> [f \in matched |-> of[f].matched],
     distances |-> [k \in UNION { {f} \X DOMAIN of[f].distances : f \in families } |->
                       of[k[1]].distances[k[2]]]]

ReplaceBrackets(stats, old, new) ==
    [events |-> Replaced(stats.events, old.events, new.events),
     matched |-> Replaced(stats.matched, old.matched, new.matched),
     distances |-> Replaced(stats.distances, old.distances, new.distances)]

(* A family's two verdicts read its own tallies only.                      *)
BracketDelta(old, new) ==
    Moved(old.events, new.events) \cup Moved(old.matched, new.matched)
        \cup { k[1] : k \in Moved(old.distances, new.distances) }

BracketEvidence(stats, family) ==
    [events |-> Tallied(family, stats.events), matched |-> Tallied(family, stats.matched),
     distances |-> [k \in { k \in DOMAIN stats.distances : k[1] = family } |-> stats.distances[k]]]

(***************************************************************************)
(* BracketAcc::finish, the census's matcher over a whole book's delimiters. *)
(***************************************************************************)
WithDelimiter(events, r, i) ==
    IF events[i].open THEN [r EXCEPT !.stack = Append(@, i)]
    ELSE IF r.stack # <<>> /\ events[Last(r.stack)].family = events[i].family
    THEN [stack |-> Front(r.stack), pairs |-> r.pairs \cup {<<Last(r.stack), i>>}]
    ELSE r

CensusMatch(events) ==
    LET walk[n \in 0 .. Len(events)] ==
            IF n = 0 THEN [stack |-> <<>>, pairs |-> {}]
            ELSE Only({ WithDelimiter(events, r, n) : r \in {walk[n - 1]} })
    IN walk[Len(events)].pairs
==============================================================================
