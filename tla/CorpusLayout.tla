----------------------------- MODULE CorpusLayout -----------------------------
(***************************************************************************)
(* Corpus: the verses a handle holds, as parallel sequences of keys and    *)
(* texts in the caller's order, and the owned layout of the contiguous     *)
(* book blocks and chapter runs in them.                                   *)
(*                                                                         *)
(* Construction derives the layout from the keys.  Every later mutation    *)
(* splices the verses and maintains the layout locally: it rebuilds only   *)
(* the book it touched and rebases the later ones.                         *)
(*                                                                         *)
(* A key is its (book, chapter) pair, the verse token and the text being   *)
(* one value, and a hash is the content it is taken of.  Positions count   *)
(* from 1 and a range is [first, next).                                    *)
(***************************************************************************)
EXTENDS Integers, Sequences, FiniteSets, SequencesExt, Collections

CONSTANTS
    Malformed,      \* a key that does not parse
    MaxVerses,      \* the KeyIdx ceiling on a corpus's length
    MaxBook,        \* the LocalKeyIdx ceiling on a book's length
    Corpora,        \* candidate corpora: [keys, texts]
    Batches,        \* candidate sequences of book blocks: [slug, keys, texts]
    Runs,           \* candidate chapter blocks: [slug, chapter, keys, texts]
    Slugs,          \* book slugs
    Chapters,       \* chapter tokens
    Texts           \* what a verse can be

(* A key that parses, and the sequences a caller may hand in.              *)
Key == [book : Slugs, chapter : Chapters]

KeySeqs == Seq(Key \cup {Malformed})

ASSUME CorpusAssumption ==
    /\ MaxVerses \in Nat \ {0} /\ MaxBook \in Nat \ {0}
    /\ Malformed \notin Key
    /\ Corpora \subseteq [keys : KeySeqs, texts : Seq(Texts)]
    /\ \A batch \in Batches : batch \in Seq([slug : Slugs, keys : KeySeqs, texts : Seq(Texts)])
    /\ Runs \subseteq [slug : Slugs, chapter : Chapters, keys : KeySeqs, texts : Seq(Texts)]

VARIABLES keys, texts, layout, effect

corpus == <<keys, texts>>
vars == <<keys, texts, layout, effect>>

(***************************************************************************)
(* The layout derived from the keys.                                       *)
(***************************************************************************)
Nth(S, n) == CHOOSE i \in S : Cardinality({ j \in S : j < i }) = n - 1

Ordered(S) == [n \in 1 .. Cardinality(S) |-> Nth(S, n)]

(* The run of a book block, and of a chapter, from position i on.          *)
BookRun(ks, i) == { j \in i .. Len(ks) : \A m \in i .. j : ks[m].book = ks[i].book }

ChapterRun(ks, i) == { j \in i .. Len(ks) : \A m \in i .. j : ks[m] = ks[i] }

ContentHash(ks, ts) == <<ks, ts>>

FoldBookHash(chapters) == [n \in DOMAIN chapters |-> <<chapters[n].chapter, chapters[n].hash>>]

ChapterAt(ks, ts, i) ==
    LET next == i + Cardinality(ChapterRun(ks, i))
    IN [chapter |-> ks[i].chapter, first |-> i, next |-> next,
        hash |-> ContentHash(SubSeq(ks, i, next - 1), SubSeq(ts, i, next - 1))]

BuildBookAt(ks, ts, start) ==
    LET run == BookRun(ks, start)
        heads == Ordered({ i \in run : i = start \/ ks[i] # ks[i - 1] })
        chapters == [n \in DOMAIN heads |-> ChapterAt(ks, ts, heads[n])]
    IN [slug |-> ks[start].book, first |-> start, next |-> start + Cardinality(run),
        chapters |-> chapters, hash |-> FoldBookHash(chapters)]

BuildLayout(ks, ts) ==
    LET heads == Ordered({ i \in 1 .. Len(ks) : i = 1 \/ ks[i].book # ks[i - 1].book })
    IN [n \in DOMAIN heads |-> BuildBookAt(ks, ts, heads[n])]

ShiftRange(range, by) == [range EXCEPT !.first = @ + by, !.next = @ + by]

ShiftBookRange(book, start) ==      \* mutant: the chapters keep their ranges
    ShiftRange(book, start - book.first)

ShiftBook(book, start) ==
    LET by == start - book.first
    IN [ShiftRange(book, by) EXCEPT !.chapters = [n \in DOMAIN @ |-> ShiftRange(@[n], by)]]

(* Later books re-tile from the end of the one before.                     *)
Retile(books, start) ==
    LET width(b) == b.next - b.first
        before[n \in 0 .. Len(books)] ==
            IF n = 0 THEN start ELSE before[n - 1] + width(books[n])
    IN [n \in DOMAIN books |-> ShiftBook(books[n], before[n - 1])]

(***************************************************************************)
(* Validation.                                                             *)
(***************************************************************************)
Parses(ks) == \A i \in DOMAIN ks : ks[i] # Malformed

NoReopenedBook(ks) ==
    \A i, j \in DOMAIN ks : ks[i].book = ks[j].book /\ i <= j => j \in BookRun(ks, i)

NoReopenedChapter(ks) ==
    \A i, j \in DOMAIN ks : ks[i] = ks[j] /\ i <= j => j \in ChapterRun(ks, i)

(* try_from_parts.                                                         *)
Accepted(ks, ts) ==
    /\ Len(ks) = Len(ts)
    /\ Len(ks) <= MaxVerses
    /\ Parses(ks)
    /\ NoReopenedBook(ks) /\ NoReopenedChapter(ks)
    /\ \A i \in DOMAIN ks : Cardinality(BookRun(ks, i)) <= MaxBook

BlockUnmeasured(block) ==           \* mutant: the lengths not compared
    /\ block.keys # << >>
    /\ Len(block.keys) <= MaxBook
    /\ Parses(block.keys)
    /\ \A i \in DOMAIN block.keys : block.keys[i].book = block.slug
    /\ NoReopenedChapter(block.keys)

(* A block of replace_books.                                               *)
BlockAccepted(block) ==
    /\ Len(block.keys) = Len(block.texts)
    /\ block.keys # << >>
    /\ Len(block.keys) <= MaxBook
    /\ Parses(block.keys)
    /\ \A i \in DOMAIN block.keys : block.keys[i].book = block.slug
    /\ NoReopenedChapter(block.keys)

BatchAccepted(batch) ==
    /\ \A n \in DOMAIN batch : BlockAccepted(batch[n])
    /\ \A m, n \in DOMAIN batch : batch[m].slug = batch[n].slug => m = n

(***************************************************************************)
(* The mutations.  A rejected one changes nothing but its own outcome.     *)
(***************************************************************************)
Refuse(outcome) == effect' = outcome /\ UNCHANGED <<keys, texts, layout>>

(* Galley::replace_corpus of a corpus try_from_parts built.                *)
ReplaceCorpus(held) ==
    IF ~ Accepted(held.keys, held.texts) THEN Refuse("Rejected")
    ELSE IF <<held.keys, held.texts>> = corpus THEN Refuse("Unchanged")
    ELSE /\ keys' = held.keys /\ texts' = held.texts
         /\ layout' = BuildLayout(held.keys, held.texts)
         /\ effect' = "Changed"

SlugsOf(blocks) == { blocks[n].slug : n \in DOMAIN blocks }

Slice(s, b) == SubSeq(s, b.first, b.next - 1)

BookMatchesLength(block) ==         \* mutant: the texts not compared
    \E n \in DOMAIN layout :
        layout[n].slug = block.slug /\ Slice(keys, layout[n]) = block.keys

BookMatches(block) ==
    \E n \in DOMAIN layout :
        /\ layout[n].slug = block.slug
        /\ Slice(keys, layout[n]) = block.keys
        /\ Slice(texts, layout[n]) = block.texts

InPlaceCarried(batch) ==            \* mutant: a replaced book moves to the end
    Selected(layout, { b \in ToSet(layout) : b.slug \notin SlugsOf(batch) })

(* The books that keep their presented position, replaced or carried.      *)
InPlace(batch) == layout

AppendedBackwards(batch) ==         \* mutant: the new books out of their order
    Reverse(Selected(batch, { block \in ToSet(batch) : block.slug \notin SlugsOf(InPlace(batch)) }))

Appended(batch) ==
    Selected(batch, { block \in ToSet(batch) : block.slug \notin SlugsOf(InPlace(batch)) })

Replacement(batch, slug) == batch[CHOOSE n \in DOMAIN batch : batch[n].slug = slug]

(* The new corpus, book by book, each with the layout it carries, if any.  *)
Pieces(batch) ==
    [n \in DOMAIN InPlace(batch) |->
        LET b == InPlace(batch)[n]
        IN IF b.slug \in SlugsOf(batch)
           THEN LET block == Replacement(batch, b.slug)
                IN [keys |-> block.keys, texts |-> block.texts, carried |-> << >>]
           ELSE [keys |-> Slice(keys, b), texts |-> Slice(texts, b), carried |-> <<b>>]]
    \o [n \in DOMAIN Appended(batch) |->
        [keys |-> Appended(batch)[n].keys, texts |-> Appended(batch)[n].texts, carried |-> << >>]]

KeysThrough(pieces, n) == FlattenSeq([m \in 1 .. n |-> pieces[m].keys])

TextsThrough(pieces, n) == FlattenSeq([m \in 1 .. n |-> pieces[m].texts])

(* A replaced or appended book is rebuilt from the verses spliced so far,  *)
(* a carried one is rebased to where they end.                             *)
PieceLayout(pieces, n) ==
    LET cursor == Len(KeysThrough(pieces, n - 1)) + 1
    IN IF pieces[n].carried # << >> THEN ShiftBook(pieces[n].carried[1], cursor)
       ELSE BuildBookAt(KeysThrough(pieces, n), TextsThrough(pieces, n), cursor)

ReplaceBooks(batch) ==
    LET pieces == Pieces(batch)
        size == Len(pieces)
    IN IF ~ BatchAccepted(batch) THEN Refuse("Rejected")
       ELSE IF \A n \in DOMAIN batch : BookMatches(batch[n]) THEN Refuse("Unchanged")
       ELSE IF Len(KeysThrough(pieces, size)) > MaxVerses THEN Refuse("Rejected")
       ELSE /\ keys' = KeysThrough(pieces, size)
            /\ texts' = TextsThrough(pieces, size)
            /\ layout' = [n \in 1 .. size |-> PieceLayout(pieces, n)]
            /\ effect' = "Changed"

(* replace_chapter: one existing run.                                      *)
RunAccepted(block) ==
    /\ Len(block.keys) = Len(block.texts)
    /\ block.keys # << >>
    /\ Parses(block.keys)
    /\ \A i \in DOMAIN block.keys :
          block.keys[i].book = block.slug /\ block.keys[i].chapter = block.chapter

(* The positions (book, chapter) of the run in the layout, at most one.    *)
Located(slug, chapter) ==
    { at \in { <<n, m>> : n \in DOMAIN layout, m \in 1 .. Len(keys) } :
        /\ layout[at[1]].slug = slug
        /\ at[2] \in DOMAIN layout[at[1]].chapters
        /\ layout[at[1]].chapters[at[2]].chapter = chapter }

Splice(s, run, new) == SubSeq(s, 1, run.first - 1) \o new \o SubSeq(s, run.next, Len(s))

AddressableCorpus(book, run, block) ==      \* mutant: the book's ceiling unchecked
    Len(keys) - (run.next - run.first) + Len(block.keys) <= MaxVerses

Addressable(book, run, block) ==
    LET grown == Len(block.keys) - (run.next - run.first)
    IN (book.next - book.first) + grown <= MaxBook /\ Len(keys) + grown <= MaxVerses

SpliceRun(n, run, block) ==
    LET ks == Splice(keys, run, block.keys)
        ts == Splice(texts, run, block.texts)
        rebuilt == BuildBookAt(ks, ts, layout[n].first)
    IN /\ keys' = ks /\ texts' = ts
       /\ layout' = SubSeq(layout, 1, n - 1) \o <<rebuilt>>
                    \o Retile(SubSeq(layout, n + 1, Len(layout)), rebuilt.next)
       /\ effect' = "Changed"

ReplaceChapter(block) ==
    IF ~ RunAccepted(block) \/ Located(block.slug, block.chapter) = {} THEN Refuse("Rejected")
    ELSE \E at \in Located(block.slug, block.chapter) :
            LET book == layout[at[1]]
                run == book.chapters[at[2]]
            IN IF ~ Addressable(book, run, block) THEN Refuse("Rejected")
               ELSE IF run.hash = ContentHash(block.keys, block.texts)
                       /\ Slice(keys, run) = block.keys /\ Slice(texts, run) = block.texts
                    THEN Refuse("Unchanged")
               ELSE SpliceRun(at[1], run, block)

(* remove_book: walks the keys to the block, then drops it.                *)
RemoveBook(slug) ==
    LET held == { i \in DOMAIN keys : keys[i].book = slug }
    IN IF held = {} THEN Refuse("Unchanged")
       ELSE LET start == Nth(held, 1)
                run == [first |-> start, next |-> start + Cardinality(BookRun(keys, start))]
                n == CHOOSE m \in DOMAIN layout : layout[m].slug = slug
            IN /\ keys' = Splice(keys, run, << >>)
               /\ texts' = Splice(texts, run, << >>)
               /\ layout' = SubSeq(layout, 1, n - 1)
                            \o Retile(SubSeq(layout, n + 1, Len(layout)), start)
               /\ effect' = "Changed"

Init == keys = << >> /\ texts = << >> /\ layout = << >> /\ effect = "Unchanged"

Next ==
    \/ \E held \in Corpora : ReplaceCorpus(held)
    \/ \E batch \in Batches : ReplaceBooks(batch)
    \/ \E block \in Runs : ReplaceChapter(block)
    \/ \E slug \in Slugs : RemoveBook(slug)

Spec == Init /\ [][Next]_vars

(***************************************************************************)
(* locate and chapter_range: the two halves of chapter-local addressing.   *)
(***************************************************************************)
LocateInclusive(g) ==               \* mutant: an off-by-one at a run's end
    LET b == layout[1 + Cardinality({ n \in DOMAIN layout : layout[n].next < g })]
        c == b.chapters[1 + Cardinality({ n \in DOMAIN b.chapters : b.chapters[n].next < g })]
    IN [slug |-> b.slug, chapter |-> c.chapter, local |-> g - c.first]

Locate(g) ==
    LET b == layout[1 + Cardinality({ n \in DOMAIN layout : layout[n].next <= g })]
        c == b.chapters[1 + Cardinality({ n \in DOMAIN b.chapters : b.chapters[n].next <= g })]
    IN [slug |-> b.slug, chapter |-> c.chapter, local |-> g - c.first]

ChapterRanges(slug, chapter) ==
    { layout[at[1]].chapters[at[2]] : at \in Located(slug, chapter) }

(***************************************************************************)
(* Properties.                                                             *)
(***************************************************************************)
(* Type invariant.                                                         *)
TypeOK ==
    /\ Len(keys) \in 0 .. MaxVerses /\ Len(texts) = Len(keys)
    /\ \A i \in DOMAIN keys : keys[i].book \in Slugs
    /\ effect \in {"Changed", "Unchanged", "Rejected"}
    /\ \A n \in DOMAIN layout : layout[n].slug \in Slugs /\ layout[n].first < layout[n].next

(* The locally maintained layout, ranges and hashes, is the one a fresh     *)
(* construction from the same verses would derive.                         *)
LayoutIsFresh == layout = BuildLayout(keys, texts)

(* No sequence of accepted mutations leaves a corpus try_from_parts would   *)
(* refuse: no book or chapter reopens, every index stays addressable.       *)
StaysConstructible == Accepted(keys, texts)

(* A verse's chapter-local address leads back to it, through the only run   *)
(* of that name.                                                           *)
LocateInverts ==
    \A g \in DOMAIN keys :
        LET at == Locate(g)
        IN /\ { c.first + at.local : c \in ChapterRanges(at.slug, at.chapter) } = {g}
           /\ \A c \in ChapterRanges(at.slug, at.chapter) : at.local \in 0 .. c.next - c.first - 1

(* MutationEffect: "Changed" is reported exactly when the verses changed, a *)
(* mutation that was refused or proven a no-op moved nothing, and it is     *)
(* only called a no-op when the corpus already held what was asked for.     *)
Verses(ks, ts) == [i \in DOMAIN ks |-> <<ks[i], ts[i]>>]

Holds(block, wanted) ==
    Selected(Verses(keys, texts), wanted \X ToSet(texts)) = Verses(block.keys, block.texts)

BecameUnchanged == effect' = "Unchanged" /\ effect # "Unchanged"

EffectIsHonest ==
    [][/\ effect' = "Changed" <=> corpus' # corpus
       /\ effect' # "Changed" => layout' = layout
       /\ BecameUnchanged => \A batch \in Batches : ReplaceBooks(batch) =>
              \A n \in DOMAIN batch :
                  Holds(batch[n], { key \in ToSet(keys) : key.book = batch[n].slug })
       /\ BecameUnchanged => \A block \in Runs : ReplaceChapter(block) =>
              Holds(block, { [book |-> block.slug, chapter |-> block.chapter] })]_vars

(* Edits never reorder the presented books: whatever stood before another   *)
(* book still does, and what is new comes last, in the order of its batch.  *)
Precedes(books, s, t) ==
    \E m, n \in DOMAIN books : m < n /\ books[m].slug = s /\ books[n].slug = t

PresentedOrderKept ==
    [][\/ \E held \in Corpora : ReplaceCorpus(held)
       \/ /\ \A s, t \in SlugsOf(layout) \cap SlugsOf(layout') :
                Precedes(layout, s, t) => Precedes(layout', s, t)
          /\ \A s \in SlugsOf(layout) \cap SlugsOf(layout'),
                t \in SlugsOf(layout') \ SlugsOf(layout) : Precedes(layout', s, t)
          /\ \A s, t \in SlugsOf(layout') \ SlugsOf(layout), batch \in Batches :
                Precedes(batch, s, t) /\ ReplaceBooks(batch) => Precedes(layout', s, t)]_vars
==============================================================================
