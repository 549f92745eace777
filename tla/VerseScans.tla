------------------------------ MODULE VerseScans ------------------------------
(***************************************************************************)
(* The per-verse rules: twelve scans over the scalars of a verse, each     *)
(* behind a gate.  One pass over the verse raises the bits of a mask, and  *)
(* a scan runs only where the mask has its bit.                            *)
(*                                                                         *)
(* A scalar is [ch, is, system]: what it is of "space", "break" (a line    *)
(* break), "control", "format", "invalid", "mark", "punct", "symbol",      *)
(* "terminal", "digit", "letter" (of ASCII), "ascii" (letter or digit of   *)
(* it), and a digit's numeral system.  A span is a pair of positions.      *)
(***************************************************************************)
EXTENDS Tallies, FiniteSets

IsHWhitespace(s) == "space" \in s.is /\ "break" \notin s.is

IsConflict(s) == s.ch \in {"<", "=", ">", "|"}

(***************************************************************************)
(* The mask.                                                               *)
(***************************************************************************)
VerseStart == {"start"}

NoMask ==
    [ws |-> 0, zwsp |-> 0, q |-> 0, conf |-> 0, conf_ch |-> "", numsys |-> 0,
     prev |-> VerseStart, content |-> FALSE, bits |-> {}]

IsBaseless(prev) == prev \cap {"start", "space", "punct", "symbol"} # {}

ConflictRun(m, s) ==
    IF ~ IsConflict(s) THEN 0 ELSE IF m.conf_ch = s.ch THEN m.conf + 1 ELSE 1

Counts(m, s) ==
    [m EXCEPT !.ws = IF IsHWhitespace(s) THEN @ + 1 ELSE 0,
              !.zwsp = IF s.ch = "zwsp" THEN @ + 1 ELSE 0,
              !.q = IF s.ch = "?" THEN @ + 1 ELSE 0,
              !.conf = ConflictRun(m, s),
              !.conf_ch = IF IsConflict(s) THEN s.ch ELSE ""]

RunBitsLate(m) ==     \* mutant: a run of three question marks is let pass
    { run[1] : run \in { run \in {<<"EXCESS_WS", m.ws, 2>>, <<"ZWSP2", m.zwsp, 2>>,
                                  <<"QRUN", m.q, 4>>, <<"CONFLICT3", m.conf, 3>>} : run[2] >= run[3] } }

RunBits(m) ==
    { run[1] : run \in { run \in {<<"EXCESS_WS", m.ws, 2>>, <<"ZWSP2", m.zwsp, 2>>,
                                  <<"QRUN", m.q, 3>>, <<"CONFLICT3", m.conf, 3>>} : run[2] >= run[3] } }

FamilyBits(s) ==
    { family[2] : family \in { family \in {<<"control", "CONTROL">>, <<"format", "ZW_FORMAT">>,
                                           <<"invalid", "INVALID">>} : family[1] \in s.is } }

ScalarBits(m, s) ==
    (IF s.ch = "tab" THEN {"TAB"} ELSE {})
    \cup (IF s.ch \in {"\\", "<"} THEN {"BACKSLASH_OR_LT"} ELSE {})
    \cup (IF "mark" \in s.is /\ IsBaseless(m.prev) THEN {"MARK_BASELESS"} ELSE {})
    \cup (IF "digit" \in s.is /\ m.numsys \notin {0, s.system} THEN {"MULTI_NUMSYS"} ELSE {})

(* One scalar of the pass.                                                 *)
Marked(m, s) ==
    Only({ [counted EXCEPT !.bits = @ \cup RunBits(counted) \cup ScalarBits(m, s) \cup FamilyBits(s),
                           !.numsys = IF "digit" \in s.is /\ @ = 0 THEN s.system ELSE @,
                           !.content = @ \/ "space" \notin s.is,
                           !.prev = s.is] : counted \in {Counts(m, s)} })

BuildMasked(text) ==
    LET m[n \in 0 .. Len(text)] ==
            IF n = 0 THEN NoMask ELSE Only({ Marked(before, text[n]) : before \in {m[n - 1]} })
        ended == m[Len(text)] IN
    ended.bits \cup (IF ended.content THEN {} ELSE {"NO_CONTENT"})

(***************************************************************************)
(* The scans.                                                              *)
(***************************************************************************)
RunsOver(S) ==
    { r \in S \X S : r[1] <= r[2] /\ r[1] .. r[2] \subseteq S
                     /\ r[1] - 1 \notin S /\ r[2] + 1 \notin S }

AtLeast(runs, n) == { r \in runs : r[2] - r[1] + 1 >= n }

Of(text, what) == { i \in DOMAIN text : what \in text[i].is }

Written(text, chs) == { i \in DOMAIN text : text[i].ch \in chs }

(* Maximal runs of one and the same scalar.                                *)
SameRuns(text, S) == UNION { RunsOver(S \cap Written(text, {ch})) : ch \in { text[i].ch : i \in S } }

Single(S) == { <<i, i>> : i \in S }

(* Behind content that does not end a sentence.                            *)
FollowsContent(text, run) ==
    LET content == { k \in 1 .. run[1] - 1 :
                        ~ IsHWhitespace(text[k]) /\ text[k].ch \notin {"lf", "cr"} } IN
    content # {} /\ "terminal" \notin text[Max(content)].is

ExcessHWhitespace(text) ==
    { run \in AtLeast(RunsOver({ i \in DOMAIN text : IsHWhitespace(text[i]) }), 2) :
        FollowsContent(text, run) }

ControlChars(text) == SameRuns(text, Of(text, "control") \ Written(text, {"tab", "lf"}))

ZeroWidthMisuse(text) == Single(Of(text, "format") \ Written(text, {"zwsp", "zwnj", "zwj"}))

EmptyVerse(text) == IF Of(text, "space") = DOMAIN text THEN {<<1, Len(text)>>} ELSE {}

BaselessMarks(text) ==
    Single({ i \in Of(text, "mark") : IsBaseless(IF i = 1 THEN VerseStart ELSE text[i - 1].is) })

InSystem(text, system) == { i \in Of(text, "digit") : text[i].system = system }

(* The most digits; of two, the lower zero.                                *)
MajorityOf(text, systems) ==
    CHOOSE s \in systems : \A t \in systems \ {s} :
        \/ Cardinality(InSystem(text, t)) < Cardinality(InSystem(text, s))
        \/ Cardinality(InSystem(text, t)) = Cardinality(InSystem(text, s)) /\ s < t

MixedNumerals(text) ==
    LET systems == { text[i].system : i \in Of(text, "digit") } IN
    IF Cardinality(systems) < 2 THEN {}
    ELSE RunsOver(Of(text, "digit") \ InSystem(text, MajorityOf(text, systems)))

(* The position before the first from i on that is not in S.               *)
Through(S, i) == Min({ k \in i - 1 .. Max(S \cup {i - 1}) : k + 1 \notin S })

(* A marker: a backslash, a plus, letters and digits, a star.              *)
MarkerEnd(text, i) ==
    LET name == IF i + 1 \in Written(text, {"+"}) THEN i + 2 ELSE i + 1
        end == Through(Of(text, "ascii"), name) IN
    IF end + 1 \in Written(text, {"*"}) THEN end + 1 ELSE end

(* A tag begins with a letter and is closed in the verse; 0 is no tag.     *)
TagEnd(text, i) ==
    LET name == IF i + 1 \in Written(text, {"/"}) THEN i + 2 ELSE i + 1
        closers == { k \in Written(text, {">"}) : k > name } IN
    IF name \in Of(text, "letter") /\ closers # {} THEN Min(closers) ELSE 0

SourceMarkers(text) ==
    LET from[i \in 1 .. Len(text) + 1] ==
            IF i > Len(text) THEN {}
            ELSE IF text[i].ch = "\\"
                 THEN {<<i, MarkerEnd(text, i)>>} \cup from[MarkerEnd(text, i) + 1]
            ELSE IF text[i].ch = "<" /\ TagEnd(text, i) # 0
                 THEN {<<i, TagEnd(text, i)>>} \cup from[TagEnd(text, i) + 1]
            ELSE from[i + 1]
    IN from[1]

(***************************************************************************)
(* The registry: each rule's gate and what its check returns.              *)
(***************************************************************************)
GateOf ==
    [ExcessHWhitespace |-> "EXCESS_WS", TabInBody |-> "TAB", ControlChars |-> "CONTROL",
     ZeroWidthMisuse |-> "ZW_FORMAT", EmptyVerse |-> "NO_CONTENT", InvalidCodepoint |-> "INVALID",
     ReplacementRun |-> "QRUN", CombiningMarkWithoutBase |-> "MARK_BASELESS",
     MixedNumeralSystems |-> "MULTI_NUMSYS", RedundantZeroWidthSpace |-> "ZWSP2",
     SourceMarkerLeftover |-> "BACKSLASH_OR_LT", MergeConflictMarker |-> "CONFLICT3"]

Check(r, text) ==
    CASE r = "ExcessHWhitespace" -> ExcessHWhitespace(text)
      [] r = "TabInBody" -> Single(Written(text, {"tab"}))
      [] r = "ControlChars" -> ControlChars(text)
      [] r = "ZeroWidthMisuse" -> ZeroWidthMisuse(text)
      [] r = "EmptyVerse" -> EmptyVerse(text)
      [] r = "InvalidCodepoint" -> Single(Of(text, "invalid"))
      [] r = "ReplacementRun" -> AtLeast(RunsOver(Written(text, {"?"})), 3)
      [] r = "CombiningMarkWithoutBase" -> BaselessMarks(text)
      [] r = "MixedNumeralSystems" -> MixedNumerals(text)
      [] r = "RedundantZeroWidthSpace" -> AtLeast(RunsOver(Written(text, {"zwsp"})), 2)
      [] r = "SourceMarkerLeftover" -> SourceMarkers(text)
      [] r = "MergeConflictMarker" ->
            AtLeast(SameRuns(text, { i \in DOMAIN text : IsConflict(text[i]) }), 3)

Reported(rules, text) == UNION { {r} \X Check(r, text) : r \in rules }

(* chapter_verse_records, for a verse: the rules whose gate its mask opens. *)
VerseRecords(text) ==
    LET bits == BuildMasked(text) IN
    Reported({ r \in DOMAIN GateOf : GateOf[r] \in bits }, text)
==============================================================================
