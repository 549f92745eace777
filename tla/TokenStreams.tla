----------------------------- MODULE TokenStreams -----------------------------
(***************************************************************************)
(* A chapter's tokens as its participants share them: one byte a token,    *)
(* the gap from the token before in its upper bits and the length in its   *)
(* lower ones; zero escapes a token that does not fit, whose start and     *)
(* length follow.  A word of four bytes is one element here.               *)
(***************************************************************************)
EXTENDS Tallies, FiniteSets

CONSTANTS MaxPackedGap, MaxPackedLen

Escape == 0

LenOf(t) == t[2] - t[1] + 1

(* The gap from the position at which the token before ended.              *)
EncodedFrom(t, prev_end) ==
    LET gap == t[1] - prev_end - 1 IN
    IF gap <= MaxPackedGap /\ LenOf(t) \in 1 .. MaxPackedLen
    THEN <<gap * (MaxPackedLen + 1) + LenOf(t)>>
    ELSE <<Escape, t[1], LenOf(t)>>

PrevEnd(tokens, n) == IF n = 1 THEN 0 ELSE tokens[n - 1][2]

EncodedVerse(tokens) ==
    FlattenSeq([n \in DOMAIN tokens |-> EncodedFrom(tokens[n], PrevEnd(tokens, n))])

(* One run of bytes, and where each verse's part of it ends.               *)
BuildStreams(verses) ==
    [bytes |-> FlattenSeq([v \in DOMAIN verses |-> EncodedVerse(verses[v])]),
     ends |-> [v \in DOMAIN verses |->
                  TotalOf([w \in 1 .. v |-> Len(EncodedVerse(verses[w]))])]]

StreamStart(streams, v) == IF v = 1 THEN 0 ELSE streams.ends[v - 1]

IsEscape(bytes, at) == bytes[at + 1] = Escape

DecodedToken(bytes, at, prev_end) ==
    LET byte == bytes[at + 1]
        start == IF IsEscape(bytes, at) THEN bytes[at + 2]
                 ELSE prev_end + 1 + byte \div (MaxPackedLen + 1)
        len == IF IsEscape(bytes, at) THEN bytes[at + 3] ELSE byte % (MaxPackedLen + 1) IN
    <<start, start + len - 1>>

NextAt(bytes, at) == IF IsEscape(bytes, at) THEN at + 3 ELSE at + 1

DecodedKeepingEnd(r, bytes) ==      \* mutant: an escaped token leaves the end where it was
    Only({ [at |-> NextAt(bytes, r.at),
            prev_end |-> IF IsEscape(bytes, r.at) THEN r.prev_end ELSE t[2],
            out |-> Append(r.out, t)] :
            t \in {DecodedToken(bytes, r.at, r.prev_end)} })

Decoded(r, bytes) ==
    Only({ [at |-> NextAt(bytes, r.at), prev_end |-> t[2], out |-> Append(r.out, t)] :
            t \in {DecodedToken(bytes, r.at, r.prev_end)} })

(* A verse's tokens, read back.                                            *)
StreamedVerse(streams, v) ==
    LET end == streams.ends[v]
        from == [at |-> StreamStart(streams, v), prev_end |-> 0, out |-> <<>>]
        walk[n \in 0 .. end] ==
            IF n = 0 THEN from
            ELSE Only({ IF r.at < end THEN Decoded(r, streams.bytes) ELSE r : r \in {walk[n - 1]} })
    IN walk[end].out
==============================================================================
