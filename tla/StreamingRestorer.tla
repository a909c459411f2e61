------------------------- MODULE StreamingRestorer --------------------------
(***************************************************************************)
(* StreamingRestorer: puts originals back into a text that arrives in      *)
(* pieces.  Each piece is appended to a buffer; the longest end of the     *)
(* buffer that may still grow into an alias is held back and the rest is   *)
(* searched for complete aliases and emitted.                              *)
(*                                                                         *)
(* A text is a sequence of characters.  An original is one symbol of its   *)
(* own in the output, named like its alias: what was restored and what     *)
(* passed through stay apart.                                              *)
(***************************************************************************)
EXTENDS Integers, Sequences, FiniteSets, SequencesExt, FiniteSetsExt

CONSTANTS
    Chars,          \* the characters of the stream
    Aliases,        \* names of aliases
    Vocabularies,   \* spellings: functions from some aliases to texts
    MaxText,        \* bound: characters of a stream
    MaxChunk        \* bound: characters of a piece

ASSUME RestorerAssumption ==
    /\ Chars \cap Aliases = {}
    /\ \A v \in Vocabularies :
          /\ DOMAIN v \subseteq Aliases /\ IsFiniteSet(DOMAIN v)
          /\ \A a \in DOMAIN v : v[a] \in Seq(Chars) \ {<<>>}
          /\ \A a, b \in DOMAIN v : v[a] = v[b] => a = b

VARIABLES
    spelling,   \* _replacements
    buffer,     \* _buffer
    emitted,    \* everything returned so far
    received,   \* everything fed so far
    ended       \* flush() was called

vars == <<spelling, buffer, emitted, received, ended>>

-----------------------------------------------------------------------------
(* The regular expression: leftmost match, the longest alias first.        *)

MatchesAt(v, text, i) ==
    {a \in DOMAIN v : IsPrefix(v[a], SubSeq(text, i, Len(text)))}

LongestAt(v, text, i) ==
    CHOOSE a \in MatchesAt(v, text, i) : \A b \in MatchesAt(v, text, i) : Len(v[a]) >= Len(v[b])

\* _rx.sub(_sub, text)
Restore(v, text) ==
    LET from[i \in 1..(Len(text) + 1)] ==
            IF i > Len(text) THEN <<>>
            ELSE IF MatchesAt(v, text, i) = {} THEN <<text[i]>> \o from[i + 1]
            ELSE LET a == LongestAt(v, text, i) IN <<a>> \o from[i + Len(v[a])]
    IN  from[1]

-----------------------------------------------------------------------------
(* The held back suffix.                                                   *)

LastOf(text, k) == SubSeq(text, Len(text) - k + 1, Len(text))

MaxAliasLen(v) == Max({0} \cup {Len(v[a]) : a \in DOMAIN v})

MayGrow(v, suffix) == \E a \in DOMAIN v : IsPrefix(suffix, v[a])

SuffixPrefixLen(v, text) ==
    LET limit == Min({MaxAliasLen(v) - 1, Len(text)})
    IN  Max({0} \cup {k \in 1..limit : MayGrow(v, LastOf(text, k))})

-----------------------------------------------------------------------------
\* StreamingRestorer(v)
InitWith(v) ==
    /\ spelling = v
    /\ buffer = <<>>
    /\ emitted = <<>>
    /\ received = <<>>
    /\ ended = FALSE

Init == \E v \in Vocabularies : InitWith(v)

\* With no alias the expression is None and a piece passes through.
Feed(chunk) ==
    LET text == buffer \o chunk
        cut == Len(text) - SuffixPrefixLen(spelling, text)
    IN  /\ ~ ended
        /\ received' = received \o chunk
        /\ IF DOMAIN spelling = {}
           THEN emitted' = emitted \o chunk /\ UNCHANGED buffer
           ELSE /\ emitted' = emitted \o Restore(spelling, SubSeq(text, 1, cut))
                /\ buffer' = SubSeq(text, cut + 1, Len(text))
        /\ UNCHANGED <<spelling, ended>>

FlushRaw ==
    /\ ~ ended
    /\ emitted' = emitted \o buffer
    /\ buffer' = <<>>
    /\ ended' = TRUE
    /\ UNCHANGED <<spelling, received>>

Flush ==
    /\ ~ ended
    /\ emitted' = emitted \o Restore(spelling, buffer)
    /\ buffer' = <<>>
    /\ ended' = TRUE
    /\ UNCHANGED <<spelling, received>>

Chunks == UNION {[1..n -> Chars] : n \in 1..MaxChunk}

Next ==
    \/ \E chunk \in Chunks : Len(received) + Len(chunk) <= MaxText /\ Feed(chunk)
    \/ Flush

Spec == Init /\ [][Next]_vars

-----------------------------------------------------------------------------
(* Properties.                                                             *)

\* However a text was cut into pieces, the client sees what one restoration of the
\* whole text would have shown.  text_replacer.py:6 says so of every vocabulary.
SplitInvisible == ended => emitted = Restore(spelling, received)

\* No alias ends as one begins.
Apart(v) ==
    \A a, b \in DOMAIN v : \A k \in 1..(Len(v[a]) - 1) : ~ IsPrefix(LastOf(v[a], k), v[b])

\* It is so at least when no suffix of a complete alias can be held back as the start of
\* another, prefixes and aliases inside of aliases included.
SplitInvisibleIfApart == Apart(spelling) => SplitInvisible
=============================================================================
