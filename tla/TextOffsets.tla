----------------------------- MODULE TextOffsets -----------------------------
(***************************************************************************)
(* normalization.py and the dictionary's search in a normalised text: what *)
(* is found there must be replaced in the original, whose characters are   *)
(* not one for one those of the normalised text.                           *)
(*                                                                         *)
(* A text is a sequence of code points.  One stands for each way in which  *)
(* lengths change: a ligature that becomes two characters, a mark that     *)
(* joins the letter before it, a letter that has two in lower case.        *)
(* Positions count from 1; a span has the positions start .. end-1.        *)
(***************************************************************************)
EXTENDS Integers, Sequences, SequencesExt, FiniteSetsExt

Letters == {"a", "A", "b"}
Ligature == "ab"    \* is <<"a", "b">> in NFKC
Mark == "^"         \* combining: after "a" it makes the letter "â"
Sharp == "ss"       \* is <<"s", "s">> when casefolded

CodePoints == Letters \cup {Ligature, Mark, Sharp}

\* unicodedata.normalize of a character with the marks that follow it
NFKC(chunk) ==
    LET base == IF Head(chunk) = Ligature THEN <<"a", "b">> ELSE <<Head(chunk)>>
    IN  IF Len(chunk) > 1 /\ Last(base) = "a" THEN Front(base) \o <<"a^">> \o Tail(Tail(chunk))
        ELSE base \o Tail(chunk)

Casefold(c) ==
    CASE c = "A" -> <<"a">>
      [] c = Sharp -> <<"s", "s">>
      [] OTHER -> <<c>>

\* Where chunks begin: marks belong to what is before them.
ChunkStarts(text) == {i \in DOMAIN text : i = 1 \/ text[i] # Mark}

ChunkEnd(text, i) == Min({j \in ChunkStarts(text) : j > i} \cup {Len(text) + 1})

\* normalize: each character with the chunk it is made of, _src and _end
Normalize(text) ==
    FlattenSeq([i \in DOMAIN text |->
        LET end == ChunkEnd(text, i)
            made == IF i \in ChunkStarts(text) THEN NFKC(SubSeq(text, i, end - 1)) ELSE <<>>
        IN  [k \in DOMAIN made |-> [char |-> made[k], start |-> i, end |-> end]]])

NormalizedChars(norm) == [k \in DOMAIN norm |-> norm[k].char]

\* to_original_span; a span past the text is an error.
Beyond == [start |-> 0, end |-> 0]

\* The last character's own place, without the marks that belong to it
ToSpanWithoutMarks(norm, start, end) ==
    IF end - 1 > Len(norm) THEN Beyond
    ELSE [start |-> norm[start].start, end |-> norm[end - 1].start + 1]

ToOriginalSpan(norm, start, end) ==
    IF end - 1 > Len(norm) THEN Beyond
    ELSE [start |-> norm[start].start, end |-> norm[end - 1].end]

\* str.find, again and again
Occurrences(needle, hay) ==
    {k \in DOMAIN hay : IsPrefix(needle, SubSeq(hay, k, Len(hay)))}

FoldAll(chars) == FlattenSeq([k \in DOMAIN chars |-> Casefold(chars[k])])

\* DictionaryDetector.detect of one term
DictionaryHits(text, term, caseSensitive) ==
    LET norm == Normalize(text)
        hay == IF caseSensitive THEN NormalizedChars(norm) ELSE FoldAll(NormalizedChars(norm))
        needle == IF caseSensitive THEN term ELSE FoldAll(term)
    IN  {ToOriginalSpan(norm, k, k + Len(needle)) : k \in Occurrences(needle, hay)}

-----------------------------------------------------------------------------
(* What offsets must be.                                                   *)

Within(text, span) == 1 <= span.start /\ span.start < span.end /\ span.end <= Len(text) + 1

\* A part of the original that reads as the term by itself.
Reads(text, span, term, caseSensitive) ==
    LET chars == NormalizedChars(Normalize(SubSeq(text, span.start, span.end - 1)))
    IN  IF caseSensitive THEN chars = term ELSE FoldAll(chars) = FoldAll(term)

\* Whole chunks: to_original_span "rounds outward", so no character is covered in part.
WholeChunks(text, span) ==
    {span.start, span.end} \subseteq ChunkStarts(text) \cup {Len(text) + 1}

\* No character of the text changes its length in lower case.
FoldsOneToOne(text) == Sharp \notin Range(text)

\* Each hit is in the text, of whole characters, and has the term in it; each part of the
\* text that reads as the term lies in one.
OffsetsRight(text, term, caseSensitive, hits) ==
    LET spans == {[start |-> i, end |-> j] : i, j \in 1..(Len(text) + 1)}
    IN  /\ \A h \in hits : Within(text, h) /\ WholeChunks(text, h)
        /\ \A h \in hits :
              LET chars == NormalizedChars(Normalize(SubSeq(text, h.start, h.end - 1)))
              IN  IF caseSensitive THEN Occurrences(term, chars) # {}
                  ELSE Occurrences(FoldAll(term), FoldAll(chars)) # {}
        /\ \A s \in spans :
              Within(text, s) /\ WholeChunks(text, s) /\ Reads(text, s, term, caseSensitive)
                  => \E h \in hits : h.start <= s.start /\ s.end <= h.end
=============================================================================
