--------------------------- MODULE ContextSegments ---------------------------
(***************************************************************************)
(* context/segmenter.py and the engine's use of it: a text is cut into     *)
(* prose and code-like segments, those a model may see are joined into one *)
(* text, and what it finds there is put back where it was.                 *)
(*                                                                         *)
(* A text is its length; a match of a regular expression is a span.  A     *)
(* span has the positions start .. end-1.                                  *)
(***************************************************************************)
EXTENDS Integers, Sequences, SequencesExt, FiniteSetsExt

CONSTANTS
    MaxClaims,      \* MAX_CLAIMS
    MaxSegments,    \* MAX_SEGMENTS
    Gap             \* length of _FUZZY_JOIN

Touches(a, b) == a.start < b.end /\ b.start < a.end

\* By start, and of two that start together the one that was claimed first.
ByStart(claims) ==
    LET earlier(i, j) == \/ claims[i].start < claims[j].start
                         \/ claims[i].start = claims[j].start /\ i < j
    IN  [n \in DOMAIN claims |->
            claims[CHOOSE i \in DOMAIN claims :
                      Cardinality({j \in DOMAIN claims : earlier(j, i)}) = n - 1]]

\* _resolve_claims comparing with the last claim, kept or not.
ResolveClaimsToLast(claims) ==
    FoldLeft(LAMBDA acc, c :
                 [kept |-> IF c.start >= acc.end THEN Append(acc.kept, c) ELSE acc.kept,
                  end |-> c.end],
             [kept |-> <<>>, end |-> 0], ByStart(claims)).kept

\* _resolve_claims: a claim is kept if it starts where the last kept one has ended.
ResolveClaims(claims) ==
    FoldLeft(LAMBDA kept, c :
                 IF kept = <<>> \/ c.start >= Last(kept).end THEN Append(kept, c) ELSE kept,
             <<>>, ByStart(claims))

\* What the other expressions match counts only outside of fences.
OutsideFence(fenced, match) == \A i \in DOMAIN fenced : ~ Touches(fenced[i], match)

\* The claims in the order of precedence: fences first.
Claims(fences, matches) ==
    LET fenced == ResolveClaims(fences) IN
    FoldLeft(LAMBDA claims, c :
                 IF c.end > c.start /\ OutsideFence(fenced, c) THEN Append(claims, c) ELSE claims,
             fences, matches)

\* The segments of one claim, with the prose before it.
SegmentsOf(cursor, c) ==
    IF c.start > cursor
    THEN <<[start |-> cursor, end |-> c.start, kind |-> "prose"], c>>
    ELSE <<c>>

End(segments) == IF segments = <<>> THEN 0 ELSE Last(segments).end

\* The first max_segments; the claims behind them are part of the prose that follows.
Emit(kept) ==
    FoldLeft(LAMBDA acc, c :
                 IF acc.full \/ Len(acc.out) + 2 > MaxSegments - 1
                 THEN [acc EXCEPT !.full = TRUE]
                 ELSE [acc EXCEPT !.out = @ \o SegmentsOf(End(@), c)],
             [out |-> <<>>, full |-> FALSE], kept).out

\* segment(); a text with too many claims is refused.
TooManyClaims(fences, matches) ==
    /\ Len(Claims(fences, matches)) > MaxClaims
    /\ Len(Claims(fences, matches)) > Len(fences)

Segments(length, fences, matches) ==
    LET out == Emit(ResolveClaims(Claims(fences, matches)))
    IN  IF End(out) < length
        THEN Append(out, [start |-> End(out), end |-> length, kind |-> "prose"])
        ELSE out

\* coalesce_for_detection
Coalesce(segments) ==
    FoldLeft(LAMBDA merged, s :
                 IF merged # <<>> /\ Last(merged).kind = s.kind /\ Last(merged).end = s.start
                 THEN [merged EXCEPT ![Len(merged)].end = s.end]
                 ELSE Append(merged, s),
             <<>>, segments)

\* is_code_like
IsCodeLike(kind) == kind # "prose"

-----------------------------------------------------------------------------
(* _detect_joined and _map_to_segments.                                    *)

\* The segments a detector sees.
Eligible(segments, skipsCode) ==
    FoldLeft(LAMBDA eligible, s :
                 IF skipsCode /\ IsCodeLike(s.kind) THEN eligible ELSE Append(eligible, s),
             <<>>, segments)

\* The segments put one after the other, with a gap between two.
Join(segments) ==
    LET at[i \in 1..Len(segments)] ==
            IF i = 1 THEN 0
            ELSE at[i - 1] + segments[i - 1].end - segments[i - 1].start + Gap
    IN  [i \in DOMAIN segments |->
            [start |-> at[i], end |-> at[i] + segments[i].end - segments[i].start,
             origin |-> segments[i].start]]

JoinedLength(joined) == IF joined = <<>> THEN 0 ELSE Last(joined).end

\* A finding is cut where it leaves a segment, and moved.
MapToSegments(finding, joined) ==
    {[start |-> Max({finding.start, s.start}) - s.start + s.origin,
      end |-> Min({finding.end, s.end}) - s.start + s.origin] :
        s \in {t \in Range(joined) : Touches(finding, t)}}

-----------------------------------------------------------------------------
(* What segments must be.                                                  *)

Positions(span) == span.start..(span.end - 1)

\* Every position of the text is in one segment, and no segment is empty.
Tiles(length, segments) ==
    /\ \A i \in DOMAIN segments : Positions(segments[i]) # {}
    /\ \A p \in 0..(length - 1) :
          Cardinality({i \in DOMAIN segments : p \in Positions(segments[i])}) = 1

SameKinds(segments, others) ==
    \A i \in DOMAIN segments, j \in DOMAIN others :
        Touches(segments[i], others[j]) => segments[i].kind = others[j].kind

\* The position of the text that a position of the joined one stands for; gaps have none.
Sources(joined, p) ==
    {p - joined[i].start + joined[i].origin : i \in {j \in DOMAIN joined : p \in Positions(joined[j])}}

\* What is masked is what was found, no more and no less.
MapsBack(finding, joined) ==
    UNION {Positions(m) : m \in MapToSegments(finding, joined)}
        = UNION {Sources(joined, p) : p \in Positions(finding)}

\* Segments tile the text before and after neighbours of one kind are joined, and what a
\* model finds in the joined text is masked exactly where it is.
SegmentationSound(length, segments) ==
    LET coalesced == Coalesce(segments) IN
    /\ Tiles(length, segments)
    /\ Tiles(length, coalesced)
    /\ SameKinds(segments, coalesced)
    /\ \A skipsCode \in BOOLEAN :
          LET joined == Join(Eligible(coalesced, skipsCode)) IN
          \A i, j \in 0..JoinedLength(joined) :
              i < j => MapsBack([start |-> i, end |-> j], joined)
=============================================================================
