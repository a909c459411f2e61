---------------------------- MODULE MaskingEngine ----------------------------
(***************************************************************************)
(* MaskingEngine.detect, mask_text, the guard behind it and the restorer,  *)
(* over the texts of one session.  Registered words are found in every     *)
(* segment by itself; a model reads the segments it may see as one text    *)
(* and finds what it likes; issued aliases are recognised.  The other      *)
(* detectors, and the guard's other scanners, are not here.                *)
(*                                                                         *)
(* A text is a sequence of symbols.  An alias takes two: a character that  *)
(* all begin with, as SM_ORG_7F3A91 does, and one made of the original it  *)
(* stands for, which nothing else has by chance.  Positions count from 0.  *)
(***************************************************************************)
EXTENDS ContextSegments

CONSTANTS
    Chars,          \* the characters of texts
    LowerCase,      \* of the characters that are not in lower case
    Stem,           \* the character that aliases begin with
    Words,          \* the registered secrets: sequences of characters
    WordPolicy,     \* restore_policy of each
    MaxText,        \* bound: symbols of a text
    MaxSegmented,   \* bound: symbols of a text that is cut into segments
    MaxTexts        \* bound: texts of the session

P == INSTANCE PolicyResolution

VARIABLES
    segment_contexts,       \* _segment_contexts
    skip_code_contexts,     \* of the model
    case_sensitive,         \* the words registered so
    mappings,               \* mappings_by_alias: original and policy of each alias
    seen,                   \* texts so far
    text,                   \* the last text
    result,                 \* what became of it: "none", "masked",
                            \* or "blocked", "leak", "guarded" by which check
    masked, detected        \* masked_text and detections of a MaskResult

settings == <<segment_contexts, skip_code_contexts, case_sensitive>>
vars == <<settings, mappings, seen, text, result, masked, detected>>

Issued == DOMAIN mappings

Init ==
    /\ segment_contexts \in BOOLEAN
    /\ skip_code_contexts \in BOOLEAN
    /\ case_sensitive \in SUBSET Words
    /\ mappings = <<>>
    /\ seen = 0
    /\ text = <<>>
    /\ result = "none"
    /\ masked = <<>>
    /\ detected = {}

-----------------------------------------------------------------------------
(* Detection.                                                              *)

Finding(type, policy, priority, start, end) ==
    [type |-> type, policy |-> policy, priority |-> priority, start |-> start, end |-> end,
     score |-> 1]

Part(t, span) == SubSeq(t, span.start + 1, span.end)

\* casefold
Folded(t) ==
    [i \in DOMAIN t |-> IF t[i] \in DOMAIN LowerCase THEN LowerCase[t[i]] ELSE t[i]]

\* An issued alias ends here.
IsAlias(t, i) == i \in 2..Len(t) /\ t[i - 1] = Stem /\ t[i] \in Issued

\* ExistingAliasDetector: the exact set that was issued, whatever its shape
AliasFindings(t) ==
    {Finding("existing_alias", P!Literal, 300, i - 2, i) : i \in {k \in DOMAIN t : IsAlias(t, k)}}

\* A word as it was registered
StandsIn(t, word, i) ==
    IF word \in case_sensitive THEN IsPrefix(word, SubSeq(t, i + 1, Len(t)))
    ELSE IsPrefix(Folded(word), SubSeq(Folded(t), i + 1, Len(t)))

\* Every occurrence but one at the end of the text
WordFindingsBeforeEnd(t) ==
    {Finding("name", WordPolicy[at[1]], 200, at[2], at[2] + Len(at[1])) :
        at \in {a \in Words \X (0..Len(t)) :
                   StandsIn(t, a[1], a[2]) /\ a[2] + Len(a[1]) # Len(t)}}

\* DictionaryDetector: every occurrence
WordFindings(t) ==
    {Finding("name", WordPolicy[at[1]], 200, at[2], at[2] + Len(at[1])) :
        at \in {a \in Words \X (0..Len(t)) : StandsIn(t, a[1], a[2])}}

Spans(length) == {s \in [start : 0..length, end : 0..length] : s.start < s.end}

\* What a model may report: any one span or nothing, with the lowest priority
ModelReports(length) ==
    {{}} \cup {{Finding("name", P!Literal, 90, s.start, s.end)} : s \in Spans(length)}

Resolve(findings) == P!Resolve(SetToSeq(findings))

\* _detect_one over a whole text
DetectOne(t, report) == Resolve(AliasFindings(t) \cup WordFindings(t) \cup report)

\* _detect_segmented: every segment by itself
DetectEach(t, segments) ==
    UNION {{[d EXCEPT !.start = @ + s.start, !.end = @ + s.start] :
               d \in DetectOne(Part(t, s), {})} : s \in Range(segments)}

\* _detect_joined: what the model found in the joined ones, where no alias is looked for
DetectJoined(joined, report) ==
    UNION {{[d EXCEPT !.start = m.start, !.end = m.end] : m \in MapToSegments(d, joined)} :
              d \in Resolve(report)}

\* A code-like segment somewhere, or none; an alias is all in one segment.
CodeClaims(t) ==
    {<<>>} \cup
    {<<[start |-> s.start, end |-> s.end, kind |-> "code"]>> :
        s \in {c \in Spans(Len(t)) : ~ IsAlias(t, c.start + 1) /\ ~ IsAlias(t, c.end + 1)}}

\* All that detect() may return
Detections(t) ==
    IF segment_contexts
    THEN UNION {
            LET segments == Coalesce(Segments(Len(t), <<>>, claims))
                joined == Join(Eligible(segments, skip_code_contexts))
                each == DetectEach(t, segments)
            IN  {Resolve(each \cup DetectJoined(joined, report)) :
                    report \in ModelReports(JoinedLength(joined))} : claims \in CodeClaims(t)}
    ELSE {DetectOne(t, report) : report \in ModelReports(Len(t))}

-----------------------------------------------------------------------------
(* mask_text.                                                              *)

\* One alias for all surface forms
AliasOfAnyCase(original) == <<"alias", Folded(original)>>

\* alias_for, of what a fingerprint tells apart
AliasOf(original) == <<"alias", original>>
Mark == <<"redacted">>      \* REDACTION_MARK

Replacement(t, d) ==
    IF d.policy = P!Redacted THEN <<Mark>> ELSE <<Stem, AliasOf(Part(t, d))>>

\* get_or_create_alias of each finding: a known original keeps its mapping.
Allocate(t, resolved) ==
    LET new == {d \in resolved : d.policy # P!Redacted /\ AliasOf(Part(t, d)) \notin Issued}
    IN  [a \in Issued \cup {AliasOf(Part(t, d)) : d \in new} |->
            IF a \in Issued THEN mappings[a]
            ELSE [original |-> a[2],
                  policy |-> (CHOOSE d \in new : /\ AliasOf(Part(t, d)) = a
                                                 /\ \A e \in new : AliasOf(Part(t, e)) = a
                                                        => d.start <= e.start).policy]]

\* complete(): a copy of an original between two findings, be it in an issued alias
IsCopy(t, resolved, d, i) ==
    /\ IsPrefix(Part(t, d), SubSeq(t, i + 1, Len(t)))
    /\ \A e \in resolved : e.start \notin i..(i + d.end - d.start - 1)

\* What is replaced at a position: a finding or, of the copies there, the longest one, as
\* the first that was found of it
Replaced(t, resolved, i) ==
    LET findings == {d \in resolved : d.start = i}
        copies == {d \in resolved : IsCopy(t, resolved, d, i)}
        longest == {d \in copies : \A e \in copies : d.end - d.start >= e.end - e.start}
    IN  IF findings # {} THEN findings
        ELSE {d \in longest : \A e \in longest : d.start <= e.start}

\* _apply_replacements, from left to right
ApplyReplacements(t, resolved) ==
    LET from[i \in 0..Len(t)] ==
            IF i = Len(t) THEN <<>>
            ELSE IF Replaced(t, resolved, i) = {} THEN <<t[i + 1]>> \o from[i + 1]
            ELSE LET d == CHOOSE d \in Replaced(t, resolved, i) : TRUE
                 IN  Replacement(t, d) \o from[i + d.end - d.start]
    IN  from[0]

HasPart(t, part) == \E i \in DOMAIN t : IsPrefix(part, SubSeq(t, i, Len(t)))

\* _verify_no_leak: no original is left beside the replacements.
Leaks(t, resolved, out) ==
    LET replacements == {Replacement(t, d) : d \in resolved}
        inside(i) == \E part \in replacements, k \in 0..1 :
                        i > k /\ k < Len(part) /\ IsPrefix(part, SubSeq(out, i - k, Len(out)))
        inspected == FlattenSeq([i \in DOMAIN out |-> IF inside(i) THEN <<>> ELSE <<out[i]>>])
    IN  \E d \in resolved : HasPart(inspected, Part(t, d))

\* assert_no_leak_in_payload: a registered word in whatever case, anywhere in what is sent,
\* which is also all that a dictionary among its scanners finds
Guard(out) == \E w \in Words : HasPart(Folded(out), Folded(w))

Outcome(t, resolved, out) ==
    IF P!BlockingEntities(resolved) # {} THEN "blocked"
    ELSE IF Leaks(t, resolved, out) THEN "leak"
    ELSE IF Guard(out) THEN "guarded"
    ELSE "masked"

\* A request with one text; a refused one leaves no trace in the session.
MaskText(t) ==
    \E resolved \in Detections(t) :
        LET out == ApplyReplacements(t, resolved)
            returns == result' \in {"masked", "guarded"}
        IN
        /\ seen' = seen + 1
        /\ text' = t
        /\ result' = Outcome(t, resolved, out)
        /\ masked' = IF returns THEN out ELSE <<>>
        /\ detected' = IF returns THEN resolved ELSE {}
        /\ mappings' = IF result' = "masked" THEN Allocate(t, resolved) ELSE mappings
        /\ UNCHANGED settings

\* The client's next text, of characters and of aliases it was shown
TakeText ==
    /\ seen < MaxTexts /\ result = "none"
    /\ \E t \in BoundedSeq(Chars \cup Issued, MaxText) :
          /\ segment_contexts => Len(t) <= MaxSegmented
          /\ \A i \in DOMAIN t : t[i] \in Issued => IsAlias(t, i)
          /\ MaskText(t)

\* The request goes out, or is refused; only the session's mappings stay.
EndRequest ==
    /\ result # "none"
    /\ result' = "none" /\ text' = <<>> /\ masked' = <<>> /\ detected' = {}
    /\ UNCHANGED <<settings, mappings, seen>>

Next == TakeText \/ EndRequest

Spec == Init /\ [][Next]_vars

-----------------------------------------------------------------------------
(* Properties.                                                             *)

\* The original instead of each alias
Revealed(t, aliases) ==
    FlattenSeq([i \in DOMAIN t |->
        IF IsAlias(t, i) /\ t[i] \in aliases THEN mappings[t[i]].original
        ELSE IF IsAlias(t, i + 1) /\ t[i + 1] \in aliases THEN <<>>
        ELSE <<t[i]>>])

\* make_restorer: one pass over the aliases of the literal policy.
Restore(t) == Revealed(t, {a \in Issued : mappings[a].policy = P!Literal})

\* The same for every alias
Reveal(t) == Revealed(t, Issued)

\* A registered word that the guard may find behind the detectors: one whose case differs
\* from what was registered with its case, or one that ends as aliases begin.
Elusive(word) ==
    \/ word \in case_sensitive /\ ~ HasPart(masked, word)
    \/ Folded(word)[Len(word)] = Folded(<<Stem>>)[1]

\* Masking leaves no other registered word to the guard, whatever a model found and
\* whichever aliases the text had before: only the ends of segments may hide one.
GuardIdle ==
    result = "guarded" /\ ~ segment_contexts =>
        \A w \in Words : HasPart(Folded(masked), Folded(w)) => Elusive(w)

\* complete() takes a part of an alias of the text for a copy of what was found elsewhere.
CopyInAlias ==
    \E d \in detected, i \in 0..Len(text), k \in DOMAIN text :
        /\ IsAlias(text, k) /\ IsCopy(text, detected, d, i)
        /\ i < k /\ k - 2 < i + d.end - d.start

\* A finding has a part of an alias of the text, or all of it.
AliasFound ==
    \E d \in detected, k \in DOMAIN text : IsAlias(text, k) /\ d.start < k /\ k - 2 < d.end

\* Each alias stands for exactly what it replaced, be it of this text or of an earlier one:
\* a text that comes back as it was sent is the client's again.  Not if complete() broke an
\* alias, or a model that reads joined segments took one; and a redaction is for good.
RoundTrip ==
    /\ result = "masked" /\ Mark \notin Range(masked)
    /\ ~ CopyInAlias
    /\ segment_contexts => ~ AliasFound
    => Reveal(masked) = Reveal(text)

\* An alias is never masked again, says existing_alias.py:3-4.
ExistingAliasProtected == ~ AliasFound
=============================================================================
