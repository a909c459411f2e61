----------------------------- MODULE NerWindows ------------------------------
(***************************************************************************)
(* JapaneseNerDetector over a text longer than its model can read: the     *)
(* text is cut into windows that overlap, the model reads each, and what   *)
(* it finds is shifted back and counted once.                              *)
(*                                                                         *)
(* A text is its units, tokens or characters, as spans in order; a unit    *)
(* may be empty and there may be text between two.  A window is a span,    *)
(* its offset being its start.                                             *)
(***************************************************************************)
EXTENDS Integers, Sequences, FiniteSets

CONSTANT MinScore       \* min_score

AtMost(a, b) == IF a <= b THEN a ELSE b

Step(size, overlap) == IF size - overlap >= 1 THEN size - overlap ELSE 1

\* Windows that would end behind the text are left out.
BeginsFull(total, size, overlap) ==
    {b \in 0..(total - 1) : b % Step(size, overlap) = 0 /\ b + size <= total}

\* The units windows begin with, from 0: every step-th until one window reaches the end
Begins(total, size, overlap) ==
    {b \in 0..(total - 1) :
        /\ b % Step(size, overlap) = 0
        /\ \A a \in 0..(b - 1) : a % Step(size, overlap) = 0 => a + size < total}

\* _slice: a text that the model can read is one window, unshortened.
Slice(length, units, size, overlap) ==
    LET total == Len(units) IN
    IF total <= size THEN {[start |-> 0, end |-> length]}
    ELSE {[start |-> units[b + 1].start, end |-> units[AtMost(b + size, total)].end] :
            b \in Begins(total, size, overlap)}

\* _windows: without a tokenizer the units are characters.
Characters(length) == [i \in 1..length |-> [start |-> i - 1, end |-> i]]

Windows(length, tokens, size, overlap) ==
    Slice(length, IF tokens = <<>> THEN Characters(length) ELSE tokens, size, overlap)

\* _dedupe: of what has one span and one label the best score stays.
Dedupe(entities) ==
    {e \in entities : \A f \in entities :
        <<f.start, f.end, f.label>> = <<e.start, e.end, e.label>> => f.score <= e.score}

\* A model that finds each entity it sees as a whole, with a score of its own per window.
Found(window, entity, score) ==
    IF window.start <= entity.start /\ entity.end <= window.end
    THEN {[start |-> entity.start - window.start, end |-> entity.end - window.start,
           label |-> entity.label, score |-> score]}
    ELSE {}

\* detect: every window is read; what is unsure is dropped, a person's name without a
\* context (a title, a verb of saying) counting less.
Report(windows, entity, scores, context) ==
    LET shifted == UNION {{[f EXCEPT !.start = @ + w.start, !.end = @ + w.start] :
                              f \in Found(w, entity, scores[w])} : w \in windows}
        weighed(e) == IF e.label = "person" /\ ~context THEN (e.score * 4) \div 5 ELSE e.score
    IN  {e \in Dedupe(shifted) : e.score >= MinScore /\ weighed(e) >= MinScore}

-----------------------------------------------------------------------------
(* What windows must be.                                                   *)

\* A window has no more units than the model can read: it would not see the rest.
Readable(windows, units, size) ==
    \A w \in windows :
        Cardinality({i \in DOMAIN units :
            w.start <= units[i].start /\ units[i].end <= w.end
                /\ units[i].start < units[i].end}) <= size

\* What is made of up to overlap + 1 consecutive units, and fits a window at all, is whole
\* in one.
WholeInAWindow(windows, units, size, overlap) ==
    \A i, j \in DOMAIN units :
        i <= j /\ j - i <= overlap /\ j - i < size =>
            \E w \in windows : w.start <= units[i].start /\ units[j].end <= w.end

\* An entity that some window shows is reported once, where it is, with its best score.
ReportedOnce(windows, entity, scores, context) ==
    LET seen == {w \in windows : w.start <= entity.start /\ entity.end <= w.end}
        best == {scores[w] : w \in {v \in seen : \A u \in seen : scores[u] <= scores[v]}}
        sure == {s \in best : s >= MinScore
                    /\ (entity.label = "person" /\ ~context => (s * 4) \div 5 >= MinScore)}
    IN  Report(windows, entity, scores, context)
            = {[start |-> entity.start, end |-> entity.end, label |-> entity.label,
                score |-> s] : s \in sure}

\* The model can read every window, and a name that the overlap has room for is found
\* once, whichever windows it is in and however sure they are.
WindowsSound(windows, units, size, overlap) ==
    /\ Readable(windows, units, size)
    /\ WholeInAWindow(windows, units, size, overlap)
    /\ \A i, j \in DOMAIN units, sure \in windows, label \in {"person", "org"},
          context \in BOOLEAN :
          i <= j /\ units[i].start < units[j].end =>
              ReportedOnce(windows,
                  [start |-> units[i].start, end |-> units[j].end, label |-> label],
                  [w \in windows |-> IF w = sure THEN MinScore + 1 ELSE MinScore], context)
=============================================================================
