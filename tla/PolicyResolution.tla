-------------------------- MODULE PolicyResolution ---------------------------
(***************************************************************************)
(* policy.resolve: which of the findings of all detectors are acted upon.  *)
(* Findings that overlap compete; one that covers an issued alias gives    *)
(* way to it.                                                              *)
(*                                                                         *)
(* The findings are a sequence, in the order the detectors made them.  A   *)
(* finding is a record of start, end, type, policy, priority and score.    *)
(***************************************************************************)
EXTENDS Integers, Sequences, FiniteSets

\* restore_policy: 0 literal, 1 env_reference, 2 redacted, 3 block
Literal == 0
EnvReference == 1
Redacted == 2
Block == 3

\* _SAFETY_FLOOR, by type; a type stands for all that have its floor.
Floor == [existing_alias |-> Literal, name |-> Literal, credential |-> EnvReference,
          number |-> Block]

Larger(a, b) == IF a >= b THEN a ELSE b

SafetyRank(d) == Larger(Floor[d.type], d.policy)

\* _clamp_policy
Clamp(d) == [d EXCEPT !.policy = Larger(@, Floor[d.type])]

Overlaps(a, b) == a.start < b.end /\ b.start < a.end

\* Tuples compare from the left.
Exceeds(s, t) ==
    \E i \in DOMAIN s : s[i] > t[i] /\ \A j \in 1..(i - 1) : s[j] = t[j]

\* _preference
Preference(d) == <<SafetyRank(d), d.priority, d.end - d.start, d.score>>

\* The order by (start, end), and of detection where these are equal.
Before(found, i, j) ==
    Exceeds(<<found[j].start, found[j].end, j>>, <<found[i].start, found[i].end, i>>)

Preferred(found, i, j) ==
    \/ Exceeds(Preference(found[i]), Preference(found[j]))
    \/ Preference(found[i]) = Preference(found[j]) /\ Before(found, i, j)

Protected(found, S) == {i \in S : found[i].type = "existing_alias"}

\* _resolve_cluster: what overlaps neither an alias nor a preferred finding that was taken.
ResolveCluster(found, S) ==
    LET taken[i \in S] ==
            /\ i \notin Protected(found, S)
            /\ \A p \in Protected(found, S) : ~ Overlaps(found[i], found[p])
            /\ \A j \in S \ {i} :
                  Preferred(found, j, i) /\ Overlaps(found[i], found[j]) => ~ taken[j]
    IN  {i \in S : taken[i]}

\* The sweep compares with the end of the previous finding alone.
OpensAfterPrevious(found, i) ==
    \A j \in DOMAIN found :
        /\ Before(found, j, i)
        /\ \A k \in DOMAIN found : Before(found, k, i) => k = j \/ Before(found, k, j)
        => found[j].end <= found[i].start

\* A cluster opens where all that began before has ended.
Opens(found, i) == \A j \in DOMAIN found : Before(found, j, i) => found[j].end <= found[i].start

\* Two findings are of one cluster if none opens between them.
SameCluster(found, i, j) ==
    \A k \in DOMAIN found :
        Opens(found, k) => (Before(found, i, k) <=> Before(found, j, k))

\* resolve, as a set
Resolve(found) ==
    LET cluster(i) == {j \in DOMAIN found : SameCluster(found, i, j)}
    IN  {Clamp(found[i]) : i \in {j \in DOMAIN found : j \in ResolveCluster(found, cluster(j))}}

\* blocking_entities
BlockingEntities(resolved) == {d \in resolved : d.policy = Block}

-----------------------------------------------------------------------------
(* What a resolution must be.                                              *)

Apart(resolved) == \A a, b \in resolved : a # b => ~ Overlaps(a, b)

\* The text of a finding that is not an alias is acted upon at least as strictly as the
\* finding, or its type, asks for, wherever it does not touch an issued alias.
StrictEnough(found, resolved) ==
    \A i \in DOMAIN found \ Protected(found, DOMAIN found) :
        \/ \E p \in Protected(found, DOMAIN found) : Overlaps(found[i], found[p])
        \/ \E d \in resolved : Overlaps(d, found[i]) /\ d.policy >= SafetyRank(found[i])

AliasesSpared(found, resolved) ==
    \A p \in Protected(found, DOMAIN found) : \A d \in resolved : ~ Overlaps(d, found[p])

ResolutionSound(found, resolved) ==
    /\ Apart(resolved)
    /\ StrictEnough(found, resolved)
    /\ AliasesSpared(found, resolved)
    /\ resolved = {Clamp(found[i]) : i \in ResolveCluster(found, DOMAIN found)}
=============================================================================
