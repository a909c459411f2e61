------------------------ MODULE MCStreamingRestorer -------------------------
(***************************************************************************)
(* Small instances of StreamingRestorer: every vocabulary of at most two   *)
(* aliases.                                                                *)
(***************************************************************************)
EXTENDS StreamingRestorer, TLC

CONSTANT MaxAlias      \* bound: characters of an alias

Spellings == UNION {[1..n -> Chars] : n \in 1..MaxAlias}

MCVocabularies ==
    {v \in UNION {[names -> Spellings] : names \in SUBSET Aliases} :
        \A a, b \in DOMAIN v : v[a] = v[b] => a = b}

Symmetry == Permutations(Chars) \cup Permutations(Aliases)
=============================================================================
