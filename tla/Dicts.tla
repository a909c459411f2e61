------------------------------- MODULE Dicts --------------------------------
(***************************************************************************)
(* Python dicts as functions with a finite domain.                         *)
(***************************************************************************)
EXTENDS Functions

PartialFunctions(S, T) == UNION {[D -> T] : D \in SUBSET S}

Get(f, k, default) == IF k \in DOMAIN f THEN f[k] ELSE default
Put(f, k, v) == [x \in DOMAIN f \cup {k} |-> IF x = k THEN v ELSE f[x]]
Drop(f, k) == Restrict(f, DOMAIN f \ {k})
=============================================================================
