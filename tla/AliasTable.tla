----------------------------- MODULE AliasTable -----------------------------
(***************************************************************************)
(* The alias table of one masking session, as aliases/factory.py keeps it: *)
(* a partial function from secrets to aliases.  A token of the alias is a  *)
(* prefix of an HMAC of the secret under the session's key; a prefix that  *)
(* another secret already holds is lengthened and tried again.             *)
(*                                                                         *)
(* The HMAC and the alias profiles are the constant AliasFor.  Nothing is  *)
(* assumed of it: two secrets may collide at any length, which is what a   *)
(* small profile (the 762 documentation IPv4 addresses) does.              *)
(***************************************************************************)
EXTENDS Integers, FiniteSets

CONSTANTS
    Secrets,            \* the sensitive values that requests contain
    Aliases,            \* the replacement texts
    Keys,               \* the session index keys; one is drawn per new session
    None,               \* "no value": absent row, alias, session, task
    MaxMappings,        \* MAX_MAPPINGS_PER_SESSION
    MaxLength,          \* token lengths tried, _MIN_TOKEN_HEX .. _MAX_TOKEN_HEX
    AliasFor(_, _, _)   \* alias_for(profile, fingerprint(key, secret)[:length])

ASSUME AliasAssumption ==
    /\ None \notin Aliases
    /\ MaxMappings \in Nat
    /\ MaxLength \in Nat
    /\ \A key \in Keys, s \in Secrets, n \in 1..MaxLength :
            AliasFor(key, s, n) \in Aliases

Table == [Secrets -> Aliases \cup {None}]

EmptyTable == [s \in Secrets |-> None]

Mapped(table) == {s \in Secrets : table[s] # None}

\* No secret other than s holds the alias that s would get at length n.
IsFreeForAnyone(table, key, s, n) == TRUE

IsFree(table, key, s, n) ==
    \A v \in Secrets \ {s} : table[v] # AliasFor(key, s, n)

\* n is the first length _allocate_alias finds free.
ShortestFree(table, key, s, n) ==
    /\ n \in 1..MaxLength
    /\ IsFree(table, key, s, n)
    /\ \A m \in 1..(n - 1) : ~ IsFree(table, key, s, m)

\* get_or_create_alias(session, s) succeeds and leaves the table `after`: a known
\* secret keeps its alias, a new one needs room in the table and a free alias.
GetOrCreateAlias(table, key, s, after) ==
    \/ /\ table[s] # None
       /\ after = table
    \/ /\ table[s] = None
       /\ Cardinality(Mapped(table)) < MaxMappings
       /\ \E n \in 1..MaxLength :
            /\ ShortestFree(table, key, s, n)
            /\ after = [table EXCEPT ![s] = AliasFor(key, s, n)]

\* mappings_by_alias is a function: no alias stands for two secrets.
Injective(table) ==
    \A s, v \in Secrets : table[s] # None /\ table[s] = table[v] => s = v

\* `big` still maps all that `small` maps.
Includes(big, small) ==
    \A s \in Secrets : small[s] # None => big[s] = small[s]
=============================================================================
