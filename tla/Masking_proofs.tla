---------------------------- MODULE Masking_proofs ----------------------------
(***************************************************************************)
(* Of what happens to a text between detection and the provider: masked as *)
(* a whole, it leaves hardly a registered word to the guard, no finding    *)
(* takes a part of an alias, and what is not broken comes back; cut into   *)
(* segments, it is tiled by them, and what a model finds in those it sees  *)
(* is masked where it is; normalised, it shows where a term was.           *)
(***************************************************************************)
EXTENDS Text_proofs

-----------------------------------------------------------------------------
(* Of finite sets and functions.                                           *)

\* A function has finitely many values on a finite set.
LEMMA FiniteImage ==
    ASSUME NEW S, IsFiniteSet(S), NEW f, DOMAIN f = S
    PROVE  IsFiniteSet({f[i] : i \in S})
<1> DEFINE T == {f[i] : i \in S}
           g == [i \in S |-> f[i]]
<1>1. g \in Surjection(S, T)
  BY DEF Surjection
<1>2. QED
  BY <1>1, FS_Surjection

\* Recursion downwards from n, each value being made of one further up.
Descends(n, T, last, next, step) ==
    /\ n \in Nat /\ last \in T
    /\ next \in [0..(n - 1) -> 1..n] /\ \A i \in 0..(n - 1) : next[i] > i
    /\ step \in [(0..(n - 1)) \X T -> T]

\* There is a function that descends so.
LEMMA DownFunction ==
    ASSUME NEW n, NEW T, NEW last, NEW next, NEW step, Descends(n, T, last, next, step)
    PROVE  \E f \in [0..n -> T] :
               f[n] = last /\ \A i \in 0..(n - 1) : f[i] = step[<<i, f[next[i]]>>]
<1> DEFINE From(k, f) == /\ f \in [k..n -> T] /\ f[n] = last
                         /\ \A i \in k..(n - 1) : f[i] = step[<<i, f[next[i]]>>]
           P == {m \in Nat : m <= n => \E f : From(n - m, f)}
<1>1. /\ n \in Nat /\ last \in T
      /\ next \in [0..(n - 1) -> 1..n] /\ \A i \in 0..(n - 1) : next[i] > i
      /\ step \in [(0..(n - 1)) \X T -> T]
  BY DEF Descends
<1> USE <1>1
<1>2. 0 \in P
  <2> DEFINE f == [i \in n..n |-> last]
  <2>1. From(n, f)
    OBVIOUS
  <2>2. n - 0 = n
    OBVIOUS
  <2> HIDE DEF From, f
  <2>3. QED
    BY <2>1, <2>2
<1>3. ASSUME NEW m \in P
      PROVE  m + 1 \in P
  <2>1. SUFFICES ASSUME m + 1 <= n
                 PROVE  \E f : From(n - (m + 1), f)
    BY SMTT(30)
  <2> DEFINE k == n - (m + 1)
  <2>2. k \in 0..(n - 1) /\ n - m = k + 1
    BY <2>1
  <2>3. PICK g : From(k + 1, g)
    BY <2>1, <2>2
  <2> HIDE DEF k
  <2>4. next[k] \in (k + 1)..n
    BY <2>2
  <2>5. g[next[k]] \in T
    BY <2>3, <2>4
  <2> DEFINE e == step[<<k, g[next[k]]>>]
             f == [i \in k..n |-> IF i = k THEN e ELSE g[i]]
  <2>6. e \in T
    BY <2>2, <2>5
  <2>7. f[k] = e /\ \A i \in (k + 1)..n : f[i] = g[i]
    BY <2>2
  <2>8. f \in [k..n -> T]
    <3>1. \A i \in k..n : i # k => i \in (k + 1)..n
      BY <2>2
    <3>2. \A i \in (k + 1)..n : g[i] \in T
      BY <2>3
    <3> HIDE DEF e
    <3>3. QED
      BY <2>6, <3>1, <3>2
  <2>9. f[n] = last
    <3>1. n \in (k + 1)..n
      BY <2>2
    <3>2. QED
      BY <2>3, <2>7, <3>1
  <2> HIDE DEF f
  <2>10. ASSUME NEW i \in k..(n - 1)
         PROVE  f[i] = step[<<i, f[next[i]]>>]
    <3>1. next[i] \in (k + 1)..n
      BY <2>2
    <3>2. f[next[i]] = g[next[i]]
      BY <2>7, <3>1
    <3>3. CASE i = k
      BY <2>7, <3>2, <3>3
    <3>4. CASE i # k
      <4>1. i \in (k + 1)..(n - 1)
        BY <2>2, <3>4
      <4>2. f[i] = g[i] /\ g[i] = step[<<i, g[next[i]]>>]
        BY <2>3, <2>7, <4>1
      <4>3. QED
        BY <3>2, <4>2
    <3>5. QED
      BY <3>3, <3>4
  <2>11. From(k, f)
    BY <2>8, <2>9, <2>10
  <2> HIDE DEF From
  <2>12. QED
    BY <2>11 DEF k
<1>4. P = Nat
  <2> HIDE DEF P
  <2>1. P \in SUBSET Nat
    BY DEF P
  <2>2. QED
    BY <1>2, <1>3, <2>1, NatFrom0
<1>5. PICK f : From(n - n, f)
  <2>1. n \in P
    BY <1>4
  <2>2. n <= n => \E f : From(n - n, f)
    <3> HIDE DEF From
    <3>1. QED
      BY <2>1
  <2>3. QED
    BY <2>2
<1>6. n - n = 0
  OBVIOUS
<1>7. QED
  BY <1>5, <1>6

-----------------------------------------------------------------------------
(* MaskingEngine: what a detection without segments finds.                 *)

\* The engine resolves findings as the run of resolution does.
LEMMA SamePolicy ==
    ASSUME NEW found
    PROVE  Engine!P!Resolve(found) = Policy!Resolve(found)
<1>1. \A i, S : Engine!P!ResolveCluster(found, S) = Policy!ResolveCluster(found, S)
  BY DEF Engine!P!ResolveCluster, Policy!ResolveCluster, Engine!P!Protected, Policy!Protected,
         Engine!P!Overlaps, Policy!Overlaps, Engine!P!Preferred, Policy!Preferred,
         Engine!P!Exceeds, Policy!Exceeds, Engine!P!Preference, Policy!Preference,
         Engine!P!Before, Policy!Before, Engine!P!SafetyRank, Policy!SafetyRank,
         Engine!P!Larger, Policy!Larger, Engine!P!Floor, Policy!Floor,
         Engine!P!Literal, Policy!Literal, Engine!P!EnvReference, Policy!EnvReference,
         Engine!P!Block, Policy!Block
<1>2. \A i, j : Engine!P!SameCluster(found, i, j) = Policy!SameCluster(found, i, j)
  BY DEF Engine!P!SameCluster, Policy!SameCluster, Engine!P!Opens, Policy!Opens,
         Engine!P!Before, Policy!Before, Engine!P!Exceeds, Policy!Exceeds
<1>3. \A d : Engine!P!Clamp(d) = Policy!Clamp(d)
  BY DEF Engine!P!Clamp, Policy!Clamp,
         Engine!P!Larger, Policy!Larger, Engine!P!Floor, Policy!Floor,
         Engine!P!Literal, Policy!Literal, Engine!P!EnvReference, Policy!EnvReference,
         Engine!P!Block, Policy!Block
<1>4. QED
  BY <1>1, <1>2, <1>3 DEF Engine!P!Resolve, Policy!Resolve

\* What a detector of the engine reports of a text of this length
Within(length) ==
    {d \in Finding : 0 <= d.start /\ d.end <= length}

\* Where a sequence stands in another
LEMMA StandsAt ==
    ASSUME NEW S, NEW w \in Seq(S), NEW t \in Seq(S), NEW k \in 0..Len(t)
    PROVE  Engine!IsPrefix(w, SubSeq(t, k + 1, Len(t))) <=>
               k + Len(w) <= Len(t) /\ \A m \in 1..Len(w) : w[m] = t[k + m]
<1> DEFINE u == SubSeq(t, k + 1, Len(t))
<1>1. Len(w) \in Nat /\ Len(t) \in Nat /\ SubSeq(w, 1, Len(w)) = w
  BY LenProperties, SubSeqFull
<1>2. u \in Seq(S) /\ Len(u) = Len(t) - k /\ \A m \in 1..(Len(t) - k) : u[m] = t[k + m]
  <2>1. \A m \in (k + 1)..Len(t) : t[m] \in S
    BY <1>1, ElementOfSeq
  <2>2. k + 1 \in Int /\ Len(t) \in Int
    BY <1>1
  <2>3. /\ u \in Seq(S)
        /\ Len(u) = IF k + 1 <= Len(t) THEN Len(t) - (k + 1) + 1 ELSE 0
        /\ \A m \in 1..(Len(t) - (k + 1) + 1) : u[m] = t[(k + 1) + m - 1]
    BY <2>1, <2>2, SubSeqProperties
  <2>4. Len(u) = Len(t) - k /\ Len(t) - (k + 1) + 1 = Len(t) - k
    BY <1>1, <2>3
  <2>5. \A m \in 1..(Len(t) - k) : (k + 1) + m - 1 = k + m
    BY <1>1
  <2>6. QED
    BY <2>3, <2>4, <2>5, ZenonT(40)
<1> HIDE DEF u
<1>3. ASSUME Len(w) <= Len(u)
      PROVE  /\ SubSeq(u, 1, Len(w)) \in Seq(S)
             /\ Len(SubSeq(u, 1, Len(w))) = Len(w)
             /\ \A m \in 1..Len(w) : SubSeq(u, 1, Len(w))[m] = u[m]
  <2>1. \A m \in 1..Len(w) : u[m] \in S
    BY <1>1, <1>2, <1>3, ElementOfSeq
  <2>2. QED
    BY <1>1, <2>1, SubSeqProperties
<1>4. Engine!IsPrefix(w, u) <=> Len(w) <= Len(u) /\ w = SubSeq(u, 1, Len(w))
  BY <1>1 DEF Engine!IsPrefix
<1>5. CASE Len(w) <= Len(u)
  <2>1. w = SubSeq(u, 1, Len(w)) <=> \A m \in 1..Len(w) : w[m] = u[m]
    BY <1>3, <1>5, SeqEqual
  <2>2. \A m \in 1..Len(w) : u[m] = t[k + m]
    BY <1>1, <1>2, <1>5
  <2>3. k + Len(w) <= Len(t)
    BY <1>1, <1>2, <1>5
  <2>4. QED
    BY <1>4, <1>5, <2>1, <2>2, <2>3 DEF u
<1>6. CASE ~ (Len(w) <= Len(u))
  <2>1. ~ (k + Len(w) <= Len(t))
    BY <1>1, <1>2, <1>6
  <2>2. QED
    BY <1>4, <1>6, <2>1 DEF u
<1>7. QED
  BY <1>5, <1>6

\* SetToSeq lists a finite set.
LEMMA SetAsSeq ==
    ASSUME NEW S, IsFiniteSet(S)
    PROVE  /\ Engine!SetToSeq(S) \in Seq(S)
           /\ \A e \in S : \E i \in DOMAIN Engine!SetToSeq(S) : Engine!SetToSeq(S)[i] = e
<1> DEFINE n == Cardinality(S)
           q == Engine!SetToSeq(S)
<1>1. n \in Nat /\ ExistsBijection(1..n, S)
  BY FS_CardinalityType
<1>2. Engine!Cardinality(S) = n
  BY DEF Engine!Cardinality, Cardinality
<1>3. \E f \in [1..n -> S] : Engine!IsInjective(f)
  BY <1>1 DEF ExistsBijection, Bijection, Injection, IsInjective, Engine!IsInjective
<1>4. q \in [1..n -> S] /\ Engine!IsInjective(q)
  BY <1>2, <1>3 DEF Engine!SetToSeq
<1> HIDE DEF q, n
<1>5. q \in Injection(1..n, S)
  BY <1>4 DEF Engine!IsInjective, IsInjective, Injection
<1>6. q \in Surjection(1..n, S)
  <2>1. IsFiniteSet(1..n) /\ Cardinality(1..n) = n
    <3>1. /\ IsFiniteSet(1..n)
          /\ Cardinality(1..n) = IF 1 > n THEN 0 ELSE n - 1 + 1
      BY <1>1, FS_Interval
    <3>2. QED
      BY <1>1, <3>1
  <2>2. Cardinality(1..n) = Cardinality(S)
    BY <2>1 DEF n
  <2>3. QED
    BY <1>5, <2>2, FS_Injection
<1>7. q \in Seq(S) /\ DOMAIN q = 1..n
  BY <1>1, <1>4
<1>8. QED
  BY <1>6, <1>7 DEF q, Surjection

\* A character in lower case
Low(c) == IF c \in DOMAIN LowerCase THEN LowerCase[c] ELSE c

\* Characters stay characters, and what is none stays what it is.
LEMMA LowFacts ==
    /\ \A c \in EngineChars : Low(c) \in EngineChars
    /\ \A c : c \notin EngineChars => Low(c) = c
BY EngineAssumption DEF Low

\* A text is folded symbol by symbol.
LEMMA FoldedFacts ==
    ASSUME NEW S, NEW t \in Seq(S)
    PROVE  /\ Engine!Folded(t) \in Seq({Low(c) : c \in S})
           /\ Len(Engine!Folded(t)) = Len(t)
           /\ \A m \in 1..Len(t) : Engine!Folded(t)[m] = Low(t[m])
<1> DEFINE f == Engine!Folded(t)
           V == {Low(c) : c \in S}
<1>1. Len(t) \in Nat /\ DOMAIN t = 1..Len(t) /\ \A m \in 1..Len(t) : t[m] \in S
  BY LenProperties
<1>2. f = [m \in 1..Len(t) |-> Low(t[m])]
  BY <1>1 DEF Engine!Folded, Low
<1> HIDE DEF f
<1>3. \A m \in 1..Len(t) : f[m] = Low(t[m]) /\ Low(t[m]) \in V
  BY <1>1, <1>2
<1> HIDE DEF V
<1>4. f \in [1..Len(t) -> V]
  BY <1>2, <1>3
<1>5. f \in Seq(V) /\ Len(f) = Len(t)
  BY <1>1, <1>4
<1>6. QED
  BY <1>3, <1>5 DEF f, V

\* How a symbol is read when a word is looked for, and where the word is found so
Reads(w, c) == IF w \in case_sensitive THEN c ELSE Low(c)

Occurs(t, w, k) ==
    k + Len(w) <= Len(t) /\ \A m \in 1..Len(w) : Reads(w, w[m]) = Reads(w, t[k + m])

\* A sequence that stands in another when both are folded
LEMMA FoldedStandsAt ==
    ASSUME NEW S, NEW w \in Seq(S), NEW t \in Seq(S), NEW k \in 0..Len(t)
    PROVE  Engine!IsPrefix(Engine!Folded(w), SubSeq(Engine!Folded(t), k + 1, Len(t))) <=>
              k + Len(w) <= Len(t) /\ \A m \in 1..Len(w) : Low(w[m]) = Low(t[k + m])
<1> DEFINE V == {Low(c) : c \in S}
           fw == Engine!Folded(w)
           ft == Engine!Folded(t)
<1>1. /\ fw \in Seq(V) /\ Len(fw) = Len(w) /\ \A m \in 1..Len(w) : fw[m] = Low(w[m])
      /\ ft \in Seq(V) /\ Len(ft) = Len(t) /\ \A m \in 1..Len(t) : ft[m] = Low(t[m])
  BY FoldedFacts
<1>2. Len(t) \in Nat /\ Len(w) \in Nat
  BY LenProperties
<1> HIDE DEF V, fw, ft
<1>3. Engine!IsPrefix(fw, SubSeq(ft, k + 1, Len(ft))) <=>
         k + Len(fw) <= Len(ft) /\ \A m \in 1..Len(fw) : fw[m] = ft[k + m]
  <2>1. k \in 0..Len(ft)
    BY <1>1
  <2>2. QED
    BY <1>1, <2>1, StandsAt
<1>4. ASSUME k + Len(w) <= Len(t)
      PROVE  \A m \in 1..Len(w) : k + m \in 1..Len(t)
  BY <1>2, <1>4
<1>5. QED
  BY <1>1, <1>3, <1>4 DEF fw, ft

\* The dictionary finds a word where it stands.
LEMMA StandsInAt ==
    ASSUME NEW S, NEW w \in Seq(S), NEW t \in Seq(S), NEW k \in 0..Len(t)
    PROVE  Engine!StandsIn(t, w, k) <=> Occurs(t, w, k)
<1>1. CASE w \in case_sensitive
  BY <1>1, StandsAt DEF Engine!StandsIn, Occurs, Reads
<1>2. CASE w \notin case_sensitive
  BY <1>2, FoldedStandsAt DEF Engine!StandsIn, Occurs, Reads
<1>3. QED
  BY <1>1, <1>2

\* Registered words are words.
LEMMA WordFacts ==
    ASSUME NEW w \in Words
    PROVE  w \in Seq(EngineChars) /\ Len(w) \in Nat /\ Len(w) >= 1 /\ WordPolicy[w] \in 0..3
<1>1. w \in Seq(EngineChars) /\ w # <<>> /\ WordPolicy[w] \in 0..3
  BY EngineAssumption
<1>2. Len(w) \in Nat \ {0}
  BY <1>1, EmptySeq
<1>3. QED
  BY <1>1, <1>2

\* The detectors of the engine make findings, and finitely many.
LEMMA DetectorsFind ==
    ASSUME NEW t \in Seq(EngineChars \cup DOMAIN mappings),
           NEW report \in Engine!ModelReports(Len(t))
    PROVE  LET all == Engine!AliasFindings(t) \cup Engine!WordFindings(t) \cup report IN
           IsFiniteSet(all) /\ all \subseteq Within(Len(t))
<1>1. Len(t) \in Nat /\ DOMAIN t = 1..Len(t)
  BY LenProperties
<1>2. IsFiniteSet(0..Len(t)) /\ IsFiniteSet(1..Len(t))
  BY <1>1, FS_Interval
<1>3. Engine!AliasFindings(t) \subseteq Within(Len(t)) /\ IsFiniteSet(Engine!AliasFindings(t))
  <2> DEFINE places == {k \in DOMAIN t : Engine!IsAlias(t, k)}
             finding(i) == Engine!Finding("existing_alias", Engine!P!Literal, 300, i - 2, i)
  <2>1. Engine!AliasFindings(t) = {finding(i) : i \in places}
    BY DEF Engine!AliasFindings
  <2>2. IsFiniteSet(places)
    BY <1>1, <1>2, FS_Subset
  <2>3. IsFiniteSet({finding(i) : i \in places})
    <3> DEFINE f == [i \in places |-> finding(i)]
    <3>1. {finding(i) : i \in places} = {f[i] : i \in places} /\ DOMAIN f = places
      OBVIOUS
    <3> HIDE DEF places, finding, f
    <3>2. QED
      BY <2>2, <3>1, FiniteImage
  <2>4. \A i \in 2..Len(t) : finding(i) \in Within(Len(t))
    BY <1>1 DEF Within, Finding, Engine!Finding, Policy!Floor, Engine!P!Literal
  <2>5. places \subseteq 2..Len(t)
    BY <1>1 DEF Engine!IsAlias
  <2>6. QED
    BY <1>1, <2>1, <2>3, <2>4, <2>5
<1>4. Engine!WordFindings(t) \subseteq Within(Len(t)) /\ IsFiniteSet(Engine!WordFindings(t))
  <2> DEFINE places == {a \in Words \X (0..Len(t)) : Engine!StandsIn(t, a[1], a[2])}
             finding(a) == Engine!Finding("name", WordPolicy[a[1]], 200, a[2], a[2] + Len(a[1]))
  <2>1. Engine!WordFindings(t) = {finding(a) : a \in places}
    BY DEF Engine!WordFindings
  <2>2. IsFiniteSet(places)
    <3>1. IsFiniteSet(Words \X (0..Len(t)))
      BY <1>2, EngineAssumption, FS_Product
    <3>2. QED
      BY <3>1, FS_Subset
  <2>3. IsFiniteSet({finding(a) : a \in places})
    <3> DEFINE f == [a \in places |-> finding(a)]
               values == {finding(a) : a \in places}
    <3>1. values = {f[a] : a \in places} /\ DOMAIN f = places
      OBVIOUS
    <3>2. IsFiniteSet(values)
      <4> HIDE DEF places, finding, f, values
      <4>1. QED
        BY <2>2, <3>1, FiniteImage
    <3>3. QED
      BY <3>2
  <2>4. ASSUME NEW a \in places
        PROVE  finding(a) \in Within(Len(t))
    <3>1. PICK w \in Words, k \in 0..Len(t) : a = <<w, k>>
      OBVIOUS
    <3>2. /\ w \in Seq(EngineChars \cup DOMAIN mappings) /\ Len(w) \in Nat /\ Len(w) >= 1
          /\ WordPolicy[w] \in 0..3
      BY WordFacts
    <3>3. k + Len(w) <= Len(t)
      <4>1. Engine!StandsIn(t, w, k)
        BY <3>1
      <4>2. QED
        BY <3>2, <4>1, StandsInAt DEF Occurs
    <3>4. k \in Int /\ k + Len(w) \in Int /\ k < k + Len(w)
      BY <1>1, <3>2
    <3> DEFINE e == k + Len(w)
               p == WordPolicy[w]
    <3>5. finding(a) = [type |-> "name", policy |-> p, priority |-> 200, start |-> k, end |-> e,
                        score |-> 1]
      BY <3>1 DEF Engine!Finding
    <3>6. k \in Int /\ e \in Int /\ k < e /\ 0 <= k /\ e <= Len(t) /\ p \in 0..3
      BY <3>2, <3>3, <3>4
    <3> HIDE DEF e, p, finding
    <3>7. QED
      BY <3>5, <3>6 DEF Within, Finding, Policy!Floor
  <2>5. QED
    BY <2>1, <2>3, <2>4
<1>5. report \subseteq Within(Len(t)) /\ IsFiniteSet(report)
  <2>1. CASE report = {}
    BY <2>1, FS_EmptySet
  <2>2. CASE report # {}
    <3>1. PICK s \in Engine!Spans(Len(t)) :
              report = {Engine!Finding("name", Engine!P!Literal, 90, s.start, s.end)}
      BY <2>2 DEF Engine!ModelReports
    <3>2. s.start \in 0..Len(t) /\ s.end \in 0..Len(t) /\ s.start < s.end
      BY DEF Engine!Spans
    <3>3. Engine!Finding("name", Engine!P!Literal, 90, s.start, s.end) \in Within(Len(t))
      BY <1>1, <3>2 DEF Within, Finding, Engine!Finding, Policy!Floor, Engine!P!Literal
    <3>4. QED
      BY <3>1, <3>3, FS_Singleton
  <2>3. QED
    BY <2>1, <2>2
<1>6. QED
  BY <1>3, <1>4, <1>5, FS_Union

\* A word that does not end as aliases begin
Plain(w) == Low(w[Len(w)]) # Low(Stem)

\* What is acted upon in a text: findings apart from each other, of characters that are not of
\* aliases, and somewhere in each registered word that does not end as aliases begin.
ActsWell(t, resolved) ==
    /\ \A d \in resolved :
          /\ d.start \in Nat /\ d.end \in Nat /\ d.start < d.end /\ d.end <= Len(t)
          /\ \A k \in (d.start + 1)..d.end : t[k] \in EngineChars /\ ~ Engine!IsAlias(t, k + 1)
    /\ \A d, e \in resolved : d # e => d.end <= e.start \/ e.end <= d.start
    /\ \A w \in Words, k \in 0..Len(t) :
          Plain(w) /\ Occurs(t, w, k) => \E d \in resolved : d.start < k + Len(w) /\ k < d.end

\* Aliases are no characters.
AliasesApart == DOMAIN mappings \cap EngineChars = {}

\* The symbols of aliases stand only in these.
WellSpelled(t) == \A k \in DOMAIN t : t[k] \in DOMAIN mappings => Engine!IsAlias(t, k)

\* What detection leaves in a text without segments can be acted upon.
LEMMA DetectionActsWell ==
    ASSUME AliasesApart, NEW t \in Seq(EngineChars \cup DOMAIN mappings), WellSpelled(t),
           NEW report \in Engine!ModelReports(Len(t))
    PROVE  ActsWell(t, Engine!DetectOne(t, report))
<1> DEFINE all == Engine!AliasFindings(t) \cup Engine!WordFindings(t) \cup report
           found == Engine!SetToSeq(all)
           resolved == Engine!DetectOne(t, report)
<1>1. /\ Len(t) \in Nat /\ DOMAIN t = 1..Len(t)
      /\ \A k \in 1..Len(t) : t[k] \in EngineChars \cup DOMAIN mappings
  BY LenProperties
<1>2. IsFiniteSet(all) /\ all \subseteq Within(Len(t))
  BY DetectorsFind
<1>3. resolved = Policy!Resolve(found)
  BY SamePolicy DEF Engine!DetectOne, Engine!Resolve
<1>4. found \in Seq(all) /\ \A e \in all : \E i \in DOMAIN found : found[i] = e
  <2> HIDE DEF all
  <2>1. QED
    BY <1>2, SetAsSeq
<1>5. found \in Seq(Finding)
  <2>1. all \subseteq Finding
    BY <1>2 DEF Within
  <2> HIDE DEF all
  <2>2. QED
    BY <1>4, <2>1
<1>6. Policy!ResolutionSound(found, resolved)
  BY <1>3, <1>5, ResolveIsSound
<1>7. \A i \in DOMAIN found : found[i] \in all
  <2> HIDE DEF all
  <2>1. QED
    BY <1>4
<1>8. Engine!AliasFindings(t) \subseteq all /\ Engine!WordFindings(t) \subseteq all
  OBVIOUS
<1> HIDE DEF all, found, resolved
<1>9. ASSUME NEW d \in resolved
      PROVE  /\ d.start \in Nat /\ d.end \in Nat /\ d.start < d.end /\ d.end <= Len(t)
             /\ \A k \in (d.start + 1)..d.end : t[k] \in EngineChars /\ ~ Engine!IsAlias(t, k + 1)
  <2>1. PICK i \in DOMAIN found : d = Policy!Clamp(found[i])
    BY <1>6 DEF Policy!ResolutionSound, Policy!ResolveCluster
  <2>2. found[i] \in Within(Len(t))
    BY <1>2, <1>7
  <2>3. /\ found[i].start \in Int /\ found[i].end \in Int /\ found[i].start < found[i].end
        /\ 0 <= found[i].start /\ found[i].end <= Len(t) /\ found[i] \in Finding
    BY <2>2 DEF Within, Finding
  <2>4. d.start = found[i].start /\ d.end = found[i].end
    BY <2>1, <2>3 DEF Policy!Clamp, Finding
  <2>5. d.start \in Nat /\ d.end \in Nat /\ d.start < d.end /\ d.end <= Len(t)
    BY <1>1, <2>3, <2>4
  <2>6. ASSUME NEW k \in DOMAIN t, Engine!IsAlias(t, k), d.start < k, k - 2 < d.end
        PROVE  FALSE
    <3> DEFINE a == Engine!Finding("existing_alias", Engine!P!Literal, 300, k - 2, k)
    <3>1. a \in Engine!AliasFindings(t)
      BY <2>6 DEF Engine!AliasFindings
    <3>2. PICK p \in DOMAIN found : found[p] = a
      BY <1>4, <1>8, <3>1
    <3>3. a.type = "existing_alias" /\ a.start = k - 2 /\ a.end = k
      BY DEF Engine!Finding
    <3>4. p \in Policy!Protected(found, DOMAIN found)
      BY <3>2, <3>3 DEF Policy!Protected
    <3>5. ~ Policy!Overlaps(d, found[p])
      BY <1>6, <3>4 DEF Policy!ResolutionSound, Policy!AliasesSpared
    <3> HIDE DEF a
    <3>6. QED
      BY <2>6, <3>2, <3>3, <3>5 DEF Policy!Overlaps
  <2>7. ASSUME NEW k \in (d.start + 1)..d.end
        PROVE  t[k] \in EngineChars /\ ~ Engine!IsAlias(t, k + 1)
    <3>1. k \in 1..Len(t) /\ k \in Int /\ d.start < k /\ k - 2 < d.end /\ k <= d.end
      BY <1>1, <2>5
    <3>2. t[k] \in EngineChars
      <4>1. t[k] \notin DOMAIN mappings
        BY <1>1, <2>6, <3>1 DEF WellSpelled
      <4>2. QED
        BY <1>1, <3>1, <4>1
    <3>3. ASSUME Engine!IsAlias(t, k + 1)
          PROVE  FALSE
      <4>1. k + 1 \in DOMAIN t
        BY <1>1, <3>1, <3>3 DEF Engine!IsAlias
      <4>2. d.start < k + 1 /\ (k + 1) - 2 < d.end
        BY <2>5, <3>1
      <4>3. QED
        BY <2>6, <3>3, <4>1, <4>2
    <3>4. QED
      BY <3>2, <3>3
  <2>8. QED
    BY <2>5, <2>7
<1>10. ASSUME NEW d \in resolved, NEW e \in resolved, d # e
       PROVE  d.end <= e.start \/ e.end <= d.start
  <2>1. ~ Policy!Overlaps(d, e)
    BY <1>6, <1>10 DEF Policy!ResolutionSound, Policy!Apart
  <2>2. d.start \in Nat /\ d.end \in Nat /\ e.start \in Nat /\ e.end \in Nat
    BY <1>9
  <2>3. QED
    BY <2>1, <2>2 DEF Policy!Overlaps
<1>11. ASSUME NEW w \in Words, NEW k \in 0..Len(t), Plain(w), Occurs(t, w, k)
       PROVE  \E d \in resolved : d.start < k + Len(w) /\ k < d.end
  <2> DEFINE f == Engine!Finding("name", WordPolicy[w], 200, k, k + Len(w))
  <2>1. w \in Seq(EngineChars) /\ Len(w) \in Nat /\ Len(w) >= 1
    BY WordFacts
  <2>2. f \in Engine!WordFindings(t)
    <3> DEFINE a == <<w, k>>
    <3>1. a \in Words \X (0..Len(t)) /\ a[1] = w /\ a[2] = k
      OBVIOUS
    <3> HIDE DEF a
    <3>2. w \in Seq(EngineChars \cup DOMAIN mappings)
      BY <2>1
    <3>3. Engine!StandsIn(t, w, k)
      BY <1>11, <3>2, StandsInAt
    <3>4. QED
      BY <3>1, <3>3 DEF Engine!WordFindings
  <2>3. PICK i \in DOMAIN found : found[i] = f
    BY <1>4, <1>8, <2>2
  <2>4. f.type = "name" /\ f.start = k /\ f.end = k + Len(w)
    BY DEF Engine!Finding
  <2> HIDE DEF f
  <2>5. i \in DOMAIN found \ Policy!Protected(found, DOMAIN found)
    BY <2>3, <2>4 DEF Policy!Protected
  <2>6. k + Len(w) <= Len(t) /\ \A m \in 1..Len(w) : Reads(w, w[m]) = Reads(w, t[k + m])
    BY <1>11 DEF Occurs
  <2>7. \A m \in 1..Len(w) : t[k + m] \in EngineChars
    <3>1. \A m \in 1..Len(w) : w[m] \in EngineChars
      BY <2>1, LenProperties
    <3>2. QED
      BY <2>6, <3>1, LowFacts DEF Reads
  <2>8. t[k + Len(w)] # Stem
    <3>1. Len(w) \in 1..Len(w)
      BY <2>1
    <3>2. Reads(w, w[Len(w)]) = Reads(w, t[k + Len(w)])
      BY <2>6, <3>1
    <3>3. QED
      BY <1>11, <3>2 DEF Reads, Plain
  <2>9. ASSUME NEW p \in Policy!Protected(found, DOMAIN found), Policy!Overlaps(found[i], found[p])
        PROVE  FALSE
    <3>1. found[p].type = "existing_alias" /\ p \in DOMAIN found
      BY DEF Policy!Protected
    <3>2. found[p] \in Engine!AliasFindings(t)
      <4>1. found[p] \in all
        BY <1>7, <3>1
      <4>2. \A e \in Engine!WordFindings(t) : e.type = "name"
        BY DEF Engine!WordFindings, Engine!Finding
      <4>3. \A e \in report : e.type = "name"
        BY DEF Engine!ModelReports, Engine!Finding
      <4>4. QED
        BY <3>1, <4>1, <4>2, <4>3 DEF all
    <3>3. PICK n \in DOMAIN t : /\ Engine!IsAlias(t, n)
                                /\ found[p].start = n - 2 /\ found[p].end = n
      BY <3>2 DEF Engine!AliasFindings, Engine!Finding
    <3>4. k < n /\ n - 2 < k + Len(w) /\ n \in Int
      BY <1>1, <2>3, <2>4, <2>9, <3>3 DEF Policy!Overlaps
    <3>5. t[n] \in DOMAIN mappings /\ t[n - 1] = Stem
      BY <3>3 DEF Engine!IsAlias, Engine!Issued
    <3>6. CASE n <= k + Len(w)
      <4>1. n - k \in 1..Len(w) /\ k + (n - k) = n
        BY <2>1, <3>4, <3>6
      <4>2. t[n] \in EngineChars
        BY <2>7, <4>1
      <4>3. QED
        BY <3>5, <4>2 DEF AliasesApart
    <3>7. CASE ~ (n <= k + Len(w))
      <4>1. n - 1 = k + Len(w)
        BY <2>1, <3>4, <3>7
      <4>2. QED
        BY <2>8, <3>5, <4>1
    <3>8. QED
      BY <3>6, <3>7
  <2>10. PICK d \in resolved : Policy!Overlaps(d, found[i])
    BY <1>6, <2>5, <2>9 DEF Policy!ResolutionSound, Policy!StrictEnough
  <2>11. QED
    BY <2>3, <2>4, <2>10 DEF Policy!Overlaps
<1>12. QED
  BY <1>9, <1>10, <1>11 DEF ActsWell, resolved

-----------------------------------------------------------------------------
(* MaskingEngine: the result, position by position.                        *)

\* What stands in the result for position i, given what stands for those behind it
OutAt(t, resolved, g, i) ==
    IF i = Len(t) THEN <<>>
    ELSE IF Engine!Replaced(t, resolved, i) = {} THEN <<t[i + 1]>> \o g[i + 1]
    ELSE LET d == CHOOSE d \in Engine!Replaced(t, resolved, i) : TRUE
         IN  Engine!Replacement(t, d) \o g[i + d.end - d.start]

Outs(t, resolved, g) == g = [i \in 0..Len(t) |-> OutAt(t, resolved, g, i)]

\* A part of a text that is acted upon
LEMMA PartFacts ==
    ASSUME NEW t \in Seq(EngineChars \cup DOMAIN mappings), NEW resolved, ActsWell(t, resolved),
           NEW d \in resolved
    PROVE  /\ d.start \in Nat /\ d.end \in Nat /\ d.start < d.end /\ d.end <= Len(t)
           /\ Engine!Part(t, d) \in Seq(EngineChars)
           /\ Len(Engine!Part(t, d)) = d.end - d.start
           /\ \A m \in 1..(d.end - d.start) :
                 Engine!Part(t, d)[m] = t[d.start + m] /\ t[d.start + m] \in EngineChars
<1>1. /\ d.start \in Nat /\ d.end \in Nat /\ d.start < d.end /\ d.end <= Len(t)
      /\ \A k \in (d.start + 1)..d.end : t[k] \in EngineChars
  BY DEF ActsWell
<1> DEFINE a == d.start
           b == d.end
<1>2. a \in Nat /\ b \in Nat /\ a < b /\ \A k \in (a + 1)..b : t[k] \in EngineChars
  BY <1>1
<1>3. /\ SubSeq(t, a + 1, b) \in Seq(EngineChars)
      /\ Len(SubSeq(t, a + 1, b)) = b - a
      /\ \A m \in 1..(b - a) : SubSeq(t, a + 1, b)[m] = t[a + m] /\ t[a + m] \in EngineChars
  <2> HIDE DEF a, b
  <2>1. a + 1 \in Int /\ b \in Int
    BY <1>2
  <2>2. /\ SubSeq(t, a + 1, b) \in Seq(EngineChars)
        /\ Len(SubSeq(t, a + 1, b)) = IF a + 1 <= b THEN b - (a + 1) + 1 ELSE 0
        /\ \A m \in 1..(b - (a + 1) + 1) : SubSeq(t, a + 1, b)[m] = t[(a + 1) + m - 1]
    BY <1>2, <2>1, SubSeqProperties
  <2>3. b - (a + 1) + 1 = b - a /\ a + 1 <= b
    BY <1>2
  <2>4. \A m \in 1..(b - a) : (a + 1) + m - 1 = a + m /\ a + m \in (a + 1)..b
    BY <1>2
  <2>5. QED
    BY <1>2, <2>2, <2>3, <2>4
<1>4. QED
  BY <1>1, <1>3 DEF Engine!Part

\* No finding goes across the position.
Clean(resolved, i) == \A d \in resolved : ~ (d.start < i /\ i < d.end)

\* A replacement at i goes on to a position further on, and stands for what there was between.
LEMMA ReplacedFacts ==
    ASSUME NEW t \in Seq(EngineChars \cup DOMAIN mappings), NEW resolved, ActsWell(t, resolved),
           NEW i \in 0..(Len(t) - 1), NEW d \in Engine!Replaced(t, resolved, i)
    PROVE  /\ d \in resolved
           /\ i + d.end - d.start \in (i + 1)..Len(t)
           /\ \A m \in 1..(d.end - d.start) : t[d.start + m] = t[i + m]
           /\ Clean(resolved, i) => Clean(resolved, i + d.end - d.start)
<1>1. Len(t) \in Nat
  BY LenProperties
<1>2. /\ d \in resolved
      /\ \/ d.start = i
         \/ Engine!IsCopy(t, resolved, d, i) /\ ~ \E e \in resolved : e.start = i
  BY DEF Engine!Replaced
<1>3. /\ d.start \in Nat /\ d.end \in Nat /\ d.start < d.end /\ d.end <= Len(t)
      /\ Engine!Part(t, d) \in Seq(EngineChars)
      /\ Len(Engine!Part(t, d)) = d.end - d.start
      /\ \A m \in 1..(d.end - d.start) : Engine!Part(t, d)[m] = t[d.start + m]
  BY <1>2, PartFacts
<1>4. \A e \in resolved : e.start \in Nat /\ e.end \in Nat /\ e.start < e.end
  BY DEF ActsWell
<1>5. CASE d.start = i
  <2>1. i + d.end - d.start = d.end /\ d.end \in (i + 1)..Len(t)
    BY <1>1, <1>3, <1>5
  <2>2. Clean(resolved, d.end)
    <3>1. \A e \in resolved : e # d => d.end <= e.start \/ e.end <= d.start
      BY <1>2 DEF ActsWell
    <3>2. QED
      BY <1>3, <1>4, <3>1, SMTT(30) DEF Clean
  <2>3. QED
    BY <1>2, <1>5, <2>1, <2>2
<1>6. CASE Engine!IsCopy(t, resolved, d, i) /\ ~ \E e \in resolved : e.start = i
  <2> DEFINE w == Engine!Part(t, d)
             l == d.end - d.start
  <2>1. l \in Nat /\ l >= 1 /\ Len(w) = l /\ i + d.end - d.start = i + l /\ i \in Nat
    BY <1>3
  <2>2. w \in Seq(EngineChars \cup DOMAIN mappings)
    BY <1>3
  <2>3. Engine!IsPrefix(w, SubSeq(t, i + 1, Len(t)))
    BY <1>6 DEF Engine!IsCopy
  <2>4. i + l <= Len(t) /\ \A m \in 1..l : w[m] = t[i + m]
    <3>1. i \in 0..Len(t)
      BY <1>1
    <3> HIDE DEF w, l
    <3>2. QED
      BY <2>1, <2>2, <2>3, <3>1, StandsAt
  <2>5. \A e \in resolved : e.start \notin i..(i + l - 1)
    BY <1>3, <1>6, <2>1 DEF Engine!IsCopy
  <2>6. ASSUME Clean(resolved, i), NEW e \in resolved, e.start < i + l, i + l < e.end
        PROVE  FALSE
    <3>1. e.start \in Nat /\ e.end \in Nat /\ e.start < e.end
      BY <1>4
    <3>2. e.start < i
      <4> HIDE DEF l
      <4>1. QED
        BY <2>1, <2>5, <2>6, <3>1
    <3>3. ~ (i < e.end)
      BY <2>6, <3>2 DEF Clean
    <3> HIDE DEF l
    <3>4. QED
      BY <2>1, <2>6, <3>1, <3>3
  <2>7. \A m \in 1..l : t[d.start + m] = t[i + m]
    BY <1>3, <2>4
  <2>8. Clean(resolved, i) => Clean(resolved, i + l)
    BY <2>6 DEF Clean
  <2>9. i + l \in (i + 1)..Len(t)
    <3> HIDE DEF l
    <3>1. QED
      BY <1>1, <2>1, <2>4
  <2>10. i + d.end - d.start = i + l
    BY <2>1
  <2>11. QED
    BY <1>2, <2>7, <2>8, <2>9, <2>10
<1>7. QED
  BY <1>2, <1>5, <1>6

\* Where the result goes on behind a position, and what it shows for what is before that
NextAt(t, resolved, i) ==
    IF Engine!Replaced(t, resolved, i) = {} THEN i + 1
    ELSE LET d == CHOOSE d \in Engine!Replaced(t, resolved, i) : TRUE IN i + d.end - d.start

HeadAt(t, resolved, i) ==
    IF Engine!Replaced(t, resolved, i) = {} THEN <<t[i + 1]>>
    ELSE Engine!Replacement(t, CHOOSE d \in Engine!Replaced(t, resolved, i) : TRUE)

\* No finding has the character.
Free(resolved, k) == \A d \in resolved : ~ (d.start < k /\ k <= d.end)

Symbols(t, resolved) ==
    EngineChars \cup DOMAIN mappings \cup {Engine!Mark}
        \cup {Engine!AliasOf(Engine!Part(t, d)) : d \in resolved}

\* A replacement is the mark or an alias.
LEMMA ReplacementFacts ==
    ASSUME NEW t, NEW resolved, NEW d \in resolved
    PROVE  /\ \/ Engine!Replacement(t, d) = <<Engine!Mark>>
              \/ Engine!Replacement(t, d) = <<Stem, Engine!AliasOf(Engine!Part(t, d))>>
           /\ Engine!Replacement(t, d) \in Seq(Symbols(t, resolved))
<1>1. \/ Engine!Replacement(t, d) = <<Engine!Mark>>
      \/ Engine!Replacement(t, d) = <<Stem, Engine!AliasOf(Engine!Part(t, d))>>
  BY DEF Engine!Replacement
<1> DEFINE a == Engine!AliasOf(Engine!Part(t, d))
           m == Engine!Mark
           S == Symbols(t, resolved)
<1>2. a \in S /\ m \in S /\ Stem \in S
  BY EngineAssumption DEF Symbols
<1> HIDE DEF a, m, S
<1>3. <<m>> \in Seq(S) /\ <<Stem, a>> \in Seq(S)
  BY <1>2
<1>4. QED
  BY <1>1, <1>3 DEF a, m, S

\* A position is left alone, or a finding or a copy of it begins there.
LEMMA NextFacts ==
    ASSUME NEW t \in Seq(EngineChars \cup DOMAIN mappings), NEW resolved, ActsWell(t, resolved),
           NEW i \in 0..(Len(t) - 1)
    PROVE  /\ NextAt(t, resolved, i) \in (i + 1)..Len(t)
           /\ HeadAt(t, resolved, i) \in Seq(Symbols(t, resolved))
           /\ Clean(resolved, i) => Clean(resolved, NextAt(t, resolved, i))
           /\ \/ /\ Engine!Replaced(t, resolved, i) = {}
                 /\ HeadAt(t, resolved, i) = <<t[i + 1]>>
                 /\ NextAt(t, resolved, i) = i + 1
                 /\ Clean(resolved, i) => Free(resolved, i + 1)
              \/ \E d \in resolved :
                    /\ d.start = i \/ Engine!IsCopy(t, resolved, d, i)
                    /\ HeadAt(t, resolved, i) = Engine!Replacement(t, d)
                    /\ NextAt(t, resolved, i) = i + d.end - d.start
                    /\ \A m \in 1..(d.end - d.start) : t[d.start + m] = t[i + m]
<1>1. Len(t) \in Nat /\ i \in Nat /\ \A k \in 1..Len(t) : t[k] \in EngineChars \cup DOMAIN mappings
  BY LenProperties
<1>2. CASE Engine!Replaced(t, resolved, i) = {}
  <2>1. HeadAt(t, resolved, i) = <<t[i + 1]>> /\ NextAt(t, resolved, i) = i + 1
    BY <1>2 DEF HeadAt, NextAt
  <2>2. i + 1 \in 1..Len(t) /\ i + 1 \in (i + 1)..Len(t)
    BY <1>1
  <2>3. \A d \in resolved : d.start # i
    BY <1>2 DEF Engine!Replaced
  <2>4. \A d \in resolved : d.start \in Nat /\ d.end \in Nat /\ d.start < d.end
    BY DEF ActsWell
  <2>5. Clean(resolved, i) => Clean(resolved, i + 1) /\ Free(resolved, i + 1)
    BY <1>1, <2>3, <2>4 DEF Clean, Free
  <2>6. <<t[i + 1]>> \in Seq(Symbols(t, resolved))
    <3>1. t[i + 1] \in Symbols(t, resolved)
      BY <1>1, <2>2 DEF Symbols
    <3>2. QED
      BY <3>1
  <2>7. QED
    BY <1>2, <2>1, <2>2, <2>5, <2>6
<1>3. CASE Engine!Replaced(t, resolved, i) # {}
  <2> DEFINE d == CHOOSE d \in Engine!Replaced(t, resolved, i) : TRUE
  <2>1. d \in Engine!Replaced(t, resolved, i)
    BY <1>3
  <2>2. /\ HeadAt(t, resolved, i) = Engine!Replacement(t, d)
        /\ NextAt(t, resolved, i) = i + d.end - d.start
    BY <1>3 DEF HeadAt, NextAt
  <2> HIDE DEF d
  <2>3. /\ d \in resolved
        /\ i + d.end - d.start \in (i + 1)..Len(t)
        /\ \A m \in 1..(d.end - d.start) : t[d.start + m] = t[i + m]
        /\ Clean(resolved, i) => Clean(resolved, i + d.end - d.start)
    BY <2>1, ReplacedFacts
  <2>4. d.start = i \/ Engine!IsCopy(t, resolved, d, i)
    BY <2>1 DEF Engine!Replaced
  <2>5. HeadAt(t, resolved, i) \in Seq(Symbols(t, resolved))
    BY <2>2, <2>3, ReplacementFacts
  <2>6. QED
    BY <2>2, <2>3, <2>4, <2>5
<1>4. QED
  BY <1>2, <1>3

\* The result is what stands for the first position, which goes on from one to the next.
LEMMA OutFacts ==
    ASSUME NEW t \in Seq(EngineChars \cup DOMAIN mappings), NEW resolved, ActsWell(t, resolved)
    PROVE  \E g \in [0..Len(t) -> Seq(Symbols(t, resolved))] :
               /\ Engine!ApplyReplacements(t, resolved) = g[0]
               /\ g[Len(t)] = <<>>
               /\ \A i \in 0..(Len(t) - 1) :
                     g[i] = HeadAt(t, resolved, i) \o g[NextAt(t, resolved, i)]
<1> DEFINE n == Len(t)
           T == Seq(Symbols(t, resolved))
           next == [i \in 0..(n - 1) |-> NextAt(t, resolved, i)]
           step == [p \in (0..(n - 1)) \X T |-> HeadAt(t, resolved, p[1]) \o p[2]]
           out == CHOOSE g : Outs(t, resolved, g)
<1>1. n \in Nat
  BY LenProperties
<1>2. \A g : Outs(t, resolved, g) <=>
               /\ g = [i \in 0..n |-> g[i]] /\ g[n] = <<>>
               /\ \A i \in 0..(n - 1) :
                     g[i] = HeadAt(t, resolved, i) \o g[NextAt(t, resolved, i)]
  <2>1. TAKE g
  <2>2. OutAt(t, resolved, g, n) = <<>>
    BY DEF OutAt
  <2>3. \A i \in 0..(n - 1) :
           OutAt(t, resolved, g, i) = HeadAt(t, resolved, i) \o g[NextAt(t, resolved, i)]
    <3>1. TAKE i \in 0..(n - 1)
    <3>2. i # Len(t)
      BY <1>1
    <3>3. CASE Engine!Replaced(t, resolved, i) = {}
      BY <3>2, <3>3, Zenon DEF OutAt, HeadAt, NextAt
    <3>4. CASE Engine!Replaced(t, resolved, i) # {}
      <4> DEFINE d == CHOOSE d \in Engine!Replaced(t, resolved, i) : TRUE
      <4>1. OutAt(t, resolved, g, i) = Engine!Replacement(t, d) \o g[i + d.end - d.start]
        BY <3>2, <3>4 DEF OutAt
      <4>2. /\ HeadAt(t, resolved, i) = Engine!Replacement(t, d)
            /\ NextAt(t, resolved, i) = i + d.end - d.start
        BY <3>4 DEF HeadAt, NextAt
      <4> HIDE DEF d
      <4>3. QED
        BY <4>1, <4>2
    <3>5. QED
      BY <3>3, <3>4
  <2>4. \A i \in 0..n : i = n \/ i \in 0..(n - 1)
    BY <1>1
  <2>5. n \in 0..n /\ \A i \in 0..(n - 1) : i \in 0..n
    BY <1>1
  <2>6. Outs(t, resolved, g) <=> g = [i \in 0..n |-> OutAt(t, resolved, g, i)]
    BY DEF Outs
  <2>7. ASSUME g = [i \in 0..n |-> OutAt(t, resolved, g, i)]
        PROVE  /\ g = [i \in 0..n |-> g[i]] /\ g[n] = <<>>
               /\ \A i \in 0..(n - 1) :
                     g[i] = HeadAt(t, resolved, i) \o g[NextAt(t, resolved, i)]
    <3>1. \A i \in 0..n : g[i] = OutAt(t, resolved, g, i)
      BY <2>7
    <3>2. g = [i \in 0..n |-> g[i]]
      BY <2>7
    <3> HIDE DEF n
    <3>3. QED
      BY <2>2, <2>3, <2>5, <3>1, <3>2
  <2>8. ASSUME /\ g = [i \in 0..n |-> g[i]] /\ g[n] = <<>>
               /\ \A i \in 0..(n - 1) :
                     g[i] = HeadAt(t, resolved, i) \o g[NextAt(t, resolved, i)]
        PROVE  g = [i \in 0..n |-> OutAt(t, resolved, g, i)]
    <3>1. \A i \in 0..n : g[i] = OutAt(t, resolved, g, i)
      BY <2>2, <2>3, <2>4, <2>8
    <3>2. QED
      BY <2>8, <3>1
  <2>9. QED
    BY <2>6, <2>7, <2>8
<1>3. /\ next \in [0..(n - 1) -> 1..n]
      /\ \A i \in 0..(n - 1) : next[i] > i /\ HeadAt(t, resolved, i) \in Seq(Symbols(t, resolved))
  <2>1. ASSUME NEW i \in 0..(n - 1)
        PROVE  /\ NextAt(t, resolved, i) \in 1..n /\ NextAt(t, resolved, i) > i
               /\ HeadAt(t, resolved, i) \in Seq(Symbols(t, resolved))
    <3>1. NextAt(t, resolved, i) \in (i + 1)..n /\ HeadAt(t, resolved, i) \in Seq(Symbols(t, resolved))
      BY NextFacts
    <3>2. QED
      BY <1>1, <3>1
  <2>2. QED
    BY <2>1
<1>4. step \in [(0..(n - 1)) \X T -> T]
  <2>1. ASSUME NEW i \in 0..(n - 1), NEW s \in T
        PROVE  HeadAt(t, resolved, i) \o s \in T
    <3>1. HeadAt(t, resolved, i) \in T
      BY <1>3
    <3>2. QED
      BY <3>1, ConcatProperties
  <2> HIDE DEF T
  <2>2. QED
    BY <2>1
<1>5. \A f \in [0..n -> T] :
         \A i \in 0..(n - 1) :
            step[<<i, f[next[i]]>>] = HeadAt(t, resolved, i) \o f[NextAt(t, resolved, i)]
  <2>1. ASSUME NEW f \in [0..n -> T], NEW i \in 0..(n - 1)
        PROVE  step[<<i, f[next[i]]>>] = HeadAt(t, resolved, i) \o f[NextAt(t, resolved, i)]
    <3>1. next[i] = NextAt(t, resolved, i)
      OBVIOUS
    <3>2. next[i] \in 1..n
      BY <1>3
    <3>3. next[i] = NextAt(t, resolved, i) /\ NextAt(t, resolved, i) \in 0..n
      <4> HIDE DEF next
      <4>1. QED
        BY <1>1, <3>1, <3>2
    <3>4. f[NextAt(t, resolved, i)] \in T
      BY <3>3
    <3> HIDE DEF T, n, next
    <3>5. QED
      BY <3>3, <3>4
  <2>2. QED
    BY <2>1
<1>6. \E f \in [0..n -> T] :
         /\ f[n] = <<>>
         /\ \A i \in 0..(n - 1) : f[i] = HeadAt(t, resolved, i) \o f[NextAt(t, resolved, i)]
  <2> DEFINE none == <<>>
  <2>1. none \in T
    OBVIOUS
  <2>2. next \in [0..(n - 1) -> 1..n] /\ \A i \in 0..(n - 1) : next[i] > i
    BY <1>3
  <2> HIDE DEF n, T, next, step, none
  <2>3. PICK f \in [0..n -> T] :
           f[n] = none /\ \A i \in 0..(n - 1) : f[i] = step[<<i, f[next[i]]>>]
    <3>1. Descends(n, T, none, next, step)
      BY <1>1, <2>2, <1>4, <2>1 DEF Descends
    <3>2. QED
      BY <3>1, DownFunction
  <2>4. QED
    BY <1>5, <2>3 DEF none
<1>7. \E g : Outs(t, resolved, g)
  <2>1. PICK f \in [0..n -> T] :
           /\ f[n] = <<>>
           /\ \A i \in 0..(n - 1) : f[i] = HeadAt(t, resolved, i) \o f[NextAt(t, resolved, i)]
    BY <1>6
  <2>2. f = [i \in 0..n |-> f[i]]
    BY <2>1
  <2>3. QED
    BY <1>2, <2>1, <2>2
<1>8. Outs(t, resolved, out)
  BY <1>7
<1>9. Engine!ApplyReplacements(t, resolved) = out[0]
  BY DEF Engine!ApplyReplacements, Outs, OutAt
<1> HIDE DEF out
<1>10. /\ out = [i \in 0..n |-> out[i]] /\ out[n] = <<>>
       /\ \A i \in 0..(n - 1) : out[i] = HeadAt(t, resolved, i) \o out[NextAt(t, resolved, i)]
  BY <1>2, <1>8
<1>11. \A i \in 0..n : out[i] \in T
  <2> DEFINE Q == {i \in 1..(n + 1) : out[i - 1] \in T}
  <2>1. ASSUME NEW i \in 1..(n + 1), \A j \in 1..(n + 1) : j > i => j \in Q
        PROVE  i \in Q
    <3>1. SUFFICES out[i - 1] \in T
      <4> HIDE DEF T
      <4>1. QED
        OBVIOUS
    <3>2. CASE i = n + 1
      <4>1. out[i - 1] = <<>>
        BY <1>1, <1>10, <3>2
      <4>2. QED
        BY <4>1
    <3>3. CASE i # n + 1
      <4>1. i - 1 \in 0..(n - 1)
        BY <1>1, <3>3
      <4> DEFINE k == NextAt(t, resolved, i - 1)
      <4>2. k \in i..n
        <5>1. k \in ((i - 1) + 1)..n
          BY <4>1, NextFacts
        <5>2. QED
          BY <1>1, <5>1
      <4> HIDE DEF k
      <4>3. k + 1 \in 1..(n + 1) /\ k + 1 > i /\ (k + 1) - 1 = k
        BY <1>1, <4>2
      <4>4. out[k] \in T
        BY <2>1, <4>3
      <4>5. out[i - 1] = HeadAt(t, resolved, i - 1) \o out[k]
        BY <1>10, <4>1 DEF k
      <4>6. HeadAt(t, resolved, i - 1) \in T
        BY <1>3, <4>1
      <4>7. out[i - 1] \in T
        BY <4>4, <4>5, <4>6, ConcatProperties
      <4>8. QED
        BY <4>7 DEF T
    <3>4. QED
      BY <3>2, <3>3
  <2>2. Q = 1..(n + 1)
    <3>1. Q \in SUBSET (1..(n + 1)) /\ n + 1 \in Nat
      BY <1>1
    <3> HIDE DEF Q
    <3>2. QED
      BY <2>1, <3>1, DownFrom
  <2>3. ASSUME NEW i \in 0..n
        PROVE  out[i] \in T
    <3>1. i + 1 \in Q /\ (i + 1) - 1 = i
      <4>1. i + 1 \in 1..(n + 1) /\ (i + 1) - 1 = i
        BY <1>1
      <4> HIDE DEF Q
      <4>2. QED
        BY <2>2, <4>1
    <3>2. QED
      BY <3>1
  <2>4. QED
    BY <2>3
<1>12. out \in [0..n -> T]
  BY <1>10, <1>11
<1>13. QED
  BY <1>9, <1>10, <1>12

\* What stands for each position of a text, and goes on behind it
Follows(t, resolved, g) ==
    /\ g \in [0..Len(t) -> Seq(Symbols(t, resolved))]
    /\ g[Len(t)] = <<>>
    /\ \A i \in 0..(Len(t) - 1) : g[i] = HeadAt(t, resolved, i) \o g[NextAt(t, resolved, i)]

\* What stands for an original is no character.
LEMMA NoCharacter ==
    ASSUME NEW t \in Seq(EngineChars \cup DOMAIN mappings), Len(t) <= MaxSymbols,
           NEW resolved, ActsWell(t, resolved), NEW d \in resolved
    PROVE  /\ Engine!Part(t, d) \in BoundedSeq(EngineChars, MaxSymbols)
           /\ Engine!AliasOf(Engine!Part(t, d)) \notin EngineChars
           /\ Engine!Mark \notin EngineChars
<1> DEFINE o == Engine!Part(t, d)
<1>1. o \in Seq(EngineChars) /\ Len(o) <= MaxSymbols /\ MaxSymbols \in Nat
  <2>1. /\ d.start \in Nat /\ d.end \in Nat /\ d.start < d.end /\ d.end <= Len(t)
        /\ o \in Seq(EngineChars) /\ Len(o) = d.end - d.start
    BY PartFacts
  <2>2. Len(t) \in Nat
    BY LenProperties
  <2> HIDE DEF o
  <2>3. QED
    BY <2>1, <2>2, BoundsAssumption
<1>2. o \in BoundedSeq(EngineChars, MaxSymbols)
  <2> HIDE DEF o
  <2>1. Len(o) \in 0..MaxSymbols /\ o \in [1..Len(o) -> EngineChars]
    BY <1>1, LenProperties
  <2>2. QED
    BY <2>1 DEF BoundedSeq, SeqOf
<1> HIDE DEF o
<1>3. Engine!AliasOf(o) \notin EngineChars /\ Engine!Mark \notin EngineChars
  BY <1>2, EngineAssumption
<1>4. QED
  BY <1>2, <1>3 DEF o

\* The first of a replacement is the mark, or what aliases begin with before an alias.
LEMMA HeadFacts ==
    ASSUME NEW t \in Seq(EngineChars \cup DOMAIN mappings), Len(t) <= MaxSymbols,
           NEW resolved, ActsWell(t, resolved), NEW i \in 0..(Len(t) - 1)
    PROVE  LET h == HeadAt(t, resolved, i) IN
           \/ /\ h = <<t[i + 1]>> /\ NextAt(t, resolved, i) = i + 1
              /\ Clean(resolved, i) => Free(resolved, i + 1)
           \/ Len(h) = 1 /\ h[1] \notin EngineChars
           \/ Len(h) = 2 /\ h[1] = Stem /\ h[2] \notin EngineChars
<1> DEFINE h == HeadAt(t, resolved, i)
<1>1. CASE /\ h = <<t[i + 1]>> /\ NextAt(t, resolved, i) = i + 1
           /\ Clean(resolved, i) => Free(resolved, i + 1)
  BY <1>1
<1>2. CASE \E d \in resolved : h = Engine!Replacement(t, d)
  <2>1. PICK d \in resolved : h = Engine!Replacement(t, d)
    BY <1>2
  <2> DEFINE a == Engine!AliasOf(Engine!Part(t, d))
             m == Engine!Mark
  <2>2. a \notin EngineChars /\ m \notin EngineChars
    BY NoCharacter
  <2>3. h = <<m>> \/ h = <<Stem, a>>
    BY <2>1, ReplacementFacts
  <2> HIDE DEF a, m, h
  <2>4. CASE h = <<m>>
    BY <2>2, <2>4 DEF h
  <2>5. CASE h = <<Stem, a>>
    BY <2>2, <2>5 DEF h
  <2>6. QED
    BY <2>3, <2>4, <2>5
<1>3. QED
  BY <1>1, <1>2, NextFacts

\* What is shown of a text that no finding touches
Shows(t, resolved, s, k, l, j) ==
    /\ j + l <= Len(t)
    /\ \A m \in 1..l : s[k + m] = t[j + m] /\ Free(resolved, j + m)

\* A run of characters, of which the last is not what aliases begin with
Unbroken(s, k, l) ==
    /\ l >= 1 /\ k + l <= Len(s)
    /\ \A m \in 1..l : s[k + m] \in EngineChars
    /\ s[k + l] # Stem

Runs(t, resolved, g, i) ==
    \A k, l \in Nat :
       Unbroken(g[i], k, l) =>
          \E j \in i..Len(t) : (k = 0 => j = i) /\ Shows(t, resolved, g[i], k, l, j)

\* A run behind the first symbols of a sequence is one of what follows them.
Behind(h, v, u) ==
    \A k, l \in Nat :
       k >= Len(h) /\ Unbroken(u, k, l) =>
          /\ k - Len(h) \in Nat /\ Unbroken(v, k - Len(h), l)
          /\ \A m \in 1..l : u[k + m] = v[(k - Len(h)) + m]

LEMMA RunBehind ==
    ASSUME NEW S, NEW h \in Seq(S), NEW v \in Seq(S)
    PROVE  Behind(h, v, h \o v)
<1> DEFINE u == h \o v
<1> SUFFICES ASSUME NEW k \in Nat, NEW l \in Nat, k >= Len(h), Unbroken(u, k, l)
             PROVE  /\ k - Len(h) \in Nat /\ Unbroken(v, k - Len(h), l)
                    /\ \A m \in 1..l : u[k + m] = v[(k - Len(h)) + m]
  BY Zenon DEF Behind
<1> DEFINE p == k - Len(h)
<1>1. Len(h) \in Nat /\ Len(v) \in Nat /\ p \in Nat /\ p + Len(h) = k
  BY LenProperties
<1>2. /\ Len(u) = Len(h) + Len(v)
      /\ \A m \in 1..(Len(h) + Len(v)) : u[m] = IF m <= Len(h) THEN h[m] ELSE v[m - Len(h)]
  BY ConcatProperties
<1>3. l >= 1 /\ k + l <= Len(u) /\ (\A m \in 1..l : u[k + m] \in EngineChars) /\ u[k + l] # Stem
  BY DEF Unbroken
<1> HIDE DEF u, p
<1>4. p + l <= Len(v)
  BY <1>1, <1>2, <1>3
<1>5. ASSUME NEW m \in 1..l
      PROVE  u[k + m] = v[p + m]
  <2>1. k + l <= Len(h) + Len(v) /\ m \in Nat /\ m >= 1 /\ m <= l
    BY <1>2, <1>3
  <2>2. /\ k + m \in 1..(Len(h) + Len(v)) /\ ~ (k + m <= Len(h))
        /\ (k + m) - Len(h) = p + m
    BY <1>1, <2>1
  <2>3. u[k + m] = v[(k + m) - Len(h)]
    BY <1>2, <2>2, Zenon
  <2>4. QED
    BY <2>2, <2>3
<1>6. l \in 1..l
  BY <1>3
<1>7. Unbroken(v, p, l)
  BY <1>3, <1>4, <1>5, <1>6 DEF Unbroken
<1>8. QED
  BY <1>1, <1>5, <1>7 DEF u, p

\* Characters one after the other in the result are so in the text, with no finding there.
LEMMA CharactersRun ==
    ASSUME NEW t \in Seq(EngineChars \cup DOMAIN mappings), Len(t) <= MaxSymbols,
           NEW resolved, ActsWell(t, resolved), NEW g, Follows(t, resolved, g)
    PROVE  \A i \in 0..Len(t) : Clean(resolved, i) => Runs(t, resolved, g, i)
<1> DEFINE n == Len(t)
           Q == {i \in 1..(n + 1) : Clean(resolved, i - 1) => Runs(t, resolved, g, i - 1)}
<1>1. n \in Nat
  BY LenProperties
<1>2. Runs(t, resolved, g, n)
  <2>1. g[n] = <<>> /\ Len(<<>>) = 0
    BY DEF Follows
  <2> HIDE DEF n
  <2>2. \A k, l \in Nat : l >= 1 => ~ (k + l <= Len(g[n]))
    BY <2>1
  <2>3. QED
    BY <2>2 DEF Runs, Unbroken
<1>3. ASSUME NEW i \in 0..(n - 1), Clean(resolved, i),
             \A j \in (i + 1)..n : Clean(resolved, j) => Runs(t, resolved, g, j)
      PROVE  Runs(t, resolved, g, i)
  <2> DEFINE h == HeadAt(t, resolved, i)
             q == NextAt(t, resolved, i)
             u == g[i]
             v == g[q]
             S == Symbols(t, resolved)
  <2>1. q \in (i + 1)..n /\ h \in Seq(S) /\ Clean(resolved, q)
    BY <1>3, NextFacts
  <2>2. \/ h = <<t[i + 1]>> /\ q = i + 1 /\ Free(resolved, i + 1)
        \/ Len(h) = 1 /\ h[1] \notin EngineChars
        \/ Len(h) = 2 /\ h[1] = Stem /\ h[2] \notin EngineChars
    BY <1>3, HeadFacts
  <2>3. Runs(t, resolved, g, q)
    BY <1>3, <2>1
  <2>4. v \in Seq(S) /\ Len(v) \in Nat
    <3>1. q \in 0..n
      BY <1>1, <2>1
    <3> HIDE DEF q
    <3>2. QED
      BY <3>1, LenProperties DEF Follows
  <2>5. u = h \o v
    BY DEF Follows
  <2> HIDE DEF h, q, u, v, S
  <2>6. /\ Len(h) \in 1..2 /\ ~ (0 >= Len(h)) /\ Len(u) = Len(h) + Len(v)
        /\ \A m \in 1..Len(h) : u[m] = h[m]
    <3>1. Len(h) \in 1..2 /\ ~ (0 >= Len(h))
      BY <2>2
    <3>2. /\ Len(u) = Len(h) + Len(v)
          /\ \A m \in 1..(Len(h) + Len(v)) : u[m] = IF m <= Len(h) THEN h[m] ELSE v[m - Len(h)]
      BY <2>1, <2>4, <2>5, ConcatProperties
    <3>3. \A m \in 1..Len(h) : m \in 1..(Len(h) + Len(v)) /\ m <= Len(h)
      BY <2>4, <3>1
    <3>4. QED
      BY <3>1, <3>2, <3>3
  <2>7. Behind(h, v, u)
    <3>1. Behind(h, v, h \o v)
      BY <2>1, <2>4, RunBehind
    <3>2. QED
      BY <2>5, <3>1
  <2>8. ASSUME NEW k \in Nat, NEW l \in Nat, Unbroken(u, k, l)
        PROVE  \E j \in i..n : (k = 0 => j = i) /\ Shows(t, resolved, u, k, l, j)
    <3>1. l >= 1 /\ k + l <= Len(u) /\ (\A m \in 1..l : u[k + m] \in EngineChars) /\ u[k + l] # Stem
      BY <2>8 DEF Unbroken
    <3>2. CASE k >= Len(h)
      <4> DEFINE p == k - Len(h)
      <4>1. /\ p \in Nat /\ Unbroken(v, p, l)
            /\ \A m \in 1..l : u[k + m] = v[p + m]
        BY <2>7, <2>8, <3>2 DEF Behind
      <4> HIDE DEF p
      <4>2. PICK j \in q..n : Shows(t, resolved, v, p, l, j)
        BY <2>3, <4>1 DEF Runs, v
      <4>3. j \in i..n
        BY <1>1, <2>1
      <4>4. Shows(t, resolved, u, k, l, j)
        <5>1. /\ j + l <= Len(t)
              /\ \A m \in 1..l : v[p + m] = t[j + m] /\ Free(resolved, j + m)
          BY <4>2 DEF Shows
        <5>2. ASSUME NEW m \in 1..l
              PROVE  u[k + m] = t[j + m] /\ Free(resolved, j + m)
          <6>1. u[k + m] = v[p + m]
            BY <4>1
          <6>2. v[p + m] = t[j + m] /\ Free(resolved, j + m)
            BY <5>1
          <6>3. QED
            BY <6>1, <6>2
        <5>3. QED
          BY <5>1, <5>2 DEF Shows
      <4>5. k # 0
        BY <2>6, <3>2, Zenon
      <4>6. QED
        BY <4>3, <4>4, <4>5
    <3>3. CASE k < Len(h)
      <4>1. CASE Len(h) = 1 /\ h[1] \notin EngineChars
        <5>1. k = 0 /\ 1 \in 1..l /\ 1 \in 1..Len(h) /\ k + 1 = 1
          BY <3>1, <3>3, <4>1
        <5>2. QED
          BY <2>6, <3>1, <4>1, <5>1
      <4>2. CASE Len(h) = 2 /\ h[1] = Stem /\ h[2] \notin EngineChars
        <5>1. 1 \in 1..Len(h) /\ 2 \in 1..Len(h)
          BY <4>2
        <5>2. CASE k = 0 /\ l = 1
          <6>1. k + l = 1
            BY <5>2
          <6>2. QED
            BY <2>6, <3>1, <4>2, <5>1, <6>1
        <5>3. CASE k = 0 /\ l # 1
          <6>1. 2 \in 1..l /\ k + 2 = 2
            BY <3>1, <5>3
          <6>2. QED
            BY <2>6, <3>1, <4>2, <5>1, <6>1
        <5>4. CASE k # 0
          <6>1. 1 \in 1..l /\ k + 1 = 2
            BY <3>1, <3>3, <4>2, <5>4
          <6>2. QED
            BY <2>6, <3>1, <4>2, <5>1, <6>1
        <5>5. QED
          BY <5>2, <5>3, <5>4
      <4>3. CASE h = <<t[i + 1]>> /\ q = i + 1 /\ Free(resolved, i + 1)
        <5>1. Len(h) = 1 /\ h[1] = t[i + 1]
          BY <4>3
        <5>2. k = 0 /\ u[1] = t[i + 1]
          <6>1. 1 \in 1..Len(h) /\ k = 0
            BY <3>3, <5>1
          <6>2. QED
            BY <2>6, <5>1, <6>1
        <5>3. /\ (i + 1) + (l - 1) <= n
              /\ \A m \in 1..(l - 1) : u[1 + m] = t[(i + 1) + m] /\ Free(resolved, (i + 1) + m)
          <6>1. CASE l = 1
            BY <1>1, <6>1
          <6>2. CASE l # 1
            <7>1. l - 1 \in Nat /\ l - 1 >= 1 /\ 1 + (l - 1) <= Len(u) /\ k + l = 1 + (l - 1)
              BY <3>1, <5>2, <6>2
            <7>2. ASSUME NEW m \in 1..(l - 1)
                  PROVE  u[1 + m] \in EngineChars
              <8>1. m + 1 \in 1..l /\ k + (m + 1) = 1 + m
                BY <5>2, <7>1
              <8>2. QED
                BY <3>1, <8>1
            <7>3. Unbroken(u, 1, l - 1)
              BY <3>1, <7>1, <7>2 DEF Unbroken
            <7>4. /\ Unbroken(v, 0, l - 1)
                  /\ \A m \in 1..(l - 1) : u[1 + m] = v[0 + m]
              <8>1. 1 >= Len(h) /\ 1 - Len(h) = 0 /\ 1 \in Nat
                BY <5>1
              <8>2. QED
                <9>1. /\ 1 - Len(h) \in Nat /\ Unbroken(v, 1 - Len(h), l - 1)
                      /\ \A m \in 1..(l - 1) : u[1 + m] = v[(1 - Len(h)) + m]
                  BY <2>7, <7>1, <7>3, <8>1, Zenon DEF Behind
                <9>2. QED
                  BY <8>1, <9>1
            <7>5. PICK j \in q..n : (0 = 0 => j = q) /\ Shows(t, resolved, v, 0, l - 1, j)
              BY <2>3, <7>1, <7>4 DEF Runs, v
            <7>6. Shows(t, resolved, v, 0, l - 1, i + 1)
              BY <4>3, <7>5
            <7>7. QED
              BY <7>4, <7>6 DEF Shows
          <6>3. QED
            BY <6>1, <6>2
        <5>4. ASSUME NEW m \in 1..l
              PROVE  u[k + m] = t[i + m] /\ Free(resolved, i + m)
          <6>1. CASE m = 1
            BY <4>3, <5>2, <6>1
          <6>2. CASE m # 1
            <7>1. m - 1 \in 1..(l - 1) /\ (i + 1) + (m - 1) = i + m /\ 1 + (m - 1) = k + m
              BY <5>2, <6>2
            <7>2. QED
              BY <5>3, <7>1
          <6>3. QED
            BY <6>1, <6>2
        <5>5. i + l <= n /\ i \in i..n
          BY <1>1, <5>3
        <5>6. Shows(t, resolved, u, k, l, i)
          BY <5>4, <5>5 DEF Shows
        <5>7. QED
          BY <5>5, <5>6
      <4>4. QED
        BY <2>2, <4>1, <4>2, <4>3
    <3>4. QED
      BY <2>6, <3>2, <3>3
  <2>9. QED
    BY <2>8 DEF Runs, u
<1>4. ASSUME NEW i \in 1..(n + 1), \A j \in 1..(n + 1) : j > i => j \in Q
      PROVE  i \in Q
  <2>1. SUFFICES ASSUME Clean(resolved, i - 1)
                 PROVE  Runs(t, resolved, g, i - 1)
    OBVIOUS
  <2>2. CASE i = n + 1
    <3>1. i - 1 = n
      BY <1>1, <2>2
    <3> HIDE DEF n
    <3>2. QED
      BY <1>2, <3>1
  <2>3. CASE i # n + 1
    <3>1. i - 1 \in 0..(n - 1)
      BY <1>1, <2>3
    <3>2. ASSUME NEW j \in ((i - 1) + 1)..n, Clean(resolved, j)
          PROVE  Runs(t, resolved, g, j)
      <4>1. j + 1 \in 1..(n + 1) /\ j + 1 > i /\ (j + 1) - 1 = j
        BY <1>1
      <4>2. j + 1 \in Q
        <5> HIDE DEF Q
        <5>1. QED
          BY <1>4, <4>1
      <4>3. QED
        BY <3>2, <4>1, <4>2
    <3> HIDE DEF n, Q
    <3>3. QED
      BY <1>3, <2>1, <3>1, <3>2
  <2>4. QED
    BY <2>2, <2>3
<1>5. Q = 1..(n + 1)
  <2>1. Q \in SUBSET (1..(n + 1)) /\ n + 1 \in Nat
    BY <1>1
  <2> HIDE DEF Q
  <2>2. QED
    BY <1>4, <2>1, DownFrom
<1>6. ASSUME NEW i \in 0..n, Clean(resolved, i)
      PROVE  Runs(t, resolved, g, i)
  <2>1. i + 1 \in 1..(n + 1) /\ (i + 1) - 1 = i
    BY <1>1
  <2>2. i + 1 \in Q
    <3> HIDE DEF Q
    <3>1. QED
      BY <1>5, <2>1
  <2>3. QED
    BY <1>6, <2>1, <2>2
<1>7. QED
  BY <1>6

\* Masking leaves no registered word where the dictionary would find it.
LEMMA NoWordLeft ==
    ASSUME NEW t \in Seq(EngineChars \cup DOMAIN mappings), Len(t) <= MaxSymbols,
           NEW resolved, ActsWell(t, resolved), NEW w \in Words, Plain(w),
           NEW k \in 0..Len(Engine!ApplyReplacements(t, resolved))
    PROVE  ~ Occurs(Engine!ApplyReplacements(t, resolved), w, k)
<1> DEFINE out == Engine!ApplyReplacements(t, resolved)
<1>1. SUFFICES ASSUME Occurs(out, w, k)
               PROVE  FALSE
  OBVIOUS
<1>2. PICK g : Follows(t, resolved, g) /\ out = g[0]
  BY OutFacts DEF Follows
<1>3. Len(t) \in Nat
  BY LenProperties
<1> HIDE DEF out
<1>4. out \in Seq(Symbols(t, resolved)) /\ Len(out) \in Nat
  BY <1>2, <1>3, LenProperties DEF Follows
<1>5. w \in Seq(EngineChars) /\ Len(w) \in Nat /\ Len(w) >= 1 /\ \A m \in 1..Len(w) : w[m] \in EngineChars
  BY WordFacts, ElementOfSeq
<1>6. k \in Nat
  BY <1>4 DEF out
<1>7. k + Len(w) <= Len(out) /\ \A m \in 1..Len(w) : Reads(w, w[m]) = Reads(w, out[k + m])
  BY <1>1 DEF Occurs
<1>8. Unbroken(out, k, Len(w))
  <2>1. \A m \in 1..Len(w) : out[k + m] \in EngineChars
    BY <1>5, <1>7, LowFacts DEF Reads
  <2>2. out[k + Len(w)] # Stem
    <3>1. Len(w) \in 1..Len(w)
      BY <1>5
    <3>2. Reads(w, w[Len(w)]) = Reads(w, out[k + Len(w)])
      BY <1>7, <3>1
    <3>3. QED
      BY <3>2 DEF Reads, Plain
  <2>3. QED
    BY <1>5, <1>7, <2>1, <2>2 DEF Unbroken
<1>9. Clean(resolved, 0)
  BY DEF ActsWell, Clean
<1>10. Runs(t, resolved, g, 0)
  BY <1>2, <1>3, <1>9, CharactersRun
<1>11. PICK j \in 0..Len(t) : Shows(t, resolved, out, k, Len(w), j)
  BY <1>2, <1>5, <1>6, <1>8, <1>10 DEF Runs
<1>12. Occurs(t, w, j)
  BY <1>7, <1>11 DEF Shows, Occurs
<1>13. PICK d \in resolved : d.start < j + Len(w) /\ j < d.end
  BY <1>12 DEF ActsWell
<1>14. d.start \in Nat /\ d.end \in Nat /\ d.start < d.end
  BY DEF ActsWell
<1>15. \A m \in 1..Len(w) : ~ (d.start < j + m /\ j + m <= d.end)
  BY <1>11 DEF Shows, Free
<1>16. CASE d.start <= j
  <2>1. 1 \in 1..Len(w) /\ d.start < j + 1 /\ j + 1 <= d.end
    BY <1>5, <1>13, <1>14, <1>16
  <2>2. QED
    BY <1>15, <2>1
<1>17. CASE d.start > j
  <2> DEFINE m == d.start + 1 - j
  <2>1. m \in 1..Len(w) /\ j + m = d.start + 1
    BY <1>5, <1>13, <1>14, <1>17
  <2> HIDE DEF m
  <2>2. d.start < j + m /\ j + m <= d.end
    BY <1>14, <2>1
  <2>3. QED
    BY <1>15, <2>1, <2>2
<1>18. QED
  BY <1>14, <1>16, <1>17

\* What the guard finds in a result is no word that the dictionary finds there.
LEMMA GuardFindsElusive ==
    ASSUME NEW t \in Seq(EngineChars \cup DOMAIN mappings), Len(t) <= MaxSymbols,
           NEW resolved, ActsWell(t, resolved), NEW w \in Words, NEW out,
           out = Engine!ApplyReplacements(t, resolved),
           Engine!HasPart(Engine!Folded(out), Engine!Folded(w))
    PROVE  \/ w \in case_sensitive /\ ~ Engine!HasPart(out, w)
           \/ Engine!Folded(w)[Len(w)] = Engine!Folded(<<Stem>>)[1]
<1> DEFINE S == Symbols(t, resolved)
           V == {Low(c) : c \in S}
<1>1. out \in Seq(S) /\ Len(out) \in Nat /\ DOMAIN out = 1..Len(out)
  <2>1. PICK g : Follows(t, resolved, g) /\ out = g[0]
    BY OutFacts DEF Follows
  <2>2. Len(t) \in Nat
    BY LenProperties
  <2>3. out \in Seq(S)
    BY <2>1, <2>2 DEF Follows
  <2> HIDE DEF S
  <2>4. QED
    BY <2>3, LenProperties
<1>2. w \in Seq(S) /\ w \in Seq(EngineChars) /\ Len(w) \in Nat /\ Len(w) >= 1
  BY WordFacts DEF Symbols
<1> HIDE DEF S
<1>3. Engine!Folded(w)[Len(w)] = Low(w[Len(w)])
  <2>1. Len(w) \in 1..Len(w)
    BY <1>2
  <2>2. QED
    BY <1>2, <2>1, FoldedFacts
<1>4. Engine!Folded(<<Stem>>)[1] = Low(Stem)
  <2>1. <<Stem>> \in Seq({Stem}) /\ Len(<<Stem>>) = 1 /\ <<Stem>>[1] = Stem
    OBVIOUS
  <2>2. Engine!Folded(<<Stem>>)[1] = Low(<<Stem>>[1])
    <3>1. 1 \in 1..Len(<<Stem>>)
      BY <2>1
    <3>2. QED
      BY <2>1, <3>1, FoldedFacts
  <2>3. QED
    BY <2>1, <2>2
<1>5. CASE w \in case_sensitive /\ Engine!HasPart(out, w) /\ Plain(w)
  <2>1. PICK i \in DOMAIN out : Engine!IsPrefix(w, SubSeq(out, i, Len(out)))
    BY <1>5 DEF Engine!HasPart
  <2> DEFINE k == i - 1
  <2>2. k \in 0..Len(out) /\ k + 1 = i
    BY <1>1
  <2> HIDE DEF k
  <2>3. k + Len(w) <= Len(out) /\ \A m \in 1..Len(w) : w[m] = out[k + m]
    BY <1>1, <1>2, <2>1, <2>2, StandsAt
  <2>4. Occurs(out, w, k)
    BY <1>5, <2>3 DEF Occurs, Reads
  <2>5. QED
    BY <1>5, <2>2, <2>4, NoWordLeft
<1>6. CASE w \notin case_sensitive /\ Plain(w)
  <2> DEFINE f == Engine!Folded(out)
  <2>1. Len(f) = Len(out) /\ DOMAIN f = 1..Len(out)
    BY <1>1, FoldedFacts, LenProperties
  <2>2. PICK i \in DOMAIN f : Engine!IsPrefix(Engine!Folded(w), SubSeq(f, i, Len(f)))
    BY DEF Engine!HasPart
  <2> DEFINE k == i - 1
  <2>3. k \in 0..Len(out) /\ k + 1 = i
    BY <1>1, <2>1
  <2> HIDE DEF k
  <2>4. Engine!IsPrefix(Engine!Folded(w), SubSeq(f, k + 1, Len(out)))
    BY <2>1, <2>2, <2>3
  <2>5. k + Len(w) <= Len(out) /\ \A m \in 1..Len(w) : Low(w[m]) = Low(out[k + m])
    BY <1>1, <1>2, <2>3, <2>4, FoldedStandsAt
  <2>6. Occurs(out, w, k)
    BY <1>6, <2>5 DEF Occurs, Reads
  <2>7. QED
    BY <1>6, <2>3, <2>6, NoWordLeft
<1>7. QED
  BY <1>3, <1>4, <1>5, <1>6 DEF Plain

-----------------------------------------------------------------------------
(* MaskingEngine: what a result reveals.                                   *)

\* What a sequence of sequences is joined to, place by place
Joins(S, seqs, f) ==
    /\ f \in [0..Len(seqs) -> Seq(S)] /\ f[0] = <<>>
    /\ \A i \in 1..Len(seqs) : f[i] = f[i - 1] \o seqs[i]

\* There is always such a function.
LEMMA JoinsExist ==
    ASSUME NEW S, NEW seqs \in Seq(Seq(S))
    PROVE  \E f : Joins(S, seqs, f)
<1> DEFINE n == Len(seqs)
           From(k, f) == /\ f \in [0..k -> Seq(S)] /\ f[0] = <<>>
                         /\ \A i \in 1..k : f[i] = f[i - 1] \o seqs[i]
           P == {k \in Nat : k <= n => \E f : From(k, f)}
<1>1. n \in Nat /\ \A i \in 1..n : seqs[i] \in Seq(S)
  BY LenProperties
<1>2. 0 \in P
  <2> DEFINE f == [i \in 0..0 |-> <<>>]
  <2>1. From(0, f)
    OBVIOUS
  <2> HIDE DEF From, f
  <2>2. QED
    BY <2>1
<1>3. ASSUME NEW k \in P
      PROVE  k + 1 \in P
  <2>1. SUFFICES ASSUME k + 1 <= n
                 PROVE  \E f : From(k + 1, f)
    <3> HIDE DEF From
    <3>1. QED
      OBVIOUS
  <2>2. k \in Nat /\ \E g : From(k, g)
    <3> HIDE DEF From
    <3>1. QED
      BY <1>1, <2>1
  <2>3. PICK g : From(k, g)
    BY <2>2
  <2> DEFINE e == g[k] \o seqs[k + 1]
             f == [i \in 0..(k + 1) |-> IF i = k + 1 THEN e ELSE g[i]]
  <2>4. e \in Seq(S)
    <3>1. g[k] \in Seq(S) /\ seqs[k + 1] \in Seq(S)
      BY <1>1, <2>1, <2>2, <2>3
    <3>2. QED
      BY <3>1, ConcatProperties
  <2>5. f[k + 1] = e /\ \A i \in 0..k : f[i] = g[i]
    <3> HIDE DEF e
    <3>1. QED
      OBVIOUS
  <2>6. f \in [0..(k + 1) -> Seq(S)]
    <3>1. \A i \in 0..(k + 1) : i # k + 1 => i \in 0..k
      BY <2>2
    <3>2. \A i \in 0..k : g[i] \in Seq(S)
      BY <2>3
    <3> HIDE DEF e
    <3>3. QED
      BY <2>4, <3>1, <3>2
  <2> HIDE DEF f, e
  <2>7. ASSUME NEW i \in 1..(k + 1)
        PROVE  f[i] = f[i - 1] \o seqs[i]
    <3>1. i - 1 \in 0..k /\ f[i - 1] = g[i - 1]
      BY <2>2, <2>5
    <3>2. CASE i = k + 1
      <4>1. f[i] = e /\ i - 1 = k /\ f[i - 1] = g[k]
        BY <2>2, <2>5, <3>1, <3>2
      <4>2. e = g[k] \o seqs[i]
        BY <3>2 DEF e
      <4>3. QED
        BY <4>1, <4>2
    <3>3. CASE i # k + 1
      <4>1. i \in 1..k /\ i \in 0..k
        BY <2>2, <3>3
      <4>2. g[i] = g[i - 1] \o seqs[i]
        BY <2>3, <4>1
      <4>3. QED
        BY <2>5, <3>1, <4>1, <4>2
    <3>4. QED
      BY <3>2, <3>3
  <2>8. From(k + 1, f)
    <3>1. f[0] = g[0] /\ g[0] = <<>>
      BY <2>2, <2>3, <2>5
    <3>2. QED
      BY <2>6, <2>7, <3>1
  <2> HIDE DEF From
  <2>9. QED
    BY <2>8
<1>4. P = Nat
  <2> HIDE DEF P
  <2>1. P \in SUBSET Nat
    BY DEF P
  <2>2. QED
    BY <1>2, <1>3, <2>1, NatFrom0
<1>5. \E f : From(n, f)
  <2>1. n \in P /\ n <= n
    <3> HIDE DEF P
    <3>1. QED
      BY <1>1, <1>4
  <2> HIDE DEF From
  <2>2. QED
    BY <2>1
<1>6. QED
  BY <1>5 DEF Joins

\* Sequences joined place by place are what FlattenSeq makes of them.
LEMMA FlattenIsJoined ==
    ASSUME NEW S, NEW seqs \in Seq(Seq(S)), NEW f, Joins(S, seqs, f)
    PROVE  Engine!FlattenSeq(seqs) = f[Len(seqs)] /\ f[Len(seqs)] \in Seq(S)
<1> DEFINE n == Len(seqs)
<1>1. /\ n \in Nat /\ f \in [0..n -> Seq(S)] /\ f[0] = <<>>
      /\ \A i \in 1..n : f[i] = f[i - 1] \o seqs[i] /\ seqs[i] \in Seq(S)
  BY LenProperties DEF Joins
<1>2. CASE n = 0
  <2>1. Engine!FlattenSeq(seqs) = seqs
    BY <1>2 DEF Engine!FlattenSeq
  <2>2. seqs = <<>>
    BY <1>2, EmptySeq
  <2>3. f[n] = <<>>
    BY <1>1, <1>2
  <2>4. QED
    BY <2>1, <2>2, <2>3
<1>3. CASE n # 0
  <2> DEFINE Gs(g) == g = [i \in 1..n |-> IF i = 1 THEN seqs[i] ELSE g[i - 1] \o seqs[i]]
             flatten == CHOOSE g : Gs(g)
             h == [i \in 1..n |-> f[i]]
  <2>1. \A i \in 1..n : h[i] = IF i = 1 THEN seqs[i] ELSE h[i - 1] \o seqs[i]
    <3>1. ASSUME NEW i \in 1..n
          PROVE  h[i] = IF i = 1 THEN seqs[i] ELSE h[i - 1] \o seqs[i]
      <4>1. CASE i = 1
        <5>1. h[1] = f[0] \o seqs[1]
          <6>1. 1 \in 1..n /\ 1 - 1 = 0
            BY <1>1, <4>1
          <6>2. h[1] = f[1] /\ f[1] = f[1 - 1] \o seqs[1]
            BY <1>1, <6>1
          <6>3. QED
            BY <6>1, <6>2
        <5>2. f[0] \o seqs[1] = seqs[1]
          BY <1>1, <4>1, ConcatEmptySeq
        <5>3. QED
          BY <4>1, <5>1, <5>2
      <4>2. CASE i # 1
        <5>1. i - 1 \in 1..n /\ h[i - 1] = f[i - 1] /\ h[i] = f[i]
          BY <1>1, <4>2
        <5>2. QED
          BY <1>1, <4>2, <5>1
      <4>3. QED
        BY <4>1, <4>2
    <3>2. QED
      BY <3>1
  <2>2. Gs(h)
    <3>1. h = [i \in 1..n |-> h[i]]
      OBVIOUS
    <3> HIDE DEF h
    <3>2. QED
      BY <2>1, <3>1
  <2>3. Gs(flatten)
    <3> HIDE DEF Gs, h
    <3>1. QED
      BY <2>2
  <2>4. Engine!FlattenSeq(seqs) = flatten[n]
    BY <1>3 DEF Engine!FlattenSeq
  <2> HIDE DEF flatten
  <2> DEFINE P == {i \in Nat : i + 1 <= n => flatten[i + 1] = h[i + 1]}
  <2>5. \A i \in 1..n : flatten[i] = IF i = 1 THEN seqs[i] ELSE flatten[i - 1] \o seqs[i]
    BY <2>3
  <2> HIDE DEF h, Gs
  <2>6. 0 \in P
    BY <1>1, <1>3, <2>1, <2>5
  <2>7. ASSUME NEW i \in P
        PROVE  i + 1 \in P
    <3>1. SUFFICES ASSUME (i + 1) + 1 <= n
                   PROVE  flatten[(i + 1) + 1] = h[(i + 1) + 1]
      OBVIOUS
    <3> DEFINE j == (i + 1) + 1
    <3>2. j \in 1..n /\ j # 1 /\ j - 1 = i + 1
      BY <1>1, <3>1
    <3>3. flatten[j - 1] = h[j - 1]
      BY <1>1, <3>1, <3>2
    <3> HIDE DEF j, P
    <3>4. flatten[j] = h[j]
      BY <2>1, <2>5, <3>2, <3>3
    <3>5. QED
      BY <3>4 DEF j
  <2>8. P = Nat
    <3> HIDE DEF P
    <3>1. P \in SUBSET Nat
      BY DEF P
    <3>2. QED
      BY <2>6, <2>7, <3>1, NatFrom0
  <2>9. flatten[n] = h[n]
    <3>1. n - 1 \in P /\ (n - 1) + 1 = n /\ n - 1 \in Nat
      <4> HIDE DEF P
      <4>1. QED
        BY <1>1, <1>3, <2>8
    <3>2. QED
      BY <1>1, <3>1
  <2>10. h[n] = f[n]
    BY <1>1, <1>3 DEF h
  <2>11. QED
    BY <1>1, <2>4, <2>9, <2>10
<1>4. QED
  BY <1>1, <1>2, <1>3

\* Joined one behind the other
LEMMA FlattenConcat ==
    ASSUME NEW S, NEW a \in Seq(Seq(S)), NEW b \in Seq(Seq(S))
    PROVE  /\ Engine!FlattenSeq(a \o b) = Engine!FlattenSeq(a) \o Engine!FlattenSeq(b)
           /\ Engine!FlattenSeq(a) \in Seq(S)
<1> DEFINE n == Len(a)
           m == Len(b)
           c == a \o b
<1>1. n \in Nat /\ m \in Nat
  BY LenProperties
<1>2. /\ c \in Seq(Seq(S)) /\ Len(c) = n + m
      /\ \A i \in 1..(n + m) : c[i] = IF i <= n THEN a[i] ELSE b[i - n]
  BY ConcatProperties
<1>3. PICK f : Joins(S, a, f)
  BY JoinsExist
<1>4. PICK g : Joins(S, b, g)
  BY JoinsExist
<1>5. /\ f \in [0..n -> Seq(S)] /\ f[0] = <<>> /\ \A i \in 1..n : f[i] = f[i - 1] \o a[i]
      /\ g \in [0..m -> Seq(S)] /\ g[0] = <<>> /\ \A i \in 1..m : g[i] = g[i - 1] \o b[i]
  BY <1>3, <1>4 DEF Joins
<1>6. \A i \in 1..m : b[i] \in Seq(S)
  BY LenProperties
<1> DEFINE h == [i \in 0..(n + m) |-> IF i <= n THEN f[i] ELSE f[n] \o g[i - n]]
<1>7. /\ Engine!FlattenSeq(a) = f[n] /\ f[n] \in Seq(S)
      /\ Engine!FlattenSeq(b) = g[m] /\ g[m] \in Seq(S)
  BY <1>3, <1>4, FlattenIsJoined
<1>8. \A i \in 0..m : h[n + i] = f[n] \o g[i] /\ f[n] \o g[i] \in Seq(S)
  <2>1. ASSUME NEW i \in 0..m
        PROVE  h[n + i] = f[n] \o g[i] /\ f[n] \o g[i] \in Seq(S)
    <3>1. f[n] \o g[i] \in Seq(S)
      BY <1>5, <1>7, ConcatProperties
    <3>2. CASE i = 0
      <4>1. f[n] \o <<>> = f[n]
        BY <1>7, ConcatEmptySeq
      <4>2. h[n + i] = f[n]
        BY <1>1, <3>2
      <4>3. QED
        BY <1>5, <3>1, <3>2, <4>1, <4>2
    <3>3. CASE i # 0
      <4>1. n + i \in 0..(n + m) /\ ~ (n + i <= n) /\ (n + i) - n = i
        BY <1>1, <3>3
      <4>2. QED
        BY <3>1, <4>1
    <3>4. QED
      BY <3>2, <3>3
  <2>2. QED
    BY <2>1
<1>9. \A i \in 0..n : h[i] = f[i] /\ f[i] \in Seq(S)
  <2>1. ASSUME NEW i \in 0..n
        PROVE  h[i] = f[i] /\ f[i] \in Seq(S)
    <3>1. i \in 0..(n + m) /\ i <= n
      BY <1>1
    <3>2. QED
      BY <1>5, <3>1
  <2>2. QED
    BY <2>1
<1>10. h \in [0..(n + m) -> Seq(S)]
  <2>1. \A i \in 0..(n + m) : h[i] \in Seq(S)
    <3>1. ASSUME NEW i \in 0..(n + m), ~ (i <= n)
          PROVE  h[i] \in Seq(S)
      <4>1. i - n \in 0..m /\ n + (i - n) = i
        BY <1>1, <3>1
      <4> HIDE DEF h
      <4>2. QED
        BY <1>8, <4>1
    <3>2. \A i \in 0..(n + m) : i <= n => i \in 0..n
      BY <1>1
    <3> HIDE DEF h
    <3>3. QED
      BY <1>9, <3>1, <3>2
  <2>2. QED
    BY <2>1
<1> HIDE DEF h, c
<1>11. ASSUME NEW i \in 1..(n + m)
       PROVE  h[i] = h[i - 1] \o c[i]
  <2>1. CASE i <= n
    <3>1. i \in 1..n /\ i - 1 \in 0..n /\ i \in 0..n
      BY <1>1, <2>1
    <3>2. QED
      BY <1>2, <1>5, <1>9, <2>1, <3>1
  <2>2. CASE ~ (i <= n)
    <3> DEFINE k == i - n
    <3>1. /\ k \in 1..m /\ k - 1 \in 0..m /\ k \in 0..m
          /\ n + k = i /\ n + (k - 1) = i - 1 /\ c[i] = b[k]
      BY <1>1, <1>2, <2>2
    <3> HIDE DEF k
    <3>2. h[i] = f[n] \o g[k] /\ h[i - 1] = f[n] \o g[k - 1]
      BY <1>8, <3>1
    <3>3. g[k] = g[k - 1] \o b[k] /\ g[k - 1] \in Seq(S) /\ b[k] \in Seq(S)
      BY <1>5, <1>6, <3>1
    <3>4. f[n] \o (g[k - 1] \o b[k]) = (f[n] \o g[k - 1]) \o b[k]
      <4> DEFINE p == f[n]
                 q == g[k - 1]
                 r == b[k]
      <4>1. p \in Seq(S) /\ q \in Seq(S) /\ r \in Seq(S)
        BY <1>7, <3>3
      <4> HIDE DEF p, q, r
      <4>2. (p \o q) \o r = p \o (q \o r)
        BY <4>1, Associative
      <4>3. QED
        BY <4>2 DEF p, q, r
    <3>5. QED
      BY <3>1, <3>2, <3>3, <3>4
  <2>3. QED
    BY <2>1, <2>2
<1>12. Joins(S, c, h)
  <2>1. h[0] = <<>>
    BY <1>1, <1>5, <1>9
  <2>2. QED
    BY <1>2, <1>10, <1>11, <2>1 DEF Joins
<1>13. Engine!FlattenSeq(c) = h[n + m]
  BY <1>2, <1>12, FlattenIsJoined
<1>14. h[n + m] = f[n] \o g[m]
  <2>1. m \in 0..m
    BY <1>1
  <2>2. QED
    BY <1>8, <2>1
<1>15. QED
  BY <1>7, <1>13, <1>14 DEF c

\* One of one each are themselves.
LEMMA FlattenOnes ==
    ASSUME NEW S, NEW s \in Seq(S), NEW ones, ones = [i \in DOMAIN s |-> <<s[i]>>]
    PROVE  Engine!FlattenSeq(ones) = s
<1> DEFINE n == Len(s)
           f == [i \in 0..n |-> SubSeq(s, 1, i)]
<1>1. n \in Nat /\ DOMAIN s = 1..n /\ \A i \in 1..n : s[i] \in S
  BY LenProperties
<1>2. ones \in Seq(Seq(S)) /\ Len(ones) = n /\ \A i \in 1..n : ones[i] = <<s[i]>>
  <2>1. \A i \in 1..n : <<s[i]>> \in Seq(S)
    BY <1>1
  <2>2. ones \in [1..n -> Seq(S)]
    BY <1>1, <2>1
  <2>3. QED
    BY <1>1, <2>2
<1>3. ASSUME NEW i \in 0..n
      PROVE  f[i] \in Seq(S)
  BY <1>1, SubSeqProperties
<1>4. f[0] = <<>>
  BY <1>1, SubSeqEmpty
<1>5. ASSUME NEW i \in 1..n
      PROVE  f[i] = f[i - 1] \o ones[i]
  <2>1. f[i] = SubSeq(s, 1, i) /\ f[i - 1] = SubSeq(s, 1, i - 1)
    BY <1>1
  <2>2. SubSeq(s, 1, i) = SubSeq(s, 1, i - 1) \o <<s[i]>>
    BY <1>1, SubSeqRecursiveSecond
  <2>3. QED
    BY <1>2, <2>1, <2>2
<1>6. Joins(S, ones, f)
  <2>1. f \in [0..n -> Seq(S)]
    BY <1>3
  <2> HIDE DEF f
  <2>2. QED
    BY <1>2, <1>4, <1>5, <2>1 DEF Joins
<1>7. Engine!FlattenSeq(ones) = f[n]
  <2> HIDE DEF f
  <2>1. QED
    BY <1>2, <1>6, FlattenIsJoined
<1>8. f[n] = s
  BY <1>1, SubSeqFull
<1>9. QED
  BY <1>7, <1>8

\* An alias of these ends here.
AliasEnds(known, t, i) == i \in 2..Len(t) /\ t[i - 1] = Stem /\ t[i] \in DOMAIN known

\* What is revealed for a symbol
ShownFor(known, t, i) ==
    IF AliasEnds(known, t, i) THEN known[t[i]].original
    ELSE IF AliasEnds(known, t, i + 1) THEN <<>>
    ELSE <<t[i]>>

RevealWith(known, t) == Engine!FlattenSeq([i \in DOMAIN t |-> ShownFor(known, t, i)])

\* What aliases stand for is made of this.
Originals(S, known) == \A a \in DOMAIN known : known[a].original \in Seq(S)

\* No alias goes across the beginning.
Opens(known, t) == t = <<>> \/ t[1] \notin DOMAIN known

\* A text is revealed piece by piece, if no piece breaks an alias.
LEMMA RevealConcat ==
    ASSUME NEW S, NEW known, Originals(S, known), NEW p \in Seq(S), NEW q \in Seq(S),
           Opens(known, q)
    PROVE  RevealWith(known, p \o q) = RevealWith(known, p) \o RevealWith(known, q)
<1> DEFINE w == p \o q
           m == Len(p)
           n == Len(q)
           P == [i \in DOMAIN p |-> ShownFor(known, p, i)]
           Q == [i \in DOMAIN q |-> ShownFor(known, q, i)]
           R == [i \in DOMAIN w |-> ShownFor(known, w, i)]
<1>1. /\ m \in Nat /\ DOMAIN p = 1..m /\ \A i \in 1..m : p[i] \in S
      /\ n \in Nat /\ DOMAIN q = 1..n /\ \A i \in 1..n : q[i] \in S
  BY LenProperties
<1>2. /\ w \in Seq(S) /\ Len(w) = m + n
      /\ \A i \in 1..(m + n) : w[i] = IF i <= m THEN p[i] ELSE q[i - m]
  BY ConcatProperties
<1>3. DOMAIN w = 1..(m + n)
  BY <1>1, <1>2, LenProperties
<1>4. n >= 1 => q[1] \notin DOMAIN known
  <2>1. n >= 1 => q # <<>>
    BY <1>1, EmptySeq
  <2>2. QED
    BY <2>1 DEF Opens
<1>5. \A c \in S : <<c>> \in Seq(S)
  OBVIOUS
<1>6. <<>> \in Seq(S)
  OBVIOUS
<1>7. \A i \in 1..m : ShownFor(known, p, i) \in Seq(S)
  BY <1>1, <1>5, <1>6, Zenon DEF ShownFor, Originals, AliasEnds
<1>8. \A i \in 1..n : ShownFor(known, q, i) \in Seq(S)
  BY <1>1, <1>5, <1>6, Zenon DEF ShownFor, Originals, AliasEnds
<1>9. \A i \in 1..m : w[i] = p[i]
  <2> HIDE DEF w, m, n
  <2>1. QED
    BY <1>1, <1>2
<1>10. \A i \in 1..n : w[m + i] = q[i]
  <2>1. TAKE i \in 1..n
  <2> HIDE DEF w, m, n
  <2>2. m + i \in 1..(m + n) /\ ~ (m + i <= m) /\ (m + i) - m = i
    BY <1>1
  <2>3. QED
    BY <1>2, <2>2
<1> HIDE DEF w
<1>11. ASSUME NEW i \in 1..m
       PROVE  ShownFor(known, w, i) = ShownFor(known, p, i)
  <2>1. AliasEnds(known, w, i) <=> AliasEnds(known, p, i)
    <3>1. i = 1 \/ i - 1 \in 1..m
      BY <1>1
    <3>2. i \in 2..Len(w) <=> i \in 2..Len(p)
      BY <1>1, <1>2
    <3>3. i # 1 => w[i - 1] = p[i - 1]
      BY <1>9, <3>1
    <3>4. ~ (1 \in 2..Len(w)) /\ ~ (1 \in 2..Len(p))
      OBVIOUS
    <3>5. QED
      BY <1>9, <3>2, <3>3, <3>4 DEF AliasEnds
  <2>2. AliasEnds(known, w, i + 1) <=> AliasEnds(known, p, i + 1)
    <3>1. (i + 1) - 1 = i
      BY <1>1
    <3>2. CASE i = m
      <4>1. ~ (i + 1 \in 2..Len(p))
        BY <1>1, <3>2
      <4>2. i + 1 \in 2..Len(w) => n >= 1 /\ 1 \in 1..n
        BY <1>1, <1>2, <3>2
      <4>3. i + 1 \in 2..Len(w) => w[i + 1] = q[1]
        BY <1>10, <3>2, <4>2
      <4>4. QED
        BY <1>4, <4>1, <4>2, <4>3 DEF AliasEnds
    <3>3. CASE i # m
      <4>1. i + 1 \in 1..m /\ i + 1 \in 2..Len(p) /\ i + 1 \in 2..Len(w)
        BY <1>1, <1>2, <3>3
      <4>2. w[i + 1] = p[i + 1] /\ w[i] = p[i]
        BY <1>9, <4>1
      <4>3. QED
        BY <3>1, <4>1, <4>2 DEF AliasEnds
    <3>4. QED
      BY <3>2, <3>3
  <2>3. w[i] = p[i]
    BY <1>9
  <2>4. QED
    BY <2>1, <2>2, <2>3 DEF ShownFor
<1>12. ASSUME NEW i \in 1..n
       PROVE  ShownFor(known, w, m + i) = ShownFor(known, q, i)
  <2>1. w[m + i] = q[i]
    BY <1>10
  <2>2. AliasEnds(known, w, m + i) <=> AliasEnds(known, q, i)
    <3>1. CASE i = 1
      <4>1. q[i] \notin DOMAIN known
        BY <1>1, <1>4, <3>1
      <4>2. QED
        BY <2>1, <4>1 DEF AliasEnds
    <3>2. CASE i # 1
      <4>1. /\ i - 1 \in 1..n /\ m + (i - 1) = (m + i) - 1
            /\ m + i \in 2..Len(w) /\ i \in 2..Len(q)
        BY <1>1, <1>2, <3>2
      <4>2. w[(m + i) - 1] = q[i - 1]
        BY <1>10, <4>1
      <4>3. QED
        BY <2>1, <4>1, <4>2 DEF AliasEnds
    <3>3. QED
      BY <3>1, <3>2
  <2>3. AliasEnds(known, w, (m + i) + 1) <=> AliasEnds(known, q, i + 1)
    <3>1. ((m + i) + 1) - 1 = m + i /\ (i + 1) - 1 = i
      BY <1>1
    <3>2. (m + i) + 1 \in 2..Len(w) <=> i + 1 \in 2..Len(q)
      BY <1>1, <1>2
    <3>3. i + 1 \in 2..Len(q) => w[(m + i) + 1] = q[i + 1]
      <4>1. m + (i + 1) = (m + i) + 1
        BY <1>1
      <4>2. i + 1 \in 2..Len(q) => i + 1 \in 1..n
        BY <1>1
      <4>3. QED
        BY <1>10, <4>1, <4>2
    <3>4. QED
      BY <2>1, <3>1, <3>2, <3>3 DEF AliasEnds
  <2>4. QED
    BY <2>1, <2>2, <2>3 DEF ShownFor
<1>13. /\ P \in Seq(Seq(S)) /\ Len(P) = m /\ \A i \in 1..m : P[i] = ShownFor(known, p, i)
  <2>1. P \in [1..m -> Seq(S)] /\ \A i \in 1..m : P[i] = ShownFor(known, p, i)
    BY <1>1, <1>7
  <2> HIDE DEF P, m
  <2>2. QED
    BY <1>1, <2>1
<1>14. /\ Q \in Seq(Seq(S)) /\ Len(Q) = n /\ \A i \in 1..n : Q[i] = ShownFor(known, q, i)
  <2>1. Q \in [1..n -> Seq(S)] /\ \A i \in 1..n : Q[i] = ShownFor(known, q, i)
    BY <1>1, <1>8
  <2> HIDE DEF Q, n
  <2>2. QED
    BY <1>1, <2>1
<1>15. R = P \o Q
  <2> DEFINE u == P \o Q
  <2>1. /\ u \in Seq(Seq(S)) /\ Len(u) = m + n
        /\ \A i \in 1..(m + n) : u[i] = IF i <= m THEN P[i] ELSE Q[i - m]
    <3> HIDE DEF P, Q, m, n
    <3>1. QED
      BY <1>13, <1>14, ConcatProperties
  <2>2. DOMAIN u = 1..(m + n)
    BY <1>1, <2>1, LenProperties
  <2>3. R = [i \in 1..(m + n) |-> ShownFor(known, w, i)]
    BY <1>3
  <2> HIDE DEF P, Q, R, u, m, n
  <2>4. ASSUME NEW i \in 1..(m + n)
        PROVE  u[i] = ShownFor(known, w, i)
    <3>1. CASE i <= m
      <4>1. i \in 1..m
        BY <1>1, <3>1
      <4>2. QED
        BY <1>11, <1>13, <2>1, <3>1, <4>1
    <3>2. CASE ~ (i <= m)
      <4>1. i - m \in 1..n /\ m + (i - m) = i
        BY <1>1, <3>2
      <4>2. ShownFor(known, w, m + (i - m)) = ShownFor(known, q, i - m)
        BY <1>12, <4>1
      <4>3. QED
        BY <1>14, <2>1, <3>2, <4>1, <4>2
    <3>3. QED
      BY <3>1, <3>2
  <2>5. u = [i \in 1..(m + n) |-> u[i]]
    BY <2>1, <2>2
  <2>6. u = R
    BY <2>3, <2>4, <2>5
  <2>7. QED
    BY <2>6 DEF u
<1>16. Engine!FlattenSeq(R) = Engine!FlattenSeq(P) \o Engine!FlattenSeq(Q)
  <2> HIDE DEF P, Q, R
  <2>1. QED
    BY <1>13, <1>14, <1>15, FlattenConcat
<1>17. QED
  BY <1>16 DEF RevealWith, w

\* What has no alias is shown as it is, and an alias alone as what it stands for.
LEMMA RevealSimple ==
    ASSUME NEW S, NEW known, Originals(S, known), Stem \notin DOMAIN known
    PROVE  /\ RevealWith(known, <<>>) = <<>>
           /\ \A p \in Seq(S) :
                 (\A i \in 1..Len(p) : p[i] \notin DOMAIN known) => RevealWith(known, p) = p
           /\ \A a \in DOMAIN known : RevealWith(known, <<Stem, a>>) = known[a].original
<1>1. ASSUME NEW p \in Seq(S), \A i \in 1..Len(p) : p[i] \notin DOMAIN known
      PROVE  RevealWith(known, p) = p
  <2>1. DOMAIN p = 1..Len(p) /\ Len(p) \in Nat
    BY LenProperties
  <2> DEFINE ones == [i \in DOMAIN p |-> <<p[i]>>]
  <2>2. \A i : ~ AliasEnds(known, p, i)
    <3>1. \A i \in 2..Len(p) : i \in 1..Len(p)
      BY <2>1
    <3>2. QED
      BY <1>1, <3>1 DEF AliasEnds
  <2>3. RevealWith(known, p) = Engine!FlattenSeq(ones)
    BY <2>2 DEF RevealWith, ShownFor
  <2>4. ones = [i \in DOMAIN p |-> <<p[i]>>]
    OBVIOUS
  <2> HIDE DEF ones
  <2>5. Engine!FlattenSeq(ones) = p
    BY <2>4, FlattenOnes
  <2>6. QED
    BY <2>3, <2>5
<1>2. RevealWith(known, <<>>) = <<>>
  <2> DEFINE none == <<>>
  <2>1. \A p \in Seq(S) :
           (\A i \in 1..Len(p) : p[i] \notin DOMAIN known) => RevealWith(known, p) = p
    BY <1>1
  <2>2. none \in Seq(S) /\ Len(none) = 0
    OBVIOUS
  <2>3. none = <<>>
    OBVIOUS
  <2> HIDE DEF none
  <2>4. RevealWith(known, none) = none
    <3>1. \A i \in 1..Len(none) : none[i] \notin DOMAIN known
      BY <2>2
    <3>2. QED
      BY <2>1, <2>2, <3>1, Zenon
  <2>5. QED
    BY <2>3, <2>4
<1>3. ASSUME NEW a \in DOMAIN known
      PROVE  RevealWith(known, <<Stem, a>>) = known[a].original
  <2> DEFINE o == known[a].original
             p == <<Stem, a>>
             two == <<<<>>, o>>
             f == [i \in 0..2 |-> IF i = 2 THEN o ELSE <<>>]
  <2>1. Len(p) = 2 /\ p[1] = Stem /\ p[2] = a /\ DOMAIN p = 1..2
    OBVIOUS
  <2>2. RevealWith(known, p) = Engine!FlattenSeq(two)
    <3> HIDE DEF p
    <3>1. AliasEnds(known, p, 2) /\ ~ AliasEnds(known, p, 1)
      BY <2>1 DEF AliasEnds
    <3>2. ShownFor(known, p, 1) = <<>> /\ ShownFor(known, p, 2) = o
      <4>1. 1 + 1 = 2
        OBVIOUS
      <4>2. QED
        BY <2>1, <3>1, <4>1 DEF ShownFor
    <3>3. [i \in DOMAIN p |-> ShownFor(known, p, i)] = two
      <4> DEFINE none == <<>>
      <4>1. DOMAIN two = 1..2 /\ two[1] = none /\ two[2] = o /\ two = [i \in 1..2 |-> two[i]]
        OBVIOUS
      <4>2. \A i \in 1..2 : i = 1 \/ i = 2
        OBVIOUS
      <4>3. \A i \in 1..2 : ShownFor(known, p, i) = two[i]
        BY <3>2, <4>1, <4>2
      <4> HIDE DEF two
      <4>4. QED
        BY <2>1, <4>1, <4>3
    <3>4. QED
      BY <3>3 DEF RevealWith
  <2>3. o \in Seq(S)
    BY DEF Originals
  <2> HIDE DEF o
  <2>4. two \in Seq(Seq(S)) /\ Len(two) = 2 /\ two[1] = <<>> /\ two[2] = o
    BY <2>3
  <2>5. <<>> \o o = o /\ <<>> \o <<>> = <<>>
    BY <2>3, ConcatEmptySeq
  <2>6. f \in [0..2 -> Seq(S)] /\ f[0] = <<>> /\ f[1] = <<>> /\ f[2] = o
    BY <2>3
  <2> HIDE DEF f, two
  <2>7. Joins(S, two, f)
    <3>1. f[2] = f[2 - 1] \o two[2]
      <4>1. 2 - 1 = 1
        OBVIOUS
      <4>2. QED
        BY <2>4, <2>5, <2>6, <4>1
    <3>2. f[1] = f[1 - 1] \o two[1]
      <4>1. 1 - 1 = 0
        OBVIOUS
      <4>2. QED
        BY <2>4, <2>5, <2>6, <4>1
    <3>3. \A i \in 1..2 : i = 1 \/ i = 2
      OBVIOUS
    <3>4. QED
      BY <2>4, <2>6, <3>1, <3>2, <3>3 DEF Joins
  <2>8. Engine!FlattenSeq(two) = f[2]
    BY <2>4, <2>7, FlattenIsJoined
  <2>9. QED
    BY <2>2, <2>6, <2>8 DEF o
<1>4. QED
  BY <1>1, <1>2, <1>3

\* Every replacement is an alias of what it replaces, but a redaction.
StandsFor(t, resolved, known) ==
    /\ \A a \in DOMAIN known : known[a].original \in Seq(EngineChars)
    /\ DOMAIN known \cap EngineChars = {}
    /\ \A d \in resolved :
          \/ Engine!Replacement(t, d) = <<Engine!Mark>>
          \/ \E a \in DOMAIN known : /\ Engine!Replacement(t, d) = <<Stem, a>>
                                     /\ known[a].original = Engine!Part(t, d)

\* The symbols of the aliases stand only in these.
SpelledOut(known, t) == \A k \in DOMAIN t : t[k] \in DOMAIN known => AliasEnds(known, t, k)

\* No finding takes a part of an alias of the text, and no copy of one does.
Untouched(t, resolved, known) ==
    \A k \in DOMAIN t : AliasEnds(known, t, k) =>
        \A d \in resolved :
           /\ ~ (d.start < k /\ k - 2 < d.end)
           /\ \A i \in 0..Len(t) :
                 Engine!IsCopy(t, resolved, d, i) => ~ (i < k /\ k - 2 < i + d.end - d.start)

\* Detection lets the aliases of a text alone, new ones included.
LEMMA AliasesSpared ==
    ASSUME NEW t \in Seq(EngineChars \cup DOMAIN mappings), NEW resolved, ActsWell(t, resolved),
           NEW known, DOMAIN known \cap EngineChars = {},
           NEW d \in resolved, NEW k \in DOMAIN t, AliasEnds(known, t, k)
    PROVE  ~ (d.start < k /\ k - 2 < d.end)
<1> SUFFICES ASSUME d.start < k, k - 2 < d.end
             PROVE  FALSE
  OBVIOUS
<1>1. /\ d.start \in Nat /\ d.end \in Nat /\ d.start < d.end /\ d.end <= Len(t)
      /\ \A m \in (d.start + 1)..d.end : t[m] \in EngineChars /\ ~ Engine!IsAlias(t, m + 1)
  BY DEF ActsWell
<1>2. /\ k \in 2..Len(t) /\ t[k - 1] = Stem /\ t[k] \in DOMAIN known
      /\ t[k] \in EngineChars \cup DOMAIN mappings /\ Len(t) \in Nat
  BY LenProperties DEF AliasEnds
<1>3. CASE k <= d.end
  <2>1. k \in (d.start + 1)..d.end
    BY <1>1, <1>2, <1>3
  <2>2. QED
    BY <1>1, <1>2, <2>1
<1>4. CASE ~ (k <= d.end)
  <2>1. k - 1 \in (d.start + 1)..d.end /\ (k - 1) + 1 = k
    BY <1>1, <1>2, <1>4
  <2>2. ~ Engine!IsAlias(t, k)
    BY <1>1, <2>1
  <2>3. t[k] \in DOMAIN mappings
    BY <1>2
  <2>4. Engine!IsAlias(t, k)
    BY <1>2, <2>3 DEF Engine!IsAlias, Engine!Issued
  <2>5. QED
    BY <2>2, <2>4
<1>5. QED
  BY <1>3, <1>4

\* A part of a text
LEMMA TextPart ==
    ASSUME NEW S, NEW t \in Seq(S), NEW i \in 0..Len(t), NEW q \in i..Len(t)
    PROVE  /\ SubSeq(t, i + 1, q) \in Seq(S)
           /\ Len(SubSeq(t, i + 1, q)) = q - i
           /\ \A m \in 1..(q - i) : SubSeq(t, i + 1, q)[m] = t[i + m]
<1> DEFINE n == Len(t)
<1>1. n \in Nat /\ \A k \in 1..n : t[k] \in S
  BY LenProperties
<1> HIDE DEF n
<1>2. i \in Nat /\ q \in Nat /\ i <= q /\ q <= n
  BY <1>1 DEF n
<1>3. \A k \in (i + 1)..q : t[k] \in S
  BY <1>1, <1>2
<1>4. i + 1 \in Int /\ q \in Int
  BY <1>2
<1>5. /\ SubSeq(t, i + 1, q) \in Seq(S)
      /\ Len(SubSeq(t, i + 1, q)) = IF i + 1 <= q THEN q - (i + 1) + 1 ELSE 0
      /\ \A m \in 1..(q - (i + 1) + 1) : SubSeq(t, i + 1, q)[m] = t[(i + 1) + m - 1]
  BY <1>3, <1>4, SubSeqProperties
<1>6. /\ q - (i + 1) + 1 = q - i
      /\ (IF i + 1 <= q THEN q - (i + 1) + 1 ELSE 0) = q - i
  BY <1>2
<1>7. \A m \in 1..(q - i) : (i + 1) + m - 1 = i + m
  BY <1>2
<1>8. QED
  BY <1>5, <1>6, <1>7

\* A part of one symbol
LEMMA OneOfSeq ==
    ASSUME NEW S, NEW t \in Seq(S), NEW i \in 1..Len(t)
    PROVE  SubSeq(t, i, i) = <<t[i]>>
<1>1. i \in i..Len(t) /\ i - 1 < i
  BY LenProperties
<1>2. SubSeq(t, i, i) = SubSeq(t, i, i - 1) \o <<t[i]>>
  BY <1>1, SubSeqRecursiveSecond
<1>3. SubSeq(t, i, i - 1) = <<>>
  BY <1>1, SubSeqEmpty
<1>4. <<t[i]>> \in Seq(S)
  <2>1. t[i] \in S
    BY LenProperties
  <2>2. QED
    BY <2>1
<1>5. <<>> \o <<t[i]>> = <<t[i]>>
  BY <1>4, ConcatEmptySeq
<1>6. QED
  BY <1>2, <1>3, <1>5

\* No alias of the text goes across the position.
Starts(known, t, i) == i = Len(t) \/ t[i + 1] \notin DOMAIN known

\* A step from i to q shows h, which reveals what the text does there.
Reveals(t, known, h, i, q) ==
    (\A k \in 1..Len(h) : h[k] # Engine!Mark) =>
        /\ h[1] \notin DOMAIN known
        /\ RevealWith(known, h) = RevealWith(known, SubSeq(t, i + 1, q))

\* Where a finding or a copy of it is replaced
LEMMA ReplacedReveals ==
    ASSUME NEW t \in Seq(EngineChars \cup DOMAIN mappings), NEW resolved, ActsWell(t, resolved),
           NEW known, StandsFor(t, resolved, known), SpelledOut(known, t),
           Untouched(t, resolved, known), NEW i \in 0..(Len(t) - 1), NEW d \in resolved,
           d.start = i \/ Engine!IsCopy(t, resolved, d, i),
           HeadAt(t, resolved, i) = Engine!Replacement(t, d),
           NextAt(t, resolved, i) = i + d.end - d.start,
           \A m \in 1..(d.end - d.start) : t[d.start + m] = t[i + m]
    PROVE  LET h == HeadAt(t, resolved, i)
               q == NextAt(t, resolved, i)
           IN  Len(h) >= 1 /\ Starts(known, t, q) /\ Reveals(t, known, h, i, q)
<1> DEFINE S == Symbols(t, resolved)
           h == HeadAt(t, resolved, i)
           q == NextAt(t, resolved, i)
           p == SubSeq(t, i + 1, q)
           o == Engine!Part(t, d)
           l == d.end - d.start
<1>1. q \in (i + 1)..Len(t) /\ Len(t) \in Nat /\ i \in Nat /\ t \in Seq(S)
  <2>1. q \in (i + 1)..Len(t)
    BY NextFacts
  <2> HIDE DEF q
  <2>2. QED
    BY <2>1, LenProperties DEF Symbols
<1>2. /\ o \in Seq(EngineChars) /\ Len(o) = l
      /\ \A m \in 1..l : o[m] = t[d.start + m] /\ t[d.start + m] \in EngineChars
      /\ l \in Nat /\ q = i + l /\ d.start \in Nat /\ d.end \in Nat
  BY PartFacts
<1>3. Starts(known, t, q)
  <2>1. SUFFICES ASSUME q # Len(t), t[q + 1] \in DOMAIN known
                 PROVE  FALSE
    BY DEF Starts
  <2> DEFINE k == q + 1
  <2>2. k \in 1..Len(t) /\ i < k /\ k - 2 < q
    <3> HIDE DEF q
    <3>1. QED
      BY <1>1, <2>1
  <2>3. k \in DOMAIN t /\ AliasEnds(known, t, k)
    BY <2>1, <2>2, LenProperties DEF SpelledOut
  <2>4. CASE d.start = i
    <3>1. d.start < k /\ k - 2 < d.end
      BY <1>2, <2>2, <2>4
    <3> HIDE DEF k
    <3>2. QED
      BY <2>3, <3>1 DEF Untouched
  <2>5. CASE Engine!IsCopy(t, resolved, d, i)
    <3>1. i \in 0..Len(t)
      BY <1>1
    <3>2. k - 2 < i + d.end - d.start
      BY <2>2
    <3> HIDE DEF k, q
    <3>3. QED
      BY <2>2, <2>3, <2>5, <3>1, <3>2 DEF Untouched
  <2>6. QED
    BY <2>4, <2>5
<1> HIDE DEF o, l
<1>4. CASE h = <<Engine!Mark>>
  <2> DEFINE m == Engine!Mark
  <2>1. h = <<m>>
    BY <1>4
  <2> HIDE DEF m, h
  <2>2. Len(h) = 1 /\ 1 \in 1..Len(h) /\ h[1] = m
    BY <2>1
  <2>3. QED
    BY <1>3, <2>2 DEF Reveals, m, h
<1>5. CASE \E a \in DOMAIN known : h = <<Stem, a>> /\ known[a].original = o
  <2>1. PICK a \in DOMAIN known : h = <<Stem, a>> /\ known[a].original = o
    BY <1>5
  <2>2. Stem \notin DOMAIN known /\ Originals(S, known)
    <3>1. Seq(EngineChars) \subseteq Seq(S)
      BY DEF Symbols
    <3> HIDE DEF S
    <3>2. QED
      BY <3>1, EngineAssumption DEF StandsFor, Originals
  <2>3. RevealWith(known, h) = o
    BY <2>1, <2>2, RevealSimple
  <2>4. Len(h) = 2 /\ h[1] = Stem
    <3> HIDE DEF h
    <3>1. QED
      BY <2>1
  <2> HIDE DEF h, q, S
  <2>5. p \in Seq(S) /\ Len(p) = l /\ \A m \in 1..l : p[m] = t[i + m]
    <3>1. i \in 0..Len(t) /\ q \in i..Len(t) /\ q - i = l
      BY <1>1, <1>2
    <3>2. QED
      BY <1>1, <3>1, TextPart
  <2> HIDE DEF p
  <2>6. \A m \in 1..l : p[m] = o[m]
    BY <1>2, <2>5 DEF l
  <2>7. o \in Seq(S)
    <3>1. Seq(EngineChars) \subseteq Seq(S)
      BY DEF Symbols, S
    <3>2. QED
      BY <1>2, <3>1
  <2>8. p = o
    BY <1>2, <2>5, <2>6, <2>7, SeqEqual
  <2>9. \A m \in 1..Len(p) : p[m] \notin DOMAIN known
    BY <1>2, <2>5, <2>6 DEF StandsFor
  <2>10. RevealWith(known, p) = p
    BY <2>2, <2>5, <2>9, RevealSimple
  <2>11. QED
    <3>1. RevealWith(known, h) = RevealWith(known, SubSeq(t, i + 1, q))
      BY <2>3, <2>8, <2>10 DEF p
    <3>2. Len(h) >= 1 /\ h[1] \notin DOMAIN known
      BY <2>2, <2>4
    <3>3. QED
      BY <1>3, <3>1, <3>2 DEF Reveals, q, h
<1>6. QED
  BY <1>4, <1>5 DEF StandsFor, o

\* Three sequences one after the other
LEMMA ConcatOfThree ==
    ASSUME NEW S, NEW r \in Seq(S), NEW s \in Seq(S), NEW w \in Seq(S)
    PROVE  r \o (s \o w) = (r \o s) \o w
  BY ConcatAssociative

\* Each position where no alias goes across is followed by another.
LEMMA StepReveals ==
    ASSUME NEW t \in Seq(EngineChars \cup DOMAIN mappings), NEW resolved, ActsWell(t, resolved),
           NEW known, StandsFor(t, resolved, known), SpelledOut(known, t),
           Untouched(t, resolved, known), NEW g, Follows(t, resolved, g),
           NEW i \in 0..(Len(t) - 1), Starts(known, t, i)
    PROVE  \E q \in (i + 1)..Len(t), h \in Seq(Symbols(t, resolved)) :
               /\ Len(h) >= 1 /\ g[i] = h \o g[q]
               /\ Starts(known, t, q) /\ Reveals(t, known, h, i, q)
<1> DEFINE S == Symbols(t, resolved)
           n == Len(t)
           h == HeadAt(t, resolved, i)
           q == NextAt(t, resolved, i)
<1>1. /\ n \in Nat /\ i \in Nat /\ q \in (i + 1)..n /\ h \in Seq(S)
      /\ t \in Seq(S) /\ \A k \in 1..n : t[k] \in EngineChars \cup DOMAIN mappings
  <2>1. q \in (i + 1)..n /\ h \in Seq(S)
    BY NextFacts
  <2>2. n \in Nat /\ t \in Seq(S)
    BY LenProperties DEF Symbols
  <2>3. \A k \in 1..n : t[k] \in EngineChars \cup DOMAIN mappings
    BY LenProperties
  <2> HIDE DEF n, q, h, S
  <2>4. QED
    BY <2>1, <2>2, <2>3
<1>2. g[i] = h \o g[q]
  BY DEF Follows
<1>3. CASE \E d \in resolved :
              /\ d.start = i \/ Engine!IsCopy(t, resolved, d, i)
              /\ h = Engine!Replacement(t, d) /\ q = i + d.end - d.start
              /\ \A m \in 1..(d.end - d.start) : t[d.start + m] = t[i + m]
  <2>1. Len(h) >= 1 /\ Starts(known, t, q) /\ Reveals(t, known, h, i, q)
    BY <1>3, ReplacedReveals
  <2> HIDE DEF h, q, S, n
  <2>2. QED
    BY <1>1, <1>2, <2>1 DEF S, n
<1>4. CASE /\ Engine!Replaced(t, resolved, i) = {}
           /\ h = <<t[i + 1]>> /\ q = i + 1
  <2>1. t[i + 1] \notin DOMAIN known
    <3>1. i # n
      BY <1>1
    <3>2. QED
      BY <3>1 DEF Starts
  <2>2. CASE Starts(known, t, q)
    <3>1. Reveals(t, known, h, i, q)
      <4>1. SubSeq(t, i + 1, i + 1) = <<t[i + 1]>>
        <5>1. i + 1 \in 1..n
          BY <1>1
        <5>2. QED
          BY <5>1, OneOfSeq
      <4>2. h[1] = t[i + 1]
        BY <1>4
      <4>3. QED
        BY <1>4, <2>1, <4>1, <4>2 DEF Reveals
    <3>2. Len(h) >= 1
      BY <1>4
    <3> HIDE DEF h, q, S, n
    <3>3. QED
      BY <1>1, <1>2, <2>2, <3>1, <3>2 DEF S, n
  <2>3. CASE ~ Starts(known, t, q)
    <3> DEFINE j == i + 1
               k == i + 2
               a == t[i + 2]
               f == HeadAt(t, resolved, j)
               z == NextAt(t, resolved, j)
               u == <<t[i + 1]>> \o <<a>>
    <3>1. k \in 1..n /\ j \in 0..(n - 1) /\ j \in 0..n /\ j + 1 = k /\ a \in DOMAIN known
      <4>1. q # n /\ t[q + 1] \in DOMAIN known
        BY <2>3 DEF Starts
      <4>2. (i + 1) + 1 = i + 2 /\ i + 1 # n /\ i + 1 \in 1..n
        BY <1>1, <1>4, <4>1
      <4>3. QED
        BY <1>1, <1>4, <4>1, <4>2
    <3>2. k \in DOMAIN t /\ AliasEnds(known, t, k)
      BY <3>1, LenProperties DEF SpelledOut
    <3>3. ASSUME NEW d \in resolved, d.start = j \/ Engine!IsCopy(t, resolved, d, j)
          PROVE  FALSE
      <4>1. d.start \in Nat /\ d.end \in Nat /\ d.start < d.end
        BY DEF ActsWell
      <4>2. CASE d.start = j
        <5>1. d.start < k /\ k - 2 < d.end
          BY <1>1, <4>1, <4>2
        <5> HIDE DEF k
        <5>2. QED
          BY <3>2, <5>1 DEF Untouched
      <4>3. CASE Engine!IsCopy(t, resolved, d, j)
        <5>1. j < k /\ k - 2 < j + d.end - d.start
          BY <1>1, <4>1
        <5> HIDE DEF k, j
        <5>2. QED
          BY <3>1, <3>2, <4>3, <5>1 DEF Untouched
      <4>4. QED
        BY <3>3, <4>2, <4>3
    <3>4. f = <<a>> /\ z = k
      <4>1. \/ f = <<t[j + 1]>> /\ z = j + 1
            \/ \E d \in resolved : d.start = j \/ Engine!IsCopy(t, resolved, d, j)
        <5> HIDE DEF j, f, z
        <5>1. QED
          BY <3>1, NextFacts DEF f, z
      <4>2. f = <<t[j + 1]>> /\ z = j + 1
        BY <3>3, <4>1
      <4>3. QED
        BY <1>1, <4>2
    <3>5. g[j] = f \o g[z]
      <4> HIDE DEF j, f, z
      <4>1. QED
        BY <3>1 DEF Follows, f, z
    <3>6. g[k] \in Seq(S)
      <4>1. k \in 0..n
        BY <1>1, <3>1
      <4> HIDE DEF k, S
      <4>2. QED
        BY <4>1 DEF Follows, S
    <3>7. <<t[i + 1]>> \in Seq(S) /\ <<a>> \in Seq(S) /\ t[i + 1] \in S /\ a \in S
      <4>1. i + 1 \in 1..n /\ i + 2 \in 1..n
        BY <1>1, <3>1
      <4>2. t[i + 1] \in S /\ a \in S
        BY <1>1, <4>1, LenProperties
      <4> HIDE DEF S, a
      <4>3. QED
        BY <4>2
    <3>8. g[i] = u \o g[k]
      <4> DEFINE c == <<t[i + 1]>>
                 b == <<a>>
                 v == g[k]
      <4>1. g[i] = c \o (b \o v)
        BY <1>2, <1>4, <3>4, <3>5
      <4>2. c \in Seq(S) /\ b \in Seq(S) /\ v \in Seq(S)
        BY <3>6, <3>7
      <4> HIDE DEF c, b, v, S
      <4>3. c \o (b \o v) = (c \o b) \o v
        BY <4>2, ConcatOfThree
      <4>4. g[i] = (c \o b) \o v
        BY <4>1, <4>3
      <4>5. QED
        BY <4>4, Zenon DEF c, b, v
    <3>9. u = SubSeq(t, i + 1, k)
      <4>1. SubSeq(t, i + 1, i + 1) = <<t[i + 1]>> /\ SubSeq(t, k, k) = <<a>>
        <5>1. i + 1 \in 1..n /\ k \in 1..n
          BY <1>1, <3>1
        <5>2. QED
          BY <5>1, OneOfSeq
      <4>2. SubSeq(t, i + 1, i + 1) \o SubSeq(t, (i + 1) + 1, k) = SubSeq(t, i + 1, k)
        <5>1. i + 1 \in 1..(n + 1) /\ i + 1 \in ((i + 1) - 1)..n /\ k \in (i + 1)..n
          BY <1>1, <3>1
        <5>2. QED
          BY <5>1, ConcatAdjacentSubSeq
      <4>3. (i + 1) + 1 = k
        BY <1>1
      <4>4. QED
        BY <4>1, <4>2, <4>3
    <3>10. u \in Seq(S) /\ Len(u) = 2 /\ u[1] = t[i + 1]
      <4>1. i \in 0..n /\ k \in i..n /\ k - i = 2
        BY <1>1, <3>1
      <4>2. 1 \in 1..2
        OBVIOUS
      <4> HIDE DEF u, k, S
      <4>3. QED
        BY <1>1, <3>9, <4>1, <4>2, TextPart
    <3>11. Reveals(t, known, u, i, k)
      BY <2>1, <3>9, <3>10 DEF Reveals
    <3>12. Starts(known, t, k)
      <4>1. SUFFICES ASSUME k # n, t[k + 1] \in DOMAIN known
                     PROVE  FALSE
        BY DEF Starts
      <4>2. k + 1 \in DOMAIN t /\ k + 1 \in 1..n /\ (k + 1) - 1 = k
        BY <1>1, <3>1, <4>1, LenProperties
      <4>3. t[k] = Stem
        <5>1. AliasEnds(known, t, k + 1)
          BY <4>1, <4>2 DEF SpelledOut
        <5>2. QED
          BY <4>2, <5>1 DEF AliasEnds
      <4>4. QED
        BY <3>1, <4>3, EngineAssumption DEF StandsFor
    <3> HIDE DEF u, k, S, n
    <3>13. k \in (i + 1)..n
      BY <1>1, <3>1 DEF k
    <3>14. Len(u) >= 1
      BY <3>10
    <3>15. QED
      BY <3>8, <3>10, <3>11, <3>12, <3>13, <3>14 DEF S, n
  <2>4. QED
    BY <2>2, <2>3
<1>5. QED
  <2>1. \/ /\ Engine!Replaced(t, resolved, i) = {}
           /\ h = <<t[i + 1]>> /\ q = i + 1
        \/ \E d \in resolved :
              /\ d.start = i \/ Engine!IsCopy(t, resolved, d, i)
              /\ h = Engine!Replacement(t, d) /\ q = i + d.end - d.start
              /\ \A m \in 1..(d.end - d.start) : t[d.start + m] = t[i + m]
    <3> HIDE DEF h, q
    <3>1. QED
      BY NextFacts DEF h, q
  <2>2. QED
    BY <1>3, <1>4, <2>1
\* Without a redaction the result reveals what the text does.
LEMMA ResultReveals ==
    ASSUME NEW t \in Seq(EngineChars \cup DOMAIN mappings), NEW resolved, ActsWell(t, resolved),
           NEW known, StandsFor(t, resolved, known), SpelledOut(known, t),
           Untouched(t, resolved, known), NEW g, Follows(t, resolved, g)
    PROVE  \A i \in 0..Len(t) :
               Starts(known, t, i) /\ (\A k \in 1..Len(g[i]) : g[i][k] # Engine!Mark) =>
                  /\ Opens(known, g[i])
                  /\ RevealWith(known, g[i]) = RevealWith(known, SubSeq(t, i + 1, Len(t)))
<1> DEFINE n == Len(t)
           S == Symbols(t, resolved)
           T(i) == SubSeq(t, i + 1, n)
           Same(i) ==
              Starts(known, t, i) /\ (\A k \in 1..Len(g[i]) : g[i][k] # Engine!Mark) =>
                 Opens(known, g[i]) /\ RevealWith(known, g[i]) = RevealWith(known, T(i))
           Q == {i \in 1..(n + 1) : Same(i - 1)}
<1>1. n \in Nat /\ t \in Seq(S) /\ Originals(S, known)
  <2>1. Seq(EngineChars) \subseteq Seq(S)
    BY DEF Symbols
  <2>2. t \in Seq(S)
    BY DEF Symbols
  <2> HIDE DEF S
  <2>3. QED
    BY <2>1, <2>2, LenProperties DEF StandsFor, Originals
<1>2. Same(n)
  <2>1. T(n) = <<>>
    BY <1>1, SubSeqEmpty
  <2>2. g[n] = <<>>
    BY DEF Follows
  <2>3. QED
    BY <2>1, <2>2 DEF Opens
<1>3. ASSUME NEW i \in 0..(n - 1), \A j \in (i + 1)..n : Same(j)
      PROVE  Same(i)
  <2>1. SUFFICES ASSUME Starts(known, t, i), \A k \in 1..Len(g[i]) : g[i][k] # Engine!Mark
                 PROVE  Opens(known, g[i]) /\ RevealWith(known, g[i]) = RevealWith(known, T(i))
    OBVIOUS
  <2>2. PICK q \in (i + 1)..n, h \in Seq(S) :
           /\ Len(h) >= 1 /\ g[i] = h \o g[q]
           /\ Starts(known, t, q) /\ Reveals(t, known, h, i, q)
    BY <2>1, StepReveals
  <2> DEFINE v == g[q]
             p == SubSeq(t, i + 1, q)
  <2>3. v \in Seq(S) /\ Len(v) \in Nat /\ Len(h) \in Nat
    <3>1. q \in 0..n
      BY <1>1, <2>2
    <3> HIDE DEF S
    <3>2. v \in Seq(S)
      BY <3>1 DEF Follows, S
    <3>3. QED
      BY <2>2, <3>2, LenProperties
  <2>4. Same(q)
    <3> HIDE DEF Same
    <3>1. QED
      BY <1>3, <2>2
  <2>5. /\ Len(g[i]) = Len(h) + Len(v)
        /\ \A k \in 1..Len(h) : g[i][k] = h[k]
        /\ \A k \in 1..Len(v) : g[i][Len(h) + k] = v[k]
    <3> HIDE DEF v, S
    <3>1. /\ Len(g[i]) = Len(h) + Len(v)
          /\ \A k \in 1..(Len(h) + Len(v)) : g[i][k] = IF k <= Len(h) THEN h[k] ELSE v[k - Len(h)]
      BY <2>2, <2>3, ConcatProperties DEF v
    <3>2. ASSUME NEW k \in 1..Len(h)
          PROVE  g[i][k] = h[k]
      <4>1. k \in 1..(Len(h) + Len(v)) /\ k <= Len(h)
        BY <2>3
      <4>2. QED
        BY <3>1, <4>1
    <3>3. ASSUME NEW k \in 1..Len(v)
          PROVE  g[i][Len(h) + k] = v[k]
      <4>1. /\ Len(h) + k \in 1..(Len(h) + Len(v)) /\ ~ (Len(h) + k <= Len(h))
            /\ (Len(h) + k) - Len(h) = k
        BY <2>3
      <4>2. QED
        BY <3>1, <4>1
    <3>4. QED
      BY <3>1, <3>2, <3>3
  <2> HIDE DEF v
  <2>6. \A k \in 1..Len(h) : h[k] # Engine!Mark
    <3>1. \A k \in 1..Len(h) : k \in 1..Len(g[i])
      BY <2>3, <2>5
    <3>2. QED
      BY <2>1, <2>5, <3>1
  <2>7. \A k \in 1..Len(v) : v[k] # Engine!Mark
    <3>1. \A k \in 1..Len(v) : Len(h) + k \in 1..Len(g[i])
      BY <2>3, <2>5
    <3>2. QED
      BY <2>1, <2>5, <3>1
  <2>8. h[1] \notin DOMAIN known /\ RevealWith(known, h) = RevealWith(known, p)
    BY <2>2, <2>6 DEF Reveals
  <2>9. Opens(known, v) /\ RevealWith(known, v) = RevealWith(known, T(q))
    BY <2>2, <2>4, <2>7 DEF v
  <2>10. Opens(known, g[i])
    <3>1. 1 \in 1..Len(h)
      BY <2>2, <2>3
    <3>2. g[i][1] = h[1]
      BY <2>5, <3>1
    <3>3. QED
      BY <2>8, <3>2 DEF Opens
  <2>11. i \in 0..n /\ q \in i..n /\ q \in 0..n /\ n \in q..n /\ i \in Nat /\ q \in Nat
    BY <1>1, <2>2
  <2>12. p \in Seq(S) /\ T(q) \in Seq(S) /\ T(i) = p \o T(q)
    <3>1. i + 1 \in 1..(n + 1) /\ q \in ((i + 1) - 1)..n /\ n \in q..n
      BY <1>1, <2>11
    <3>2. SubSeq(t, i + 1, q) \o SubSeq(t, q + 1, n) = SubSeq(t, i + 1, n)
      BY <1>1, <3>1, ConcatAdjacentSubSeq
    <3>3. SubSeq(t, q + 1, n) \in Seq(S) /\ SubSeq(t, i + 1, q) \in Seq(S)
      <4> HIDE DEF S
      <4>1. QED
        BY <1>1, <2>11, TextPart
    <3>4. QED
      BY <3>2, <3>3
  <2>13. Opens(known, T(q))
    <3>1. CASE q = n
      <4>1. T(q) = <<>>
        BY <1>1, <3>1, SubSeqEmpty
      <4>2. QED
        BY <4>1 DEF Opens
    <3>2. CASE q # n
      <4>1. t[q + 1] \notin DOMAIN known
        BY <2>2, <3>2 DEF Starts
      <4>2. 1 \in 1..(n - q)
        BY <1>1, <2>11, <3>2
      <4>3. SubSeq(t, q + 1, n)[1] = t[q + 1]
        BY <1>1, <2>11, <4>2, TextPart
      <4>4. QED
        BY <4>1, <4>3 DEF Opens
    <3>3. QED
      BY <3>1, <3>2
  <2>14. RevealWith(known, g[i]) = RevealWith(known, h) \o RevealWith(known, v)
    <3> HIDE DEF S
    <3>1. RevealWith(known, h \o v) = RevealWith(known, h) \o RevealWith(known, v)
      BY <1>1, <2>2, <2>3, <2>9, RevealConcat
    <3>2. QED
      BY <2>2, <3>1 DEF v
  <2>15. RevealWith(known, T(i)) = RevealWith(known, p) \o RevealWith(known, T(q))
    <3> DEFINE z == T(q)
               w == T(i)
    <3>1. z \in Seq(S) /\ w = p \o z /\ Opens(known, z) /\ p \in Seq(S)
      BY <2>12, <2>13
    <3> HIDE DEF z, S, p, w
    <3>2. RevealWith(known, p \o z) = RevealWith(known, p) \o RevealWith(known, z)
      BY <1>1, <3>1, RevealConcat
    <3>3. RevealWith(known, w) = RevealWith(known, p) \o RevealWith(known, z)
      BY <3>1, <3>2
    <3>4. QED
      BY <3>3 DEF z, w
  <2> HIDE DEF p
  <2>16. QED
    BY <2>8, <2>9, <2>10, <2>14, <2>15
<1> HIDE DEF Same
<1>4. ASSUME NEW i \in 1..(n + 1), \A j \in 1..(n + 1) : j > i => j \in Q
      PROVE  i \in Q
  <2>1. SUFFICES Same(i - 1)
    OBVIOUS
  <2>2. CASE i = n + 1
    <3>1. i - 1 = n
      BY <1>1, <2>2
    <3> HIDE DEF n
    <3>2. QED
      BY <1>2, <3>1
  <2>3. CASE i # n + 1
    <3>1. i - 1 \in 0..(n - 1)
      BY <1>1, <2>3
    <3>2. ASSUME NEW j \in ((i - 1) + 1)..n
          PROVE  Same(j)
      <4>1. j + 1 \in 1..(n + 1) /\ j + 1 > i /\ (j + 1) - 1 = j
        BY <1>1
      <4>2. j + 1 \in Q
        <5> HIDE DEF Q
        <5>1. QED
          BY <1>4, <4>1
      <4>3. QED
        BY <4>1, <4>2
    <3> HIDE DEF n, Q
    <3>3. QED
      BY <1>3, <3>1, <3>2
  <2>4. QED
    BY <2>2, <2>3
<1>5. Q = 1..(n + 1)
  <2>1. Q \in SUBSET (1..(n + 1)) /\ n + 1 \in Nat
    BY <1>1
  <2> HIDE DEF Q
  <2>2. QED
    BY <1>4, <2>1, DownFrom
<1>6. ASSUME NEW i \in 0..n
      PROVE  Same(i)
  <2>1. i + 1 \in 1..(n + 1) /\ (i + 1) - 1 = i
    BY <1>1
  <2>2. i + 1 \in Q
    <3> HIDE DEF Q
    <3>1. QED
      BY <1>5, <2>1
  <2>3. QED
    BY <2>1, <2>2
<1>7. QED
  BY <1>6 DEF Same

\* Each alias is the one of its original, which has no alias in it.
NamesOriginals(known) ==
    \A a \in DOMAIN known :
        /\ known[a].original \in BoundedSeq(EngineChars, MaxSymbols)
        /\ a = Engine!AliasOf(known[a].original)

\* Such aliases are no characters, and no redactions.
LEMMA NamesFacts ==
    ASSUME NEW known, NamesOriginals(known)
    PROVE  /\ \A a \in DOMAIN known : known[a].original \in Seq(EngineChars)
           /\ DOMAIN known \cap EngineChars = {}
<1>1. MaxSymbols \in Nat
  BY BoundsAssumption
<1>2. BoundedSeq(EngineChars, MaxSymbols) \subseteq Seq(EngineChars)
  BY <1>1 DEF BoundedSeq, SeqOf
<1>3. QED
  BY <1>2, EngineAssumption DEF NamesOriginals

\* Masking adds an alias for what it replaces for the first time.
LEMMA AllocateFacts ==
    ASSUME NamesOriginals(mappings), NEW t \in Seq(EngineChars \cup DOMAIN mappings),
           Len(t) <= MaxSymbols, NEW resolved, ActsWell(t, resolved)
    PROVE  /\ NamesOriginals(Engine!Allocate(t, resolved))
           /\ StandsFor(t, resolved, Engine!Allocate(t, resolved))
<1> DEFINE known == Engine!Allocate(t, resolved)
           new == {d \in resolved : /\ d.policy # Engine!P!Redacted
                                    /\ Engine!AliasOf(Engine!Part(t, d)) \notin DOMAIN mappings}
<1>1. /\ DOMAIN known = DOMAIN mappings \cup {Engine!AliasOf(Engine!Part(t, d)) : d \in new}
      /\ \A a \in DOMAIN mappings : known[a] = mappings[a]
      /\ \A a \in DOMAIN known : a \notin DOMAIN mappings => known[a].original = a[2]
  BY DEF Engine!Allocate, Engine!Issued
<1> HIDE DEF known
<1>2. \A d \in resolved : Engine!Part(t, d) \in BoundedSeq(EngineChars, MaxSymbols)
  BY NoCharacter
<1>3. ASSUME NEW a \in DOMAIN known
      PROVE  /\ known[a].original \in BoundedSeq(EngineChars, MaxSymbols)
             /\ a = Engine!AliasOf(known[a].original)
  <2>1. CASE a \in DOMAIN mappings
    BY <1>1, <2>1 DEF NamesOriginals
  <2>2. CASE a \notin DOMAIN mappings
    <3>1. PICK d \in new : a = Engine!AliasOf(Engine!Part(t, d))
      BY <1>1, <2>2
    <3> DEFINE o == Engine!Part(t, d)
    <3>2. d \in resolved /\ o \in BoundedSeq(EngineChars, MaxSymbols) /\ a = Engine!AliasOf(o)
      BY <1>2, <3>1
    <3> HIDE DEF o
    <3>3. a[2] = o
      BY <3>2 DEF Engine!AliasOf
    <3>4. QED
      BY <1>1, <2>2, <3>2, <3>3
  <2>3. QED
    BY <2>1, <2>2
<1>4. NamesOriginals(known)
  BY <1>3 DEF NamesOriginals
<1>5. ASSUME NEW d \in resolved, Engine!Replacement(t, d) # <<Engine!Mark>>
      PROVE  \E a \in DOMAIN known : /\ Engine!Replacement(t, d) = <<Stem, a>>
                                     /\ known[a].original = Engine!Part(t, d)
  <2> DEFINE o == Engine!Part(t, d)
             a == Engine!AliasOf(o)
  <2>1. d.policy # Engine!P!Redacted /\ Engine!Replacement(t, d) = <<Stem, a>>
    BY <1>5 DEF Engine!Replacement
  <2>2. a \in DOMAIN known
    <3>1. a \in DOMAIN mappings \/ d \in new
      BY <2>1
    <3>2. QED
      BY <1>1, <3>1
  <2> HIDE DEF o, new
  <2>3. a = Engine!AliasOf(known[a].original)
    BY <1>3, <2>2
  <2>4. known[a].original = o
    BY <2>3 DEF Engine!AliasOf
  <2>5. QED
    BY <2>1, <2>2, <2>4 DEF o
<1>6. StandsFor(t, resolved, known)
  <2>1. /\ \A a \in DOMAIN known : known[a].original \in Seq(EngineChars)
        /\ DOMAIN known \cap EngineChars = {}
    BY <1>4, NamesFacts
  <2>2. QED
    BY <1>5, <2>1 DEF StandsFor
<1>7. QED
  BY <1>4, <1>6 DEF known

\* What a text comes to, however the request ends
LEMMA MaskedRoundTrip ==
    ASSUME NamesOriginals(mappings), NEW t \in Seq(EngineChars \cup DOMAIN mappings),
           WellSpelled(t), Len(t) <= MaxSymbols, NEW resolved, ActsWell(t, resolved),
           NEW known, known = Engine!Allocate(t, resolved),
           NEW out, out = Engine!ApplyReplacements(t, resolved),
           Engine!Mark \notin Engine!Range(out),
           \A d \in resolved, i \in 0..Len(t), k \in DOMAIN t :
              AliasEnds(known, t, k) /\ Engine!IsCopy(t, resolved, d, i)
                 => ~ (i < k /\ k - 2 < i + d.end - d.start)
    PROVE  RevealWith(known, out) = RevealWith(known, t)
<1>1. StandsFor(t, resolved, known) /\ DOMAIN known \cap EngineChars = {}
  BY AllocateFacts DEF StandsFor
<1>2. PICK g : Follows(t, resolved, g) /\ out = g[0]
  BY OutFacts DEF Follows
<1>3. /\ Len(t) \in Nat /\ DOMAIN t = 1..Len(t)
      /\ \A k \in 1..Len(t) : t[k] \in EngineChars \cup DOMAIN mappings
  BY LenProperties
<1>4. SpelledOut(known, t)
  <2>1. SUFFICES ASSUME NEW k \in DOMAIN t, t[k] \in DOMAIN known
                 PROVE  AliasEnds(known, t, k)
    BY DEF SpelledOut
  <2>2. t[k] \in DOMAIN mappings
    BY <1>1, <1>3, <2>1
  <2>3. Engine!IsAlias(t, k)
    BY <2>2 DEF WellSpelled
  <2>4. QED
    BY <2>1, <2>3 DEF AliasEnds, Engine!IsAlias
<1>5. Untouched(t, resolved, known)
  BY <1>1, AliasesSpared DEF Untouched
<1>6. \A k \in 1..Len(g[0]) : g[0][k] # Engine!Mark
  <2>1. 0 \in 0..Len(t)
    BY <1>3
  <2>2. out \in Seq(Symbols(t, resolved))
    BY <1>2, <2>1 DEF Follows
  <2>3. DOMAIN out = 1..Len(out)
    BY <2>2, LenProperties
  <2>4. QED
    BY <1>2, <2>3 DEF Engine!Range
<1>7. Starts(known, t, 0)
  <2>1. SUFFICES ASSUME 0 # Len(t), t[0 + 1] \in DOMAIN known
                 PROVE  FALSE
    BY DEF Starts
  <2>2. 0 + 1 = 1 /\ 1 \in DOMAIN t
    BY <1>3, <2>1
  <2>3. AliasEnds(known, t, 1)
    BY <1>4, <2>1, <2>2 DEF SpelledOut
  <2>4. QED
    BY <2>3 DEF AliasEnds
<1>8. SubSeq(t, 0 + 1, Len(t)) = t
  <2>1. 0 + 1 = 1
    OBVIOUS
  <2>2. QED
    BY <2>1, SubSeqFull
<1>9. 0 \in 0..Len(t)
  BY <1>3
<1>10. RevealWith(known, g[0]) = RevealWith(known, SubSeq(t, 0 + 1, Len(t)))
  BY <1>1, <1>2, <1>4, <1>5, <1>6, <1>7, <1>9, ResultReveals
<1>11. QED
  BY <1>2, <1>8, <1>10

\* Without segments the guard has nothing to refuse that the dictionary could have found, no
\* finding takes a part of an alias, and the aliases of a result tell what they were put for.
EngineInv ==
    ~ segment_contexts =>
        /\ NamesOriginals(mappings)
        /\ Engine!GuardIdle
        /\ ~ Engine!AliasFound
        /\ Engine!RoundTrip


\* What a request is masked to comes from findings that can be acted upon.
LEMMA RequestFacts ==
    ASSUME EngineInv, ~ segment_contexts, Engine!TakeText
    PROVE  \E t, resolved :
               /\ t \in Seq(EngineChars \cup DOMAIN mappings)
               /\ WellSpelled(t) /\ Len(t) <= MaxSymbols /\ ActsWell(t, resolved)
               /\ text' = t /\ UNCHANGED <<segment_contexts, case_sensitive>>
               /\ LET out == Engine!ApplyReplacements(t, resolved) IN
                  \/ result' \in {"blocked", "leak"} /\ detected' = {} /\ mappings' = mappings
                  \/ /\ result' = "guarded" /\ mappings' = mappings
                     /\ masked' = out /\ detected' = resolved
                  \/ /\ result' = "masked" /\ mappings' = Engine!Allocate(t, resolved)
                     /\ masked' = out /\ detected' = resolved
<1>1. PICK t \in BoundedSeq(EngineChars \cup DOMAIN mappings, MaxSymbols) :
         (\A i \in DOMAIN t : t[i] \in DOMAIN mappings => Engine!IsAlias(t, i)) /\ Engine!MaskText(t)
  BY DEF Engine!TakeText, Engine!Issued, Engine!BoundedSeq, BoundedSeq, Engine!SeqOf, SeqOf
<1>2. t \in Seq(EngineChars \cup DOMAIN mappings) /\ Len(t) <= MaxSymbols
  <2>1. PICK m \in 0..MaxSymbols : t \in [1..m -> EngineChars \cup DOMAIN mappings]
    BY <1>1 DEF BoundedSeq, SeqOf
  <2>2. m \in Nat /\ m <= MaxSymbols
    BY <2>1, BoundsAssumption
  <2>3. t \in Seq(EngineChars \cup DOMAIN mappings) /\ Len(t) = m
    BY <2>1, <2>2
  <2>4. QED
    BY <2>2, <2>3
<1>3. WellSpelled(t)
  BY <1>1 DEF WellSpelled
<1>4. PICK resolved \in Engine!Detections(t) :
        LET out == Engine!ApplyReplacements(t, resolved)
            returns == result' \in {"masked", "guarded"}
        IN
        /\ text' = t
        /\ result' = Engine!Outcome(t, resolved, out)
        /\ masked' = IF returns THEN out ELSE <<>>
        /\ detected' = IF returns THEN resolved ELSE {}
        /\ mappings' = IF result' = "masked" THEN Engine!Allocate(t, resolved) ELSE mappings
        /\ UNCHANGED <<segment_contexts, case_sensitive>>
  BY <1>1 DEF Engine!MaskText, Engine!settings
<1>5. ActsWell(t, resolved)
  <2>1. AliasesApart
    BY NamesFacts DEF AliasesApart, EngineInv
  <2>2. PICK report \in Engine!ModelReports(Len(t)) : resolved = Engine!DetectOne(t, report)
    BY <1>4 DEF Engine!Detections
  <2>3. QED
    BY <1>2, <1>3, <2>1, <2>2, DetectionActsWell
<1>6. result' \in {"blocked", "leak", "guarded", "masked"}
  BY <1>4 DEF Engine!Outcome
<1>7. QED
  BY <1>2, <1>3, <1>4, <1>5, <1>6

\* A step of the session keeps the invariant.
LEMMA MaskingKeeps ==
    ASSUME EngineInv, Engine!Next
    PROVE  EngineInv'
<1>1. CASE Engine!EndRequest
  BY <1>1 DEF EngineInv, NamesOriginals, Engine!EndRequest, Engine!settings, Engine!GuardIdle,
              Engine!AliasFound, Engine!RoundTrip
<1>2. CASE Engine!TakeText
  <2>1. segment_contexts' = segment_contexts
    BY <1>2 DEF Engine!TakeText, Engine!MaskText, Engine!settings
  <2>2. SUFFICES ASSUME ~ segment_contexts PROVE EngineInv'
    BY <2>1 DEF EngineInv
  <2>3. PICK t, resolved :
               /\ t \in Seq(EngineChars \cup DOMAIN mappings)
               /\ WellSpelled(t) /\ Len(t) <= MaxSymbols /\ ActsWell(t, resolved)
               /\ text' = t /\ UNCHANGED <<segment_contexts, case_sensitive>>
               /\ LET out == Engine!ApplyReplacements(t, resolved) IN
                  \/ result' \in {"blocked", "leak"} /\ detected' = {} /\ mappings' = mappings
                  \/ /\ result' = "guarded" /\ mappings' = mappings
                     /\ masked' = out /\ detected' = resolved
                  \/ /\ result' = "masked" /\ mappings' = Engine!Allocate(t, resolved)
                     /\ masked' = out /\ detected' = resolved
    BY <1>2, <2>2, RequestFacts
  <2> DEFINE out == Engine!ApplyReplacements(t, resolved)
             known == Engine!Allocate(t, resolved)
  <2>4. NamesOriginals(mappings) /\ NamesOriginals(known)
    BY <2>2, <2>3, AllocateFacts DEF EngineInv
  <2> HIDE DEF out, known
  <2>5. NamesOriginals(mappings')
    BY <2>3, <2>4 DEF known
  <2>6. Engine!GuardIdle'
    <3>1. SUFFICES ASSUME result' = "guarded", NEW w \in Words,
                          Engine!HasPart(Engine!Folded(out), Engine!Folded(w))
                   PROVE  \/ w \in case_sensitive /\ ~ Engine!HasPart(out, w)
                          \/ Engine!Folded(w)[Len(w)] = Engine!Folded(<<Stem>>)[1]
      BY <2>3 DEF Engine!GuardIdle, Engine!Elusive, Engine!HasPart, Engine!Folded, out
    <3>2. QED
      BY <2>3, <3>1, GuardFindsElusive DEF out
  <2>7. ~ Engine!AliasFound'
    <3>1. SUFFICES ASSUME NEW d \in detected', NEW k \in DOMAIN (text'),
                          Engine!IsAlias(text, k)', d.start < k, k - 2 < d.end
                   PROVE  FALSE
      BY DEF Engine!AliasFound
    <3>2. detected' = resolved /\ text' = t
      BY <2>3, <3>1
    <3>3. DOMAIN (mappings') \cap EngineChars = {}
      BY <2>5, NamesFacts
    <3>4. AliasEnds(mappings', t, k)
      BY <3>1, <3>2 DEF AliasEnds, Engine!IsAlias, Engine!Issued
    <3>5. d \in resolved /\ k \in DOMAIN t
      BY <3>1, <3>2
    <3>6. QED
      BY <2>3, <3>1, <3>3, <3>4, <3>5, AliasesSpared
  <2>8. Engine!RoundTrip'
    <3>1. SUFFICES ASSUME result' = "masked", ~ Engine!CopyInAlias',
                          Engine!Mark \notin Engine!Range(masked')
                   PROVE  Engine!Reveal(masked)' = Engine!Reveal(text)'
      BY DEF Engine!RoundTrip, Engine!Range
    <3>2. masked' = out /\ detected' = resolved /\ mappings' = known /\ text' = t
      BY <2>3, <3>1 DEF out, known
    <3>3. \A d \in resolved, i \in 0..Len(t), k \in DOMAIN t :
             AliasEnds(known, t, k) /\ Engine!IsCopy(t, resolved, d, i)
                => ~ (i < k /\ k - 2 < i + d.end - d.start)
      BY <3>1, <3>2 DEF Engine!CopyInAlias, AliasEnds, Engine!IsAlias, Engine!Issued, Engine!IsCopy
    <3>4. RevealWith(known, out) = RevealWith(known, t)
      BY <2>3, <2>4, <3>1, <3>2, <3>3, MaskedRoundTrip DEF out, known
    <3>5. /\ Engine!Reveal(masked)' = RevealWith(known, out)
          /\ Engine!Reveal(text)' = RevealWith(known, t)
      BY <3>2 DEF Engine!Reveal, Engine!Revealed, Engine!IsAlias, Engine!Issued,
                  RevealWith, ShownFor, AliasEnds
    <3>6. QED
      BY <3>4, <3>5
  <2>9. QED
    BY <2>5, <2>6, <2>7, <2>8 DEF EngineInv
<1>3. QED
  BY <1>1, <1>2 DEF Engine!Next

\* The invariant of the engine.
THEOREM SpecEngineInv == TextSpec => []EngineInv
<1>1. TextInit => EngineInv
  BY DEF TextInit, Engine!Init, EngineInv, NamesOriginals, Engine!GuardIdle, Engine!AliasFound,
         Engine!RoundTrip
<1>2. EngineInv /\ [TextNext]_textVars => EngineInv'
  <2>1. [TextNext]_textVars => Engine!Next \/ UNCHANGED engineVars
    BY DEF TextNext, textVars, AnswerAndRepeat, ResolvePolicy, CutSegments, CutWindows, FindTerm,
           Computes
  <2>2. EngineInv /\ UNCHANGED engineVars => EngineInv'
    <3>1. SUFFICES ASSUME EngineInv, UNCHANGED engineVars PROVE EngineInv'
      OBVIOUS
    <3>2. /\ UNCHANGED <<segment_contexts, case_sensitive, mappings>>
          /\ UNCHANGED <<text, result, masked, detected>>
      BY <3>1 DEF engineVars
    <3>3. /\ NamesOriginals(mappings)' = NamesOriginals(mappings)
          /\ Engine!GuardIdle' = Engine!GuardIdle
          /\ Engine!AliasFound' = Engine!AliasFound
      BY <3>2 DEF NamesOriginals, Engine!GuardIdle, Engine!Elusive, Engine!AliasFound,
                  Engine!IsAlias, Engine!Issued
    <3>4. Engine!RoundTrip' = Engine!RoundTrip
      BY <3>2 DEF Engine!RoundTrip, Engine!CopyInAlias, Engine!AliasFound, Engine!IsAlias,
                  Engine!Issued, Engine!Reveal, Engine!Revealed
    <3>5. QED
      BY <3>1, <3>2, <3>3, <3>4 DEF EngineInv
  <2>3. QED
    BY <2>1, <2>2, MaskingKeeps
<1>3. QED
  BY <1>1, <1>2, PTL DEF TextSpec

\* Where a text is masked as a whole, all that the guard behind the engine may refuse are
\* words in a case they were not registered in, and words that end as aliases begin.
THEOREM GuardIsIdle == TextSpec => []GuardIdle
<1>1. EngineInv => GuardIdle
  BY DEF EngineInv, GuardIdle, Engine!GuardIdle
<1>2. QED
  BY <1>1, SpecEngineInv, PTL

\* There, no finding that is acted upon takes any part of an alias.
THEOREM AliasesProtected == TextSpec => [](~ segment_contexts => ExistingAliasProtected)
<1>1. EngineInv => (~ segment_contexts => ExistingAliasProtected)
  BY DEF EngineInv, ExistingAliasProtected, Engine!ExistingAliasProtected
<1>2. QED
  BY <1>1, SpecEngineInv, PTL

\* There, what comes back as it was sent is the client's text again, unless a copy of what was
\* found lies in an alias that the text had.
THEOREM AliasesRoundTrip == TextSpec => [](~ segment_contexts => RoundTrip)
<1>1. EngineInv => (~ segment_contexts => RoundTrip)
  BY DEF EngineInv, RoundTrip
<1>2. QED
  BY <1>1, SpecEngineInv, PTL

-----------------------------------------------------------------------------
(* ContextSegments: what each of its folds does with one element.          *)

\* A span of a text and what it is
Piece == [start : Int, end : Int, kind : {"code", "patch", "prose"}]

\* What ResolveClaims does with a claim
Keep(kept, c) ==
    IF kept = <<>> \/ c.start >= Engine!Last(kept).end THEN Append(kept, c) ELSE kept

\* The claims kept, one after the other.
LEMMA ResolveRuns ==
    ASSUME NEW claims, Engine!ByStart(claims) \in Seq(Piece)
    PROVE  LET ordered == Engine!ByStart(claims)
               n == Len(ordered)
           IN  \E h \in [0..n -> Seq(Piece)] :
                   /\ h[0] = <<>>
                   /\ \A i \in 1..n : h[i] = Keep(h[i - 1], ordered[i])
                   /\ Engine!ResolveClaims(claims) = h[n]
<1> DEFINE seq == Engine!ByStart(claims)
           n == Len(seq)
           T == Seq(Piece)
           base == <<>>
           step == [p \in (1..n) \X T |-> Keep(p[2], seq[p[1]])]
           Value(g, s) == IF s = {} THEN <<>> ELSE Keep(g[s \ {Engine!Max(s)}], seq[Engine!Max(s)])
           Its(g) == g = [s \in SUBSET (DOMAIN seq) |-> Value(g, s)]
           it == CHOOSE g : Its(g)
<1>1. n \in Nat /\ DOMAIN seq = 1..n /\ base \in T /\ \A i \in 1..n : seq[i] \in Piece
  BY LenProperties
<1>2. \A q \in T, c \in Piece : Keep(q, c) \in T
  BY DEF Keep
<1>3. Engine!ResolveClaims(claims) = it[DOMAIN seq]
  BY DEF Engine!ResolveClaims, Engine!FoldLeft, Engine!MapThenFoldSet, Keep
<1> HIDE DEF n, T, seq, base, it
<1>4. \A p \in (1..n) \X T : step[p] = Keep(p[2], seq[p[1]]) /\ step[p] \in T
  BY <1>1, <1>2
<1>5. step \in [(1..n) \X T -> T]
  BY <1>4
<1> HIDE DEF step
<1>6. Folds(n, T, base, step)
  BY <1>1, <1>5 DEF Folds
<1>7. \A i \in 1..n, v \in T : step[<<i, v>>] = Keep(v, seq[i])
  BY <1>4
<1>8. Its(it)
  <2>1. PICK f : Folded(n, T, base, step, f)
    BY <1>6, SubsetFunction
  <2>2. \A s \in SUBSET (1..n) : f[s] \in T /\ f[s] = FoldAt(base, step, f, s)
    BY <2>1 DEF Folded
  <2>3. \A s \in SUBSET (1..n) : f[s] = Value(f, s)
    BY <1>1, <1>7, <2>2, GreatestUpTo DEF FoldAt, base
  <2>4. f = [s \in SUBSET (1..n) |-> f[s]]
    BY <2>1 DEF Folded
  <2> HIDE DEF Value
  <2>5. Its(f)
    BY <1>1, <2>3, <2>4
  <2> HIDE DEF Its
  <2>6. QED
    BY <2>5 DEF it
<1>9. Unrolled(n, T, base, step, it)
  <2>1. \A s \in SUBSET (1..n) : it[s] = Value(it, s)
    <3> HIDE DEF Value
    <3>1. QED
      BY <1>1, <1>8
  <2>2. QED
    BY <1>1, <1>7, <2>1, GreatestUpTo DEF Unrolled, base
<1>10. PICK h : Run(n, T, base, step, h, it[1..n])
  BY <1>6, <1>9, FoldRuns
<1>11. /\ h \in [0..n -> T] /\ h[0] = <<>> /\ h[n] = Engine!ResolveClaims(claims)
       /\ \A i \in 1..n : h[i] = step[<<i, h[i - 1]>>]
  BY <1>1, <1>3, <1>10 DEF Run, base
<1>12. \A i \in 1..n : h[i] = Keep(h[i - 1], seq[i])
  <2>1. \A i \in 1..n : h[i - 1] \in T
    BY <1>1, <1>11
  <2>2. QED
    BY <1>7, <1>11, <2>1
<1>13. QED
  BY <1>11, <1>12 DEF n, seq, T

\* A claim that SegmentsOf may put behind the segments so far
EmitOne(acc, c) ==
    IF acc.full \/ Len(acc.out) + 2 > MaxSegments - 1
    THEN [acc EXCEPT !.full = TRUE]
    ELSE [acc EXCEPT !.out = @ \o Engine!SegmentsOf(Engine!End(@), c)]

\* Segments end where the last of them does.
LEMMA EndTyped ==
    ASSUME NEW out \in Seq(Piece)
    PROVE  Engine!End(out) \in Int /\ (out # <<>> => Engine!End(out) = out[Len(out)].end)
<1>1. CASE out = <<>>
  BY <1>1 DEF Engine!End
<1>2. CASE out # <<>>
  <2>1. Len(out) \in 1..Len(out) /\ out[Len(out)] \in Piece
    BY <1>2, LenProperties
  <2>2. QED
    BY <1>2, <2>1 DEF Engine!End, Engine!Last, Piece
<1>3. QED
  BY <1>1, <1>2

\* The claims emitted, one after the other.
LEMMA EmitRuns ==
    ASSUME NEW kept \in Seq(Piece)
    PROVE  LET n == Len(kept)
           IN  \E h \in [0..n -> [out : Seq(Piece), full : BOOLEAN]] :
                   /\ h[0] = [out |-> <<>>, full |-> FALSE]
                   /\ \A i \in 1..n : h[i] = EmitOne(h[i - 1], kept[i])
                   /\ Engine!Emit(kept) = h[n].out
<1> DEFINE n == Len(kept)
           T == [out : Seq(Piece), full : BOOLEAN]
           base == [out |-> <<>>, full |-> FALSE]
           step == [p \in (1..n) \X T |-> EmitOne(p[2], kept[p[1]])]
           Value(g, s) == IF s = {} THEN [out |-> <<>>, full |-> FALSE]
                       ELSE EmitOne(g[s \ {Engine!Max(s)}], kept[Engine!Max(s)])
           Its(g) == g = [s \in SUBSET (DOMAIN kept) |-> Value(g, s)]
           it == CHOOSE g : Its(g)
<1>1. n \in Nat /\ DOMAIN kept = 1..n /\ base \in T /\ \A i \in 1..n : kept[i] \in Piece
  BY LenProperties
<1>2. \A q \in T, c \in Piece : EmitOne(q, c) \in T
  <2>1. ASSUME NEW q \in T, NEW c \in Piece
        PROVE  EmitOne(q, c) \in T
    <3>1. Engine!SegmentsOf(Engine!End(q.out), c) \in Seq(Piece)
      <4> DEFINE e == Engine!End(q.out)
                 a == [start |-> e, end |-> c.start, kind |-> "prose"]
      <4>1. e \in Int
        BY EndTyped
      <4>2. a \in Piece
        <5> HIDE DEF e
        <5>1. QED
          BY <4>1 DEF Piece
      <4> HIDE DEF a
      <4>3. <<a, c>> \in Seq(Piece) /\ <<c>> \in Seq(Piece)
        BY <4>2
      <4>4. QED
        BY <4>3 DEF Engine!SegmentsOf, a
    <3>2. q.out \o Engine!SegmentsOf(Engine!End(q.out), c) \in Seq(Piece)
      BY <3>1, ConcatProperties
    <3>3. QED
      BY <3>2 DEF EmitOne
  <2>2. QED
    BY <2>1
<1>3. Engine!Emit(kept) = it[DOMAIN kept].out
  BY DEF Engine!Emit, Engine!FoldLeft, Engine!MapThenFoldSet, EmitOne
<1> HIDE DEF n, T, base, it
<1>4. \A p \in (1..n) \X T : step[p] = EmitOne(p[2], kept[p[1]]) /\ step[p] \in T
  BY <1>1, <1>2
<1>5. step \in [(1..n) \X T -> T]
  BY <1>4
<1> HIDE DEF step
<1>6. Folds(n, T, base, step)
  BY <1>1, <1>5 DEF Folds
<1>7. \A i \in 1..n, v \in T : step[<<i, v>>] = EmitOne(v, kept[i])
  BY <1>4
<1>8. Its(it)
  <2>1. PICK f : Folded(n, T, base, step, f)
    BY <1>6, SubsetFunction
  <2>2. \A s \in SUBSET (1..n) : f[s] \in T /\ f[s] = FoldAt(base, step, f, s)
    BY <2>1 DEF Folded
  <2>3. \A s \in SUBSET (1..n) : f[s] = Value(f, s)
    BY <1>1, <1>7, <2>2, GreatestUpTo DEF FoldAt, base
  <2>4. f = [s \in SUBSET (1..n) |-> f[s]]
    BY <2>1 DEF Folded
  <2> HIDE DEF Value
  <2>5. Its(f)
    BY <1>1, <2>3, <2>4
  <2> HIDE DEF Its
  <2>6. QED
    BY <2>5 DEF it
<1>9. Unrolled(n, T, base, step, it)
  <2>1. \A s \in SUBSET (1..n) : it[s] = Value(it, s)
    <3> HIDE DEF Value
    <3>1. QED
      BY <1>1, <1>8
  <2>2. QED
    BY <1>1, <1>7, <2>1, GreatestUpTo DEF Unrolled, base
<1>10. PICK h : Run(n, T, base, step, h, it[1..n])
  BY <1>6, <1>9, FoldRuns
<1>11. /\ h \in [0..n -> T] /\ h[0] = base /\ h[n].out = Engine!Emit(kept)
       /\ \A i \in 1..n : h[i] = step[<<i, h[i - 1]>>]
  BY <1>1, <1>3, <1>10 DEF Run
<1>12. \A i \in 1..n : h[i] = EmitOne(h[i - 1], kept[i])
  <2>1. \A i \in 1..n : h[i - 1] \in T
    BY <1>1, <1>11
  <2>2. QED
    BY <1>7, <1>11, <2>1
<1>13. QED
  BY <1>11, <1>12 DEF n, T, base

\* What Coalesce does with a segment
Merge(merged, s) ==
    IF merged # <<>> /\ Engine!Last(merged).kind = s.kind /\ Engine!Last(merged).end = s.start
    THEN [merged EXCEPT ![Len(merged)].end = s.end]
    ELSE Append(merged, s)

\* Merging makes segments of segments.
LEMMA MergeTyped ==
    ASSUME NEW merged \in Seq(Piece), NEW s \in Piece
    PROVE  Merge(merged, s) \in Seq(Piece)
<1>1. CASE merged = <<>>
  BY <1>1 DEF Merge
<1>2. CASE merged # <<>>
  <2>1. Len(merged) \in 1..Len(merged) /\ merged[Len(merged)] \in Piece
    BY <1>2, LenProperties
  <2> DEFINE r == [merged[Len(merged)] EXCEPT !.end = s.end]
  <2>2. r \in Piece
    BY <2>1 DEF Piece
  <2>3. [merged EXCEPT ![Len(merged)].end = s.end] = [merged EXCEPT ![Len(merged)] = r]
    OBVIOUS
  <2> HIDE DEF r
  <2>4. [merged EXCEPT ![Len(merged)] = r] \in Seq(Piece)
    BY <2>1, <2>2, ExceptSeq
  <2>5. QED
    BY <2>3, <2>4 DEF Merge
<1>3. QED
  BY <1>1, <1>2

\* The segments merged, one after the other.
LEMMA CoalesceRuns ==
    ASSUME NEW segments \in Seq(Piece)
    PROVE  LET n == Len(segments)
           IN  \E h \in [0..n -> Seq(Piece)] :
                   /\ h[0] = <<>>
                   /\ \A i \in 1..n : h[i] = Merge(h[i - 1], segments[i])
                   /\ Engine!Coalesce(segments) = h[n]
<1> DEFINE n == Len(segments)
           T == Seq(Piece)
           base == <<>>
           step == [p \in (1..n) \X T |-> Merge(p[2], segments[p[1]])]
           Value(g, s) == IF s = {} THEN <<>>
                       ELSE Merge(g[s \ {Engine!Max(s)}], segments[Engine!Max(s)])
           Its(g) == g = [s \in SUBSET (DOMAIN segments) |-> Value(g, s)]
           it == CHOOSE g : Its(g)
<1>1. n \in Nat /\ DOMAIN segments = 1..n /\ base \in T /\ \A i \in 1..n : segments[i] \in Piece
  BY LenProperties
<1>2. \A q \in T, c \in Piece : Merge(q, c) \in T
  BY MergeTyped
<1>3. Engine!Coalesce(segments) = it[DOMAIN segments]
  BY DEF Engine!Coalesce, Engine!FoldLeft, Engine!MapThenFoldSet, Merge
<1> HIDE DEF n, T, base, it
<1>4. \A p \in (1..n) \X T : step[p] = Merge(p[2], segments[p[1]]) /\ step[p] \in T
  BY <1>1, <1>2
<1>5. step \in [(1..n) \X T -> T]
  BY <1>4
<1> HIDE DEF step
<1>6. Folds(n, T, base, step)
  BY <1>1, <1>5 DEF Folds
<1>7. \A i \in 1..n, v \in T : step[<<i, v>>] = Merge(v, segments[i])
  BY <1>4
<1>8. Its(it)
  <2>1. PICK f : Folded(n, T, base, step, f)
    BY <1>6, SubsetFunction
  <2>2. \A s \in SUBSET (1..n) : f[s] \in T /\ f[s] = FoldAt(base, step, f, s)
    BY <2>1 DEF Folded
  <2>3. \A s \in SUBSET (1..n) : f[s] = Value(f, s)
    BY <1>1, <1>7, <2>2, GreatestUpTo DEF FoldAt, base
  <2>4. f = [s \in SUBSET (1..n) |-> f[s]]
    BY <2>1 DEF Folded
  <2> HIDE DEF Value
  <2>5. Its(f)
    BY <1>1, <2>3, <2>4
  <2> HIDE DEF Its
  <2>6. QED
    BY <2>5 DEF it
<1>9. Unrolled(n, T, base, step, it)
  <2>1. \A s \in SUBSET (1..n) : it[s] = Value(it, s)
    <3> HIDE DEF Value
    <3>1. QED
      BY <1>1, <1>8
  <2>2. QED
    BY <1>1, <1>7, <2>1, GreatestUpTo DEF Unrolled, base
<1>10. PICK h : Run(n, T, base, step, h, it[1..n])
  BY <1>6, <1>9, FoldRuns
<1>11. /\ h \in [0..n -> T] /\ h[0] = <<>> /\ h[n] = Engine!Coalesce(segments)
       /\ \A i \in 1..n : h[i] = step[<<i, h[i - 1]>>]
  BY <1>1, <1>3, <1>10 DEF Run, base
<1>12. \A i \in 1..n : h[i] = Merge(h[i - 1], segments[i])
  <2>1. \A i \in 1..n : h[i - 1] \in T
    BY <1>1, <1>11
  <2>2. QED
    BY <1>7, <1>11, <2>1
<1>13. QED
  BY <1>11, <1>12 DEF n, T

\* What a match is outside of fences for, and claims are matches and fences.
LEMMA ClaimsTyped ==
    ASSUME NEW S, NEW fences \in Seq(S), NEW matches \in Seq(S)
    PROVE  Engine!Claims(fences, matches) \in Seq(S)
<1> DEFINE n == Len(matches)
           T == Seq(S)
           One(q, c) ==
               IF c.end > c.start /\ Engine!OutsideFence(Engine!ResolveClaims(fences), c)
               THEN Append(q, c) ELSE q
           base == fences
           step == [p \in (1..n) \X T |-> One(p[2], matches[p[1]])]
           Value(g, s) == IF s = {} THEN fences
                       ELSE One(g[s \ {Engine!Max(s)}], matches[Engine!Max(s)])
           Its(g) == g = [s \in SUBSET (DOMAIN matches) |-> Value(g, s)]
           it == CHOOSE g : Its(g)
<1>1. n \in Nat /\ DOMAIN matches = 1..n /\ base \in T /\ \A i \in 1..n : matches[i] \in S
  BY LenProperties
<1>2. \A q \in T, c \in S : One(q, c) \in T
  OBVIOUS
<1>3. Engine!Claims(fences, matches) = it[DOMAIN matches]
  BY DEF Engine!Claims, Engine!FoldLeft, Engine!MapThenFoldSet
<1> HIDE DEF n, T, base, it, One
<1>4. \A p \in (1..n) \X T : step[p] = One(p[2], matches[p[1]]) /\ step[p] \in T
  BY <1>1, <1>2
<1>5. step \in [(1..n) \X T -> T]
  BY <1>4
<1> HIDE DEF step
<1>6. Folds(n, T, base, step)
  BY <1>1, <1>5 DEF Folds
<1>7. \A i \in 1..n, v \in T : step[<<i, v>>] = One(v, matches[i])
  BY <1>4
<1>8. Its(it)
  <2>1. PICK f : Folded(n, T, base, step, f)
    BY <1>6, SubsetFunction
  <2>2. \A s \in SUBSET (1..n) : f[s] \in T /\ f[s] = FoldAt(base, step, f, s)
    BY <2>1 DEF Folded
  <2>3. \A s \in SUBSET (1..n) : f[s] = Value(f, s)
    BY <1>1, <1>7, <2>2, GreatestUpTo DEF FoldAt, base
  <2>4. f = [s \in SUBSET (1..n) |-> f[s]]
    BY <2>1 DEF Folded
  <2> HIDE DEF Value
  <2>5. Its(f)
    BY <1>1, <2>3, <2>4
  <2> HIDE DEF Its
  <2>6. QED
    BY <2>5 DEF it
<1>9. Unrolled(n, T, base, step, it)
  <2>1. \A s \in SUBSET (1..n) : it[s] = Value(it, s)
    <3> HIDE DEF Value
    <3>1. QED
      BY <1>1, <1>8
  <2>2. QED
    BY <1>1, <1>7, <2>1, GreatestUpTo DEF Unrolled, base
<1>10. PICK h : Run(n, T, base, step, h, it[1..n])
  BY <1>6, <1>9, FoldRuns
<1>11. it[1..n] \in T
  BY <1>1, <1>10 DEF Run
<1>12. QED
  BY <1>1, <1>3, <1>11 DEF T

\* A model sees segments of the text.
LEMMA EligibleTyped ==
    ASSUME NEW S, NEW segments \in Seq(S), NEW skipsCode
    PROVE  Engine!Eligible(segments, skipsCode) \in Seq(S)
<1> DEFINE n == Len(segments)
           T == Seq(S)
           One(q, c) ==
               IF skipsCode /\ Engine!IsCodeLike(c.kind) THEN q ELSE Append(q, c)
           base == <<>>
           step == [p \in (1..n) \X T |-> One(p[2], segments[p[1]])]
           Value(g, s) == IF s = {} THEN <<>>
                       ELSE One(g[s \ {Engine!Max(s)}], segments[Engine!Max(s)])
           Its(g) == g = [s \in SUBSET (DOMAIN segments) |-> Value(g, s)]
           it == CHOOSE g : Its(g)
<1>1. n \in Nat /\ DOMAIN segments = 1..n /\ base \in T /\ \A i \in 1..n : segments[i] \in S
  BY LenProperties
<1>2. \A q \in T, c \in S : One(q, c) \in T
  OBVIOUS
<1>3. Engine!Eligible(segments, skipsCode) = it[DOMAIN segments]
  BY DEF Engine!Eligible, Engine!FoldLeft, Engine!MapThenFoldSet
<1> HIDE DEF n, T, base, it, One
<1>4. \A p \in (1..n) \X T : step[p] = One(p[2], segments[p[1]]) /\ step[p] \in T
  BY <1>1, <1>2
<1>5. step \in [(1..n) \X T -> T]
  BY <1>4
<1> HIDE DEF step
<1>6. Folds(n, T, base, step)
  BY <1>1, <1>5 DEF Folds
<1>7. \A i \in 1..n, v \in T : step[<<i, v>>] = One(v, segments[i])
  BY <1>4
<1>8. Its(it)
  <2>1. PICK f : Folded(n, T, base, step, f)
    BY <1>6, SubsetFunction
  <2>2. \A s \in SUBSET (1..n) : f[s] \in T /\ f[s] = FoldAt(base, step, f, s)
    BY <2>1 DEF Folded
  <2>3. \A s \in SUBSET (1..n) : f[s] = Value(f, s)
    BY <1>1, <1>7, <2>2, GreatestUpTo DEF FoldAt, base
  <2>4. f = [s \in SUBSET (1..n) |-> f[s]]
    BY <2>1 DEF Folded
  <2> HIDE DEF Value
  <2>5. Its(f)
    BY <1>1, <2>3, <2>4
  <2> HIDE DEF Its
  <2>6. QED
    BY <2>5 DEF it
<1>9. Unrolled(n, T, base, step, it)
  <2>1. \A s \in SUBSET (1..n) : it[s] = Value(it, s)
    <3> HIDE DEF Value
    <3>1. QED
      BY <1>1, <1>8
  <2>2. QED
    BY <1>1, <1>7, <2>1, GreatestUpTo DEF Unrolled, base
<1>10. PICK h : Run(n, T, base, step, h, it[1..n])
  BY <1>6, <1>9, FoldRuns
<1>11. it[1..n] \in T
  BY <1>1, <1>10 DEF Run
<1>12. QED
  BY <1>1, <1>3, <1>11 DEF T

-----------------------------------------------------------------------------
(* ContextSegments: claims in order and apart, segments in a chain.        *)

\* The FiniteSets of ContextSegments are these.
LEMMA CountOfEngine ==
    ASSUME NEW S
    PROVE  Engine!Cardinality(S) = Cardinality(S)
BY DEF Engine!Cardinality, Cardinality

\* How ByStart has one claim before another
Earlier(claims, i, j) ==
    \/ claims[i].start < claims[j].start
    \/ claims[i].start = claims[j].start /\ i < j

Rank(claims, i) == Cardinality({j \in DOMAIN claims : Earlier(claims, j, i)})

\* Claims have different ranks in the order by start, and each a rank of a place.
LEMMA RankFacts ==
    ASSUME NEW S \in SUBSET Piece, NEW claims \in Seq(S), NEW i \in DOMAIN claims
    PROVE  /\ Rank(claims, i) \in 0..(Len(claims) - 1)
           /\ \A j \in DOMAIN claims : Earlier(claims, i, j) => Rank(claims, i) < Rank(claims, j)
<1> DEFINE all == DOMAIN claims
           before(k) == {j \in all : Earlier(claims, j, k)}
<1>1. all = 1..Len(claims) /\ Len(claims) \in Nat /\ \A j \in all : claims[j].start \in Int /\ j \in Int
  <2>1. all = 1..Len(claims) /\ Len(claims) \in Nat /\ \A j \in all : claims[j] \in S
    BY LenProperties
  <2>2. \A c \in S : c.start \in Int
    BY DEF Piece
  <2>3. QED
    BY <2>1, <2>2
<1>2. IsFiniteSet(all) /\ Cardinality(all) = Len(claims)
  <2>1. /\ IsFiniteSet(1..Len(claims))
        /\ Cardinality(1..Len(claims)) = IF 1 > Len(claims) THEN 0 ELSE Len(claims) - 1 + 1
    BY <1>1, FS_Interval
  <2>2. QED
    BY <1>1, <2>1
<1>3. \A k \in all : before(k) \in SUBSET all /\ k \notin before(k)
  BY <1>1 DEF Earlier
<1>4. \A j, k \in all : Earlier(claims, j, k) => before(j) \in SUBSET before(k) /\ before(j) # before(k)
  <2>1. ASSUME NEW j \in all, NEW k \in all, Earlier(claims, j, k), NEW l \in all, Earlier(claims, l, j)
        PROVE  Earlier(claims, l, k)
    BY <1>1, <2>1 DEF Earlier
  <2>2. ASSUME NEW j \in all, NEW k \in all, Earlier(claims, j, k)
        PROVE  before(j) \in SUBSET before(k) /\ j \in before(k)
    BY <2>1, <2>2
  <2> HIDE DEF before
  <2>3. QED
    BY <1>3, <2>2
<1> HIDE DEF all
<1>5. \A k \in all : IsFiniteSet(before(k)) /\ Cardinality(before(k)) \in Nat
  <2> HIDE DEF before
  <2>1. QED
    BY <1>2, <1>3, FS_Subset, FS_CardinalityType
<1>6. \A k \in all : Cardinality(before(k)) < Len(claims)
  <2> HIDE DEF before
  <2>1. \A k \in all : Cardinality(before(k)) <= Cardinality(all) /\ Cardinality(before(k)) # Cardinality(all)
    BY <1>2, <1>3, FS_Subset
  <2>2. QED
    BY <1>1, <1>2, <1>5, <2>1
<1>7. \A j, k \in all : Earlier(claims, j, k) => Cardinality(before(j)) < Cardinality(before(k))
  <2> HIDE DEF before
  <2>1. ASSUME NEW j \in all, NEW k \in all, Earlier(claims, j, k)
        PROVE  Cardinality(before(j)) < Cardinality(before(k))
    <3>1. Cardinality(before(j)) <= Cardinality(before(k)) /\ Cardinality(before(k)) # Cardinality(before(j))
      BY <1>4, <1>5, <2>1, FS_Subset
    <3>2. QED
      BY <1>5, <3>1
  <2>2. QED
    BY <2>1
<1>8. \A k \in all : Rank(claims, k) = Cardinality(before(k))
  BY DEF Rank, all
<1> HIDE DEF before
<1>9. i \in all
  BY DEF all
<1>10. Rank(claims, i) \in 0..(Len(claims) - 1)
  BY <1>1, <1>5, <1>6, <1>8, <1>9
<1>11. \A j \in all : Earlier(claims, i, j) => Rank(claims, i) < Rank(claims, j)
  BY <1>7, <1>8, <1>9
<1>12. QED
  BY <1>10, <1>11 DEF all

\* Each place in the order by start has one of the claims.
LEMMA ByStartTyped ==
    ASSUME NEW S \in SUBSET Piece, NEW claims \in Seq(S)
    PROVE  Engine!ByStart(claims) \in Seq(S)
<1> DEFINE n == Len(claims)
           rank == [i \in 1..n |-> Rank(claims, i)]
           D == 1..n
           R == 0..(n - 1)
<1>1. n \in Nat /\ DOMAIN claims = D /\ \A i \in D : claims[i] \in S /\ claims[i].start \in Int
  BY LenProperties DEF Piece
<1>2. rank \in [D -> R]
  BY <1>1, RankFacts
<1>3. \A i, j \in D : i # j => rank[i] # rank[j]
  <2>1. ASSUME NEW i \in D, NEW j \in D, Earlier(claims, i, j)
        PROVE  rank[i] # rank[j]
    <3>1. Rank(claims, i) < Rank(claims, j) /\ Rank(claims, i) \in Int /\ Rank(claims, j) \in Int
      BY <1>1, <2>1, RankFacts
    <3>2. QED
      BY <3>1
  <2>2. \A i, j \in D : i # j => Earlier(claims, i, j) \/ Earlier(claims, j, i)
    BY <1>1 DEF Earlier
  <2> HIDE DEF rank
  <2>3. QED
    BY <2>1, <2>2
<1>4. IsFiniteSet(D) /\ IsFiniteSet(R) /\ Cardinality(D) = Cardinality(R)
  <2>1. IsFiniteSet(1..n) /\ Cardinality(1..n) = IF 1 > n THEN 0 ELSE n - 1 + 1
    BY <1>1, FS_Interval
  <2>2. IsFiniteSet(0..(n - 1)) /\ Cardinality(0..(n - 1)) = IF 0 > n - 1 THEN 0 ELSE n - 1 - 0 + 1
    BY <1>1, FS_Interval
  <2>3. QED
    BY <1>1, <2>1, <2>2
<1> HIDE DEF rank
<1>5. \A r \in R : \E i \in D : rank[i] = r
  <2> HIDE DEF D, R
  <2>1. rank \in Injection(D, R)
    BY <1>2, <1>3 DEF Injection, IsInjective
  <2>2. rank \in Surjection(D, R)
    BY <1>4, <2>1, FS_Injection
  <2>3. QED
    BY <2>2 DEF Surjection
<1> DEFINE at(k) == CHOOSE i \in DOMAIN claims :
                       Engine!Cardinality({j \in DOMAIN claims : Earlier(claims, j, i)}) = k - 1
<1>6. \A k \in D : at(k) \in D
  <2>1. ASSUME NEW k \in D
        PROVE  at(k) \in D
    <3>1. k - 1 \in R
      BY <1>1
    <3>2. PICK i \in D : rank[i] = k - 1
      BY <1>5, <3>1
    <3>3. Engine!Cardinality({j \in DOMAIN claims : Earlier(claims, j, i)}) = k - 1
      BY <3>2, CountOfEngine DEF rank, Rank
    <3>4. QED
      BY <1>1, <3>3
  <2>2. QED
    BY <2>1
<1>7. Engine!ByStart(claims) = [k \in DOMAIN claims |-> claims[at(k)]]
  BY DEF Engine!ByStart, Earlier
<1> HIDE DEF at
<1>8. Engine!ByStart(claims) = [k \in 1..n |-> claims[at(k)]] /\ \A k \in 1..n : claims[at(k)] \in S
  BY <1>1, <1>6, <1>7
<1> DEFINE s == [k \in 1..n |-> claims[at(k)]]
<1>9. s \in Seq(S)
  BY <1>1, <1>8
<1>10. QED
  BY <1>8, <1>9

\* The spans of a text that are not empty
Inside(length) == {c \in Piece : 0 <= c.start /\ c.start < c.end /\ c.end <= length}

\* Each ends before the next begins.
Successive(segs) == \A i, j \in DOMAIN segs : i < j => segs[i].end <= segs[j].start

\* A claim that is kept begins where all others have ended.
LEMMA KeepApart ==
    ASSUME NEW length \in Nat, NEW q \in Seq(Inside(length)), Successive(q), NEW c \in Inside(length)
    PROVE  Keep(q, c) \in Seq(Inside(length)) /\ Successive(Keep(q, c))
<1>1. CASE ~ (q = <<>> \/ c.start >= Engine!Last(q).end)
  BY <1>1 DEF Keep
<1>2. CASE q = <<>> \/ c.start >= Engine!Last(q).end
  <2> DEFINE n == Len(q)
             r == Append(q, c)
  <2>1. /\ n \in Nat /\ DOMAIN q = 1..n /\ r \in Seq(Inside(length)) /\ DOMAIN r = 1..(n + 1)
        /\ \A i \in 1..n : r[i] = q[i] /\ q[i] \in Inside(length)
        /\ r[n + 1] = c
    BY LenProperties, AppendProperties
  <2>2. \A i \in 1..n : q[i].end <= c.start
    <3>1. ASSUME NEW i \in 1..n
          PROVE  q[i].end <= c.start
      <4>1. n \in 1..n /\ q # <<>> /\ Engine!Last(q) = q[n]
        BY <2>1 DEF Engine!Last
      <4>2. /\ q[n].end <= c.start /\ q[n].end \in Int /\ c.start \in Int
            /\ q[n].start < q[n].end /\ q[n].start \in Int
        BY <1>2, <2>1, <4>1 DEF Inside, Piece
      <4>3. i = n \/ (q[i].end <= q[n].start /\ q[i].end \in Int)
        <5>1. i < n => q[i].end <= q[n].start
          BY <2>1, <4>1 DEF Successive
        <5>2. i = n \/ i < n
          <6>1. n \in Nat /\ i \in 1..n
            BY <2>1
          <6> HIDE DEF n
          <6>2. QED
            BY <6>1
        <5>3. q[i].end \in Int
          BY <2>1 DEF Inside, Piece
        <5>4. QED
          BY <5>1, <5>2, <5>3
      <4>4. QED
        BY <4>2, <4>3
    <3>2. QED
      BY <3>1
  <2> HIDE DEF n, r
  <2>3. Successive(r)
    <3>1. ASSUME NEW i \in 1..(n + 1), NEW j \in 1..(n + 1), i < j
          PROVE  r[i].end <= r[j].start
      <4>1. i \in 1..n /\ (j \in 1..n \/ j = n + 1)
        BY <2>1, <3>1
      <4>2. QED
        BY <2>1, <2>2, <3>1, <4>1 DEF Successive
    <3>2. QED
      BY <2>1, <3>1 DEF Successive
  <2>4. QED
    BY <1>2, <2>1, <2>3 DEF Keep, r
<1>3. QED
  BY <1>1, <1>2

\* The claims that are kept do not touch one another.
LEMMA KeptApart ==
    ASSUME NEW length \in Nat, NEW claims \in Seq(Inside(length))
    PROVE  /\ Engine!ResolveClaims(claims) \in Seq(Inside(length))
           /\ Successive(Engine!ResolveClaims(claims))
<1> DEFINE seq == Engine!ByStart(claims)
           n == Len(seq)
           S == Inside(length)
<1>1. S \in SUBSET Piece
  BY DEF Inside
<1>2. seq \in Seq(S)
  <2> HIDE DEF S
  <2>1. QED
    BY <1>1, ByStartTyped DEF S
<1>3. seq \in Seq(Piece) /\ n \in Nat /\ \A i \in 1..n : seq[i] \in S
  <2> HIDE DEF S, seq
  <2>1. QED
    BY <1>1, <1>2, LenProperties
<1>4. PICK h \in [0..n -> Seq(Piece)] :
         /\ h[0] = <<>>
         /\ \A i \in 1..n : h[i] = Keep(h[i - 1], seq[i])
         /\ Engine!ResolveClaims(claims) = h[n]
  BY <1>3, ResolveRuns
<1> DEFINE A == {i \in 0..n : h[i] \in Seq(S) /\ Successive(h[i])}
<1> HIDE DEF seq, n
<1>5. 0 \in A
  <2>1. <<>> \in Seq(S) /\ Successive(<<>>)
    BY DEF Successive
  <2>2. QED
    BY <1>3, <1>4, <2>1
<1>6. ASSUME NEW i \in 1..n, i - 1 \in A
      PROVE  i \in A
  <2>1. h[i - 1] \in Seq(S) /\ Successive(h[i - 1]) /\ seq[i] \in S /\ i \in 0..n
    BY <1>3, <1>6
  <2>2. Keep(h[i - 1], seq[i]) \in Seq(S) /\ Successive(Keep(h[i - 1], seq[i]))
    BY <2>1, KeepApart
  <2> HIDE DEF S
  <2>3. QED
    BY <1>4, <2>1, <2>2
<1>7. \A i \in 0..n : i \in A
  <2> HIDE DEF A
  <2>1. QED
    BY <1>3, <1>5, <1>6, Climb
<1>8. n \in A
  <2>1. n \in 0..n
    BY <1>3
  <2> HIDE DEF A
  <2>2. QED
    BY <1>7, <2>1
<1> HIDE DEF S
<1>9. QED
  BY <1>4, <1>8 DEF S

\* Segments from the first position of a text on, one after the other
Chain(segs) ==
    /\ segs \in Seq(Piece)
    /\ \A i \in 1..Len(segs) : segs[i].start < segs[i].end
    /\ segs # <<>> => segs[1].start = 0
    /\ \A i \in 1..(Len(segs) - 1) : segs[i + 1].start = segs[i].end

\* A chain goes on with a segment that begins where it ends.
LEMMA ChainAppend ==
    ASSUME NEW segs, Chain(segs), NEW s \in Piece,
           s.start = Engine!End(segs), s.start < s.end
    PROVE  Chain(Append(segs, s)) /\ Engine!End(Append(segs, s)) = s.end
<1> DEFINE n == Len(segs)
           r == Append(segs, s)
<1>1. segs \in Seq(Piece)
  BY DEF Chain
<1>2. /\ n \in Nat /\ r \in Seq(Piece) /\ Len(r) = n + 1 /\ r # <<>>
      /\ \A i \in 1..n : r[i] = segs[i]
      /\ r[n + 1] = s
  BY <1>1, LenProperties, AppendProperties
<1>3. Engine!End(r) = s.end
  BY <1>2 DEF Engine!End, Engine!Last
<1>4. n # 0 => segs # <<>> /\ Engine!End(segs) = segs[n].end
  BY <1>1, <1>2, EndTyped
<1>5. n = 0 => segs = <<>> /\ s.start = 0
  <2>1. n = 0 => segs = <<>>
    BY <1>1, EmptySeq
  <2>2. QED
    BY <2>1 DEF Engine!End
<1> HIDE DEF r
<1>6. \A i \in 1..Len(r) : r[i].start < r[i].end
  <2>1. ASSUME NEW i \in 1..Len(r)
        PROVE  r[i].start < r[i].end
    <3>1. i \in 1..n \/ i = n + 1
      BY <1>2
    <3>2. QED
      BY <1>2, <3>1 DEF Chain
  <2>2. QED
    BY <2>1
<1>7. r[1].start = 0
  <2>1. n = 0 \/ 1 \in 1..n
    BY <1>2
  <2>2. QED
    BY <1>2, <1>4, <1>5, <2>1 DEF Chain
<1>8. \A i \in 1..(Len(r) - 1) : r[i + 1].start = r[i].end
  <2>1. ASSUME NEW i \in 1..(Len(r) - 1)
        PROVE  r[i + 1].start = r[i].end
    <3>1. i \in 1..n /\ (i = n \/ (i \in 1..(n - 1) /\ i + 1 \in 1..n))
      BY <1>2
    <3>2. CASE i = n
      <4>1. r[i + 1] = s /\ r[i] = segs[n] /\ n # 0
        BY <1>2, <3>1, <3>2
      <4>2. QED
        BY <1>4, <4>1
    <3>3. CASE i \in 1..(n - 1) /\ i + 1 \in 1..n
      <4>1. r[i + 1] = segs[i + 1] /\ r[i] = segs[i]
        BY <1>2, <3>1, <3>3
      <4>2. QED
        BY <3>3, <4>1 DEF Chain
    <3>4. QED
      BY <3>1, <3>2, <3>3
  <2>2. QED
    BY <2>1
<1>9. Chain(r)
  BY <1>2, <1>6, <1>7, <1>8 DEF Chain
<1>10. QED
  BY <1>3, <1>9 DEF r

\* A claim behind the segments so far, and the text before it, continue them.
LEMMA EmitOneChain ==
    ASSUME NEW length \in Nat, NEW acc \in [out : Seq(Piece), full : BOOLEAN],
           Chain(acc.out), NEW c \in Inside(length), Engine!End(acc.out) <= c.start
    PROVE  /\ Chain(EmitOne(acc, c).out)
           /\ \/ Engine!End(EmitOne(acc, c).out) = Engine!End(acc.out)
              \/ Engine!End(EmitOne(acc, c).out) = c.end
<1> DEFINE out == acc.out
           e == Engine!End(out)
           a == [start |-> e, end |-> c.start, kind |-> "prose"]
           r == EmitOne(acc, c)
<1>1. e \in Int /\ out \in Seq(Piece) /\ c \in Piece /\ c.start \in Int /\ c.start < c.end
  BY EndTyped DEF Inside, Piece
<1>2. r.out = out \/ r.out = out \o Engine!SegmentsOf(e, c)
  BY DEF EmitOne
<1>3. CASE r.out = out
  BY <1>3
<1>4. CASE r.out = out \o Engine!SegmentsOf(e, c) /\ c.start > e
  <2>1. a \in Piece /\ a.start = e /\ a.end = c.start
    <3> HIDE DEF e
    <3>1. QED
      BY <1>1 DEF Piece
  <2>2. Engine!SegmentsOf(e, c) = <<a, c>>
    BY <1>4 DEF Engine!SegmentsOf
  <2> HIDE DEF a, r
  <2>3. Chain(Append(out, a)) /\ Engine!End(Append(out, a)) = c.start
    BY <1>1, <1>4, <2>1, ChainAppend
  <2>4. Chain(Append(Append(out, a), c)) /\ Engine!End(Append(Append(out, a), c)) = c.end
    BY <1>1, <2>3, ChainAppend
  <2>5. out \o <<a, c>> = Append(Append(out, a), c)
    BY <1>1, <2>1
  <2>6. QED
    BY <1>4, <2>2, <2>4, <2>5 DEF r
<1>5. CASE r.out = out \o Engine!SegmentsOf(e, c) /\ c.start = e
  <2>1. Engine!SegmentsOf(e, c) = <<c>>
    BY <1>1, <1>5 DEF Engine!SegmentsOf
  <2> HIDE DEF r
  <2>2. Chain(Append(out, c)) /\ Engine!End(Append(out, c)) = c.end
    BY <1>1, <1>5, ChainAppend
  <2>3. out \o <<c>> = Append(out, c)
    BY <1>1
  <2>4. QED
    BY <1>5, <2>1, <2>2, <2>3 DEF r
<1>6. e <= c.start
  OBVIOUS
<1>7. QED
  <2> HIDE DEF r, e
  <2>1. c.start > e \/ c.start = e
    BY <1>1, <1>6
  <2>2. QED
    BY <1>2, <1>3, <1>4, <1>5, <2>1 DEF r, e

\* What is emitted of claims that do not touch is a chain within the text.
LEMMA EmitChain ==
    ASSUME NEW length \in Nat, NEW kept \in Seq(Inside(length)), Successive(kept)
    PROVE  /\ Chain(Engine!Emit(kept))
           /\ Engine!End(Engine!Emit(kept)) <= length
<1> DEFINE n == Len(kept)
           S == Inside(length)
           T == [out : Seq(Piece), full : BOOLEAN]
<1>1. /\ S \in SUBSET Piece
      /\ \A c \in S : /\ c.start \in Int /\ c.end \in Int
                     /\ c.start < c.end /\ c.end <= length /\ 0 <= c.start
  BY DEF Inside, Piece
<1>2. /\ kept \in Seq(Piece) /\ n \in Nat /\ DOMAIN kept = 1..n
      /\ \A i \in 1..n : kept[i] \in S
  BY LenProperties, <1>1
<1>3. PICK h \in [0..n -> T] :
         /\ h[0] = [out |-> <<>>, full |-> FALSE]
         /\ \A i \in 1..n : h[i] = EmitOne(h[i - 1], kept[i])
         /\ Engine!Emit(kept) = h[n].out
  BY <1>2, EmitRuns
<1> DEFINE end(i) == Engine!End(h[i].out)
           A == {i \in 0..n : /\ Chain(h[i].out) /\ end(i) <= length
                              /\ \A j \in (i + 1)..n : end(i) <= kept[j].start}
<1> HIDE DEF n, S
<1>4. 0 \in A
  <2>1. h[0].out = <<>> /\ end(0) = 0 /\ 0 \in 0..n
    BY <1>2, <1>3 DEF Engine!End
  <2>2. Chain(<<>>)
    BY DEF Chain
  <2>3. \A j \in 1..n : 0 <= kept[j].start
    BY <1>1, <1>2
  <2> HIDE DEF end
  <2>4. QED
    BY <2>1, <2>2, <2>3
<1>5. ASSUME NEW i \in 1..n, i - 1 \in A
      PROVE  i \in A
  <2>1. i \in 0..n /\ i - 1 \in 0..n /\ i \in ((i - 1) + 1)..n
    BY <1>2
  <2>2. h[i - 1] \in T /\ Chain(h[i - 1].out) /\ end(i - 1) <= length
    BY <1>3, <1>5, <2>1
  <2>3. \A j \in i..n : end(i - 1) <= kept[j].start
    <3> HIDE DEF end
    <3>1. QED
      BY <1>2, <1>5
  <2>4. end(i - 1) <= kept[i].start /\ kept[i] \in S
    BY <1>2, <2>1, <2>3
  <2>5. /\ Chain(h[i].out)
        /\ end(i) = end(i - 1) \/ end(i) = kept[i].end
    <3>1. h[i] = EmitOne(h[i - 1], kept[i])
      BY <1>3
    <3>2. /\ Chain(EmitOne(h[i - 1], kept[i]).out)
          /\ \/ Engine!End(EmitOne(h[i - 1], kept[i]).out) = end(i - 1)
             \/ Engine!End(EmitOne(h[i - 1], kept[i]).out) = kept[i].end
      <4> HIDE DEF T
      <4>1. QED
        BY <2>2, <2>4, EmitOneChain DEF S, T
    <3>3. QED
      BY <3>1, <3>2
  <2> HIDE DEF end
  <2>6. \A j \in (i + 1)..n : j \in 1..n /\ j \in i..n /\ i < j
    BY <1>2
  <2>7. \A j \in (i + 1)..n : kept[i].end <= kept[j].start
    BY <1>2, <2>6 DEF Successive
  <2>8. end(i) <= length
    BY <1>1, <2>2, <2>4, <2>5
  <2>9. \A j \in (i + 1)..n : end(i) <= kept[j].start
    BY <2>3, <2>5, <2>6, <2>7
  <2>10. QED
    BY <2>1, <2>5, <2>8, <2>9
<1>6. \A i \in 0..n : i \in A
  <2> HIDE DEF A
  <2>1. QED
    BY <1>2, <1>4, <1>5, Climb
<1>7. n \in A
  <2>1. n \in 0..n
    BY <1>2
  <2> HIDE DEF A
  <2>2. QED
    BY <1>6, <2>1
<1>8. QED
  BY <1>3, <1>7

\* The segments of a text are a chain from its first position to its last.
LEMMA SegmentsChain ==
    ASSUME NEW length \in Nat, NEW fences \in Seq(Inside(length)),
           NEW matches \in Seq(Inside(length))
    PROVE  /\ Chain(Engine!Segments(length, fences, matches))
           /\ Engine!End(Engine!Segments(length, fences, matches)) = length
<1> DEFINE claims == Engine!Claims(fences, matches)
           kept == Engine!ResolveClaims(claims)
           out == Engine!Emit(kept)
           e == Engine!End(out)
           a == [start |-> e, end |-> length, kind |-> "prose"]
<1>1. claims \in Seq(Inside(length))
  BY ClaimsTyped
<1>2. kept \in Seq(Inside(length)) /\ Successive(kept)
  <2> HIDE DEF claims
  <2>1. QED
    BY <1>1, KeptApart
<1>3. Chain(out) /\ e <= length
  <2> HIDE DEF kept
  <2>1. QED
    BY <1>2, EmitChain
<1>4. Engine!Segments(length, fences, matches) = IF e < length THEN Append(out, a) ELSE out
  BY DEF Engine!Segments
<1> HIDE DEF claims, kept, out
<1>5. e \in Int
  BY <1>3, EndTyped DEF Chain
<1>6. CASE e < length
  <2>1. a \in Piece /\ a.start = e /\ a.end = length
    <3> HIDE DEF e
    <3>1. QED
      BY <1>5 DEF Piece
  <2> HIDE DEF a
  <2>2. Chain(Append(out, a)) /\ Engine!End(Append(out, a)) = length
    BY <1>3, <1>6, <2>1, ChainAppend
  <2>3. QED
    BY <1>4, <1>6, <2>2
<1>7. CASE ~ (e < length)
  <2> HIDE DEF a
  <2>1. e = length
    <3> HIDE DEF e
    <3>1. QED
      BY <1>3, <1>5, <1>7
  <2>2. QED
    BY <1>3, <1>4, <1>7, <2>1
<1>8. QED
  BY <1>6, <1>7

\* Of a chain, each segment ends before any later one begins.
LEMMA ChainOrder ==
    ASSUME NEW segs, Chain(segs)
    PROVE  \A i, j \in 1..Len(segs) : i < j => segs[i].end <= segs[j].start
<1> DEFINE n == Len(segs)
           P == {d \in Nat : \A i \in 1..n : i + d + 1 <= n => segs[i].end <= segs[i + d + 1].start}
<1>1. /\ n \in Nat
      /\ \A i \in 1..n : segs[i].start \in Int /\ segs[i].end \in Int /\ segs[i].start < segs[i].end
      /\ \A i \in 1..(n - 1) : segs[i + 1].start = segs[i].end
  <2>1. n \in Nat /\ \A i \in 1..n : segs[i] \in Piece
    BY LenProperties DEF Chain
  <2>2. QED
    BY <2>1 DEF Chain, Piece
<1> HIDE DEF n
<1>2. 0 \in P
  <2>1. ASSUME NEW i \in 1..n, i + 0 + 1 <= n
        PROVE  segs[i].end <= segs[i + 0 + 1].start
    <3>1. i \in 1..(n - 1) /\ i + 0 + 1 = i + 1 /\ i + 1 \in 1..n
      BY <1>1, <2>1
    <3>2. QED
      BY <1>1, <3>1
  <2>2. QED
    BY <2>1
<1>3. ASSUME NEW d \in P
      PROVE  d + 1 \in P
  <2>1. ASSUME NEW i \in 1..n, i + (d + 1) + 1 <= n
        PROVE  segs[i].end <= segs[i + (d + 1) + 1].start
    <3> DEFINE k == i + d + 1
    <3>1. k \in 1..(n - 1) /\ k + 1 \in 1..n /\ k \in 1..n /\ i + (d + 1) + 1 = k + 1
      BY <1>1, <2>1
    <3>2. segs[i].end <= segs[k].start
      BY <1>1, <2>1, <3>1
    <3> HIDE DEF k
    <3>3. QED
      BY <1>1, <3>1, <3>2
  <2>2. QED
    BY <2>1
<1>4. P = Nat
  <2> HIDE DEF P
  <2>1. P \in SUBSET Nat
    BY DEF P
  <2>2. QED
    BY <1>2, <1>3, <2>1, NatFrom0
<1>5. ASSUME NEW i \in 1..n, NEW j \in 1..n, i < j
      PROVE  segs[i].end <= segs[j].start
  <2> DEFINE d == j - i - 1
  <2>1. d \in Nat /\ i + d + 1 = j /\ j <= n
    BY <1>1, <1>5
  <2>2. d \in P
    BY <1>4, <2>1
  <2> HIDE DEF d
  <2>3. QED
    BY <2>1, <2>2
<1>6. QED
  BY <1>5 DEF n

\* A chain to the end of a text tiles it.
LEMMA ChainTiles ==
    ASSUME NEW length \in Nat, NEW segs, Chain(segs), Engine!End(segs) = length
    PROVE  Engine!Tiles(length, segs)
<1> DEFINE n == Len(segs)
<1>1. /\ n \in Nat /\ DOMAIN segs = 1..n
      /\ \A i \in 1..n : segs[i].start \in Int /\ segs[i].end \in Int /\ segs[i].start < segs[i].end
      /\ \A i \in 1..(n - 1) : segs[i + 1].start = segs[i].end
      /\ segs # <<>> => segs[1].start = 0 /\ segs[n].end = length
  <2>1. n \in Nat /\ DOMAIN segs = 1..n /\ \A i \in 1..n : segs[i] \in Piece
    BY LenProperties DEF Chain
  <2>2. segs # <<>> => segs[n].end = length
    BY EndTyped DEF Chain
  <2>3. QED
    BY <2>1, <2>2 DEF Chain, Piece
<1>2. \A i \in 1..n : segs[i].start \in Engine!Positions(segs[i])
  BY <1>1 DEF Engine!Positions
<1>3. ASSUME NEW p \in 0..(length - 1)
      PROVE  Engine!Cardinality({i \in DOMAIN segs : p \in Engine!Positions(segs[i])}) = 1
  <2> DEFINE S == {i \in 1..n : segs[i].start <= p}
  <2>1. segs # <<>>
    BY <1>3 DEF Engine!End
  <2>2. n # 0
    BY <2>1, EmptySeq DEF Chain
  <2> HIDE DEF n
  <2>3. 1 \in S
    BY <1>1, <1>3, <2>1, <2>2
  <2>4. S \in SUBSET Nat /\ IsFiniteSet(S)
    <3>1. IsFiniteSet(1..n)
      BY <1>1, FS_Interval
    <3> DEFINE all == 1..n
    <3>2. S \subseteq all /\ all \subseteq Nat
      OBVIOUS
    <3>3. IsFiniteSet(all)
      BY <3>1
    <3> HIDE DEF all, S
    <3>4. QED
      BY <3>2, <3>3, FS_Subset
  <2>5. PICK i \in S : \A l \in S : i >= l
    <3> HIDE DEF S
    <3>1. S # {}
      BY <2>3
    <3>2. QED
      BY <2>4, <3>1, GreatestOfFinite
  <2>6. i \in 1..n /\ segs[i].start <= p
    BY <2>5
  <2>7. p < segs[i].end
    <3>1. CASE i = n
      BY <1>1, <1>3, <2>1, <3>1
    <3>2. CASE i # n
      <4>1. i \in 1..(n - 1) /\ i + 1 \in 1..n /\ i + 1 > i /\ i \in Int
        BY <1>1, <2>6, <3>2
      <4>2. i + 1 \notin S
        <5> HIDE DEF S
        <5>1. QED
          BY <2>5, <4>1
      <4>3. ~ (segs[i + 1].start <= p)
        BY <4>1, <4>2
      <4>4. segs[i + 1].start = segs[i].end /\ segs[i].end \in Int
        BY <1>1, <4>1
      <4>5. QED
        BY <4>3, <4>4, <1>3
    <3>3. QED
      BY <3>1, <3>2
  <2>8. \A j \in 1..n : p \in Engine!Positions(segs[j]) <=> j = i
    <3>1. ASSUME NEW j \in 1..n, j # i
          PROVE  ~ (segs[j].start <= p /\ p < segs[j].end)
      <4>1. (i < j /\ segs[i].end <= segs[j].start) \/ (j < i /\ segs[j].end <= segs[i].start)
        <5>1. i < j \/ j < i
          BY <2>6, <3>1
        <5>2. QED
          BY <2>6, <5>1, ChainOrder DEF n
      <4>2. QED
        BY <1>1, <1>3, <2>6, <2>7, <4>1
    <3>2. \A j \in 1..n : p \in Engine!Positions(segs[j]) <=> (segs[j].start <= p /\ p < segs[j].end)
      BY <1>1, <1>3 DEF Engine!Positions
    <3>3. QED
      BY <2>6, <2>7, <3>1, <3>2
  <2>9. {j \in DOMAIN segs : p \in Engine!Positions(segs[j])} = {i}
    BY <1>1, <2>6, <2>8
  <2>10. QED
    BY <2>9, FS_Singleton, CountOfEngine
<1>4. QED
  BY <1>1, <1>2, <1>3 DEF Engine!Tiles

\* A segment is put behind the others, or the last one ends where it does.
LEMMA MergeFacts ==
    ASSUME NEW q \in Seq(Piece), NEW s \in Piece
    PROVE  LET r == Merge(q, s)
               n == Len(q)
           IN  \/ r = Append(q, s)
               \/ /\ n \in 1..n /\ r \in Seq(Piece) /\ Len(r) = n
                  /\ \A j \in 1..(n - 1) : r[j] = q[j]
                  /\ r[n].start = q[n].start /\ r[n].end = s.end /\ r[n].kind = q[n].kind
                  /\ q[n].kind = s.kind /\ q[n].end = s.start
<1> DEFINE n == Len(q)
           last == q[n]
           new == [last EXCEPT !.end = s.end]
           r == Merge(q, s)
<1>1. CASE ~ (q # <<>> /\ Engine!Last(q).kind = s.kind /\ Engine!Last(q).end = s.start)
  BY <1>1 DEF Merge
<1>2. CASE q # <<>> /\ Engine!Last(q).kind = s.kind /\ Engine!Last(q).end = s.start
  <2>1. n \in Nat /\ n \in 1..n /\ last \in Piece
    BY <1>2, LenProperties, EmptySeq
  <2>2. new \in Piece /\ new.start = last.start /\ new.end = s.end /\ new.kind = last.kind
    <3> HIDE DEF last
    <3>1. QED
      BY <2>1 DEF Piece
  <2>3. last.kind = s.kind /\ last.end = s.start
    BY <1>2 DEF Engine!Last
  <2>4. r = [q EXCEPT ![n] = new]
    BY <1>2 DEF Merge
  <2> HIDE DEF new, r, n
  <2>5. /\ r \in Seq(Piece) /\ Len(r) = n
        /\ \A j \in 1..n : r[j] = IF j = n THEN new ELSE q[j]
    BY <2>1, <2>2, <2>4, ExceptSeq DEF n
  <2>6. \A j \in 1..(n - 1) : r[j] = q[j]
    BY <2>1, <2>5
  <2>7. r[n] = new
    BY <2>1, <2>5
  <2>8. QED
    BY <2>1, <2>2, <2>3, <2>5, <2>6, <2>7 DEF n, r
<1>3. QED
  BY <1>1, <1>2

\* The segments of a chain are spans that are not empty.
LEMMA ChainSpans ==
    ASSUME NEW segs, Chain(segs)
    PROVE  /\ segs \in Seq(Piece) /\ Len(segs) \in Nat /\ DOMAIN segs = 1..Len(segs)
           /\ \A i \in 1..Len(segs) :
                 /\ segs[i] \in Piece /\ segs[i].start \in Int /\ segs[i].end \in Int
                 /\ segs[i].start < segs[i].end
<1>1. segs \in Seq(Piece)
  BY DEF Chain
<1>2. Len(segs) \in Nat /\ DOMAIN segs = 1..Len(segs) /\ \A i \in 1..Len(segs) : segs[i] \in Piece
  BY <1>1, LenProperties
<1>3. \A c \in Piece : c.start \in Int /\ c.end \in Int
  BY DEF Piece
<1>4. \A i \in 1..Len(segs) : segs[i].start < segs[i].end
  BY DEF Chain
<1>5. QED
  BY <1>1, <1>2, <1>3, <1>4

\* A chain remains one when a segment is merged.
LEMMA MergeChain ==
    ASSUME NEW q, Chain(q), NEW s \in Piece, s.start = Engine!End(q), s.start < s.end
    PROVE  Chain(Merge(q, s)) /\ Engine!End(Merge(q, s)) = s.end
<1> DEFINE n == Len(q)
           r == Merge(q, s)
<1>1. /\ q \in Seq(Piece) /\ n \in Nat
      /\ \A i \in 1..n : q[i].start < q[i].end /\ q[i].start \in Int /\ q[i].end \in Int
      /\ s.start \in Int /\ s.end \in Int
  BY ChainSpans DEF Piece
<1>2. CASE r = Append(q, s)
  BY <1>2, ChainAppend
<1>3. CASE /\ n \in 1..n /\ r \in Seq(Piece) /\ Len(r) = n
           /\ \A j \in 1..(n - 1) : r[j] = q[j]
           /\ r[n].start = q[n].start /\ r[n].end = s.end /\ r[n].kind = q[n].kind
           /\ q[n].kind = s.kind /\ q[n].end = s.start
  <2> HIDE DEF n, r
  <2>1. r # <<>> /\ Engine!End(r) = s.end
    <3>1. r # <<>>
      BY <1>3
    <3>2. QED
      BY <1>3, <3>1, EndTyped
  <2>2. \A i \in 1..n : r[i].start < r[i].end
    <3>1. ASSUME NEW i \in 1..n
          PROVE  r[i].start < r[i].end
      <4>1. i = n \/ i \in 1..(n - 1)
        BY <1>1
      <4>2. r[n].start < r[n].end
        BY <1>1, <1>3
      <4>3. QED
        BY <1>1, <1>3, <4>1, <4>2
    <3>2. QED
      BY <3>1
  <2>3. r[1].start = 0
    <3>1. q # <<>> /\ q[1].start = 0
      BY <1>1, <1>3 DEF Chain, n
    <3>2. 1 = n \/ 1 \in 1..(n - 1)
      BY <1>1, <1>3
    <3>3. QED
      BY <1>3, <3>1, <3>2
  <2>4. \A i \in 1..(n - 1) : r[i + 1].start = r[i].end
    <3>1. ASSUME NEW i \in 1..(n - 1)
          PROVE  r[i + 1].start = r[i].end
      <4>1. i + 1 = n \/ i + 1 \in 1..(n - 1)
        BY <1>1
      <4>2. r[i + 1].start = q[i + 1].start
        BY <1>3, <4>1
      <4>3. q[i + 1].start = q[i].end
        BY DEF Chain, n
      <4>4. QED
        BY <1>3, <4>2, <4>3
    <3>2. QED
      BY <3>1
  <2>5. Chain(r)
    BY <1>3, <2>1, <2>2, <2>3, <2>4 DEF Chain
  <2>6. QED
    BY <2>1, <2>5 DEF r
<1>4. QED
  BY <1>1, <1>2, <1>3, MergeFacts

\* Segments of the same kind where they touch
Agrees(segs, i, merged) ==
    \A k \in 1..i, j \in 1..Len(merged) :
        Engine!Touches(segs[k], merged[j]) => segs[k].kind = merged[j].kind

\* A merged segment is of the kind of those that it touches.
LEMMA MergeAgrees ==
    ASSUME NEW segs, Chain(segs), NEW i \in 1..Len(segs), NEW q, Chain(q),
           segs[i].start = Engine!End(q), Agrees(segs, i - 1, q)
    PROVE  Agrees(segs, i, Merge(q, segs[i]))
<1> DEFINE s == segs[i]
           n == Len(q)
           r == Merge(q, s)
           m == Len(segs)
<1>1. /\ q \in Seq(Piece) /\ n \in Nat /\ s \in Piece /\ m \in Nat
      /\ \A j \in 1..n : q[j].start < q[j].end /\ q[j].start \in Int /\ q[j].end \in Int
      /\ \A k \in 1..m : segs[k].start < segs[k].end /\ segs[k].start \in Int /\ segs[k].end \in Int
  BY ChainSpans
<1>2. \A k \in 1..m : k < i => segs[k].end <= s.start
  BY ChainOrder
<1>3. \A j \in 1..n : q[j].end <= s.start
  <2>1. ASSUME NEW j \in 1..n
        PROVE  q[j].end <= s.start
    <3>1. q # <<>> /\ n \in 1..n
      BY <1>1
    <3>2. s.start = q[n].end
      BY <1>1, <3>1, EndTyped
    <3>3. j = n \/ j < n
      <4> HIDE DEF n
      <4>1. QED
        BY <1>1
    <3>4. j < n => q[j].end <= q[n].start
      BY <3>1, ChainOrder
    <3> HIDE DEF n, s
    <3>5. QED
      BY <1>1, <3>1, <3>2, <3>3, <3>4
  <2>2. QED
    BY <2>1
<1>4. /\ s.start \in Int /\ s.end \in Int /\ i \in 1..m
  BY <1>1 DEF Piece
<1>5. r = Append(q, s) \/
      /\ n \in 1..n /\ r \in Seq(Piece) /\ Len(r) = n
      /\ \A j \in 1..(n - 1) : r[j] = q[j]
      /\ r[n].start = q[n].start /\ r[n].end = s.end /\ r[n].kind = q[n].kind
      /\ q[n].kind = s.kind /\ q[n].end = s.start
  BY <1>1, MergeFacts
<1>6. \A k \in 1..i : k \in 1..m /\ (k = i \/ (k < i /\ k \in 1..(i - 1)))
  BY <1>1
<1>7. r = Append(q, s) => /\ Len(r) = n + 1 /\ r[n + 1] = s
                          /\ \A j \in 1..n : r[j] = q[j]
  BY <1>1, AppendProperties
<1>8. \A k \in 1..(i - 1), j \in 1..n : Engine!Touches(segs[k], q[j]) => segs[k].kind = q[j].kind
  BY DEF Agrees
<1>9. \A k \in 1..m : segs[k].start \in Int /\ segs[k].end \in Int
  BY <1>1
<1>10. segs[i] = s
  OBVIOUS
<1> HIDE DEF n, r, s, m
<1>11. ASSUME NEW k \in 1..i, NEW j \in 1..Len(r), Engine!Touches(segs[k], r[j])
       PROVE  segs[k].kind = r[j].kind
  <2>1. segs[k].start < r[j].end /\ r[j].start < segs[k].end
    BY <1>11 DEF Engine!Touches
  <2>2. CASE j \in 1..n /\ r[j] = q[j]
    <3>1. k # i
      BY <1>1, <1>3, <1>4, <1>10, <2>1, <2>2
    <3>2. k \in 1..(i - 1)
      BY <1>6, <3>1
    <3>3. QED
      BY <1>8, <1>11, <2>2, <3>2
  <2>3. CASE r[j] = s
    <3>1. k = i
      <4>1. SUFFICES ASSUME k # i PROVE FALSE
        OBVIOUS
      <4>2. segs[k].end <= s.start /\ s.start < segs[k].end /\ k \in 1..m
        BY <1>2, <1>6, <2>1, <2>3, <4>1
      <4>3. QED
        BY <1>4, <1>9, <4>2
    <3>2. QED
      BY <1>10, <2>3, <3>1
  <2>4. CASE /\ j = n /\ n \in 1..n
             /\ r[n].start = q[n].start /\ r[n].end = s.end /\ r[n].kind = q[n].kind
             /\ q[n].kind = s.kind /\ q[n].end = s.start
    <3>1. CASE k = i
      BY <1>10, <2>4, <3>1
    <3>2. CASE k # i
      <4>1. k \in 1..(i - 1) /\ k \in 1..m /\ segs[k].end <= s.start
        BY <1>2, <1>6, <3>2
      <4>2. segs[k].start < q[n].end /\ q[n].start < segs[k].end
        BY <1>1, <1>4, <2>1, <2>4, <4>1
      <4>3. Engine!Touches(segs[k], q[n])
        BY <4>2 DEF Engine!Touches
      <4>4. QED
        BY <1>8, <2>4, <4>1, <4>3
    <3>3. QED
      BY <3>1, <3>2
  <2>5. CASE r = Append(q, s)
    <3>1. j \in 1..n \/ j = n + 1
      BY <1>1, <1>7, <2>5
    <3>2. QED
      BY <1>7, <2>2, <2>3, <2>5, <3>1
  <2>6. CASE /\ n \in 1..n /\ r \in Seq(Piece) /\ Len(r) = n
             /\ \A l \in 1..(n - 1) : r[l] = q[l]
             /\ r[n].start = q[n].start /\ r[n].end = s.end /\ r[n].kind = q[n].kind
             /\ q[n].kind = s.kind /\ q[n].end = s.start
    <3>1. j = n \/ (j \in 1..(n - 1) /\ j \in 1..n)
      BY <1>1, <2>6
    <3>2. QED
      BY <2>2, <2>4, <2>6, <3>1
  <2>7. QED
    BY <1>5, <2>5, <2>6
<1>12. QED
  BY <1>11 DEF Agrees, r, s

\* Coalesced, a chain is one to the same end, and no position has changed its kind.
LEMMA CoalesceChain ==
    ASSUME NEW segs, Chain(segs)
    PROVE  /\ Chain(Engine!Coalesce(segs))
           /\ Engine!End(Engine!Coalesce(segs)) = Engine!End(segs)
           /\ Engine!SameKinds(segs, Engine!Coalesce(segs))
<1> DEFINE n == Len(segs)
           end(i) == IF i = 0 THEN 0 ELSE segs[i].end
<1>1. segs \in Seq(Piece) /\ n \in Nat /\ DOMAIN segs = 1..n /\ \A i \in 1..n : segs[i] \in Piece
  BY LenProperties DEF Chain
<1>2. PICK h \in [0..n -> Seq(Piece)] :
         /\ h[0] = <<>>
         /\ \A i \in 1..n : h[i] = Merge(h[i - 1], segs[i])
         /\ Engine!Coalesce(segs) = h[n]
  BY <1>1, CoalesceRuns
<1>3. Engine!End(segs) = end(n)
  <2>1. CASE segs = <<>>
    BY <2>1 DEF Engine!End
  <2>2. CASE segs # <<>>
    BY <1>1, <2>2, EndTyped, EmptySeq
  <2>3. QED
    BY <2>1, <2>2
<1>4. \A i \in 1..n : segs[i].start = end(i - 1) /\ segs[i].start < segs[i].end
  <2>1. ASSUME NEW i \in 1..n
        PROVE  segs[i].start = end(i - 1)
    <3>1. CASE i = 1
      BY <1>1, <3>1 DEF Chain
    <3>2. CASE i # 1
      <4>1. i - 1 \in 1..(n - 1) /\ (i - 1) + 1 = i /\ i - 1 # 0
        BY <1>1, <3>2
      <4>2. segs[(i - 1) + 1].start = segs[i - 1].end
        BY <4>1 DEF Chain
      <4>3. QED
        BY <4>1, <4>2
    <3>3. QED
      BY <3>1, <3>2
  <2>2. QED
    BY <2>1 DEF Chain
<1> DEFINE A == {i \in 0..n : Chain(h[i]) /\ Engine!End(h[i]) = end(i) /\ Agrees(segs, i, h[i])}
<1>5. 0 \in A
  <2>1. Chain(<<>>) /\ Engine!End(<<>>) = 0 /\ Agrees(segs, 0, <<>>)
    BY DEF Chain, Engine!End, Agrees
  <2>2. 0 \in 0..n
    BY <1>1
  <2>3. QED
    BY <1>2, <2>1, <2>2
<1>6. ASSUME NEW i \in 1..n, i - 1 \in A
      PROVE  i \in A
  <2>1. Chain(h[i - 1]) /\ Engine!End(h[i - 1]) = end(i - 1) /\ Agrees(segs, i - 1, h[i - 1])
    BY <1>6
  <2>2. segs[i].start = Engine!End(h[i - 1]) /\ segs[i].start < segs[i].end /\ segs[i] \in Piece
    BY <1>1, <1>4, <2>1
  <2>3. Chain(Merge(h[i - 1], segs[i])) /\ Engine!End(Merge(h[i - 1], segs[i])) = segs[i].end
    BY <2>1, <2>2, MergeChain
  <2>4. Agrees(segs, i, Merge(h[i - 1], segs[i]))
    BY <2>1, <2>2, MergeAgrees
  <2>5. i \in 0..n /\ end(i) = segs[i].end
    BY <1>1
  <2> HIDE DEF end
  <2>6. QED
    BY <1>2, <2>3, <2>4, <2>5
<1>7. \A i \in 0..n : i \in A
  <2> HIDE DEF A
  <2>1. QED
    BY <1>1, <1>5, <1>6, Climb
<1>8. n \in A
  <2>1. n \in 0..n
    BY <1>1
  <2> HIDE DEF A
  <2>2. QED
    BY <1>7, <2>1
<1> HIDE DEF end
<1>9. Engine!SameKinds(segs, h[n])
  <2>1. DOMAIN h[n] = 1..Len(h[n])
    BY <1>8, LenProperties DEF Chain
  <2>2. QED
    BY <1>1, <1>8, <2>1 DEF Agrees, Engine!SameKinds
<1>10. QED
  BY <1>2, <1>3, <1>8, <1>9

-----------------------------------------------------------------------------
(* ContextSegments: what is found in the joined text is masked where it is.*)

\* Where segment i begins in the joined text, given where the one before it does
JoinsAt(segs, f, i) == IF i = 1 THEN 0 ELSE f[i - 1] + segs[i - 1].end - segs[i - 1].start + Gap

\* There is the recursive function of where joined segments begin.
LEMMA JoinsAtExist ==
    ASSUME NEW n \in Nat, NEW segs
    PROVE  \E f : f = [i \in 1..n |-> JoinsAt(segs, f, i)]
<1> DEFINE P == {m \in Nat : \E f : f = [i \in 1..m |-> JoinsAt(segs, f, i)]}
<1>1. 0 \in P
  <2> DEFINE f == [i \in 1..0 |-> 0]
  <2>1. f = [i \in 1..0 |-> JoinsAt(segs, f, i)]
    OBVIOUS
  <2> HIDE DEF f
  <2>2. QED
    BY <2>1
<1>2. ASSUME NEW m \in P
      PROVE  m + 1 \in P
  <2>1. PICK f : f = [i \in 1..m |-> JoinsAt(segs, f, i)]
    OBVIOUS
  <2> DEFINE g == [i \in 1..(m + 1) |-> IF i = m + 1 THEN JoinsAt(segs, f, i) ELSE f[i]]
  <2>2. \A i \in 1..m : g[i] = f[i] /\ f[i] = JoinsAt(segs, f, i)
    <3>1. \A i \in 1..m : i \in 1..(m + 1) /\ i # m + 1
      OBVIOUS
    <3>2. \A i \in 1..m : f[i] = JoinsAt(segs, f, i)
      BY <2>1
    <3>3. QED
      BY <3>1, <3>2
  <2>3. g[m + 1] = JoinsAt(segs, f, m + 1) /\ g = [i \in 1..(m + 1) |-> g[i]]
    OBVIOUS
  <2> HIDE DEF g
  <2>4. ASSUME NEW i \in 1..(m + 1)
        PROVE  JoinsAt(segs, g, i) = JoinsAt(segs, f, i)
    <3>1. CASE i = 1
      BY <3>1 DEF JoinsAt
    <3>2. CASE i # 1
      <4>1. i - 1 \in 1..m
        BY <3>2
      <4>2. QED
        BY <2>2, <4>1 DEF JoinsAt
    <3>3. QED
      BY <3>1, <3>2
  <2>5. ASSUME NEW i \in 1..(m + 1)
        PROVE  g[i] = JoinsAt(segs, g, i)
    <3>1. i = m + 1 \/ i \in 1..m
      OBVIOUS
    <3>2. QED
      BY <2>2, <2>3, <2>4, <3>1
  <2>6. g = [i \in 1..(m + 1) |-> JoinsAt(segs, g, i)]
    BY <2>3, <2>5
  <2>7. QED
    BY <2>6
<1>3. P = Nat
  <2>1. P \in SUBSET Nat
    OBVIOUS
  <2> HIDE DEF P
  <2>2. QED
    BY <1>1, <1>2, <2>1, NatFrom0
<1>4. QED
  BY <1>3

\* A segment in the joined text, and where it came from
Joined == [start : Int, end : Int, origin : Int]

\* Joined segments have places in both texts.
LEMMA JoinTyped ==
    ASSUME NEW segs \in Seq(Piece)
    PROVE  \A s \in Engine!Range(Engine!Join(segs)) : s \in Joined
<1> DEFINE n == Len(segs)
           at == CHOOSE f : f = [i \in 1..n |-> JoinsAt(segs, f, i)]
           joined == [i \in DOMAIN segs |->
                         [start |-> at[i], end |-> at[i] + segs[i].end - segs[i].start,
                          origin |-> segs[i].start]]
<1>1. n \in Nat /\ DOMAIN segs = 1..n /\ \A i \in 1..n : segs[i].start \in Int /\ segs[i].end \in Int
  <2>1. n \in Nat /\ DOMAIN segs = 1..n /\ \A i \in 1..n : segs[i] \in Piece
    BY LenProperties
  <2>2. \A c \in Piece : c.start \in Int /\ c.end \in Int
    BY DEF Piece
  <2>3. QED
    BY <2>1, <2>2
<1>2. Engine!Join(segs) = joined
  BY DEF Engine!Join, JoinsAt
<1>3. at = [i \in 1..n |-> JoinsAt(segs, at, i)]
  BY <1>1, JoinsAtExist
<1> HIDE DEF n, at
<1>4. \A i \in 1..n : at[i] = JoinsAt(segs, at, i)
  BY <1>3
<1>5. \A i \in 1..n : at[i] \in Int
  <2> DEFINE A == {0} \cup {i \in 1..n : at[i] \in Int}
  <2>1. 0 \in A
    OBVIOUS
  <2>2. ASSUME NEW i \in 1..n, i - 1 \in A
        PROVE  i \in A
    <3>1. CASE i = 1
      BY <1>4, <3>1 DEF JoinsAt
    <3>2. CASE i # 1
      <4>1. i - 1 \in 1..n /\ at[i - 1] \in Int
        BY <1>1, <2>2, <3>2
      <4>2. at[i] = at[i - 1] + segs[i - 1].end - segs[i - 1].start + Gap
        BY <1>4, <3>2 DEF JoinsAt
      <4>3. QED
        BY <1>1, <4>1, <4>2, BoundsAssumption
    <3>3. QED
      BY <3>1, <3>2
  <2> HIDE DEF A
  <2>3. \A i \in 0..n : i \in A
    BY <1>1, <2>1, <2>2, Climb
  <2>4. \A i \in 1..n : i \in A
    BY <1>1, <2>3
  <2>5. QED
    BY <1>1, <2>4 DEF A
<1>6. \A i \in 1..n : joined[i] \in Joined
  BY <1>1, <1>5 DEF Joined
<1>7. DOMAIN joined = 1..n
  BY <1>1
<1> HIDE DEF joined
<1>8. QED
  BY <1>2, <1>6, <1>7 DEF Engine!Range

\* The larger of two numbers is their Max.
LEMMA LargerOfTwo ==
    ASSUME NEW a \in Int, NEW b \in Int
    PROVE  Engine!Max({a, b}) = IF a >= b THEN a ELSE b
BY DEF Engine!Max

\* The smaller of two numbers is their Min.
LEMMA SmallerOfTwo ==
    ASSUME NEW a \in Int, NEW b \in Int
    PROVE  Engine!Min({a, b}) = IF a <= b THEN a ELSE b
BY DEF Engine!Min

\* A finding is moved back with each of its positions.
LEMMA FindingMapsBack ==
    ASSUME NEW joined, \A s \in Engine!Range(joined) : s \in Joined,
           NEW i \in Int, NEW j \in Int
    PROVE  Engine!MapsBack([start |-> i, end |-> j], joined)
<1> DEFINE finding == [start |-> i, end |-> j]
           first(s) == IF i >= s.start THEN i ELSE s.start
           last(s) == IF j <= s.end THEN j ELSE s.end
           moved(s) == [start |-> first(s) - s.start + s.origin, end |-> last(s) - s.start + s.origin]
           R == Engine!Range(joined)
           touched == {s \in R : Engine!Touches(finding, s)}
           lhs == UNION {Engine!Positions(m) : m \in Engine!MapToSegments(finding, joined)}
           rhs == UNION {Engine!Sources(joined, p) : p \in Engine!Positions(finding)}
<1>1. \A s \in R : s.start \in Int /\ s.end \in Int /\ s.origin \in Int
  BY DEF Joined
<1>2. \A s \in R : /\ Engine!Max({finding.start, s.start}) = first(s)
                   /\ Engine!Min({finding.end, s.end}) = last(s)
  BY <1>1, LargerOfTwo, SmallerOfTwo
<1>3. Engine!MapToSegments(finding, joined) = {moved(s) : s \in touched}
  BY <1>2 DEF Engine!MapToSegments
<1>4. \A s \in R : s \in touched <=> (i < s.end /\ s.start < j)
  BY DEF Engine!Touches
<1>5. \A p \in Int, s \in R : p \in Engine!Positions(s) <=> (s.start <= p /\ p < s.end)
  BY <1>1 DEF Engine!Positions
<1>6. \A p \in Int : p \in Engine!Positions(finding) <=> (i <= p /\ p < j)
  BY DEF Engine!Positions
<1>7. \A s \in R, v \in Int :
         v \in Engine!Positions(moved(s)) <=>
            (first(s) - s.start + s.origin <= v /\ v < last(s) - s.start + s.origin)
  BY <1>1 DEF Engine!Positions
<1>8. \A s \in R : \A q : q \in Engine!Positions(moved(s)) => q \in Int
  BY <1>1 DEF Engine!Positions
<1>9. \A p, q : q \in Engine!Sources(joined, p) <=>
         \E s \in R : p \in Engine!Positions(s) /\ q = p - s.start + s.origin
  BY DEF Engine!Sources, Engine!Range
<1>10. \A p : p \in Engine!Positions(finding) => p \in Int
  BY DEF Engine!Positions
<1>11. \A q : q \in lhs <=> \E s \in touched : q \in Engine!Positions(moved(s))
  BY <1>3
<1>12. \A q : q \in rhs <=> \E p \in Engine!Positions(finding) : q \in Engine!Sources(joined, p)
  OBVIOUS
<1> HIDE DEF R, touched, lhs, rhs, finding, moved
<1>13. ASSUME NEW q \in lhs
       PROVE  q \in rhs
  <2>1. PICK s \in touched : q \in Engine!Positions(moved(s))
    BY <1>11
  <2>2. s \in R /\ i < s.end /\ s.start < j
    BY <1>4 DEF touched
  <2>3. q \in Int /\ first(s) - s.start + s.origin <= q /\ q < last(s) - s.start + s.origin
    BY <1>7, <1>8, <2>1, <2>2
  <2> DEFINE p == q + s.start - s.origin
  <2>4. p \in Int /\ q = p - s.start + s.origin /\ i <= p /\ p < j /\ s.start <= p /\ p < s.end
    BY <1>1, <2>2, <2>3
  <2> HIDE DEF p
  <2>5. p \in Engine!Positions(finding) /\ q \in Engine!Sources(joined, p)
    BY <1>5, <1>6, <1>9, <2>2, <2>4
  <2>6. QED
    BY <1>12, <2>5
<1>14. ASSUME NEW q \in rhs
       PROVE  q \in lhs
  <2>1. PICK p \in Engine!Positions(finding) : q \in Engine!Sources(joined, p)
    BY <1>12
  <2>2. PICK s \in R : p \in Engine!Positions(s) /\ q = p - s.start + s.origin
    BY <1>9, <2>1
  <2>3. p \in Int /\ i <= p /\ p < j /\ s.start <= p /\ p < s.end
    BY <1>5, <1>6, <1>10, <2>1, <2>2
  <2>4. s \in touched
    BY <1>1, <1>4, <2>2, <2>3
  <2>5. q \in Int /\ first(s) - s.start + s.origin <= q /\ q < last(s) - s.start + s.origin
    BY <1>1, <2>2, <2>3
  <2>6. q \in Engine!Positions(moved(s))
    BY <1>7, <2>2, <2>5
  <2>7. QED
    BY <1>11, <2>4, <2>6
<1>15. lhs = rhs
  BY <1>13, <1>14
<1>16. QED
  BY <1>15 DEF Engine!MapsBack, lhs, rhs, finding

\* Whatever is matched in a text, its segments tile it, coalescing them changes neither that
\* nor what kind a position has, and what a model finds in the joined text is masked where it
\* came from.
THEOREM SegmentsAreRight ==
    ASSUME NEW length \in Nat, NEW fences \in Seq(Inside(length)),
           NEW matches \in Seq(Inside(length))
    PROVE  Engine!SegmentationSound(length, Engine!Segments(length, fences, matches))
<1> DEFINE segs == Engine!Segments(length, fences, matches)
           coalesced == Engine!Coalesce(segs)
<1>1. Chain(segs) /\ Engine!End(segs) = length
  BY SegmentsChain
<1> HIDE DEF segs
<1>2. /\ Chain(coalesced) /\ Engine!End(coalesced) = length
      /\ Engine!SameKinds(segs, coalesced)
  BY <1>1, CoalesceChain
<1> HIDE DEF coalesced
<1>3. Engine!Tiles(length, segs) /\ Engine!Tiles(length, coalesced)
  BY <1>1, <1>2, ChainTiles
<1>4. ASSUME NEW skipsCode \in BOOLEAN,
             NEW i \in 0..Engine!JoinedLength(Engine!Join(Engine!Eligible(coalesced, skipsCode))),
             NEW j \in 0..Engine!JoinedLength(Engine!Join(Engine!Eligible(coalesced, skipsCode)))
      PROVE  Engine!MapsBack([start |-> i, end |-> j],
                                Engine!Join(Engine!Eligible(coalesced, skipsCode)))
  <2> DEFINE eligible == Engine!Eligible(coalesced, skipsCode)
             joined == Engine!Join(eligible)
  <2>1. eligible \in Seq(Piece)
    BY <1>2, EligibleTyped DEF Chain
  <2> HIDE DEF eligible
  <2>2. \A s \in Engine!Range(joined) : s \in Joined
    BY <2>1, JoinTyped
  <2>3. i \in Int /\ j \in Int
    OBVIOUS
  <2> HIDE DEF joined
  <2>4. Engine!MapsBack([start |-> i, end |-> j], joined)
    BY <2>2, <2>3, FindingMapsBack
  <2>5. QED
    BY <2>4 DEF joined, eligible
<1>5. Engine!SegmentationSound(length, segs)
  BY <1>2, <1>3, <1>4 DEF Engine!SegmentationSound, coalesced
<1>6. QED
  BY <1>5 DEF segs

\* The claims of the inputs are spans of the text.
LEMMA ClaimsAreInside == Claims \subseteq Inside(MaxSpan)
<1>1. SUFFICES ASSUME NEW c \in Claims PROVE c \in Inside(MaxSpan)
  OBVIOUS
<1>2. PICK s \in Spans(MaxSpan), k \in {"code", "patch"} : c = [start |-> s.start, end |-> s.end, kind |-> k]
  BY DEF Claims
<1>3. s.start \in 0..MaxSpan /\ s.end \in 0..MaxSpan /\ s.start < s.end
  BY DEF Spans
<1>4. c \in Piece /\ 0 <= c.start /\ c.start < c.end /\ c.end <= MaxSpan
  BY <1>2, <1>3, BoundsAssumption DEF Piece
<1>5. QED
  BY <1>4 DEF Inside

\* A text that is cut has its length and what was matched in it.
SegmentsInv ==
    part = "segments" =>
        /\ input.length \in Nat
        /\ input.fences \in Seq(Inside(input.length)) /\ input.matches \in Seq(Inside(input.length))
        /\ output # None => output = Engine!Segments(input.length, input.fences, input.matches)

\* The segments the gateway masks by are sound.
THEOREM SegmentationIsSound == TextSpec => []SegmentationSound
<1>1. TextInit => SegmentsInv
  <2>1. SUFFICES ASSUME TextInit, part = "segments" PROVE SegmentsInv
    BY DEF SegmentsInv
  <2>2. PICK n \in 0..1, m \in 0..MaxClaims :
           input \in [length : {MaxSpan}, fences : [1..n -> Claims], matches : [1..m -> Claims]]
    BY <2>1 DEF TextInit, InitInput
  <2>3. n \in Nat /\ m \in Nat
    BY BoundsAssumption
  <2> DEFINE S == Inside(MaxSpan)
  <2>4. input.length = MaxSpan /\ input.fences \in [1..n -> S] /\ input.matches \in [1..m -> S]
    BY <2>2, ClaimsAreInside
  <2> HIDE DEF S
  <2>5. input.fences \in Seq(S) /\ input.matches \in Seq(S)
    BY <2>3, <2>4
  <2>6. output = None
    BY <2>1 DEF TextInit
  <2>7. QED
    BY <2>4, <2>5, <2>6, BoundsAssumption DEF SegmentsInv, S
<1>2. SegmentsInv /\ [TextNext]_textVars => SegmentsInv'
  <2>1. [TextNext]_textVars =>
           CutSegments \/ part' # "segments" \/ UNCHANGED <<part, input, output>>
    BY DEF TextNext, textVars, algorithmVars, AnswerAndRepeat, ResolvePolicy, CutWindows, FindTerm,
           Computes
  <2>2. CutSegments =>
           /\ part' = part /\ input' = input
           /\ output' = Engine!Segments(input.length, input.fences, input.matches)
    BY DEF CutSegments, Computes
  <2>3. QED
    BY <2>1, <2>2 DEF SegmentsInv
<1>3. SegmentsInv => SegmentationSound
  BY SegmentsAreRight DEF SegmentsInv, SegmentationSound, Computed
<1>4. QED
  BY <1>1, <1>2, <1>3, PTL DEF TextSpec

-----------------------------------------------------------------------------
(* TextOffsets: what is found in a normalised text is where it was.        *)

\* The characters of texts: of what is made of a letter and its mark, too
Alphabet(V) == {"a", "b", "a^"} \subseteq V

\* Numbers to n have a least one.
LEMMA LeastUpTo ==
    ASSUME NEW n \in Nat, NEW S \in SUBSET (0..n), S # {}
    PROVE  \E m \in S : \A k \in S : m <= k
<1> DEFINE A == {i \in 0..n : \A j \in S : j > i}
<1>1. SUFFICES ASSUME \A m \in S : \E k \in S : ~ (m <= k)
               PROVE  FALSE
  OBVIOUS
<1>2. 0 \in A
  BY <1>1
<1>3. ASSUME NEW i \in 1..n, i - 1 \in A
      PROVE  i \in A
  <2>1. \A j \in S : j >= i /\ j \in Nat
    BY <1>3
  <2>2. i \notin S
    BY <1>1, <2>1
  <2>3. \A j \in S : j > i
    BY <2>1, <2>2
  <2>4. QED
    BY <2>3
<1> HIDE DEF A
<1>4. \A i \in 0..n : i \in A
  BY <1>2, <1>3, Climb
<1>5. n \in A
  BY <1>4
<1>6. PICK j \in S : j \in 0..n
  OBVIOUS
<1>7. j > n
  BY <1>5 DEF A
<1>8. QED
  BY <1>6, <1>7

\* A chunk is normalised to some characters.
LEMMA NormalisedChunk ==
    ASSUME NEW V, Alphabet(V), NEW chunk \in Seq(V), chunk # <<>>
    PROVE  Offsets!NFKC(chunk) \in Seq(V) /\ Len(Offsets!NFKC(chunk)) \in Nat \ {0}
<1> DEFINE base == IF Head(chunk) = Offsets!Ligature THEN <<"a", "b">> ELSE <<Head(chunk)>>
           joined == Len(chunk) > 1 /\ Offsets!Last(base) = "a"
           marked == Offsets!Front(base) \o <<"a^">> \o Tail(Tail(chunk))
           plain == base \o Tail(chunk)
<1>1. Offsets!NFKC(chunk) = IF joined THEN marked ELSE plain
  BY DEF Offsets!NFKC
<1>2. "a" \in V /\ "b" \in V /\ "a^" \in V
  BY DEF Alphabet
<1>3. Head(chunk) \in V /\ Tail(chunk) \in Seq(V) /\ Len(chunk) \in Nat
      /\ Len(Tail(chunk)) = Len(chunk) - 1
  BY HeadTailProperties, LenProperties
<1>4. base \in Seq(V) /\ Len(base) \in {1, 2}
  BY <1>2, <1>3
<1>5. plain \in Seq(V) /\ Len(plain) \in Nat \ {0}
  <2> HIDE DEF base
  <2>1. plain \in Seq(V) /\ Len(plain) = Len(base) + Len(Tail(chunk)) /\ Len(Tail(chunk)) \in Nat
    BY <1>3, <1>4, ConcatFacts
  <2> HIDE DEF plain
  <2>2. QED
    BY <1>4, <2>1
<1>6. ASSUME joined
      PROVE  marked \in Seq(V) /\ Len(marked) \in Nat \ {0}
  <2> DEFINE front == Offsets!Front(base)
             rest == Tail(Tail(chunk))
             one == <<"a^">>
             start == front \o one
  <2>1. front \in Seq(V)
    <3> HIDE DEF base
    <3>1. QED
      BY <1>4 DEF Offsets!Front
  <2>2. rest \in Seq(V)
    <3>1. Tail(chunk) # <<>>
      <4>1. Len(Tail(chunk)) # 0
        <5>1. Len(chunk) > 1
          BY <1>6
        <5>2. QED
          BY <1>3, <5>1
      <4> DEFINE tail == Tail(chunk)
      <4> HIDE DEF tail
      <4>2. Len(tail) # 0
        BY <4>1 DEF tail
      <4>3. tail # <<>>
        BY <4>2
      <4>4. QED
        BY <4>3 DEF tail
    <3>2. QED
      BY <1>3, <3>1, HeadTailProperties
  <2>3. one \in Seq(V) /\ Len(one) = 1
    BY <1>2
  <2> HIDE DEF front, rest, one
  <2>4. start \in Seq(V) /\ Len(start) = Len(front) + Len(one) /\ Len(front) \in Nat
    BY <2>1, <2>3, ConcatFacts
  <2> HIDE DEF start
  <2>5. start \o rest \in Seq(V) /\ Len(start \o rest) = Len(start) + Len(rest) /\ Len(rest) \in Nat
    BY <2>2, <2>4, ConcatFacts
  <2>6. Len(start \o rest) \in Nat \ {0}
    <3> DEFINE all == start \o rest
    <3> HIDE DEF all
    <3>1. Len(all) = Len(start) + Len(rest)
      BY <2>5 DEF all
    <3>2. Len(all) \in Nat \ {0}
      BY <2>3, <2>4, <2>5, <3>1
    <3>3. QED
      BY <3>2 DEF all
  <2>7. marked = start \o rest
    BY DEF start, front, one, rest
  <2>8. QED
    BY <2>5, <2>6, <2>7
<1> HIDE DEF joined, marked, plain
<1>7. QED
  BY <1>1, <1>5, <1>6

\* Where a chunk ends: behind it, at the next one or at the end of the text
Ends(t) == Offsets!ChunkStarts(t) \cup {Len(t) + 1}

\* A chunk ends behind where it is, and at the next end.
LEMMA ChunkFacts ==
    ASSUME NEW V, NEW t \in Seq(V), NEW i \in 1..Len(t)
    PROVE  /\ Offsets!ChunkEnd(t, i) \in Ends(t) /\ Offsets!ChunkEnd(t, i) \in (i + 1)..(Len(t) + 1)
           /\ \A j \in Ends(t) : j > i => j >= Offsets!ChunkEnd(t, i)
<1> DEFINE later == {j \in Offsets!ChunkStarts(t) : j > i} \cup {Len(t) + 1}
<1>1. Len(t) \in Nat /\ Offsets!ChunkStarts(t) \subseteq 1..Len(t)
  BY LenProperties DEF Offsets!ChunkStarts
<1>2. later \subseteq (i + 1)..(Len(t) + 1) /\ later \in SUBSET (0..(Len(t) + 1)) /\ later # {}
  BY <1>1
<1>3. Offsets!ChunkEnd(t, i) = CHOOSE m \in later : \A k \in later : m <= k
  BY DEF Offsets!ChunkEnd, Offsets!Min
<1>4. \A j \in Ends(t) : j > i => j \in later
  BY DEF Ends
<1>5. later \subseteq Ends(t)
  BY DEF Ends
<1> HIDE DEF later
<1>6. \E m \in later : \A k \in later : m <= k
  <2> DEFINE n == Len(t) + 1
  <2>1. n \in Nat /\ later \in SUBSET (0..n) /\ later # {}
    BY <1>1, <1>2
  <2> HIDE DEF n
  <2>2. QED
    BY <2>1, LeastUpTo
<1>7. Offsets!ChunkEnd(t, i) \in later /\ \A k \in later : Offsets!ChunkEnd(t, i) <= k
  BY <1>3, <1>6
<1>8. \A j \in Ends(t) : j > i => j >= Offsets!ChunkEnd(t, i)
  <2>1. \A k \in later : k \in Int
    BY <1>2
  <2>2. QED
    BY <1>4, <1>7, <2>1
<1>9. QED
  BY <1>2, <1>5, <1>7, <1>8

\* The chunk that begins somewhere, normalised, and what stands for it
Made(t, i) == Offsets!NFKC(SubSeq(t, i, Offsets!ChunkEnd(t, i) - 1))
Stands(t, i) ==
    LET made == IF i \in Offsets!ChunkStarts(t) THEN Made(t, i) ELSE <<>>
    IN  [k \in DOMAIN made |-> [char |-> made[k], start |-> i, end |-> Offsets!ChunkEnd(t, i)]]

\* What stands in a normalised text: a character and where it came from
Entry(V) == [char : V, start : Nat, end : Nat]

\* A chunk is normalised to some character at least.
LEMMA MadeFacts ==
    ASSUME NEW V, Alphabet(V), NEW t \in Seq(V), NEW i \in Offsets!ChunkStarts(t)
    PROVE  Made(t, i) \in Seq(V) /\ Len(Made(t, i)) \in Nat \ {0}
<1> DEFINE e == Offsets!ChunkEnd(t, i)
           chunk == SubSeq(t, i, e - 1)
<1>1. i \in 1..Len(t) /\ Len(t) \in Nat
  BY LenProperties DEF Offsets!ChunkStarts
<1>2. e \in (i + 1)..(Len(t) + 1)
  BY <1>1, ChunkFacts
<1> HIDE DEF e
<1>3. chunk \in Seq(V) /\ Len(chunk) = e - i
  BY <1>1, <1>2
<1>4. chunk # <<>>
  BY <1>1, <1>2, <1>3
<1> HIDE DEF chunk
<1>5. QED
  BY <1>3, <1>4, NormalisedChunk DEF Made, chunk, e

\* What stands for a chunk has its place, and nothing stands for what begins none.
LEMMA StandsFacts ==
    ASSUME NEW V, Alphabet(V), NEW t \in Seq(V), NEW i \in 1..Len(t)
    PROVE  /\ Stands(t, i) \in Seq(Entry(V))
           /\ Len(Stands(t, i)) = IF i \in Offsets!ChunkStarts(t) THEN Len(Made(t, i)) ELSE 0
           /\ i \in Offsets!ChunkStarts(t) =>
                 \A k \in 1..Len(Made(t, i)) : Stands(t, i)[k] =
                    [char |-> Made(t, i)[k], start |-> i, end |-> Offsets!ChunkEnd(t, i)]
<1> DEFINE e == Offsets!ChunkEnd(t, i)
           m == Made(t, i)
<1>1. i \in Nat /\ e \in Nat
  <2>1. e \in (i + 1)..(Len(t) + 1) /\ Len(t) \in Nat
    BY ChunkFacts, LenProperties
  <2> HIDE DEF e
  <2>2. QED
    BY <2>1
<1>2. CASE i \in Offsets!ChunkStarts(t)
  <2>1. m \in Seq(V) /\ Len(m) \in Nat /\ DOMAIN m = 1..Len(m)
    BY <1>2, MadeFacts, LenProperties
  <2>2. Stands(t, i) = [k \in 1..Len(m) |-> [char |-> m[k], start |-> i, end |-> e]]
    BY <1>2, <2>1 DEF Stands
  <2> HIDE DEF m, e
  <2> DEFINE s == [k \in 1..Len(m) |-> [char |-> m[k], start |-> i, end |-> e]]
  <2>3. \A k \in 1..Len(m) : [char |-> m[k], start |-> i, end |-> e] \in Entry(V)
    BY <1>1, <2>1, ElementOfSeq DEF Entry
  <2>4. s \in Seq(Entry(V)) /\ Len(s) = Len(m)
    BY <2>1, <2>3
  <2>5. \A k \in 1..Len(m) : s[k] = [char |-> m[k], start |-> i, end |-> e]
    OBVIOUS
  <2> HIDE DEF s
  <2>6. Stands(t, i) = s
    BY <2>2 DEF s
  <2>7. QED
    BY <1>2, <2>4, <2>5, <2>6 DEF m, e
<1>3. CASE i \notin Offsets!ChunkStarts(t)
  <2>1. Stands(t, i) = <<>>
    BY <1>3 DEF Stands
  <2>2. QED
    BY <1>3, <2>1
<1>4. QED
  BY <1>2, <1>3

\* A normalised text has what stands for each chunk behind what stands for those before.
Laid(V, t, norm, w) ==
    /\ w \in [0..Len(t) -> Nat] /\ w[0] = 0
    /\ norm \in Seq(Entry(V)) /\ Len(norm) = w[Len(t)]
    /\ \A i \in 1..Len(t) :
          /\ w[i] = w[i - 1] + Len(Stands(t, i))
          /\ \A k \in 1..Len(Stands(t, i)) : norm[w[i - 1] + k] = Stands(t, i)[k]

\* Sequences that are joined have each where what was joined before it ends.
PlacedAt(seqs, f, i) ==
    /\ Len(f[i]) = Len(f[i - 1]) + Len(seqs[i])
    /\ \A k \in 1..Len(seqs[i]) : f[Len(seqs)][Len(f[i - 1]) + k] = seqs[i][k]

\* They are where they are said to be.
LEMMA JoinedPlaces ==
    ASSUME NEW S, NEW seqs \in Seq(Seq(S)), NEW f, Joins(S, seqs, f), NEW i \in 1..Len(seqs)
    PROVE  PlacedAt(seqs, f, i)
<1> DEFINE n == Len(seqs)
           A == {j \in 0..n : j >= i => /\ Len(f[j]) >= Len(f[i])
                                        /\ \A k \in 1..Len(f[i]) : f[j][k] = f[i][k]}
<1>1. /\ n \in Nat /\ i \in 1..n /\ i - 1 \in 0..n /\ i \in 0..n
      /\ \A j \in 0..n : f[j] \in Seq(S) /\ Len(f[j]) \in Nat
      /\ \A j \in 1..n : f[j] = f[j - 1] \o seqs[j] /\ seqs[j] \in Seq(S) /\ Len(seqs[j]) \in Nat
  <2>1. n \in Nat /\ f \in [0..n -> Seq(S)] /\ \A j \in 1..n : f[j] = f[j - 1] \o seqs[j]
    BY LenProperties DEF Joins
  <2>2. \A j \in 1..n : seqs[j] \in Seq(S)
    BY ElementOfSeq
  <2>3. i - 1 \in 0..n /\ i \in 0..n
    BY <2>1
  <2> HIDE DEF n
  <2>4. \A j \in 0..n : f[j] \in Seq(S) /\ Len(f[j]) \in Nat
    BY <2>1, LenProperties
  <2>5. \A j \in 1..n : Len(seqs[j]) \in Nat
    BY <2>2, LenProperties
  <2>6. QED
    BY <2>1, <2>2, <2>3, <2>4, <2>5 DEF n
<1> HIDE DEF n
<1>2. 0 \in A
  BY <1>1
<1>3. ASSUME NEW j \in 1..n, j - 1 \in A
      PROVE  j \in A
  <2>1. CASE j < i \/ j = i
    BY <1>1, <2>1
  <2>2. CASE j > i
    <3>1. /\ j - 1 \in 0..n /\ j - 1 >= i /\ Len(f[j - 1]) >= Len(f[i])
          /\ \A k \in 1..Len(f[i]) : f[j - 1][k] = f[i][k]
      BY <1>1, <1>3, <2>2
    <3> DEFINE a == f[j - 1]
               b == seqs[j]
    <3>2. f[j] = a \o b /\ a \in Seq(S) /\ b \in Seq(S)
      BY <1>1, <3>1
    <3> HIDE DEF a, b
    <3>3. Len(f[j]) = Len(a) + Len(b) /\ Len(a) \in Nat /\ Len(b) \in Nat
          /\ \A k \in 1..Len(a) : f[j][k] = a[k]
      BY <3>2, ConcatFacts
    <3>4. Len(a) >= Len(f[i]) /\ \A k \in 1..Len(f[i]) : a[k] = f[i][k]
      BY <3>1 DEF a
    <3>5. Len(f[j]) >= Len(f[i]) /\ \A k \in 1..Len(f[i]) : f[j][k] = f[i][k]
      BY <1>1, <3>3, <3>4
    <3>6. QED
      BY <1>1, <3>5
  <2>3. QED
    BY <1>1, <2>1, <2>2
<1> HIDE DEF A
<1>4. \A j \in 0..n : j \in A
  BY <1>1, <1>2, <1>3, Climb
<1>5. \A k \in 1..Len(f[i]) : f[n][k] = f[i][k]
  <2>1. n \in A /\ n >= i
    BY <1>1, <1>4
  <2>2. QED
    BY <2>1 DEF A
<1> DEFINE a == f[i - 1]
           b == seqs[i]
<1>6. f[i] = a \o b /\ a \in Seq(S) /\ b \in Seq(S)
  BY <1>1
<1> HIDE DEF a, b
<1>7. Len(f[i]) = Len(a) + Len(b) /\ Len(a) \in Nat /\ Len(b) \in Nat
      /\ \A k \in 1..Len(b) : f[i][Len(a) + k] = b[k]
  BY <1>6, ConcatFacts
<1>8. \A k \in 1..Len(b) : Len(a) + k \in 1..Len(f[i])
  BY <1>7
<1>9. \A k \in 1..Len(b) : f[n][Len(a) + k] = b[k]
  BY <1>5, <1>7, <1>8
<1>10. QED
  BY <1>7, <1>9 DEF PlacedAt, a, b, n

\* The same FlattenSeq, in another module
LEMMA FlattenOfOffsets ==
    ASSUME NEW seqs
    PROVE  Offsets!FlattenSeq(seqs) = Engine!FlattenSeq(seqs)
BY DEF Offsets!FlattenSeq, Engine!FlattenSeq

\* Normalising lays a text out so.
LEMMA NormaliseLays ==
    ASSUME NEW V, Alphabet(V), NEW t \in Seq(V)
    PROVE  \E w : Laid(V, t, Offsets!Normalize(t), w)
<1> DEFINE n == Len(t)
           T == Entry(V)
           seqs == [i \in 1..n |-> Stands(t, i)]
<1>1. n \in Nat /\ DOMAIN t = 1..n
  BY LenProperties
<1>2. \A i \in 1..n : Stands(t, i) \in Seq(T)
  BY StandsFacts
<1>3. seqs \in Seq(Seq(T)) /\ Len(seqs) = n /\ \A i \in 1..n : seqs[i] = Stands(t, i)
  <2> HIDE DEF T
  <2>1. QED
    BY <1>1, <1>2
<1>4. Offsets!Normalize(t) = Offsets!FlattenSeq(seqs)
  BY <1>1 DEF Offsets!Normalize, Stands, Made
<1> HIDE DEF n, T, seqs
<1>5. PICK f : Joins(T, seqs, f)
  BY <1>3, JoinsExist
<1> DEFINE norm == Offsets!Normalize(t)
           w == [i \in 0..n |-> Len(f[i])]
<1>6. norm = f[n] /\ norm \in Seq(T)
  BY <1>3, <1>4, <1>5, FlattenIsJoined, FlattenOfOffsets
<1>7. \A i \in 1..n : /\ Len(f[i]) = Len(f[i - 1]) + Len(seqs[i])
                      /\ \A k \in 1..Len(seqs[i]) : f[n][Len(f[i - 1]) + k] = seqs[i][k]
  <2>1. \A i \in 1..Len(seqs) : PlacedAt(seqs, f, i)
    BY <1>3, <1>5, JoinedPlaces, Zenon
  <2>2. QED
    BY <1>3, <2>1 DEF PlacedAt
<1>8. f[0] = <<>> /\ \A i \in 0..n : f[i] \in Seq(T) /\ Len(f[i]) \in Nat
  BY <1>3, <1>5, LenProperties DEF Joins
<1> HIDE DEF norm
<1>9. w \in [0..n -> Nat] /\ w[0] = 0 /\ \A i \in 0..n : w[i] = Len(f[i])
  <2>1. 0 \in 0..n /\ Len(f[0]) = 0
    BY <1>1, <1>8
  <2>2. QED
    BY <1>8, <2>1
<1> HIDE DEF w
<1>10. Len(norm) = w[n]
  BY <1>1, <1>6, <1>9
<1>11. \A i \in 1..n : i \in 0..n /\ i - 1 \in 0..n
  BY <1>1
<1>12. \A i \in 1..n : /\ w[i] = w[i - 1] + Len(Stands(t, i))
                       /\ \A k \in 1..Len(Stands(t, i)) : norm[w[i - 1] + k] = Stands(t, i)[k]
  <2>1. ASSUME NEW i \in 1..n
        PROVE  /\ w[i] = w[i - 1] + Len(Stands(t, i))
               /\ \A k \in 1..Len(Stands(t, i)) : norm[w[i - 1] + k] = Stands(t, i)[k]
    <3>1. w[i] = Len(f[i]) /\ w[i - 1] = Len(f[i - 1]) /\ seqs[i] = Stands(t, i)
      BY <1>3, <1>9, <1>11
    <3>2. QED
      BY <1>6, <1>7, <3>1
  <2>2. QED
    BY <2>1
<1>13. Laid(V, t, norm, w)
  BY <1>6, <1>9, <1>10, <1>12 DEF Laid, n, T
<1>14. QED
  BY <1>13 DEF norm

\* How long what stands for a chunk is
LEMMA LaidStep ==
    ASSUME NEW V, Alphabet(V), NEW t \in Seq(V), NEW norm, NEW w, Laid(V, t, norm, w), NEW i \in 1..Len(t)
    PROVE  /\ w[i] \in Nat /\ w[i - 1] \in Nat
           /\ i \notin Offsets!ChunkStarts(t) => w[i] = w[i - 1]
           /\ i \in Offsets!ChunkStarts(t) =>
                 /\ w[i] = w[i - 1] + Len(Made(t, i)) /\ w[i] > w[i - 1]
                 /\ \A k \in 1..Len(Made(t, i)) : norm[w[i - 1] + k] =
                       [char |-> Made(t, i)[k], start |-> i, end |-> Offsets!ChunkEnd(t, i)]
<1>1. i \in 0..Len(t) /\ i - 1 \in 0..Len(t)
  BY LenProperties
<1>2. w[i] \in Nat /\ w[i - 1] \in Nat /\ w[i] = w[i - 1] + Len(Stands(t, i))
      /\ \A k \in 1..Len(Stands(t, i)) : norm[w[i - 1] + k] = Stands(t, i)[k]
  BY <1>1 DEF Laid
<1>3. CASE i \notin Offsets!ChunkStarts(t)
  <2>1. Len(Stands(t, i)) = 0
    BY <1>3, StandsFacts
  <2>2. QED
    BY <1>2, <1>3, <2>1
<1>4. CASE i \in Offsets!ChunkStarts(t)
  <2>1. Len(Stands(t, i)) = Len(Made(t, i)) /\ Len(Made(t, i)) \in Nat \ {0}
        /\ \A k \in 1..Len(Made(t, i)) : Stands(t, i)[k] =
              [char |-> Made(t, i)[k], start |-> i, end |-> Offsets!ChunkEnd(t, i)]
    BY <1>4, StandsFacts, MadeFacts
  <2>2. w[i] > w[i - 1]
    BY <1>2, <2>1
  <2>3. QED
    BY <1>2, <1>4, <2>1, <2>2
<1>5. QED
  BY <1>3, <1>4

\* Later chunks are laid later.
LEMMA LaidInOrder ==
    ASSUME NEW V, Alphabet(V), NEW t \in Seq(V), NEW norm, NEW w, Laid(V, t, norm, w),
           NEW i \in 0..Len(t), NEW j \in 0..Len(t), i <= j
    PROVE  w[i] \in Nat /\ w[j] \in Nat /\ w[i] <= w[j]
<1> DEFINE n == Len(t)
           A == {k \in 0..n : k >= i => w[k] >= w[i]}
<1>1. n \in Nat /\ w \in [0..n -> Nat] /\ i \in 0..n /\ j \in 0..n
  BY LenProperties DEF Laid
<1>2. \A k \in 1..n : w[k] >= w[k - 1]
  BY <1>1, LaidStep, SMTT(30)
<1> HIDE DEF n
<1>3. 0 \in A
  BY <1>1
<1>4. ASSUME NEW k \in 1..n, k - 1 \in A
      PROVE  k \in A
  <2>1. w[k] \in Nat /\ w[k - 1] \in Nat /\ w[k] >= w[k - 1] /\ w[i] \in Nat
    BY <1>1, <1>2
  <2>2. QED
    BY <1>1, <1>4, <2>1
<1> HIDE DEF A
<1>5. \A k \in 0..n : k \in A
  BY <1>1, <1>3, <1>4, Climb
<1>6. j \in A
  BY <1>1, <1>5
<1>7. w[j] >= w[i] /\ w[i] \in Nat /\ w[j] \in Nat
  BY <1>1, <1>6 DEF A
<1>8. QED
  BY <1>7

\* Every character of a normalised text stands for a chunk.
LEMMA LaidFor ==
    ASSUME NEW V, Alphabet(V), NEW t \in Seq(V), NEW norm, NEW w, Laid(V, t, norm, w),
           NEW k \in 1..Len(norm)
    PROVE  \E i \in Offsets!ChunkStarts(t) :
              /\ i \in 1..Len(t) /\ w[i - 1] \in Nat /\ w[i] \in Nat
              /\ w[i - 1] < k /\ k <= w[i] /\ k - w[i - 1] \in 1..Len(Made(t, i))
              /\ norm[k] = [char |-> Made(t, i)[k - w[i - 1]], start |-> i,
                            end |-> Offsets!ChunkEnd(t, i)]
<1> DEFINE n == Len(t)
           A == {i \in 0..n : w[i] < k}
<1>1. n \in Nat /\ w \in [0..n -> Nat] /\ w[0] = 0 /\ Len(norm) = w[n] /\ Len(norm) \in Nat
  BY LenProperties DEF Laid
<1>2. \E i \in 1..n : w[i - 1] < k /\ k <= w[i]
  <2>1. SUFFICES ASSUME \A i \in 1..n : ~ (w[i - 1] < k /\ k <= w[i])
                 PROVE  FALSE
    OBVIOUS
  <2> HIDE DEF n
  <2>2. 0 \in A
    BY <1>1
  <2>3. ASSUME NEW i \in 1..n, i - 1 \in A
        PROVE  i \in A
    BY <1>1, <2>1, <2>3
  <2> HIDE DEF A
  <2>4. \A i \in 0..n : i \in A
    BY <1>1, <2>2, <2>3, Climb
  <2>5. n \in A
    BY <1>1, <2>4
  <2>6. QED
    BY <1>1, <2>5 DEF A
<1>3. PICK i \in 1..n : w[i - 1] < k /\ k <= w[i]
  BY <1>2
<1>4. /\ w[i] \in Nat /\ w[i - 1] \in Nat
      /\ i \notin Offsets!ChunkStarts(t) => w[i] = w[i - 1]
      /\ i \in Offsets!ChunkStarts(t) =>
            /\ w[i] = w[i - 1] + Len(Made(t, i))
            /\ \A m \in 1..Len(Made(t, i)) : norm[w[i - 1] + m] =
                  [char |-> Made(t, i)[m], start |-> i, end |-> Offsets!ChunkEnd(t, i)]
  BY LaidStep
<1>5. i \in Offsets!ChunkStarts(t)
  BY <1>3, <1>4
<1> DEFINE m == k - w[i - 1]
<1>6. Len(Made(t, i)) \in Nat
  BY <1>5, MadeFacts
<1>7. m \in 1..Len(Made(t, i)) /\ w[i - 1] + m = k
  BY <1>3, <1>4, <1>5, <1>6
<1> HIDE DEF m, n
<1>8. norm[w[i - 1] + m] = [char |-> Made(t, i)[m], start |-> i, end |-> Offsets!ChunkEnd(t, i)]
  BY <1>4, <1>5, <1>7
<1>9. norm[k] = [char |-> Made(t, i)[m], start |-> i, end |-> Offsets!ChunkEnd(t, i)]
  BY <1>7, <1>8
<1>10. QED
  BY <1>3, <1>4, <1>5, <1>7, <1>9 DEF m, n

\* A part of a text that begins and ends with chunks has the chunks that the text has there.
Section(t, a, b) ==
    a \in Offsets!ChunkStarts(t) /\ b \in Ends(t) /\ a < b

\* Such a part is as long as it should be and has the characters of the text.
LEMMA SectionText ==
    ASSUME NEW V, NEW t \in Seq(V), NEW a, NEW b, Section(t, a, b)
    PROVE  LET s == SubSeq(t, a, b - 1) IN
           /\ a \in 1..Len(t) /\ b \in 2..(Len(t) + 1) /\ Len(t) \in Nat /\ b - a \in Nat \ {0}
           /\ s \in Seq(V) /\ Len(s) = b - a /\ \A m \in 1..(b - a) : s[m] = t[(a - 1) + m]
<1> DEFINE s == SubSeq(t, a, b - 1)
<1>1. Len(t) \in Nat /\ a \in 1..Len(t) /\ b \in 2..(Len(t) + 1) /\ b - a \in Nat \ {0} /\ a < b
  <2>1. Len(t) \in Nat /\ a \in 1..Len(t) /\ b \in 1..(Len(t) + 1)
    BY LenProperties DEF Section, Offsets!ChunkStarts, Ends
  <2>2. QED
    BY <2>1 DEF Section
<1>2. /\ s \in Seq(V) /\ Len(s) = ((b - 1) - a) + 1
      /\ \A m \in 1..(((b - 1) - a) + 1) : s[m] = t[(a + m) - 1]
  BY <1>1
<1> HIDE DEF s
<1>3. ((b - 1) - a) + 1 = b - a /\ \A m \in 1..(b - a) : (a + m) - 1 = (a - 1) + m
  BY <1>1
<1>4. QED
  BY <1>1, <1>2, <1>3 DEF s

\* Its chunks begin and end where those of the text do.
LEMMA SectionEnds ==
    ASSUME NEW V, NEW t \in Seq(V), NEW a, NEW b, Section(t, a, b)
    PROVE  LET s == SubSeq(t, a, b - 1) IN
           /\ \A m \in 1..(b - a) :
                 m \in Offsets!ChunkStarts(s) <=> (a - 1) + m \in Offsets!ChunkStarts(t)
           /\ \A m \in 1..((b - a) + 1) : m \in Ends(s) <=> (a - 1) + m \in Ends(t)
<1> DEFINE s == SubSeq(t, a, b - 1)
<1>1. /\ a \in 1..Len(t) /\ b \in 2..(Len(t) + 1) /\ Len(t) \in Nat /\ b - a \in Nat \ {0}
      /\ s \in Seq(V) /\ Len(s) = b - a /\ \A m \in 1..(b - a) : s[m] = t[(a - 1) + m]
  BY SectionText
<1> HIDE DEF s
<1>2. DOMAIN s = 1..(b - a) /\ DOMAIN t = 1..Len(t)
  BY <1>1, LenProperties
<1>3. a \in Offsets!ChunkStarts(t) /\ b \in Ends(t)
  BY DEF Section
<1>4. ASSUME NEW m \in 1..(b - a)
      PROVE  m \in Offsets!ChunkStarts(s) <=> (a - 1) + m \in Offsets!ChunkStarts(t)
  <2>1. (a - 1) + m \in 1..Len(t) /\ s[m] = t[(a - 1) + m]
    BY <1>1
  <2>2. CASE m = 1
    <3>1. (a - 1) + m = a
      BY <1>1, <2>2
    <3>2. m \in Offsets!ChunkStarts(s)
      BY <1>2, <2>2 DEF Offsets!ChunkStarts
    <3>3. QED
      BY <1>3, <3>1, <3>2
  <2>3. CASE m # 1
    <3>1. (a - 1) + m # 1
      BY <1>1, <2>3
    <3>2. QED
      BY <1>2, <2>1, <2>3, <3>1 DEF Offsets!ChunkStarts
  <2>4. QED
    BY <2>2, <2>3
<1>5. ASSUME NEW m \in 1..((b - a) + 1)
      PROVE  m \in Ends(s) <=> (a - 1) + m \in Ends(t)
  <2>1. CASE m = (b - a) + 1
    <3>1. (a - 1) + m = b
      BY <1>1, <2>1
    <3>2. QED
      BY <1>1, <1>3, <2>1, <3>1 DEF Ends
  <2>2. CASE m # (b - a) + 1
    <3>1. m \in 1..(b - a) /\ (a - 1) + m # Len(t) + 1 /\ m # Len(s) + 1
      BY <1>1, <2>2
    <3>2. QED
      BY <1>4, <3>1 DEF Ends
  <2>3. QED
    BY <2>1, <2>2
<1>6. QED
  BY <1>4, <1>5 DEF s

\* Its chunks are normalised to what those of the text are.
LEMMA SectionMade ==
    ASSUME NEW V, NEW t \in Seq(V), NEW a, NEW b, Section(t, a, b), NEW m \in 1..(b - a)
    PROVE  LET s == SubSeq(t, a, b - 1) IN
           /\ Offsets!ChunkEnd(t, (a - 1) + m) <= b
           /\ Made(s, m) = Made(t, (a - 1) + m)
<1> DEFINE s == SubSeq(t, a, b - 1)
           i == (a - 1) + m
           e == Offsets!ChunkEnd(t, i)
           f == Offsets!ChunkEnd(s, m)
<1>1. /\ a \in 1..Len(t) /\ b \in 2..(Len(t) + 1) /\ Len(t) \in Nat /\ b - a \in Nat \ {0}
      /\ s \in Seq(V) /\ Len(s) = b - a /\ \A q \in 1..(b - a) : s[q] = t[(a - 1) + q]
  BY SectionText
<1>2. \A q \in 1..((b - a) + 1) : q \in Ends(s) <=> (a - 1) + q \in Ends(t)
  BY SectionEnds
<1>3. i \in 1..Len(t) /\ i < b /\ b \in Ends(t)
  BY <1>1 DEF Section
<1> HIDE DEF s
<1>4. e \in Ends(t) /\ e \in (i + 1)..(Len(t) + 1) /\ \A j \in Ends(t) : j > i => j >= e
  <2> HIDE DEF i
  <2>1. QED
    BY <1>3, ChunkFacts
<1>5. f \in Ends(s) /\ f \in (m + 1)..((b - a) + 1) /\ \A j \in Ends(s) : j > m => j >= f
  BY <1>1, ChunkFacts
<1> HIDE DEF e, f
<1>6. e <= b /\ e = (a - 1) + f
  <2>1. e <= b
    BY <1>3, <1>4
  <2> DEFINE q == e - (a - 1)
  <2>2. q \in 1..((b - a) + 1) /\ (a - 1) + q = e /\ q > m
    BY <1>1, <1>4, <2>1
  <2> HIDE DEF q
  <2>3. q \in Ends(s)
    BY <1>2, <1>4, <2>2
  <2>4. q >= f
    BY <1>5, <2>2, <2>3
  <2>5. f \in 1..((b - a) + 1) /\ (a - 1) + f > i
    BY <1>1, <1>5
  <2>6. (a - 1) + f \in Ends(t)
    BY <1>2, <1>5, <2>5
  <2>7. (a - 1) + f >= e
    BY <1>4, <2>5, <2>6
  <2>8. QED
    BY <1>1, <1>4, <1>5, <2>1, <2>2, <2>4, <2>7
<1> DEFINE one == SubSeq(s, m, f - 1)
           other == SubSeq(t, i, e - 1)
<1>7. /\ one \in Seq(V) /\ Len(one) = f - m /\ \A q \in 1..(f - m) : one[q] = s[(m - 1) + q]
  <2>1. /\ one \in Seq(V) /\ Len(one) = ((f - 1) - m) + 1
        /\ \A q \in 1..(((f - 1) - m) + 1) : one[q] = s[(m + q) - 1]
    BY <1>1, <1>5
  <2> HIDE DEF one
  <2>2. ((f - 1) - m) + 1 = f - m /\ \A q \in 1..(f - m) : (m + q) - 1 = (m - 1) + q
    BY <1>1, <1>5
  <2>3. QED
    BY <2>1, <2>2
<1>8. /\ other \in Seq(V) /\ Len(other) = f - m /\ \A q \in 1..(f - m) : other[q] = t[(i - 1) + q]
  <2> HIDE DEF i
  <2>1. /\ other \in Seq(V) /\ Len(other) = ((e - 1) - i) + 1
        /\ \A q \in 1..(((e - 1) - i) + 1) : other[q] = t[(i + q) - 1]
    BY <1>3, <1>4
  <2> HIDE DEF other
  <2>2. ((e - 1) - i) + 1 = f - m /\ \A q \in 1..(f - m) : (i + q) - 1 = (i - 1) + q
    BY <1>1, <1>5, <1>6 DEF i
  <2>3. QED
    BY <2>1, <2>2
<1>9. \A q \in 1..(f - m) : s[(m - 1) + q] = t[(i - 1) + q]
  <2>1. \A q \in 1..(f - m) : (m - 1) + q \in 1..(b - a) /\ (a - 1) + ((m - 1) + q) = (i - 1) + q
    BY <1>1, <1>5
  <2>2. \A q \in 1..(f - m) : s[(m - 1) + q] = t[(a - 1) + ((m - 1) + q)]
    BY <1>1, <2>1
  <2>3. QED
    BY <2>1, <2>2
<1> HIDE DEF one, other, i
<1>10. one = other
  BY <1>7, <1>8, <1>9, SeqEqual
<1>11. QED
  BY <1>6, <1>10 DEF Made, one, other, e, f, i, s

\* A part of a text is normalised to what the text has there when it is normalised.
LEMMA SectionLaid ==
    ASSUME NEW V, Alphabet(V), NEW t \in Seq(V), NEW norm, NEW w, Laid(V, t, norm, w),
           NEW a, NEW b, Section(t, a, b), NEW sub, NEW v, Laid(V, SubSeq(t, a, b - 1), sub, v)
    PROVE  /\ w[a - 1] \in Nat /\ w[b - 1] \in Nat /\ w[a - 1] < w[b - 1] /\ w[b - 1] <= Len(norm)
           /\ Len(sub) = w[b - 1] - w[a - 1]
           /\ \A k \in 1..Len(sub) : sub[k].char = norm[w[a - 1] + k].char
<1> DEFINE s == SubSeq(t, a, b - 1)
           l == b - a
<1>1. /\ a \in 1..Len(t) /\ b \in 2..(Len(t) + 1) /\ Len(t) \in Nat /\ l \in Nat \ {0}
      /\ s \in Seq(V) /\ Len(s) = l
  BY SectionText
<1>2. \A m \in 1..l : m \in Offsets!ChunkStarts(s) <=> (a - 1) + m \in Offsets!ChunkStarts(t)
  BY SectionEnds
<1>3. \A m \in 1..l : Made(s, m) = Made(t, (a - 1) + m)
  BY SectionMade
<1>4. Laid(V, s, sub, v)
  OBVIOUS
<1> HIDE DEF s
<1>5. \A m \in 1..l : /\ (a - 1) + m \in 1..Len(t) /\ ((a - 1) + m) - 1 = (a - 1) + (m - 1)
                      /\ m \in 1..Len(s)
  BY <1>1
<1>6. /\ w \in [0..Len(t) -> Nat] /\ Len(norm) = w[Len(t)]
      /\ v \in [0..l -> Nat] /\ v[0] = 0 /\ Len(sub) = v[l] /\ sub \in Seq(Entry(V))
  BY <1>1, <1>4 DEF Laid
<1>7. ASSUME NEW m \in 1..l
      PROVE  v[m] - v[m - 1] = w[(a - 1) + m] - w[(a - 1) + (m - 1)]
  <2> DEFINE i == (a - 1) + m
  <2>1. i \in 1..Len(t) /\ i - 1 = (a - 1) + (m - 1) /\ m \in 1..Len(s)
    BY <1>5
  <2>2. m \in Offsets!ChunkStarts(s) <=> i \in Offsets!ChunkStarts(t)
    BY <1>2
  <2>3. Made(s, m) = Made(t, i)
    BY <1>3
  <2> HIDE DEF i
  <2>4. /\ w[i] \in Nat /\ w[i - 1] \in Nat
        /\ i \notin Offsets!ChunkStarts(t) => w[i] = w[i - 1]
        /\ i \in Offsets!ChunkStarts(t) => w[i] = w[i - 1] + Len(Made(t, i))
    BY <2>1, LaidStep
  <2>5. /\ v[m] \in Nat /\ v[m - 1] \in Nat
        /\ m \notin Offsets!ChunkStarts(s) => v[m] = v[m - 1]
        /\ m \in Offsets!ChunkStarts(s) => v[m] = v[m - 1] + Len(Made(s, m))
    BY <1>1, <1>4, <2>1, LaidStep
  <2>6. i \in Offsets!ChunkStarts(t) => Len(Made(t, i)) \in Nat
    BY MadeFacts
  <2>7. v[m] - v[m - 1] = w[i] - w[i - 1]
    <3>1. CASE i \in Offsets!ChunkStarts(t)
      BY <2>2, <2>3, <2>4, <2>5, <2>6, <3>1
    <3>2. CASE i \notin Offsets!ChunkStarts(t)
      BY <2>2, <2>4, <2>5, <3>2
    <3>3. QED
      BY <3>1, <3>2
  <2>8. QED
    BY <2>1, <2>7 DEF i
<1>8. \A m \in 0..l : v[m] = w[(a - 1) + m] - w[a - 1]
  <2> DEFINE A == {m \in 0..l : v[m] = w[(a - 1) + m] - w[a - 1]}
  <2>1. a - 1 \in 0..Len(t) /\ \A m \in 0..l : (a - 1) + m \in 0..Len(t)
    BY <1>1
  <2>2. \A m \in 0..l : v[m] \in Nat /\ w[(a - 1) + m] \in Nat
    BY <1>6, <2>1
  <2>3. w[a - 1] \in Nat
    BY <1>6, <2>1
  <2> HIDE DEF l
  <2>4. 0 \in A
    <3>1. (a - 1) + 0 = a - 1
      BY <1>1
    <3>2. QED
      BY <1>1, <1>6, <2>3, <3>1
  <2>5. ASSUME NEW m \in 1..l, m - 1 \in A
        PROVE  m \in A
    <3>1. m \in 0..l /\ m - 1 \in 0..l
      BY <1>1
    <3>2. v[m - 1] = w[(a - 1) + (m - 1)] - w[a - 1]
      BY <2>5
    <3>3. v[m] = w[(a - 1) + m] - w[a - 1]
      BY <1>7, <2>2, <2>3, <3>1, <3>2
    <3>4. QED
      BY <3>1, <3>3
  <2> HIDE DEF A
  <2>6. \A m \in 0..l : m \in A
    BY <1>1, <2>4, <2>5, Climb
  <2>7. QED
    BY <2>6 DEF A
<1>9. Len(sub) = w[b - 1] - w[a - 1]
  <2>1. (a - 1) + l = b - 1 /\ l \in 0..l
    BY <1>1
  <2> HIDE DEF l
  <2>2. QED
    BY <1>6, <1>8, <2>1
<1>10. w[a - 1] \in Nat /\ w[b - 1] \in Nat /\ w[a - 1] < w[b - 1] /\ w[b - 1] <= Len(norm)
  <2>1. a \in Offsets!ChunkStarts(t)
    BY DEF Section
  <2>2. w[a] > w[a - 1] /\ w[a] \in Nat /\ w[a - 1] \in Nat
    BY <1>1, <2>1, LaidStep
  <2>3. a \in 0..Len(t) /\ b - 1 \in 0..Len(t) /\ a <= b - 1 /\ Len(t) \in 0..Len(t) /\ b - 1 <= Len(t)
    BY <1>1
  <2>4. w[a] <= w[b - 1] /\ w[b - 1] \in Nat
    BY <2>3, LaidInOrder
  <2>5. w[b - 1] <= w[Len(t)] /\ w[Len(t)] \in Nat
    BY <2>3, LaidInOrder
  <2>6. QED
    BY <1>6, <2>2, <2>4, <2>5
<1>11. ASSUME NEW k \in 1..Len(sub)
       PROVE  sub[k].char = norm[w[a - 1] + k].char
  <2>1. PICK m \in Offsets!ChunkStarts(s) :
           /\ m \in 1..Len(s) /\ v[m - 1] \in Nat /\ v[m] \in Nat
           /\ v[m - 1] < k /\ k <= v[m] /\ k - v[m - 1] \in 1..Len(Made(s, m))
           /\ sub[k] = [char |-> Made(s, m)[k - v[m - 1]], start |-> m, end |-> Offsets!ChunkEnd(s, m)]
    BY <1>1, <1>4, LaidFor
  <2> DEFINE i == (a - 1) + m
             q == k - v[m - 1]
  <2>2. m \in 1..l /\ i \in 1..Len(t) /\ i - 1 = (a - 1) + (m - 1) /\ m - 1 \in 0..l
    BY <1>1, <1>5, <2>1
  <2>3. i \in Offsets!ChunkStarts(t) /\ Made(s, m) = Made(t, i)
    BY <1>2, <1>3, <2>1, <2>2
  <2> HIDE DEF i
  <2>4. w[i - 1] = v[m - 1] + w[a - 1]
    <3>1. i - 1 \in 0..Len(t)
      BY <2>2
    <3>2. v[m - 1] = w[(a - 1) + (m - 1)] - w[a - 1]
      BY <1>8, <2>2
    <3>3. w[i - 1] = w[(a - 1) + (m - 1)] /\ w[i - 1] \in Nat
      BY <1>6, <2>2, <3>1
    <3>4. QED
      BY <1>10, <2>1, <3>2, <3>3, SMTT(40)
  <2>5. \A j \in 1..Len(Made(t, i)) : norm[w[i - 1] + j] =
           [char |-> Made(t, i)[j], start |-> i, end |-> Offsets!ChunkEnd(t, i)]
    BY <2>2, <2>3, LaidStep
  <2>6. q \in 1..Len(Made(t, i)) /\ w[i - 1] + q = w[a - 1] + k
    <3>1. q \in 1..Len(Made(t, i))
      BY <2>1, <2>3
    <3>2. QED
      BY <1>10, <2>1, <2>4, <3>1, SMTT(40)
  <2>7. sub[k].char = Made(t, i)[q]
    BY <2>1, <2>3
  <2> HIDE DEF q
  <2>8. norm[w[i - 1] + q].char = Made(t, i)[q]
    <3>1. norm[w[i - 1] + q] = [char |-> Made(t, i)[q], start |-> i, end |-> Offsets!ChunkEnd(t, i)]
      BY <2>5, <2>6, Zenon
    <3>2. QED
      BY <3>1
  <2>9. QED
    BY <2>6, <2>7, <2>8
<1>12. QED
  BY <1>9, <1>10, <1>11

\* A character as it is compared, and the characters of a normalised text as they are searched
Compared(exact, c) == IF ~ exact /\ c = "A" THEN "a" ELSE c
Read(exact, norm) ==
    LET chars == Offsets!NormalizedChars(norm) IN IF exact THEN chars ELSE Offsets!FoldAll(chars)

\* Without a letter that has two in lower case, folding is one for one.
LEMMA FoldsOneForOne ==
    ASSUME NEW V, Alphabet(V), Offsets!Sharp \notin V, NEW c \in Seq(V)
    PROVE  /\ Offsets!FoldAll(c) \in Seq(V) /\ Len(Offsets!FoldAll(c)) = Len(c)
           /\ \A k \in 1..Len(c) : Offsets!FoldAll(c)[k] = Compared(FALSE, c[k])
<1> DEFINE n == Len(c)
           s == [k \in 1..n |-> Compared(FALSE, c[k])]
           ones == [k \in DOMAIN s |-> <<s[k]>>]
<1>1. n \in Nat /\ DOMAIN c = 1..n /\ \A k \in 1..n : c[k] \in V
  BY LenProperties, ElementOfSeq
<1>2. \A k \in 1..n : Compared(FALSE, c[k]) \in V
  BY <1>1 DEF Compared, Alphabet
<1>3. \A k \in 1..n : Offsets!Casefold(c[k]) = <<Compared(FALSE, c[k])>>
  <2>1. \A k \in 1..n : c[k] # Offsets!Sharp
    BY <1>1
  <2>2. QED
    BY <2>1 DEF Offsets!Casefold, Compared
<1>4. s \in Seq(V) /\ Len(s) = n /\ DOMAIN s = 1..n /\ \A k \in 1..n : s[k] = Compared(FALSE, c[k])
  <2> HIDE DEF n
  <2>1. s \in [1..n -> V] /\ \A k \in 1..n : s[k] = Compared(FALSE, c[k])
    BY <1>2
  <2> HIDE DEF s
  <2>2. s \in Seq(V) /\ Len(s) = n /\ DOMAIN s = 1..n
    BY <1>1, <2>1
  <2>3. QED
    BY <2>1, <2>2
<1> HIDE DEF s
<1>5. [k \in DOMAIN c |-> Offsets!Casefold(c[k])] = ones
  BY <1>1, <1>3, <1>4
<1> HIDE DEF ones
<1>6. Offsets!FoldAll(c) = Engine!FlattenSeq(ones)
  BY <1>5, FlattenOfOffsets DEF Offsets!FoldAll
<1>7. Engine!FlattenSeq(ones) = s
  <2>1. ones = [k \in DOMAIN s |-> <<s[k]>>]
    BY DEF ones
  <2>2. QED
    BY <1>4, <2>1, FlattenOnes
<1>8. QED
  BY <1>4, <1>6, <1>7

\* It is read character by character, each as it is compared.
LEMMA ReadFacts ==
    ASSUME NEW V, Alphabet(V), NEW exact \in BOOLEAN, exact \/ Offsets!Sharp \notin V,
           NEW norm \in Seq(Entry(V))
    PROVE  /\ Read(exact, norm) \in Seq(V) /\ Len(Read(exact, norm)) = Len(norm)
           /\ \A k \in 1..Len(norm) : Read(exact, norm)[k] = Compared(exact, norm[k].char)
<1> DEFINE n == Len(norm)
           c == Offsets!NormalizedChars(norm)
<1>1. n \in Nat /\ DOMAIN norm = 1..n /\ \A k \in 1..n : norm[k].char \in V
  <2>1. n \in Nat /\ DOMAIN norm = 1..n /\ \A k \in 1..n : norm[k] \in Entry(V)
    BY LenProperties, ElementOfSeq
  <2>2. \A d \in Entry(V) : d.char \in V
    BY DEF Entry
  <2> HIDE DEF n
  <2>3. QED
    BY <2>1, <2>2
<1>2. c = [k \in 1..n |-> norm[k].char]
  BY <1>1 DEF Offsets!NormalizedChars
<1> HIDE DEF c, n
<1>3. c \in Seq(V) /\ Len(c) = n /\ \A k \in 1..n : c[k] = norm[k].char
  BY <1>1, <1>2
<1>4. CASE exact
  <2>1. Read(exact, norm) = c
    BY <1>4 DEF Read, c
  <2>2. QED
    BY <1>3, <1>4, <2>1 DEF Compared, n
<1>5. CASE ~ exact
  <2> DEFINE r == Offsets!FoldAll(c)
  <2>1. r \in Seq(V) /\ Len(r) = Len(c) /\ \A k \in 1..Len(c) : r[k] = Compared(FALSE, c[k])
    BY <1>3, <1>5, FoldsOneForOne
  <2>2. Read(exact, norm) = r
    BY <1>5 DEF Read, c
  <2> HIDE DEF r
  <2>3. \A k \in 1..n : r[k] = Compared(exact, norm[k].char)
    BY <1>3, <1>5, <2>1 DEF Compared
  <2>4. QED
    BY <1>3, <2>1, <2>2, <2>3 DEF n
<1>6. QED
  BY <1>4, <1>5

\* Where a term occurs, character by character
LEMMA OccursFacts ==
    ASSUME NEW V, NEW needle \in Seq(V), NEW hay \in Seq(V), Len(needle) # 0, NEW k
    PROVE  k \in Offsets!Occurrences(needle, hay) <=>
              /\ k \in 1..Len(hay) /\ (k - 1) + Len(needle) <= Len(hay)
              /\ \A q \in 1..Len(needle) : hay[(k - 1) + q] = needle[q]
<1> DEFINE n == Len(hay)
           l == Len(needle)
<1>1. n \in Nat /\ l \in Nat \ {0} /\ DOMAIN hay = 1..n
  BY LenProperties
<1>2. k \in Offsets!Occurrences(needle, hay) <=>
         k \in 1..n /\ Offsets!IsPrefix(needle, SubSeq(hay, k, n))
  BY <1>1 DEF Offsets!Occurrences
<1>3. ASSUME k \in 1..n
      PROVE  Offsets!IsPrefix(needle, SubSeq(hay, k, n)) <=>
                (k - 1) + l <= n /\ \A q \in 1..l : hay[(k - 1) + q] = needle[q]
  <2> DEFINE e == SubSeq(hay, k, n)
  <2>1. e \in Seq(V) /\ Len(e) = (n - k) + 1 /\ \A q \in 1..((n - k) + 1) : e[q] = hay[(k + q) - 1]
    <3> HIDE DEF n
    <3>1. QED
      BY <1>1, <1>3 DEF n
  <2> HIDE DEF e, n, l
  <2>2. SubSeq(needle, 1, l) = needle
    BY SubSeqFull DEF l
  <2>3. Offsets!IsPrefix(needle, e) <=> l <= Len(e) /\ needle = SubSeq(e, 1, l)
    BY <2>2 DEF Offsets!IsPrefix, l
  <2>4. l <= Len(e) <=> (k - 1) + l <= n
    BY <1>1, <1>3, <2>1
  <2>5. ASSUME l <= Len(e)
        PROVE  needle = SubSeq(e, 1, l) <=> \A q \in 1..l : hay[(k - 1) + q] = needle[q]
    <3> DEFINE p == SubSeq(e, 1, l)
    <3>1. p \in Seq(V) /\ Len(p) = l /\ \A q \in 1..l : p[q] = e[q]
      <4>1. Len(e) \in Nat
        BY <2>1, LenProperties
      <4>2. p \in Seq(V) /\ Len(p) = (l - 1) + 1 /\ \A q \in 1..((l - 1) + 1) : p[q] = e[(1 + q) - 1]
        BY <1>1, <2>1, <2>5, <4>1
      <4> HIDE DEF p
      <4>3. (l - 1) + 1 = l /\ \A q \in 1..l : (1 + q) - 1 = q
        BY <1>1
      <4>4. QED
        BY <4>2, <4>3
    <3> HIDE DEF p
    <3>2. \A q \in 1..l : e[q] = hay[(k - 1) + q]
      <4>1. \A q \in 1..l : q \in 1..((n - k) + 1) /\ (k + q) - 1 = (k - 1) + q
        BY <1>1, <1>3, <2>1, <2>5
      <4>2. QED
        BY <2>1, <4>1
    <3>3. needle = p <=> \A q \in 1..l : needle[q] = p[q]
      <4>1. ASSUME \A q \in 1..l : needle[q] = p[q]
            PROVE  needle = p
        BY <3>1, <4>1, SeqEqual DEF l
      <4>2. QED
        BY <4>1
    <3>4. QED
      BY <3>1, <3>2, <3>3 DEF p
  <2>6. QED
    BY <2>3, <2>4, <2>5 DEF e
<1>4. QED
  BY <1>2, <1>3

\* A part of a text reads as the text does there.
LEMMA SectionReads ==
    ASSUME NEW V, Alphabet(V), NEW exact \in BOOLEAN, exact \/ Offsets!Sharp \notin V,
           NEW t \in Seq(V), NEW norm, NEW w, Laid(V, t, norm, w), NEW a, NEW b, Section(t, a, b)
    PROVE  LET r == Read(exact, Offsets!Normalize(SubSeq(t, a, b - 1))) IN
           /\ r \in Seq(V) /\ Len(r) = w[b - 1] - w[a - 1]
           /\ w[a - 1] \in Nat /\ w[b - 1] \in Nat /\ w[a - 1] < w[b - 1] /\ w[b - 1] <= Len(norm)
           /\ \A k \in 1..Len(r) : r[k] = Read(exact, norm)[w[a - 1] + k]
<1> DEFINE s == SubSeq(t, a, b - 1)
           sub == Offsets!Normalize(s)
           r == Read(exact, sub)
<1>1. s \in Seq(V)
  BY SectionText
<1> HIDE DEF s
<1>2. PICK v : Laid(V, s, sub, v)
  BY <1>1, NormaliseLays
<1> HIDE DEF sub
<1>3. /\ w[a - 1] \in Nat /\ w[b - 1] \in Nat /\ w[a - 1] < w[b - 1] /\ w[b - 1] <= Len(norm)
      /\ Len(sub) = w[b - 1] - w[a - 1]
      /\ \A k \in 1..Len(sub) : sub[k].char = norm[w[a - 1] + k].char
  BY <1>2, SectionLaid DEF s
<1>4. sub \in Seq(Entry(V)) /\ norm \in Seq(Entry(V)) /\ Len(norm) \in Nat
  BY <1>2, LenProperties DEF Laid
<1>5. r \in Seq(V) /\ Len(r) = Len(sub) /\ \A k \in 1..Len(sub) : r[k] = Compared(exact, sub[k].char)
  BY <1>4, ReadFacts
<1>6. \A k \in 1..Len(norm) : Read(exact, norm)[k] = Compared(exact, norm[k].char)
  BY <1>4, ReadFacts
<1> HIDE DEF r
<1>7. \A k \in 1..Len(sub) : w[a - 1] + k \in 1..Len(norm)
  BY <1>3, <1>4
<1>8. \A k \in 1..Len(r) : r[k] = Read(exact, norm)[w[a - 1] + k]
  BY <1>3, <1>5, <1>6, <1>7
<1>9. QED
  BY <1>3, <1>5, <1>8 DEF r, sub, s

\* What lies between two characters of a normalised text is a part of the text.
LEMMA HitIsSection ==
    ASSUME NEW V, Alphabet(V), NEW t \in Seq(V), NEW norm, NEW w, Laid(V, t, norm, w),
           NEW k \in 1..Len(norm), NEW m \in 1..Len(norm), k <= m
    PROVE  LET a == norm[k].start
               b == norm[m].end
           IN  Section(t, a, b) /\ w[a - 1] \in Nat /\ w[b - 1] \in Nat /\ w[a - 1] < k /\ m <= w[b - 1]
<1>1. PICK i \in Offsets!ChunkStarts(t) :
         /\ i \in 1..Len(t) /\ w[i - 1] \in Nat /\ w[i] \in Nat /\ w[i - 1] < k /\ norm[k].start = i
  <2>1. PICK d \in Offsets!ChunkStarts(t) :
           /\ d \in 1..Len(t) /\ w[d - 1] \in Nat /\ w[d] \in Nat
           /\ w[d - 1] < k /\ k <= w[d] /\ k - w[d - 1] \in 1..Len(Made(t, d))
           /\ norm[k] = [char |-> Made(t, d)[k - w[d - 1]], start |-> d, end |-> Offsets!ChunkEnd(t, d)]
    BY LaidFor
  <2>2. norm[k].start = d
    BY <2>1
  <2>3. QED
    BY <2>1, <2>2
<1>2. PICK j \in Offsets!ChunkStarts(t) :
         /\ j \in 1..Len(t) /\ w[j] \in Nat /\ m <= w[j] /\ norm[m].end = Offsets!ChunkEnd(t, j)
  <2>1. PICK d \in Offsets!ChunkStarts(t) :
           /\ d \in 1..Len(t) /\ w[d - 1] \in Nat /\ w[d] \in Nat
           /\ w[d - 1] < m /\ m <= w[d] /\ m - w[d - 1] \in 1..Len(Made(t, d))
           /\ norm[m] = [char |-> Made(t, d)[m - w[d - 1]], start |-> d, end |-> Offsets!ChunkEnd(t, d)]
    BY LaidFor
  <2>2. norm[m].end = Offsets!ChunkEnd(t, d)
    BY <2>1
  <2>3. QED
    BY <2>1, <2>2
<1> DEFINE e == Offsets!ChunkEnd(t, j)
<1>3. e \in Ends(t) /\ e \in (j + 1)..(Len(t) + 1)
  BY <1>2, ChunkFacts
<1> HIDE DEF e
<1>4. Len(t) \in Nat /\ k \in Nat /\ m \in Nat
  BY LenProperties
<1>5. i <= j
  <2>1. SUFFICES ASSUME ~ (i <= j) PROVE FALSE
    OBVIOUS
  <2>2. j \in 0..Len(t) /\ i - 1 \in 0..Len(t) /\ j <= i - 1
    BY <1>1, <1>2, <1>4, <2>1
  <2>3. w[j] <= w[i - 1]
    BY <2>2, LaidInOrder
  <2>4. QED
    BY <1>1, <1>2, <1>4, <2>3
<1>6. w[j] <= w[e - 1] /\ w[e - 1] \in Nat
  <2>1. j \in 0..Len(t) /\ e - 1 \in 0..Len(t) /\ j <= e - 1
    BY <1>2, <1>3, <1>4
  <2>2. QED
    BY <2>1, LaidInOrder
<1>7. Section(t, i, e) /\ m <= w[e - 1]
  BY <1>1, <1>2, <1>3, <1>4, <1>5, <1>6, SMTT(30) DEF Section
<1>8. QED
  BY <1>1, <1>2, <1>6, <1>7 DEF e

\* The characters of a part of the text begin where it does, and reach to where it ends.
LEMMA SectionHit ==
    ASSUME NEW V, Alphabet(V), NEW t \in Seq(V), NEW norm, NEW w, Laid(V, t, norm, w),
           NEW a, NEW b, Section(t, a, b)
    PROVE  norm[w[a - 1] + 1].start = a /\ norm[w[b - 1]].end >= b
<1>1. /\ a \in 1..Len(t) /\ b \in 2..(Len(t) + 1) /\ Len(t) \in Nat /\ a \in Offsets!ChunkStarts(t)
      /\ b \in Ends(t) /\ a < b
  BY SectionText DEF Section
<1>2. norm[w[a - 1] + 1].start = a
  <2>1. Len(Made(t, a)) \in Nat \ {0}
    BY <1>1, MadeFacts
  <2>2. 1 \in 1..Len(Made(t, a))
    BY <2>1
  <2>3. norm[w[a - 1] + 1] = [char |-> Made(t, a)[1], start |-> a, end |-> Offsets!ChunkEnd(t, a)]
    BY <1>1, <2>2, LaidStep
  <2>4. QED
    BY <2>3
<1> DEFINE k == w[b - 1]
<1>3. k \in 1..Len(norm) /\ k \in Nat /\ Len(norm) \in Nat
  <2>1. w[a - 1] \in Nat /\ w[a] \in Nat /\ w[a] > w[a - 1]
    BY <1>1, LaidStep
  <2>2. a \in 0..Len(t) /\ b - 1 \in 0..Len(t) /\ a <= b - 1 /\ Len(t) \in 0..Len(t) /\ b - 1 <= Len(t)
    BY <1>1
  <2>3. w[a] <= w[b - 1] /\ w[b - 1] \in Nat
    BY <2>2, LaidInOrder
  <2>4. w[b - 1] <= w[Len(t)] /\ w[Len(t)] \in Nat /\ Len(norm) = w[Len(t)]
    BY <2>2, LaidInOrder DEF Laid
  <2>5. QED
    BY <2>1, <2>3, <2>4
<1> HIDE DEF k
<1>4. PICK j \in Offsets!ChunkStarts(t) :
         /\ j \in 1..Len(t) /\ w[j - 1] \in Nat /\ w[j] \in Nat /\ w[j - 1] < k /\ k <= w[j]
         /\ norm[k].end = Offsets!ChunkEnd(t, j)
  <2>1. PICK d \in Offsets!ChunkStarts(t) :
           /\ d \in 1..Len(t) /\ w[d - 1] \in Nat /\ w[d] \in Nat
           /\ w[d - 1] < k /\ k <= w[d] /\ k - w[d - 1] \in 1..Len(Made(t, d))
           /\ norm[k] = [char |-> Made(t, d)[k - w[d - 1]], start |-> d, end |-> Offsets!ChunkEnd(t, d)]
    BY <1>3, LaidFor
  <2>2. norm[k].end = Offsets!ChunkEnd(t, d)
    BY <2>1
  <2>3. QED
    BY <2>1, <2>2
<1> DEFINE e == Offsets!ChunkEnd(t, j)
<1>5. e \in Ends(t) /\ e \in (j + 1)..(Len(t) + 1)
  BY <1>4, ChunkFacts
<1> HIDE DEF e
<1>6. e >= b
  <2>1. SUFFICES ASSUME ~ (e >= b) PROVE FALSE
    OBVIOUS
  <2>2. e \in 1..Len(t) /\ e < b /\ e \in Nat
    BY <1>1, <1>4, <1>5, <2>1
  <2>3. e \in Offsets!ChunkStarts(t)
    BY <1>1, <1>5, <2>2 DEF Ends
  <2>4. w[e] > w[e - 1] /\ w[e] \in Nat /\ w[e - 1] \in Nat
    BY <2>2, <2>3, LaidStep
  <2>5. j \in 0..Len(t) /\ e - 1 \in 0..Len(t) /\ j <= e - 1 /\ e \in 0..Len(t) /\ b - 1 \in 0..Len(t) /\ e <= b - 1
    BY <1>1, <1>4, <1>5, <2>2
  <2>6. w[j] <= w[e - 1]
    BY <2>5, LaidInOrder
  <2>7. w[e] <= k
    BY <2>5, LaidInOrder DEF k
  <2>8. QED
    BY <1>3, <1>4, <2>4, <2>6, <2>7
<1>7. QED
  BY <1>2, <1>4, <1>6 DEF e, k

\* What the dictionary reports of a term that it compares as needle
SpanOf(norm, k, length) == [start |-> norm[k].start, end |-> norm[(k - 1) + length].end]

\* An occurrence is inside the normalised text and is reported from chunk to chunk.
LEMMA HitFacts ==
    ASSUME NEW V, Alphabet(V), NEW exact \in BOOLEAN, exact \/ Offsets!Sharp \notin V,
           NEW norm \in Seq(Entry(V)), NEW needle \in Seq(V), Len(needle) # 0,
           NEW k \in Offsets!Occurrences(needle, Read(exact, norm))
    PROVE  /\ k \in 1..Len(norm) /\ (k - 1) + Len(needle) \in 1..Len(norm)
           /\ k <= (k - 1) + Len(needle)
           /\ \A q \in 1..Len(needle) : Read(exact, norm)[(k - 1) + q] = needle[q]
           /\ Offsets!ToOriginalSpan(norm, k, k + Len(needle)) = SpanOf(norm, k, Len(needle))
<1> DEFINE r == Read(exact, norm)
           l == Len(needle)
<1>1. r \in Seq(V) /\ Len(r) = Len(norm) /\ l \in Nat \ {0} /\ Len(norm) \in Nat
  BY ReadFacts, LenProperties
<1>2. k \in Offsets!Occurrences(needle, r)
  OBVIOUS
<1> HIDE DEF r
<1>3. /\ k \in 1..Len(r) /\ (k - 1) + Len(needle) <= Len(r)
      /\ \A q \in 1..Len(needle) : r[(k - 1) + q] = needle[q]
  BY <1>1, <1>2, OccursFacts
<1> HIDE DEF l
<1>4. k \in Nat /\ (k + l) - 1 = (k - 1) + l /\ ~ ((k + l) - 1 > Len(norm))
  BY <1>1, <1>3 DEF l
<1>5. Offsets!ToOriginalSpan(norm, k, k + l) = SpanOf(norm, k, l)
  BY <1>4 DEF Offsets!ToOriginalSpan, SpanOf
<1>6. (k - 1) + l \in 1..Len(norm) /\ k <= (k - 1) + l /\ k \in 1..Len(norm)
  BY <1>1, <1>3 DEF l
<1>7. QED
  BY <1>3, <1>5, <1>6 DEF l, r

\* A term as it is compared
LEMMA NeedleFacts ==
    ASSUME NEW V, Alphabet(V), NEW exact \in BOOLEAN, exact \/ Offsets!Sharp \notin V,
           NEW term \in Seq(V), Len(term) # 0
    PROVE  LET needle == IF exact THEN term ELSE Offsets!FoldAll(term)
           IN  needle \in Seq(V) /\ Len(needle) \in Nat \ {0}
<1>1. Len(term) \in Nat \ {0}
  BY LenProperties
<1>2. CASE exact
  BY <1>1, <1>2
<1>3. CASE ~ exact
  <2> DEFINE f == Offsets!FoldAll(term)
  <2>1. f \in Seq(V) /\ Len(f) = Len(term)
    BY <1>3, FoldsOneForOne
  <2> HIDE DEF f
  <2>2. f \in Seq(V) /\ Len(f) \in Nat \ {0}
    BY <1>1, <2>1
  <2>3. QED
    BY <1>3, <2>2 DEF f
<1>4. QED
  BY <1>2, <1>3

\* What the dictionary reports is a part of the text, with the term in it.
LEMMA HitHasTerm ==
    ASSUME NEW V, Alphabet(V), NEW exact \in BOOLEAN, exact \/ Offsets!Sharp \notin V,
           NEW t \in Seq(V), NEW needle \in Seq(V), Len(needle) # 0, NEW norm, NEW w,
           Laid(V, t, norm, w),
           NEW k \in Offsets!Occurrences(needle, Read(exact, norm)),
           NEW h, h = SpanOf(norm, k, Len(needle))
    PROVE  /\ Section(t, h.start, h.end)
           /\ Offsets!Occurrences(needle,
                 Read(exact, Offsets!Normalize(SubSeq(t, h.start, h.end - 1)))) # {}
<1> DEFINE a == h.start
           b == h.end
           l == Len(needle)
           r == Read(exact, norm)
           s == Read(exact, Offsets!Normalize(SubSeq(t, a, b - 1)))
           m == (k - 1) + l
<1>1. norm \in Seq(Entry(V)) /\ l \in Nat \ {0}
  BY LenProperties DEF Laid
<1>2. /\ k \in 1..Len(norm) /\ m \in 1..Len(norm) /\ k <= m
      /\ \A q \in 1..l : r[(k - 1) + q] = needle[q]
  BY <1>1, HitFacts
<1>3. a = norm[k].start /\ b = norm[m].end
  BY DEF SpanOf
<1> HIDE DEF a, b
<1>4. Section(t, a, b) /\ w[a - 1] \in Nat /\ w[b - 1] \in Nat /\ w[a - 1] < k /\ m <= w[b - 1]
  <2> HIDE DEF m
  <2>1. QED
    BY <1>2, <1>3, HitIsSection
<1>5. /\ s \in Seq(V) /\ Len(s) = w[b - 1] - w[a - 1]
      /\ \A q \in 1..Len(s) : s[q] = r[w[a - 1] + q]
  BY <1>4, SectionReads
<1> HIDE DEF s, r
<1> DEFINE p == k - w[a - 1]
<1> DEFINE lo == w[a - 1]
           n == Len(s)
<1>6. /\ p \in 1..n /\ (p - 1) + l <= n
      /\ \A q \in 1..l : (p - 1) + q \in 1..n /\ lo + ((p - 1) + q) = (k - 1) + q
  <2> DEFINE hi == w[b - 1]
  <2>1. k \in Nat /\ l \in Nat \ {0} /\ lo \in Nat /\ hi \in Nat /\ lo < k /\ (k - 1) + l <= hi /\ n = hi - lo
    BY <1>1, <1>2, <1>4, <1>5
  <2>2. p = k - lo
    OBVIOUS
  <2> HIDE DEF p, lo, hi, l, n
  <2>3. QED
    BY <2>1, <2>2
<1> HIDE DEF p
<1>7. \A q \in 1..l : s[(p - 1) + q] = needle[q]
  BY <1>2, <1>5, <1>6
<1>8. p \in Offsets!Occurrences(needle, s)
  BY <1>1, <1>2, <1>5, <1>6, <1>7, OccursFacts
<1>9. QED
  BY <1>4, <1>8 DEF a, b, s

\* A part of the text that reads as the term lies in what is reported.
LEMMA TermIsHit ==
    ASSUME NEW V, Alphabet(V), NEW exact \in BOOLEAN, exact \/ Offsets!Sharp \notin V,
           NEW t \in Seq(V), NEW needle \in Seq(V), Len(needle) # 0, NEW norm, NEW w,
           Laid(V, t, norm, w), NEW a, NEW b, Section(t, a, b),
           Read(exact, Offsets!Normalize(SubSeq(t, a, b - 1))) = needle
    PROVE  \E k \in Offsets!Occurrences(needle, Read(exact, norm)) :
              LET h == SpanOf(norm, k, Len(needle)) IN h.start <= a /\ b <= h.end
<1> DEFINE l == Len(needle)
           r == Read(exact, norm)
           k == w[a - 1] + 1
<1>1. norm \in Seq(Entry(V)) /\ l \in Nat \ {0} /\ Len(norm) \in Nat
  BY LenProperties DEF Laid
<1>2. r \in Seq(V) /\ Len(r) = Len(norm)
  BY <1>1, ReadFacts
<1>3. /\ l = w[b - 1] - w[a - 1]
      /\ w[a - 1] \in Nat /\ w[b - 1] \in Nat /\ w[a - 1] < w[b - 1] /\ w[b - 1] <= Len(norm)
      /\ \A q \in 1..l : needle[q] = r[w[a - 1] + q]
  BY SectionReads
<1>4. norm[k].start = a /\ norm[w[b - 1]].end >= b
  BY SectionHit
<1> HIDE DEF r
<1>5. k \in 1..Len(r) /\ (k - 1) + l <= Len(r) /\ (k - 1) + l = w[b - 1] /\ k - 1 = w[a - 1]
  <2> DEFINE lo == w[a - 1]
             hi == w[b - 1]
             n == Len(r)
  <2>1. /\ lo \in Nat /\ hi \in Nat /\ l \in Nat /\ n \in Nat /\ l = hi - lo /\ lo < hi /\ hi <= n
        /\ k = lo + 1
    BY <1>1, <1>2, <1>3
  <2> HIDE DEF lo, hi, n, l, k
  <2>2. k \in 1..n /\ (k - 1) + l <= n /\ (k - 1) + l = hi /\ k - 1 = lo
    BY <2>1
  <2>3. QED
    BY <2>2 DEF n, lo, hi
<1> HIDE DEF k
<1>6. \A q \in 1..l : r[(k - 1) + q] = needle[q]
  BY <1>3, <1>5
<1>7. k \in Offsets!Occurrences(needle, r)
  BY <1>1, <1>2, <1>5, <1>6, OccursFacts
<1> DEFINE h == SpanOf(norm, k, l)
<1>8. h.start = a /\ h.end >= b
  <2>1. h.start = norm[k].start /\ h.end = norm[(k - 1) + l].end
    BY DEF SpanOf
  <2> HIDE DEF h
  <2>2. QED
    BY <1>4, <1>5, <2>1
<1>9. a \in Nat /\ b \in Nat
  BY SectionText
<1> HIDE DEF h, l
<1>10. h.start <= a /\ b <= h.end
  BY <1>8, <1>9
<1>11. QED
  BY <1>7, <1>10 DEF h, l, r

\* Whatever the text, what the dictionary reports of a term is right.
LEMMA HitsAreRight ==
    ASSUME NEW V, Alphabet(V), NEW exact \in BOOLEAN, exact \/ Offsets!Sharp \notin V,
           NEW t \in Seq(V), NEW term \in Seq(V), Len(term) # 0
    PROVE  Offsets!OffsetsRight(t, term, exact, Offsets!DictionaryHits(t, term, exact))
<1> DEFINE norm == Offsets!Normalize(t)
           needle == IF exact THEN term ELSE Offsets!FoldAll(term)
           hits == Offsets!DictionaryHits(t, term, exact)
           found == Offsets!Occurrences(needle, Read(exact, norm))
           reads(s) == Read(exact, Offsets!Normalize(SubSeq(t, s.start, s.end - 1)))
<1>1. needle \in Seq(V) /\ Len(needle) # 0
  BY NeedleFacts
<1>2. PICK w : Laid(V, t, norm, w)
  BY NormaliseLays
<1>3. norm \in Seq(Entry(V)) /\ Len(t) \in Nat
  BY <1>2, LenProperties DEF Laid
<1>4. hits = {Offsets!ToOriginalSpan(norm, k, k + Len(needle)) : k \in found}
  BY DEF Offsets!DictionaryHits, Read
<1> HIDE DEF norm, needle, hits
<1>5. hits = {SpanOf(norm, k, Len(needle)) : k \in found}
  <2>1. \A k \in found : Offsets!ToOriginalSpan(norm, k, k + Len(needle)) = SpanOf(norm, k, Len(needle))
    BY <1>1, <1>3, HitFacts
  <2>2. QED
    BY <1>4, <2>1
<1>6. ASSUME NEW h \in hits
      PROVE  Section(t, h.start, h.end) /\ Offsets!Occurrences(needle, reads(h)) # {}
  <2>1. PICK k \in found : h = SpanOf(norm, k, Len(needle))
    BY <1>5
  <2>2. QED
    BY <1>1, <1>2, <2>1, HitHasTerm
<1> HIDE DEF found
<1>7. ASSUME NEW h \in hits
      PROVE  Offsets!Within(t, h) /\ Offsets!WholeChunks(t, h)
  <2>1. Section(t, h.start, h.end)
    BY <1>6
  <2>2. /\ h.start \in 1..Len(t) /\ h.end \in 2..(Len(t) + 1) /\ h.start < h.end
        /\ h.start \in Ends(t) /\ h.end \in Ends(t)
    BY <2>1, SectionText DEF Section, Ends
  <2>3. QED
    BY <1>3, <2>2 DEF Offsets!Within, Offsets!WholeChunks, Ends
<1>8. ASSUME NEW h \in hits
      PROVE  LET chars == Offsets!NormalizedChars(Offsets!Normalize(SubSeq(t, h.start, h.end - 1)))
             IN  IF exact THEN Offsets!Occurrences(term, chars) # {}
                 ELSE Offsets!Occurrences(Offsets!FoldAll(term), Offsets!FoldAll(chars)) # {}
  BY <1>6 DEF Read, needle
<1>9. ASSUME NEW s, s.start \in 1..(Len(t) + 1), s.end \in 1..(Len(t) + 1),
             Offsets!Within(t, s), Offsets!WholeChunks(t, s), Offsets!Reads(t, s, term, exact)
      PROVE  \E h \in hits : h.start <= s.start /\ s.end <= h.end
  <2>1. Section(t, s.start, s.end)
    <3>1. s.start \in Ends(t) /\ s.end \in Ends(t) /\ s.start < s.end
      BY <1>9 DEF Offsets!WholeChunks, Offsets!Within, Ends
    <3>2. s.start # Len(t) + 1
      BY <1>3, <1>9, <3>1
    <3>3. QED
      BY <3>1, <3>2 DEF Section, Ends
  <2>2. reads(s) = needle
    BY <1>9 DEF Offsets!Reads, Read, needle
  <2>3. \E k \in found : LET h == SpanOf(norm, k, Len(needle)) IN h.start <= s.start /\ s.end <= h.end
    BY <1>1, <1>2, <2>1, <2>2, TermIsHit DEF found
  <2>4. QED
    BY <1>5, <2>3
<1> DEFINE spans == {[start |-> i, end |-> j] : i, j \in 1..(Len(t) + 1)}
<1>10. \A s \in spans : s.start \in 1..(Len(t) + 1) /\ s.end \in 1..(Len(t) + 1)
  OBVIOUS
<1> HIDE DEF reads
<1>11. \A s \in spans : Offsets!Within(t, s) /\ Offsets!WholeChunks(t, s) /\ Offsets!Reads(t, s, term, exact)
          => \E h \in hits : h.start <= s.start /\ s.end <= h.end
  BY <1>9, <1>10
<1>12. Offsets!OffsetsRight(t, term, exact, hits)
  BY <1>7, <1>8, <1>11 DEF Offsets!OffsetsRight
<1>13. QED
  BY <1>12 DEF hits

\* A text that is searched is one of code points, and so is the term.
OffsetsInv ==
    part = "offsets" =>
        /\ input.text \in Seq(Offsets!CodePoints) /\ input.exact \in BOOLEAN
        /\ input.term \in Seq(Offsets!Letters \cup {"a^"}) /\ Len(input.term) # 0
        /\ output # None => output = Offsets!DictionaryHits(input.text, input.term, input.exact)

\* A registered term is found wherever a text has it, in whole characters and where it is.
THEOREM OffsetsAreSound == TextSpec => []OffsetsSound
<1>1. TextInit => OffsetsInv
  <2>1. SUFFICES ASSUME TextInit, part = "offsets"
                 PROVE  /\ input.text \in Seq(Offsets!CodePoints) /\ input.exact \in BOOLEAN
                        /\ input.term \in Seq(Offsets!Letters \cup {"a^"}) /\ Len(input.term) # 0
    BY DEF OffsetsInv, TextInit
  <2>2. PICK n \in 0..MaxPoints :
           input \in [text : [1..n -> Offsets!CodePoints],
                      term : {<<"a", "b">>, <<"A">>, <<"b", "a^">>}, exact : BOOLEAN]
    BY <2>1 DEF TextInit, InitInput
  <2>3. /\ n \in Nat /\ input.text \in [1..n -> Offsets!CodePoints] /\ input.exact \in BOOLEAN
        /\ input.term \in {<<"a", "b">>, <<"A">>, <<"b", "a^">>}
    BY <2>2, BoundsAssumption
  <2>4. input.text \in Seq(Offsets!CodePoints)
    BY <2>3
  <2> DEFINE S == Offsets!Letters \cup {"a^"}
  <2>5. "a" \in S /\ "A" \in S /\ "b" \in S /\ "a^" \in S
    BY DEF Offsets!Letters
  <2> HIDE DEF S
  <2>6. <<"a", "b">> \in Seq(S) /\ <<"A">> \in Seq(S) /\ <<"b", "a^">> \in Seq(S)
    BY <2>5
  <2>7. Len(<<"a", "b">>) = 2 /\ Len(<<"A">>) = 1 /\ Len(<<"b", "a^">>) = 2
    OBVIOUS
  <2>8. input.term = <<"a", "b">> \/ input.term = <<"A">> \/ input.term = <<"b", "a^">>
    BY <2>3
  <2>9. input.term \in Seq(S) /\ Len(input.term) # 0
    <3>1. CASE input.term = <<"a", "b">>
      <4>1. Len(input.term) = 2
        BY ONLY <3>1, <2>7, Zenon
      <4>2. input.term \in Seq(S)
        BY ONLY <3>1, <2>6, Zenon
      <4>3. QED
        BY <4>1, <4>2
    <3>2. CASE input.term = <<"A">>
      <4>1. Len(input.term) = 1
        BY ONLY <3>2, <2>7, Zenon
      <4>2. input.term \in Seq(S)
        BY ONLY <3>2, <2>6, Zenon
      <4>3. QED
        BY <4>1, <4>2
    <3>3. CASE input.term = <<"b", "a^">>
      <4>1. Len(input.term) = 2
        BY ONLY <3>3, <2>7, Zenon
      <4>2. input.term \in Seq(S)
        BY ONLY <3>3, <2>6, Zenon
      <4>3. QED
        BY <4>1, <4>2
    <3>4. QED
      BY <2>8, <3>1, <3>2, <3>3
  <2>10. QED
    BY <2>3, <2>4, <2>9 DEF S
<1>2. OffsetsInv /\ [TextNext]_textVars => OffsetsInv'
  <2>1. [TextNext]_textVars =>
           FindTerm \/ part' # "offsets" \/ UNCHANGED <<part, input, output>>
    BY DEF TextNext, textVars, algorithmVars, AnswerAndRepeat, ResolvePolicy, CutSegments, CutWindows,
           Computes
  <2>2. FindTerm => /\ part' = part /\ input' = input
                    /\ output' = Offsets!DictionaryHits(input.text, input.term, input.exact)
    BY DEF FindTerm, Computes
  <2>3. QED
    BY <2>1, <2>2 DEF OffsetsInv
<1>3. OffsetsInv => OffsetsSound
  <2>1. SUFFICES ASSUME OffsetsInv, part = "offsets", output # None,
                        input.exact \/ Offsets!FoldsOneToOne(input.text)
                 PROVE  Offsets!OffsetsRight(input.text, input.term, input.exact, output)
    BY DEF OffsetsSound, Computed
  <2> DEFINE t == input.text
             exact == input.exact
             term == input.term
             all == Offsets!CodePoints \cup {"a^"}
             V == IF exact THEN all ELSE all \ {Offsets!Sharp}
  <2>2. /\ t \in Seq(Offsets!CodePoints) /\ exact \in BOOLEAN
        /\ term \in Seq(Offsets!Letters \cup {"a^"}) /\ Len(term) # 0
        /\ output = Offsets!DictionaryHits(t, term, exact) /\ (exact \/ Offsets!FoldsOneToOne(t))
    BY <2>1 DEF OffsetsInv
  <2> HIDE DEF t, exact, term
  <2>3. Alphabet(V) /\ Offsets!Letters \cup {"a^"} \subseteq V
    BY DEF Alphabet, Offsets!CodePoints, Offsets!Letters, Offsets!Sharp
  <2>4. exact \/ Offsets!Sharp \notin V
    OBVIOUS
  <2>5. Len(t) \in Nat /\ DOMAIN t = 1..Len(t) /\ (\A k \in 1..Len(t) : t[k] \in Offsets!CodePoints)
        /\ t = [k \in 1..Len(t) |-> t[k]]
    BY <2>2, LenProperties, ElementOfSeq
  <2>6. \A k \in 1..Len(t) : t[k] \in V
    <3>1. CASE exact
      BY <2>5, <3>1
    <3>2. CASE ~ exact
      <4>1. \A k \in 1..Len(t) : t[k] # Offsets!Sharp
        BY <2>2, <2>5, <3>2 DEF Offsets!FoldsOneToOne, Offsets!Range
      <4>2. QED
        BY <2>5, <4>1
    <3>3. QED
      BY <3>1, <3>2
  <2> HIDE DEF V
  <2>7. t \in Seq(V)
    BY <2>5, <2>6
  <2>8. term \in Seq(V)
    BY <2>2, <2>3
  <2>9. Offsets!OffsetsRight(t, term, exact, output)
    BY <2>2, <2>3, <2>4, <2>7, <2>8, HitsAreRight DEF V
  <2>10. QED
    BY <2>9 DEF t, term, exact
<1>4. QED
  BY <1>1, <1>2, <1>3, PTL DEF TextSpec
=============================================================================
