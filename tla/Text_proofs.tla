----------------------------- MODULE Text_proofs ------------------------------
(***************************************************************************)
(* Of the way of a text: resolution acts on findings of every kind and     *)
(* number as it should, the windows of a model miss nothing that they have *)
(* room for, neither a restored stream nor its events show where it was    *)
(* cut, and what a client was shown comes back as it was sent.             *)
(***************************************************************************)
EXTENDS MCText, SequenceTheorems, FiniteSetTheorems, TLAPS

-----------------------------------------------------------------------------
(* Induction, with the set of the values in question as its parameter.     *)

\* A set of naturals that has 0 and, with each n, also n + 1 has them all: without one, the
\* intervals up to those it lacks would have no smallest.
LEMMA NatFrom0 ==
    ASSUME NEW P \in SUBSET Nat, 0 \in P, \A n \in P : n + 1 \in P
    PROVE  P = Nat
<1> DEFINE T == {0..n : n \in Nat \ P}
           R == StrictSubsetOrdering(Nat)
<1>1. SUFFICES ASSUME Nat \ P # {} PROVE FALSE
  OBVIOUS
<1>2. T # {}
  BY <1>1
<1>3. T \subseteq FiniteSubsetsOf(Nat)
  <2>1. ASSUME NEW n \in Nat
        PROVE  0..n \in SUBSET Nat /\ IsFiniteSet(0..n)
    BY FS_Interval
  <2>2. QED
    BY <2>1 DEF FiniteSubsetsOf
<1>4. IsWellFoundedOn(R, FiniteSubsetsOf(Nat))
  BY FS_StrictSubsetOrderingWellFounded
<1> HIDE DEF T, R
<1>5. PICK A \in T : \A B \in T : ~ (<<B, A>> \in R)
  BY <1>2, <1>3, <1>4, WFMin
<1>6. PICK n \in Nat \ P : A = 0..n
  BY DEF T
<1>7. n - 1 \in Nat /\ (n - 1) + 1 = n
  BY <1>6
<1>8. n - 1 \in Nat \ P
  BY <1>7, <1>6
<1>9. 0..(n - 1) \in T
  BY <1>8 DEF T
<1>10. <<0..(n - 1), A>> \in R
  BY <1>6, <1>7 DEF R, StrictSubsetOrdering
<1>11. QED
  BY <1>5, <1>9, <1>10

\* Downwards: a set of the numbers from 1 to n that has each one if it has all above it.
LEMMA DownFrom ==
    ASSUME NEW n \in Nat, NEW P \in SUBSET (1..n),
           \A i \in 1..n : (\A j \in 1..n : j > i => j \in P) => i \in P
    PROVE  P = 1..n
<1> DEFINE N == {m \in Nat : \A i \in 1..n : n - i < m => i \in P}
<1>1. 0 \in N
  OBVIOUS
<1>2. ASSUME NEW m \in N
      PROVE  m + 1 \in N
  <2>1. ASSUME NEW i \in 1..n, n - i < m + 1
        PROVE  i \in P
    <3>1. \A j \in 1..n : j > i => n - j < m
      BY <2>1
    <3>2. \A j \in 1..n : j > i => j \in P
      BY <3>1
    <3>3. QED
      BY <3>2
  <2>2. QED
    BY <2>1
<1>3. N = Nat
  <2> HIDE DEF N
  <2>1. N \in SUBSET Nat
    BY DEF N
  <2>2. QED
    BY <1>1, <1>2, <2>1, NatFrom0
<1>4. ASSUME NEW i \in 1..n
      PROVE  i \in P
  <2>1. n \in N
    BY <1>3
  <2>2. n - i < n
    OBVIOUS
  <2>3. QED
    BY <2>1, <2>2
<1>5. QED
  BY <1>4

\* A set of subsets of S that has the empty one and, with each T, also T and one more element
\* has all that are finite.
LEMMA FiniteFromEmpty ==
    ASSUME NEW S, NEW P \in SUBSET SUBSET S, {} \in P,
           \A T \in P, e \in S : T \cup {e} \in P
    PROVE  \A T \in SUBSET S : IsFiniteSet(T) => T \in P
<1> DEFINE N == {n \in Nat : \A T \in SUBSET S : IsFiniteSet(T) /\ Cardinality(T) = n => T \in P}
<1>1. 0 \in N
  BY FS_EmptySet
<1>2. ASSUME NEW n \in N
      PROVE  n + 1 \in N
  <2>1. ASSUME NEW T \in SUBSET S, IsFiniteSet(T), Cardinality(T) = n + 1
        PROVE  T \in P
    <3>1. PICK e \in T : TRUE
      BY <2>1, FS_EmptySet
    <3>2. IsFiniteSet(T \ {e}) /\ Cardinality(T \ {e}) = n
      <4>1. IsFiniteSet(T \ {e}) /\ Cardinality(T \ {e}) = Cardinality(T) - 1
        BY <2>1, FS_RemoveElement
      <4>2. QED
        BY <4>1, <2>1
    <3>3. T \ {e} \in P /\ T = (T \ {e}) \cup {e}
      BY <3>2
    <3>4. QED
      BY <3>3
  <2>2. QED
    BY <2>1
<1>3. N = Nat
  <2> HIDE DEF N
  <2>1. N \in SUBSET Nat
    BY DEF N
  <2>2. QED
    BY <1>1, <1>2, <2>1, NatFrom0
<1>4. QED
  BY <1>3, FS_CardinalityType

\* A finite set of naturals that has any has a greatest.
LEMMA GreatestOfFinite ==
    ASSUME NEW S \in SUBSET Nat, IsFiniteSet(S), S # {}
    PROVE  \E m \in S : \A k \in S : m >= k
<1> DEFINE P == {T \in SUBSET Nat : T # {} => \E m \in T : \A k \in T : m >= k}
<1>1. {} \in P
  OBVIOUS
<1>2. ASSUME NEW T \in P, NEW e \in Nat
      PROVE  T \cup {e} \in P
  <2>1. CASE T = {}
    BY <2>1
  <2>2. CASE T # {}
    <3>1. PICK m \in T : \A k \in T : m >= k
      BY <2>2
    <3>2. CASE m >= e
      BY <3>1, <3>2
    <3>3. CASE e > m
      <4>1. \A k \in T \cup {e} : e >= k
        BY <3>1, <3>3
      <4>2. QED
        BY <4>1
    <3>4. QED
      BY <3>2, <3>3
  <2>3. QED
    BY <2>1, <2>2
<1>3. \A T \in SUBSET Nat : IsFiniteSet(T) => T \in P
  <2> HIDE DEF P
  <2>1. P \in SUBSET SUBSET Nat
    BY DEF P
  <2>2. QED
    BY <1>1, <1>2, <2>1, FiniteFromEmpty
<1>4. QED
  BY <1>3

-----------------------------------------------------------------------------
(* PolicyResolution: the orders of findings.                               *)

\* R orders D strictly.
Orders(R, D) ==
    /\ \A i \in D : <<i, i>> \notin R
    /\ \A i, j, k \in D : <<i, j>> \in R /\ <<j, k>> \in R => <<i, k>> \in R

\* A finite set has an element that none of it precedes.
LEMMA FirstOfFinite ==
    ASSUME NEW D, NEW R, Orders(R, D), NEW T \in SUBSET D, IsFiniteSet(T), T # {}
    PROVE  \E m \in T : \A k \in T : <<k, m>> \notin R
<1>1. /\ \A i \in D : <<i, i>> \notin R
      /\ \A i, j, k \in D : <<i, j>> \in R /\ <<j, k>> \in R => <<i, k>> \in R
  BY DEF Orders
<1> DEFINE P == {S \in SUBSET D : S # {} => \E m \in S : \A k \in S : <<k, m>> \notin R}
<1>2. {} \in P
  OBVIOUS
<1>3. ASSUME NEW S \in P, NEW e \in D
      PROVE  S \cup {e} \in P
  <2>1. CASE S = {}
    BY <1>1, <2>1
  <2>2. CASE S # {}
    <3>1. PICK m \in S : \A k \in S : <<k, m>> \notin R
      BY <2>2
    <3>2. CASE <<e, m>> \notin R
      <4>1. \A k \in S \cup {e} : <<k, m>> \notin R
        BY <1>1, <3>1, <3>2
      <4>2. QED
        BY <4>1
    <3>3. CASE <<e, m>> \in R
      <4>1. \A k \in S \cup {e} : <<k, e>> \notin R
        BY <1>1, <3>1, <3>3
      <4>2. QED
        BY <4>1
    <3>4. QED
      BY <3>2, <3>3
  <2>3. QED
    BY <2>1, <2>2
<1>4. \A S \in SUBSET D : IsFiniteSet(S) => S \in P
  <2>1. P \in SUBSET SUBSET D
    OBVIOUS
  <2> HIDE DEF P
  <2>2. QED
    BY <1>2, <1>3, <2>1, FiniteFromEmpty
<1>5. QED
  BY <1>4

-----------------------------------------------------------------------------
\* A detector's finding
Finding ==
    {d \in [type : DOMAIN Policy!Floor, policy : 0..3, priority : Int, start : Int, end : Int,
            score : Int] : d.start < d.end}

\* Tuples of three integers compare from the left.
LEMMA ThreeCompare ==
    ASSUME NEW a \in Int, NEW b \in Int, NEW c \in Int, NEW p \in Int, NEW q \in Int, NEW r \in Int
    PROVE  Policy!Exceeds(<<a, b, c>>, <<p, q, r>>) <=>
             a > p \/ (a = p /\ (b > q \/ (b = q /\ c > r)))
<1>1. 1..0 = {} /\ 1..1 = {1} /\ 1..2 = {1, 2} /\ 1..3 = {1, 2, 3}
  OBVIOUS
<1>2. /\ 1 - 1 = 0 /\ 2 - 1 = 1 /\ 3 - 1 = 2
  OBVIOUS
<1> DEFINE s == <<a, b, c>>
           t == <<p, q, r>>
<1>3. /\ DOMAIN s = {1, 2, 3} /\ s[1] = a /\ s[2] = b /\ s[3] = c
      /\ t[1] = p /\ t[2] = q /\ t[3] = r
  BY <1>1
<1> HIDE DEF s, t
<1>4. Policy!Exceeds(s, t) <=>
         \E i \in {1, 2, 3} : s[i] > t[i] /\ \A j \in 1..(i - 1) : s[j] = t[j]
  BY <1>3 DEF Policy!Exceeds
<1>5. Policy!Exceeds(s, t) <=>
         \/ s[1] > t[1] /\ \A j \in 1..0 : s[j] = t[j]
         \/ s[2] > t[2] /\ \A j \in 1..1 : s[j] = t[j]
         \/ s[3] > t[3] /\ \A j \in 1..2 : s[j] = t[j]
  BY <1>2, <1>4
<1>6. QED
  BY <1>1, <1>3, <1>5 DEF s, t

\* The same of tuples of four.
LEMMA FourCompare ==
    ASSUME NEW a \in Int, NEW b \in Int, NEW c \in Int, NEW d \in Int,
           NEW p \in Int, NEW q \in Int, NEW r \in Int, NEW u \in Int
    PROVE  Policy!Exceeds(<<a, b, c, d>>, <<p, q, r, u>>) <=>
             a > p \/ (a = p /\ (b > q \/ (b = q /\ (c > r \/ (c = r /\ d > u)))))
<1>1. 1..0 = {} /\ 1..1 = {1} /\ 1..2 = {1, 2} /\ 1..3 = {1, 2, 3} /\ 1..4 = {1, 2, 3, 4}
  OBVIOUS
<1>2. /\ 1 - 1 = 0 /\ 2 - 1 = 1 /\ 3 - 1 = 2 /\ 4 - 1 = 3
  OBVIOUS
<1> DEFINE s == <<a, b, c, d>>
           t == <<p, q, r, u>>
<1>3. /\ DOMAIN s = {1, 2, 3, 4} /\ s[1] = a /\ s[2] = b /\ s[3] = c /\ s[4] = d
      /\ t[1] = p /\ t[2] = q /\ t[3] = r /\ t[4] = u
  BY <1>1
<1> HIDE DEF s, t
<1>4. Policy!Exceeds(s, t) <=>
         \E i \in {1, 2, 3, 4} : s[i] > t[i] /\ \A j \in 1..(i - 1) : s[j] = t[j]
  BY <1>3 DEF Policy!Exceeds
<1>5. Policy!Exceeds(s, t) <=>
         \/ s[1] > t[1] /\ \A j \in 1..0 : s[j] = t[j]
         \/ s[2] > t[2] /\ \A j \in 1..1 : s[j] = t[j]
         \/ s[3] > t[3] /\ \A j \in 1..2 : s[j] = t[j]
         \/ s[4] > t[4] /\ \A j \in 1..3 : s[j] = t[j]
  BY <1>2, <1>4
<1>6. QED
  BY <1>1, <1>3, <1>5 DEF s, t

\* What the definitions say of findings.
LEMMA FindingFacts ==
    ASSUME NEW d \in Finding
    PROVE  /\ d.start \in Int /\ d.end \in Int /\ d.start < d.end
           /\ d.priority \in Int /\ d.score \in Int
           /\ Policy!SafetyRank(d) \in 0..3
           /\ Policy!Clamp(d).policy = Policy!SafetyRank(d)
           /\ Policy!Clamp(d).start = d.start /\ Policy!Clamp(d).end = d.end
<1>1. Policy!Floor[d.type] \in 0..3
  BY DEF Finding, Policy!Floor, Policy!Literal, Policy!EnvReference, Policy!Block
<1>2. d.policy \in 0..3 /\ d.start \in Int /\ d.end \in Int /\ d.start < d.end
      /\ d.priority \in Int /\ d.score \in Int
  BY DEF Finding
<1>3. d = [type |-> d.type, policy |-> d.policy, priority |-> d.priority, start |-> d.start,
           end |-> d.end, score |-> d.score]
  BY DEF Finding
<1>4. /\ Policy!Clamp(d).policy = Policy!Larger(d.policy, Policy!Floor[d.type])
      /\ Policy!Clamp(d).start = d.start /\ Policy!Clamp(d).end = d.end
  BY <1>3 DEF Policy!Clamp
<1>5. QED
  BY <1>1, <1>2, <1>4 DEF Policy!SafetyRank, Policy!Larger

\* A finding has an extent, an integer.
LEMMA Extent ==
    ASSUME NEW d \in Finding
    PROVE  d.end - d.start \in Int
<1> DEFINE first == d.start
           last == d.end
<1>1. first \in Int /\ last \in Int
  BY FindingFacts
<1> HIDE DEF first, last
<1>2. last - first \in Int
  BY <1>1
<1>3. QED
  BY <1>2 DEF first, last

\* A finding comes before another by its start, then its end, then its place.
LEMMA BeforeFacts ==
    ASSUME NEW found \in Seq(Finding), NEW i \in DOMAIN found, NEW j \in DOMAIN found
    PROVE  Policy!Before(found, i, j) <=>
             \/ found[i].start < found[j].start
             \/ /\ found[i].start = found[j].start
                /\ \/ found[i].end < found[j].end
                   \/ found[i].end = found[j].end /\ i < j
<1> DEFINE a == found[i].start
           b == found[i].end
           p == found[j].start
           q == found[j].end
<1>1. found[i] \in Finding /\ found[j] \in Finding
  OBVIOUS
<1>2. a \in Int /\ b \in Int /\ p \in Int /\ q \in Int
  BY <1>1, FindingFacts
<1>3. i \in Int /\ j \in Int
  BY LenProperties
<1>4. Policy!Before(found, i, j) <=> Policy!Exceeds(<<p, q, j>>, <<a, b, i>>)
  BY DEF Policy!Before
<1> HIDE DEF a, b, p, q
<1>5. Policy!Before(found, i, j) <=> p > a \/ (p = a /\ (q > b \/ (q = b /\ j > i)))
  BY <1>2, <1>3, <1>4, ThreeCompare
<1>6. Policy!Before(found, i, j) <=> a < p \/ (a = p /\ (b < q \/ (b = q /\ i < j)))
  BY <1>2, <1>3, <1>5
<1>7. QED
  BY <1>6 DEF a, b, p, q

\* A finding is preferred for its strictness first of all.
LEMMA PreferredFacts ==
    ASSUME NEW found \in Seq(Finding), NEW i \in DOMAIN found, NEW j \in DOMAIN found
    PROVE  LET a == Policy!SafetyRank(found[i])
               b == found[i].priority
               c == found[i].end - found[i].start
               d == found[i].score
               p == Policy!SafetyRank(found[j])
               q == found[j].priority
               r == found[j].end - found[j].start
               u == found[j].score
           IN  Policy!Preferred(found, i, j) <=>
                 a > p \/ (a = p /\ (b > q \/ (b = q /\ (c > r \/ (c = r /\ (d > u \/
                    (d = u /\ Policy!Before(found, i, j))))))))
<1> DEFINE a == Policy!SafetyRank(found[i])
           b == found[i].priority
           c == found[i].end - found[i].start
           d == found[i].score
           p == Policy!SafetyRank(found[j])
           q == found[j].priority
           r == found[j].end - found[j].start
           u == found[j].score
<1>1. found[i] \in Finding /\ found[j] \in Finding
  OBVIOUS
<1>2. a \in Int /\ b \in Int /\ d \in Int /\ p \in Int /\ q \in Int /\ u \in Int
  BY <1>1, FindingFacts, SMTT(30)
<1>3. c \in Int /\ r \in Int
  BY <1>1, Extent
<1>4. Policy!Preferred(found, i, j) <=>
         \/ Policy!Exceeds(<<a, b, c, d>>, <<p, q, r, u>>)
         \/ <<a, b, c, d>> = <<p, q, r, u>> /\ Policy!Before(found, i, j)
  BY DEF Policy!Preferred, Policy!Preference
<1> HIDE DEF a, b, c, d, p, q, r, u
<1>5. Policy!Exceeds(<<a, b, c, d>>, <<p, q, r, u>>) <=>
         a > p \/ (a = p /\ (b > q \/ (b = q /\ (c > r \/ (c = r /\ d > u)))))
  <2>1. a \in Int /\ b \in Int /\ c \in Int /\ d \in Int
    BY <1>2, <1>3
  <2>2. p \in Int /\ q \in Int /\ r \in Int /\ u \in Int
    BY <1>2, <1>3
  <2>3. QED
    BY <2>1, <2>2, FourCompare, SMTT(60)
<1>6. <<a, b, c, d>> = <<p, q, r, u>> <=> a = p /\ b = q /\ c = r /\ d = u
  OBVIOUS
<1>7. Policy!Preferred(found, i, j) <=>
         a > p \/ (a = p /\ (b > q \/ (b = q /\ (c > r \/ (c = r /\ (d > u \/
            (d = u /\ Policy!Before(found, i, j))))))))
  BY <1>2, <1>3, <1>4, <1>5, <1>6
<1>8. QED
  BY <1>7 DEF a, b, c, d, p, q, r, u

-----------------------------------------------------------------------------
\* R orders D in full.
OrdersAll(R, D) ==
    /\ Orders(R, D)
    /\ \A i, j \in D : i # j => <<i, j>> \in R \/ <<j, i>> \in R

\* By the larger value of f first, then by R
ThenBy(f, R, D) ==
    {e \in D \X D : f[e[1]] > f[e[2]] \/ (f[e[1]] = f[e[2]] /\ e \in R)}

\* A tuple is compared one place at a time.
LEMMA PlaceByPlace ==
    ASSUME NEW D, NEW f, \A i \in D : f[i] \in Int, NEW R, OrdersAll(R, D)
    PROVE  /\ OrdersAll(ThenBy(f, R, D), D)
           /\ \A i, j \in D : <<i, j>> \in ThenBy(f, R, D) <=>
                 f[i] > f[j] \/ (f[i] = f[j] /\ <<i, j>> \in R)
<1> DEFINE Q == ThenBy(f, R, D)
<1>1. \A i, j \in D : <<i, j>> \in Q <=> f[i] > f[j] \/ (f[i] = f[j] /\ <<i, j>> \in R)
  BY DEF ThenBy
<1> HIDE DEF Q
<1>2. ASSUME NEW i \in D
      PROVE  <<i, i>> \notin Q
  <2> DEFINE a == f[i]
  <2>1. a \in Int
    OBVIOUS
  <2> HIDE DEF a
  <2>2. ~ a > a
    BY <2>1
  <2>3. QED
    BY <1>1, <2>2 DEF a, Orders, OrdersAll
<1>3. ASSUME NEW i \in D, NEW j \in D, NEW k \in D, <<i, j>> \in Q, <<j, k>> \in Q
      PROVE  <<i, k>> \in Q
  <2> DEFINE a == f[i]
             b == f[j]
             c == f[k]
  <2>1. a \in Int /\ b \in Int /\ c \in Int
    OBVIOUS
  <2>2. /\ a > b \/ (a = b /\ <<i, j>> \in R)
        /\ b > c \/ (b = c /\ <<j, k>> \in R)
    BY <1>1, <1>3
  <2>3. <<i, j>> \in R /\ <<j, k>> \in R => <<i, k>> \in R
    BY DEF Orders, OrdersAll
  <2>4. <<i, k>> \in Q <=> a > c \/ (a = c /\ <<i, k>> \in R)
    BY <1>1
  <2> HIDE DEF a, b, c
  <2>5. QED
    BY <2>1, <2>2, <2>3, <2>4
<1>4. ASSUME NEW i \in D, NEW j \in D, i # j
      PROVE  <<i, j>> \in Q \/ <<j, i>> \in Q
  <2> DEFINE a == f[i]
             b == f[j]
  <2>1. a \in Int /\ b \in Int
    OBVIOUS
  <2>2. /\ <<i, j>> \in Q <=> a > b \/ (a = b /\ <<i, j>> \in R)
        /\ <<j, i>> \in Q <=> b > a \/ (b = a /\ <<j, i>> \in R)
    BY <1>1
  <2>3. <<i, j>> \in R \/ <<j, i>> \in R
    BY <1>4 DEF OrdersAll
  <2> HIDE DEF a, b
  <2>4. QED
    BY <2>1, <2>2, <2>3
<1>5. QED
  BY <1>1, <1>2, <1>3, <1>4 DEF Q, Orders, OrdersAll

\* The two orders of findings, as sets of pairs
InOrder(found) ==
    LET D == DOMAIN found
    IN  ThenBy([i \in D |-> 0 - found[i].start],
               ThenBy([i \in D |-> 0 - found[i].end], ThenBy([i \in D |-> 0 - i], {}, D), D), D)

ByPreference(found) ==
    LET D == DOMAIN found
    IN  ThenBy([i \in D |-> Policy!SafetyRank(found[i])],
               ThenBy([i \in D |-> found[i].priority],
                      ThenBy([i \in D |-> found[i].end - found[i].start],
                             ThenBy([i \in D |-> found[i].score], InOrder(found), D), D), D), D)

\* A smaller value is a larger one with its sign changed.
LEMMA Negated ==
    ASSUME NEW a \in Int, NEW b \in Int
    PROVE  /\ 0 - a \in Int
           /\ 0 - a > 0 - b <=> a < b
           /\ 0 - a = 0 - b <=> a = b
OBVIOUS

\* The order of the findings in the text is strict, and total.
LEMMA BeforeIsOrder ==
    ASSUME NEW found \in Seq(Finding)
    PROVE  /\ OrdersAll(InOrder(found), DOMAIN found)
           /\ \A i, j \in DOMAIN found :
                 <<i, j>> \in InOrder(found) <=> Policy!Before(found, i, j)
<1> DEFINE D == DOMAIN found
           f == [i \in D |-> 0 - found[i].start]
           g == [i \in D |-> 0 - found[i].end]
           h == [i \in D |-> 0 - i]
           Q == ThenBy(h, {}, D)
           R == ThenBy(g, Q, D)
           S == ThenBy(f, R, D)
<1>1. \A i \in D : found[i].start \in Int /\ found[i].end \in Int
  <2>1. TAKE i \in D
  <2>2. found[i] \in Finding
    OBVIOUS
  <2>3. QED
    BY <2>2, FindingFacts
<1>2. \A i \in D : i \in Int
  BY LenProperties
<1>3. \A i \in D : f[i] \in Int /\ g[i] \in Int /\ h[i] \in Int
  <2>1. TAKE i \in D
  <2>2. 0 - found[i].start \in Int
    BY <1>1, Negated
  <2>3. 0 - found[i].end \in Int
    BY <1>1, Negated
  <2>4. 0 - i \in Int
    BY <1>2, Negated
  <2>5. QED
    BY <2>2, <2>3, <2>4
<1>4. ASSUME NEW i \in D, NEW j \in D
      PROVE  /\ f[i] > f[j] <=> found[i].start < found[j].start
             /\ f[i] = f[j] <=> found[i].start = found[j].start
             /\ g[i] > g[j] <=> found[i].end < found[j].end
             /\ g[i] = g[j] <=> found[i].end = found[j].end
             /\ h[i] > h[j] <=> i < j
             /\ h[i] = h[j] <=> i = j
  <2>1. /\ f[i] = 0 - found[i].start /\ f[j] = 0 - found[j].start
        /\ g[i] = 0 - found[i].end /\ g[j] = 0 - found[j].end
        /\ h[i] = 0 - i /\ h[j] = 0 - j
    OBVIOUS
  <2>2. /\ 0 - found[i].start > 0 - found[j].start <=> found[i].start < found[j].start
        /\ 0 - found[i].start = 0 - found[j].start <=> found[i].start = found[j].start
    BY <1>1, Negated
  <2>3. /\ 0 - found[i].end > 0 - found[j].end <=> found[i].end < found[j].end
        /\ 0 - found[i].end = 0 - found[j].end <=> found[i].end = found[j].end
    BY <1>1, Negated
  <2>4. /\ 0 - i > 0 - j <=> i < j
        /\ 0 - i = 0 - j <=> i = j
    BY <1>2, Negated
  <2> HIDE DEF f, g, h
  <2>5. QED
    BY <2>1, <2>2, <2>3, <2>4
<1> HIDE DEF f, g, h, Q, R, S, D
<1>5. OrdersAll(Q, D) /\ \A i, j \in D : <<i, j>> \in Q <=> i < j
  <2>1. \A i, j \in D : <<i, j>> \in Q <=> i < j
    <3>1. TAKE i, j \in D
    <3>2. <<i, j>> \in Q <=> h[i] > h[j]
      BY DEF Q, ThenBy
    <3>3. QED
      BY <1>4, <3>2
  <2>2. QED
    BY <1>2, <2>1 DEF Orders, OrdersAll
<1>6. /\ OrdersAll(R, D)
      /\ \A i, j \in D : <<i, j>> \in R <=> g[i] > g[j] \/ (g[i] = g[j] /\ <<i, j>> \in Q)
  BY <1>3, <1>5, PlaceByPlace DEF R
<1>7. /\ OrdersAll(S, D)
      /\ \A i, j \in D : <<i, j>> \in S <=> f[i] > f[j] \/ (f[i] = f[j] /\ <<i, j>> \in R)
  BY <1>3, <1>6, PlaceByPlace DEF S
<1>8. ASSUME NEW i \in D, NEW j \in D
      PROVE  <<i, j>> \in S <=> Policy!Before(found, i, j)
  <2>1. Policy!Before(found, i, j) <=>
             \/ found[i].start < found[j].start
             \/ /\ found[i].start = found[j].start
                /\ \/ found[i].end < found[j].end
                   \/ found[i].end = found[j].end /\ i < j
    BY BeforeFacts DEF D
  <2>2. <<i, j>> \in S <=>
             \/ found[i].start < found[j].start
             \/ /\ found[i].start = found[j].start
                /\ \/ found[i].end < found[j].end
                   \/ found[i].end = found[j].end /\ i < j
    <3>1. <<i, j>> \in Q <=> i < j
      BY <1>5
    <3>2. <<i, j>> \in R <=> g[i] > g[j] \/ (g[i] = g[j] /\ <<i, j>> \in Q)
      BY <1>6
    <3>3. <<i, j>> \in S <=> f[i] > f[j] \/ (f[i] = f[j] /\ <<i, j>> \in R)
      BY <1>7
    <3>4. /\ f[i] > f[j] <=> found[i].start < found[j].start
          /\ f[i] = f[j] <=> found[i].start = found[j].start
          /\ g[i] > g[j] <=> found[i].end < found[j].end
          /\ g[i] = g[j] <=> found[i].end = found[j].end
      BY <1>4
    <3>5. QED
      BY <3>1, <3>2, <3>3, <3>4, Zenon
  <2>3. QED
    BY <2>1, <2>2, Zenon
<1>9. S = InOrder(found)
  BY DEF S, R, Q, f, g, h, D, InOrder
<1>10. QED
  BY <1>7, <1>8, <1>9 DEF D

\* Preferred is a strict order of the findings, and total.
LEMMA PreferredIsOrder ==
    ASSUME NEW found \in Seq(Finding)
    PROVE  /\ OrdersAll(ByPreference(found), DOMAIN found)
           /\ \A i, j \in DOMAIN found :
                 <<i, j>> \in ByPreference(found) <=> Policy!Preferred(found, i, j)
<1> DEFINE D == DOMAIN found
           f == [i \in D |-> Policy!SafetyRank(found[i])]
           g == [i \in D |-> found[i].priority]
           h == [i \in D |-> found[i].end - found[i].start]
           s == [i \in D |-> found[i].score]
           P == InOrder(found)
           Q == ThenBy(s, P, D)
           R == ThenBy(h, Q, D)
           S == ThenBy(g, R, D)
           T == ThenBy(f, S, D)
<1>1. \A i \in D : f[i] \in Int /\ g[i] \in Int /\ h[i] \in Int /\ s[i] \in Int
  <2>1. TAKE i \in D
  <2>2. found[i] \in Finding
    OBVIOUS
  <2>3. Policy!SafetyRank(found[i]) \in Int
    BY <2>2, FindingFacts, SMTT(30)
  <2>4. found[i].priority \in Int /\ found[i].score \in Int
    BY <2>2, FindingFacts
  <2>5. found[i].end - found[i].start \in Int
    BY <2>2, Extent
  <2>6. QED
    BY <2>3, <2>4, <2>5
<1>2. ASSUME NEW i \in D, NEW j \in D
      PROVE  Policy!Preferred(found, i, j) <=>
                 f[i] > f[j] \/ (f[i] = f[j] /\ (g[i] > g[j] \/ (g[i] = g[j] /\
                    (h[i] > h[j] \/ (h[i] = h[j] /\ (s[i] > s[j] \/ (s[i] = s[j] /\
                        Policy!Before(found, i, j))))))))
  <2>1. /\ f[i] = Policy!SafetyRank(found[i]) /\ f[j] = Policy!SafetyRank(found[j])
        /\ g[i] = found[i].priority /\ g[j] = found[j].priority
        /\ h[i] = found[i].end - found[i].start /\ h[j] = found[j].end - found[j].start
        /\ s[i] = found[i].score /\ s[j] = found[j].score
    OBVIOUS
  <2> HIDE DEF f, g, h, s
  <2>2. QED
    BY <2>1, PreferredFacts, Zenon
<1> HIDE DEF f, g, h, s, P, Q, R, S, T, D
<1>3. OrdersAll(P, D) /\ \A i, j \in D : <<i, j>> \in P <=> Policy!Before(found, i, j)
  BY BeforeIsOrder DEF P, D
<1>4. /\ OrdersAll(Q, D)
      /\ \A i, j \in D : <<i, j>> \in Q <=> s[i] > s[j] \/ (s[i] = s[j] /\ <<i, j>> \in P)
  BY <1>1, <1>3, PlaceByPlace DEF Q
<1>5. /\ OrdersAll(R, D)
      /\ \A i, j \in D : <<i, j>> \in R <=> h[i] > h[j] \/ (h[i] = h[j] /\ <<i, j>> \in Q)
  BY <1>1, <1>4, PlaceByPlace DEF R
<1>6. /\ OrdersAll(S, D)
      /\ \A i, j \in D : <<i, j>> \in S <=> g[i] > g[j] \/ (g[i] = g[j] /\ <<i, j>> \in R)
  BY <1>1, <1>5, PlaceByPlace DEF S
<1>7. /\ OrdersAll(T, D)
      /\ \A i, j \in D : <<i, j>> \in T <=> f[i] > f[j] \/ (f[i] = f[j] /\ <<i, j>> \in S)
  BY <1>1, <1>6, PlaceByPlace DEF T
<1>8. \A i, j \in D : <<i, j>> \in T <=> Policy!Preferred(found, i, j)
  BY <1>2, <1>3, <1>4, <1>5, <1>6, <1>7, ZenonT(40)
<1>9. T = ByPreference(found)
  BY DEF T, S, R, Q, P, f, g, h, s, D, ByPreference
<1>10. QED
  BY <1>7, <1>8, <1>9 DEF D

\* A sequence has finitely many findings.
LEMMA FindingsFinite ==
    ASSUME NEW found \in Seq(Finding), NEW T \in SUBSET DOMAIN found
    PROVE  IsFiniteSet(T)
<1>1. DOMAIN found = 1..Len(found) /\ Len(found) \in Nat
  BY LenProperties
<1>2. IsFiniteSet(DOMAIN found)
  BY <1>1, FS_Interval
<1>3. QED
  BY <1>2, FS_Subset

\* What ResolveCluster decides of finding i of S, given what f decides of those in T.
Takes(found, S, T, f, i) ==
    /\ i \notin Policy!Protected(found, S)
    /\ \A p \in Policy!Protected(found, S) : ~ Policy!Overlaps(found[i], found[p])
    /\ \A j \in T \ {i} :
          Policy!Preferred(found, j, i) /\ Policy!Overlaps(found[i], found[j]) => ~ f[j]

\* Among finitely many findings there is one that is preferred to no other.
LEMMA LeastPreferred ==
    ASSUME NEW found \in Seq(Finding), NEW T \in SUBSET DOMAIN found, T # {}
    PROVE  \E m \in T : \A k \in T : ~ Policy!Preferred(found, m, k)
<1> DEFINE D == DOMAIN found
           R == {e \in D \X D : <<e[2], e[1]>> \in ByPreference(found)}
<1>1. OrdersAll(ByPreference(found), D)
      /\ \A i, j \in D : <<i, j>> \in ByPreference(found) <=> Policy!Preferred(found, i, j)
  BY PreferredIsOrder
<1>2. \A i, j \in D : <<i, j>> \in R <=> <<j, i>> \in ByPreference(found)
  OBVIOUS
<1>3. IsFiniteSet(T)
  BY FindingsFinite
<1> HIDE DEF R, D
<1>4. Orders(R, D)
  BY <1>1, <1>2 DEF Orders, OrdersAll
<1>5. T \in SUBSET D
  BY DEF D
<1>6. \E m \in T : \A k \in T : <<k, m>> \notin R
  BY <1>3, <1>4, <1>5, FirstOfFinite
<1>7. QED
  BY <1>1, <1>2, <1>5, <1>6

\* And one that no other is preferred to.
LEMMA MostPreferred ==
    ASSUME NEW found \in Seq(Finding), NEW T \in SUBSET DOMAIN found, T # {}
    PROVE  \E m \in T : \A k \in T : ~ Policy!Preferred(found, k, m)
<1>1. Orders(ByPreference(found), DOMAIN found)
      /\ \A i, j \in DOMAIN found :
            <<i, j>> \in ByPreference(found) <=> Policy!Preferred(found, i, j)
  BY PreferredIsOrder DEF OrdersAll
<1>2. IsFiniteSet(T)
  BY FindingsFinite
<1>3. \E m \in T : \A k \in T : <<k, m>> \notin ByPreference(found)
  BY <1>1, <1>2, FirstOfFinite
<1>4. QED
  BY <1>1, <1>3

\* The recursive function that ResolveCluster is made of exists.
LEMMA TakesExist ==
    ASSUME NEW found \in Seq(Finding), NEW S \in SUBSET DOMAIN found
    PROVE  \E f : f = [i \in S |-> Takes(found, S, S, f, i)]
<1> DEFINE Q == {T \in SUBSET S : \E f : f = [i \in T |-> Takes(found, S, T, f, i)]}
           N == {n \in Nat : \A T \in SUBSET S : Cardinality(T) = n => T \in Q}
<1>1. \A T \in SUBSET S : IsFiniteSet(T) /\ Cardinality(T) \in Nat
  BY FindingsFinite, FS_CardinalityType
<1>2. 0 \in N
  <2>1. {} \in Q
    <3>1. \E f : f = [i \in {} |-> Takes(found, S, {}, f, i)]
      <4> DEFINE f == [i \in {} |-> TRUE]
      <4>1. f = [i \in {} |-> Takes(found, S, {}, f, i)]
        OBVIOUS
      <4> HIDE DEF f
      <4>2. QED
        BY <4>1
    <3>2. QED
      BY <3>1
  <2>2. \A T \in SUBSET S : Cardinality(T) = 0 => T = {}
    BY <1>1, FS_EmptySet
  <2>3. QED
    BY <2>1, <2>2
<1>3. ASSUME NEW n \in N
      PROVE  n + 1 \in N
  <2>1. SUFFICES ASSUME NEW T \in SUBSET S, Cardinality(T) = n + 1
                 PROVE  T \in Q
    OBVIOUS
  <2>2. n \in Nat /\ T # {}
    <3>1. n \in Nat /\ n + 1 # 0
      OBVIOUS
    <3>2. QED
      BY <2>1, <3>1, FS_EmptySet
  <2>3. PICK m \in T : \A k \in T : ~ Policy!Preferred(found, m, k)
    BY <2>2, LeastPreferred
  <2> DEFINE U == T \ {m}
  <2>4. Cardinality(U) = n
    <3>1. Cardinality(U) = Cardinality(T) - 1
      BY <1>1, FS_RemoveElement
    <3>2. QED
      BY <2>1, <2>2, <3>1
  <2>5. U \in Q
    BY <2>4
  <2>6. PICK f : f = [i \in U |-> Takes(found, S, U, f, i)]
    BY <2>5
  <2> DEFINE g == [i \in T |-> IF i = m THEN Takes(found, S, U, f, m) ELSE f[i]]
  <2>7. \A i \in U : g[i] = f[i]
    OBVIOUS
  <2>8. g[m] = Takes(found, S, U, f, m)
    OBVIOUS
  <2>9. \A i \in U : f[i] = Takes(found, S, U, f, i)
    BY <2>6
  <2>10. g = [i \in T |-> g[i]]
    OBVIOUS
  <2> HIDE DEF g
  <2>11. ASSUME NEW i \in T
         PROVE  Takes(found, S, T, g, i) <=> Takes(found, S, U, f, i)
    <3>1. \A j \in U \ {i} : g[j] = f[j]
      BY <2>7
    <3>2. ASSUME NEW j \in T \ {i}, Policy!Preferred(found, j, i)
          PROVE  j \in U \ {i}
      BY <2>3, <3>2
    <3>3. QED
      BY <3>1, <3>2, Zenon DEF Takes
  <2>12. ASSUME NEW i \in T
         PROVE  g[i] = Takes(found, S, T, g, i)
    <3>1. Takes(found, S, T, g, i) = Takes(found, S, U, f, i)
      BY <2>11, Zenon DEF Takes
    <3>2. g[i] = Takes(found, S, U, f, i)
      BY <2>7, <2>8, <2>9
    <3>3. QED
      BY <3>1, <3>2
  <2>13. g = [i \in T |-> Takes(found, S, T, g, i)]
    BY <2>10, <2>12
  <2>14. \E h : h = [i \in T |-> Takes(found, S, T, h, i)]
    BY <2>13
  <2>15. QED
    BY <2>14
<1>4. N = Nat
  <2>1. N \in SUBSET Nat
    OBVIOUS
  <2> HIDE DEF N
  <2>2. QED
    BY <1>2, <1>3, <2>1, NatFrom0
<1>5. S \in Q
  BY <1>1, <1>4
<1>6. QED
  BY <1>5

\* Which findings ResolveCluster takes.
LEMMA ClusterFacts ==
    ASSUME NEW found \in Seq(Finding), NEW S \in SUBSET DOMAIN found
    PROVE  LET C == Policy!ResolveCluster(found, S) IN
           /\ C \subseteq S
           /\ \A i \in S : i \in C <=>
                 /\ i \notin Policy!Protected(found, S)
                 /\ \A p \in Policy!Protected(found, S) : ~ Policy!Overlaps(found[i], found[p])
                 /\ \A j \in S \ {i} :
                       Policy!Preferred(found, j, i) /\ Policy!Overlaps(found[i], found[j])
                          => j \notin C
<1> DEFINE f == CHOOSE f : f = [i \in S |-> Takes(found, S, S, f, i)]
           C == {i \in S : f[i]}
<1>1. f = [i \in S |-> Takes(found, S, S, f, i)]
  BY TakesExist
<1>2. Policy!ResolveCluster(found, S) = C
  BY DEF Policy!ResolveCluster, Takes
<1> HIDE DEF f
<1>3. \A i \in S : f[i] = Takes(found, S, S, f, i)
  BY <1>1
<1>4. \A i \in S : f[i] <=> i \in C
  OBVIOUS
<1> HIDE DEF C
<1>5. C \subseteq S
  BY DEF C
<1>6. \A i \in S : i \in C <=>
         /\ i \notin Policy!Protected(found, S)
         /\ \A p \in Policy!Protected(found, S) : ~ Policy!Overlaps(found[i], found[p])
         /\ \A j \in S \ {i} :
               Policy!Preferred(found, j, i) /\ Policy!Overlaps(found[i], found[j])
                  => j \notin C
  BY <1>3, <1>4, Zenon DEF Takes
<1>7. QED
  BY <1>2, <1>5, <1>6, Zenon

\* Findings overlap each other and themselves, before and after they are clamped.
LEMMA OverlapFacts ==
    ASSUME NEW d \in Finding, NEW e \in Finding
    PROVE  /\ Policy!Overlaps(d, d)
           /\ Policy!Overlaps(d, e) <=> Policy!Overlaps(e, d)
           /\ Policy!Overlaps(Policy!Clamp(d), Policy!Clamp(e)) <=> Policy!Overlaps(d, e)
           /\ Policy!Overlaps(Policy!Clamp(d), e) <=> Policy!Overlaps(d, e)
<1>1. d.start < d.end
  BY FindingFacts
<1>2. /\ Policy!Clamp(d).start = d.start /\ Policy!Clamp(d).end = d.end
      /\ Policy!Clamp(e).start = e.start /\ Policy!Clamp(e).end = e.end
  BY FindingFacts
<1>3. QED
  BY <1>1, <1>2 DEF Policy!Overlaps

\* Findings that overlap are of one cluster: none opens between them.
LEMMA OverlapsSameCluster ==
    ASSUME NEW found \in Seq(Finding), NEW i \in DOMAIN found, NEW j \in DOMAIN found,
           Policy!Overlaps(found[i], found[j])
    PROVE  Policy!SameCluster(found, i, j)
<1>1. \A k \in DOMAIN found : found[k].start \in Int /\ found[k].end \in Int /\ k \in Int
  <2>1. TAKE k \in DOMAIN found
  <2>2. found[k] \in Finding
    OBVIOUS
  <2>3. k \in Int
    BY LenProperties
  <2>4. QED
    BY <2>2, <2>3, FindingFacts
\* One side: what opens behind b opens behind what overlaps b.
<1>2. ASSUME NEW k \in DOMAIN found, Policy!Opens(found, k),
             NEW a \in DOMAIN found, NEW b \in DOMAIN found,
             found[a].end > found[b].start, Policy!Before(found, a, k)
      PROVE  Policy!Before(found, b, k)
  <2> DEFINE s == found[b].start
             e == found[a].end
             n == found[k].start
  <2>1. e <= n
    BY <1>2 DEF Policy!Opens
  <2>2. s \in Int /\ e \in Int /\ n \in Int /\ e > s
    BY <1>1, <1>2
  <2> HIDE DEF s, e, n
  <2>3. s < n
    BY <2>1, <2>2
  <2>4. QED
    BY <2>3, BeforeFacts DEF s, n
<1>3. found[i].end > found[j].start /\ found[j].end > found[i].start
  <2> DEFINE a == found[i].start
             b == found[i].end
             c == found[j].start
             d == found[j].end
  <2>1. a < d /\ c < b
    BY DEF Policy!Overlaps
  <2>2. a \in Int /\ b \in Int /\ c \in Int /\ d \in Int
    BY <1>1
  <2> HIDE DEF a, b, c, d
  <2>3. b > c /\ d > a
    BY <2>1, <2>2
  <2>4. QED
    BY <2>3 DEF a, b, c, d
<1>4. ASSUME NEW k \in DOMAIN found, Policy!Opens(found, k)
      PROVE  Policy!Before(found, i, k) <=> Policy!Before(found, j, k)
  BY <1>2, <1>3, <1>4
<1>5. QED
  BY <1>4 DEF Policy!SameCluster

\* Within findings that overlap no others, resolution is what it is among all findings.
LEMMA ClusterAgrees ==
    ASSUME NEW found \in Seq(Finding), NEW S \in SUBSET DOMAIN found,
           \A i \in S, j \in DOMAIN found : Policy!Overlaps(found[i], found[j]) => j \in S
    PROVE  \A i \in S : i \in Policy!ResolveCluster(found, S) <=>
                          i \in Policy!ResolveCluster(found, DOMAIN found)
<1> DEFINE D == DOMAIN found
           A == Policy!ResolveCluster(found, S)
           B == Policy!ResolveCluster(found, D)
           Bad == {i \in S : ~ (i \in A <=> i \in B)}
<1>1. SUFFICES ASSUME Bad # {} PROVE FALSE
  OBVIOUS
<1>2. PICK m \in Bad : \A k \in Bad : ~ Policy!Preferred(found, k, m)
  BY <1>1, MostPreferred
<1>3. m \in S /\ m \in D /\ ~ (m \in A <=> m \in B)
  OBVIOUS
<1>4. \A i \in S : i \in A <=>
         /\ i \notin Policy!Protected(found, S)
         /\ \A p \in Policy!Protected(found, S) : ~ Policy!Overlaps(found[i], found[p])
         /\ \A j \in S \ {i} :
               Policy!Preferred(found, j, i) /\ Policy!Overlaps(found[i], found[j]) => j \notin A
  BY ClusterFacts
<1>5. \A i \in D : i \in B <=>
         /\ i \notin Policy!Protected(found, D)
         /\ \A p \in Policy!Protected(found, D) : ~ Policy!Overlaps(found[i], found[p])
         /\ \A j \in D \ {i} :
               Policy!Preferred(found, j, i) /\ Policy!Overlaps(found[i], found[j]) => j \notin B
  <2>1. D \in SUBSET DOMAIN found
    OBVIOUS
  <2>2. QED
    BY <2>1, ClusterFacts
<1>6. Policy!Protected(found, S) = Policy!Protected(found, D) \cap S
  BY DEF Policy!Protected
<1>7. \A p \in Policy!Protected(found, D) : p \in D
  BY DEF Policy!Protected
<1>8. \A j \in D : Policy!Overlaps(found[m], found[j]) => j \in S
  BY <1>3
<1>9. \A j \in S : Policy!Preferred(found, j, m) => (j \in A <=> j \in B)
  BY <1>2
<1> HIDE DEF A, B, D, Bad
<1>10. m \in Policy!Protected(found, S) <=> m \in Policy!Protected(found, D)
  BY <1>3, <1>6
<1>11. (\A p \in Policy!Protected(found, S) : ~ Policy!Overlaps(found[m], found[p]))
       <=> (\A p \in Policy!Protected(found, D) : ~ Policy!Overlaps(found[m], found[p]))
  BY <1>6, <1>7, <1>8
<1>12. S \subseteq D
  BY DEF D
<1>13. (\A j \in S \ {m} :
          Policy!Preferred(found, j, m) /\ Policy!Overlaps(found[m], found[j]) => j \notin A)
       <=> (\A j \in D \ {m} :
          Policy!Preferred(found, j, m) /\ Policy!Overlaps(found[m], found[j]) => j \notin B)
  BY <1>8, <1>9, <1>12
<1>14. QED
  BY <1>3, <1>4, <1>5, <1>10, <1>11, <1>13, Zenon

\* The clusters do not matter: resolve takes what one cluster of all findings would.
LEMMA ResolveIsOfAll ==
    ASSUME NEW found \in Seq(Finding)
    PROVE  Policy!Resolve(found)
             = {Policy!Clamp(found[i]) : i \in Policy!ResolveCluster(found, DOMAIN found)}
<1> DEFINE D == DOMAIN found
           cluster(i) == {j \in D : Policy!SameCluster(found, i, j)}
           A == {j \in D : j \in Policy!ResolveCluster(found, cluster(j))}
           B == Policy!ResolveCluster(found, D)
<1>1. Policy!Resolve(found) = {Policy!Clamp(found[i]) : i \in A}
  BY DEF Policy!Resolve
<1>2. B \subseteq D
  BY ClusterFacts
<1>3. ASSUME NEW i \in D
      PROVE  i \in Policy!ResolveCluster(found, cluster(i)) <=> i \in B
  <2> DEFINE S == cluster(i)
  <2>1. S \in SUBSET DOMAIN found
    OBVIOUS
  <2>2. i \in S
    BY DEF Policy!SameCluster
  <2>3. ASSUME NEW j \in S, NEW k \in DOMAIN found, Policy!Overlaps(found[j], found[k])
        PROVE  k \in S
    <3>1. Policy!SameCluster(found, i, j) /\ j \in D
      OBVIOUS
    <3>2. Policy!SameCluster(found, j, k)
      BY <2>3, <3>1, OverlapsSameCluster
    <3>3. Policy!SameCluster(found, i, k)
      BY <3>1, <3>2, Zenon DEF Policy!SameCluster
    <3>4. QED
      BY <3>3
  <2> HIDE DEF S
  <2>4. QED
    BY <2>1, <2>2, <2>3, ClusterAgrees DEF S
<1>4. A = B
  BY <1>2, <1>3
<1>5. QED
  BY <1>1, <1>4

\* Whatever the detectors found, what is acted upon is apart, as strict as asked for, spares
\* issued aliases and does not depend on the clusters of the sweep.
THEOREM ResolveIsSound ==
    ASSUME NEW found \in Seq(Finding)
    PROVE  Policy!ResolutionSound(found, Policy!Resolve(found))
<1> DEFINE D == DOMAIN found
           C == Policy!ResolveCluster(found, D)
           A == Policy!Protected(found, D)
           all == {Policy!Clamp(found[i]) : i \in C}
<1>1. Policy!Resolve(found) = all
  BY ResolveIsOfAll
<1>2. /\ C \subseteq D
      /\ \A i \in D : i \in C <=>
            /\ i \notin A
            /\ \A p \in A : ~ Policy!Overlaps(found[i], found[p])
            /\ \A j \in D \ {i} :
                  Policy!Preferred(found, j, i) /\ Policy!Overlaps(found[i], found[j]) => j \notin C
  <2>1. D \in SUBSET DOMAIN found
    OBVIOUS
  <2>2. QED
    BY <2>1, ClusterFacts
<1>3. A \subseteq D
  BY DEF Policy!Protected
<1>4. \A i \in D : found[i] \in Finding
  OBVIOUS
<1> HIDE DEF C, A
<1>5. \A i, j \in D :
         Policy!Overlaps(Policy!Clamp(found[i]), found[j]) <=> Policy!Overlaps(found[i], found[j])
  BY <1>4, OverlapFacts
<1>6. Policy!Apart(all)
  <2>1. SUFFICES ASSUME NEW i \in C, NEW j \in C, i # j
                 PROVE  ~ Policy!Overlaps(found[i], found[j])
    <3>1. \A i, j \in C : Policy!Overlaps(Policy!Clamp(found[i]), Policy!Clamp(found[j]))
                            <=> Policy!Overlaps(found[i], found[j])
      BY <1>2, <1>4, OverlapFacts
    <3>2. QED
      BY <2>1, <3>1 DEF Policy!Apart
  <2>2. i \in D /\ j \in D
    BY <1>2
  <2>3. Policy!Preferred(found, i, j) \/ Policy!Preferred(found, j, i)
    BY <2>1, <2>2, PreferredIsOrder DEF OrdersAll
  <2>4. Policy!Overlaps(found[i], found[j]) <=> Policy!Overlaps(found[j], found[i])
    BY <1>4, <2>2, OverlapFacts
  <2>5. QED
    BY <1>2, <2>1, <2>2, <2>3, <2>4
<1>7. Policy!StrictEnough(found, all)
  <2>1. SUFFICES ASSUME NEW i \in D, i \notin A,
                        \A p \in A : ~ Policy!Overlaps(found[i], found[p])
                 PROVE  \E e \in all : /\ Policy!Overlaps(e, found[i])
                                       /\ e.policy >= Policy!SafetyRank(found[i])
    BY DEF Policy!StrictEnough, A
  <2>2. ASSUME NEW j \in C, Policy!Overlaps(found[j], found[i]),
               Policy!SafetyRank(found[j]) >= Policy!SafetyRank(found[i])
        PROVE  \E e \in all : /\ Policy!Overlaps(e, found[i])
                              /\ e.policy >= Policy!SafetyRank(found[i])
    <3>1. j \in D /\ found[j] \in Finding
      BY <1>2, <1>4
    <3>2. Policy!Clamp(found[j]).policy = Policy!SafetyRank(found[j])
      BY <3>1, FindingFacts
    <3>3. Policy!Clamp(found[j]) \in all
      OBVIOUS
    <3>4. QED
      BY <1>5, <2>1, <2>2, <3>1, <3>2, <3>3
  <2>3. found[i] \in Finding /\ Policy!SafetyRank(found[i]) \in Int
    <3>1. found[i] \in Finding
      BY <1>4, <2>1
    <3>2. QED
      BY <3>1, FindingFacts
  <2>4. CASE i \in C
    <3>1. Policy!Overlaps(found[i], found[i])
      BY <2>3, OverlapFacts
    <3>2. Policy!SafetyRank(found[i]) >= Policy!SafetyRank(found[i])
      BY <2>3
    <3>3. QED
      BY <2>2, <2>4, <3>1, <3>2
  <2>5. CASE i \notin C
    <3>1. PICK j \in D \ {i} :
             Policy!Preferred(found, j, i) /\ Policy!Overlaps(found[i], found[j]) /\ j \in C
      BY <1>2, <2>1, <2>5
    <3>2. found[j] \in Finding /\ Policy!SafetyRank(found[j]) \in Int
      BY <1>4, FindingFacts
    <3>3. Policy!Overlaps(found[j], found[i])
      BY <2>3, <3>1, <3>2, OverlapFacts
    <3>4. \/ Policy!SafetyRank(found[j]) > Policy!SafetyRank(found[i])
          \/ Policy!SafetyRank(found[j]) = Policy!SafetyRank(found[i])
      BY <3>1, PreferredFacts, Zenon
    <3>5. Policy!SafetyRank(found[j]) >= Policy!SafetyRank(found[i])
      <4> DEFINE a == Policy!SafetyRank(found[j])
                 b == Policy!SafetyRank(found[i])
      <4>1. a \in Int /\ b \in Int /\ (a > b \/ a = b)
        BY <2>3, <3>2, <3>4
      <4> HIDE DEF a, b
      <4>2. a >= b
        BY <4>1
      <4>3. QED
        BY <4>2 DEF a, b
    <3>6. QED
      BY <2>2, <3>1, <3>3, <3>5
  <2>6. QED
    BY <2>4, <2>5
<1>8. Policy!AliasesSpared(found, all)
  <2>1. ASSUME NEW p \in A, NEW i \in C
        PROVE  ~ Policy!Overlaps(Policy!Clamp(found[i]), found[p])
    BY <1>2, <1>3, <1>5
  <2>2. QED
    BY <2>1 DEF Policy!AliasesSpared, A
<1>9. all = {Policy!Clamp(found[i]) : i \in Policy!ResolveCluster(found, DOMAIN found)}
  BY DEF C
<1>10. QED
  BY <1>1, <1>6, <1>7, <1>8, <1>9 DEF Policy!ResolutionSound

\* The inputs of the runs are findings.
LEMMA FindingsAreFindings == Findings \subseteq Finding
<1>1. SUFFICES ASSUME NEW k \in Strengths, NEW s \in Spans(MaxSpan)
               PROVE  [type |-> k.type, policy |-> k.policy, priority |-> k.priority,
                       start |-> s.start, end |-> s.end, score |-> 1] \in Finding
  BY DEF Findings
<1>2. /\ k.type \in DOMAIN Policy!Floor /\ k.policy \in 0..3 /\ k.priority \in Int
  BY DEF Strengths, Policy!Floor
<1>3. s.start \in Int /\ s.end \in Int /\ s.start < s.end
  BY BoundsAssumption DEF Spans
<1>4. QED
  BY <1>2, <1>3 DEF Finding

PolicyInv ==
    part = "policy" =>
        /\ input \in Seq(Finding)
        /\ output # None => output = Policy!Resolve(input)

\* The resolution that the gateway acts upon is sound.
THEOREM ResolutionIsSound == TextSpec => []ResolutionSound
<1>1. TextInit => PolicyInv
  <2>1. SUFFICES ASSUME TextInit, part = "policy" PROVE input \in Seq(Finding)
    BY DEF TextInit, PolicyInv
  <2>2. PICK n \in 0..MaxFindings : input \in [1..n -> Findings]
    BY <2>1 DEF TextInit, InitInput
  <2>3. n \in Nat
    BY BoundsAssumption
  <2>4. input \in [1..n -> Finding]
    BY <2>2, FindingsAreFindings
  <2>5. QED
    BY <2>3, <2>4
<1>2. PolicyInv /\ [TextNext]_textVars => PolicyInv'
  <2>1. [TextNext]_textVars =>
           ResolvePolicy \/ part' # "policy" \/ UNCHANGED <<part, input, output>>
    BY DEF TextNext, textVars, algorithmVars, AnswerAndRepeat, CutSegments, CutWindows, FindTerm,
           Computes
  <2>2. ResolvePolicy => part' = part /\ input' = input /\ output' = Policy!Resolve(input)
    BY DEF ResolvePolicy, Computes
  <2>3. QED
    BY <2>1, <2>2 DEF PolicyInv
<1>3. PolicyInv => ResolutionSound
  BY ResolveIsSound DEF PolicyInv, ResolutionSound, Computed
<1>4. QED
  BY <1>1, <1>2, <1>3, PTL DEF TextSpec

-----------------------------------------------------------------------------
(* NerWindows: every window can be read, and none is missing.              *)

\* What is divisible is a multiple.
LEMMA Quotient ==
    ASSUME NEW s \in Nat, s >= 1, NEW a \in Nat, a % s = 0
    PROVE  \E q \in Int : a = s * q
<1>1. a = s * (a \div s) + (a % s)
  OBVIOUS
<1>2. QED
  BY <1>1

\* The next multiple behind one
LEMMA NextMultiple ==
    ASSUME NEW s \in Nat, s >= 1, NEW b \in Nat, b % s = 0
    PROVE  (b + s) % s = 0
<1>1. PICK q \in Int : b = s * q
  BY Quotient
<1>2. b + s = s * (q + 1)
  BY <1>1
<1>3. (s * (q + 1)) % s = 0
  OBVIOUS
<1>4. QED
  BY <1>2, <1>3

\* There is none between.
LEMMA NoneBetween ==
    ASSUME NEW s \in Nat, s >= 1, NEW a \in Nat, NEW b \in Nat, a % s = 0, b % s = 0, a < b + s
    PROVE  a <= b
<1>1. PICK p \in Int : a = s * p
  BY Quotient
<1>2. PICK q \in Int : b = s * q
  BY Quotient
<1>3. s * p < s * (q + 1)
  BY <1>1, <1>2
<1>4. p < q + 1
  BY <1>3
<1>5. p <= q
  BY <1>4
<1>6. s * p <= s * q
  BY <1>5
<1>7. QED
  BY <1>1, <1>2, <1>6

\* A token or character, as a span
Unit == [start : Nat, end : Nat]

\* Tokens or characters of a text, in order
Ordered(units, length) ==
    /\ units \in Seq(Unit) /\ units # <<>> /\ length \in Nat
    /\ \A i \in DOMAIN units :
          /\ units[i].start <= units[i].end /\ units[i].end <= length
          /\ \A j \in DOMAIN units : i < j => units[i].end <= units[j].start

\* What Ordered says, index by index
LEMMA UnitFacts ==
    ASSUME NEW units, NEW length, Ordered(units, length)
    PROVE  /\ Len(units) \in Nat /\ Len(units) >= 1 /\ DOMAIN units = 1..Len(units)
           /\ length \in Nat
           /\ \A i \in 1..Len(units) :
                /\ units[i].start \in Nat /\ units[i].end \in Nat
                /\ units[i].start <= units[i].end /\ units[i].end <= length
           /\ \A i, j \in 1..Len(units) : i < j => units[i].end <= units[j].start
<1>1. units \in Seq(Unit) /\ units # <<>>
  BY DEF Ordered
<1>2. Len(units) \in Nat /\ DOMAIN units = 1..Len(units)
  BY <1>1, LenProperties
<1>3. Len(units) # 0
  BY <1>1, EmptySeq
<1>4. \A i \in 1..Len(units) : units[i] \in Unit
  BY <1>1, <1>2
<1>5. \A i \in 1..Len(units) : units[i].start \in Nat /\ units[i].end \in Nat
  BY <1>4 DEF Unit
<1>6. Len(units) >= 1
  BY <1>2, <1>3
<1>7. /\ length \in Nat
      /\ \A i \in DOMAIN units :
            /\ units[i].start <= units[i].end /\ units[i].end <= length
            /\ \A j \in DOMAIN units : i < j => units[i].end <= units[j].start
  BY DEF Ordered
<1>8. QED
  BY <1>2, <1>5, <1>6, <1>7

\* A step is at least one unit, and leaves the overlap where a window has room for it.
LEMMA StepFacts ==
    ASSUME NEW size \in Nat, size >= 1, NEW overlap \in Nat
    PROVE  LET s == Ner!Step(size, overlap) IN
           /\ s \in Nat /\ s >= 1
           /\ s + overlap <= size \/ (s = 1 /\ overlap >= size)
BY DEF Ner!Step

\* Where a run of units begins, there is a window that begins no later and ends no earlier.
LEMMA BeginBefore ==
    ASSUME NEW total \in Nat, NEW size \in Nat, size >= 1, NEW overlap \in Nat,
           NEW i \in 1..total, NEW j \in i..total, j - i <= overlap, j - i < size
    PROVE  \E b \in Ner!Begins(total, size, overlap) : b < i /\ j <= Ner!AtMost(b + size, total)
<1> DEFINE s == Ner!Step(size, overlap)
           B == {b \in Ner!Begins(total, size, overlap) : b < i}
<1>1. s \in Nat /\ s >= 1 /\ (s + overlap <= size \/ (s = 1 /\ overlap >= size))
  BY StepFacts
<1>2. Ner!Begins(total, size, overlap) =
         {b \in 0..(total - 1) : /\ b % s = 0
                                 /\ \A a \in 0..(b - 1) : a % s = 0 => a + size < total}
  BY DEF Ner!Begins
<1> HIDE DEF s
<1>3. 0 % s = 0
  BY <1>1
<1>4. 0 \in B
  BY <1>2, <1>3
<1>5. PICK b \in B : \A a \in B : b >= a
  <2>1. B \in SUBSET Nat
    BY <1>2
  <2>2. IsFiniteSet(B)
    <3>1. B \subseteq 0..(total - 1) /\ total - 1 \in Int /\ 0 \in Int
      BY <1>2
    <3>2. QED
      BY <3>1, FS_Interval, FS_Subset
  <2>3. QED
    BY <1>4, <2>1, <2>2, GreatestOfFinite
<1>6. /\ b \in Ner!Begins(total, size, overlap) /\ b \in 0..(total - 1) /\ b % s = 0 /\ b < i
      /\ \A a \in 0..(b - 1) : a % s = 0 => a + size < total
  BY <1>2
<1>7. b + size >= total \/ j <= b + size
  <2>1. CASE i <= b + s
    <3>1. j <= i + overlap /\ j < i + size
      OBVIOUS
    <3>2. QED
      BY <1>1, <1>6, <2>1, <3>1
  <2>2. CASE b + s < i
    <3>1. (b + s) % s = 0
      <4>1. b \in Nat /\ b % s = 0
        BY <1>6
      <4>2. QED
        BY <1>1, <4>1, NextMultiple, Zenon
    <3>2. b + s \in 0..(total - 1)
      BY <1>1, <1>6, <2>2
    <3>3. PICK a \in 0..((b + s) - 1) : a % s = 0 /\ a + size >= total
      <4>1. b + s \notin B
        BY <1>1, <1>5, <1>6
      <4>2. b + s \notin Ner!Begins(total, size, overlap)
        BY <2>2, <4>1
      <4>3. PICK a \in 0..((b + s) - 1) : a % s = 0 /\ ~ (a + size < total)
        BY <1>2, <3>1, <3>2, <4>2
      <4>4. a + size >= total
        BY <1>1, <1>6, <4>3
      <4>5. QED
        BY <4>3, <4>4
    <3>4. a \in Nat /\ a < b + s /\ b \in Nat
      BY <1>1, <1>6, <3>3
    <3>5. a <= b
      BY <1>1, <1>6, <3>3, <3>4, NoneBetween
    <3>6. QED
      BY <1>6, <3>3, <3>4, <3>5
  <2>3. QED
    BY <1>1, <1>6, <2>1, <2>2
<1>8. QED
  BY <1>6, <1>7 DEF Ner!AtMost

\* Of the units of a window there are no more than its size.
LEMMA FewUnits ==
    ASSUME NEW a \in Nat, NEW c \in Nat, NEW size \in Nat, c <= a + size,
           NEW S \in SUBSET (a + 1)..c
    PROVE  Cardinality(S) <= size
<1>1. IsFiniteSet((a + 1)..c) /\ Cardinality((a + 1)..c) <= size
  <2>1. a + 1 \in Int /\ c \in Int
    OBVIOUS
  <2>2. /\ IsFiniteSet((a + 1)..c)
        /\ Cardinality((a + 1)..c) = IF a + 1 > c THEN 0 ELSE c - (a + 1) + 1
    BY <2>1, FS_Interval
  <2>3. QED
    BY <2>2
<1>2. Cardinality(S) <= Cardinality((a + 1)..c)
  BY <1>1, FS_Subset
<1>3. Cardinality(S) \in Nat /\ Cardinality((a + 1)..c) \in Nat
  BY <1>1, FS_Subset, FS_CardinalityType
<1>4. QED
  BY <1>1, <1>2, <1>3

\* A window over the units a + 1 .. c shows no unit with characters besides those.
LEMMA WindowShows ==
    ASSUME NEW units, NEW length, Ordered(units, length), NEW a \in Nat, NEW c \in Nat,
           a < c, c <= Len(units), NEW k \in 1..Len(units),
           units[a + 1].start <= units[k].start, units[k].end <= units[c].end,
           units[k].start < units[k].end
    PROVE  k \in (a + 1)..c
<1>1. /\ Len(units) \in Nat /\ a + 1 \in 1..Len(units) /\ c \in 1..Len(units)
      /\ \A i \in 1..Len(units) : units[i].start \in Nat /\ units[i].end \in Nat
      /\ \A i, j \in 1..Len(units) : i < j => units[i].end <= units[j].start
  <2>1. /\ Len(units) \in Nat
        /\ \A i \in 1..Len(units) : units[i].start \in Nat /\ units[i].end \in Nat
        /\ \A i, j \in 1..Len(units) : i < j => units[i].end <= units[j].start
    BY UnitFacts
  <2>2. a + 1 \in 1..Len(units) /\ c \in 1..Len(units)
    <3> DEFINE total == Len(units)
    <3>1. total \in Nat /\ a < c /\ c <= total
      BY <2>1
    <3>2. a + 1 \in 1..total /\ c \in 1..total
      <4> HIDE DEF total
      <4>1. QED
        BY <3>1
    <3>3. QED
      BY <3>2
  <2>3. QED
    BY <2>1, <2>2
<1>2. k >= a + 1
  <2>1. SUFFICES ASSUME k < a + 1 PROVE FALSE
    BY <1>1
  <2>2. units[k].end <= units[a + 1].start
    BY <1>1, <2>1
  <2>3. QED
    BY <1>1, <2>2
<1>3. k <= c
  <2>1. SUFFICES ASSUME c < k PROVE FALSE
    BY <1>1
  <2>2. units[c].end <= units[k].start
    BY <1>1, <2>1
  <2>3. QED
    BY <1>1, <2>2
<1>4. QED
  BY <1>1, <1>2, <1>3

\* The windows of a text that has more units than one window
LEMMA SliceFacts ==
    ASSUME NEW units, NEW length, Ordered(units, length), NEW size \in Nat, size >= 1,
           NEW overlap \in Nat, Len(units) > size, NEW w \in Ner!Slice(length, units, size, overlap)
    PROVE  \E b \in Ner!Begins(Len(units), size, overlap) :
              LET c == Ner!AtMost(b + size, Len(units)) IN
              /\ b \in Nat /\ c \in Nat /\ b < c /\ c <= Len(units) /\ c <= b + size
              /\ w = [start |-> units[b + 1].start, end |-> units[c].end]
<1>1. Len(units) \in Nat
  BY UnitFacts
<1>2. PICK b \in Ner!Begins(Len(units), size, overlap) :
         w = [start |-> units[b + 1].start, end |-> units[Ner!AtMost(b + size, Len(units))].end]
  BY <1>1 DEF Ner!Slice
<1>3. b \in 0..(Len(units) - 1)
  BY DEF Ner!Begins
<1> DEFINE c == Ner!AtMost(b + size, Len(units))
<1>4. b \in Nat /\ c \in Nat /\ b < c /\ c <= Len(units) /\ c <= b + size
  BY <1>1, <1>3 DEF Ner!AtMost
<1>5. w = [start |-> units[b + 1].start, end |-> units[c].end]
  BY <1>2
<1> HIDE DEF c
<1>6. /\ b \in Nat /\ c \in Nat /\ b < c /\ c <= Len(units) /\ c <= b + size
      /\ w = [start |-> units[b + 1].start, end |-> units[c].end]
  BY <1>4, <1>5
<1>7. QED
  BY <1>6 DEF c

\* The FiniteSets of NerWindows are these.
LEMMA SameCount ==
    ASSUME NEW S
    PROVE  Ner!Cardinality(S) = Cardinality(S)
BY DEF Ner!Cardinality, Cardinality

\* The model can read every window.
LEMMA SliceIsReadable ==
    ASSUME NEW units, NEW length, Ordered(units, length), NEW size \in Nat, size >= 1,
           NEW overlap \in Nat
    PROVE  Ner!Readable(Ner!Slice(length, units, size, overlap), units, size)
<1> DEFINE total == Len(units)
           all(w) == {i \in DOMAIN units :
                         w.start <= units[i].start /\ units[i].end <= w.end
                            /\ units[i].start < units[i].end}
<1>1. total \in Nat /\ DOMAIN units = 1..total
  BY UnitFacts
<1>2. SUFFICES ASSUME NEW w \in Ner!Slice(length, units, size, overlap)
               PROVE  Cardinality(all(w)) <= size
  BY SameCount DEF Ner!Readable
<1>3. CASE total <= size
  <2>1. all(w) \in SUBSET (0 + 1)..total
    BY <1>1
  <2> HIDE DEF all
  <2>2. 0 \in Nat /\ total \in Nat /\ total <= 0 + size
    BY <1>1, <1>3
  <2>3. QED
    BY <2>1, <2>2, FewUnits, Zenon
<1>4. CASE total > size
  <2>1. PICK b \in Ner!Begins(Len(units), size, overlap) :
              LET c == Ner!AtMost(b + size, Len(units)) IN
              /\ b \in Nat /\ c \in Nat /\ b < c /\ c <= Len(units) /\ c <= b + size
              /\ w = [start |-> units[b + 1].start, end |-> units[c].end]
    BY <1>4, SliceFacts
  <2> DEFINE c == Ner!AtMost(b + size, Len(units))
  <2>2. b \in Nat /\ c \in Nat /\ b < c /\ c <= Len(units) /\ c <= b + size
    BY <2>1
  <2>3. w.start = units[b + 1].start /\ w.end = units[c].end
    BY <2>1
  <2> HIDE DEF c
  <2>4. ASSUME NEW k \in all(w)
        PROVE  k \in (b + 1)..c
    <3>1. /\ k \in 1..Len(units)
          /\ units[b + 1].start <= units[k].start /\ units[k].end <= units[c].end
          /\ units[k].start < units[k].end
      BY <1>1, <2>3
    <3>2. QED
      BY <2>2, <3>1, WindowShows
  <2>5. all(w) \in SUBSET (b + 1)..c
    BY <2>4
  <2> HIDE DEF all
  <2>6. QED
    BY <2>2, <2>5, FewUnits
<1>5. QED
  BY <1>1, <1>3, <1>4

\* What the overlap has room for is whole in a window.
LEMMA WholeSomewhere ==
    ASSUME NEW units, NEW length, Ordered(units, length), NEW size \in Nat, size >= 1,
           NEW overlap \in Nat
    PROVE  Ner!WholeInAWindow(Ner!Slice(length, units, size, overlap), units, size, overlap)
<1> DEFINE total == Len(units)
           all == Ner!Slice(length, units, size, overlap)
<1>1. /\ total \in Nat /\ total >= 1 /\ DOMAIN units = 1..total /\ length \in Nat
      /\ \A i \in 1..total : /\ units[i].start \in Nat /\ units[i].end \in Nat
                             /\ units[i].start <= units[i].end /\ units[i].end <= length
      /\ \A i, j \in 1..total : i < j => units[i].end <= units[j].start
  BY UnitFacts
<1>2. SUFFICES ASSUME NEW i \in 1..total, NEW j \in 1..total, i <= j, j - i <= overlap, j - i < size
               PROVE  \E w \in all : w.start <= units[i].start /\ units[j].end <= w.end
  BY <1>1 DEF Ner!WholeInAWindow
<1>3. CASE total <= size
  <2>1. all = {[start |-> 0, end |-> length]}
    BY <1>3 DEF Ner!Slice
  <2>2. 0 <= units[i].start /\ units[j].end <= length
    BY <1>1
  <2>3. QED
    BY <2>1, <2>2
<1>4. CASE total > size
  <2>1. PICK b \in Ner!Begins(total, size, overlap) : b < i /\ j <= Ner!AtMost(b + size, total)
    BY <1>1, <1>2, BeginBefore
  <2> DEFINE c == Ner!AtMost(b + size, total)
             w == [start |-> units[b + 1].start, end |-> units[c].end]
  <2>2. w \in all
    BY <1>1, <1>4 DEF Ner!Slice
  <2>3. b \in 0..(total - 1)
    BY DEF Ner!Begins
  <2>4. c \in 1..total /\ b + 1 \in 1..total
    BY <1>1, <1>4, <2>3 DEF Ner!AtMost
  <2>5. j <= c /\ b + 1 <= i
    BY <1>1, <2>1, <2>3
  <2> HIDE DEF c
  <2>6. units[b + 1].start <= units[i].start
    <3>1. b + 1 = i \/ b + 1 < i
      BY <2>3, <2>5
    <3>2. QED
      BY <1>1, <2>4, <3>1
  <2>7. units[j].end <= units[c].end
    <3>1. j = c \/ j < c
      BY <2>4, <2>5
    <3>2. QED
      BY <1>1, <2>4, <3>1
  <2>8. w.start = units[b + 1].start /\ w.end = units[c].end
    OBVIOUS
  <2> HIDE DEF w
  <2>9. QED
    BY <2>2, <2>6, <2>7, <2>8
<1>5. QED
  BY <1>1, <1>3, <1>4

\* What is reported of an entity with a score
Reported(entity, s) ==
    [start |-> entity.start, end |-> entity.end, label |-> entity.label, score |-> s]

\* What windows show of an entity is reported once, with the best of its scores.
LEMMA OnceReported ==
    ASSUME NEW all, \A w \in all : w.start \in Int,
           NEW first \in Int, NEW last \in Int, NEW label, NEW scores, NEW context \in BOOLEAN
    PROVE  Ner!ReportedOnce(all, [start |-> first, end |-> last, label |-> label], scores, context)
<1> DEFINE entity == [start |-> first, end |-> last, label |-> label]
           tag(s) == Reported(entity, s)
           shown == {w \in all : w.start <= entity.start /\ entity.end <= w.end}
           of(w) == {[f EXCEPT !.start = @ + w.start, !.end = @ + w.start] :
                        f \in Ner!Found(w, entity, scores[w])}
           shifted == UNION {of(w) : w \in all}
           weighed(e) == IF e.label = "person" /\ ~ context THEN (e.score * 4) \div 5 ELSE e.score
           best == {scores[w] : w \in {v \in shown : \A u \in shown : scores[u] <= scores[v]}}
           sure == {s \in best : s >= MinScore
                       /\ (entity.label = "person" /\ ~ context => (s * 4) \div 5 >= MinScore)}
<1>1. /\ entity.start = first /\ entity.end = last /\ entity.label = label
      /\ \A s : /\ tag(s).start = first /\ tag(s).end = last /\ tag(s).label = label
                /\ tag(s).score = s
  BY DEF Reported
<1>2. SUFFICES Ner!Report(all, entity, scores, context) = {tag(s) : s \in sure}
  BY DEF Ner!ReportedOnce, Reported
<1>3. Ner!Report(all, entity, scores, context)
         = {e \in Ner!Dedupe(shifted) : e.score >= MinScore /\ weighed(e) >= MinScore}
  BY DEF Ner!Report
<1>4. ASSUME NEW w \in all
      PROVE  of(w) = IF w \in shown THEN {tag(scores[w])} ELSE {}
  <2> DEFINE seen1 == [start |-> first - w.start, end |-> last - w.start, label |-> label,
                       score |-> scores[w]]
  <2>1. Ner!Found(w, entity, scores[w]) = IF w \in shown THEN {seen1} ELSE {}
    BY DEF Ner!Found
  <2>2. [seen1 EXCEPT !.start = @ + w.start, !.end = @ + w.start] = tag(scores[w])
    <3>1. (first - w.start) + w.start = first /\ (last - w.start) + w.start = last
      OBVIOUS
    <3>2. seen1.start + w.start = first /\ seen1.end + w.start = last
      BY <3>1
    <3>3. [seen1 EXCEPT !.start = first, !.end = last] = tag(scores[w])
      <4>1. [seen1 EXCEPT !.start = first, !.end = last]
              = [start |-> first, end |-> last, label |-> label, score |-> scores[w]]
        <5> DEFINE a == first - w.start
                   b == last - w.start
                   moved == [start |-> first, end |-> b, label |-> label, score |-> scores[w]]
        <5>1. seen1 = [start |-> a, end |-> b, label |-> label, score |-> scores[w]]
          OBVIOUS
        <5> HIDE DEF seen1, a, b, tag
        <5>2. [seen1 EXCEPT !.start = first] = moved
          BY <5>1
        <5>3. [moved EXCEPT !.end = last]
                = [start |-> first, end |-> last, label |-> label, score |-> scores[w]]
          OBVIOUS
        <5>4. [seen1 EXCEPT !.start = first, !.end = last]
                = [[seen1 EXCEPT !.start = first] EXCEPT !.end = last]
          OBVIOUS
        <5> HIDE DEF moved
        <5>5. QED
          BY <5>2, <5>3, <5>4
      <4>2. tag(scores[w])
              = [start |-> first, end |-> last, label |-> label, score |-> scores[w]]
        BY <1>1 DEF Reported
      <4>3. QED
        BY <4>1, <4>2
    <3> HIDE DEF seen1, tag
    <3>4. QED
      BY <3>2, <3>3, Zenon
  <2> HIDE DEF seen1, shown, tag
  <2>3. QED
    BY <2>1, <2>2, ZenonT(40)
<1>5. shifted = {tag(scores[w]) : w \in shown}
  <2> HIDE DEF tag, of, shown
  <2>1. shown \subseteq all
    BY DEF shown
  <2>2. QED
    BY <1>4, <2>1
<1> HIDE DEF shifted, tag
<1>6. \A s : tag(s) \in Ner!Dedupe(shifted) <=> s \in best
  <2>1. \A s : tag(s) \in shifted <=> \E w \in shown : s = scores[w]
    BY <1>1, <1>5
  <2>2. \A s : tag(s) \in Ner!Dedupe(shifted) <=>
            tag(s) \in shifted /\ \A w \in shown : scores[w] <= s
    BY <1>1, <1>5 DEF Ner!Dedupe
  <2>3. QED
    BY <2>1, <2>2
<1>7. \A e \in Ner!Dedupe(shifted) : \E s : e = tag(s)
  BY <1>5 DEF Ner!Dedupe
<1>8. \A s : tag(s).score >= MinScore /\ weighed(tag(s)) >= MinScore <=>
               s >= MinScore /\ (label = "person" /\ ~ context => (s * 4) \div 5 >= MinScore)
  BY <1>1
<1> HIDE DEF weighed, best
<1>9. QED
  BY <1>1, <1>3, <1>6, <1>7, <1>8

\* However many tokens a text has, and whatever the sizes of window and overlap: the model can
\* read every window, what the overlap has room for is whole in one, and what windows show
\* is reported once.
THEOREM WindowsAreSound ==
    ASSUME NEW units, NEW length, Ordered(units, length), NEW size \in Nat, size >= 1,
           NEW overlap \in Nat
    PROVE  Ner!WindowsSound(Ner!Slice(length, units, size, overlap), units, size, overlap)
<1> DEFINE all == Ner!Slice(length, units, size, overlap)
<1>1. /\ Len(units) \in Nat /\ Len(units) >= 1 /\ DOMAIN units = 1..Len(units)
      /\ \A i \in DOMAIN units : units[i].start \in Nat /\ units[i].end \in Nat
  BY UnitFacts
<1>2. ASSUME NEW w \in all
      PROVE  w.start \in Int
  <2>1. CASE Len(units) <= size
    BY <2>1 DEF Ner!Slice
  <2>2. CASE Len(units) > size
    <3>1. PICK b \in Ner!Begins(Len(units), size, overlap) :
              LET c == Ner!AtMost(b + size, Len(units)) IN
              /\ b \in Nat /\ c \in Nat /\ b < c /\ c <= Len(units) /\ c <= b + size
              /\ w = [start |-> units[b + 1].start, end |-> units[c].end]
      BY <2>2, SliceFacts
    <3>2. b + 1 \in 1..Len(units) /\ w.start = units[b + 1].start
      BY <1>1, <3>1
    <3>3. QED
      BY <1>1, <3>2
  <2>3. QED
    BY <1>1, <2>1, <2>2
<1>3. Ner!Readable(all, units, size)
  BY SliceIsReadable
<1>4. Ner!WholeInAWindow(all, units, size, overlap)
  BY WholeSomewhere
<1> HIDE DEF all
<1>5. ASSUME NEW i \in DOMAIN units, NEW j \in DOMAIN units, NEW sure \in all,
             NEW label \in {"person", "org"}, NEW context \in BOOLEAN
      PROVE  Ner!ReportedOnce(all,
                [start |-> units[i].start, end |-> units[j].end, label |-> label],
                [w \in all |-> IF w = sure THEN MinScore + 1 ELSE MinScore], context)
  <2>1. units[i].start \in Int /\ units[j].end \in Int
    BY <1>1
  <2>2. QED
    BY <1>2, <2>1, OnceReported
<1>6. QED
  BY <1>3, <1>4, <1>5, Zenon DEF Ner!WindowsSound, all

\* Where unit i ends, given where the one before it does
EndsAt(widths, gaps, f, i) == IF i = 0 THEN 0 ELSE f[i - 1] + gaps[i] + widths[i]

\* There is the recursive function of where units end.
LEMMA EndsExist ==
    ASSUME NEW n \in Nat, NEW widths, NEW gaps
    PROVE  \E f : f = [i \in 0..n |-> EndsAt(widths, gaps, f, i)]
<1> DEFINE P == {m \in Nat : \E f : f = [i \in 0..m |-> EndsAt(widths, gaps, f, i)]}
<1>1. 0 \in P
  <2> DEFINE f == [i \in 0..0 |-> 0]
  <2>1. f = [i \in 0..0 |-> EndsAt(widths, gaps, f, i)]
    BY DEF EndsAt
  <2> HIDE DEF f
  <2>2. QED
    BY <2>1
<1>2. ASSUME NEW m \in P
      PROVE  m + 1 \in P
  <2>1. PICK f : f = [i \in 0..m |-> EndsAt(widths, gaps, f, i)]
    OBVIOUS
  <2> DEFINE g == [i \in 0..(m + 1) |-> IF i = m + 1 THEN EndsAt(widths, gaps, f, i) ELSE f[i]]
  <2>2. \A i \in 0..m : g[i] = f[i] /\ f[i] = EndsAt(widths, gaps, f, i)
    <3>1. \A i \in 0..m : i \in 0..(m + 1) /\ i # m + 1
      OBVIOUS
    <3>2. \A i \in 0..m : f[i] = EndsAt(widths, gaps, f, i)
      BY <2>1
    <3>3. QED
      BY <3>1, <3>2
  <2>3. g[m + 1] = EndsAt(widths, gaps, f, m + 1) /\ g = [i \in 0..(m + 1) |-> g[i]]
    OBVIOUS
  <2> HIDE DEF g
  <2>4. ASSUME NEW i \in 0..(m + 1)
        PROVE  EndsAt(widths, gaps, g, i) = EndsAt(widths, gaps, f, i)
    <3>1. CASE i = 0
      BY <3>1 DEF EndsAt
    <3>2. CASE i # 0
      <4>1. i - 1 \in 0..m
        BY <3>2
      <4>2. QED
        BY <2>2, <4>1 DEF EndsAt
    <3>3. QED
      BY <3>1, <3>2
  <2>5. ASSUME NEW i \in 0..(m + 1)
        PROVE  g[i] = EndsAt(widths, gaps, g, i)
    <3>1. i = m + 1 \/ i \in 0..m
      OBVIOUS
    <3>2. QED
      BY <2>2, <2>3, <2>4, <3>1
  <2>6. g = [i \in 0..(m + 1) |-> EndsAt(widths, gaps, g, i)]
    BY <2>3, <2>5
  <2>7. QED
    BY <2>6
<1>3. P = Nat
  <2>1. P \in SUBSET Nat
    OBVIOUS
  <2> HIDE DEF P
  <2>2. QED
    BY <1>1, <1>2, <2>1, NatFrom0
<1>4. QED
  BY <1>3

\* The tokens of the runs are in order.
LEMMA UnitsInOrder ==
    ASSUME NEW n \in Nat, n >= 1, NEW widths \in [1..n -> 0..1], NEW gaps \in [1..n -> 0..1]
    PROVE  LET units == Units(widths, gaps) IN Ordered(units, units[Len(units)].end)
<1> DEFINE at == CHOOSE f : f = [i \in 0..n |-> EndsAt(widths, gaps, f, i)]
           units == [i \in 1..n |-> [start |-> at[i] - widths[i], end |-> at[i]]]
<1>1. at = [i \in 0..n |-> EndsAt(widths, gaps, at, i)]
  BY EndsExist
<1>2. Len(widths) = n /\ DOMAIN widths = 1..n
  <2>1. widths \in Seq(0..1)
    OBVIOUS
  <2>2. QED
    BY <2>1, LenProperties
<1>3. Units(widths, gaps) = units
  BY <1>2 DEF Units, EndsAt
<1> HIDE DEF at
<1>4. \A i \in 0..n : at[i] = EndsAt(widths, gaps, at, i)
  BY <1>1
<1>5. at[0] = 0 /\ \A i \in 1..n : at[i] = at[i - 1] + gaps[i] + widths[i]
  BY <1>4 DEF EndsAt
<1>6. \A i \in 1..n : gaps[i] \in Nat /\ widths[i] \in Nat
  OBVIOUS
<1> DEFINE P == {m \in Nat :
                    m <= n => at[m] \in Nat /\ \A i \in 0..m : at[i] \in Nat /\ at[i] <= at[m]}
<1>7. 0 \in P
  BY <1>5
<1>8. ASSUME NEW m \in P
      PROVE  m + 1 \in P
  <2>1. SUFFICES ASSUME m + 1 <= n
                 PROVE  /\ at[m + 1] \in Nat
                        /\ \A i \in 0..(m + 1) : at[i] \in Nat /\ at[i] <= at[m + 1]
    OBVIOUS
  <2>2. m \in Nat /\ at[m] \in Nat /\ \A i \in 0..m : at[i] \in Nat /\ at[i] <= at[m]
    BY <2>1
  <2>3. m + 1 \in 1..n /\ (m + 1) - 1 = m
    BY <2>1, <2>2
  <2>4. at[m + 1] = at[m] + gaps[m + 1] + widths[m + 1]
    BY <1>5, <2>3
  <2>5. at[m + 1] \in Nat /\ at[m] <= at[m + 1]
    BY <1>6, <2>2, <2>3, <2>4
  <2>6. ASSUME NEW i \in 0..(m + 1)
        PROVE  at[i] \in Nat /\ at[i] <= at[m + 1]
    <3>1. i = m + 1 \/ i \in 0..m
      BY <2>2
    <3>2. QED
      BY <2>2, <2>5, <3>1
  <2>7. QED
    BY <2>5, <2>6
<1>9. P = Nat
  <2>1. P \in SUBSET Nat
    OBVIOUS
  <2> HIDE DEF P
  <2>2. QED
    BY <1>7, <1>8, <2>1, NatFrom0
<1>10. \A m \in 0..n : at[m] \in Nat /\ \A i \in 0..m : at[i] <= at[m]
  BY <1>9
<1> HIDE DEF P
<1>11. ASSUME NEW i \in 1..n
       PROVE  /\ units[i].start \in Nat /\ units[i].end \in Nat
              /\ units[i].start <= units[i].end /\ units[i].end <= at[n]
              /\ \A j \in 1..n : i < j => units[i].end <= units[j].start
  <2>1. \A j \in 1..n : /\ units[j].end = at[j] /\ units[j].start = at[j] - widths[j]
    OBVIOUS
  <2> HIDE DEF units
  <2>2. \A j \in 1..n : at[j] \in Nat /\ at[j - 1] \in Nat
    <3>1. \A j \in 1..n : j \in 0..n /\ j - 1 \in 0..n
      OBVIOUS
    <3>2. QED
      BY <1>10, <3>1
  <2>3. \A j \in 1..n : /\ at[j - 1] <= at[j] - widths[j] /\ at[j] - widths[j] <= at[j]
                        /\ at[j] - widths[j] \in Nat
    <3>1. TAKE j \in 1..n
    <3>2. at[j] \in Nat /\ at[j - 1] \in Nat /\ gaps[j] \in Nat /\ widths[j] \in Nat
      BY <1>6, <2>2
    <3>3. at[j] = at[j - 1] + gaps[j] + widths[j]
      BY <1>5
    <3> DEFINE here == at[j]
               before == at[j - 1]
               gap == gaps[j]
               width == widths[j]
    <3>4. /\ here \in Nat /\ before \in Nat /\ gap \in Nat /\ width \in Nat
          /\ here = before + gap + width
      BY <3>2, <3>3
    <3>5. before <= here - width /\ here - width <= here /\ here - width \in Nat
      <4> HIDE DEF here, before, gap, width
      <4>1. QED
        BY <3>4
    <3>6. QED
      BY <3>5
  <2>4. units[i].start \in Nat /\ units[i].end \in Nat /\ units[i].start <= units[i].end
    BY <2>1, <2>2, <2>3
  <2>5. units[i].end <= at[n]
    <3>1. at[i] <= at[n]
      BY <1>10
    <3>2. QED
      BY <2>1, <3>1
  <2>6. ASSUME NEW j \in 1..n, i < j
        PROVE  units[i].end <= units[j].start
    <3>1. j - 1 \in 0..n /\ i \in 0..(j - 1)
      BY <2>6
    <3>2. at[i] <= at[j - 1]
      BY <1>10, <3>1
    <3>3. at[j - 1] <= at[j] - widths[j] /\ at[j] - widths[j] \in Nat
      BY <2>3
    <3>4. at[i] \in Nat /\ at[j - 1] \in Nat
      BY <2>2
    <3>5. at[i] <= at[j] - widths[j]
      <4> DEFINE first == at[i]
                 before == at[j - 1]
                 begin == at[j] - widths[j]
      <4>1. /\ first \in Nat /\ before \in Nat /\ begin \in Nat
            /\ first <= before /\ before <= begin
        BY <3>2, <3>3, <3>4
      <4>2. first <= begin
        <5> HIDE DEF first, before, begin
        <5>1. QED
          BY <4>1
      <4>3. QED
        BY <4>2
    <3>6. QED
      BY <2>1, <3>5
  <2>7. QED
    BY <2>4, <2>5, <2>6
<1>12. units \in Seq(Unit) /\ Len(units) = n /\ DOMAIN units = 1..n
  <2>1. \A i \in 1..n : units[i] \in Unit
    BY <1>11 DEF Unit
  <2>2. DOMAIN units = 1..n /\ units = [i \in 1..n |-> units[i]]
    OBVIOUS
  <2> HIDE DEF units
  <2>3. units \in [1..n -> Unit]
    BY <2>1, <2>2
  <2>4. units \in Seq(Unit)
    BY <2>3
  <2>5. QED
    BY <2>2, <2>4, LenProperties
<1>13. units[n].end = at[n] /\ at[n] \in Nat
  BY <1>10
<1> HIDE DEF units
<1>14. units # <<>>
  BY <1>12
<1>15. Ordered(units, at[n])
  BY <1>11, <1>12, <1>13, <1>14 DEF Ordered
<1>16. QED
  BY <1>3, <1>12, <1>13, <1>15

\* What was cut is the text of the input.
WindowsInv ==
    part = "windows" =>
        /\ input.size \in Nat /\ input.size >= 1 /\ input.overlap \in Nat
        /\ Ordered(input.units, input.units[Len(input.units)].end)
        /\ output # None =>
              output = Ner!Slice(input.units[Len(input.units)].end, input.units,
                                 input.size, input.overlap)

\* The windows of the specification the run checks are sound, for every bound on their number.
THEOREM TextWindowsAreSound == TextSpec => []WindowsSound
<1>1. TextInit => WindowsInv
  <2>1. SUFFICES ASSUME TextInit, part = "windows"
                 PROVE  /\ input.size \in Nat /\ input.size >= 1 /\ input.overlap \in Nat
                        /\ Ordered(input.units, input.units[Len(input.units)].end)
    BY DEF TextInit, WindowsInv
  <2>2. PICK n \in 1..MaxUnits : \E widths, gaps \in [1..n -> 0..1] :
             input \in [units : {Units(widths, gaps)}, size : 1..3, overlap : 0..2]
    BY <2>1 DEF TextInit, InitInput
  <2>3. n \in Nat /\ n >= 1
    BY BoundsAssumption
  <2>4. PICK widths \in [1..n -> 0..1], gaps \in [1..n -> 0..1] :
             input \in [units : {Units(widths, gaps)}, size : 1..3, overlap : 0..2]
    BY <2>2
  <2>5. input.units = Units(widths, gaps) /\ input.size \in 1..3 /\ input.overlap \in 0..2
    BY <2>4
  <2>6. QED
    BY <2>3, <2>5, UnitsInOrder
<1>2. WindowsInv /\ [TextNext]_textVars => WindowsInv'
  <2>1. [TextNext]_textVars =>
           CutWindows \/ part' # "windows" \/ UNCHANGED <<part, input, output>>
    BY DEF TextNext, textVars, algorithmVars, AnswerAndRepeat, CutSegments, ResolvePolicy, FindTerm,
           Computes
  <2>2. CutWindows =>
           /\ part' = part /\ input' = input
           /\ output' = Ner!Slice(input.units[Len(input.units)].end, input.units,
                                  input.size, input.overlap)
    BY DEF CutWindows, Computes
  <2>3. QED
    BY <2>1, <2>2 DEF WindowsInv
<1>3. WindowsInv => WindowsSound
  BY WindowsAreSound DEF WindowsInv, WindowsSound, Computed
<1>4. QED
  BY <1>1, <1>2, <1>3, PTL DEF TextSpec

-----------------------------------------------------------------------------
(* StreamingRestorer: a text restored at once, and piece by piece.         *)

\* A vocabulary that a restorer can be made of.
Spelled(v) ==
    /\ IsFiniteSet(DOMAIN v)
    /\ \A a \in DOMAIN v : v[a] \in Seq(Chars) /\ v[a] # <<>>

\* A prefix, character by character.
LEMMA PrefixFacts ==
    ASSUME NEW s \in Seq(Chars), NEW u \in Seq(Chars)
    PROVE  IsPrefix(s, u) <=> Len(s) <= Len(u) /\ \A k \in 1..Len(s) : s[k] = u[k]
<1>1. Len(s) \in Nat /\ Len(u) \in Nat /\ SubSeq(s, 1, Len(s)) = s
  BY LenProperties, SubSeqFull
<1>2. ASSUME Len(s) <= Len(u)
      PROVE  /\ SubSeq(u, 1, Len(s)) \in Seq(Chars)
             /\ Len(SubSeq(u, 1, Len(s))) = Len(s)
             /\ \A k \in 1..Len(s) : SubSeq(u, 1, Len(s))[k] = u[k]
  <2>1. \A k \in 1..Len(s) : u[k] \in Chars
    BY <1>1, <1>2, ElementOfSeq
  <2>2. QED
    BY <1>1, <2>1, SubSeqProperties
<1>3. IsPrefix(s, u) <=> Len(s) <= Len(u) /\ s = SubSeq(u, 1, Len(s))
  BY <1>1 DEF IsPrefix
<1>4. CASE Len(s) <= Len(u)
  BY <1>1, <1>2, <1>3, <1>4, SeqEqual
<1>5. QED
  BY <1>3, <1>4

\* The end of a text from a place on.
LEMMA EndFacts ==
    ASSUME NEW t \in Seq(Chars), NEW i \in 1..(Len(t) + 1)
    PROVE  /\ SubSeq(t, i, Len(t)) \in Seq(Chars)
           /\ Len(SubSeq(t, i, Len(t))) = Len(t) - i + 1
           /\ \A k \in 1..(Len(t) - i + 1) : SubSeq(t, i, Len(t))[k] = t[i + k - 1]
<1>1. Len(t) \in Nat /\ \A k \in i..Len(t) : t[k] \in Chars
  BY LenProperties, ElementOfSeq
<1>2. QED
  BY <1>1, SubSeqProperties

\* An alias is at a place if it has the characters that stand there.
LEMMA MatchFacts ==
    ASSUME NEW v, Spelled(v), NEW t \in Seq(Chars), NEW i \in 1..Len(t), NEW a \in DOMAIN v
    PROVE  a \in MatchesAt(v, t, i) <=>
             /\ i + Len(v[a]) - 1 <= Len(t)
             /\ \A k \in 1..Len(v[a]) : v[a][k] = t[i + k - 1]
<1> DEFINE s == v[a]
           u == SubSeq(t, i, Len(t))
<1>1. s \in Seq(Chars) /\ Len(s) \in Nat /\ Len(t) \in Nat
  BY LenProperties DEF Spelled
<1>2. /\ u \in Seq(Chars) /\ Len(u) = Len(t) - i + 1
      /\ \A k \in 1..(Len(t) - i + 1) : u[k] = t[i + k - 1]
  BY EndFacts
<1>3. a \in MatchesAt(v, t, i) <=> IsPrefix(s, u)
  BY DEF MatchesAt
<1> HIDE DEF u, s
<1>4. IsPrefix(s, u) <=> Len(s) <= Len(u) /\ \A k \in 1..Len(s) : s[k] = u[k]
  BY <1>1, <1>2, PrefixFacts
<1>5. Len(s) <= Len(u) <=> i + Len(s) - 1 <= Len(t)
  BY <1>1, <1>2
<1>6. ASSUME Len(s) <= Len(u)
      PROVE  (\A k \in 1..Len(s) : s[k] = u[k]) <=> \A k \in 1..Len(s) : s[k] = t[i + k - 1]
  <2>1. \A k \in 1..Len(s) : k \in 1..(Len(t) - i + 1)
    BY <1>1, <1>2, <1>6
  <2>2. \A k \in 1..Len(s) : u[k] = t[i + k - 1]
    BY <1>2, <2>1
  <2>3. QED
    BY <2>2
<1>7. QED
  BY <1>3, <1>4, <1>5, <1>6 DEF s

\* Of the aliases at a place one is the longest.
LEMMA LongestFacts ==
    ASSUME NEW v, Spelled(v), NEW t \in Seq(Chars), NEW i \in 1..Len(t), MatchesAt(v, t, i) # {}
    PROVE  /\ LongestAt(v, t, i) \in MatchesAt(v, t, i)
           /\ LongestAt(v, t, i) \in DOMAIN v
           /\ Len(v[LongestAt(v, t, i)]) \in Nat \ {0}
           /\ i + Len(v[LongestAt(v, t, i)]) \in (i + 1)..(Len(t) + 1)
<1> DEFINE M == MatchesAt(v, t, i)
           L == {Len(v[a]) : a \in M}
<1>1. M \subseteq DOMAIN v
  BY DEF MatchesAt
<1>2. \A a \in DOMAIN v : Len(v[a]) \in Nat \ {0}
  BY EmptySeq DEF Spelled
<1>3. \A a \in M : i + Len(v[a]) \in (i + 1)..(Len(t) + 1)
  <2>1. TAKE a \in M
  <2>2. i + Len(v[a]) - 1 <= Len(t)
    BY <1>1, MatchFacts
  <2>3. QED
    BY <1>1, <1>2, <2>2, LenProperties
<1>4. \A n \in L : n <= Len(t) + 1
  BY <1>1, <1>2, <1>3, LenProperties
<1>5. L \in SUBSET Nat /\ L # {}
  BY <1>1, <1>2
<1>6. IsFiniteSet(L)
  <2> DEFINE n == Len(t) + 1
  <2>1. n \in Nat /\ \A k \in L : k <= n
    BY <1>4, LenProperties
  <2> HIDE DEF L, n
  <2>2. QED
    BY <1>5, <2>1, FS_BoundedSetOfNaturals
<1>7. PICK m \in L : \A n \in L : m >= n
  <2> HIDE DEF L
  <2>1. QED
    BY <1>5, <1>6, GreatestOfFinite
<1>8. \E a \in M : \A b \in M : Len(v[a]) >= Len(v[b])
  BY <1>7
<1>9. LongestAt(v, t, i) \in M
  <2> HIDE DEF M
  <2>1. LongestAt(v, t, i) = CHOOSE a \in M : \A b \in M : Len(v[a]) >= Len(v[b])
    BY DEF LongestAt, M
  <2>2. QED
    BY <1>8, <2>1
<1>10. QED
  BY <1>1, <1>2, <1>3, <1>9

-----------------------------------------------------------------------------
\* What Restore does at one place, given what it does behind it.
At(v, t, f, i) ==
    IF i > Len(t) THEN <<>>
    ELSE IF MatchesAt(v, t, i) = {} THEN <<t[i]>> \o f[i + 1]
    ELSE <<LongestAt(v, t, i)>> \o f[i + Len(v[LongestAt(v, t, i)])]

\* The recursive function that Restore is made of.
Froms(v, t, f) == f = [i \in 1..(Len(t) + 1) |-> At(v, t, f, i)]

\* There is one.
LEMMA FromsExist ==
    ASSUME NEW v, Spelled(v), NEW t \in Seq(Chars)
    PROVE  \E f : Froms(v, t, f)
<1> DEFINE n == Len(t) + 1
           Behind(k, f) == f = [i \in k..n |-> At(v, t, f, i)]
           P == {k \in 1..n : \E f : Behind(k, f)}
<1>1. n \in Nat /\ n = Len(t) + 1 /\ Len(t) \in Nat
  BY LenProperties
<1> HIDE DEF n
<1>2. ASSUME NEW k \in 1..n, \A j \in 1..n : j > k => \E f : Behind(j, f)
      PROVE  \E f : Behind(k, f)
  <2>1. CASE k = n
    <3> DEFINE f == [i \in k..n |-> <<>>]
    <3>1. \A i \in k..n : At(v, t, f, i) = <<>>
      BY <1>1, <2>1 DEF At
    <3>2. Behind(k, f)
      BY <3>1
    <3>3. QED
      <4> HIDE DEF f
      <4>1. QED
        BY <3>2
  <2>2. CASE k # n
    <3>1. k \in 1..Len(t) /\ k + 1 \in 1..n /\ k + 1 > k
      BY <1>1, <2>2
    <3>2. PICK f : Behind(k + 1, f)
      BY <1>2, <3>1
    <3> DEFINE g == [i \in k..n |-> IF i = k THEN At(v, t, f, i) ELSE f[i]]
    <3>3. ASSUME NEW i \in (k + 1)..n
          PROVE  g[i] = f[i] /\ f[i] = At(v, t, f, i)
      <4>1. i \in k..n /\ i # k
        BY <1>1, <3>1
      <4>2. g[i] = f[i]
        BY <4>1
      <4>3. f[i] = At(v, t, f, i)
        BY <3>2
      <4>4. QED
        BY <4>2, <4>3
    <3>4. g[k] = At(v, t, f, k) /\ g = [i \in k..n |-> g[i]]
      BY <1>1, <3>1
    <3> HIDE DEF g, Behind
    <3>5. ASSUME NEW i \in k..n
          PROVE  At(v, t, g, i) = At(v, t, f, i)
      <4>1. CASE i > Len(t)
        BY <4>1 DEF At
      <4>2. CASE i <= Len(t)
        <5>1. i \in 1..Len(t) /\ i + 1 \in (k + 1)..n
          BY <1>1, <3>1, <4>2
        <5>2. g[i + 1] = f[i + 1]
          BY <3>3, <5>1
        <5>3. ASSUME MatchesAt(v, t, i) # {}
              PROVE  g[i + Len(v[LongestAt(v, t, i)])] = f[i + Len(v[LongestAt(v, t, i)])]
          <6> DEFINE m == i + Len(v[LongestAt(v, t, i)])
          <6>1. m \in (i + 1)..(Len(t) + 1)
            BY <5>1, <5>3, LongestFacts
          <6> HIDE DEF m
          <6>2. m \in (k + 1)..n
            BY <1>1, <3>1, <5>1, <6>1
          <6>3. QED
            BY <3>3, <6>2 DEF m
        <5>4. QED
          BY <5>2, <5>3 DEF At
      <4>3. QED
        BY <1>1, <3>1, <4>1, <4>2
    <3>6. ASSUME NEW i \in k..n
          PROVE  g[i] = At(v, t, g, i)
      <4>1. CASE i = k
        BY <3>4, <3>5, <4>1
      <4>2. CASE i # k
        <5>1. i \in (k + 1)..n
          BY <3>1, <4>2
        <5>2. QED
          BY <3>3, <3>5, <5>1
      <4>3. QED
        BY <4>1, <4>2
    <3>7. Behind(k, g)
      BY <3>4, <3>6 DEF Behind
    <3>8. QED
      BY <3>7
  <2>3. QED
    BY <2>1, <2>2
<1>3. P = 1..n
  <2>1. P \in SUBSET (1..n)
    OBVIOUS
  <2>2. \A k \in 1..n : (\A j \in 1..n : j > k => j \in P) => k \in P
    <3> HIDE DEF Behind
    <3>1. QED
      BY <1>2
  <2> HIDE DEF P
  <2>3. QED
    BY <1>1, <2>1, <2>2, DownFrom
<1>4. 1 \in 1..n
  BY <1>1
<1>5. PICK f : Behind(1, f)
  BY <1>3, <1>4
<1>6. QED
  BY <1>5 DEF Froms, n

\* Restore returns its first value.
LEMMA RestoreIsFrom ==
    ASSUME NEW v, Spelled(v), NEW t \in Seq(Chars)
    PROVE  \E f : /\ Restore(v, t) = f[1]
                  /\ \A i \in 1..(Len(t) + 1) : f[i] = At(v, t, f, i)
<1> DEFINE f == CHOOSE f : Froms(v, t, f)
<1>1. Froms(v, t, f)
  BY FromsExist
<1>2. Restore(v, t) = f[1]
  BY DEF Restore, Froms, At
<1> HIDE DEF f
<1>3. \A i \in 1..(Len(t) + 1) : f[i] = At(v, t, f, i)
  BY <1>1 DEF Froms
<1>4. QED
  BY <1>2, <1>3

\* Sequences are joined in any grouping.
LEMMA Associative ==
    ASSUME NEW S
    PROVE  \A p, q, r \in Seq(S) : (p \o q) \o r = p \o (q \o r)
BY ConcatAssociative

\* What a text is restored to.
Shown == Chars \cup Aliases

\* Every value of the function is a text of characters and originals.
LEMMA RestoreTyped ==
    ASSUME NEW v, Spelled(v), DOMAIN v \subseteq Aliases, NEW t \in Seq(Chars), NEW f,
           \A i \in 1..(Len(t) + 1) : f[i] = At(v, t, f, i)
    PROVE  \A i \in 1..(Len(t) + 1) : f[i] \in Seq(Shown)
<1> DEFINE n == Len(t) + 1
           P == {i \in 1..n : f[i] \in Seq(Shown)}
<1>1. n \in Nat /\ n = Len(t) + 1 /\ \A i \in 1..n : f[i] = At(v, t, f, i)
  BY LenProperties
<1> HIDE DEF n
<1>2. ASSUME NEW i \in 1..n, \A j \in 1..n : j > i => f[j] \in Seq(Shown)
      PROVE  f[i] \in Seq(Shown)
  <2>1. f[i] = At(v, t, f, i)
    BY <1>1
  <2>2. CASE i > Len(t)
    <3>1. f[i] = <<>>
      BY <2>1, <2>2 DEF At
    <3>2. QED
      BY <3>1, EmptySeq
  <2>3. CASE ~ (i > Len(t)) /\ MatchesAt(v, t, i) = {}
    <3>1. f[i] = <<t[i]>> \o f[i + 1]
      BY <2>1, <2>3 DEF At
    <3>2. i \in 1..Len(t) /\ i + 1 \in 1..n /\ i + 1 > i
      BY <1>1, <2>3
    <3>3. t[i] \in Shown /\ f[i + 1] \in Seq(Shown)
      BY <1>2, <3>2, ElementOfSeq DEF Shown
    <3>4. <<t[i]>> \in Seq(Shown)
      BY <3>3
    <3>5. QED
      BY <3>1, <3>3, <3>4, ConcatProperties
  <2>4. CASE ~ (i > Len(t)) /\ MatchesAt(v, t, i) # {}
    <3> DEFINE a == LongestAt(v, t, i)
               m == i + Len(v[a])
    <3>1. f[i] = <<a>> \o f[m]
      BY <2>1, <2>4 DEF At
    <3>2. i \in 1..Len(t)
      BY <1>1, <2>4
    <3>3. a \in DOMAIN v /\ m \in (i + 1)..(Len(t) + 1)
      BY <2>4, <3>2, LongestFacts
    <3> HIDE DEF a, m
    <3>4. m \in 1..n /\ m > i
      BY <1>1, <3>3
    <3>5. a \in Shown /\ f[m] \in Seq(Shown)
      BY <1>2, <3>3, <3>4 DEF Shown
    <3>6. <<a>> \in Seq(Shown)
      BY <3>5
    <3>7. QED
      BY <3>1, <3>5, <3>6, ConcatProperties
  <2>5. QED
    BY <2>2, <2>3, <2>4
<1>3. P = 1..n
  <2>1. P \in SUBSET (1..n)
    OBVIOUS
  <2>2. \A i \in 1..n : (\A j \in 1..n : j > i => j \in P) => i \in P
    BY <1>2
  <2> HIDE DEF P
  <2>3. QED
    BY <1>1, <2>1, <2>2, DownFrom
<1>4. QED
  BY <1>3 DEF n

\* In the second of two texts an alias is where it would be without the first.
LEMMA MatchesBehind ==
    ASSUME NEW v, Spelled(v), NEW t \in Seq(Chars), NEW u \in Seq(Chars), NEW i \in 1..Len(u)
    PROVE  /\ MatchesAt(v, t \o u, Len(t) + i) = MatchesAt(v, u, i)
           /\ LongestAt(v, t \o u, Len(t) + i) = LongestAt(v, u, i)
           /\ (t \o u)[Len(t) + i] = u[i]
<1> DEFINE w == t \o u
<1>1. /\ w \in Seq(Chars) /\ Len(w) = Len(t) + Len(u) /\ Len(t) \in Nat /\ Len(u) \in Nat
      /\ \A k \in 1..(Len(t) + Len(u)) :
            w[k] = IF k <= Len(t) THEN t[k] ELSE u[k - Len(t)]
  BY ConcatProperties, LenProperties
<1> HIDE DEF w
<1>2. ASSUME NEW k \in 1..Len(u)
      PROVE  w[Len(t) + k] = u[k]
  <2>1. Len(t) + k \in 1..(Len(t) + Len(u)) /\ ~ (Len(t) + k <= Len(t)) /\ (Len(t) + k) - Len(t) = k
    BY <1>1
  <2>2. QED
    BY <1>1, <2>1
<1>3. Len(t) + i \in 1..Len(w)
  BY <1>1
<1>4. ASSUME NEW a \in DOMAIN v
      PROVE  a \in MatchesAt(v, w, Len(t) + i) <=> a \in MatchesAt(v, u, i)
  <2> DEFINE n == Len(v[a])
  <2>1. n \in Nat
    BY LenProperties DEF Spelled
  <2>2. a \in MatchesAt(v, w, Len(t) + i) <=>
          /\ (Len(t) + i) + n - 1 <= Len(w)
          /\ \A k \in 1..n : v[a][k] = w[(Len(t) + i) + k - 1]
    <3>1. w \in Seq(Chars)
      BY <1>1
    <3>2. QED
      BY <1>3, <3>1, MatchFacts, ZenonT(40)
  <2>3. a \in MatchesAt(v, u, i) <=>
          /\ i + n - 1 <= Len(u)
          /\ \A k \in 1..n : v[a][k] = u[i + k - 1]
    BY MatchFacts
  <2> HIDE DEF n
  <2>4. (Len(t) + i) + n - 1 <= Len(w) <=> i + n - 1 <= Len(u)
    BY <1>1, <2>1
  <2>5. ASSUME i + n - 1 <= Len(u), NEW k \in 1..n
        PROVE  w[(Len(t) + i) + k - 1] = u[i + k - 1]
    <3>1. i + k - 1 \in 1..Len(u) /\ (Len(t) + i) + k - 1 = Len(t) + (i + k - 1)
      BY <1>1, <2>1, <2>5
    <3>2. QED
      BY <1>2, <3>1
  <2>6. QED
    BY <2>2, <2>3, <2>4, <2>5
<1>5. MatchesAt(v, w, Len(t) + i) = MatchesAt(v, u, i)
  BY <1>4 DEF MatchesAt
<1>6. QED
  BY <1>2, <1>5 DEF LongestAt, w

\* No alias is across the cut between two texts.
Uncrossed(v, t, u) ==
    \A i \in 1..Len(t) : \A a \in MatchesAt(v, t \o u, i) : i + Len(v[a]) - 1 <= Len(t)

\* In the first of two texts an alias is where it would be without the second, if none is
\* across the cut.
LEMMA MatchesBefore ==
    ASSUME NEW v, Spelled(v), NEW t \in Seq(Chars), NEW u \in Seq(Chars), NEW i \in 1..Len(t),
           Uncrossed(v, t, u)
    PROVE  /\ MatchesAt(v, t \o u, i) = MatchesAt(v, t, i)
           /\ LongestAt(v, t \o u, i) = LongestAt(v, t, i)
           /\ (t \o u)[i] = t[i]
<1> DEFINE w == t \o u
<1>1. /\ w \in Seq(Chars) /\ Len(w) = Len(t) + Len(u) /\ Len(t) \in Nat /\ Len(u) \in Nat
      /\ \A k \in 1..(Len(t) + Len(u)) :
            w[k] = IF k <= Len(t) THEN t[k] ELSE u[k - Len(t)]
  BY ConcatProperties, LenProperties
<1> HIDE DEF w
<1>2. ASSUME NEW k \in 1..Len(t)
      PROVE  w[k] = t[k]
  BY <1>1
<1>3. i \in 1..Len(w)
  BY <1>1
<1>4. ASSUME NEW a \in DOMAIN v
      PROVE  a \in MatchesAt(v, w, i) <=> a \in MatchesAt(v, t, i)
  <2> DEFINE n == Len(v[a])
  <2>1. n \in Nat
    BY LenProperties DEF Spelled
  <2>2. a \in MatchesAt(v, w, i) <=>
          /\ i + n - 1 <= Len(w)
          /\ \A k \in 1..n : v[a][k] = w[i + k - 1]
    <3>1. w \in Seq(Chars)
      BY <1>1
    <3>2. QED
      BY <1>3, <3>1, MatchFacts
  <2>3. a \in MatchesAt(v, t, i) <=>
          /\ i + n - 1 <= Len(t)
          /\ \A k \in 1..n : v[a][k] = t[i + k - 1]
    BY MatchFacts
  <2>4. a \in MatchesAt(v, w, i) => i + n - 1 <= Len(t)
    BY DEF Uncrossed, w
  <2> HIDE DEF n
  <2>5. ASSUME i + n - 1 <= Len(t), NEW k \in 1..n
        PROVE  w[i + k - 1] = t[i + k - 1]
    <3>1. i + k - 1 \in 1..Len(t)
      BY <1>1, <2>1, <2>5
    <3>2. QED
      BY <1>2, <3>1
  <2>6. i + n - 1 <= Len(t) => i + n - 1 <= Len(w)
    BY <1>1, <2>1
  <2>7. QED
    BY <2>2, <2>3, <2>4, <2>5, <2>6
<1>5. MatchesAt(v, w, i) = MatchesAt(v, t, i)
  BY <1>4 DEF MatchesAt
<1>6. QED
  BY <1>2, <1>5 DEF LongestAt, w

\* From the cut on, two texts are restored like the second.
LEMMA RestoreBehind ==
    ASSUME NEW v, Spelled(v), NEW t \in Seq(Chars), NEW u \in Seq(Chars), NEW f, NEW h,
           \A i \in 1..(Len(t \o u) + 1) : f[i] = At(v, t \o u, f, i),
           \A i \in 1..(Len(u) + 1) : h[i] = At(v, u, h, i)
    PROVE  \A i \in 1..(Len(u) + 1) : f[Len(t) + i] = h[i]
<1> DEFINE w == t \o u
           n == Len(u) + 1
           P == {i \in 1..n : f[Len(t) + i] = h[i]}
<1>1. /\ Len(w) = Len(t) + Len(u) /\ Len(t) \in Nat /\ Len(u) \in Nat
      /\ n \in Nat /\ n = Len(u) + 1
  BY ConcatProperties, LenProperties
<1>2. /\ \A i \in 1..(Len(w) + 1) : f[i] = At(v, w, f, i)
      /\ \A i \in 1..n : h[i] = At(v, u, h, i)
  OBVIOUS
<1>3. \A i \in 1..Len(u) :
         /\ MatchesAt(v, w, Len(t) + i) = MatchesAt(v, u, i)
         /\ LongestAt(v, w, Len(t) + i) = LongestAt(v, u, i)
         /\ w[Len(t) + i] = u[i]
  BY MatchesBehind
<1> HIDE DEF w, n
<1>4. ASSUME NEW i \in 1..n, \A j \in 1..n : j > i => f[Len(t) + j] = h[j]
      PROVE  f[Len(t) + i] = h[i]
  <2>1. Len(t) + i \in 1..(Len(w) + 1) /\ (Len(t) + i > Len(w) <=> i > Len(u))
    BY <1>1
  <2>2. h[i] = At(v, u, h, i) /\ f[Len(t) + i] = At(v, w, f, Len(t) + i)
    BY <1>2, <2>1
  <2>3. CASE i > Len(u)
    BY <2>1, <2>2, <2>3 DEF At
  <2>4. CASE ~ (i > Len(u))
    <3>1. i \in 1..Len(u) /\ ~ (Len(t) + i > Len(w))
      BY <1>1, <2>1, <2>4
    <3>2. /\ MatchesAt(v, w, Len(t) + i) = MatchesAt(v, u, i)
          /\ LongestAt(v, w, Len(t) + i) = LongestAt(v, u, i)
          /\ w[Len(t) + i] = u[i]
      BY <1>3, <3>1
    <3>3. CASE MatchesAt(v, u, i) = {}
      <4>1. h[i] = <<u[i]>> \o h[i + 1] /\ f[Len(t) + i] = <<u[i]>> \o f[(Len(t) + i) + 1]
        BY <2>2, <2>4, <3>1, <3>2, <3>3 DEF At
      <4>2. i + 1 \in 1..n /\ i + 1 > i /\ (Len(t) + i) + 1 = Len(t) + (i + 1)
        BY <1>1, <3>1
      <4>3. f[Len(t) + (i + 1)] = h[i + 1]
        BY <1>4, <4>2
      <4>4. QED
        BY <4>1, <4>2, <4>3
    <3>4. CASE MatchesAt(v, u, i) # {}
      <4> DEFINE a == LongestAt(v, u, i)
                 m == Len(v[a])
      <4>1. h[i] = <<a>> \o h[i + m] /\ f[Len(t) + i] = <<a>> \o f[(Len(t) + i) + m]
        BY <2>2, <2>4, <3>1, <3>2, <3>4 DEF At
      <4>2. m \in Nat /\ i + m \in (i + 1)..(Len(u) + 1)
        BY <3>1, <3>4, LongestFacts
      <4> HIDE DEF a, m
      <4>3. i + m \in 1..n /\ i + m > i /\ (Len(t) + i) + m = Len(t) + (i + m)
        BY <1>1, <3>1, <4>2
      <4>4. f[Len(t) + (i + m)] = h[i + m]
        BY <1>4, <4>3
      <4>5. QED
        BY <4>1, <4>3, <4>4
    <3>5. QED
      BY <3>3, <3>4
  <2>5. QED
    BY <2>3, <2>4
<1>5. P = 1..n
  <2>1. P \in SUBSET (1..n)
    OBVIOUS
  <2>2. \A i \in 1..n : (\A j \in 1..n : j > i => j \in P) => i \in P
    BY <1>4
  <2> HIDE DEF P
  <2>3. QED
    BY <1>1, <2>1, <2>2, DownFrom
<1>6. QED
  BY <1>5 DEF n

\* Two texts are restored one after the other if no alias is across the cut between them.
LEMMA RestoreConcat ==
    ASSUME NEW v, Spelled(v), DOMAIN v \subseteq Aliases,
           NEW t \in Seq(Chars), NEW u \in Seq(Chars), Uncrossed(v, t, u)
    PROVE  Restore(v, t \o u) = Restore(v, t) \o Restore(v, u)
<1> DEFINE w == t \o u
           n == Len(t) + 1
<1>1. \A p, q, r \in Seq(Shown) : (p \o q) \o r = p \o (q \o r)
  BY Associative
<1>2. /\ w \in Seq(Chars) /\ Len(w) = Len(t) + Len(u) /\ Len(t) \in Nat /\ Len(u) \in Nat
      /\ n \in Nat /\ n = Len(t) + 1
  BY ConcatProperties, LenProperties
<1>3. w \in Seq(Chars)
  BY <1>2
<1>4. PICK f : Restore(v, w) = f[1] /\ \A i \in 1..(Len(w) + 1) : f[i] = At(v, w, f, i)
  BY <1>3, RestoreIsFrom
<1>5. PICK g : Restore(v, t) = g[1] /\ \A i \in 1..(Len(t) + 1) : g[i] = At(v, t, g, i)
  BY RestoreIsFrom
<1>6. PICK h : Restore(v, u) = h[1] /\ \A i \in 1..(Len(u) + 1) : h[i] = At(v, u, h, i)
  BY RestoreIsFrom
<1>7. f[n] = h[1] /\ h[1] \in Seq(Shown)
  <2>1. 1 \in 1..(Len(u) + 1)
    BY <1>2
  <2>2. f[Len(t) + 1] = h[1]
    BY <1>4, <1>6, <2>1, RestoreBehind
  <2>3. h[1] \in Seq(Shown)
    BY <1>6, <2>1, RestoreTyped
  <2>4. QED
    BY <2>2, <2>3
<1>8. \A i \in 1..n : g[i] \in Seq(Shown)
  BY <1>5, RestoreTyped
<1>9. \A i \in 1..Len(t) :
         /\ MatchesAt(v, w, i) = MatchesAt(v, t, i)
         /\ LongestAt(v, w, i) = LongestAt(v, t, i)
         /\ w[i] = t[i]
  BY MatchesBefore
<1> DEFINE P == {i \in 1..n : f[i] = g[i] \o h[1]}
<1> HIDE DEF w, n
<1>10. ASSUME NEW i \in 1..n, \A j \in 1..n : j > i => f[j] = g[j] \o h[1]
      PROVE  f[i] = g[i] \o h[1]
  <2>1. CASE i = n
    <3>1. i > Len(t) /\ i \in 1..(Len(t) + 1)
      BY <1>2, <2>1
    <3>2. g[i] = <<>>
      BY <1>5, <3>1 DEF At
    <3>3. QED
      BY <1>7, <2>1, <3>2, ConcatEmptySeq
  <2>2. CASE i # n
    <3>1. i \in 1..Len(t) /\ ~ (i > Len(t)) /\ i \in 1..(Len(w) + 1) /\ ~ (i > Len(w))
          /\ i \in 1..(Len(t) + 1)
      BY <1>2, <2>2
    <3>2. g[i] = At(v, t, g, i) /\ f[i] = At(v, w, f, i)
      BY <1>4, <1>5, <3>1
    <3>3. /\ MatchesAt(v, w, i) = MatchesAt(v, t, i)
          /\ LongestAt(v, w, i) = LongestAt(v, t, i)
          /\ w[i] = t[i]
      BY <1>9, <3>1
    <3>4. CASE MatchesAt(v, t, i) = {}
      <4>1. g[i] = <<t[i]>> \o g[i + 1] /\ f[i] = <<t[i]>> \o f[i + 1]
        BY <3>1, <3>2, <3>3, <3>4 DEF At
      <4>2. i + 1 \in 1..n /\ i + 1 > i
        BY <1>2, <3>1
      <4>3. f[i + 1] = g[i + 1] \o h[1] /\ g[i + 1] \in Seq(Shown)
        BY <1>8, <1>10, <4>2
      <4>4. <<t[i]>> \in Seq(Shown)
        <5>1. t[i] \in Shown
          BY <3>1, ElementOfSeq DEF Shown
        <5>2. QED
          BY <5>1
      <4>5. (<<t[i]>> \o g[i + 1]) \o h[1] = <<t[i]>> \o (g[i + 1] \o h[1])
        BY <1>1, <1>7, <4>3, <4>4
      <4>6. QED
        BY <4>1, <4>3, <4>5
    <3>5. CASE MatchesAt(v, t, i) # {}
      <4> DEFINE a == LongestAt(v, t, i)
                 m == i + Len(v[a])
      <4>1. g[i] = <<a>> \o g[m] /\ f[i] = <<a>> \o f[m]
        BY <3>1, <3>2, <3>3, <3>5 DEF At
      <4>2. m \in (i + 1)..(Len(t) + 1) /\ a \in DOMAIN v
        BY <3>1, <3>5, LongestFacts
      <4> HIDE DEF a, m
      <4>3. m \in 1..n /\ m > i
        BY <1>2, <3>1, <4>2
      <4>4. f[m] = g[m] \o h[1] /\ g[m] \in Seq(Shown)
        BY <1>8, <1>10, <4>3
      <4>5. <<a>> \in Seq(Shown)
        BY <4>2 DEF Shown
      <4>6. (<<a>> \o g[m]) \o h[1] = <<a>> \o (g[m] \o h[1])
        BY <1>1, <1>7, <4>4, <4>5
      <4>7. QED
        BY <4>1, <4>4, <4>6
    <3>6. QED
      BY <3>4, <3>5
  <2>3. QED
    BY <2>1, <2>2
<1>11. P = 1..n
  <2>1. P \in SUBSET (1..n)
    OBVIOUS
  <2>2. \A i \in 1..n : (\A j \in 1..n : j > i => j \in P) => i \in P
    BY <1>10
  <2> HIDE DEF P
  <2>3. QED
    BY <1>2, <2>1, <2>2, DownFrom
<1>12. 1 \in 1..n
  BY <1>2
<1>13. f[1] = g[1] \o h[1]
  BY <1>11, <1>12
<1>14. QED
  BY <1>4, <1>5, <1>6, <1>13 DEF w

\* The last k characters.
LEMMA LastFacts ==
    ASSUME NEW t \in Seq(Chars), NEW k \in 0..Len(t)
    PROVE  /\ LastOf(t, k) \in Seq(Chars)
           /\ Len(LastOf(t, k)) = k
           /\ \A j \in 1..k : LastOf(t, k)[j] = t[Len(t) - k + j]
<1> DEFINE i == Len(t) - k + 1
           u == SubSeq(t, i, Len(t))
<1>1. Len(t) \in Nat /\ i \in 1..(Len(t) + 1) /\ Len(t) - i + 1 = k
  BY LenProperties
<1>2. LastOf(t, k) = u
  BY DEF LastOf
<1>3. \A j \in 1..k : i + j - 1 = Len(t) - k + j
  BY <1>1
<1> HIDE DEF i
<1>4. /\ u \in Seq(Chars) /\ Len(u) = Len(t) - i + 1
      /\ \A j \in 1..(Len(t) - i + 1) : u[j] = t[i + j - 1]
  BY <1>1, EndFacts
<1> HIDE DEF u
<1>5. QED
  BY <1>1, <1>2, <1>3, <1>4

\* No alias is longer than MaxAliasLen.
LEMMA LongestAlias ==
    ASSUME NEW v, Spelled(v)
    PROVE  /\ MaxAliasLen(v) \in Nat
           /\ \A a \in DOMAIN v : Len(v[a]) <= MaxAliasLen(v)
<1> DEFINE T == {Len(v[a]) : a \in DOMAIN v}
           f == [a \in DOMAIN v |-> Len(v[a])]
<1>1. T \in SUBSET Nat
  BY LenProperties DEF Spelled
<1>2. f \in Surjection(DOMAIN v, T)
  BY DEF Surjection
<1>3. IsFiniteSet(T)
  <2> HIDE DEF f, T
  <2>1. QED
    BY <1>2, FS_Surjection DEF Spelled
<1> DEFINE S == T \cup {0}
<1>4. S \in SUBSET Nat /\ S # {} /\ IsFiniteSet(S)
  <2> HIDE DEF T
  <2>1. IsFiniteSet(S)
    BY <1>3, FS_AddElement
  <2>2. QED
    BY <1>1, <2>1
<1>5. MaxAliasLen(v) = CHOOSE m \in S : \A k \in S : m >= k
  <2>1. {0} \cup T = S
    OBVIOUS
  <2>2. MaxAliasLen(v) = Max({0} \cup T)
    BY DEF MaxAliasLen
  <2> HIDE DEF S, T
  <2>3. QED
    BY <2>1, <2>2 DEF Max
<1>6. \A a \in DOMAIN v : Len(v[a]) \in S
  OBVIOUS
<1> HIDE DEF S, T
<1>7. \E m \in S : \A k \in S : m >= k
  BY <1>4, GreatestOfFinite
<1>8. MaxAliasLen(v) \in S /\ \A k \in S : MaxAliasLen(v) >= k
  BY <1>5, <1>7
<1>9. QED
  BY <1>4, <1>6, <1>8

\* What is held back is the start of an alias or nothing, and no longer end of the text is.
LEMMA HeldFacts ==
    ASSUME NEW v, Spelled(v), DOMAIN v # {}, NEW t \in Seq(Chars)
    PROVE  LET held == SuffixPrefixLen(v, t) IN
           /\ held \in 0..Len(t)
           /\ held = 0 \/ MayGrow(v, LastOf(t, held))
           /\ \A a \in DOMAIN v : \A k \in 1..Len(t) :
                 k < Len(v[a]) /\ IsPrefix(LastOf(t, k), v[a]) => k <= held
<1> DEFINE M == MaxAliasLen(v)
           limit == Min({M - 1, Len(t)})
           K == {k \in 1..limit : MayGrow(v, LastOf(t, k))}
           S == K \cup {0}
           held == SuffixPrefixLen(v, t)
<1>1. M \in Nat /\ Len(t) \in Nat /\ \A a \in DOMAIN v : Len(v[a]) <= M /\ Len(v[a]) \in Nat
  BY LongestAlias, LenProperties DEF Spelled
<1> HIDE DEF M
<1>2. limit \in Int /\ limit <= Len(t) /\ (limit = M - 1 \/ limit = Len(t))
  BY <1>1 DEF Min
<1>3. held = CHOOSE m \in S : \A k \in S : m >= k
  <2>1. {0} \cup K = S
    OBVIOUS
  <2>2. held = Max({0} \cup K)
    BY DEF SuffixPrefixLen, M
  <2> HIDE DEF S, K, held
  <2>3. QED
    BY <2>1, <2>2 DEF Max
<1> HIDE DEF limit, held
<1>4. S \in SUBSET Nat /\ S # {} /\ \A k \in S : k <= Len(t)
  BY <1>1, <1>2
<1>5. \E m \in S : \A k \in S : m >= k
  <2> HIDE DEF S
  <2>1. IsFiniteSet(S)
    BY <1>1, <1>4, FS_BoundedSetOfNaturals
  <2>2. QED
    BY <1>4, <2>1, GreatestOfFinite
<1>6. held \in S /\ \A k \in S : held >= k
  <2> HIDE DEF S
  <2>1. QED
    BY <1>3, <1>5
<1>7. held \in 0..Len(t)
  BY <1>1, <1>4, <1>6
<1>8. held = 0 \/ MayGrow(v, LastOf(t, held))
  BY <1>6
<1>9. ASSUME NEW a \in DOMAIN v, NEW k \in 1..Len(t), k < Len(v[a]), IsPrefix(LastOf(t, k), v[a])
      PROVE  k <= held
  <2>1. k \in 1..limit
    BY <1>1, <1>2, <1>9
  <2>2. MayGrow(v, LastOf(t, k))
    BY <1>9 DEF MayGrow
  <2>3. k \in S
    BY <2>1, <2>2
  <2>4. QED
    BY <1>4, <1>6, <2>3
<1>10. QED
  BY <1>7, <1>8, <1>9 DEF held

\* What is emitted and what is held back are the text, and no alias will be across the cut.
LEMMA CutIsApart ==
    ASSUME NEW v, Spelled(v), DOMAIN v # {}, Apart(v), NEW t \in Seq(Chars), NEW c \in Seq(Chars)
    PROVE  LET cut == Len(t) - SuffixPrefixLen(v, t)
               left == SubSeq(t, 1, cut)
               rest == SubSeq(t, cut + 1, Len(t))
           IN  /\ left \in Seq(Chars) /\ rest \in Seq(Chars)
               /\ t = left \o rest
               /\ Uncrossed(v, left, rest \o c)
<1> DEFINE held == SuffixPrefixLen(v, t)
           cut == Len(t) - held
           left == SubSeq(t, 1, cut)
           rest == SubSeq(t, cut + 1, Len(t))
           w == left \o (rest \o c)
<1>1. /\ held \in 0..Len(t) /\ Len(t) \in Nat
      /\ held = 0 \/ MayGrow(v, LastOf(t, held))
      /\ \A a \in DOMAIN v : \A k \in 1..Len(t) :
            k < Len(v[a]) /\ IsPrefix(LastOf(t, k), v[a]) => k <= held
  BY HeldFacts, LenProperties
<1> HIDE DEF held
<1>2. /\ left \in Seq(Chars) /\ Len(left) = cut /\ cut \in 0..Len(t)
  <2>1. cut \in 0..Len(t) /\ \A k \in 1..cut : t[k] \in Chars
    BY <1>1, ElementOfSeq
  <2>2. QED
    BY <1>1, <2>1, SubSeqProperties
<1>3. rest \in Seq(Chars)
  BY <1>1, <1>2, EndFacts
<1>4. t = left \o rest
  <2>1. /\ SubSeq(t, 1, Len(t)) = t /\ cut \in (1 - 1)..Len(t)
        /\ 1 \in 1..(Len(t) + 1) /\ Len(t) \in cut..Len(t)
    BY <1>1, <1>2, SubSeqFull
  <2> HIDE DEF cut
  <2>2. QED
    BY <1>1, <2>1, ConcatAdjacentSubSeq, Zenon
<1> HIDE DEF left, rest
<1>5. w = t \o c
  <2>1. \A p, q, r \in Seq(Chars) : (p \o q) \o r = p \o (q \o r)
    BY Associative, SMTT(40)
  <2>2. (left \o rest) \o c = left \o (rest \o c)
    BY <1>2, <1>3, <2>1, SMTT(40)
  <2>3. QED
    BY <1>4, <2>2
<1>6. /\ w \in Seq(Chars) /\ Len(w) >= Len(t) /\ Len(w) \in Nat
      /\ \A k \in 1..Len(t) : w[k] = t[k]
  <2>1. /\ t \o c \in Seq(Chars) /\ Len(t \o c) = Len(t) + Len(c) /\ Len(c) \in Nat
        /\ \A k \in 1..(Len(t) + Len(c)) : (t \o c)[k] = IF k <= Len(t) THEN t[k] ELSE c[k - Len(t)]
    BY ConcatProperties, LenProperties
  <2> HIDE DEF w
  <2>2. QED
    BY <1>1, <1>5, <2>1
<1> HIDE DEF cut, w
<1>7. cut = Len(t) - held
  BY DEF cut
<1>8. ASSUME NEW i \in 1..cut, NEW a \in MatchesAt(v, w, i)
      PROVE  i + Len(v[a]) - 1 <= cut
  <2> DEFINE s == v[a]
             n == Len(s)
  <2>1. a \in DOMAIN v /\ s \in Seq(Chars) /\ n \in Nat \ {0} /\ i \in 1..Len(w) /\ i \in 1..Len(t)
    BY <1>1, <1>2, <1>6, EmptySeq DEF MatchesAt, Spelled
  <2>2. i + n - 1 <= Len(w) /\ \A k \in 1..n : s[k] = w[i + k - 1]
    BY <1>6, <2>1, MatchFacts
  <2> HIDE DEF s, n
  <2>3. SUFFICES ASSUME i + n - 1 > cut PROVE FALSE
    BY <1>2, <2>1 DEF s, n
  <2>4. CASE i + n - 1 > Len(t)
    <3> DEFINE k == Len(t) - i + 1
               u == LastOf(t, k)
    <3>1. k \in 1..Len(t) /\ k < n /\ Len(t) - k = i - 1
      BY <1>1, <2>1, <2>4
    <3> HIDE DEF k
    <3>2. u \in Seq(Chars) /\ Len(u) = k /\ \A j \in 1..k : u[j] = t[Len(t) - k + j]
      <4>1. k \in 0..Len(t)
        BY <1>1, <3>1
      <4>2. QED
        BY <4>1, LastFacts
    <3>3. \A j \in 1..k : u[j] = s[j]
      <4>1. TAKE j \in 1..k
      <4>2. /\ i + j - 1 \in 1..Len(t) /\ j \in 1..n /\ Len(t) - k + j = i + j - 1
        BY <1>1, <2>1, <3>1, <4>1 DEF k
      <4>3. QED
        BY <1>6, <2>2, <3>2, <4>1, <4>2
    <3> HIDE DEF u
    <3>4. IsPrefix(u, s)
      <4>1. IsPrefix(u, s) <=> Len(u) <= Len(s) /\ \A j \in 1..Len(u) : u[j] = s[j]
        BY <2>1, <3>2, PrefixFacts
      <4>2. Len(u) <= Len(s)
        BY <2>1, <3>1, <3>2 DEF n
      <4>3. QED
        BY <3>2, <3>3, <4>1, <4>2
    <3>5. k <= held
      BY <1>1, <2>1, <3>1, <3>4 DEF u, s, n
    <3>6. QED
      BY <1>1, <1>7, <2>1, <3>1, <3>5
  <2>5. CASE i + n - 1 <= Len(t)
    <3> DEFINE k == i + n - 1 - cut
               u == LastOf(s, k)
               p == LastOf(t, held)
    <3>1. k \in 1..(n - 1) /\ k <= held /\ held \in 1..Len(t)
      BY <1>1, <1>2, <1>7, <2>1, <2>3, <2>5
    <3>2. PICK e \in DOMAIN v : IsPrefix(p, v[e])
      BY <1>1, <3>1 DEF MayGrow
    <3>3. k \in 0..n /\ n - k = cut - i + 1
      BY <1>2, <2>1, <3>1
    <3> HIDE DEF k
    <3>4. u \in Seq(Chars) /\ Len(u) = k /\ \A j \in 1..k : u[j] = s[n - k + j]
      BY <2>1, <3>3, LastFacts DEF n
    <3>5. p \in Seq(Chars) /\ Len(p) = held /\ \A j \in 1..held : p[j] = t[Len(t) - held + j]
      BY <1>1, LastFacts
    <3> HIDE DEF u, p
    <3>6. v[e] \in Seq(Chars) /\ Len(v[e]) \in Nat
      BY LenProperties DEF Spelled
    <3>7. held <= Len(v[e]) /\ \A j \in 1..held : p[j] = v[e][j]
      BY <3>2, <3>5, <3>6, PrefixFacts
    <3>8. ASSUME NEW j \in 1..k
          PROVE  u[j] = v[e][j]
      <4>1. /\ j \in 1..held /\ n - k + j \in 1..n
            /\ i + (n - k + j) - 1 = cut + j /\ Len(t) - held + j = cut + j /\ cut + j \in 1..Len(t)
        <5>1. j \in Nat /\ k \in Nat /\ j <= k /\ k <= held /\ held \in Nat
          BY <3>1, <1>1
        <5>2. j \in 1..held /\ n - k + j \in 1..n
          BY <2>1, <3>1, <5>1
        <5>3. i + (n - k + j) - 1 = cut + j
          BY <1>2, <2>1, <3>3, <5>1
        <5>4. Len(t) - held + j = cut + j /\ cut + j \in 1..Len(t)
          BY <1>1, <1>2, <1>7, <5>1
        <5>5. QED
          BY <5>2, <5>3, <5>4
      <4>2. u[j] = s[n - k + j] /\ s[n - k + j] = w[cut + j] /\ w[cut + j] = t[cut + j]
        BY <1>6, <2>2, <3>4, <4>1
      <4>3. p[j] = t[cut + j] /\ p[j] = v[e][j]
        BY <3>5, <3>7, <4>1
      <4>4. QED
        BY <4>2, <4>3
    <3>9. k <= Len(v[e])
      BY <1>1, <3>1, <3>6, <3>7, <3>3
    <3>10. IsPrefix(u, v[e])
      <4>1. IsPrefix(u, v[e]) <=> Len(u) <= Len(v[e]) /\ \A j \in 1..Len(u) : u[j] = v[e][j]
        BY <3>4, <3>6, PrefixFacts
      <4>2. QED
        BY <3>4, <3>8, <3>9, <4>1
    <3>11. QED
      BY <2>1, <3>1, <3>10 DEF Apart, u, s, n
  <2>6. QED
    BY <1>1, <2>1, <2>4, <2>5
<1>9. Uncrossed(v, left, rest \o c)
  BY <1>2, <1>8 DEF Uncrossed, w
<1>10. QED
  BY <1>2, <1>3, <1>4, <1>9 DEF left, rest, cut, held

\* What a text is restored to is a text of characters and originals.
LEMMA RestoreIsShown ==
    ASSUME NEW v, Spelled(v), DOMAIN v \subseteq Aliases, NEW t \in Seq(Chars)
    PROVE  Restore(v, t) \in Seq(Shown)
<1>1. PICK f : Restore(v, t) = f[1] /\ \A i \in 1..(Len(t) + 1) : f[i] = At(v, t, f, i)
  BY RestoreIsFrom
<1>2. 1 \in 1..(Len(t) + 1)
  BY LenProperties
<1>3. f[1] \in Seq(Shown)
  BY <1>1, <1>2, RestoreTyped
<1>4. QED
  BY <1>1, <1>3

\* Without aliases a text is restored to itself.
LEMMA RestoreNothing ==
    ASSUME NEW v, Spelled(v), DOMAIN v = {}, NEW t \in Seq(Chars)
    PROVE  Restore(v, t) = t
<1> DEFINE n == Len(t) + 1
<1>1. n \in Nat /\ n = Len(t) + 1 /\ Len(t) \in Nat
  BY LenProperties
<1>2. PICK f : Restore(v, t) = f[1] /\ \A i \in 1..n : f[i] = At(v, t, f, i)
  BY RestoreIsFrom
<1> DEFINE P == {i \in 1..n : f[i] = SubSeq(t, i, Len(t))}
<1> HIDE DEF n
<1>3. ASSUME NEW i \in 1..n, \A j \in 1..n : j > i => f[j] = SubSeq(t, j, Len(t))
      PROVE  f[i] = SubSeq(t, i, Len(t))
  <2>1. f[i] = At(v, t, f, i)
    BY <1>2
  <2>2. CASE i > Len(t)
    <3>1. f[i] = <<>>
      BY <2>1, <2>2 DEF At
    <3>2. SubSeq(t, i, Len(t)) = <<>>
      BY <1>1, <2>2, SubSeqEmpty
    <3>3. QED
      BY <3>1, <3>2
  <2>3. CASE ~ (i > Len(t))
    <3>1. MatchesAt(v, t, i) = {}
      BY DEF MatchesAt
    <3>2. f[i] = <<t[i]>> \o f[i + 1]
      BY <2>1, <2>3, <3>1 DEF At
    <3>3. i \in 1..Len(t) /\ i + 1 \in 1..n /\ i + 1 > i /\ Len(t) \in i..Len(t)
      BY <1>1, <2>3
    <3>4. f[i + 1] = SubSeq(t, i + 1, Len(t))
      BY <1>3, <3>3
    <3>5. SubSeq(t, i, Len(t)) = <<t[i]>> \o SubSeq(t, i + 1, Len(t))
      BY <3>3, SubSeqRecursiveFirst
    <3>6. QED
      BY <3>2, <3>4, <3>5
  <2>4. QED
    BY <2>2, <2>3
<1>4. P = 1..n
  <2>1. P \in SUBSET (1..n)
    OBVIOUS
  <2>2. \A i \in 1..n : (\A j \in 1..n : j > i => j \in P) => i \in P
    BY <1>3
  <2> HIDE DEF P
  <2>3. QED
    BY <1>1, <2>1, <2>2, DownFrom
<1>5. 1 \in 1..n
  BY <1>1
<1>6. f[1] = SubSeq(t, 1, Len(t))
  BY <1>4, <1>5
<1>7. QED
  BY <1>2, <1>6, SubSeqFull

-----------------------------------------------------------------------------
\* Whatever comes, the client sees of the whole text what it has been shown and what the
\* buffer will be restored to.
RestorerInv ==
    /\ spelling \in Vocabularies \cup {<<>>}
    /\ received \in Seq(Chars) /\ buffer \in Seq(Chars) /\ emitted \in Seq(Shown)
    /\ ended \in BOOLEAN
    /\ DOMAIN spelling = {} => buffer = <<>>
    /\ Apart(spelling) /\ ~ ended =>
          \A c \in Seq(Chars) :
             Restore(spelling, received \o c) = emitted \o Restore(spelling, buffer \o c)
    /\ Apart(spelling) /\ ended => emitted = Restore(spelling, received)

\* Every vocabulary of the runs, and the empty one, is one a restorer can be made of.
LEMMA SpellingFacts ==
    ASSUME NEW v \in Vocabularies \cup {<<>>}
    PROVE  Spelled(v) /\ DOMAIN v \subseteq Aliases
<1>1. CASE v \in Vocabularies
  BY <1>1, RestorerAssumption DEF Spelled
<1>2. CASE v = <<>>
  <2>1. DOMAIN v = {}
    BY <1>2
  <2>2. QED
    BY <2>1, FS_EmptySet DEF Spelled
<1>3. QED
  BY <1>1, <1>2

\* A restorer begins with nothing held back.
LEMMA RestorerBegins ==
    ASSUME NEW v \in Vocabularies \cup {<<>>}, InitWith(v)
    PROVE  RestorerInv
<1>1. /\ spelling = v /\ received = <<>> /\ buffer = <<>> /\ emitted = <<>> /\ ended = FALSE
  BY DEF InitWith
<1>2. Spelled(v) /\ DOMAIN v \subseteq Aliases
  BY SpellingFacts
<1>3. <<>> \in Seq(Chars) /\ <<>> \in Seq(Shown)
  BY EmptySeq
<1>4. ASSUME NEW c \in Seq(Chars)
      PROVE  Restore(v, <<>> \o c) = <<>> \o Restore(v, <<>> \o c)
  <2>1. <<>> \o c = c
    BY ConcatEmptySeq
  <2>2. Restore(v, c) \in Seq(Shown)
    BY <1>2, RestoreIsShown
  <2>3. <<>> \o Restore(v, c) = Restore(v, c)
    BY <2>2, ConcatEmptySeq
  <2>4. QED
    BY <2>1, <2>3
<1>5. QED
  BY <1>1, <1>3, <1>4 DEF RestorerInv

\* A piece: what is emitted and what is held back are still all that was received.
LEMMA FeedStep ==
    ASSUME RestorerInv, NEW chunk \in Seq(Chars), Feed(chunk)
    PROVE  RestorerInv'
<1> DEFINE v == spelling
           t == buffer \o chunk
           cut == Len(t) - SuffixPrefixLen(v, t)
           left == SubSeq(t, 1, cut)
           rest == SubSeq(t, cut + 1, Len(t))
<1>1. /\ Spelled(v) /\ DOMAIN v \subseteq Aliases
      /\ received \in Seq(Chars) /\ buffer \in Seq(Chars) /\ emitted \in Seq(Shown)
      /\ ~ ended /\ ended' = ended /\ spelling' = spelling /\ received' = received \o chunk
  BY SpellingFacts DEF RestorerInv, Feed
<1>2. /\ t \in Seq(Chars) /\ received \o chunk \in Seq(Chars)
  BY <1>1, ConcatProperties
<1>3. \A p, q, r \in Seq(Chars) : (p \o q) \o r = p \o (q \o r)
  BY Associative
<1>4. \A p, q, r \in Seq(Shown) : (p \o q) \o r = p \o (q \o r)
  BY Associative
<1>5. \A p \in Seq(Chars) : Restore(v, p) \in Seq(Shown)
  BY <1>1, RestoreIsShown
<1>6. \A p, q \in Seq(Chars) : p \o q \in Seq(Chars)
  BY ConcatProperties
<1>7. \A p, q \in Seq(Shown) : p \o q \in Seq(Shown)
  BY ConcatProperties
<1>8. ASSUME Apart(v), NEW c \in Seq(Chars)
      PROVE  Restore(v, (received \o chunk) \o c) = emitted \o Restore(v, t \o c)
  <2>1. chunk \o c \in Seq(Chars)
    BY <1>6
  <2>2. Restore(v, received \o (chunk \o c)) = emitted \o Restore(v, buffer \o (chunk \o c))
    BY <1>1, <1>8, <2>1 DEF RestorerInv
  <2>3. (received \o chunk) \o c = received \o (chunk \o c) /\ t \o c = buffer \o (chunk \o c)
    BY <1>1, <1>3, ZenonT(40)
  <2>4. QED
    BY <2>2, <2>3
<1> HIDE DEF v
<1>9. CASE DOMAIN v = {}
  <2>1. emitted' = emitted \o chunk /\ buffer' = buffer /\ buffer = <<>> /\ t = chunk
    <3>1. emitted' = emitted \o chunk /\ buffer' = buffer /\ buffer = <<>>
      BY <1>9 DEF Feed, RestorerInv, v
    <3>2. QED
      BY <3>1, ConcatEmptySeq
  <2>2. chunk = Restore(v, chunk)
    BY <1>1, <1>9, RestoreNothing
  <2>3. chunk \in Seq(Shown)
    BY <1>5, <2>2
  <2>4. emitted' \in Seq(Shown)
    BY <1>1, <1>7, <2>1, <2>3
  <2>5. ASSUME Apart(v), NEW c \in Seq(Chars)
        PROVE  Restore(v, (received \o chunk) \o c) = (emitted \o chunk) \o Restore(v, buffer \o c)
    <3>1. chunk \o c \in Seq(Chars) /\ buffer \o c = c
      BY <1>6, <2>1, ConcatEmptySeq
    <3>2. Restore(v, chunk \o c) = chunk \o c /\ Restore(v, c) = c
      BY <1>1, <1>9, <3>1, RestoreNothing
    <3>3. c \in Seq(Shown)
      BY <1>5, <3>2
    <3>4. emitted \o (chunk \o c) = (emitted \o chunk) \o c
      BY <1>1, <1>4, <2>3, <3>3
    <3>5. QED
      BY <1>8, <2>1, <2>5, <3>1, <3>2, <3>4
  <2>6. QED
    BY <1>1, <1>2, <2>1, <2>4, <2>5 DEF RestorerInv, v
<1>10. CASE DOMAIN v # {}
  <2>1. emitted' = emitted \o Restore(v, left) /\ buffer' = rest
    BY <1>10 DEF Feed, v
  <2>2. left \in Seq(Chars) /\ rest \in Seq(Chars)
    <3>1. Len(t) \in Nat /\ SuffixPrefixLen(v, t) \in 0..Len(t)
      BY <1>1, <1>2, <1>10, HeldFacts, LenProperties
    <3> HIDE DEF t
    <3>2. cut \in 0..Len(t) /\ cut + 1 \in 1..(Len(t) + 1)
      BY <3>1
    <3> HIDE DEF cut
    <3>3. \A k \in 1..cut : t[k] \in Chars
      BY <1>2, <3>1, <3>2, ElementOfSeq
    <3>4. QED
      BY <1>2, <3>2, <3>3, EndFacts, SubSeqProperties
  <2>3. emitted' \in Seq(Shown)
    BY <1>1, <1>5, <1>7, <2>1, <2>2
  <2>4. ASSUME Apart(v), NEW c \in Seq(Chars)
        PROVE  Restore(v, (received \o chunk) \o c)
                 = (emitted \o Restore(v, left)) \o Restore(v, rest \o c)
    <3>1. t = left \o rest /\ Uncrossed(v, left, rest \o c)
      BY <1>1, <1>2, <1>10, <2>4, CutIsApart
    <3> HIDE DEF left, rest
    <3>2. t \o c = left \o (rest \o c) /\ rest \o c \in Seq(Chars)
      BY <1>3, <1>6, <2>2, <3>1
    <3>3. Restore(v, t \o c) = Restore(v, left) \o Restore(v, rest \o c)
      <4> DEFINE more == rest \o c
      <4>1. more \in Seq(Chars) /\ Uncrossed(v, left, more)
        BY <3>1, <3>2
      <4> HIDE DEF more
      <4>2. Restore(v, left \o more) = Restore(v, left) \o Restore(v, more)
        BY <1>1, <2>2, <4>1, RestoreConcat
      <4>3. t \o c = left \o more
        BY <3>2 DEF more
      <4>4. QED
        BY <4>2, <4>3 DEF more
    <3>4. emitted \o (Restore(v, left) \o Restore(v, rest \o c))
            = (emitted \o Restore(v, left)) \o Restore(v, rest \o c)
      BY <1>1, <1>4, <1>5, <2>2, <3>2, ZenonT(40)
    <3>5. QED
      BY <1>8, <2>4, <3>3, <3>4
  <2> HIDE DEF left, rest
  <2>5. QED
    BY <1>1, <1>2, <1>10, <2>1, <2>2, <2>3, <2>4 DEF RestorerInv, v
<1>11. QED
  BY <1>9, <1>10

\* The end: nothing is held back any more.
LEMMA FlushStep ==
    ASSUME RestorerInv, Flush
    PROVE  RestorerInv'
<1>1. /\ Spelled(spelling) /\ DOMAIN spelling \subseteq Aliases
      /\ ~ ended /\ ended' = TRUE /\ spelling' = spelling /\ received' = received
      /\ buffer' = <<>> /\ emitted' = emitted \o Restore(spelling, buffer)
  BY SpellingFacts DEF RestorerInv, Flush
<1>2. Restore(spelling, buffer) \in Seq(Shown)
  BY <1>1, RestoreIsShown DEF RestorerInv
<1>3. emitted' \in Seq(Shown) /\ buffer' \in Seq(Chars)
  BY <1>1, <1>2, ConcatProperties, EmptySeq DEF RestorerInv
<1>4. ASSUME Apart(spelling)
      PROVE  emitted' = Restore(spelling, received)
  <2>1. received \o <<>> = received /\ buffer \o <<>> = buffer /\ <<>> \in Seq(Chars)
    BY ConcatEmptySeq, EmptySeq DEF RestorerInv
  <2>2. Restore(spelling, received \o <<>>) = emitted \o Restore(spelling, buffer \o <<>>)
    BY <1>1, <1>4, <2>1 DEF RestorerInv
  <2>3. QED
    BY <1>1, <2>1, <2>2
<1>5. QED
  BY <1>1, <1>3, <1>4 DEF RestorerInv

\* Every step of the restorer keeps the invariant.
LEMMA RestorerStep ==
    ASSUME RestorerInv, [Next]_restorerVars
    PROVE  RestorerInv'
<1>1. ASSUME NEW chunk \in Chunks, Feed(chunk)
      PROVE  RestorerInv'
  <2>1. chunk \in Seq(Chars)
    BY DEF Chunks
  <2>2. QED
    BY <1>1, <2>1, FeedStep
<1>2. CASE Flush
  BY <1>2, FlushStep
<1>3. CASE UNCHANGED restorerVars
  BY <1>3 DEF restorerVars, RestorerInv
<1>4. QED
  BY <1>1, <1>2, <1>3 DEF Next

\* The invariant of the restorer, whatever the vocabulary and the pieces.
THEOREM SpecRestorerInv == Spec => []RestorerInv
<1>1. Init => RestorerInv
  <2>1. SUFFICES ASSUME NEW v \in Vocabularies, InitWith(v) PROVE RestorerInv
    BY DEF Init
  <2>2. QED
    BY <2>1, RestorerBegins
<1>2. RestorerInv /\ [Next]_vars => RestorerInv'
  BY RestorerStep DEF vars, restorerVars
<1>3. QED
  BY <1>1, <1>2, PTL DEF Spec

\* However a text was cut into pieces, the client sees what one restoration of the whole text
\* would have shown, if no alias ends as another begins.
THEOREM SplitIsInvisible == TextSpec => []SplitInvisibleIfApart
<1>1. TextInit => RestorerInv
  <2>1. TextInit => spelling \in Vocabularies \cup {<<>>} /\ InitWith(spelling)
    BY DEF TextInit
  <2>2. QED
    BY <2>1, RestorerBegins
<1>2. RestorerInv /\ [TextNext]_textVars => RestorerInv'
  <2>1. [TextNext]_textVars => [Next]_restorerVars
    BY DEF TextNext, textVars, restorerVars, AnswerAndRepeat, ResolvePolicy, CutSegments,
           CutWindows, FindTerm, Computes
  <2>2. QED
    BY <2>1, RestorerStep
<1>3. RestorerInv => SplitInvisibleIfApart
  BY DEF RestorerInv, SplitInvisibleIfApart, SplitInvisible
<1>4. QED
  BY <1>1, <1>2, <1>3, PTL DEF TextSpec

-----------------------------------------------------------------------------
(* Folds: the values of FoldLeft one after the other.                      *)

\* Recursion over the sets of the numbers to n, the greatest of a set coming last.
Folds(n, T, base, step) == n \in Nat /\ base \in T /\ step \in [(1..n) \X T -> T]

FoldAt(base, step, f, s) ==
    IF s = {} THEN base
    ELSE step[<<Engine!Max(s), f[s \ {Engine!Max(s)}]>>]

\* f folds step over the sets of the numbers to n.
Folded(n, T, base, step, f) ==
    /\ f \in [SUBSET (1..n) -> T]
    /\ \A s \in SUBSET (1..n) : f[s] = FoldAt(base, step, f, s)

\* The greatest of a set of numbers to m is one of them.
LEMMA GreatestUpTo ==
    ASSUME NEW m \in Nat, NEW s \in SUBSET (1..m)
    PROVE  s # {} => Engine!Max(s) \in s /\ \A k \in s : Engine!Max(s) >= k
<1>1. SUFFICES ASSUME s # {} PROVE \E k \in s : \A l \in s : k >= l
  BY DEF Engine!Max
<1>2. IsFiniteSet(1..m)
  BY FS_Interval
<1>3. IsFiniteSet(s) /\ s \in SUBSET Nat
  <2> DEFINE all == 1..m
  <2>1. s \subseteq all /\ IsFiniteSet(all)
    BY <1>2
  <2>2. all \subseteq Nat
    OBVIOUS
  <2> HIDE DEF all
  <2>3. QED
    BY <2>1, <2>2, FS_Subset
<1>4. QED
  BY <1>1, <1>3, GreatestOfFinite

\* There is the function that folds the steps over every set of the numbers to n.
LEMMA SubsetFunction ==
    ASSUME NEW n, NEW T, NEW base, NEW step, Folds(n, T, base, step)
    PROVE  \E f : Folded(n, T, base, step, f)
<1> DEFINE To(m, f) == /\ f \in [SUBSET (1..m) -> T]
                       /\ \A s \in SUBSET (1..m) : f[s] = FoldAt(base, step, f, s)
           P == {m \in Nat : m <= n => \E f : To(m, f)}
<1>1. n \in Nat /\ base \in T /\ step \in [(1..n) \X T -> T]
  BY DEF Folds
<1>2. 0 \in P
  <2> DEFINE f == [s \in SUBSET (1..0) |-> base]
  <2>1. \A s \in SUBSET (1..0) : s = {}
    OBVIOUS
  <2>2. To(0, f)
    BY <1>1, <2>1 DEF FoldAt
  <2> HIDE DEF To, f
  <2>3. QED
    BY <2>2
<1>3. ASSUME NEW m \in P
      PROVE  m + 1 \in P
  <2>1. m \in Nat /\ (m <= n => \E f : To(m, f))
    <3> HIDE DEF To
    <3>1. QED
      OBVIOUS
  <2>2. SUFFICES ASSUME m + 1 <= n
                 PROVE  \E f : To(m + 1, f)
    <3> HIDE DEF To
    <3>1. QED
      BY <2>1
  <2>3. PICK g : To(m, g)
    <3> HIDE DEF To
    <3>1. QED
      BY <1>1, <2>1, <2>2
  <2> DEFINE k == m + 1
             f == [s \in SUBSET (1..k) |->
                      IF k \in s THEN step[<<k, g[s \ {k}]>>] ELSE g[s]]
  <2>4. k \in 1..n /\ k \in Nat /\ 1..m \subseteq 1..k /\ k \notin 1..m /\ \A j \in 1..k : k >= j
    BY <1>1, <2>1, <2>2
  <2>5. \A s \in SUBSET (1..k) : s \ {k} \in SUBSET (1..m) /\ (k \notin s => s \in SUBSET (1..m))
    <3>1. \A j \in 1..k : j # k => j \in 1..m
      BY <2>1
    <3> HIDE DEF k
    <3>2. QED
      BY <3>1
  <2> HIDE DEF k
  <2>6. \A s \in SUBSET (1..k) : f[s] \in T /\ (s \in SUBSET (1..m) => f[s] = g[s])
    <3>1. ASSUME NEW s \in SUBSET (1..k)
          PROVE  f[s] \in T /\ (s \in SUBSET (1..m) => f[s] = g[s])
      <4>1. g[s \ {k}] \in T /\ (k \notin s => g[s] \in T)
        BY <2>3, <2>5
      <4>2. step[<<k, g[s \ {k}]>>] \in T
        BY <1>1, <2>4, <4>1
      <4>3. s \in SUBSET (1..m) => k \notin s
        BY <2>4
      <4>4. QED
        BY <4>1, <4>2, <4>3
    <3>2. QED
      BY <3>1
  <2>7. f \in [SUBSET (1..k) -> T]
    BY <2>6
  <2>8. ASSUME NEW s \in SUBSET (1..k)
        PROVE  f[s] = FoldAt(base, step, f, s)
    <3>1. CASE k \notin s
      <4>1. s \in SUBSET (1..m) /\ f[s] = g[s]
        BY <2>5, <2>6, <3>1
      <4>2. g[s] = FoldAt(base, step, g, s)
        BY <2>3, <4>1
      <4> DEFINE r == s \ {Engine!Max(s)}
      <4>3. r \in SUBSET (1..m) /\ r \in SUBSET (1..k)
        BY <2>4, <4>1
      <4>4. f[r] = g[r]
        BY <2>6, <4>3
      <4> HIDE DEF f
      <4>5. QED
        BY <4>1, <4>2, <4>4 DEF FoldAt
    <3>2. CASE k \in s
      <4>1. Engine!Max(s) = k
        <5>1. Engine!Max(s) \in s /\ Engine!Max(s) >= k
          BY <2>4, <3>2, GreatestUpTo
        <5>2. k >= Engine!Max(s) /\ Engine!Max(s) \in Nat
          <6>1. Engine!Max(s) \in 1..k
            BY <5>1
          <6>2. QED
            BY <2>4, <6>1
        <5>3. QED
          BY <2>4, <5>1, <5>2
      <4>2. s \ {k} \in SUBSET (1..m) /\ s \ {k} \in SUBSET (1..k)
        BY <2>4, <2>5
      <4>3. f[s \ {k}] = g[s \ {k}]
        BY <2>6, <4>2
      <4>4. f[s] = step[<<k, g[s \ {k}]>>]
        BY <3>2
      <4> HIDE DEF f
      <4>5. QED
        BY <3>2, <4>1, <4>3, <4>4 DEF FoldAt
    <3>3. QED
      BY <3>1, <3>2
  <2> HIDE DEF f
  <2>9. To(k, f)
    BY <2>7, <2>8
  <2> HIDE DEF To
  <2>10. QED
    BY <2>9 DEF k
<1>4. P = Nat
  <2> HIDE DEF P
  <2>1. P \in SUBSET Nat
    BY DEF P
  <2>2. QED
    BY <1>2, <1>3, <2>1, NatFrom0
<1>5. \E f : To(n, f)
  <2>1. n \in P
    <3> HIDE DEF P
    <3>1. QED
      BY <1>1, <1>4
  <2> HIDE DEF To
  <2>2. QED
    BY <1>1, <2>1
<1>6. QED
  BY <1>5 DEF Folded

\* The numbers up to one are those before it, and itself.
LEMMA UpTo ==
    ASSUME NEW n \in Nat, NEW i \in 1..n
    PROVE  /\ 1..i \in SUBSET (1..n) /\ 1..i # {} /\ Engine!Max(1..i) = i
           /\ (1..i) \ {i} = 1..(i - 1)
<1>1. i \in 1..i /\ 1..i \in SUBSET (1..n) /\ 1..i # {}
  OBVIOUS
<1>2. (1..i) \ {i} = 1..(i - 1)
  OBVIOUS
<1> DEFINE s == 1..i
           m == Engine!Max(s)
<1>3. m \in s /\ m >= i
  <2>1. s \in SUBSET (1..n) /\ s # {} /\ i \in s
    BY <1>1
  <2> HIDE DEF s
  <2>2. QED
    BY <2>1, GreatestUpTo
<1>4. m = i
  <2>1. m \in 1..i /\ m >= i
    BY <1>3
  <2> HIDE DEF m
  <2>2. QED
    BY <2>1
<1>5. QED
  BY <1>1, <1>2, <1>4

\* A set of numbers to n that has 0 and, with each, the next has them all.
LEMMA Climb ==
    ASSUME NEW n \in Nat, NEW A, 0 \in A, \A i \in 1..n : i - 1 \in A => i \in A
    PROVE  \A i \in 0..n : i \in A
<1> DEFINE P == {i \in Nat : i <= n => i \in A}
<1>1. 0 \in P
  OBVIOUS
<1>2. ASSUME NEW i \in P
      PROVE  i + 1 \in P
  <2>1. ASSUME i + 1 <= n
        PROVE  i + 1 \in A
    <3>1. i + 1 \in 1..n /\ (i + 1) - 1 = i /\ i \in A
      BY <2>1
    <3>2. QED
      BY <3>1
  <2>2. QED
    BY <2>1
<1>3. P = Nat
  <2> HIDE DEF P
  <2>1. P \in SUBSET Nat
    BY DEF P
  <2>2. QED
    BY <1>1, <1>2, <2>1, NatFrom0
<1>4. QED
  BY <1>3

\* it has a value for each set of the numbers to n, made of the one without the greatest.
Unrolled(n, T, base, step, it) ==
    /\ it[{}] = base
    /\ \A s \in SUBSET (1..n) :
          s # {} /\ it[s \ {Engine!Max(s)}] \in T
              => it[s] = step[<<Engine!Max(s), it[s \ {Engine!Max(s)}]>>]

\* The values h of a fold, the first being base and the last final.
Run(n, T, base, step, h, final) ==
    /\ h \in [0..n -> T]
    /\ h[0] = base /\ h[n] = final
    /\ \A i \in 1..n : h[i] = step[<<i, h[i - 1]>>]

\* A fold over all the numbers to n goes from one to the next.
LEMMA FoldRuns ==
    ASSUME NEW n, NEW T, NEW base, NEW step, NEW it,
           Folds(n, T, base, step), Unrolled(n, T, base, step, it)
    PROVE  \E h : Run(n, T, base, step, h, it[1..n])
<1> DEFINE h == [i \in 0..n |-> it[1..i]]
<1>1. n \in Nat /\ base \in T /\ step \in [(1..n) \X T -> T]
  BY DEF Folds
<1>2. h[0] = base
  <2>1. 1..0 = {} /\ 0 \in 0..n
    BY <1>1
  <2>2. QED
    BY <2>1 DEF Unrolled
<1>3. ASSUME NEW i \in 1..n, h[i - 1] \in T
      PROVE  h[i] = step[<<i, h[i - 1]>>] /\ h[i] \in T
  <2>1. /\ 1..i \in SUBSET (1..n) /\ 1..i # {} /\ Engine!Max(1..i) = i
        /\ (1..i) \ {i} = 1..(i - 1)
    BY <1>1, UpTo
  <2>2. i \in 0..n /\ i - 1 \in 0..n
    BY <1>1
  <2>3. h[i] = it[1..i] /\ h[i - 1] = it[1..(i - 1)]
    BY <2>2
  <2>4. it[1..i] = step[<<i, it[1..(i - 1)]>>]
    <3> HIDE DEF h
    <3>1. QED
      BY <1>3, <2>1, <2>3 DEF Unrolled
  <2> HIDE DEF h
  <2>5. QED
    BY <1>1, <1>3, <2>3, <2>4
<1>4. h[n] = it[1..n] /\ h = [i \in 0..n |-> h[i]]
  BY <1>1
<1> HIDE DEF h
<1>5. \A i \in 0..n : h[i] \in T
  <2> DEFINE A == {i \in 0..n : h[i] \in T}
  <2>1. 0 \in A
    BY <1>1, <1>2
  <2>2. ASSUME NEW i \in 1..n, i - 1 \in A
        PROVE  i \in A
    <3>1. i \in 0..n /\ h[i - 1] \in T
      BY <1>1, <2>2
    <3>2. QED
      BY <1>3, <3>1
  <2>3. \A i \in 0..n : i \in A
    <3> HIDE DEF A
    <3>1. QED
      BY <1>1, <2>1, <2>2, Climb
  <2>4. QED
    BY <2>3
<1>6. \A i \in 1..n : i - 1 \in 0..n /\ h[i] = step[<<i, h[i - 1]>>]
  BY <1>1, <1>3, <1>5
<1>7. h \in [0..n -> T]
  BY <1>4, <1>5
<1>8. Run(n, T, base, step, h, it[1..n])
  BY <1>2, <1>4, <1>6, <1>7 DEF Run
<1>9. QED
  BY <1>8

-----------------------------------------------------------------------------
(* SSEParser: the events do not depend on where the stream was cut.        *)

\* The greatest numbers of ContextSegments and of SSEParser are the same.
LEMMA SameGreatest ==
    ASSUME NEW s
    PROVE  SSE!Max(s) = Engine!Max(s)
BY DEF SSE!Max, Engine!Max

\* What Unix does with a character
UnixOne(acc, c) ==
    [last |-> c,
     text |-> IF c = SSE!CR THEN Append(acc.text, SSE!LF)
              ELSE IF c = SSE!LF /\ acc.last = SSE!CR THEN acc.text
              ELSE Append(acc.text, c)]

UnixState == [last : SSE!Characters, text : Seq(SSE!Characters)]
UnixFirst == [last |-> SSE!LF, text |-> <<>>]

\* The text so far, character by character.
UnixRun(t, h) ==
    /\ h \in [0..Len(t) -> UnixState]
    /\ h[0] = UnixFirst
    /\ \A i \in 1..Len(t) : h[i] = UnixOne(h[i - 1], t[i])
    /\ SSE!Unix(t) = h[Len(t)].text

\* There is such a run for every text.
LEMMA UnixRuns ==
    ASSUME NEW t \in Seq(SSE!Characters)
    PROVE  \E h : UnixRun(t, h)
<1> DEFINE n == Len(t)
           T == UnixState
           base == UnixFirst
           step == [p \in (1..n) \X T |-> UnixOne(p[2], t[p[1]])]
           Value(g, s) == IF s = {} THEN UnixFirst ELSE UnixOne(g[s \ {SSE!Max(s)}], t[SSE!Max(s)])
           Its(g) == g = [s \in SUBSET (DOMAIN t) |-> Value(g, s)]
           it == CHOOSE g : Its(g)
<1>1. n \in Nat /\ DOMAIN t = 1..n /\ base \in T /\ \A i \in 1..n : t[i] \in SSE!Characters
  <2>1. base \in T
    BY DEF UnixState, UnixFirst, SSE!Characters
  <2>2. QED
    BY <2>1, LenProperties
<1>2. \A q \in T, c \in SSE!Characters : UnixOne(q, c) \in T
  <2>1. SSE!LF \in SSE!Characters
    BY DEF SSE!Characters
  <2>2. QED
    BY <2>1 DEF UnixOne, UnixState
<1>3. SSE!Unix(t) = it[DOMAIN t].text
  BY DEF SSE!Unix, SSE!FoldLeft, SSE!MapThenFoldSet, UnixOne, UnixFirst
<1> HIDE DEF n, T, base, it
<1>4. \A p \in (1..n) \X T : step[p] = UnixOne(p[2], t[p[1]]) /\ step[p] \in T
  BY <1>1, <1>2
<1>5. step \in [(1..n) \X T -> T]
  BY <1>4
<1> HIDE DEF step
<1>6. Folds(n, T, base, step)
  BY <1>1, <1>5 DEF Folds
<1>7. \A i \in 1..n, v \in T : step[<<i, v>>] = UnixOne(v, t[i])
  BY <1>4
<1>8. Its(it)
  <2>1. PICK f : Folded(n, T, base, step, f)
    BY <1>6, SubsetFunction
  <2>2. \A s \in SUBSET (1..n) : f[s] \in T /\ f[s] = FoldAt(base, step, f, s)
    BY <2>1 DEF Folded
  <2>3. \A s \in SUBSET (1..n) : f[s] = Value(f, s)
    BY <1>1, <1>7, <2>2, GreatestUpTo, SameGreatest DEF FoldAt, base
  <2>4. f = [s \in SUBSET (1..n) |-> f[s]]
    BY <2>1 DEF Folded
  <2> HIDE DEF Value
  <2>5. Its(f)
    BY <1>1, <2>3, <2>4
  <2> HIDE DEF Its
  <2>6. QED
    BY <2>5 DEF it
<1>9. Unrolled(n, T, base, step, it)
  <2>1. \A s \in SUBSET (1..n) : it[s] = Value(it, s)
    <3> HIDE DEF Value
    <3>1. QED
      BY <1>1, <1>8
  <2>2. QED
    BY <1>1, <1>7, <2>1, GreatestUpTo, SameGreatest DEF Unrolled, base
<1>10. PICK h : Run(n, T, base, step, h, it[1..n])
  BY <1>6, <1>9, FoldRuns
<1>11. /\ h \in [0..n -> T] /\ h[0] = base /\ h[n].text = SSE!Unix(t)
       /\ \A i \in 1..n : h[i] = step[<<i, h[i - 1]>>]
  BY <1>1, <1>3, <1>10 DEF Run
<1>12. \A i \in 1..n : h[i] = UnixOne(h[i - 1], t[i])
  <2>1. \A i \in 1..n : h[i - 1] \in T
    BY <1>1, <1>11
  <2>2. QED
    BY <1>7, <1>11, <2>1
<1>13. UnixRun(t, h)
  BY <1>11, <1>12 DEF UnixRun, n, T, base
<1>14. QED
  BY <1>13

\* What was parsed so far
Events == {SSE!EventFromLines(ls) : ls \in Seq(Seq(SSE!Characters))}
ParserState == [pending : Seq(SSE!Characters), lines : Seq(Seq(SSE!Characters)), events : Seq(Events)]

\* The parser's state, character by character.
TakeRun(state, t, h) ==
    /\ h \in [0..Len(t) -> ParserState]
    /\ h[0] = state
    /\ \A i \in 1..Len(t) : h[i] = SSE!Take(h[i - 1], t[i])
    /\ SSE!TakeAll(state, t) = h[Len(t)]

\* A character keeps the state one of a parser.
LEMMA TakeTyped ==
    ASSUME NEW state \in ParserState, NEW c \in SSE!Characters
    PROVE  SSE!Take(state, c) \in ParserState
<1>1. /\ state.pending \in Seq(SSE!Characters) /\ state.lines \in Seq(Seq(SSE!Characters))
      /\ state.events \in Seq(Events)
  BY DEF ParserState
<1>2. Append(state.pending, c) \in Seq(SSE!Characters)
  BY <1>1
<1>3. Append(state.lines, state.pending) \in Seq(Seq(SSE!Characters)) /\ <<>> \in Seq(SSE!Characters)
      /\ <<>> \in Seq(Seq(SSE!Characters))
  <2> DEFINE S == Seq(SSE!Characters)
  <2>1. state.pending \in S /\ state.lines \in Seq(S)
    BY <1>1
  <2> HIDE DEF S
  <2>2. Append(state.lines, state.pending) \in Seq(S) /\ <<>> \in Seq(S)
    BY <2>1
  <2>3. QED
    BY <2>2 DEF S
<1>4. Append(state.events, SSE!EventFromLines(state.lines)) \in Seq(Events)
  <2>1. SSE!EventFromLines(state.lines) \in Events
    BY <1>1 DEF Events
  <2>2. QED
    BY <1>1, <2>1
<1>5. QED
  BY <1>1, <1>2, <1>3, <1>4 DEF SSE!Take, ParserState

\* There is such a run from every state and for every text.
LEMMA TakeRuns ==
    ASSUME NEW state \in ParserState, NEW t \in Seq(SSE!Characters)
    PROVE  \E h : TakeRun(state, t, h)
<1> DEFINE n == Len(t)
           T == ParserState
           base == state
           step == [p \in (1..n) \X T |-> SSE!Take(p[2], t[p[1]])]
           Value(g, s) == IF s = {} THEN state ELSE SSE!Take(g[s \ {SSE!Max(s)}], t[SSE!Max(s)])
           Its(g) == g = [s \in SUBSET (DOMAIN t) |-> Value(g, s)]
           it == CHOOSE g : Its(g)
<1>1. n \in Nat /\ DOMAIN t = 1..n /\ base \in T /\ \A i \in 1..n : t[i] \in SSE!Characters
  BY LenProperties
<1>2. \A q \in T, c \in SSE!Characters : SSE!Take(q, c) \in T
  BY TakeTyped
<1>3. SSE!TakeAll(state, t) = it[DOMAIN t]
  BY DEF SSE!TakeAll, SSE!FoldLeft, SSE!MapThenFoldSet
<1> HIDE DEF n, T, base, it
<1>4. \A p \in (1..n) \X T : step[p] = SSE!Take(p[2], t[p[1]]) /\ step[p] \in T
  BY <1>1, <1>2
<1>5. step \in [(1..n) \X T -> T]
  BY <1>4
<1> HIDE DEF step
<1>6. Folds(n, T, base, step)
  BY <1>1, <1>5 DEF Folds
<1>7. \A i \in 1..n, v \in T : step[<<i, v>>] = SSE!Take(v, t[i])
  BY <1>4
<1>8. Its(it)
  <2>1. PICK f : Folded(n, T, base, step, f)
    BY <1>6, SubsetFunction
  <2>2. \A s \in SUBSET (1..n) : f[s] \in T /\ f[s] = FoldAt(base, step, f, s)
    BY <2>1 DEF Folded
  <2>3. \A s \in SUBSET (1..n) : f[s] = Value(f, s)
    BY <1>1, <1>7, <2>2, GreatestUpTo, SameGreatest DEF FoldAt, base
  <2>4. f = [s \in SUBSET (1..n) |-> f[s]]
    BY <2>1 DEF Folded
  <2> HIDE DEF Value
  <2>5. Its(f)
    BY <1>1, <2>3, <2>4
  <2> HIDE DEF Its
  <2>6. QED
    BY <2>5 DEF it
<1>9. Unrolled(n, T, base, step, it)
  <2>1. \A s \in SUBSET (1..n) : it[s] = Value(it, s)
    <3> HIDE DEF Value
    <3>1. QED
      BY <1>1, <1>8
  <2>2. QED
    BY <1>1, <1>7, <2>1, GreatestUpTo, SameGreatest DEF Unrolled, base
<1>10. PICK h : Run(n, T, base, step, h, it[1..n])
  BY <1>6, <1>9, FoldRuns
<1>11. /\ h \in [0..n -> T] /\ h[0] = base /\ h[n] = SSE!TakeAll(state, t)
       /\ \A i \in 1..n : h[i] = step[<<i, h[i - 1]>>]
  BY <1>1, <1>3, <1>10 DEF Run
<1>12. \A i \in 1..n : h[i] = SSE!Take(h[i - 1], t[i])
  <2>1. \A i \in 1..n : h[i - 1] \in T
    BY <1>1, <1>11
  <2>2. QED
    BY <1>7, <1>11, <2>1
<1>13. TakeRun(state, t, h)
  BY <1>11, <1>12 DEF TakeRun, n, T, base
<1>14. QED
  BY <1>13

\* Of a text with another behind it.
LEMMA ConcatFacts ==
    ASSUME NEW S, NEW a \in Seq(S), NEW b \in Seq(S)
    PROVE  /\ a \o b \in Seq(S) /\ Len(a) \in Nat /\ Len(b) \in Nat
           /\ Len(a \o b) = Len(a) + Len(b)
           /\ \A i \in 1..Len(a) : (a \o b)[i] = a[i]
           /\ \A i \in 1..Len(b) : (a \o b)[Len(a) + i] = b[i]
<1>1. a \o b \in Seq(S) /\ Len(a) \in Nat /\ Len(b) \in Nat /\ Len(a \o b) = Len(a) + Len(b)
  BY LenProperties, ConcatProperties
<1>2. \A i \in 1..(Len(a) + Len(b)) : (a \o b)[i] = IF i <= Len(a) THEN a[i] ELSE b[i - Len(a)]
  BY ConcatProperties
<1>3. \A i \in 1..Len(b) : Len(a) + i \in 1..(Len(a) + Len(b)) /\ ~ (Len(a) + i <= Len(a))
                           /\ (Len(a) + i) - Len(a) = i
  BY <1>1
<1>4. \A i \in 1..Len(a) : i \in 1..(Len(a) + Len(b)) /\ i <= Len(a)
  BY <1>1
<1>5. QED
  BY <1>1, <1>2, <1>3, <1>4

\* Parsed one after the other, two texts are parsed as one.
LEMMA TakeConcat ==
    ASSUME NEW state \in ParserState, NEW a \in Seq(SSE!Characters), NEW b \in Seq(SSE!Characters)
    PROVE  /\ SSE!TakeAll(state, a) \in ParserState
           /\ SSE!TakeAll(state, a \o b) = SSE!TakeAll(SSE!TakeAll(state, a), b)
<1> DEFINE m == Len(a)
           n == Len(b)
           c == a \o b
           mid == SSE!TakeAll(state, a)
<1>1. /\ c \in Seq(SSE!Characters) /\ m \in Nat /\ n \in Nat /\ Len(c) = m + n
      /\ \A i \in 1..m : c[i] = a[i]
      /\ \A i \in 1..n : c[m + i] = b[i]
  BY ConcatFacts
<1>2. PICK g : TakeRun(state, a, g)
  BY TakeRuns
<1>3. mid \in ParserState /\ g[m] = mid /\ g[0] = state /\ \A i \in 1..m : g[i] = SSE!Take(g[i - 1], a[i])
  <2>1. m \in 0..m
    BY <1>1
  <2>2. QED
    BY <1>2, <2>1 DEF TakeRun
<1> HIDE DEF c, mid
<1>4. PICK h : TakeRun(state, c, h)
  BY <1>1, TakeRuns
<1>5. PICK k : TakeRun(mid, b, k)
  BY <1>3, TakeRuns
<1>6. /\ h[0] = state /\ \A i \in 1..(m + n) : h[i] = SSE!Take(h[i - 1], c[i])
      /\ SSE!TakeAll(state, c) = h[m + n]
  BY <1>1, <1>4 DEF TakeRun
<1>7. k[0] = mid /\ (\A i \in 1..n : k[i] = SSE!Take(k[i - 1], b[i])) /\ SSE!TakeAll(mid, b) = k[n]
  BY <1>5 DEF TakeRun
<1> HIDE DEF m, n
<1>8. \A i \in 0..m : h[i] = g[i]
  <2> DEFINE A == {i \in 0..m : h[i] = g[i]}
  <2>1. 0 \in A
    BY <1>1, <1>3, <1>6
  <2>2. ASSUME NEW i \in 1..m, i - 1 \in A
        PROVE  i \in A
    <3>1. i \in 0..m /\ i \in 1..(m + n) /\ h[i - 1] = g[i - 1]
      BY <1>1, <2>2
    <3>2. QED
      BY <1>1, <1>3, <1>6, <3>1
  <2> HIDE DEF A
  <2>3. \A i \in 0..m : i \in A
    BY <1>1, <2>1, <2>2, Climb
  <2>4. QED
    BY <2>3 DEF A
<1>9. \A i \in 0..n : h[m + i] = k[i]
  <2> DEFINE A == {i \in 0..n : h[m + i] = k[i]}
  <2>1. 0 \in A
    <3>1. m \in 0..m /\ m + 0 = m /\ 0 \in 0..n
      BY <1>1
    <3>2. QED
      BY <1>3, <1>7, <1>8, <3>1
  <2>2. ASSUME NEW i \in 1..n, i - 1 \in A
        PROVE  i \in A
    <3>1. i \in 0..n /\ m + i \in 1..(m + n) /\ (m + i) - 1 = m + (i - 1) /\ h[m + (i - 1)] = k[i - 1]
      BY <1>1, <2>2
    <3>2. QED
      BY <1>1, <1>6, <1>7, <3>1
  <2> HIDE DEF A
  <2>3. \A i \in 0..n : i \in A
    BY <1>1, <2>1, <2>2, Climb
  <2>4. QED
    BY <2>3 DEF A
<1>10. h[m + n] = k[n]
  <2>1. n \in 0..n
    BY <1>1
  <2>2. QED
    BY <1>9, <2>1
<1>11. SSE!TakeAll(state, c) = SSE!TakeAll(mid, b)
  BY <1>6, <1>7, <1>10
<1>12. QED
  BY <1>3, <1>11 DEF c, mid

\* What a character leaves as the last one, and what it adds to the text
LEMMA UnixOneFacts ==
    ASSUME NEW acc, NEW c
    PROVE  /\ UnixOne(acc, c).last = c
           /\ UnixOne(acc, c).text =
                 IF c = SSE!CR THEN Append(acc.text, SSE!LF)
                 ELSE IF c = SSE!LF /\ acc.last = SSE!CR THEN acc.text
                 ELSE Append(acc.text, c)
BY DEF UnixOne

\* Line ends are the same in two texts and in both together, unless a CRLF is cut.
LEMMA UnixConcat ==
    ASSUME NEW a \in Seq(SSE!Characters), NEW b \in Seq(SSE!Characters),
           ~ (a # <<>> /\ b # <<>> /\ a[Len(a)] = SSE!CR /\ b[1] = SSE!LF)
    PROVE  /\ SSE!Unix(a) \in Seq(SSE!Characters)
           /\ SSE!Unix(a \o b) = SSE!Unix(a) \o SSE!Unix(b)
<1> DEFINE m == Len(a)
           n == Len(b)
           c == a \o b
<1>1. /\ c \in Seq(SSE!Characters) /\ m \in Nat /\ n \in Nat /\ Len(c) = m + n
      /\ \A i \in 1..m : c[i] = a[i]
      /\ \A i \in 1..n : c[m + i] = b[i]
  BY ConcatFacts
<1>2. PICK g : UnixRun(a, g)
  BY UnixRuns
<1>3. PICK k : UnixRun(b, k)
  BY UnixRuns
<1> HIDE DEF c
<1>4. PICK h : UnixRun(c, h)
  BY <1>1, UnixRuns
<1>5. /\ g \in [0..m -> UnixState] /\ g[0] = UnixFirst
      /\ \A i \in 1..m : g[i] = UnixOne(g[i - 1], a[i])
      /\ SSE!Unix(a) = g[m].text
  BY <1>2 DEF UnixRun
<1>6. /\ k \in [0..n -> UnixState] /\ k[0] = UnixFirst
      /\ \A i \in 1..n : k[i] = UnixOne(k[i - 1], b[i])
      /\ SSE!Unix(b) = k[n].text
  BY <1>3 DEF UnixRun
<1>7. /\ h[0] = UnixFirst
      /\ \A i \in 1..(m + n) : h[i] = UnixOne(h[i - 1], c[i])
      /\ SSE!Unix(c) = h[m + n].text
  BY <1>1, <1>4 DEF UnixRun
<1>8. m # 0 /\ n # 0 => ~ (a[m] = SSE!CR /\ b[1] = SSE!LF)
  <2>1. (m # 0 => a # <<>>) /\ (n # 0 => b # <<>>)
    BY EmptySeq
  <2>2. QED
    BY <2>1
<1> HIDE DEF m, n
<1>9. SSE!LF # SSE!CR
  BY DEF SSE!LF, SSE!CR
<1>10. \A i \in 0..m : h[i] = g[i]
  <2> DEFINE A == {i \in 0..m : h[i] = g[i]}
  <2>1. 0 \in A
    BY <1>1, <1>5, <1>7
  <2>2. ASSUME NEW i \in 1..m, i - 1 \in A
        PROVE  i \in A
    <3>1. i \in 0..m /\ i \in 1..(m + n) /\ h[i - 1] = g[i - 1]
      BY <1>1, <2>2
    <3>2. c[i] = a[i] /\ h[i] = UnixOne(h[i - 1], c[i]) /\ g[i] = UnixOne(g[i - 1], a[i])
      <4> HIDE DEF A
      <4>1. QED
        BY <1>1, <1>5, <1>7, <2>2, <3>1
    <3>3. h[i] = g[i]
      BY <3>1, <3>2, Zenon
    <3>4. QED
      BY <3>1, <3>3
  <2> HIDE DEF A
  <2>3. \A i \in 0..m : i \in A
    BY <1>1, <2>1, <2>2, Climb
  <2>4. QED
    BY <2>3 DEF A
<1> DEFINE first == g[m].text
<1>11. first \in Seq(SSE!Characters) /\ h[m] = g[m]
  <2>1. m \in 0..m
    BY <1>1
  <2>2. QED
    BY <1>5, <1>10, <2>1 DEF UnixState
<1>12. \A i \in 0..n : k[i].text \in Seq(SSE!Characters)
  BY <1>6 DEF UnixState
<1>13. \A i \in 1..n : k[i].last = b[i] /\ h[m + i].last = b[i]
  <2>1. ASSUME NEW i \in 1..n
        PROVE  k[i].last = b[i] /\ h[m + i].last = b[i]
    <3>1. m + i \in 1..(m + n)
      BY <1>1
    <3>2. h[m + i] = UnixOne(h[(m + i) - 1], b[i]) /\ k[i] = UnixOne(k[i - 1], b[i])
      BY <1>1, <1>6, <1>7, <3>1
    <3>3. QED
      BY <3>2, UnixOneFacts
  <2>2. QED
    BY <2>1
<1>14. n # 0 => ~ (h[m].last = SSE!CR /\ b[1] = SSE!LF)
  <2>1. CASE m = 0
    BY <1>5, <1>9, <1>11, <2>1 DEF UnixFirst
  <2>2. CASE m # 0
    <3>1. m \in 1..m
      BY <1>1, <2>2
    <3>2. h[m].last = a[m]
      BY <1>5, <1>11, <3>1, UnixOneFacts
    <3>3. QED
      BY <1>8, <2>2, <3>2
  <2>3. QED
    BY <2>1, <2>2
<1> HIDE DEF first
<1>15. \A i \in 0..n : h[m + i].text = first \o k[i].text
  <2> DEFINE A == {i \in 0..n : h[m + i].text = first \o k[i].text}
  <2>1. 0 \in A
    <3>1. m + 0 = m /\ 0 \in 0..n /\ k[0].text = <<>>
      BY <1>1, <1>6 DEF UnixFirst
    <3>2. first \o <<>> = first
      BY <1>11
    <3>3. QED
      BY <1>11, <3>1, <3>2 DEF first
  <2>2. ASSUME NEW i \in 1..n, i - 1 \in A
        PROVE  i \in A
    <3> DEFINE p == h[m + (i - 1)]
               q == k[i - 1]
    <3>1. /\ i \in 0..n /\ i - 1 \in 0..n /\ m + i \in 1..(m + n) /\ (m + i) - 1 = m + (i - 1)
          /\ p.text = first \o q.text
      BY <1>1, <2>2
    <3>2. h[m + i] = UnixOne(p, b[i]) /\ k[i] = UnixOne(q, b[i])
      BY <1>1, <1>6, <1>7, <3>1
    <3>3. (b[i] = SSE!LF /\ p.last = SSE!CR) <=> (b[i] = SSE!LF /\ q.last = SSE!CR)
      <4>1. CASE i = 1
        BY <1>1, <1>6, <1>9, <1>14, <4>1 DEF UnixFirst
      <4>2. CASE i # 1
        <5>1. i - 1 \in 1..n
          BY <1>1, <4>2
        <5>2. QED
          BY <1>13, <5>1
      <4>3. QED
        BY <4>1, <4>2
    <3>4. q.text \in Seq(SSE!Characters)
      BY <1>12, <3>1
    <3> HIDE DEF p, q
    <3>5. \A e \in SSE!Characters : first \o Append(q.text, e) = Append(first \o q.text, e)
      BY <1>11, <3>4
    <3>6. b[i] \in SSE!Characters /\ SSE!LF \in SSE!Characters
      BY LenProperties DEF n, SSE!Characters
    <3>7. h[m + i].text = first \o k[i].text
      <4>1. h[m + i].text = IF b[i] = SSE!CR THEN Append(p.text, SSE!LF)
                            ELSE IF b[i] = SSE!LF /\ p.last = SSE!CR THEN p.text
                            ELSE Append(p.text, b[i])
        BY <3>2, UnixOneFacts
      <4>2. k[i].text = IF b[i] = SSE!CR THEN Append(q.text, SSE!LF)
                        ELSE IF b[i] = SSE!LF /\ q.last = SSE!CR THEN q.text
                        ELSE Append(q.text, b[i])
        BY <3>2, UnixOneFacts
      <4>3. CASE b[i] = SSE!CR
        BY <3>1, <3>5, <3>6, <4>1, <4>2, <4>3
      <4>4. CASE b[i] # SSE!CR /\ b[i] = SSE!LF /\ p.last = SSE!CR
        BY <3>1, <3>3, <4>1, <4>2, <4>4
      <4>5. CASE b[i] # SSE!CR /\ ~ (b[i] = SSE!LF /\ p.last = SSE!CR)
        BY <3>1, <3>3, <3>5, <3>6, <4>1, <4>2, <4>5
      <4>6. QED
        BY <4>3, <4>4, <4>5
    <3>8. QED
      BY <3>1, <3>7
  <2> HIDE DEF A
  <2>3. \A i \in 0..n : i \in A
    BY <1>1, <2>1, <2>2, Climb
  <2>4. QED
    BY <2>3 DEF A
<1>16. h[m + n].text = first \o k[n].text
  <2>1. n \in 0..n
    BY <1>1
  <2>2. QED
    BY <1>15, <2>1
<1>17. SSE!Unix(c) = SSE!Unix(a) \o SSE!Unix(b)
  BY <1>5, <1>6, <1>7, <1>16 DEF first
<1>18. SSE!Unix(a) \in Seq(SSE!Characters)
  BY <1>5, <1>11 DEF first
<1>19. QED
  BY <1>17, <1>18 DEF c

\* The FiniteSets of SSEParser are these.
LEMMA CountOfSSE ==
    ASSUME NEW S
    PROVE  SSE!Cardinality(S) = Cardinality(S)
BY DEF SSE!Cardinality, Cardinality

\* Positions of a text of length m, and one behind it
LEMMA NthFacts ==
    ASSUME NEW m \in Nat, NEW S \in SUBSET (1..m)
    PROVE  /\ SSE!Cardinality(S) \in Nat
           /\ \A n \in 0..SSE!Cardinality(S) : SSE!Nth(S, n) \in 0..m
           /\ \A n \in 1..SSE!Cardinality(S) : SSE!Nth(S, n) \in S
<1> DEFINE upTo(i) == {j \in S : j <= i}
           card == Cardinality(S)
<1>1. \A j \in S : j \in 1..m /\ j \in Nat /\ 1 <= j /\ j <= m
  OBVIOUS
<1>2. IsFiniteSet(S) /\ S \in SUBSET Nat /\ card \in Nat
  <2> DEFINE all == 1..m
  <2>1. S \in SUBSET all /\ IsFiniteSet(all) /\ all \in SUBSET Nat
    BY FS_Interval
  <2> HIDE DEF all
  <2>2. QED
    BY <2>1, FS_Subset, FS_CardinalityType
<1>3. \A i \in Nat : IsFiniteSet(upTo(i)) /\ Cardinality(upTo(i)) \in Nat
  <2>1. \A i \in Nat : upTo(i) \in SUBSET S
    OBVIOUS
  <2> HIDE DEF upTo
  <2>2. QED
    BY <1>2, <2>1, FS_Subset, FS_CardinalityType
<1>4. ASSUME NEW n \in 1..card
      PROVE  \E i \in S : Cardinality(upTo(i)) = n
  <2> DEFINE B == {i \in Nat : i <= m /\ Cardinality(upTo(i)) < n}
  <2>1. 0 \in B
    <3>1. \A j \in S : ~ (j <= 0)
      BY <1>1
    <3>2. upTo(0) = {}
      BY <3>1
    <3>3. QED
      BY <1>2, <1>4, <3>2, FS_EmptySet
  <2>2. IsFiniteSet(B) /\ B \in SUBSET Nat
    <3>1. B \in SUBSET Nat /\ \A i \in B : i <= m
      OBVIOUS
    <3> HIDE DEF B
    <3>2. QED
      BY <3>1, FS_BoundedSetOfNaturals
  <2>3. PICK b \in B : \A k \in B : b >= k
    <3> HIDE DEF B
    <3>1. QED
      BY <2>1, <2>2, GreatestOfFinite
  <2>4. b \in Nat /\ b <= m /\ Cardinality(upTo(b)) < n
    BY <2>3
  <2>5. b # m
    <3>1. upTo(m) = S
      BY <1>1
    <3> HIDE DEF upTo
    <3>2. QED
      BY <1>2, <1>4, <2>4, <3>1
  <2>6. b + 1 \in Nat /\ b + 1 <= m /\ b + 1 \notin B
    <3>1. b + 1 \in Nat /\ b + 1 <= m
      BY <2>4, <2>5
    <3>2. b + 1 \notin B
      <4> HIDE DEF B
      <4>1. QED
        BY <2>3, <2>4
    <3>3. QED
      BY <3>1, <3>2
  <2>7. ~ (Cardinality(upTo(b + 1)) < n)
    BY <2>6
  <2>8. b + 1 \in S /\ upTo(b + 1) = upTo(b) \cup {b + 1} /\ b + 1 \notin upTo(b)
    <3>1. b + 1 \in S
      <4>1. CASE b + 1 \notin S
        <5>1. \A j \in S : j <= b + 1 <=> j <= b
          BY <1>1, <2>4, <4>1
        <5>2. upTo(b + 1) = upTo(b)
          BY <5>1
        <5> HIDE DEF upTo
        <5>3. QED
          BY <2>4, <2>7, <5>2
      <4>2. QED
        BY <4>1
    <3>2. \A j \in S : j <= b + 1 <=> (j <= b \/ j = b + 1)
      BY <1>1, <2>4
    <3>3. ~ (b + 1 <= b)
      BY <2>4
    <3>4. upTo(b + 1) = upTo(b) \cup {b + 1}
      BY <2>4, <3>1, <3>2
    <3>5. QED
      BY <3>1, <3>3, <3>4
  <2> HIDE DEF upTo
  <2>9. Cardinality(upTo(b + 1)) = Cardinality(upTo(b)) + 1
    BY <1>3, <2>4, <2>8, FS_AddElement
  <2>10. Cardinality(upTo(b + 1)) = n
    BY <1>3, <1>4, <2>4, <2>6, <2>7, <2>9
  <2>11. QED
    BY <2>8, <2>10
<1>5. \A n \in 1..card : SSE!Nth(S, n) \in S
  <2>1. ASSUME NEW n \in 1..card
        PROVE  SSE!Nth(S, n) \in S
    <3>1. \E i \in S : SSE!Cardinality({j \in S : j <= i}) = n
      BY <1>4, CountOfSSE
    <3>2. SSE!Nth(S, n) = CHOOSE i \in S : SSE!Cardinality({j \in S : j <= i}) = n
      BY DEF SSE!Nth
    <3>3. QED
      BY <3>1, <3>2
  <2>2. QED
    BY <2>1
<1>6. SSE!Nth(S, 0) = 0
  BY DEF SSE!Nth
<1>7. \A n \in 0..card : SSE!Nth(S, n) \in 0..m
  <2>1. ASSUME NEW n \in 0..card
        PROVE  SSE!Nth(S, n) \in 0..m
    <3>1. n = 0 \/ n \in 1..card
      BY <1>2
    <3> HIDE DEF card
    <3>2. 0 \in 0..m /\ \A j \in S : j \in 0..m
      BY <1>1
    <3>3. QED
      BY <1>5, <1>6, <3>1, <3>2
  <2>2. QED
    BY <2>1
<1>8. QED
  BY <1>2, <1>5, <1>7, CountOfSSE

\* One position more, behind the others, changes none of the others.
LEMMA NthBehind ==
    ASSUME NEW m \in Nat, NEW S \in SUBSET (1..m)
    PROVE  /\ SSE!Cardinality(S \cup {m + 1}) = SSE!Cardinality(S) + 1
           /\ SSE!Nth(S \cup {m + 1}, SSE!Cardinality(S) + 1) = m + 1
           /\ \A n \in 0..SSE!Cardinality(S) : SSE!Nth(S \cup {m + 1}, n) = SSE!Nth(S, n)
<1> DEFINE R == S \cup {m + 1}
           card == SSE!Cardinality(S)
           in(Q, i) == SSE!Cardinality({j \in Q : j <= i})
<1>1. \A j \in S : j \in Nat /\ j <= m
  OBVIOUS
<1>2. IsFiniteSet(S) /\ m + 1 \notin S /\ card \in Nat
  <2> DEFINE all == 1..m
  <2>1. S \in SUBSET all /\ IsFiniteSet(all)
    BY FS_Interval
  <2> HIDE DEF all
  <2>2. IsFiniteSet(S) /\ Cardinality(S) \in Nat
    BY <2>1, FS_Subset, FS_CardinalityType
  <2>3. QED
    BY <2>2, CountOfSSE
<1>3. SSE!Cardinality(R) = card + 1
  BY <1>2, FS_AddElement, CountOfSSE
<1>4. in(R, m + 1) = card + 1
  <2>1. {j \in R : j <= m + 1} = R
    <3>1. \A j \in R : j <= m + 1
      BY <1>1
    <3> HIDE DEF R
    <3>2. QED
      BY <3>1
  <2>2. QED
    BY <1>3, <2>1
<1>5. \A i \in S : in(R, i) = in(S, i) /\ in(S, i) \in Nat /\ in(S, i) <= card
  <2>1. ASSUME NEW i \in S
        PROVE  in(R, i) = in(S, i) /\ in(S, i) \in Nat /\ in(S, i) <= card
    <3> DEFINE Q == {j \in S : j <= i}
    <3>1. {j \in R : j <= i} = Q
      <4>1. ~ (m + 1 <= i)
        BY <1>1
      <4>2. QED
        BY <4>1
    <3>2. Q \in SUBSET S
      OBVIOUS
    <3> HIDE DEF Q
    <3>3. Cardinality(Q) \in Nat /\ Cardinality(Q) <= Cardinality(S)
      BY <1>2, <3>2, FS_Subset, FS_CardinalityType
    <3>4. SSE!Cardinality(Q) \in Nat /\ SSE!Cardinality(Q) <= card
      BY <3>3, CountOfSSE
    <3>5. QED
      BY <3>1, <3>4 DEF Q
  <2>2. QED
    BY <2>1
<1> HIDE DEF in, card
<1>6. SSE!Nth(R, card + 1) = m + 1
  <2>1. SSE!Nth(R, card + 1) = CHOOSE i \in R : in(R, i) = card + 1
    <3>1. card + 1 # 0
      BY <1>2
    <3> HIDE DEF R
    <3>2. QED
      BY <3>1 DEF SSE!Nth, in
  <2>2. \A i \in R : in(R, i) = card + 1 <=> i = m + 1
    BY <1>2, <1>4, <1>5
  <2>3. QED
    BY <2>1, <2>2
<1>7. ASSUME NEW n \in 0..card
      PROVE  SSE!Nth(R, n) = SSE!Nth(S, n)
  <2>1. CASE n = 0
    BY <2>1 DEF SSE!Nth
  <2>2. CASE n # 0
    <3>1. n # card + 1
      BY <1>2
    <3>2. \A i : (i \in R /\ in(R, i) = n) <=> (i \in S /\ in(S, i) = n)
      BY <1>4, <1>5, <3>1
    <3>3. (CHOOSE i \in R : in(R, i) = n) = (CHOOSE i \in S : in(S, i) = n)
      BY <3>2
    <3>4. SSE!Nth(R, n) = CHOOSE i \in R : in(R, i) = n
      <4> HIDE DEF R
      <4>1. QED
        BY <2>2 DEF SSE!Nth, in
    <3>5. SSE!Nth(S, n) = CHOOSE i \in S : in(S, i) = n
      BY <2>2 DEF SSE!Nth, in
    <3>6. QED
      BY <3>3, <3>4, <3>5
  <2>3. QED
    BY <2>1, <2>2
<1>8. QED
  BY <1>3, <1>6, <1>7 DEF card

\* A sequence of T, its parts and what is behind them.
LEMMA SplitTyped ==
    ASSUME NEW T, NEW seq \in Seq(T), NEW S \in SUBSET (1..Len(seq))
    PROVE  SSE!Split(seq, S) \in Seq(Seq(T)) /\ SSE!Behind(seq, S) \in Seq(T)
<1> DEFINE m == Len(seq)
           card == SSE!Cardinality(S)
<1>1. m \in Nat /\ card \in Nat /\ (\A n \in 0..card : SSE!Nth(S, n) \in 0..m)
      /\ \A n \in 1..card : SSE!Nth(S, n) \in 1..m
  <2>1. m \in Nat /\ S \in SUBSET (1..m)
    OBVIOUS
  <2>2. QED
    BY <2>1, NthFacts
<1>2. \A i \in 1..(m + 1), j \in 0..m : SubSeq(seq, i, j) \in Seq(T)
  <2>1. ASSUME NEW i \in 1..(m + 1), NEW j \in 0..m
        PROVE  SubSeq(seq, i, j) \in Seq(T)
    <3>1. \A k \in i..j : seq[k] \in T
      OBVIOUS
    <3>2. i \in Int /\ j \in Int
      BY <1>1
    <3>3. QED
      BY <3>1, <3>2, SubSeqProperties
  <2>2. QED
    BY <2>1
<1>3. SSE!Behind(seq, S) \in Seq(T)
  <2>1. card \in 0..card
    BY <1>1
  <2>2. SSE!Nth(S, card) + 1 \in 1..(m + 1) /\ m \in 0..m
    BY <1>1, <2>1
  <2>3. QED
    BY <1>2, <2>2 DEF SSE!Behind
<1>4. \A n \in 1..card : SubSeq(seq, SSE!Nth(S, n - 1) + 1, SSE!Nth(S, n) - 1) \in Seq(T)
  <2>1. ASSUME NEW n \in 1..card
        PROVE  SubSeq(seq, SSE!Nth(S, n - 1) + 1, SSE!Nth(S, n) - 1) \in Seq(T)
    <3>1. n - 1 \in 0..card /\ n \in 1..card
      BY <1>1
    <3>2. SSE!Nth(S, n - 1) \in 0..m /\ SSE!Nth(S, n) \in 1..m
      BY <1>1, <3>1
    <3>3. SSE!Nth(S, n - 1) + 1 \in 1..(m + 1) /\ SSE!Nth(S, n) - 1 \in 0..m
      BY <1>1, <3>2
    <3>4. QED
      BY <1>2, <3>3
  <2>2. QED
    BY <2>1
<1>5. SSE!Split(seq, S) \in [1..card -> Seq(T)]
  BY <1>4 DEF SSE!Split
<1>6. \A f \in [1..card -> Seq(T)] : f \in Seq(Seq(T))
  <2> DEFINE V == Seq(T)
  <2> HIDE DEF card, V
  <2>1. \A f \in [1..card -> V] : f \in Seq(V)
    BY <1>1
  <2>2. QED
    BY <2>1 DEF V
<1> HIDE DEF card
<1>7. QED
  BY <1>3, <1>5, <1>6

\* The parts of a sequence with one element more: at an end of a part, and elsewhere.
SplitsOneMore(seq, e, S) ==
    /\ SSE!Split(Append(seq, e), S) = SSE!Split(seq, S)
    /\ SSE!Behind(Append(seq, e), S) = Append(SSE!Behind(seq, S), e)
    /\ SSE!Split(Append(seq, e), S \cup {Len(seq) + 1})
          = Append(SSE!Split(seq, S), SSE!Behind(seq, S))
    /\ SSE!Behind(Append(seq, e), S \cup {Len(seq) + 1}) = <<>>

\* With one element more, a sequence is split as said.
LEMMA SplitAppend ==
    ASSUME NEW T, NEW seq \in Seq(T), NEW e \in T, NEW S \in SUBSET (1..Len(seq))
    PROVE  SplitsOneMore(seq, e, S)
<1> DEFINE m == Len(seq)
           more == Append(seq, e)
           card == SSE!Cardinality(S)
           R == S \cup {m + 1}
<1>1. m \in Nat /\ card \in Nat /\ (\A n \in 0..card : SSE!Nth(S, n) \in 0..m)
      /\ \A n \in 1..card : SSE!Nth(S, n) \in 1..m
  <2>1. m \in Nat /\ S \in SUBSET (1..m)
    OBVIOUS
  <2>2. QED
    BY <2>1, NthFacts
<1>2. /\ SSE!Cardinality(R) = card + 1 /\ SSE!Nth(R, card + 1) = m + 1
      /\ \A n \in 0..card : SSE!Nth(R, n) = SSE!Nth(S, n)
  <2>1. m \in Nat /\ S \in SUBSET (1..m)
    OBVIOUS
  <2>2. QED
    BY <2>1, NthBehind
<1>3. /\ more \in Seq(T) /\ Len(more) = m + 1 /\ more[m + 1] = e
      /\ \A i \in 1..m : more[i] = seq[i]
  BY AppendProperties
<1> HIDE DEF R, more, m, card
<1>4. \A i \in 1..(m + 1), j \in 0..m : SubSeq(more, i, j) = SubSeq(seq, i, j)
  <2>1. ASSUME NEW i \in 1..(m + 1), NEW j \in 0..m
        PROVE  SubSeq(more, i, j) = SubSeq(seq, i, j)
    <3>1. seq \in Seq(T) /\ m = Len(seq)
      BY DEF m
    <3>2. \A k \in 1..(j - i + 1) : i + k - 1 \in 1..m
      BY <1>1
    <3>3. \A k \in 1..(j - i + 1) : more[i + k - 1] = seq[i + k - 1]
      BY <1>3, <3>2
    <3>4. QED
      BY <1>1, <1>3, <3>1, <3>2, <3>3
  <2>2. QED
    BY <2>1
<1>5. \A i \in 1..(m + 1) : SubSeq(more, i, m + 1) = Append(SubSeq(seq, i, m), e)
  <2>1. ASSUME NEW i \in 1..(m + 1)
        PROVE  SubSeq(more, i, m + 1) = Append(SubSeq(seq, i, m), e)
    <3>1. seq \in Seq(T) /\ m = Len(seq)
      BY DEF m
    <3>2. QED
      BY <1>1, <1>3, <3>1
  <2>2. QED
    BY <2>1
<1>6. SSE!Split(more, S) = SSE!Split(seq, S)
  <2>1. \A n \in 1..card : SubSeq(more, SSE!Nth(S, n - 1) + 1, SSE!Nth(S, n) - 1)
                           = SubSeq(seq, SSE!Nth(S, n - 1) + 1, SSE!Nth(S, n) - 1)
    <3>1. ASSUME NEW n \in 1..card
          PROVE  SSE!Nth(S, n - 1) + 1 \in 1..(m + 1) /\ SSE!Nth(S, n) - 1 \in 0..m
      <4>1. n - 1 \in 0..card /\ n \in 1..card
        BY <1>1
      <4>2. SSE!Nth(S, n - 1) \in 0..m /\ SSE!Nth(S, n) \in 1..m
        BY <1>1, <4>1
      <4>3. QED
        BY <1>1, <4>2
    <3>2. QED
      BY <1>4, <3>1
  <2>2. QED
    BY <2>1 DEF SSE!Split, card
<1>7. SSE!Nth(S, card) + 1 \in 1..(m + 1)
  <2>1. card \in 0..card
    BY <1>1
  <2>2. QED
    BY <1>1, <2>1
<1>8. SSE!Behind(more, S) = Append(SSE!Behind(seq, S), e)
  BY <1>3, <1>5, <1>7 DEF SSE!Behind, card, m
<1>9. SSE!Split(more, R) = Append(SSE!Split(seq, S), SSE!Behind(seq, S))
  <2> DEFINE parts == SSE!Split(seq, S)
             behind == SSE!Behind(seq, S)
             new == SSE!Split(more, R)
  <2>1. parts \in Seq(Seq(T)) /\ behind \in Seq(T)
    BY SplitTyped
  <2>2. parts = [n \in 1..card |-> SubSeq(more, SSE!Nth(S, n - 1) + 1, SSE!Nth(S, n) - 1)]
    BY <1>6 DEF SSE!Split, card
  <2>3. new = [n \in 1..(card + 1) |-> SubSeq(more, SSE!Nth(R, n - 1) + 1, SSE!Nth(R, n) - 1)]
    BY <1>2 DEF SSE!Split
  <2>4. behind = SubSeq(seq, SSE!Nth(S, card) + 1, m)
    BY DEF SSE!Behind, card, m
  <2>5. \A n \in 1..card : new[n] = parts[n]
    <3>1. \A n \in 1..card : n \in 1..(card + 1) /\ n - 1 \in 0..card /\ n \in 0..card
      BY <1>1
    <3> HIDE DEF parts, new
    <3>2. QED
      BY <1>2, <2>2, <2>3, <3>1
  <2>6. new[card + 1] = behind
    <3>1. card + 1 \in 1..(card + 1) /\ (card + 1) - 1 = card /\ card \in 0..card /\ (m + 1) - 1 = m
          /\ m \in 0..m
      BY <1>1
    <3> HIDE DEF new, behind
    <3>2. new[card + 1] = SubSeq(more, SSE!Nth(R, card) + 1, m)
      BY <1>2, <2>3, <3>1
    <3>3. QED
      BY <1>2, <1>4, <1>7, <2>4, <3>1, <3>2
  <2>7. Len(parts) = card /\ DOMAIN new = 1..(card + 1)
    <3> HIDE DEF parts, new
    <3>1. DOMAIN parts = 1..card /\ DOMAIN new = 1..(card + 1)
      BY <2>2, <2>3
    <3>2. QED
      BY <1>1, <2>1, <3>1, LenProperties
  <2> DEFINE sum == Append(parts, behind)
             V == Seq(T)
  <2>8. parts \in Seq(V) /\ behind \in V
    BY <2>1
  <2> HIDE DEF parts, behind, new, V
  <2>9. /\ sum \in Seq(V) /\ Len(sum) = card + 1 /\ sum[card + 1] = behind
        /\ \A n \in 1..card : sum[n] = parts[n]
    BY <2>7, <2>8, AppendProperties
  <2> HIDE DEF sum
  <2>10. sum = [n \in 1..(card + 1) |-> sum[n]]
    BY <2>9, LenProperties
  <2>11. new = [n \in 1..(card + 1) |-> new[n]]
    <3>1. new = [n \in DOMAIN new |-> new[n]]
      BY <2>3
    <3>2. QED
      BY <2>7, <3>1
  <2>12. \A n \in 1..(card + 1) : new[n] = sum[n]
    <3>1. \A n \in 1..(card + 1) : n \in 1..card \/ n = card + 1
      BY <1>1
    <3>2. QED
      BY <2>5, <2>6, <2>9, <3>1
  <2>13. new = sum
    BY <2>10, <2>11, <2>12
  <2>14. QED
    BY <2>13 DEF new, sum, parts, behind
<1>10. SSE!Behind(more, R) = <<>>
  <2>1. SSE!Behind(more, R) = SubSeq(more, (m + 1) + 1, m + 1)
    BY <1>2, <1>3 DEF SSE!Behind
  <2>2. SubSeq(more, (m + 1) + 1, m + 1) = <<>>
    BY <1>1, <1>3
  <2>3. QED
    BY <2>1, <2>2
<1>11. QED
  BY <1>6, <1>8, <1>9, <1>10 DEF more, R, m, SplitsOneMore

\* A block more: an event more if it has lines.
LEMMA EventsOfAppend ==
    ASSUME NEW blocks \in Seq(Seq(Seq(SSE!Characters))), NEW b \in Seq(Seq(SSE!Characters))
    PROVE  /\ SSE!EventsOf(blocks) \in Seq(Events)
           /\ SSE!EventsOf(Append(blocks, b)) =
                 IF b = <<>> THEN SSE!EventsOf(blocks)
                 ELSE Append(SSE!EventsOf(blocks), SSE!EventFromLines(b))
<1> DEFINE V == Seq(Seq(SSE!Characters))
           m == Len(blocks)
           more == Append(blocks, b)
           S == {n \in DOMAIN blocks : blocks[n] # <<>>}
           R == {n \in DOMAIN more : more[n] # <<>>}
           card == SSE!Cardinality(S)
           evs == SSE!EventsOf(blocks)
           new == SSE!EventsOf(more)
<1>1. blocks \in Seq(V) /\ b \in V /\ Events = {SSE!EventFromLines(ls) : ls \in V}
  BY DEF Events
<1>2. /\ evs = [n \in 1..card |-> SSE!EventFromLines(blocks[SSE!Nth(S, n)])]
      /\ new = [n \in 1..SSE!Cardinality(R) |-> SSE!EventFromLines(more[SSE!Nth(R, n)])]
  BY DEF SSE!EventsOf
<1> HIDE DEF V, evs, new
<1>3. /\ m \in Nat /\ DOMAIN blocks = 1..m /\ DOMAIN more = 1..(m + 1) /\ more[m + 1] = b
      /\ \A i \in 1..m : more[i] = blocks[i] /\ blocks[i] \in V
  <2>1. more \in Seq(V) /\ Len(more) = m + 1 /\ more[m + 1] = b /\ \A i \in 1..m : more[i] = blocks[i]
    BY <1>1, AppendProperties
  <2>2. m \in Nat /\ DOMAIN blocks = 1..m /\ \A i \in 1..m : blocks[i] \in V
    BY <1>1, LenProperties
  <2> HIDE DEF more, m
  <2>3. DOMAIN more = 1..(m + 1)
    BY <2>1, LenProperties
  <2>4. QED
    BY <2>1, <2>2, <2>3
<1> HIDE DEF m, more
<1>4. S \in SUBSET (1..m)
  BY <1>3
<1>5. R = IF b = <<>> THEN S ELSE S \cup {m + 1}
  <2>1. \A n : n \in 1..(m + 1) <=> (n \in 1..m \/ n = m + 1)
    BY <1>3
  <2>2. \A n \in 1..m : n # m + 1
    BY <1>3
  <2>3. QED
    BY <1>3, <2>1, <2>2
<1> HIDE DEF S, R
<1>6. card \in Nat /\ (\A n \in 1..card : SSE!Nth(S, n) \in S) /\ \A n \in 1..card : n \in 0..card
  BY <1>3, <1>4, NthFacts
<1>7. /\ SSE!Cardinality(S \cup {m + 1}) = card + 1
      /\ SSE!Nth(S \cup {m + 1}, card + 1) = m + 1
      /\ \A n \in 0..card : SSE!Nth(S \cup {m + 1}, n) = SSE!Nth(S, n)
  BY <1>3, <1>4, NthBehind
<1> HIDE DEF card
<1>8. \A n \in 1..card : blocks[SSE!Nth(S, n)] \in V /\ more[SSE!Nth(S, n)] = blocks[SSE!Nth(S, n)]
  BY <1>3, <1>4, <1>6
<1>9. evs \in [1..card -> Events]
  BY <1>1, <1>2, <1>8 DEF card
<1>10. evs \in Seq(Events) /\ Len(evs) = card
  <2>1. \A f \in [1..card -> Events] : f \in Seq(Events) /\ Len(f) = card
    BY <1>6
  <2>2. QED
    BY <1>9, <2>1
<1>11. CASE b = <<>>
  <2>1. R = S
    BY <1>5, <1>11
  <2>2. new = [n \in 1..card |-> SSE!EventFromLines(more[SSE!Nth(S, n)])]
    BY <1>2, <2>1 DEF card
  <2>3. new = evs
    BY <1>2, <1>8, <2>2 DEF card
  <2>4. QED
    BY <1>10, <1>11, <2>3 DEF new, evs, more
<1>12. CASE b # <<>>
  <2> DEFINE last == SSE!EventFromLines(b)
             sum == Append(evs, last)
  <2>1. R = S \cup {m + 1}
    BY <1>5, <1>12
  <2>2. new = [n \in 1..(card + 1) |-> SSE!EventFromLines(more[SSE!Nth(R, n)])]
    BY <1>2, <1>7, <2>1
  <2>3. \A n \in 1..card : new[n] = evs[n]
    <3>1. \A n \in 1..card : n \in 1..(card + 1) /\ n \in 0..card
      BY <1>6
    <3>2. \A n \in 1..card : n \in 1..(card + 1) /\ SSE!Nth(R, n) = SSE!Nth(S, n)
      BY <1>7, <2>1, <3>1
    <3>3. \A n \in 1..card : new[n] = SSE!EventFromLines(more[SSE!Nth(S, n)])
      BY <2>2, <3>2
    <3>4. evs = [n \in 1..card |-> SSE!EventFromLines(blocks[SSE!Nth(S, n)])]
      BY <1>2 DEF card
    <3>5. \A n \in 1..card : evs[n] = SSE!EventFromLines(blocks[SSE!Nth(S, n)])
      BY <3>4
    <3>6. QED
      BY <1>8, <3>3, <3>5
  <2>4. new[card + 1] = last
    <3>1. card + 1 \in 1..(card + 1)
      BY <1>6
    <3>2. QED
      BY <1>3, <1>7, <2>1, <2>2, <3>1
  <2>5. last \in Events
    BY <1>1
  <2> HIDE DEF last
  <2>6. /\ sum \in Seq(Events) /\ Len(sum) = card + 1 /\ sum[card + 1] = last
        /\ \A n \in 1..card : sum[n] = evs[n]
    BY <1>10, <2>5, AppendProperties
  <2> HIDE DEF sum
  <2>7. sum = [n \in 1..(card + 1) |-> sum[n]]
    BY <2>6, LenProperties
  <2>8. new = [n \in 1..(card + 1) |-> new[n]]
    <3>1. DOMAIN new = 1..(card + 1) /\ new = [n \in DOMAIN new |-> new[n]]
      BY <2>2
    <3>2. QED
      BY <3>1
  <2>9. \A n \in 1..(card + 1) : new[n] = sum[n]
    <3>1. \A n \in 1..(card + 1) : n \in 1..card \/ n = card + 1
      BY <1>6
    <3>2. QED
      BY <2>3, <2>4, <2>6, <3>1
  <2>10. new = sum
    BY <2>7, <2>8, <2>9
  <2>11. QED
    BY <1>10, <1>12, <2>10 DEF new, sum, evs, more, last
<1>13. QED
  BY <1>11, <1>12

\* The parts of nothing
LEMMA SplitOfNothing ==
    /\ SSE!Split(<<>>, {}) = <<>> /\ SSE!Behind(<<>>, {}) = <<>>
    /\ SSE!EventsOf(<<>>) = <<>>
    /\ SSE!LineFeeds(<<>>) = {} /\ SSE!Blank(<<>>) = {}
<1>1. SSE!Cardinality({}) = 0
  BY FS_EmptySet, CountOfSSE
<1>2. SSE!Nth({}, 0) = 0
  BY DEF SSE!Nth
<1>3. SSE!Split(<<>>, {}) = <<>>
  BY <1>1 DEF SSE!Split
<1>4. SSE!Behind(<<>>, {}) = <<>>
  BY <1>1, <1>2 DEF SSE!Behind
<1>5. {n \in DOMAIN <<>> : <<>>[n] # <<>>} = {}
  OBVIOUS
<1>6. SSE!EventsOf(<<>>) = <<>>
  BY <1>1, <1>5 DEF SSE!EventsOf
<1>7. SSE!LineFeeds(<<>>) = {} /\ SSE!Blank(<<>>) = {}
  BY DEF SSE!LineFeeds, SSE!Blank
<1>8. QED
  BY <1>3, <1>4, <1>6, <1>7

\* The lines that a text has ended
LinesIn(t) == SSE!Split(t, SSE!LineFeeds(t))

\* What the whole text says of the parser's state
SoFar(t) ==
    [pending |-> SSE!Behind(t, SSE!LineFeeds(t)),
     lines |-> SSE!Behind(LinesIn(t), SSE!Blank(LinesIn(t))),
     events |-> SSE!EventsOf(SSE!Split(LinesIn(t), SSE!Blank(LinesIn(t))))]

NothingYet == [pending |-> <<>>, lines |-> <<>>, events |-> <<>>]

\* The line feeds of a text with a character more, and the blank lines with a line more
LEMMA MarksAppend ==
    ASSUME NEW T, NEW seq \in Seq(T), NEW e \in T
    PROVE  /\ SSE!LineFeeds(seq) \in SUBSET (1..Len(seq)) /\ SSE!Blank(seq) \in SUBSET (1..Len(seq))
           /\ SSE!LineFeeds(Append(seq, e)) =
                 IF e = SSE!LF THEN SSE!LineFeeds(seq) \cup {Len(seq) + 1} ELSE SSE!LineFeeds(seq)
           /\ SSE!Blank(Append(seq, e)) =
                 IF e = <<>> THEN SSE!Blank(seq) \cup {Len(seq) + 1} ELSE SSE!Blank(seq)
<1> DEFINE m == Len(seq)
           more == Append(seq, e)
<1>1. /\ m \in Nat /\ DOMAIN seq = 1..m /\ more[m + 1] = e
      /\ \A i \in 1..m : more[i] = seq[i]
  BY LenProperties, AppendProperties
<1>2. DOMAIN more = 1..(m + 1)
  <2>1. more \in Seq(T) /\ Len(more) = m + 1
    BY AppendProperties
  <2> HIDE DEF more, m
  <2>2. QED
    BY <2>1, LenProperties
<1> HIDE DEF m, more
<1>3. (\A n : n \in 1..(m + 1) <=> (n \in 1..m \/ n = m + 1)) /\ \A n \in 1..m : n # m + 1
  BY <1>1
<1>4. SSE!LineFeeds(seq) = {i \in 1..m : seq[i] = SSE!LF} /\ SSE!Blank(seq) = {i \in 1..m : seq[i] = <<>>}
  BY <1>1 DEF SSE!LineFeeds, SSE!Blank
<1>5. /\ SSE!LineFeeds(more) = {i \in 1..(m + 1) : more[i] = SSE!LF}
      /\ SSE!Blank(more) = {i \in 1..(m + 1) : more[i] = <<>>}
  BY <1>2 DEF SSE!LineFeeds, SSE!Blank
<1>6. SSE!LineFeeds(more) = IF e = SSE!LF THEN SSE!LineFeeds(seq) \cup {m + 1} ELSE SSE!LineFeeds(seq)
  BY <1>1, <1>3, <1>4, <1>5
<1>7. SSE!Blank(more) = IF e = <<>> THEN SSE!Blank(seq) \cup {m + 1} ELSE SSE!Blank(seq)
  BY <1>1, <1>3, <1>4, <1>5
<1>8. QED
  BY <1>4, <1>6, <1>7 DEF m, more

\* What the text so far comes to is a state of a parser.
LEMMA SoFarTyped ==
    ASSUME NEW t \in Seq(SSE!Characters)
    PROVE  SoFar(t) \in ParserState /\ LinesIn(t) \in Seq(Seq(SSE!Characters))
<1> DEFINE C == SSE!Characters
           V == Seq(C)
           L == LinesIn(t)
<1>1. SSE!LineFeeds(t) \in SUBSET (1..Len(t))
  BY LenProperties DEF SSE!LineFeeds
<1>2. L \in Seq(V) /\ SSE!Behind(t, SSE!LineFeeds(t)) \in V
  BY <1>1, SplitTyped DEF LinesIn
<1> HIDE DEF L, V
<1>3. SSE!Blank(L) \in SUBSET (1..Len(L))
  BY <1>2, LenProperties DEF SSE!Blank
<1>4. SSE!Split(L, SSE!Blank(L)) \in Seq(Seq(V)) /\ SSE!Behind(L, SSE!Blank(L)) \in Seq(V)
  BY <1>2, <1>3, SplitTyped
<1>5. SSE!EventsOf(SSE!Split(L, SSE!Blank(L))) \in Seq(Events)
  <2>1. <<>> \in Seq(V)
    OBVIOUS
  <2>2. QED
    BY <1>4, <2>1, EventsOfAppend DEF V
<1>6. QED
  BY <1>2, <1>4, <1>5 DEF SoFar, ParserState, L, V

\* What a character does to the state
After(p, l, e, c) ==
    IF c # SSE!LF THEN [pending |-> Append(p, c), lines |-> l, events |-> e]
    ELSE IF p # <<>> THEN [pending |-> <<>>, lines |-> Append(l, p), events |-> e]
    ELSE IF l # <<>> THEN [pending |-> p, lines |-> <<>>, events |-> Append(e, SSE!EventFromLines(l))]
    ELSE [pending |-> p, lines |-> l, events |-> e]

\* A field or two of the parser's state, and the others as they were
Update(s, u, w) ==
    /\ [s EXCEPT !.pending = u] = [pending |-> u, lines |-> s.lines, events |-> s.events]
    /\ [s EXCEPT !.lines = u, !.pending = w] = [pending |-> w, lines |-> u, events |-> s.events]
    /\ [s EXCEPT !.events = u, !.lines = w] = [pending |-> s.pending, lines |-> w, events |-> u]

\* A state is changed in the fields that are named and in no other.
LEMMA OtherFields ==
    ASSUME NEW P, NEW L, NEW E, NEW s \in [pending : P, lines : L, events : E],
           NEW u, NEW w
    PROVE  Update(s, u, w)
<1>1. [s EXCEPT !.pending = u] = [pending |-> u, lines |-> s.lines, events |-> s.events]
  OBVIOUS
<1>2. [s EXCEPT !.lines = u, !.pending = w] = [pending |-> w, lines |-> u, events |-> s.events]
  <2> DEFINE r == [s EXCEPT !.lines = u, !.pending = w]
             X == {u}
             Y == {w}
  <2>1. u \in X /\ w \in Y
    OBVIOUS
  <2> HIDE DEF X, Y
  <2>2. r \in [pending : Y, lines : X, events : E]
    BY <2>1
  <2>3. r.pending = w /\ r.lines = u /\ r.events = s.events
    OBVIOUS
  <2> HIDE DEF r
  <2>4. r = [pending |-> w, lines |-> u, events |-> s.events]
    BY <2>2, <2>3
  <2>5. QED
    BY <2>4 DEF r
<1>3. [s EXCEPT !.events = u, !.lines = w] = [pending |-> s.pending, lines |-> w, events |-> u]
  <2> DEFINE r == [s EXCEPT !.events = u, !.lines = w]
             X == {u}
             Y == {w}
  <2>1. u \in X /\ w \in Y
    OBVIOUS
  <2> HIDE DEF X, Y
  <2>2. r \in [pending : P, lines : Y, events : X]
    BY <2>1
  <2>3. r.pending = s.pending /\ r.lines = w /\ r.events = u
    OBVIOUS
  <2> HIDE DEF r
  <2>4. r = [pending |-> s.pending, lines |-> w, events |-> u]
    BY <2>2, <2>3
  <2>5. QED
    BY <2>4 DEF r
<1>4. QED
  BY <1>1, <1>2, <1>3 DEF Update

\* The parser takes a character as said.
LEMMA TakeOf ==
    ASSUME NEW state \in ParserState, NEW c
    PROVE  SSE!Take(state, c) = After(state.pending, state.lines, state.events, c)
<1> DEFINE p == state.pending
           l == state.lines
           e == state.events
<1>1. /\ [state EXCEPT !.pending = Append(p, c)] = [pending |-> Append(p, c), lines |-> l, events |-> e]
      /\ [state EXCEPT !.lines = Append(l, p), !.pending = <<>>]
            = [pending |-> <<>>, lines |-> Append(l, p), events |-> e]
      /\ [state EXCEPT !.events = Append(e, SSE!EventFromLines(l)), !.lines = <<>>]
            = [pending |-> p, lines |-> <<>>, events |-> Append(e, SSE!EventFromLines(l))]
  <2> DEFINE P == Seq(SSE!Characters)
             L == Seq(P)
             E == Seq(Events)
  <2>1. state \in [pending : P, lines : L, events : E]
    BY DEF ParserState
  <2> DEFINE appended == Append(p, c)
             ended_line == Append(l, p)
             ended_event == Append(e, SSE!EventFromLines(l))
             none == <<>>
  <2> HIDE DEF P, L, E, p, l, e, appended, ended_line, ended_event, none
  <2>2. /\ [state EXCEPT !.pending = appended] = [pending |-> appended, lines |-> l, events |-> e]
        /\ [state EXCEPT !.lines = ended_line, !.pending = none]
              = [pending |-> none, lines |-> ended_line, events |-> e]
        /\ [state EXCEPT !.events = ended_event, !.lines = none]
              = [pending |-> p, lines |-> none, events |-> ended_event]
    <3>1. \A u, w : Update(state, u, w)
      BY <2>1, OtherFields
    <3>2. Update(state, appended, none) /\ Update(state, ended_line, none) /\ Update(state, ended_event, none)
      BY <3>1, Zenon
    <3>3. QED
      BY <3>2, Zenon DEF Update, p, l, e
  <2>3. QED
    BY <2>2, Zenon DEF appended, ended_line, ended_event, none
<1>2. state = [pending |-> p, lines |-> l, events |-> e]
  BY DEF ParserState
<1>3. SSE!Take(state, c) =
        IF c # SSE!LF THEN [state EXCEPT !.pending = Append(p, c)]
        ELSE IF p # <<>> THEN [state EXCEPT !.lines = Append(l, p), !.pending = <<>>]
        ELSE IF l # <<>> THEN [state EXCEPT !.events = Append(e, SSE!EventFromLines(l)), !.lines = <<>>]
        ELSE state
  BY DEF SSE!Take
<1> HIDE DEF p, l, e
<1>4. QED
  BY <1>1, <1>2, <1>3 DEF After, p, l, e

\* One character more
LEMMA SoFarStep ==
    ASSUME NEW t \in Seq(SSE!Characters), NEW c \in SSE!Characters
    PROVE  SoFar(Append(t, c)) = SSE!Take(SoFar(t), c)
<1> DEFINE C == SSE!Characters
           V == Seq(C)
           more == Append(t, c)
           S == SSE!LineFeeds(t)
           rest == SSE!Behind(t, S)
           L == LinesIn(t)
           B == SSE!Blank(L)
           open == SSE!Behind(L, B)
           blocks == SSE!Split(L, B)
           evs == SSE!EventsOf(blocks)
<1>1. /\ S \in SUBSET (1..Len(t))
      /\ SSE!LineFeeds(more) = IF c = SSE!LF THEN S \cup {Len(t) + 1} ELSE S
  BY MarksAppend
<1>2. /\ SSE!Split(more, S) = L
      /\ SSE!Behind(more, S) = Append(rest, c)
      /\ SSE!Split(more, S \cup {Len(t) + 1}) = Append(L, rest)
      /\ SSE!Behind(more, S \cup {Len(t) + 1}) = <<>>
  <2> DEFINE marks == SSE!LineFeeds(t)
  <2>1. L = SSE!Split(t, marks) /\ marks \in SUBSET (1..Len(t))
    BY <1>1 DEF LinesIn
  <2> HIDE DEF marks, L, C
  <2>2. SplitsOneMore(t, c, marks)
    <3>1. t \in Seq(C) /\ c \in C
      BY DEF C
    <3>2. QED
      BY <2>1, <3>1, SplitAppend
  <2>3. QED
    BY <2>1, <2>2 DEF marks, SplitsOneMore
<1>3. L \in Seq(V) /\ rest \in V
  BY <1>1, SplitTyped DEF LinesIn
<1>4. SoFar(t) = [pending |-> rest, lines |-> open, events |-> evs]
  BY DEF SoFar
<1>5. SoFar(more) = [pending |-> SSE!Behind(more, SSE!LineFeeds(more)),
                     lines |-> SSE!Behind(LinesIn(more), SSE!Blank(LinesIn(more))),
                     events |-> SSE!EventsOf(SSE!Split(LinesIn(more), SSE!Blank(LinesIn(more))))]
  BY DEF SoFar
<1>6. LinesIn(more) = SSE!Split(more, SSE!LineFeeds(more))
  BY DEF LinesIn
<1> HIDE DEF L, V, rest, more, S
<1>7. Append(t, c) = more
  BY DEF more
<1>8. SSE!Take(SoFar(t), c) = After(rest, open, evs, c)
  <2>1. SoFar(t) \in ParserState
    BY SoFarTyped
  <2> HIDE DEF open, evs
  <2>2. SoFar(t).pending = rest /\ SoFar(t).lines = open /\ SoFar(t).events = evs
    BY <1>4
  <2>3. QED
    BY <2>1, <2>2, TakeOf
<1>9. CASE c # SSE!LF
  <2>1. SSE!LineFeeds(more) = S
    BY <1>1, <1>9
  <2>2. LinesIn(more) = L /\ SSE!Behind(more, SSE!LineFeeds(more)) = Append(rest, c)
    BY <1>2, <1>6, <2>1
  <2>3. SoFar(more) = [pending |-> Append(rest, c), lines |-> open, events |-> evs]
    BY <1>5, <2>2
  <2> HIDE DEF open, evs
  <2>4. QED
    BY <1>9, <1>7, <1>8, <2>3 DEF After
<1>10. CASE c = SSE!LF
  <2>1. SSE!LineFeeds(more) = S \cup {Len(t) + 1}
    BY <1>1, <1>10
  <2>2. LinesIn(more) = Append(L, rest) /\ SSE!Behind(more, SSE!LineFeeds(more)) = <<>>
    BY <1>2, <1>6, <2>1
  <2>3. /\ B \in SUBSET (1..Len(L))
        /\ SSE!Blank(Append(L, rest)) = IF rest = <<>> THEN B \cup {Len(L) + 1} ELSE B
    BY <1>3, MarksAppend
  <2> DEFINE longer == Append(L, rest)
  <2>4. /\ SSE!Split(longer, B) = blocks
        /\ SSE!Behind(longer, B) = Append(open, rest)
        /\ SSE!Split(longer, B \cup {Len(L) + 1}) = Append(blocks, open)
        /\ SSE!Behind(longer, B \cup {Len(L) + 1}) = <<>>
    <3> HIDE DEF B, longer
    <3>1. SplitsOneMore(L, rest, B)
      BY <1>3, <2>3, SplitAppend
    <3>2. QED
      BY <3>1 DEF SplitsOneMore, longer
  <2>5. blocks \in Seq(Seq(V)) /\ open \in Seq(V)
    BY <1>3, <2>3, SplitTyped
  <2>6. SoFar(more) = [pending |-> <<>>, lines |-> SSE!Behind(longer, SSE!Blank(longer)),
                       events |-> SSE!EventsOf(SSE!Split(longer, SSE!Blank(longer)))]
    BY <1>5, <2>2
  <2> HIDE DEF longer, B, blocks, open
  <2>7. CASE rest # <<>>
    <3>1. SoFar(more) = [pending |-> <<>>, lines |-> Append(open, rest), events |-> evs]
      BY <2>3, <2>4, <2>6, <2>7 DEF longer
    <3> HIDE DEF evs
    <3>2. QED
      BY <1>7, <1>8, <1>10, <2>7, <3>1 DEF After
  <2>8. CASE rest = <<>>
    <3>1. SoFar(more) = [pending |-> <<>>, lines |-> <<>>, events |-> SSE!EventsOf(Append(blocks, open))]
      BY <2>3, <2>4, <2>6, <2>8 DEF longer
    <3>2. SSE!EventsOf(Append(blocks, open)) = IF open = <<>> THEN evs
                                               ELSE Append(evs, SSE!EventFromLines(open))
      BY <2>5, EventsOfAppend DEF V
    <3> HIDE DEF evs
    <3>3. CASE open = <<>>
      BY <1>7, <1>8, <1>10, <2>8, <3>1, <3>2, <3>3 DEF After
    <3>4. CASE open # <<>>
      BY <1>7, <1>8, <1>10, <2>8, <3>1, <3>2, <3>4 DEF After
    <3>5. QED
      BY <3>3, <3>4
  <2>9. QED
    BY <2>7, <2>8
<1>11. QED
  BY <1>9, <1>10

\* Parsed character by character, a text leaves the state that the whole text says.
LEMMA TakenIsSoFar ==
    ASSUME NEW t \in Seq(SSE!Characters)
    PROVE  SSE!TakeAll(NothingYet, t) = SoFar(t)
<1> DEFINE n == Len(t)
           upTo(i) == SubSeq(t, 1, i)
<1>1. n \in Nat /\ \A i \in 1..n : t[i] \in SSE!Characters
  BY LenProperties
<1>2. NothingYet \in ParserState
  BY DEF NothingYet, ParserState
<1>3. PICK h : TakeRun(NothingYet, t, h)
  BY <1>2, TakeRuns
<1>4. /\ h[0] = NothingYet
      /\ \A i \in 1..n : h[i] = SSE!Take(h[i - 1], t[i])
      /\ SSE!TakeAll(NothingYet, t) = h[n]
  BY <1>3 DEF TakeRun
<1>5. \A i \in 0..n : upTo(i) \in Seq(SSE!Characters)
  <2>1. \A i \in 0..n : i \in Int /\ \A k \in 1..i : t[k] \in SSE!Characters
    BY <1>1
  <2>2. QED
    BY <2>1, SubSeqProperties
<1>6. \A i \in 1..n : upTo(i) = Append(upTo(i - 1), t[i])
  <2>1. ASSUME NEW i \in 1..n
        PROVE  upTo(i) = Append(upTo(i - 1), t[i])
    <3>1. i - 1 \in 0..n /\ i \in 0..n
      BY <1>1
    <3>2. QED
      BY <1>1, <3>1
  <2>2. QED
    BY <2>1
<1>7. upTo(0) = <<>> /\ upTo(n) = t
  BY <1>1
<1> HIDE DEF upTo, n
<1>8. SoFar(<<>>) = NothingYet
  BY SplitOfNothing DEF SoFar, LinesIn, NothingYet
<1>9. \A i \in 0..n : h[i] = SoFar(upTo(i))
  <2> DEFINE A == {i \in 0..n : h[i] = SoFar(upTo(i))}
  <2>1. 0 \in A
    BY <1>1, <1>4, <1>7, <1>8
  <2>2. ASSUME NEW i \in 1..n, i - 1 \in A
        PROVE  i \in A
    <3>1. i \in 0..n /\ i - 1 \in 0..n /\ h[i - 1] = SoFar(upTo(i - 1))
      BY <1>1, <2>2
    <3>2. SoFar(Append(upTo(i - 1), t[i])) = SSE!Take(SoFar(upTo(i - 1)), t[i])
      BY <1>1, <1>5, <3>1, SoFarStep
    <3>3. QED
      BY <1>4, <1>6, <3>1, <3>2
  <2> HIDE DEF A
  <2>3. \A i \in 0..n : i \in A
    BY <1>1, <2>1, <2>2, Climb
  <2>4. QED
    BY <2>3 DEF A
<1>10. h[n] = SoFar(t)
  <2>1. n \in 0..n
    BY <1>1
  <2>2. QED
    BY <1>7, <1>9, <2>1
<1>11. QED
  BY <1>4, <1>10

\* The parser's state
Parsed == [pending |-> pending, lines |-> lines, events |-> events]

\* Pieces of a stream
LEMMA ChunkTyped ==
    ASSUME NEW chunk \in SSE!BoundedSeq(SSE!Characters, MaxChunk) \ {<<>>}
    PROVE  chunk \in Seq(SSE!Characters) /\ chunk # <<>>
<1>1. PICK n \in 0..MaxChunk : chunk \in [1..n -> SSE!Characters]
  BY DEF SSE!BoundedSeq, SSE!SeqOf
<1>2. n \in Nat
  BY BoundsAssumption
<1>3. QED
  BY <1>1, <1>2

\* One piece more
LEMMA FeedSoFar ==
    ASSUME NEW t \in Seq(SSE!Characters), NEW chunk \in Seq(SSE!Characters),
           ~ (t # <<>> /\ chunk # <<>> /\ t[Len(t)] = SSE!CR /\ chunk[1] = SSE!LF)
    PROVE  SSE!TakeAll(SoFar(SSE!Unix(t)), SSE!Unix(chunk)) = SoFar(SSE!Unix(t \o chunk))
<1> DEFINE a == SSE!Unix(t)
           b == SSE!Unix(chunk)
<1>1. a \in Seq(SSE!Characters) /\ SSE!Unix(t \o chunk) = a \o b
  BY UnixConcat
<1>2. b \in Seq(SSE!Characters)
  <2>1. chunk \o <<>> = chunk /\ <<>> \in Seq(SSE!Characters)
    OBVIOUS
  <2>2. QED
    BY <2>1, UnixConcat
<1> HIDE DEF a, b
<1>3. NothingYet \in ParserState
  BY DEF NothingYet, ParserState
<1>4. SSE!TakeAll(NothingYet, a \o b) = SSE!TakeAll(SSE!TakeAll(NothingYet, a), b)
  BY <1>1, <1>2, <1>3, TakeConcat
<1>5. a \o b \in Seq(SSE!Characters)
  BY <1>1, <1>2
<1>6. SSE!TakeAll(SoFar(a), b) = SoFar(a \o b)
  BY <1>1, <1>4, <1>5, TakenIsSoFar
<1>7. QED
  BY <1>1, <1>6 DEF a, b

\* What is left at the end is an event like the others.
LEMMA FlushIsParsed ==
    ASSUME NEW t \in Seq(SSE!Characters), NEW p, NEW l, NEW e,
           SoFar(SSE!Unix(t)) = [pending |-> p, lines |-> l, events |-> e]
    PROVE  LET all == IF p = <<>> THEN l ELSE Append(l, p)
               ev == SSE!EventFromLines(all)
           IN  SSE!ParseSSE(t) = IF all = <<>> \/ SSE!IsEmpty(ev) THEN e ELSE Append(e, ev)
<1> DEFINE a == SSE!Unix(t)
           L == LinesIn(a)
           rest == SSE!Behind(a, SSE!LineFeeds(a))
           open == SSE!Behind(L, SSE!Blank(L))
           evs == SSE!EventsOf(SSE!Split(L, SSE!Blank(L)))
           unended == open \o (IF rest = <<>> THEN <<>> ELSE <<rest>>)
           ends == SSE!EventFromLines(unended)
<1>1. SSE!ParseSSE(t) = IF unended = <<>> \/ SSE!IsEmpty(ends) THEN evs ELSE Append(evs, ends)
  BY DEF SSE!ParseSSE, LinesIn
<1>2. SoFar(a) = [pending |-> rest, lines |-> open, events |-> evs]
  BY DEF SoFar
<1>3. a \in Seq(SSE!Characters)
  <2>1. t \o <<>> = t /\ <<>> \in Seq(SSE!Characters)
    OBVIOUS
  <2>2. QED
    BY <2>1, UnixConcat
<1>4. SoFar(a) \in ParserState
  BY <1>3, SoFarTyped
<1>5. SoFar(a) = [pending |-> p, lines |-> l, events |-> e]
  OBVIOUS
<1> HIDE DEF a, L, rest, open, evs, ends
<1>6. rest = p /\ open = l /\ evs = e
  <2>1. SoFar(a).pending = rest /\ SoFar(a).lines = open /\ SoFar(a).events = evs
    BY <1>2
  <2>2. SoFar(a).pending = p /\ SoFar(a).lines = l /\ SoFar(a).events = e
    BY <1>5
  <2>3. QED
    BY <2>1, <2>2
<1>7. open \in Seq(Seq(SSE!Characters)) /\ rest \in Seq(SSE!Characters)
  BY <1>2, <1>4 DEF ParserState
<1>8. unended = IF p = <<>> THEN l ELSE Append(l, p)
  <2> DEFINE V == Seq(SSE!Characters)
  <2>1. open \in Seq(V) /\ rest \in V
    BY <1>7
  <2> HIDE DEF V
  <2>2. open \o <<>> = open /\ open \o <<rest>> = Append(open, rest)
    BY <2>1
  <2>3. QED
    BY <1>6, <2>2
<1> HIDE DEF unended
<1>9. QED
  BY <1>1, <1>6, <1>8 DEF ends

\* What the parser has read is all in its state; and once the stream has ended, its events
\* are those of the whole text.
SSEInv ==
    /\ fed \in Seq(SSE!Characters)
    /\ flushed \in BOOLEAN /\ cut_in_crlf \in BOOLEAN
    /\ ~ cut_in_crlf /\ ~ flushed => Parsed = SoFar(SSE!Unix(fed))
    /\ ~ cut_in_crlf /\ flushed => events = SSE!ParseSSE(fed)

\* A piece is cut behind a carriage return, or line ends are the same in both.
LEMMA FeedKeepsSSE ==
    ASSUME SSEInv, NEW chunk \in Seq(SSE!Characters), chunk # <<>>, SSE!Feed(chunk)
    PROVE  SSEInv'
<1>1. /\ ~ flushed /\ flushed' = flushed
      /\ fed' = fed \o chunk
      /\ cut_in_crlf' = (cut_in_crlf \/ SSE!CutsCRLF(chunk))
  BY DEF SSE!Feed
<1>2. fed \in Seq(SSE!Characters)
  BY DEF SSEInv
<1>3. fed' \in Seq(SSE!Characters) /\ flushed' \in BOOLEAN /\ cut_in_crlf' \in BOOLEAN
  <2>1. fed \o chunk \in Seq(SSE!Characters)
    BY <1>2
  <2>2. cut_in_crlf \in BOOLEAN /\ flushed \in BOOLEAN
    BY DEF SSEInv
  <2>3. (cut_in_crlf \/ SSE!CutsCRLF(chunk)) \in BOOLEAN
    OBVIOUS
  <2>4. QED
    BY <1>1, <2>1, <2>2, <2>3
<1>4. ASSUME ~ cut_in_crlf'
      PROVE  Parsed' = SoFar(SSE!Unix(fed'))
  <2> DEFINE next == SSE!TakeAll(Parsed, SSE!Unix(chunk))
  <2>1. ~ cut_in_crlf /\ ~ SSE!CutsCRLF(chunk)
    BY <1>1, <1>4
  <2>2. ~ (fed # <<>> /\ chunk # <<>> /\ fed[Len(fed)] = SSE!CR /\ chunk[1] = SSE!LF)
    BY <2>1 DEF SSE!CutsCRLF, SSE!Last
  <2>3. Parsed = SoFar(SSE!Unix(fed))
    BY <1>1, <2>1 DEF SSEInv
  <2>4. next = SoFar(SSE!Unix(fed \o chunk))
    BY <1>2, <2>2, <2>3, FeedSoFar
  <2>5. next \in ParserState
    <3>1. fed \o chunk \in Seq(SSE!Characters) /\ (fed \o chunk) \o <<>> = fed \o chunk
          /\ <<>> \in Seq(SSE!Characters)
      BY <1>2
    <3>2. SSE!Unix(fed \o chunk) \in Seq(SSE!Characters)
      BY <3>1, UnixConcat
    <3>3. QED
      BY <2>4, <3>2, SoFarTyped
  <2>6. pending' = next.pending /\ lines' = next.lines /\ events' = next.events
    BY DEF SSE!Feed, Parsed
  <2> HIDE DEF next
  <2>7. next = [pending |-> next.pending, lines |-> next.lines, events |-> next.events]
    BY <2>5 DEF ParserState
  <2>8. QED
    BY <1>1, <2>4, <2>6, <2>7 DEF Parsed
<1>5. QED
  BY <1>1, <1>3, <1>4 DEF SSEInv

\* Flushing ends the line and the event that were open, and keeps the invariant.
LEMMA FlushKeepsSSE ==
    ASSUME SSEInv, SSE!Flush
    PROVE  SSEInv'
<1> DEFINE all == IF pending = <<>> THEN lines ELSE Append(lines, pending)
           ev == SSE!EventFromLines(all)
<1>1. /\ ~ flushed /\ flushed' = TRUE
      /\ fed' = fed /\ cut_in_crlf' = cut_in_crlf
      /\ events' = IF all = <<>> \/ SSE!IsEmpty(ev) THEN events ELSE Append(events, ev)
  BY DEF SSE!Flush
<1>2. fed \in Seq(SSE!Characters) /\ cut_in_crlf \in BOOLEAN
  BY DEF SSEInv
<1>3. ASSUME ~ cut_in_crlf
      PROVE  SSE!ParseSSE(fed) = IF all = <<>> \/ SSE!IsEmpty(ev) THEN events ELSE Append(events, ev)
  <2>1. SoFar(SSE!Unix(fed)) = [pending |-> pending, lines |-> lines, events |-> events]
    BY <1>1, <1>3 DEF SSEInv, Parsed
  <2>2. QED
    BY <1>2, <2>1, FlushIsParsed
<1> HIDE DEF all, ev
<1>4. ~ cut_in_crlf' => events' = SSE!ParseSSE(fed')
  BY <1>1, <1>3
<1>5. QED
  BY <1>1, <1>2, <1>4 DEF SSEInv

\* The parser returns the events of the whole stream, however it came in pieces that do not
\* cut a CRLF.
THEOREM EventsAreOfWholeText == TextSpec => []EventsOfAnySplit
<1>1. TextInit => SSEInv
  <2>1. SUFFICES ASSUME TextInit PROVE SSEInv
    OBVIOUS
  <2>2. /\ pending = <<>> /\ lines = <<>> /\ events = <<>> /\ fed = <<>>
        /\ cut_in_crlf = FALSE /\ flushed = FALSE
    BY <2>1, Zenon DEF TextInit, SSE!Init
  <2>3. SSE!Unix(<<>>) = <<>>
    <3>1. <<>> \in Seq(SSE!Characters)
      OBVIOUS
    <3>2. PICK h : UnixRun(<<>>, h)
      BY <3>1, UnixRuns
    <3>3. QED
      BY <3>2 DEF UnixRun, UnixFirst
  <2>4. SoFar(<<>>) = [pending |-> <<>>, lines |-> <<>>, events |-> <<>>]
    BY SplitOfNothing DEF SoFar, LinesIn
  <2>5. Parsed = SoFar(SSE!Unix(fed))
    BY <2>2, <2>3, <2>4 DEF Parsed
  <2>6. fed \in Seq(SSE!Characters)
    BY <2>2
  <2>7. flushed \in BOOLEAN /\ cut_in_crlf \in BOOLEAN /\ ~ flushed
    BY <2>2, Zenon
  <2>8. QED
    BY <2>5, <2>6, <2>7 DEF SSEInv
<1>2. SSEInv /\ [TextNext]_textVars => SSEInv'
  <2>1. ASSUME SSEInv, UNCHANGED sseVars PROVE SSEInv'
    BY <2>1 DEF SSEInv, Parsed, sseVars
  <2>2. ASSUME SSEInv, SSE!Next PROVE SSEInv'
    <3>1. CASE SSE!Flush
      BY <2>2, <3>1, FlushKeepsSSE
    <3>2. ASSUME NEW chunk \in SSE!BoundedSeq(SSE!Characters, MaxChunk) \ {<<>>}, SSE!Feed(chunk)
          PROVE  SSEInv'
      BY <2>2, <3>2, ChunkTyped, FeedKeepsSSE
    <3>3. QED
      BY <2>2, <3>1, <3>2 DEF SSE!Next
  <2>3. [TextNext]_textVars => UNCHANGED sseVars \/ SSE!Next
    BY DEF TextNext, textVars, ResolvePolicy, CutSegments, CutWindows, FindTerm, AnswerAndRepeat, Computes
  <2>4. QED
    BY <2>1, <2>2, <2>3
<1>3. SSEInv => EventsOfAnySplit
  BY DEF SSEInv, EventsOfAnySplit, SSE!EventsOfAnySplit
<1>4. QED
  BY <1>1, <1>2, <1>3, PTL DEF TextSpec

-----------------------------------------------------------------------------
(* ProtocolAdapters: what a client was shown comes back.                   *)

\* The provers do not know that a literal is a string.
Strings ==
    STRING \cup {"input", "output", "messages", "content", "[0]", "[1]", "type", "name", "id",
                "arguments", "json", "a", "text", "output_text", "refusal", "annotations",
                "file_id", "summary", "thinking", "message", "function_call", "file_search",
                "tool_use", "tool_result", "image", "shell", "other", "plain", "call_id",
                "original", "alias", "secret", "4111111111111", "fc_4111111111111111"}

\* A place that fits a pattern of three steps
LEMMA FitsThree ==
    ASSUME NEW p, NEW A, NEW B, NEW C
    PROVE  Adapters!Fits(p, <<A, B, C>>) <=> Len(p) = 3 /\ p[1] \in A /\ p[2] \in B /\ p[3] \in C
BY DEF Adapters!Fits

\* The same of five steps
LEMMA FitsFive ==
    ASSUME NEW p, NEW A, NEW B, NEW C, NEW D, NEW E
    PROVE  Adapters!Fits(p, <<A, B, C, D, E>>) <=>
              Len(p) = 5 /\ p[1] \in A /\ p[2] \in B /\ p[3] \in C /\ p[4] \in D /\ p[5] \in E
BY DEF Adapters!Fits

\* Below a pattern of three steps
LEMMA BelowThree ==
    ASSUME NEW p \in Seq(Strings), NEW A, NEW B, NEW C
    PROVE  Adapters!Below(p, <<A, B, C>>) <=> Len(p) > 3 /\ p[1] \in A /\ p[2] \in B /\ p[3] \in C
<1>1. CASE Len(p) > 3
  <2> DEFINE q == SubSeq(p, 1, 3)
  <2>1. Len(q) = 3 /\ q[1] = p[1] /\ q[2] = p[2] /\ q[3] = p[3]
    BY <1>1
  <2> HIDE DEF q
  <2>2. Adapters!Fits(q, <<A, B, C>>) <=> p[1] \in A /\ p[2] \in B /\ p[3] \in C
    BY <2>1, FitsThree
  <2>3. Len(<<A, B, C>>) = 3
    OBVIOUS
  <2>4. QED
    BY <1>1, <2>2, <2>3 DEF Adapters!Below, q
<1>2. CASE ~ (Len(p) > 3)
  BY <1>2 DEF Adapters!Below
<1>3. QED
  BY <1>1, <1>2

\* Below a pattern of four steps
LEMMA BelowFour ==
    ASSUME NEW p \in Seq(Strings), NEW A, NEW B, NEW C, NEW D
    PROVE  Adapters!Below(p, <<A, B, C, D>>) <=>
              Len(p) > 4 /\ p[1] \in A /\ p[2] \in B /\ p[3] \in C /\ p[4] \in D
<1>1. CASE Len(p) > 4
  <2> DEFINE q == SubSeq(p, 1, 4)
  <2>1. Len(q) = 4 /\ q[1] = p[1] /\ q[2] = p[2] /\ q[3] = p[3] /\ q[4] = p[4]
    BY <1>1
  <2> HIDE DEF q
  <2>2. Adapters!Fits(q, <<A, B, C, D>>) <=> p[1] \in A /\ p[2] \in B /\ p[3] \in C /\ p[4] \in D
    BY <2>1 DEF Adapters!Fits
  <2>3. Len(<<A, B, C, D>>) = 4
    OBVIOUS
  <2>4. QED
    BY <1>1, <2>2, <2>3 DEF Adapters!Below, q
<1>2. CASE ~ (Len(p) > 4)
  BY <1>2 DEF Adapters!Below
<1>3. QED
  BY <1>1, <1>2

\* Below a pattern of one step
LEMMA BelowOne ==
    ASSUME NEW p \in Seq(Strings), NEW A
    PROVE  Adapters!Below(p, <<A>>) <=> Len(p) > 1 /\ p[1] \in A
<1>1. CASE Len(p) > 1
  <2> DEFINE q == SubSeq(p, 1, 1)
  <2>1. Len(q) = 1 /\ q[1] = p[1]
    BY <1>1
  <2> HIDE DEF q
  <2>2. Adapters!Fits(q, <<A>>) <=> p[1] \in A
    BY <2>1 DEF Adapters!Fits
  <2>3. Len(<<A>>) = 1
    OBVIOUS
  <2>4. QED
    BY <1>1, <2>2, <2>3 DEF Adapters!Below, q
<1>2. CASE ~ (Len(p) > 1)
  BY <1>2 DEF Adapters!Below
<1>3. QED
  BY <1>1, <1>2

\* Texts with the aliases of their originals, and with the originals of their aliases
MaskOne(c) == IF c \notin Adapters!Sensitive THEN c
              ELSE IF c = Adapters!Original THEN Adapters!Alias ELSE Adapters!NewAlias
RestoreOne(c) == IF c = Adapters!Alias THEN Adapters!Original ELSE c

\* A text is masked and restored word by word.
LEMMA OneByOne ==
    ASSUME NEW t \in Seq(Strings)
    PROVE  /\ Adapters!MaskText(t) = [i \in 1..Len(t) |-> MaskOne(t[i])]
           /\ Adapters!RestoreText(t) = [i \in 1..Len(t) |-> RestoreOne(t[i])]
           /\ Adapters!RestoreText(t) \in Seq(Strings)
<1>2. DOMAIN t = 1..Len(t) /\ Len(t) \in Nat
  BY LenProperties
<1>3. \A c : Adapters!Get([u \in Adapters!Sensitive |->
                              IF u = Adapters!Original THEN Adapters!Alias ELSE Adapters!NewAlias], c, c)
              = MaskOne(c)
  BY DEF Adapters!Get, MaskOne
<1>4. \A c : Adapters!Get([u \in {Adapters!Alias} |-> Adapters!Original], c, c) = RestoreOne(c)
  BY DEF Adapters!Get, RestoreOne
<1>5. Adapters!MaskText(t) = [i \in 1..Len(t) |-> MaskOne(t[i])]
  BY <1>2, <1>3 DEF Adapters!MaskText, Adapters!Replace
<1>6. Adapters!RestoreText(t) = [i \in 1..Len(t) |-> RestoreOne(t[i])]
  BY <1>2, <1>4 DEF Adapters!RestoreText, Adapters!Replace
<1>7. \A i \in 1..Len(t) : RestoreOne(t[i]) \in Strings
  <2>1. \A i \in 1..Len(t) : t[i] \in Strings
    BY LenProperties
  <2>2. Adapters!Original \in Strings
    BY DEF Adapters!Original, Strings
  <2>3. QED
    BY <2>1, <2>2 DEF RestoreOne
<1>8. [i \in 1..Len(t) |-> RestoreOne(t[i])] \in Seq(Strings)
  BY <1>2, <1>7
<1>9. QED
  BY <1>5, <1>6, <1>8

\* What has no secret in it is as it was when it was restored and masked again.
LEMMA MaskUndoesRestore ==
    ASSUME NEW t \in Seq(Strings), Adapters!Range(t) \cap Adapters!Sensitive = {}
    PROVE  Adapters!MaskText(t) = t /\ Adapters!MaskText(Adapters!RestoreText(t)) = t
<1> DEFINE r == Adapters!RestoreText(t)
<1>1. Len(t) \in Nat /\ DOMAIN t = 1..Len(t) /\ t = [i \in 1..Len(t) |-> t[i]]
  BY LenProperties
<1>2. \A i \in 1..Len(t) : t[i] \notin Adapters!Sensitive
  BY <1>1 DEF Adapters!Range
<1>3. \A i \in 1..Len(t) : MaskOne(t[i]) = t[i]
  BY <1>2 DEF MaskOne
<1>4. \A i \in 1..Len(t) : MaskOne(RestoreOne(t[i])) = t[i]
  <2>1. Adapters!Original \in Adapters!Sensitive
    BY DEF Adapters!Sensitive
  <2>2. QED
    BY <1>2, <2>1 DEF MaskOne, RestoreOne
<1>5. Adapters!MaskText(t) = t
  BY <1>1, <1>3, OneByOne
<1>6. r \in Seq(Strings) /\ r = [i \in 1..Len(t) |-> RestoreOne(t[i])]
  BY OneByOne
<1>7. Len(r) = Len(t) /\ \A i \in 1..Len(t) : r[i] = RestoreOne(t[i])
  <2>1. DOMAIN r = 1..Len(t) /\ \A i \in 1..Len(t) : r[i] = RestoreOne(t[i])
    <3> HIDE DEF r
    <3>1. QED
      BY <1>6
  <2> HIDE DEF r
  <2>2. QED
    BY <1>1, <1>6, <2>1, LenProperties
<1> HIDE DEF r
<1>8. Adapters!MaskText(r) = [i \in 1..Len(r) |-> MaskOne(r[i])]
  BY <1>6, OneByOne
<1>9. Adapters!MaskText(r) = t
  BY <1>1, <1>4, <1>7, <1>8
<1>10. QED
  BY <1>5, <1>9 DEF r

\* What an answer is: its places are below its items or blocks, and its texts are of strings.
Places(protocol, S) ==
    /\ protocol \in {"responses", "anthropic"}
    /\ \A p \in S : /\ p \in Seq(Strings) /\ Len(p) >= 2
                    /\ p[1] = IF protocol = "responses" THEN "output" ELSE "content"

\* Where a client repeats a place of the answer
AsInput(protocol, p) ==
    IF protocol = "responses" THEN <<"input">> \o Tail(p) ELSE <<"messages", "[0]">> \o p

\* One sequence of keys behind another
KeysBehind(a, b) ==
    /\ a \o b \in Seq(Strings) /\ Len(a \o b) = Len(a) + Len(b)
    /\ \A i \in 1..Len(a) : (a \o b)[i] = a[i]
    /\ \A i \in 1..Len(b) : (a \o b)[Len(a) + i] = b[i]

\* They are joined so.
LEMMA KeysJoined ==
    ASSUME NEW a \in Seq(Strings), NEW b \in Seq(Strings)
    PROVE  KeysBehind(a, b)
BY ConcatFacts DEF KeysBehind

\* One key more
Longer(a, k) ==
    /\ Append(a, k) \in Seq(Strings) /\ Len(Append(a, k)) = Len(a) + 1
    /\ \A i \in 1..Len(a) : Append(a, k)[i] = a[i]
    /\ Append(a, k)[Len(a) + 1] = k

\* One is appended so.
LEMMA KeyAppended ==
    ASSUME NEW a \in Seq(Strings), NEW k \in Strings
    PROVE  Longer(a, k)
BY AppendProperties DEF Longer

\* Where a place is repeated: as long and with the same steps, or one step further down
LEMMA AsInputFacts ==
    ASSUME NEW protocol, NEW p \in Seq(Strings), Len(p) >= 2
    PROVE  /\ AsInput(protocol, p) \in Seq(Strings)
           /\ protocol = "responses" =>
                 /\ Len(AsInput(protocol, p)) = Len(p)
                 /\ AsInput(protocol, p)[1] = "input"
                 /\ \A i \in 2..Len(p) : AsInput(protocol, p)[i] = p[i]
           /\ protocol # "responses" =>
                 /\ Len(AsInput(protocol, p)) = Len(p) + 2
                 /\ AsInput(protocol, p)[1] = "messages" /\ AsInput(protocol, p)[2] = "[0]"
                 /\ \A i \in 1..Len(p) : AsInput(protocol, p)[i + 2] = p[i]
<1> DEFINE n == Len(p)
<1>1. CASE protocol = "responses"
  <2> DEFINE t == Tail(p)
             h == <<"input">>
  <2>1. t \in Seq(Strings) /\ Len(t) = n - 1 /\ n \in Nat /\ n >= 2 /\ \A i \in 1..(n - 1) : t[i] = p[i + 1]
    <3>1. p # <<>>
      OBVIOUS
    <3>2. QED
      BY <3>1, HeadTailProperties
  <2>2. h \in Seq(Strings) /\ Len(h) = 1 /\ h[1] = "input"
    BY DEF Strings
  <2> HIDE DEF t, h, n
  <2>3. /\ h \o t \in Seq(Strings) /\ Len(h \o t) = n
        /\ (h \o t)[1] = "input"
        /\ \A i \in 1..(n - 1) : (h \o t)[1 + i] = t[i]
    <3>1. /\ h \o t \in Seq(Strings) /\ Len(h \o t) = Len(h) + Len(t)
          /\ \A i \in 1..Len(h) : (h \o t)[i] = h[i]
          /\ \A i \in 1..Len(t) : (h \o t)[Len(h) + i] = t[i]
      BY <2>1, <2>2, KeysJoined DEF KeysBehind
    <3>2. 1 \in 1..Len(h) /\ 1..Len(t) = 1..(n - 1) /\ Len(h) + Len(t) = n
      BY <2>1, <2>2
    <3> DEFINE c == h \o t
    <3>3. c \in Seq(Strings) /\ Len(c) = n /\ c[1] = "input" /\ \A i \in 1..(n - 1) : c[1 + i] = t[i]
      <4> HIDE DEF c
      <4>1. QED
        BY <2>2, <3>1, <3>2 DEF c
    <3>4. QED
      BY <3>3
  <2>4. \A i \in 2..n : (h \o t)[i] = p[i]
    <3>1. \A i \in 2..n : i - 1 \in 1..(n - 1) /\ 1 + (i - 1) = i /\ (i - 1) + 1 = i
      BY <2>1
    <3> DEFINE c == h \o t
    <3>2. \A i \in 1..(n - 1) : c[1 + i] = t[i] /\ t[i] = p[i + 1]
      BY <2>1, <2>3
    <3> HIDE DEF c
    <3>3. \A i \in 2..n : c[1 + (i - 1)] = t[i - 1] /\ t[i - 1] = p[(i - 1) + 1]
      BY <3>1, <3>2
    <3>4. \A i \in 2..n : c[i] = p[i]
      BY <3>1, <3>3
    <3>5. QED
      BY <3>4 DEF c
  <2>5. AsInput(protocol, p) = h \o t
    BY <1>1 DEF AsInput, h, t
  <2>6. QED
    BY <1>1, <2>3, <2>4, <2>5 DEF n
<1>2. CASE protocol # "responses"
  <2> DEFINE h == <<"messages", "[0]">>
  <2>1. h \in Seq(Strings) /\ Len(h) = 2 /\ h[1] = "messages" /\ h[2] = "[0]"
    BY DEF Strings
  <2>2. n \in Nat /\ p \in Seq(Strings)
    OBVIOUS
  <2> HIDE DEF h
  <2>3. /\ h \o p \in Seq(Strings) /\ Len(h \o p) = 2 + n
        /\ (h \o p)[1] = "messages" /\ (h \o p)[2] = "[0]"
        /\ \A i \in 1..n : (h \o p)[2 + i] = p[i]
    <3>1. /\ h \o p \in Seq(Strings) /\ Len(h \o p) = Len(h) + Len(p)
          /\ \A i \in 1..Len(h) : (h \o p)[i] = h[i]
          /\ \A i \in 1..Len(p) : (h \o p)[Len(h) + i] = p[i]
      BY <2>1, <2>2, KeysJoined DEF KeysBehind
    <3>2. 1 \in 1..Len(h) /\ 2 \in 1..Len(h)
      BY <2>1
    <3> DEFINE c == h \o p
    <3>3. c \in Seq(Strings) /\ Len(c) = 2 + n /\ c[1] = "messages" /\ c[2] = "[0]"
          /\ \A i \in 1..n : c[2 + i] = p[i]
      <4> HIDE DEF c
      <4>1. QED
        BY <2>1, <3>1, <3>2 DEF c
    <3>4. QED
      BY <3>3
  <2>4. AsInput(protocol, p) = h \o p
    BY <1>2 DEF AsInput, h
  <2>5. Len(h \o p) = n + 2 /\ \A i \in 1..n : (h \o p)[i + 2] = p[i]
    <3>1. \A i \in 1..n : 2 + i = i + 2
      BY <2>2
    <3>2. QED
      BY <2>2, <2>3, <3>1
  <2>6. QED
    BY <1>2, <2>3, <2>4, <2>5
<1>3. QED
  BY <1>1, <1>2

\* No two places of an answer are repeated in the same one.
LEMMA AsInputApart ==
    ASSUME NEW protocol, NEW S, Places(protocol, S), NEW p \in S, NEW r \in S,
           AsInput(protocol, p) = AsInput(protocol, r)
    PROVE  p = r
<1>1. /\ p \in Seq(Strings) /\ Len(p) >= 2 /\ r \in Seq(Strings) /\ Len(r) >= 2
      /\ p[1] = r[1] /\ Len(p) \in Nat /\ Len(r) \in Nat
  BY LenProperties DEF Places
<1>2. Len(p) = Len(r)
  <2>1. CASE protocol = "responses"
    BY <1>1, <2>1, AsInputFacts
  <2>2. CASE protocol # "responses"
    <3>1. Len(p) + 2 = Len(r) + 2
      BY <1>1, <2>2, AsInputFacts
    <3>2. QED
      BY <1>1, <3>1
  <2>3. QED
    BY <2>1, <2>2
<1>3. \A i \in 1..Len(p) : p[i] = r[i]
  <2>1. CASE protocol = "responses"
    <3>1. \A i \in 2..Len(p) : p[i] = r[i]
      BY <1>1, <1>2, <2>1, AsInputFacts
    <3>2. \A i \in 1..Len(p) : i = 1 \/ i \in 2..Len(p)
      BY <1>1
    <3>3. QED
      BY <1>1, <3>1, <3>2
  <2>2. CASE protocol # "responses"
    BY <1>1, <1>2, <2>2, AsInputFacts
  <2>3. QED
    BY <2>1, <2>2
<1>4. p = [i \in 1..Len(p) |-> p[i]] /\ r = [i \in 1..Len(r) |-> r[i]]
  BY <1>1, LenProperties
<1>5. QED
  BY <1>2, <1>3, <1>4

\* What an answer has somewhere, its repetition has where that is repeated.
Repeats(protocol, f, rep) ==
    /\ DOMAIN rep = {AsInput(protocol, p) : p \in DOMAIN f}
    /\ \A p \in DOMAIN f : rep[AsInput(protocol, p)] = f[p]
    /\ rep = [q \in DOMAIN rep |-> rep[q]]

\* The client repeats an answer so.
LEMMA RepeatFacts ==
    ASSUME NEW protocol, NEW f, Places(protocol, DOMAIN f)
    PROVE  Repeats(protocol, f, Adapters!Repeat(protocol, f))
<1> DEFINE S == DOMAIN f
           all == {AsInput(protocol, p) : p \in S}
           from(q) == CHOOSE p \in S : AsInput(protocol, p) = q
           rep == Adapters!Repeat(protocol, f)
<1>1. rep = [q \in all |-> f[from(q)]]
  BY DEF Adapters!Repeat, AsInput
<1>2. \A p \in S : from(AsInput(protocol, p)) = p
  <2>1. ASSUME NEW p \in S
        PROVE  from(AsInput(protocol, p)) = p
    <3>1. from(AsInput(protocol, p)) \in S /\ AsInput(protocol, from(AsInput(protocol, p))) = AsInput(protocol, p)
      OBVIOUS
    <3> HIDE DEF S, from
    <3>2. Places(protocol, S)
      BY DEF S
    <3>3. QED
      BY <3>1, <3>2, AsInputApart
  <2>2. QED
    BY <2>1
<1> HIDE DEF rep, from
<1>3. DOMAIN rep = all /\ \A p \in S : rep[AsInput(protocol, p)] = f[p]
  BY <1>1, <1>2
<1>4. rep = [q \in DOMAIN rep |-> rep[q]]
  BY <1>1
<1>5. QED
  BY <1>3, <1>4 DEF rep, Repeats

\* A payload of texts, at places of an answer
AnswerShape(protocol, answer) ==
    /\ Places(protocol, DOMAIN answer)
    /\ answer = [p \in DOMAIN answer |-> answer[p]]
    /\ \A p \in DOMAIN answer : answer[p] \in Seq(Strings)

\* Where the items of an answer have their identifiers
IdPlace(p) == Len(p) = 3 /\ p[2] \in Adapters!Elements /\ p[3] \in {"id", "call_id"}

\* In a harmless answer a number stands there only, and alone.
LEMMA NumbersInIds ==
    ASSUME NEW protocol, NEW answer, AnswerShape(protocol, answer), Adapters!Harmless(protocol, answer),
           NEW p \in DOMAIN answer,
           Adapters!NumberedId \in Adapters!Range(p) \cup Adapters!Range(answer[p])
    PROVE  protocol = "responses" /\ IdPlace(p) /\ answer[p] = <<Adapters!NumberedId>>
<1> DEFINE A == {"output"}
           B == Adapters!Elements
           C == {"id", "call_id"}
<1>1. /\ protocol = "responses" /\ answer[p] = <<Adapters!NumberedId>>
      /\ Adapters!Fits(p, <<A, B, C>>)
  BY DEF Adapters!Harmless
<1>2. p \in Seq(Strings)
  BY DEF AnswerShape, Places
<1> HIDE DEF A, B, C
<1>3. Len(p) = 3 /\ p[2] \in B /\ p[3] \in C
  BY <1>1, <1>2, FitsThree
<1>4. QED
  BY <1>1, <1>3 DEF IdPlace, B, C

\* No other secret has an own token in it.
LEMMA NothingSensitive ==
    ASSUME NEW protocol, NEW answer, Adapters!Harmless(protocol, answer), NEW p \in DOMAIN answer
    PROVE  (Adapters!Range(p) \cup Adapters!Range(answer[p])) \cap Adapters!Sensitive
              \subseteq {Adapters!NumberedId}
<1>1. Adapters!Range(p) \cup Adapters!Range(answer[p]) \subseteq Adapters!Tokens(answer)
  BY DEF Adapters!Tokens
<1>2. Adapters!Tokens(answer) \cap {Adapters!Original, Adapters!Secret, Adapters!Number} = {}
  BY DEF Adapters!Harmless
<1>3. QED
  BY <1>1, <1>2 DEF Adapters!Sensitive

\* What the client is shown of an answer that is not refused
ShownAnswer(protocol, answer) ==
    [p \in DOMAIN answer |->
        IF Adapters!Restores(protocol, answer, p) THEN Adapters!RestoreText(answer[p]) ELSE answer[p]]

\* It is shown where the answer has texts, and each as restored or as it is.
LEMMA ShownFacts ==
    ASSUME NEW protocol, NEW answer, AnswerShape(protocol, answer)
    PROVE  /\ DOMAIN ShownAnswer(protocol, answer) = DOMAIN answer
           /\ \A p \in DOMAIN answer :
                 ShownAnswer(protocol, answer)[p] = IF Adapters!Restores(protocol, answer, p)
                                              THEN Adapters!RestoreText(answer[p]) ELSE answer[p]
BY DEF ShownAnswer

\* Three steps of a pattern and one more
LEMMA FourSteps ==
    ASSUME NEW A, NEW B, NEW C, NEW D
    PROVE  <<A, B, C>> \o <<D>> = <<A, B, C, D>>
<1> DEFINE V == {A, B, C, D}
           a == <<A, B, C>>
<1>1. a \in Seq(V) /\ D \in V
  OBVIOUS
<1>2. a \o <<D>> = Append(a, D)
  <2> HIDE DEF V, a
  <2>1. QED
    BY <1>1
<1>3. Append(a, D) = <<A, B, C, D>>
  <2> DEFINE c == Append(a, D)
             d == <<A, B, C, D>>
  <2>1. c \in Seq(V) /\ Len(c) = 4 /\ c[1] = A /\ c[2] = B /\ c[3] = C /\ c[4] = D
    BY <1>1, AppendProperties
  <2>2. d \in Seq(V) /\ Len(d) = 4 /\ d[1] = A /\ d[2] = B /\ d[3] = C /\ d[4] = D
    OBVIOUS
  <2> HIDE DEF V, a, c, d
  <2>3. \A i \in 1..4 : i = 1 \/ i = 2 \/ i = 3 \/ i = 4
    OBVIOUS
  <2>4. \A i \in 1..4 : c[i] = d[i]
    BY <2>1, <2>2, <2>3
  <2>5. c = [i \in 1..4 |-> c[i]] /\ d = [i \in 1..4 |-> d[i]]
    BY <2>1, <2>2, LenProperties
  <2>6. c = d
    BY <2>4, <2>5
  <2>7. QED
    BY <2>6 DEF c, d
<1>4. QED
  BY <1>2, <1>3

\* Where the Responses API's answers are restored
LEMMA ResponsesRestored ==
    ASSUME NEW answer, NEW p \in Seq(Strings), Adapters!ResponsesRestores(answer, p)
    PROVE  \/ /\ Len(p) = 5 /\ p[2] \in Adapters!Elements /\ p[3] = "content"
              /\ p[4] \in Adapters!Elements /\ p[5] \in Adapters!TextKeys
           \/ Len(p) > 4 /\ p[2] \in Adapters!Elements /\ p[3] = "arguments" /\ p[4] = "json"
<1> DEFINE A == {"output"}
           B == Adapters!Elements
           C == {"arguments"}
           D == {"json"}
<1>1. Adapters!ResponsesArguments \o <<D>> = <<A, B, C, D>>
  <2> HIDE DEF A, B, C, D
  <2>1. Adapters!ResponsesArguments = <<A, B, C>>
    BY DEF Adapters!ResponsesArguments, A, B, C
  <2>2. QED
    BY <2>1, FourSteps
<1>2. CASE Adapters!Fits(p, <<A, B, {"content"}, B, Adapters!TextKeys>>)
  <2> HIDE DEF A, B
  <2>1. QED
    BY <1>2, FitsFive DEF B
<1>3. CASE Adapters!Below(p, Adapters!ResponsesArguments \o <<D>>)
  <2>1. Adapters!Below(p, <<A, B, C, D>>)
    BY <1>1, <1>3
  <2> HIDE DEF A, B, C, D
  <2>2. Len(p) > 4 /\ p[2] \in B /\ p[3] \in C /\ p[4] \in D
    BY <2>1, BelowFour
  <2>3. QED
    BY <2>2 DEF B, C, D
<1>4. QED
  BY <1>2, <1>3 DEF Adapters!ResponsesRestores

\* Where its requests are masked: there, and not in identifiers
LEMMA ResponsesMasked ==
    ASSUME NEW q \in Seq(Strings), q[1] = "input"
    PROVE  /\ Len(q) = 5 /\ q[2] \in Adapters!Elements /\ q[3] = "content"
              /\ q[4] \in Adapters!Elements /\ q[5] \in Adapters!TextKeys
                 => Adapters!ResponsesMasks(q)
           /\ Len(q) > 4 /\ q[2] \in Adapters!Elements /\ q[3] = "arguments" /\ q[4] = "json"
                 => Adapters!ResponsesMasks(q)
           /\ Len(q) = 3 /\ q[3] \in {"id", "call_id"} => ~ Adapters!ResponsesMasks(q)
<1> DEFINE A == {"input"}
           B == Adapters!Elements
           C == {"arguments"}
           D == {"json"}
<1>1. ASSUME Len(q) = 5, q[2] \in B, q[3] = "content", q[4] \in B, q[5] \in Adapters!TextKeys
      PROVE  Adapters!ResponsesMasks(q)
  <2> DEFINE E == Adapters!TextKeys
  <2> HIDE DEF A, B, E
  <2>1. q[1] \in A
    BY DEF A
  <2>2. Adapters!Fits(q, <<A, B, {"content"}, B, E>>)
    BY <1>1, <2>1, FitsFive DEF E
  <2>3. QED
    BY <2>2 DEF Adapters!ResponsesMasks, A, B, E
<1>2. ASSUME Len(q) > 4, q[2] \in B, q[3] = "arguments", q[4] = "json"
      PROVE  Adapters!ResponsesMasks(q)
  <2>1. q[1] \in A /\ q[3] \in C /\ q[4] \in D
    BY <1>2
  <2> HIDE DEF A, B, C, D
  <2>2. Adapters!Below(q, <<A, B, C, D>>)
    BY <1>2, <2>1, BelowFour
  <2>3. QED
    BY <2>2 DEF Adapters!ResponsesMasks, A, B, C, D
<1>3. ASSUME Len(q) = 3, q[3] \in {"id", "call_id"}
      PROVE  ~ Adapters!ResponsesMasks(q)
  <2>1. q \notin {<<"instructions">>, <<"input">>}
    <3>1. Len(<<"instructions">>) = 1 /\ Len(<<"input">>) = 1
      OBVIOUS
    <3>2. QED
      BY <1>3, <3>1
  <2>2. ~ Adapters!Fits(q, <<{"input"}, Adapters!Elements, Adapters!TextKeys \cup {"content"}>>)
    <3> DEFINE E == Adapters!TextKeys \cup {"content"}
    <3>1. q[3] \notin E
      BY <1>3 DEF Adapters!TextKeys
    <3> HIDE DEF E
    <3>2. QED
      BY <1>3, <3>1, FitsThree DEF E
  <2>3. ~ Adapters!Fits(q, <<{"input"}, Adapters!Elements, {"content"}, Adapters!Elements, Adapters!TextKeys>>)
    BY <1>3, FitsFive
  <2>4. ~ Adapters!Fits(q, <<{"input"}, Adapters!Elements, {"output", "arguments"}>>)
    <3> DEFINE E == {"output", "arguments"}
    <3>1. q[3] \notin E
      BY <1>3
    <3> HIDE DEF E
    <3>2. QED
      BY <1>3, <3>1, FitsThree DEF E
  <2>5. ~ Adapters!Below(q, <<{"input"}, Adapters!Elements, {"output"}>>)
    BY <1>3, BelowThree
  <2>6. ~ Adapters!Below(q, <<{"input"}, Adapters!Elements, {"arguments"}, {"json"}>>)
    BY <1>3, BelowFour
  <2>7. ~ Adapters!Fits(q, <<{"tools"}, Adapters!Elements, {"description"}>>)
    <3> DEFINE E == {"description"}
    <3>1. q[3] \notin E
      BY <1>3
    <3> HIDE DEF E
    <3>2. QED
      BY <1>3, <3>1, FitsThree DEF E
  <2>8. ~ Adapters!Fits(q, <<{"tools"}, Adapters!Elements, {"function"}, {"description"}>>)
    BY <1>3 DEF Adapters!Fits
  <2>9. QED
    BY <2>1, <2>2, <2>3, <2>4, <2>5, <2>6, <2>7, <2>8 DEF Adapters!ResponsesMasks
<1>4. QED
  BY <1>1, <1>2, <1>3

\* Where Anthropic's answers are restored
LEMMA AnthropicRestored ==
    ASSUME NEW answer, NEW p \in Seq(Strings), Adapters!AnthropicRestores(answer, p)
    PROVE  /\ p[1] = "content" /\ p[2] \in Adapters!Elements
           /\ \/ Len(p) = 3 /\ p[3] = "text" /\ Adapters!Field(answer, SubSeq(p, 1, 2), "type") = "text"
              \/ Len(p) > 3 /\ p[3] = "input" /\ Adapters!Field(answer, SubSeq(p, 1, 2), "type") = "tool_use"
<1> DEFINE A == {"content"}
           B == Adapters!Elements
<1>1. CASE Adapters!Fits(p, <<A, B, {"text"}>>) /\ Adapters!Field(answer, SubSeq(p, 1, 2), "type") = "text"
  <2> DEFINE C == {"text"}
  <2>1. Adapters!Fits(p, <<A, B, C>>)
    BY <1>1
  <2> HIDE DEF A, B, C
  <2>2. Len(p) = 3 /\ p[1] \in A /\ p[2] \in B /\ p[3] \in C
    BY <2>1, FitsThree
  <2>3. QED
    BY <1>1, <2>2 DEF A, B, C
<1>2. CASE Adapters!Below(p, <<A, B, {"input"}>>) /\ Adapters!Field(answer, SubSeq(p, 1, 2), "type") = "tool_use"
  <2> DEFINE C == {"input"}
  <2>1. Adapters!Below(p, <<A, B, C>>)
    BY <1>2
  <2> HIDE DEF A, B, C
  <2>2. Len(p) > 3 /\ p[1] \in A /\ p[2] \in B /\ p[3] \in C
    BY <2>1, BelowThree
  <2>3. QED
    BY <1>2, <2>2 DEF A, B, C
<1>3. QED
  BY <1>1, <1>2 DEF Adapters!AnthropicRestores

\* Where Anthropic's requests are masked: there
LEMMA AnthropicMasked ==
    ASSUME NEW request, NEW q \in Seq(Strings), q[1] = "messages", q[2] \in Adapters!Elements,
           q[3] = "content", q[4] \in Adapters!Elements,
           \/ Len(q) = 5 /\ q[5] = "text" /\ Adapters!Field(request, SubSeq(q, 1, 4), "type") = "text"
           \/ Len(q) > 5 /\ q[5] = "input" /\ Adapters!Field(request, SubSeq(q, 1, 4), "type") = "tool_use"
    PROVE  Adapters!AnthropicMasks(request, q)
<1>1. Len(q) \in Nat /\ DOMAIN q = 1..Len(q)
  BY LenProperties
<1>2. 4 \in 4..Len(q) /\ 4 \in DOMAIN q /\ 4 % 2 = 0
  BY <1>1
<1>3. \A i \in 1..4 : q[i] \in IF i = 1 THEN {"messages"} ELSE IF i % 2 = 0 THEN Adapters!Elements ELSE {"content"}
  <2>1. \A i \in 1..4 : i = 1 \/ i = 2 \/ i = 3 \/ i = 4
    OBVIOUS
  <2>2. 2 % 2 = 0 /\ 3 % 2 # 0 /\ 4 % 2 = 0
    OBVIOUS
  <2>3. QED
    BY <2>1, <2>2
<1>4. {k \in 4..(4 - 1) : k % 2 = 0} = {}
  OBVIOUS
<1>5. Adapters!IsBlock(request, q, 4)
  BY <1>2, <1>3, <1>4 DEF Adapters!IsBlock
<1>6. Adapters!BlockMasks(request, q, 4)
  BY DEF Adapters!BlockMasks
<1>7. QED
  BY <1>2, <1>5, <1>6 DEF Adapters!AnthropicMasks

\* A place that is no place of the answer is repeated in none.
LEMMA RepeatedNowhere ==
    ASSUME NEW protocol, NEW f, Places(protocol, DOMAIN f), NEW p, Places(protocol, {p}), p \notin DOMAIN f
    PROVE  AsInput(protocol, p) \notin DOMAIN Adapters!Repeat(protocol, f)
<1> DEFINE S == DOMAIN f \cup {p}
<1>1. Places(protocol, S)
  BY DEF Places
<1>2. \A r \in DOMAIN f : AsInput(protocol, r) # AsInput(protocol, p)
  <2>1. ASSUME NEW r \in DOMAIN f, AsInput(protocol, r) = AsInput(protocol, p)
        PROVE  FALSE
    <3>1. r \in S /\ p \in S /\ r # p
      BY <2>1
    <3> HIDE DEF S
    <3>2. QED
      BY <1>1, <2>1, <3>1, AsInputApart
  <2>2. QED
    BY <2>1
<1>3. Repeats(protocol, f, Adapters!Repeat(protocol, f))
  BY RepeatFacts
<1>4. QED
  BY <1>2, <1>3 DEF Repeats

\* The type of a block is shown and repeated as it is.
LEMMA TypeRepeated ==
    ASSUME NEW answer, AnswerShape("anthropic", answer), NEW p \in DOMAIN answer, Len(p) >= 3
    PROVE  Adapters!Field(Adapters!Repeat("anthropic", ShownAnswer("anthropic", answer)),
                          SubSeq(AsInput("anthropic", p), 1, 4), "type")
              = Adapters!Field(answer, SubSeq(p, 1, 2), "type")
<1> DEFINE pr == "anthropic"
           shown == ShownAnswer(pr, answer)
           rep == Adapters!Repeat(pr, shown)
           q == AsInput(pr, p)
           tp == Append(SubSeq(p, 1, 2), "type")
           tq == Append(SubSeq(q, 1, 4), "type")
<1>1. /\ p \in Seq(Strings) /\ Len(p) >= 2 /\ p[1] = "content" /\ Len(p) \in Nat
      /\ Places(pr, DOMAIN answer) /\ DOMAIN shown = DOMAIN answer /\ pr # "responses"
  <2>1. Places(pr, DOMAIN answer)
    BY DEF AnswerShape
  <2>2. p \in Seq(Strings) /\ Len(p) >= 2 /\ p[1] = "content"
    BY <2>1 DEF Places
  <2>3. QED
    BY <2>1, <2>2, ShownFacts, LenProperties
<1>2. /\ tp \in Seq(Strings) /\ Len(tp) = 3 /\ tp[1] = "content" /\ tp[2] = p[2] /\ tp[3] = "type"
  <2> DEFINE b == SubSeq(p, 1, 2)
  <2>1. b \in Seq(Strings) /\ Len(b) = 2 /\ b[1] = p[1] /\ b[2] = p[2]
    BY <1>1
  <2>2. "type" \in Strings
    BY DEF Strings
  <2> HIDE DEF b
  <2> DEFINE l == Append(b, "type")
  <2>3. l \in Seq(Strings) /\ Len(l) = Len(b) + 1 /\ (\A i \in 1..Len(b) : l[i] = b[i]) /\ l[Len(b) + 1] = "type"
    BY <2>1, <2>2, KeyAppended DEF Longer
  <2>4. 1 \in 1..Len(b) /\ 2 \in 1..Len(b) /\ Len(b) + 1 = 3
    BY <2>1
  <2> HIDE DEF l
  <2>5. l \in Seq(Strings) /\ Len(l) = 3 /\ l[1] = b[1] /\ l[2] = b[2] /\ l[3] = "type"
    BY <2>3, <2>4
  <2>6. QED
    BY <1>1, <2>1, <2>5 DEF b, l
<1> HIDE DEF pr
<1>3. /\ q \in Seq(Strings) /\ Len(q) = Len(p) + 2 /\ q[1] = "messages" /\ q[2] = "[0]"
      /\ q[3] = p[1] /\ q[4] = p[2]
  <2>1. /\ q \in Seq(Strings) /\ Len(q) = Len(p) + 2 /\ q[1] = "messages" /\ q[2] = "[0]"
        /\ \A i \in 1..Len(p) : q[i + 2] = p[i]
    BY <1>1, AsInputFacts
  <2> HIDE DEF q
  <2>2. 1 \in 1..Len(p) /\ 2 \in 1..Len(p) /\ 1 + 2 = 3 /\ 2 + 2 = 4
    BY <1>1
  <2>3. q[1 + 2] = p[1] /\ q[2 + 2] = p[2]
    BY <2>1, <2>2
  <2>4. QED
    BY <2>1, <2>2, <2>3
<1>4. /\ tq \in Seq(Strings) /\ Len(tq) = 5 /\ tq[1] = "messages" /\ tq[2] = "[0]" /\ tq[3] = "content"
      /\ tq[4] = p[2] /\ tq[5] = "type"
  <2> DEFINE b == SubSeq(q, 1, 4)
  <2> HIDE DEF q
  <2>1. b \in Seq(Strings) /\ Len(b) = 4 /\ b[1] = q[1] /\ b[2] = q[2] /\ b[3] = q[3] /\ b[4] = q[4]
    BY <1>1, <1>3
  <2>2. "type" \in Strings
    BY DEF Strings
  <2> HIDE DEF b
  <2> DEFINE l == Append(b, "type")
  <2>3. l \in Seq(Strings) /\ Len(l) = Len(b) + 1 /\ (\A i \in 1..Len(b) : l[i] = b[i]) /\ l[Len(b) + 1] = "type"
    BY <2>1, <2>2, KeyAppended DEF Longer
  <2>4. 1 \in 1..Len(b) /\ 2 \in 1..Len(b) /\ 3 \in 1..Len(b) /\ 4 \in 1..Len(b) /\ Len(b) + 1 = 5
    BY <2>1
  <2> HIDE DEF l
  <2>5. /\ l \in Seq(Strings) /\ Len(l) = 5 /\ l[1] = b[1] /\ l[2] = b[2] /\ l[3] = b[3]
        /\ l[4] = b[4] /\ l[5] = "type"
    BY <2>3, <2>4
  <2>6. QED
    BY <1>1, <1>3, <2>1, <2>5 DEF b, l
<1> HIDE DEF q, tp, tq
<1>5. tq = AsInput(pr, tp)
  <2> DEFINE s == AsInput(pr, tp)
  <2>1. /\ s \in Seq(Strings) /\ Len(s) = Len(tp) + 2 /\ s[1] = "messages" /\ s[2] = "[0]"
        /\ \A i \in 1..Len(tp) : s[i + 2] = tp[i]
    <3>1. tp \in Seq(Strings) /\ Len(tp) >= 2
      BY <1>2
    <3>2. QED
      BY <1>1, <3>1, AsInputFacts
  <2> HIDE DEF s
  <2>2. 1 \in 1..Len(tp) /\ 2 \in 1..Len(tp) /\ 3 \in 1..Len(tp)
    BY <1>2
  <2>3. s[1 + 2] = tp[1] /\ s[2 + 2] = tp[2] /\ s[3 + 2] = tp[3]
    BY <2>1, <2>2
  <2>4. s[3] = "content" /\ s[4] = p[2] /\ s[5] = "type" /\ Len(s) = 5
    <3>1. 1 + 2 = 3 /\ 2 + 2 = 4 /\ 3 + 2 = 5
      OBVIOUS
    <3>2. QED
      BY <1>2, <2>1, <2>3, <3>1
  <2>5. \A i \in 1..5 : i = 1 \/ i = 2 \/ i = 3 \/ i = 4 \/ i = 5
    OBVIOUS
  <2>6. \A i \in 1..5 : s[i] = tq[i]
    BY <1>4, <2>1, <2>4, <2>5
  <2>7. s = [i \in 1..5 |-> s[i]] /\ tq = [i \in 1..5 |-> tq[i]]
    BY <1>4, <2>1, <2>4, LenProperties, ZenonT(40)
  <2>8. s = tq
    BY <2>6, <2>7
  <2>9. QED
    BY <2>8 DEF s
<1>6. Adapters!Get(rep, tq, <<>>) = Adapters!Get(answer, tp, <<>>)
  <2>1. CASE tp \in DOMAIN answer
    <3>1. ~ Adapters!AnthropicRestores(answer, tp)
      BY <1>2, AnthropicRestored
    <3>2. ~ Adapters!Restores(pr, answer, tp)
      BY <3>1 DEF Adapters!Restores, pr
    <3>3. shown[tp] = answer[tp]
      BY <2>1, <3>2, ShownFacts DEF pr
    <3> HIDE DEF shown
    <3>4. Repeats(pr, shown, rep)
      BY <1>1, RepeatFacts
    <3> HIDE DEF rep
    <3>5. tq \in DOMAIN rep /\ rep[tq] = shown[tp]
      BY <1>1, <1>5, <2>1, <3>4 DEF Repeats
    <3>6. QED
      BY <2>1, <3>3, <3>5 DEF Adapters!Get
  <2>2. CASE tp \notin DOMAIN answer
    <3> HIDE DEF shown
    <3>1. Places(pr, {tp})
      <4>1. tp \in Seq(Strings) /\ Len(tp) >= 2 /\ tp[1] = "content" /\ pr = "anthropic"
        BY <1>2 DEF pr
      <4>2. QED
        BY <4>1, Zenon DEF Places
    <3>2. tq \notin DOMAIN rep
      BY <1>1, <1>5, <2>2, <3>1, RepeatedNowhere
    <3>3. QED
      BY <2>2, <3>2 DEF Adapters!Get
  <2>3. QED
    BY <2>1, <2>2
<1>7. QED
  BY <1>6 DEF Adapters!Field, tp, tq, q, pr

\* What was restored for the client is masked where the client repeats it.
LEMMA RestoredIsMasked ==
    ASSUME NEW protocol, NEW answer, AnswerShape(protocol, answer), NEW p \in DOMAIN answer,
           Adapters!Restores(protocol, answer, p)
    PROVE  Adapters!Masks(protocol, Adapters!Repeat(protocol, ShownAnswer(protocol, answer)),
                          AsInput(protocol, p))
<1> DEFINE q == AsInput(protocol, p)
           rep == Adapters!Repeat(protocol, ShownAnswer(protocol, answer))
<1>1. p \in Seq(Strings) /\ Len(p) >= 2 /\ Len(p) \in Nat /\ protocol \in {"responses", "anthropic"}
  BY LenProperties DEF AnswerShape, Places
<1>2. CASE protocol = "responses"
  <2>1. Adapters!ResponsesRestores(answer, p)
    BY <1>2 DEF Adapters!Restores
  <2>2. /\ q \in Seq(Strings) /\ Len(q) = Len(p) /\ q[1] = "input" /\ \A i \in 2..Len(p) : q[i] = p[i]
    BY <1>1, <1>2, AsInputFacts
  <2> HIDE DEF q
  <2>3. \/ /\ Len(q) = 5 /\ q[2] \in Adapters!Elements /\ q[3] = "content"
           /\ q[4] \in Adapters!Elements /\ q[5] \in Adapters!TextKeys
        \/ Len(q) > 4 /\ q[2] \in Adapters!Elements /\ q[3] = "arguments" /\ q[4] = "json"
    <3>1. CASE /\ Len(p) = 5 /\ p[2] \in Adapters!Elements /\ p[3] = "content"
               /\ p[4] \in Adapters!Elements /\ p[5] \in Adapters!TextKeys
      <4>1. 2 \in 2..Len(p) /\ 3 \in 2..Len(p) /\ 4 \in 2..Len(p) /\ 5 \in 2..Len(p)
        BY <3>1
      <4>2. QED
        BY <2>2, <3>1, <4>1
    <3>2. CASE Len(p) > 4 /\ p[2] \in Adapters!Elements /\ p[3] = "arguments" /\ p[4] = "json"
      <4>1. 2 \in 2..Len(p) /\ 3 \in 2..Len(p) /\ 4 \in 2..Len(p)
        BY <1>1, <3>2
      <4>2. QED
        BY <2>2, <3>2, <4>1
    <3>3. QED
      BY <1>1, <2>1, <3>1, <3>2, ResponsesRestored
  <2>4. Adapters!ResponsesMasks(q)
    BY <2>2, <2>3, ResponsesMasked
  <2>5. QED
    BY <1>2, <2>4 DEF Adapters!Masks, q
<1>3. CASE protocol = "anthropic"
  <2>1. Adapters!AnthropicRestores(answer, p)
    BY <1>3 DEF Adapters!Restores
  <2>2. /\ p[1] = "content" /\ p[2] \in Adapters!Elements
        /\ \/ Len(p) = 3 /\ p[3] = "text" /\ Adapters!Field(answer, SubSeq(p, 1, 2), "type") = "text"
           \/ Len(p) > 3 /\ p[3] = "input" /\ Adapters!Field(answer, SubSeq(p, 1, 2), "type") = "tool_use"
    BY <1>1, <2>1, AnthropicRestored
  <2>3. Len(p) >= 3
    BY <1>1, <2>2
  <2>4. Adapters!Field(rep, SubSeq(q, 1, 4), "type") = Adapters!Field(answer, SubSeq(p, 1, 2), "type")
    BY <1>3, <2>3, TypeRepeated
  <2>5. /\ q \in Seq(Strings) /\ Len(q) = Len(p) + 2 /\ q[1] = "messages" /\ q[2] = "[0]"
        /\ \A i \in 1..Len(p) : q[i + 2] = p[i]
    BY <1>1, <1>3, AsInputFacts
  <2> HIDE DEF q, rep
  <2>6. q[3] = p[1] /\ q[4] = p[2] /\ q[5] = p[3]
    <3>1. 1 \in 1..Len(p) /\ 2 \in 1..Len(p) /\ 3 \in 1..Len(p)
      BY <1>1, <2>3
    <3>2. q[1 + 2] = p[1] /\ q[2 + 2] = p[2] /\ q[3 + 2] = p[3]
      BY <2>5, <3>1
    <3>3. 1 + 2 = 3 /\ 2 + 2 = 4 /\ 3 + 2 = 5
      OBVIOUS
    <3>4. QED
      BY <3>2, <3>3
  <2>7. "[0]" \in Adapters!Elements
    BY DEF Adapters!Elements
  <2>8. Adapters!AnthropicMasks(rep, q)
    <3>1. q[2] \in Adapters!Elements /\ q[3] = "content" /\ q[4] \in Adapters!Elements
      BY <2>2, <2>5, <2>6, <2>7
    <3>2. \/ Len(q) = 5 /\ q[5] = "text" /\ Adapters!Field(rep, SubSeq(q, 1, 4), "type") = "text"
          \/ Len(q) > 5 /\ q[5] = "input" /\ Adapters!Field(rep, SubSeq(q, 1, 4), "type") = "tool_use"
      BY <1>1, <2>2, <2>4, <2>5, <2>6
    <3>3. QED
      BY <2>5, <3>1, <3>2, AnthropicMasked
  <2>9. QED
    BY <1>3, <2>8 DEF Adapters!Masks, q, rep
<1>4. QED
  BY <1>1, <1>2, <1>3

\* What was shown and is masked again is the answer's own text.
LEMMA TextComesBack ==
    ASSUME NEW protocol, NEW answer, AnswerShape(protocol, answer), Adapters!Harmless(protocol, answer),
           NEW p \in DOMAIN answer
    PROVE  LET rep == Adapters!Repeat(protocol, ShownAnswer(protocol, answer))
               q == AsInput(protocol, p)
           IN  (IF Adapters!Masks(protocol, rep, q) THEN Adapters!MaskText(rep[q]) ELSE rep[q]) = answer[p]
<1> DEFINE shown == ShownAnswer(protocol, answer)
           rep == Adapters!Repeat(protocol, shown)
           q == AsInput(protocol, p)
           t == answer[p]
<1>1. /\ Places(protocol, DOMAIN answer) /\ p \in Seq(Strings) /\ Len(p) >= 2 /\ Len(p) \in Nat
      /\ t \in Seq(Strings)
  BY LenProperties DEF AnswerShape, Places
<1>2. rep[q] = IF Adapters!Restores(protocol, answer, p) THEN Adapters!RestoreText(t) ELSE t
  <2>1. DOMAIN shown = DOMAIN answer
        /\ shown[p] = IF Adapters!Restores(protocol, answer, p) THEN Adapters!RestoreText(t) ELSE t
    BY ShownFacts
  <2> HIDE DEF shown
  <2>2. Repeats(protocol, shown, rep)
    BY <1>1, <2>1, RepeatFacts
  <2> HIDE DEF rep
  <2>3. rep[q] = shown[p]
    BY <2>1, <2>2 DEF Repeats
  <2>4. QED
    BY <2>1, <2>3
<1>3. Adapters!NumberedId \in Adapters!Range(t) \/ Adapters!Range(t) \cap Adapters!Sensitive = {}
  BY NothingSensitive
<1>4. CASE Adapters!NumberedId \in Adapters!Range(t)
  <2>1. protocol = "responses" /\ Len(p) = 3 /\ p[3] \in {"id", "call_id"}
    BY <1>4, NumbersInIds DEF IdPlace
  <2>2. ~ Adapters!Restores(protocol, answer, p)
    <3>1. ~ Adapters!ResponsesRestores(answer, p)
      BY <1>1, <2>1, ResponsesRestored
    <3>2. QED
      BY <2>1, <3>1 DEF Adapters!Restores
  <2>3. ~ Adapters!Masks(protocol, rep, q)
    <3>1. q \in Seq(Strings) /\ Len(q) = 3 /\ q[1] = "input" /\ q[3] \in {"id", "call_id"}
      <4>1. q \in Seq(Strings) /\ Len(q) = Len(p) /\ q[1] = "input" /\ \A i \in 2..Len(p) : q[i] = p[i]
        <5>1. p \in Seq(Strings) /\ Len(p) >= 2 /\ protocol = "responses"
          BY <1>1, <2>1
        <5>2. QED
          BY <5>1, AsInputFacts
      <4>2. 3 \in 2..Len(p)
        BY <2>1
      <4> HIDE DEF q
      <4>3. QED
        BY <2>1, <4>1, <4>2
    <3> HIDE DEF q
    <3>2. ~ Adapters!ResponsesMasks(q)
      BY <3>1, ResponsesMasked
    <3>3. QED
      BY <2>1, <3>2 DEF Adapters!Masks
  <2>4. QED
    BY <1>2, <2>2, <2>3
<1>5. CASE Adapters!Range(t) \cap Adapters!Sensitive = {}
  <2>1. Adapters!MaskText(t) = t /\ Adapters!MaskText(Adapters!RestoreText(t)) = t
    <3> HIDE DEF t
    <3>1. QED
      BY <1>1, <1>5, MaskUndoesRestore
  <2>2. Adapters!Restores(protocol, answer, p) => Adapters!Masks(protocol, rep, q)
    BY RestoredIsMasked
  <2> HIDE DEF rep, q, t
  <2>3. CASE Adapters!Masks(protocol, rep, q)
    <3>1. Adapters!MaskText(rep[q]) = t
      <4>1. CASE Adapters!Restores(protocol, answer, p)
        BY <1>2, <2>1, <4>1
      <4>2. CASE ~ Adapters!Restores(protocol, answer, p)
        BY <1>2, <2>1, <4>2
      <4>3. QED
        BY <4>1, <4>2
    <3>2. QED
      BY <2>3, <3>1 DEF rep, q, t
  <2>4. CASE ~ Adapters!Masks(protocol, rep, q)
    <3>1. rep[q] = t
      BY <1>2, <2>2, <2>4
    <3>2. QED
      BY <2>4, <3>1 DEF rep, q, t
  <2>5. QED
    BY <2>3, <2>4
<1>6. QED
  BY <1>3, <1>4, <1>5

\* The key a place ends with is a field of the block it is in.
LEMMA LastField ==
    ASSUME NEW payload, NEW q \in DOMAIN payload, q \in Seq(Strings), Len(q) >= 1
    PROVE  Adapters!Field(payload, Adapters!Up(q), Adapters!Key(q))
              = IF payload[q] = <<>> THEN "" ELSE Head(payload[q])
<1>1. Append(Adapters!Up(q), Adapters!Key(q)) = q
  BY DEF Adapters!Up, Adapters!Key
<1>2. QED
  BY <1>1 DEF Adapters!Field, Adapters!Get

\* The keys of a repeated place
LEMMA RepeatedKeys ==
    ASSUME NEW protocol, NEW p, Places(protocol, {p})
    PROVE  /\ AsInput(protocol, p) \in Seq(Strings) /\ Len(AsInput(protocol, p)) >= 2
           /\ Adapters!Key(AsInput(protocol, p)) = Adapters!Key(p)
           /\ AsInput(protocol, p)[1] \in {"input", "messages"}
           /\ \A k \in Adapters!Range(AsInput(protocol, p)) :
                 k \in Adapters!Range(p) \/ k \in {"input", "messages", "[0]"}
           /\ \A k \in Adapters!Range(p) :
                 k \in Adapters!Range(AsInput(protocol, p)) \/ k \in {"output", "content"}
<1> DEFINE q == AsInput(protocol, p)
<1>1. /\ p \in Seq(Strings) /\ Len(p) >= 2 /\ Len(p) \in Nat /\ p[1] \in {"output", "content"}
      /\ DOMAIN p = 1..Len(p)
  BY LenProperties DEF Places
<1>2. q \in Seq(Strings)
  BY <1>1, AsInputFacts
<1>3. CASE protocol = "responses"
  <2>1. Len(q) = Len(p) /\ q[1] = "input" /\ \A i \in 2..Len(p) : q[i] = p[i]
    BY <1>1, <1>3, AsInputFacts
  <2> HIDE DEF q
  <2>2. DOMAIN q = 1..Len(p) /\ \A i \in 1..Len(p) : i = 1 \/ i \in 2..Len(p)
    BY <1>1, <1>2, <2>1, LenProperties
  <2>3. q[Len(q)] = p[Len(p)] /\ Len(q) >= 2
    <3>1. Len(p) \in 2..Len(p)
      BY <1>1
    <3>2. QED
      BY <1>1, <2>1, <3>1
  <2>4. \A i \in 1..Len(p) : p[i] \in Adapters!Range(p) /\ q[i] \in Adapters!Range(q)
    BY <1>1, <2>1, <2>2 DEF Adapters!Range
  <2>5. \A i \in 1..Len(p) : q[i] = p[i] \/ (q[i] = "input" /\ p[i] \in {"output", "content"})
    BY <1>1, <2>1, <2>2
  <2>6. \A k \in Adapters!Range(q) : k \in Adapters!Range(p) \/ k = "input"
    <3>1. \A k \in Adapters!Range(q) : \E i \in 1..Len(p) : k = q[i]
      BY <2>1, <2>2 DEF Adapters!Range
    <3>2. QED
      BY <2>4, <2>5, <3>1
  <2>7. \A k \in Adapters!Range(p) : k \in Adapters!Range(q) \/ k \in {"output", "content"}
    <3>1. \A k \in Adapters!Range(p) : \E i \in 1..Len(p) : k = p[i]
      BY <1>1 DEF Adapters!Range
    <3>2. QED
      BY <2>4, <2>5, <3>1
  <2>8. QED
    BY <1>2, <2>1, <2>3, <2>6, <2>7 DEF Adapters!Key, q
<1>4. CASE protocol # "responses"
  <2>1. Len(q) = Len(p) + 2 /\ q[1] = "messages" /\ q[2] = "[0]" /\ \A i \in 1..Len(p) : q[i + 2] = p[i]
    BY <1>1, <1>4, AsInputFacts
  <2> HIDE DEF q
  <2>2. DOMAIN q = 1..(Len(p) + 2)
    BY <1>2, <2>1, LenProperties
  <2>3. q[Len(q)] = p[Len(p)] /\ Len(q) >= 2
    <3>1. Len(p) \in 1..Len(p)
      BY <1>1
    <3>2. QED
      BY <1>1, <2>1, <3>1
  <2>4. \A k \in Adapters!Range(q) : k \in Adapters!Range(p) \/ k \in {"messages", "[0]"}
    <3>1. \A i \in 1..(Len(p) + 2) : i = 1 \/ i = 2 \/ (i - 2 \in 1..Len(p) /\ (i - 2) + 2 = i)
      BY <1>1
    <3>2. \A i \in 1..(Len(p) + 2) : i = 1 \/ i = 2 \/ (i - 2 \in 1..Len(p) /\ q[i] = p[i - 2])
      BY <2>1, <3>1
    <3>3. \A i \in 1..Len(p) : p[i] \in Adapters!Range(p)
      BY <1>1 DEF Adapters!Range
    <3>4. \A k \in Adapters!Range(q) : \E i \in 1..(Len(p) + 2) : k = q[i]
      BY <2>2 DEF Adapters!Range
    <3>5. \A i \in 1..(Len(p) + 2) : q[i] \in Adapters!Range(p) \/ q[i] \in {"messages", "[0]"}
      <4>1. ASSUME NEW i \in 1..(Len(p) + 2)
            PROVE  q[i] \in Adapters!Range(p) \/ q[i] \in {"messages", "[0]"}
        <5>1. CASE i = 1 \/ i = 2
          BY <2>1, <5>1
        <5>2. CASE i - 2 \in 1..Len(p) /\ q[i] = p[i - 2]
          BY <3>3, <5>2
        <5>3. QED
          BY <3>2, <5>1, <5>2
      <4>2. QED
        BY <4>1
    <3>6. QED
      BY <3>4, <3>5
  <2>5. \A k \in Adapters!Range(p) : k \in Adapters!Range(q)
    <3>1. \A i \in 1..Len(p) : i + 2 \in 1..(Len(p) + 2)
      BY <1>1
    <3>2. QED
      BY <1>1, <2>1, <2>2, <3>1 DEF Adapters!Range
  <2>6. QED
    BY <1>2, <2>1, <2>3, <2>4, <2>5 DEF Adapters!Key, q
<1>5. QED
  BY <1>3, <1>4

\* The request that repeats what was shown is masked to one that repeats the answer.
LEMMA MaskedAgain ==
    ASSUME NEW protocol, NEW answer, AnswerShape(protocol, answer), Adapters!Harmless(protocol, answer)
    PROVE  LET rep == Adapters!Repeat(protocol, ShownAnswer(protocol, answer))
           IN  [q \in DOMAIN rep |-> IF Adapters!Masks(protocol, rep, q)
                                     THEN Adapters!MaskText(rep[q]) ELSE rep[q]]
                  = Adapters!Repeat(protocol, answer)
<1> DEFINE shown == ShownAnswer(protocol, answer)
           rep == Adapters!Repeat(protocol, shown)
           again == Adapters!Repeat(protocol, answer)
           remasked(q) == IF Adapters!Masks(protocol, rep, q) THEN Adapters!MaskText(rep[q]) ELSE rep[q]
<1>1. Places(protocol, DOMAIN answer) /\ DOMAIN shown = DOMAIN answer
  BY ShownFacts DEF AnswerShape
<1>2. \A p \in DOMAIN answer : remasked(AsInput(protocol, p)) = answer[p]
  BY TextComesBack
<1> HIDE DEF shown
<1>3. Repeats(protocol, shown, rep) /\ Repeats(protocol, answer, again)
  BY <1>1, RepeatFacts
<1> HIDE DEF rep, again, remasked
<1>4. DOMAIN again = DOMAIN rep /\ again = [q \in DOMAIN again |-> again[q]]
  BY <1>1, <1>3 DEF Repeats
<1>5. \A q \in DOMAIN rep : remasked(q) = again[q]
  <2>1. ASSUME NEW q \in DOMAIN rep
        PROVE  remasked(q) = again[q]
    <3>1. PICK p \in DOMAIN answer : q = AsInput(protocol, p)
      BY <1>1, <1>3 DEF Repeats
    <3>2. again[AsInput(protocol, p)] = answer[p]
      BY <1>3 DEF Repeats
    <3>3. QED
      BY <1>2, <3>1, <3>2
  <2>2. QED
    BY <2>1
<1>6. [q \in DOMAIN rep |-> remasked(q)] = again
  BY <1>4, <1>5
<1>7. QED
  BY <1>6 DEF remasked, rep, again, shown

\* The first token of a text that is shown
LEMMA HeadRestored ==
    ASSUME NEW t \in Seq(Strings), t # <<>>
    PROVE  /\ Adapters!RestoreText(t) # <<>>
           /\ Head(Adapters!RestoreText(t)) = RestoreOne(Head(t))
<1> DEFINE r == Adapters!RestoreText(t)
<1>1. r = [i \in 1..Len(t) |-> RestoreOne(t[i])] /\ r \in Seq(Strings)
  BY OneByOne
<1>2. Len(t) \in Nat /\ Len(t) >= 1
  BY EmptySeq, LenProperties
<1> HIDE DEF r
<1>3. DOMAIN r = 1..Len(t) /\ r[1] = RestoreOne(t[1])
  BY <1>1, <1>2
<1>4. Len(r) = Len(t)
  BY <1>1, <1>2, <1>3, LenProperties
<1>5. r # <<>>
  BY <1>2, <1>4
<1>6. Head(r) = r[1] /\ Head(t) = t[1]
  BY <1>1, <1>5
<1>7. QED
  BY <1>3, <1>5, <1>6 DEF r

\* No attachment appears by showing an answer.
LEMMA NoAttachmentShown ==
    ASSUME NEW protocol, NEW answer, AnswerShape(protocol, answer), Adapters!Harmless(protocol, answer)
    PROVE  ~ Adapters!HasAttachment(protocol, Adapters!Repeat(protocol, ShownAnswer(protocol, answer)))
<1> DEFINE shown == ShownAnswer(protocol, answer)
           rep == Adapters!Repeat(protocol, shown)
<1>1. Places(protocol, DOMAIN answer) /\ DOMAIN shown = DOMAIN answer
  BY ShownFacts DEF AnswerShape
<1>2. \A p \in DOMAIN answer : shown[p] = answer[p] \/ shown[p] = Adapters!RestoreText(answer[p])
  BY ShownFacts
<1> HIDE DEF shown
<1>3. Repeats(protocol, shown, rep)
  BY <1>1, RepeatFacts
<1> HIDE DEF rep
<1>4. ASSUME NEW q \in DOMAIN rep, "json" \notin Adapters!Range(q),
             \/ Adapters!Key(q) = "type"
                   /\ Adapters!Field(rep, Adapters!Up(q), "type") \in Adapters!BlockTypes(protocol)
             \/ Adapters!Key(q) \in Adapters!ReferenceFields(protocol)
      PROVE  FALSE
  <2>1. PICK p \in DOMAIN answer : q = AsInput(protocol, p)
    BY <1>1, <1>3 DEF Repeats
  <2>2. rep[q] = shown[p]
    BY <1>1, <1>3, <2>1 DEF Repeats
  <2>3. Places(protocol, {p})
    BY <1>1 DEF Places
  <2>4. /\ q \in Seq(Strings) /\ Len(q) >= 2 /\ Adapters!Key(q) = Adapters!Key(p)
        /\ \A k \in Adapters!Range(p) : k \in Adapters!Range(q) \/ k \in {"output", "content"}
    BY <2>1, <2>3, RepeatedKeys
  <2>5. "json" \notin Adapters!Range(p)
    BY <1>4, <2>4
  <2>6. /\ p \in Seq(Strings) /\ Len(p) >= 2 /\ answer[p] \in Seq(Strings)
    BY <2>3 DEF Places, AnswerShape
  <2>7. CASE Adapters!Key(q) \in Adapters!ReferenceFields(protocol)
    <3>1. Adapters!HasAttachment(protocol, answer)
      BY <2>4, <2>5, <2>7 DEF Adapters!HasAttachment
    <3>2. QED
      BY <3>1 DEF Adapters!Harmless
  <2>8. CASE Adapters!Key(q) = "type"
                /\ Adapters!Field(rep, Adapters!Up(q), "type") \in Adapters!BlockTypes(protocol)
    <3> DEFINE first(t) == IF t = <<>> THEN "" ELSE Head(t)
    <3>1. Adapters!Field(rep, Adapters!Up(q), "type") = first(rep[q])
      <4>1. q \in DOMAIN rep /\ Len(q) >= 1 /\ Len(q) \in Nat
        BY <1>4, <2>4, LenProperties
      <4>2. Adapters!Field(rep, Adapters!Up(q), Adapters!Key(q)) = first(rep[q])
        BY <2>4, <4>1, LastField
      <4>3. QED
        BY <2>8, <4>2
    <3>2. Adapters!Field(answer, Adapters!Up(p), "type") = first(answer[p])
      <4>1. Len(p) >= 1 /\ Len(p) \in Nat
        BY <2>6, LenProperties
      <4>2. Adapters!Field(answer, Adapters!Up(p), Adapters!Key(p)) = first(answer[p])
        BY <2>6, <4>1, LastField
      <4>3. QED
        BY <2>4, <2>8, <4>2
    <3>3. "" \notin Adapters!BlockTypes(protocol)
      BY DEF Adapters!BlockTypes
    <3>4. \A c : RestoreOne(c) \in Adapters!BlockTypes(protocol) => RestoreOne(c) = c
      BY DEF Adapters!BlockTypes, RestoreOne, Adapters!Original
    <3>5. first(answer[p]) \in Adapters!BlockTypes(protocol)
      <4>1. CASE shown[p] = answer[p]
        BY <2>2, <2>8, <3>1, <4>1
      <4>2. CASE shown[p] = Adapters!RestoreText(answer[p]) /\ answer[p] # <<>>
        <5>1. first(rep[q]) = RestoreOne(Head(answer[p]))
          BY <2>2, <2>6, <4>2, HeadRestored
        <5>2. QED
          BY <2>8, <3>1, <3>4, <4>2, <5>1
      <4>3. CASE shown[p] = Adapters!RestoreText(answer[p]) /\ answer[p] = <<>>
        <5> DEFINE t == answer[p]
                   r == Adapters!RestoreText(t)
        <5>1. r = [i \in 1..Len(t) |-> RestoreOne(t[i])] /\ r \in Seq(Strings)
          BY <2>6, OneByOne
        <5>2. Len(t) = 0
          BY <4>3
        <5> HIDE DEF t, r
        <5>3. r = <<>>
          <6>1. DOMAIN r = {}
            BY <5>1, <5>2
          <6>2. Len(r) = 0
            BY <5>1, <6>1, LenProperties
          <6>3. QED
            BY <5>1, <6>2, EmptySeq
        <5>4. first(rep[q]) = ""
          BY <2>2, <4>3, <5>3 DEF r, t
        <5>5. QED
          BY <2>8, <3>1, <3>3, <5>4
      <4>4. QED
        BY <1>2, <4>1, <4>2, <4>3
    <3> HIDE DEF first
    <3>6. Adapters!HasAttachment(protocol, answer)
      BY <2>4, <2>5, <2>8, <3>2, <3>5 DEF Adapters!HasAttachment
    <3>7. QED
      BY <3>6 DEF Adapters!Harmless
  <2>9. QED
    BY <1>4, <2>7, <2>8
<1>5. QED
  BY <1>4 DEF Adapters!HasAttachment, rep, shown

\* An identifier in its place in a request is one the guard lets pass.
LEMMA IdIsOpaque ==
    ASSUME NEW payload, NEW q \in DOMAIN payload, q \in Seq(Strings), Len(q) = 3, q[1] = "input",
           q[2] \in Adapters!Elements, q[3] \in {"id", "call_id"},
           payload[q] = <<Adapters!NumberedId>>
    PROVE  Adapters!NumberedId \in Adapters!OpaqueTokens(payload)
<1> DEFINE A == {"input"}
           B == Adapters!Elements
           C == {"id", "call_id"}
           pattern == <<A, B, C>>
           token == Adapters!NumberedId
<1>1. Adapters!Fits(q, pattern)
  <2>1. q[1] \in A /\ q[2] \in B /\ q[3] \in C
    OBVIOUS
  <2> HIDE DEF A, B, C
  <2>2. QED
    BY <2>1, FitsThree
<1>2. q # <<"client_metadata">>
  <2>1. Len(<<"client_metadata">>) = 1
    OBVIOUS
  <2>2. QED
    BY <2>1
<1>3. DOMAIN q = 1..3 /\ \A i \in 1..3 : i = 1 \/ i = 2 \/ i = 3
  BY LenProperties
<1>4. \A i \in DOMAIN q \ {1} : q[i] # "json"
  BY <1>3 DEF Adapters!Elements
<1> HIDE DEF token
<1>5. Adapters!TransportPlace(q)
  BY <1>1, <1>2, <1>4, Zenon DEF Adapters!TransportPlace, A, B, C
<1>6. q \in {p \in DOMAIN payload :
        /\ Adapters!TransportPlace(p)
        /\ \/ payload[p] = <<Adapters!NumberedId>>
           \/ payload[p] = <<Adapters!Number>> /\ Adapters!Key(p) \in Adapters!TimestampKeys}
  BY <1>5
<1>7. Head(payload[q]) = token
  <2>1. Head(<<token>>) = token
    OBVIOUS
  <2>2. QED
    BY <2>1 DEF token
<1>8. QED
  BY <1>6, <1>7 DEF Adapters!OpaqueTokens, token

\* Identifiers come back where the guard lets them pass.
LEMMA IdentifierIsOpaque ==
    ASSUME NEW protocol, NEW answer, AnswerShape(protocol, answer), Adapters!Harmless(protocol, answer),
           NEW p \in DOMAIN answer,
           Adapters!NumberedId \in Adapters!Range(p) \cup Adapters!Range(answer[p])
    PROVE  /\ protocol = "responses"
           /\ Adapters!NumberedId \in
                 Adapters!OpaqueTokens(Adapters!Repeat(protocol, ShownAnswer(protocol, answer)))
<1> DEFINE shown == ShownAnswer(protocol, answer)
           rep == Adapters!Repeat(protocol, shown)
           q == AsInput(protocol, p)
<1>1. protocol = "responses" /\ IdPlace(p) /\ answer[p] = <<Adapters!NumberedId>>
  BY NumbersInIds
<1>2. Places(protocol, DOMAIN answer) /\ p \in Seq(Strings) /\ Len(p) >= 2 /\ Len(p) = 3
  BY <1>1 DEF AnswerShape, Places, IdPlace
<1>3. ~ Adapters!Restores(protocol, answer, p)
  <2>1. ~ Adapters!ResponsesRestores(answer, p)
    BY <1>2, ResponsesRestored
  <2>2. QED
    BY <1>1, <2>1 DEF Adapters!Restores
<1>4. DOMAIN shown = DOMAIN answer /\ shown[p] = answer[p]
  BY <1>3, ShownFacts
<1>5. /\ q \in Seq(Strings) /\ Len(q) = 3 /\ q[1] = "input" /\ q[2] = p[2] /\ q[3] = p[3]
  <2>1. q \in Seq(Strings) /\ Len(q) = Len(p) /\ q[1] = "input" /\ \A i \in 2..Len(p) : q[i] = p[i]
    <3>1. p \in Seq(Strings) /\ Len(p) >= 2 /\ protocol = "responses"
      BY <1>1, <1>2
    <3>2. QED
      BY <3>1, AsInputFacts
  <2>2. 2 \in 2..Len(p) /\ 3 \in 2..Len(p)
    BY <1>2
  <2> HIDE DEF q
  <2>3. QED
    BY <1>2, <2>1, <2>2
<1> HIDE DEF shown
<1>6. q \in DOMAIN rep /\ rep[q] = answer[p]
  <2>1. Repeats(protocol, shown, rep)
    BY <1>2, <1>4, RepeatFacts
  <2> HIDE DEF rep
  <2>2. QED
    BY <1>4, <2>1 DEF Repeats
<1> HIDE DEF rep, q
<1>7. Adapters!NumberedId \in Adapters!OpaqueTokens(rep)
  <2>1. q[2] \in Adapters!Elements /\ q[3] \in {"id", "call_id"}
    BY <1>1, <1>5 DEF IdPlace
  <2>2. rep[q] = <<Adapters!NumberedId>>
    BY <1>1, <1>6
  <2>3. QED
    BY <1>5, <1>6, <2>1, <2>2, IdIsOpaque
<1>8. QED
  BY <1>1, <1>7 DEF rep, shown

\* The guard finds nothing in a repeated answer, and nothing in the note of the gateway.
LEMMA GuardPasses ==
    ASSUME NEW protocol, NEW answer, AnswerShape(protocol, answer), Adapters!Harmless(protocol, answer),
           NEW sent, NEW opaque,
           \A p \in DOMAIN answer :
              Adapters!NumberedId \in Adapters!Range(p) \cup Adapters!Range(answer[p])
                 => Adapters!NumberedId \in opaque,
           \A q \in DOMAIN sent :
              \/ \E p \in DOMAIN answer : q = AsInput(protocol, p) /\ sent[q] = answer[p]
              \/ q \in {<<"instructions">>, <<"system">>} /\ sent[q] = <<Adapters!Note>>
    PROVE  ~ Adapters!Guard(sent, opaque)
<1> DEFINE found(q) == (Adapters!Range(q) \cup Adapters!Range(sent[q])) \cap Adapters!Sensitive
           own == {"instructions", "system", "input", "messages", "[0]", Adapters!Note}
<1>1. own \cap Adapters!Sensitive = {}
  BY DEF Adapters!Sensitive, Adapters!Original, Adapters!Secret, Adapters!Number,
         Adapters!NumberedId, Adapters!Note
<1>2. ASSUME NEW q \in DOMAIN sent, NEW c \in found(q)
      PROVE  c = Adapters!NumberedId /\ c \in opaque
  <2>1. CASE q \in {<<"instructions">>, <<"system">>} /\ sent[q] = <<Adapters!Note>>
    <3>1. Adapters!Range(<<"instructions">>) = {"instructions"} /\ Adapters!Range(<<"system">>) = {"system"}
          /\ Adapters!Range(<<Adapters!Note>>) = {Adapters!Note}
      BY DEF Adapters!Range
    <3>2. c \in own
      BY <1>2, <2>1, <3>1
    <3>3. QED
      BY <1>1, <1>2, <3>2
  <2>2. CASE \E p \in DOMAIN answer : q = AsInput(protocol, p) /\ sent[q] = answer[p]
    <3>1. PICK p \in DOMAIN answer : q = AsInput(protocol, p) /\ sent[q] = answer[p]
      BY <2>2
    <3>2. Places(protocol, {p})
      BY DEF AnswerShape, Places
    <3>3. \A k \in Adapters!Range(q) : k \in Adapters!Range(p) \/ k \in {"input", "messages", "[0]"}
      BY <3>1, <3>2, RepeatedKeys
    <3>4. c \in Adapters!Range(p) \cup Adapters!Range(answer[p])
      <4>1. c \notin {"input", "messages", "[0]"}
        BY <1>1, <1>2
      <4>2. QED
        BY <1>2, <3>1, <3>3, <4>1
    <3>5. (Adapters!Range(p) \cup Adapters!Range(answer[p])) \cap Adapters!Sensitive
             \subseteq {Adapters!NumberedId}
      BY NothingSensitive
    <3>6. c = Adapters!NumberedId
      BY <1>2, <3>4, <3>5
    <3>7. QED
      BY <3>4, <3>6
  <2>3. QED
    BY <2>1, <2>2
<1> DEFINE refused == {Adapters!Original, Adapters!Secret}
                         \cup ({Adapters!Number, Adapters!NumberedId} \ opaque)
<1>3. Adapters!NumberedId \notin {Adapters!Original, Adapters!Secret}
  BY DEF Adapters!Original, Adapters!Secret, Adapters!NumberedId
<1>4. refused \subseteq Adapters!Sensitive
  BY DEF Adapters!Sensitive
<1>5. \A q \in DOMAIN sent : (Adapters!Range(q) \cup Adapters!Range(sent[q])) \cap refused = {}
  BY <1>2, <1>3, <1>4
<1> HIDE DEF refused
<1>6. Adapters!Tokens(sent) \cap refused = {}
  BY <1>5 DEF Adapters!Tokens
<1>7. QED
  BY <1>6 DEF Adapters!Guard, refused

\* With the note of the gateway, a repeated answer has that and nothing else.
LEMMA NotePrepended ==
    ASSUME NEW protocol, NEW answer, AnswerShape(protocol, answer)
    PROVE  LET again == Adapters!Repeat(protocol, answer)
               sent == Adapters!WithNote(protocol, again)
           IN  \A q \in DOMAIN sent :
                  \/ q \in DOMAIN again /\ sent[q] = again[q]
                  \/ q \in {<<"instructions">>, <<"system">>} /\ sent[q] = <<Adapters!Note>>
<1> DEFINE again == Adapters!Repeat(protocol, answer)
           field == IF protocol = "responses" THEN "instructions" ELSE "system"
           sent == Adapters!WithNote(protocol, again)
           note == <<Adapters!Note>> \o Adapters!Get(again, <<field>>, <<>>)
<1>1. Places(protocol, DOMAIN answer)
  BY DEF AnswerShape
<1>2. Repeats(protocol, answer, again)
  BY <1>1, RepeatFacts
<1>3. field \in {"instructions", "system"}
  OBVIOUS
<1>4. ASSUME NEW q \in DOMAIN again
      PROVE  ~ Adapters!Below(q, <<{field}>>) /\ q # <<field>>
  <2> HIDE DEF again
  <2>1. PICK p \in DOMAIN answer : q = AsInput(protocol, p)
    BY <1>2 DEF Repeats
  <2>2. Places(protocol, {p})
    BY <1>1 DEF Places
  <2>3. q \in Seq(Strings) /\ Len(q) >= 2 /\ q[1] \in {"input", "messages"}
    BY <2>1, <2>2, RepeatedKeys
  <2> HIDE DEF field
  <2>4. q[1] \notin {field}
    BY <1>3, <2>3
  <2> DEFINE A == {field}
  <2>5. ~ Adapters!Below(q, <<A>>)
    <3>1. q[1] \notin A
      BY <2>4
    <3> HIDE DEF A
    <3>2. QED
      BY <2>3, <3>1, BelowOne
  <2>6. q # <<field>>
    <3> DEFINE one == <<field>>
    <3>1. Len(one) = 1
      OBVIOUS
    <3> HIDE DEF one
    <3>2. q # one
      BY <2>3, <3>1
    <3>3. QED
      BY <3>2 DEF one
  <2>7. QED
    BY <2>5, <2>6
<1> HIDE DEF again
<1>5. ~ \E q \in DOMAIN again : Adapters!Below(q, <<{field}>>)
  BY <1>4
<1>6. sent = Adapters!Put(again, <<field>>, note)
  BY <1>5 DEF Adapters!WithNote
<1>7. note = <<Adapters!Note>>
  <2>1. Adapters!Get(again, <<field>>, <<>>) = <<>>
    BY <1>4 DEF Adapters!Get
  <2>2. <<Adapters!Note>> \o <<>> = <<Adapters!Note>>
    <3>1. <<Adapters!Note>> \in Seq({Adapters!Note})
      OBVIOUS
    <3>2. QED
      BY <3>1, ConcatEmptySeq
  <2>3. QED
    BY <2>1, <2>2
<1> HIDE DEF note, field, sent
<1>8. DOMAIN sent = DOMAIN again \cup {<<field>>}
      /\ sent[<<field>>] = note /\ \A q \in DOMAIN again : sent[q] = again[q]
  BY <1>4, <1>6 DEF Adapters!Put
<1>9. <<field>> \in {<<"instructions">>, <<"system">>}
  BY <1>3
<1>10. \A q \in DOMAIN sent :
          \/ q \in DOMAIN again /\ sent[q] = again[q]
          \/ q \in {<<"instructions">>, <<"system">>} /\ sent[q] = <<Adapters!Note>>
  BY <1>7, <1>8, <1>9
<1>11. QED
  BY <1>10 DEF sent, again

\* What was shown of a harmless answer comes back to the provider as the answer it gave, and
\* the guard lets it pass.
LEMMA ShownComesBack ==
    ASSUME NEW protocol, NEW answer, NEW noted \in BOOLEAN,
           AnswerShape(protocol, answer), Adapters!Harmless(protocol, answer)
    PROVE  Adapters!ComesBack(protocol, answer, noted,
              Adapters!MaskRequest(protocol,
                  Adapters!Repeat(protocol, ShownAnswer(protocol, answer)), noted))
<1> DEFINE shown == ShownAnswer(protocol, answer)
           rep == Adapters!Repeat(protocol, shown)
           again == Adapters!Repeat(protocol, answer)
           remasked == [q \in DOMAIN rep |-> IF Adapters!Masks(protocol, rep, q)
                                           THEN Adapters!MaskText(rep[q]) ELSE rep[q]]
           opaque == IF protocol = "responses" THEN Adapters!OpaqueTokens(rep) ELSE {}
           sent == IF noted THEN Adapters!WithNote(protocol, again) ELSE again
<1>1. remasked = again
  BY MaskedAgain
<1>2. ~ Adapters!HasAttachment(protocol, rep)
  BY NoAttachmentShown
<1>3. \A p \in DOMAIN answer :
         Adapters!NumberedId \in Adapters!Range(p) \cup Adapters!Range(answer[p])
            => Adapters!NumberedId \in opaque
  BY IdentifierIsOpaque
<1>4. \A q \in DOMAIN again : \E p \in DOMAIN answer : q = AsInput(protocol, p) /\ again[q] = answer[p]
  <2>1. Repeats(protocol, answer, again)
    BY RepeatFacts DEF AnswerShape
  <2> HIDE DEF again
  <2>2. QED
    BY <2>1 DEF Repeats
<1>5. \A q \in DOMAIN sent :
         \/ \E p \in DOMAIN answer : q = AsInput(protocol, p) /\ sent[q] = answer[p]
         \/ q \in {<<"instructions">>, <<"system">>} /\ sent[q] = <<Adapters!Note>>
  <2>1. CASE noted
    <3>1. sent = Adapters!WithNote(protocol, again)
      BY <2>1
    <3>2. \A q \in DOMAIN Adapters!WithNote(protocol, again) :
             \/ q \in DOMAIN again /\ Adapters!WithNote(protocol, again)[q] = again[q]
             \/ q \in {<<"instructions">>, <<"system">>}
                   /\ Adapters!WithNote(protocol, again)[q] = <<Adapters!Note>>
      BY NotePrepended
    <3> HIDE DEF sent, again
    <3>3. QED
      BY <1>4, <3>1, <3>2
  <2>2. CASE ~ noted
    <3>1. sent = again
      BY <2>2
    <3> HIDE DEF sent, again
    <3>2. QED
      BY <1>4, <3>1
  <2>3. QED
    BY <2>1, <2>2
<1> HIDE DEF opaque, sent
<1>6. ~ Adapters!Guard(sent, opaque)
  BY <1>3, <1>5, GuardPasses
<1>7. Adapters!MaskRequest(protocol, rep, noted) = sent
  <2>1. Adapters!MaskRequest(protocol, rep, noted) =
           LET to == IF noted THEN Adapters!WithNote(protocol, remasked) ELSE remasked
           IN  IF Adapters!HasAttachment(protocol, rep) \/ Adapters!Guard(to, opaque)
               THEN Adapters!Refused ELSE to
    BY DEF Adapters!MaskRequest, opaque
  <2> HIDE DEF remasked, rep, again
  <2>2. QED
    BY <1>1, <1>2, <1>6, <2>1 DEF sent
<1>8. QED
  BY <1>7 DEF Adapters!ComesBack, sent

\* Keys below an item
Leaf(l) == l \in Seq(Strings) /\ Len(l) >= 1

\* The leaves of the answers that are modelled are such keys.
LEMMA LeavesAreLeaves ==
    ASSUME NEW protocol, NEW l \in Leaves(protocol)
    PROVE  Leaf(l)
<1>1. \A a \in Strings : Leaf(<<a>>)
  BY DEF Leaf
<1>2. \A a \in Strings, b \in Strings, c \in Strings : Leaf(<<a, b, c>>)
  BY DEF Leaf
<1>3. \A a \in Strings, b \in Strings, c \in Strings, d \in Strings, e \in Strings :
         Leaf(<<a, b, c, d, e>>)
  BY DEF Leaf
<1>4. \A a \in Strings, b \in Strings : Leaf(<<a, b>>)
  BY DEF Leaf
<1>5. {"id", "call_id", "arguments", "json", "a", "original", "content", "[0]", "text", "[1]", "output_text",
       "refusal", "annotations", "file_id", "summary", "output", "input", "thinking"} \subseteq Strings
  BY DEF Strings
<1> HIDE DEF Leaf
<1>6. CASE protocol = "responses"
  <2>1. Leaf(<<"id">>) /\ Leaf(<<"call_id">>) /\ Leaf(<<"arguments">>) /\ Leaf(<<"content">>)
    BY <1>1, <1>5
  <2>2. Leaf(<<"arguments", "json", "a">>) /\ Leaf(<<"arguments", "json", "original">>)
        /\ Leaf(<<"summary", "[0]", "text">>) /\ Leaf(<<"output", "a", "[0]">>)
    BY <1>2, <1>5
  <2>3. Leaf(<<"content", "[0]", "text">>) /\ Leaf(<<"content", "[1]", "output_text">>)
        /\ Leaf(<<"content", "[0]", "refusal">>)
    BY <1>2, <1>5
  <2>4. Leaf(<<"content", "[0]", "annotations", "[0]", "file_id">>)
    BY <1>3, <1>5
  <2>5. QED
    BY <1>6, <2>1, <2>2, <2>3, <2>4 DEF Leaves
<1>7. CASE protocol # "responses"
  BY <1>1, <1>2, <1>4, <1>5, <1>7 DEF Leaves
<1>8. QED
  BY <1>6, <1>7

\* A key below an item of an answer
LEMMA BelowItem ==
    ASSUME NEW top \in Strings, NEW l, Leaf(l)
    PROVE  /\ <<top, "[0]">> \o l \in Seq(Strings)
           /\ Len(<<top, "[0]">> \o l) = Len(l) + 2
           /\ (<<top, "[0]">> \o l)[1] = top /\ (<<top, "[0]">> \o l)[2] = "[0]"
           /\ Adapters!Key(<<top, "[0]">> \o l) = l[Len(l)]
           /\ SubSeq(<<top, "[0]">> \o l, 3, Len(<<top, "[0]">> \o l)) = l
<1> DEFINE h == <<top, "[0]">>
           c == h \o l
           s == SubSeq(c, 3, Len(c))
<1>1. h \in Seq(Strings) /\ Len(h) = 2 /\ h[1] = top /\ h[2] = "[0]"
  BY DEF Strings
<1>2. l \in Seq(Strings) /\ Len(l) \in Nat /\ Len(l) >= 1
  BY LenProperties DEF Leaf
<1> HIDE DEF h
<1>3. /\ c \in Seq(Strings) /\ Len(c) = Len(h) + Len(l)
      /\ (\A i \in 1..Len(h) : c[i] = h[i]) /\ (\A i \in 1..Len(l) : c[Len(h) + i] = l[i])
  BY <1>1, <1>2, KeysJoined DEF KeysBehind
<1>4. 1 \in 1..Len(h) /\ 2 \in 1..Len(h) /\ Len(l) \in 1..Len(l)
  BY <1>1, <1>2
<1> HIDE DEF c
<1>5. Len(c) = Len(l) + 2 /\ c[1] = top /\ c[2] = "[0]" /\ \A i \in 1..Len(l) : c[2 + i] = l[i]
  BY <1>1, <1>2, <1>3, <1>4
<1>6. c[Len(c)] = l[Len(l)]
  <2>1. c[2 + Len(l)] = l[Len(l)] /\ 2 + Len(l) = Len(l) + 2
    BY <1>2, <1>4, <1>5
  <2>2. QED
    BY <1>5, <2>1
<1>7. s \in Seq(Strings) /\ Len(s) = Len(l) /\ \A i \in 1..Len(l) : s[i] = c[2 + i]
  <2>1. /\ s \in Seq(Strings) /\ Len(s) = (Len(c) - 3) + 1
        /\ \A i \in 1..((Len(c) - 3) + 1) : s[i] = c[(3 + i) - 1]
    BY <1>2, <1>3, <1>5
  <2>2. (Len(c) - 3) + 1 = Len(l) /\ \A i \in 1..Len(l) : (3 + i) - 1 = 2 + i
    BY <1>2, <1>5
  <2> HIDE DEF s
  <2>3. QED
    BY <2>1, <2>2
<1> HIDE DEF s
<1>8. s = l
  <2>1. s = [i \in 1..Len(s) |-> s[i]] /\ l = [i \in 1..Len(l) |-> l[i]]
    BY <1>2, <1>7, LenProperties
  <2>2. \A i \in 1..Len(l) : s[i] = l[i]
    BY <1>5, <1>7
  <2>3. QED
    BY <1>7, <2>1, <2>2
<1>9. QED
  BY <1>3, <1>5, <1>6, <1>8 DEF Adapters!Key, s, c, h

\* The answers of the inputs are answers.
LEMMA AnswersHaveShape ==
    ASSUME NEW protocol \in {"responses", "anthropic"}, NEW places \in SUBSET Leaves(protocol),
           NEW type \in Types(protocol), NEW name \in {"shell", "other"},
           NEW texts \in [places -> AnswerTexts]
    PROVE  AnswerShape(protocol, Answer(protocol, type, name, places, texts))
<1> DEFINE top == IF protocol = "responses" THEN "output" ELSE "content"
           item == IF protocol = "responses" THEN <<"output", "[0]">> ELSE <<"content", "[0]">>
           answer == Answer(protocol, type, name, places, texts)
           value(p) == CASE p = Append(item, "type") -> <<type>>
                         [] p = Append(item, "name") -> <<name>>
                         [] OTHER -> texts[SubSeq(p, 3, Len(p))]
           all == {item \o l : l \in places} \cup {Append(item, "type"), Append(item, "name")}
<1>1. answer = [p \in all |-> value(p)]
  BY DEF Answer
<1>2. item = <<top, "[0]">> /\ top \in Strings /\ top \in {"output", "content"}
      /\ "type" \in Strings /\ "name" \in Strings
  BY DEF Strings
<1>3. type \in Strings /\ name \in Strings
  BY DEF Strings, Types
<1>4. \A l \in places : texts[l] \in Seq(Strings)
  <2>1. {"plain", Adapters!Alias, Adapters!Secret, Adapters!Number, Adapters!NumberedId}
           \subseteq Strings
    BY DEF Strings, Adapters!Alias, Adapters!Secret, Adapters!Number, Adapters!NumberedId
  <2>2. AnswerTexts \subseteq Seq(Strings)
    BY <2>1 DEF AnswerTexts
  <2>3. QED
    BY <2>2
<1>5. \A l \in places : Leaf(l)
  BY LeavesAreLeaves
<1>6. \A k : Append(item, k) = item \o <<k>>
  BY <1>2
<1>7. Leaf(<<"type">>) /\ Leaf(<<"name">>)
  BY <1>2 DEF Leaf
<1> DEFINE leaves == places \cup {<<"type">>, <<"name">>}
<1> HIDE DEF answer, item, value, all
<1>8. \A p \in all : \E l \in leaves : p = item \o l
  BY <1>6 DEF all
<1>9. ASSUME NEW p \in all
      PROVE  p \in Seq(Strings) /\ Len(p) >= 2 /\ p[1] = top /\ value(p) \in Seq(Strings)
  <2>1. PICK l \in leaves : p = item \o l
    BY <1>8
  <2>2. Leaf(l)
    BY <1>5, <1>7
  <2> HIDE DEF top
  <2>3. /\ p \in Seq(Strings) /\ Len(p) = Len(l) + 2 /\ p[1] = top /\ p[2] = "[0]"
        /\ Adapters!Key(p) = l[Len(l)] /\ SubSeq(p, 3, Len(p)) = l
    BY <1>2, <2>1, <2>2, BelowItem
  <2>4. Len(l) \in Nat /\ Len(l) >= 1
    BY <2>2, LenProperties DEF Leaf
  <2>5. p \in Seq(Strings) /\ Len(p) >= 2 /\ p[1] = top
    BY <2>3, <2>4
  <2>6. value(p) \in Seq(Strings)
    <3>1. CASE p = Append(item, "type") \/ p = Append(item, "name")
      BY <1>3, <3>1 DEF value
    <3>2. CASE p # Append(item, "type") /\ p # Append(item, "name")
      <4>1. l \in places
        BY <1>6, <2>1, <3>2
      <4>2. value(p) = texts[l]
        BY <2>3, <3>2 DEF value
      <4>3. QED
        BY <1>4, <4>1, <4>2
    <3>3. QED
      BY <3>1, <3>2
  <2>7. QED
    BY <2>5, <2>6
<1>10. DOMAIN answer = all /\ (\A p \in all : answer[p] = value(p))
       /\ answer = [p \in DOMAIN answer |-> answer[p]]
  BY <1>1
<1>11. Places(protocol, DOMAIN answer)
  BY <1>9, <1>10 DEF Places
<1>12. QED
  BY <1>9, <1>10, <1>11 DEF AnswerShape, answer

\* What comes back is what is made of the answer that was shown.
AdaptersInv ==
    part = "adapters" =>
        /\ AnswerShape(input.protocol, input.answer) /\ input.noted \in BOOLEAN
        /\ output # None =>
              output = Adapters!MaskRequest(input.protocol,
                          Adapters!Repeat(input.protocol, ShownAnswer(input.protocol, input.answer)),
                          input.noted)

\* The provider gets its own answer back with the next request of the client, in both
\* protocols and in every place, and the guard never refuses it.
THEOREM WhatWasShownComesBack == TextSpec => []AnswerComesBack
<1>1. TextInit => AdaptersInv
  <2>1. SUFFICES ASSUME TextInit, part = "adapters"
                 PROVE  AnswerShape(input.protocol, input.answer) /\ input.noted \in BOOLEAN
    BY DEF AdaptersInv, TextInit
  <2>2. PICK protocol \in {"responses", "anthropic"} :
           \E places \in kSubset(MaxLeaves, Leaves(protocol)) : NoneBelow(places) /\
           \E type \in Types(protocol), name \in {"shell", "other"},
              texts \in [places -> AnswerTexts] :
                 input \in [protocol : {protocol}, noted : BOOLEAN,
                            answer : {Answer(protocol, type, name, places, texts)}]
    BY <2>1 DEF TextInit, InitInput
  <2>3. PICK places \in kSubset(MaxLeaves, Leaves(protocol)) :
           \E type \in Types(protocol), name \in {"shell", "other"},
              texts \in [places -> AnswerTexts] :
                 input \in [protocol : {protocol}, noted : BOOLEAN,
                            answer : {Answer(protocol, type, name, places, texts)}]
    BY <2>2
  <2>4. PICK type \in Types(protocol), name \in {"shell", "other"},
             texts \in [places -> AnswerTexts] :
                input \in [protocol : {protocol}, noted : BOOLEAN,
                           answer : {Answer(protocol, type, name, places, texts)}]
    BY <2>3
  <2>5. /\ input.protocol = protocol /\ input.noted \in BOOLEAN
        /\ input.answer = Answer(protocol, type, name, places, texts)
    BY <2>4
  <2>6. places \in SUBSET Leaves(protocol)
    BY <2>3 DEF kSubset
  <2>7. AnswerShape(protocol, Answer(protocol, type, name, places, texts))
    BY <2>6, AnswersHaveShape
  <2>8. QED
    BY <2>5, <2>7
<1>2. AdaptersInv /\ [TextNext]_textVars => AdaptersInv'
  <2>1. [TextNext]_textVars =>
           AnswerAndRepeat \/ part' # "adapters" \/ UNCHANGED <<part, input, output>>
    BY DEF TextNext, textVars, algorithmVars, ResolvePolicy, CutSegments, CutWindows, FindTerm,
           Computes
  <2>2. ASSUME AnswerAndRepeat
        PROVE  /\ part' = part /\ input' = input
               /\ output' = Adapters!MaskRequest(input.protocol,
                     Adapters!Repeat(input.protocol, ShownAnswer(input.protocol, input.answer)),
                     input.noted)
    <3>1. Adapters!RestoreResponse(input.protocol, input.answer) # Adapters!Refused
      BY <2>2 DEF AnswerAndRepeat
    <3>2. Adapters!RestoreResponse(input.protocol, input.answer)
             = ShownAnswer(input.protocol, input.answer)
      BY <3>1 DEF Adapters!RestoreResponse, ShownAnswer
    <3>3. QED
      BY <2>2, <3>2 DEF AnswerAndRepeat, Computes
  <2>3. QED
    BY <2>1, <2>2 DEF AdaptersInv
<1>3. AdaptersInv => AnswerComesBack
  BY ShownComesBack DEF AdaptersInv, AnswerComesBack, Computed
<1>4. QED
  BY <1>1, <1>2, <1>3, PTL DEF TextSpec
=============================================================================
