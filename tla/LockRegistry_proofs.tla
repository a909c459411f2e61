------------------------- MODULE LockRegistry_proofs ------------------------
(***************************************************************************)
(* Proofs about LockRegistry: two uses never hold the lock of one session, *)
(* the count of each lock object is the number of its users, and the       *)
(* registry implements the first-come-first-served lock of SessionLock.    *)
(***************************************************************************)
EXTENDS LockRegistry, SequenceTheorems, FiniteSetTheorems, TLAPS

-----------------------------------------------------------------------------
(* Induction, with the set of the values in question as its parameter.     *)

\* A set of naturals that has 0 and, with each n, also n + 1 has them all: without one, the
\* intervals up to those it lacks would have no smallest.
LEMMA NatFrom0 ==
    ASSUME NEW P \in SUBSET Nat, 0 \in P, \A n \in P : n + 1 \in P
    PROVE  P = Nat
<1> DEFINE T == {0..n : n \in Nat \ P}
           R == StrictSubsetOrdering(Nat)
<1>1. SUFFICES ASSUME Nat \ P # {} PROVE FALSE
  OBVIOUS
<1>2. T # {}
  BY <1>1
<1>3. T \subseteq FiniteSubsetsOf(Nat)
  <2>1. ASSUME NEW n \in Nat
        PROVE  0..n \in SUBSET Nat /\ IsFiniteSet(0..n)
    BY FS_Interval
  <2>2. QED
    BY <2>1 DEF FiniteSubsetsOf
<1>4. IsWellFoundedOn(R, FiniteSubsetsOf(Nat))
  BY FS_StrictSubsetOrderingWellFounded
<1> HIDE DEF T, R
<1>5. PICK A \in T : \A B \in T : ~ (<<B, A>> \in R)
  BY <1>2, <1>3, <1>4, WFMin
<1>6. PICK n \in Nat \ P : A = 0..n
  BY DEF T
<1>7. n - 1 \in Nat /\ (n - 1) + 1 = n
  BY <1>6
<1>8. n - 1 \in Nat \ P
  BY <1>7, <1>6
<1>9. 0..(n - 1) \in T
  BY <1>8 DEF T
<1>10. <<0..(n - 1), A>> \in R
  BY <1>6, <1>7 DEF R, StrictSubsetOrdering
<1>11. QED
  BY <1>5, <1>9, <1>10

\* A set of sequences that has the empty one and, with each q, also q and one more element has
\* them all.
LEMMA SeqFromEmpty ==
    ASSUME NEW S, NEW P \in SUBSET Seq(S), <<>> \in P,
           \A q \in P, e \in S : Append(q, e) \in P
    PROVE  P = Seq(S)
<1> DEFINE N == {n \in Nat : \A q \in Seq(S) : Len(q) = n => q \in P}
<1>1. 0 \in N
  BY EmptySeq
<1>2. ASSUME NEW n \in N
      PROVE  n + 1 \in N
  <2>1. ASSUME NEW q \in Seq(S), Len(q) = n + 1
        PROVE  q \in P
    <3>1. q # <<>>
      BY <2>1, EmptySeq
    <3>2. PICK r \in Seq(S), e \in S : q = Append(r, e)
      BY <3>1, SequenceEmptyOrAppend
    <3>3. Len(r) = n
      BY <2>1, <3>2, AppendProperties, LenProperties
    <3>4. QED
      BY <3>2, <3>3
  <2>2. QED
    BY <2>1
<1>3. N = Nat
  <2> HIDE DEF N
  <2>1. N \in SUBSET Nat
    BY DEF N
  <2>2. QED
    BY <1>1, <1>2, <2>1, NatFrom0
<1>4. QED
  BY <1>3, LenProperties

-----------------------------------------------------------------------------
(* deque.remove().                                                         *)

Occurs(q, u) == \E i \in 1..Len(q) : q[i] = u

Distinct(q) == \A i, j \in 1..Len(q) : q[i] = q[j] => i = j

\* Remove takes exactly u out of a queue of distinct uses, and its head stays the head
\* unless it was u.
LEMMA RemoveFacts ==
    ASSUME NEW q \in Seq(Uses), NEW u \in Uses, Occurs(q, u), Distinct(q)
    PROVE  LET r == Remove(q, u) IN
           /\ r \in Seq(Uses)
           /\ Distinct(r)
           /\ \A j \in 1..Len(r) : r[j] # u /\ Occurs(q, r[j])
           /\ \A v \in Uses : v # u /\ Occurs(q, v) => Occurs(r, v)
           /\ q[1] # u => r # <<>> /\ r[1] = q[1]
<1> DEFINE i == IndexOf(q, u)
           front == SubSeq(q, 1, i - 1)
           back == SubSeq(q, i + 1, Len(q))
           r == Remove(q, u)
<1>1. i \in 1..Len(q) /\ q[i] = u
  BY DEF Occurs, IndexOf
<1> HIDE DEF i
<1>2. /\ front \in Seq(Uses)
      /\ Len(front) = i - 1
      /\ \A j \in 1..(i - 1) : front[j] = q[j]
  BY <1>1
<1>3. /\ back \in Seq(Uses)
      /\ Len(back) = Len(q) - i
      /\ \A j \in 1..(Len(q) - i) : back[j] = q[j + i]
  BY <1>1
<1>4. r = front \o back
  BY DEF Remove, i
<1> HIDE DEF front, back
<1>5. /\ r \in Seq(Uses)
      /\ Len(r) = Len(q) - 1
      /\ \A j \in 1..Len(r) : r[j] = IF j < i THEN q[j] ELSE q[j + 1]
  <2> HIDE DEF r
  <2>1. r \in Seq(Uses) /\ Len(r) = Len(q) - 1
    BY <1>1, <1>2, <1>3, <1>4
  <2>2. ASSUME NEW j \in 1..Len(r)
        PROVE  r[j] = IF j < i THEN q[j] ELSE q[j + 1]
    <3>1. r[j] = IF j <= i - 1 THEN front[j] ELSE back[j - (i - 1)]
      BY <1>1, <1>2, <1>3, <1>4, <2>1
    <3>2. CASE j < i
      BY <3>1, <3>2, <1>1, <1>2, <2>1
    <3>3. CASE ~ (j < i)
      <4>1. j - (i - 1) \in 1..(Len(q) - i)
        BY <3>3, <1>1, <2>1
      <4>2. back[j - (i - 1)] = q[(j - (i - 1)) + i]
        BY <4>1, <1>3
      <4>3. QED
        BY <3>1, <3>3, <4>2, <1>1, <2>1
    <3>4. QED
      BY <3>2, <3>3
  <2>3. QED
    BY <2>1, <2>2
<1> HIDE DEF r
<1>6. Distinct(r)
  <2>1. ASSUME NEW j \in 1..Len(r), NEW k \in 1..Len(r), r[j] = r[k]
        PROVE  j = k
    <3>1. (IF j < i THEN q[j] ELSE q[j + 1]) = (IF k < i THEN q[k] ELSE q[k + 1])
      BY <2>1, <1>5
    <3>2. j \in 1..Len(q) /\ k \in 1..Len(q) /\ j + 1 \in 1..Len(q) /\ k + 1 \in 1..Len(q)
      BY <1>1, <1>5
    <3>3. (IF j < i THEN j ELSE j + 1) = (IF k < i THEN k ELSE k + 1)
      BY <3>1, <3>2 DEF Distinct
    <3>4. QED
      BY <3>3, <3>2, <1>1
  <2>2. QED
    BY <2>1 DEF Distinct
<1>7. ASSUME NEW j \in 1..Len(r)
      PROVE  r[j] # u /\ Occurs(q, r[j])
  <2> DEFINE k == IF j < i THEN j ELSE j + 1
  <2>1. k \in 1..Len(q) /\ k # i
    BY <1>1, <1>5
  <2>2. r[j] = q[k]
    BY <1>5
  <2>3. q[k] # q[i]
    BY <2>1, <1>1 DEF Distinct
  <2>4. QED
    BY <2>1, <2>2, <2>3, <1>1 DEF Occurs
<1>8. ASSUME NEW v \in Uses, v # u, Occurs(q, v)
      PROVE  Occurs(r, v)
  <2>1. PICK k \in 1..Len(q) : q[k] = v
    BY <1>8 DEF Occurs
  <2>2. k # i
    BY <2>1, <1>1, <1>8
  <2>3. CASE k < i
    <3>1. k \in 1..Len(r) /\ r[k] = v
      BY <2>1, <2>3, <1>1, <1>5
    <3>2. QED
      BY <3>1 DEF Occurs
  <2>4. CASE k > i
    <3>1. k - 1 \in 1..Len(r) /\ r[k - 1] = v
      BY <2>1, <2>4, <1>1, <1>5
    <3>2. QED
      BY <3>1 DEF Occurs
  <2>5. QED
    BY <2>2, <2>3, <2>4, <1>1
<1>9. ASSUME q[1] # u
      PROVE  r # <<>> /\ r[1] = q[1]
  BY <1>1, <1>5, <1>9
<1>10. QED
  BY <1>5, <1>6, <1>7, <1>8, <1>9 DEF r

-----------------------------------------------------------------------------
(* The inductive invariant.                                                *)

\* The count of a session is the number of its uses; its lock object exists while it
\* has any.
CountOK ==
    \A s \in Sessions :
        /\ IsFiniteSet(Users(s))
        /\ refs[s] = Cardinality(Users(s))
        /\ locks[s] = None <=> Users(s) = {}

\* Whoever holds or waits refers to the registered object of its session.
LinkOK ==
    \A u \in Uses : stage[u] \in Active =>
        session[u] \in Sessions /\ mine[u] \in Uses /\ mine[u] = locks[session[u]]

\* A registered object was built by a use of that session; an object that nobody has
\* built yet is unlocked and has no waiters.
ObjectOK ==
    /\ \A s \in Sessions : locks[s] # None => session[locks[s]] = s /\ stage[locks[s]] # "new"
    /\ \A u \in Uses : stage[u] = "new" => ~ locked[u] /\ waiters[u] = <<>>

\* The queue of an object holds exactly the uses that wait for it, each once.
QueueOK ==
    /\ \A l \in Uses :
        /\ Distinct(waiters[l])
        /\ \A i \in 1..Len(waiters[l]) :
            stage[waiters[l][i]] \in Waiting /\ mine[waiters[l][i]] = l
    /\ \A u \in Uses : stage[u] \in Waiting => Occurs(waiters[mine[u]], u)

\* A held object is locked and has one holder; a woken waiter is the first waiter of
\* an unlocked object.
HolderOK ==
    /\ \A u \in Uses : stage[u] = "holding" => locked[mine[u]]
    /\ \A u, v \in Uses :
        stage[u] = "holding" /\ stage[v] = "holding" /\ mine[u] = mine[v] => u = v
    /\ \A u \in Uses : stage[u] = "woken" =>
        ~ locked[mine[u]] /\ waiters[mine[u]] # <<>> /\ waiters[mine[u]][1] = u

RegistryInv == TypeOK /\ CountOK /\ LinkOK /\ ObjectOK /\ QueueOK /\ HolderOK

-----------------------------------------------------------------------------
(* The count.                                                              *)

\* A use that arrives is one user more.
LEMMA OneMore ==
    ASSUME NEW users, IsFiniteSet(users), NEW u, u \notin users
    PROVE  /\ IsFiniteSet(users \cup {u})
           /\ Cardinality(users \cup {u}) = Cardinality(users) + 1
           /\ users \cup {u} # {}
BY FS_AddElement

\* A use that leaves is one user less, and the last one leaves zero.
LEMMA OneLess ==
    ASSUME NEW users, IsFiniteSet(users), NEW u \in users
    PROVE  /\ IsFiniteSet(users \ {u})
           /\ Cardinality(users) \in Nat
           /\ Cardinality(users \ {u}) \in Nat
           /\ Cardinality(users \ {u}) = Cardinality(users) - 1
           /\ Cardinality(users) - 1 <= 0 <=> users \ {u} = {}
<1>1. /\ IsFiniteSet(users \ {u})
      /\ Cardinality(users \ {u}) = Cardinality(users) - 1
  BY FS_RemoveElement
<1>2. Cardinality(users) \in Nat /\ Cardinality(users \ {u}) \in Nat
  BY <1>1, FS_CardinalityType
<1>3. Cardinality(users \ {u}) = 0 <=> users \ {u} = {}
  BY <1>1, FS_EmptySet
<1>4. QED
  BY <1>1, <1>2, <1>3

\* When a use of s stops being active, the count and the registration of s stay exact,
\* and the objects of all sessions that still have users stay registered.
LEMMA DropStep ==
    ASSUME RegistryInv, NEW u \in Uses, stage[u] \in Active,
           NEW s \in Sessions, session[u] = s, DropReference(s),
           stage'[u] = "gone", session' = session,
           \A v \in Uses \ {u} : stage'[v] \in Active <=> stage[v] \in Active
    PROVE  /\ locks' \in [Sessions -> Uses \cup {None}]
           /\ refs' \in [Sessions -> Nat]
           /\ CountOK'
           /\ \A x \in Sessions : locks'[x] \in {locks[x], None}
           /\ \A v \in Uses \ {u} : stage[v] \in Active => locks'[session[v]] = locks[session[v]]
<1>2. Users(s)' = Users(s) \ {u} /\ u \in Users(s)
  BY DEF Users, Active, Waiting
<1>3. \A x \in Sessions \ {s} : Users(x)' = Users(x)
  BY DEF Users, Active, Waiting
<1>4. /\ IsFiniteSet(Users(s)')
      /\ Cardinality(Users(s)') \in Nat
      /\ refs[s] \in Nat
      /\ Cardinality(Users(s)') = refs[s] - 1
      /\ refs[s] - 1 <= 0 <=> Users(s)' = {}
  <2>1. IsFiniteSet(Users(s)) /\ refs[s] = Cardinality(Users(s))
    BY DEF RegistryInv, CountOK
  <2>2. QED
    BY <2>1, <1>2, OneLess
<1>5. refs'[s] = refs[s] - 1 /\ refs' \in [Sessions -> Nat]
  BY <1>4 DEF DropReference, RegistryInv, TypeOK
<1>6. \A x \in Sessions \ {s} : refs'[x] = refs[x] /\ locks'[x] = locks[x]
  BY DEF DropReference, RegistryInv, TypeOK
<1>7. locks'[s] = IF Users(s)' = {} THEN None ELSE locks[s]
  BY <1>4 DEF DropReference, RegistryInv, TypeOK
<1>8. locks' \in [Sessions -> Uses \cup {None}]
  BY DEF DropReference, RegistryInv, TypeOK
<1>9. locks[s] # None
  BY <1>2 DEF RegistryInv, CountOK
<1>10. ASSUME NEW x \in Sessions
       PROVE  /\ IsFiniteSet(Users(x)')
              /\ refs'[x] = Cardinality(Users(x)')
              /\ locks'[x] = None <=> Users(x)' = {}
  <2>1. CASE x = s
    BY <2>1, <1>4, <1>5, <1>7, <1>9
  <2>2. CASE x # s
    BY <2>2, <1>3, <1>6 DEF RegistryInv, CountOK
  <2>3. QED
    BY <2>1, <2>2
<1>11. ASSUME NEW v \in Uses \ {u}, stage[v] \in Active
       PROVE  locks'[session[v]] = locks[session[v]]
  <2>1. session[v] \in Sessions
    BY <1>11 DEF RegistryInv, LinkOK
  <2>2. CASE session[v] = s
    <3>1. v \in Users(s)'
      BY <1>2, <1>11, <2>2 DEF Users
    <3>2. QED
      BY <3>1, <2>2, <1>7
  <2>3. CASE session[v] # s
    BY <2>1, <2>3, <1>6
  <2>4. QED
    BY <2>2, <2>3
<1>12. \A x \in Sessions : locks'[x] \in {locks[x], None}
  BY <1>6, <1>7
<1>13. CountOK'
  BY <1>10 DEF CountOK
<1>14. QED
  BY <1>5, <1>8, <1>11, <1>12, <1>13

-----------------------------------------------------------------------------
(* Every step keeps the invariant.                                         *)

\* A new use is in no queue, and nobody refers to an object it would build.
LEMMA NewIsApart ==
    ASSUME RegistryInv, NEW u \in Uses, stage[u] = "new"
    PROVE  /\ \A l \in Uses : ~ Occurs(waiters[l], u)
           /\ \A s \in Sessions : locks[s] # u
           /\ \A v \in Uses : stage[v] \in Active => mine[v] # u
           /\ \A s \in Sessions : u \notin Users(s)
<1>1. "new" \notin Active /\ "new" \notin Waiting
  BY DEF Active, Waiting
<1>2. \A l \in Uses : ~ Occurs(waiters[l], u)
  BY <1>1 DEF RegistryInv, QueueOK, Occurs
<1>3. \A s \in Sessions : locks[s] # u
  BY RegistryAssumption DEF RegistryInv, ObjectOK
<1>4. \A v \in Uses : stage[v] \in Active => mine[v] # u
  BY <1>3 DEF RegistryInv, LinkOK
<1>5. QED
  BY <1>1, <1>2, <1>3, <1>4 DEF Users

\* lock() and acquire() of a newcomer.
LEMMA EnterStep ==
    ASSUME RegistryInv, NEW u \in Uses, NEW s \in Sessions, Enter(u, s)
    PROVE  RegistryInv'
<1> DEFINE l == IF locks[s] = None THEN u ELSE locks[s]
<1>1. /\ l \in Uses
      /\ stage[u] = "new"
      /\ locks' = [locks EXCEPT ![s] = l]
      /\ refs' = [refs EXCEPT ![s] = @ + 1]
      /\ session' = [session EXCEPT ![u] = s]
      /\ mine' = [mine EXCEPT ![u] = l]
      /\ \A v \in Uses \ {u} : stage'[v] = stage[v]
      /\ locks[s] # None => l = locks[s]
      /\ locks[s] = None => l = u
  BY DEF Enter, RegistryInv, TypeOK
<1>2. \/ /\ FreeForNewcomer(l)
         /\ locked' = [locked EXCEPT ![l] = TRUE]
         /\ stage' = [stage EXCEPT ![u] = "holding"]
         /\ waiters' = waiters
      \/ /\ ~ FreeForNewcomer(l)
         /\ waiters' = [waiters EXCEPT ![l] = Append(@, u)]
         /\ stage' = [stage EXCEPT ![u] = "pending"]
         /\ locked' = locked
  BY DEF Enter
<1> HIDE DEF l
<1>3. TypeOK'
  <2>1. stage' \in [Uses -> Stages] /\ locked' \in [Uses -> BOOLEAN]
    BY <1>1, <1>2 DEF RegistryInv, TypeOK, Stages, Active, Waiting
  <2>2. waiters' \in [Uses -> Seq(Uses)]
    <3>1. waiters \in [Uses -> Seq(Uses)] /\ l \in Uses
      BY <1>1 DEF RegistryInv, TypeOK
    <3>2. Append(waiters[l], u) \in Seq(Uses)
      BY <3>1
    <3>3. waiters' = waiters \/ waiters' = [waiters EXCEPT ![l] = Append(@, u)]
      BY <1>2
    <3>4. QED
      BY <3>1, <3>2, <3>3
  <2>3. refs' \in [Sessions -> Nat]
    BY <1>1 DEF RegistryInv, TypeOK
  <2>4. QED
    BY <1>1, <2>1, <2>2, <2>3 DEF RegistryInv, TypeOK
<1>4. stage'[u] \in {"holding", "pending"}
  BY <1>2 DEF RegistryInv, TypeOK
<1>5. CountOK'
  <2>1. Users(s)' = Users(s) \cup {u} /\ u \notin Users(s)
    BY <1>1, <1>4, NewIsApart DEF Users, Active, Waiting, RegistryInv, TypeOK
  <2>2. \A x \in Sessions \ {s} : Users(x)' = Users(x)
    BY <1>1, <1>4 DEF Users, Active, Waiting, RegistryInv, TypeOK
  <2>3. /\ IsFiniteSet(Users(s)')
        /\ Cardinality(Users(s)') = refs[s] + 1
        /\ Users(s)' # {}
    BY <2>1, OneMore DEF RegistryInv, CountOK
  <2>4. refs'[s] = refs[s] + 1 /\ locks'[s] = l /\ l # None
    BY <1>1, RegistryAssumption DEF RegistryInv, TypeOK
  <2>5. \A x \in Sessions \ {s} : refs'[x] = refs[x] /\ locks'[x] = locks[x]
    BY <1>1 DEF RegistryInv, TypeOK
  <2>6. ASSUME NEW x \in Sessions
        PROVE  /\ IsFiniteSet(Users(x)')
               /\ refs'[x] = Cardinality(Users(x)')
               /\ locks'[x] = None <=> Users(x)' = {}
    <3>1. CASE x = s
      BY <3>1, <2>3, <2>4
    <3>2. CASE x # s
      BY <3>2, <2>2, <2>5 DEF RegistryInv, CountOK
    <3>3. QED
      BY <3>1, <3>2
  <2>7. QED
    BY <2>6 DEF CountOK
<1>6. LinkOK'
  BY <1>1, RegistryAssumption DEF RegistryInv, TypeOK, LinkOK
<1>7. ObjectOK'
  <2>1. \A x \in Sessions : locks'[x] # None =>
            session'[locks'[x]] = x /\ stage'[locks'[x]] # "new"
    BY <1>1, <1>4, NewIsApart, RegistryAssumption DEF RegistryInv, TypeOK, ObjectOK
  <2>2. \A v \in Uses : stage'[v] = "new" => v # u /\ v # l /\ stage[v] = "new"
    BY <1>1, <1>4, RegistryAssumption DEF RegistryInv, TypeOK, ObjectOK
  <2>3. \A v \in Uses \ {l} : locked'[v] = locked[v] /\ waiters'[v] = waiters[v]
    BY <1>1, <1>2 DEF RegistryInv, TypeOK
  <2>4. QED
    BY <2>1, <2>2, <2>3 DEF RegistryInv, ObjectOK
<1>7a. \A v \in Uses \ {u} : mine'[v] = mine[v] /\ stage'[v] = stage[v]
  BY <1>1 DEF RegistryInv, TypeOK
<1>7b. mine'[u] = l
  BY <1>1 DEF RegistryInv, TypeOK
<1>8. CASE /\ FreeForNewcomer(l)
           /\ locked' = [locked EXCEPT ![l] = TRUE]
           /\ stage' = [stage EXCEPT ![u] = "holding"]
           /\ waiters' = waiters
  <2>1. stage'[u] = "holding" /\ "holding" \notin Waiting
    BY <1>8 DEF RegistryInv, TypeOK, Waiting
  <2>2. QueueOK'
    <3>1. \A k \in Uses : \A i \in 1..Len(waiters[k]) : waiters[k][i] \in Uses \ {u}
      BY <1>1, NewIsApart DEF Occurs, RegistryInv, TypeOK
    <3>2. QED
      BY <1>8, <1>7a, <2>1, <3>1 DEF RegistryInv, QueueOK
  <2>3. /\ ~ locked[l] /\ locked'[l] = TRUE
        /\ \A k \in Uses \ {l} : locked'[k] = locked[k]
    BY <1>1, <1>8 DEF FreeForNewcomer, RegistryInv, TypeOK
  <2>4. \A v \in Uses : stage[v] = "holding" => mine[v] \in Uses /\ mine[v] # l
    BY <2>3 DEF RegistryInv, HolderOK, LinkOK, Active
  <2>5. \A v \in Uses : stage[v] = "woken" => mine[v] \in Uses /\ mine[v] # l
    <3>1. SUFFICES ASSUME NEW v \in Uses, stage[v] = "woken"
                   PROVE  mine[v] \in Uses /\ mine[v] # l
      OBVIOUS
    <3>2. mine[v] \in Uses /\ waiters[mine[v]] # <<>> /\ waiters[mine[v]][1] = v
      BY <3>1 DEF RegistryInv, LinkOK, HolderOK, Active, Waiting
    <3>3. 1 \in 1..Len(waiters[mine[v]])
      BY <3>2 DEF RegistryInv, TypeOK
    <3>4. QED
      BY <3>1, <3>2, <3>3, <1>8 DEF FreeForNewcomer
  <2>6. HolderOK'
    <3>1. \A v \in Uses : stage'[v] = "holding" => locked'[mine'[v]]
      BY <1>7a, <1>7b, <2>1, <2>3, <2>4 DEF RegistryInv, HolderOK
    <3>2. \A v, w \in Uses :
            stage'[v] = "holding" /\ stage'[w] = "holding" /\ mine'[v] = mine'[w] => v = w
      BY <1>7a, <1>7b, <2>1, <2>4 DEF RegistryInv, HolderOK
    <3>3. \A v \in Uses : stage'[v] = "woken" =>
            ~ locked'[mine'[v]] /\ waiters'[mine'[v]] # <<>> /\ waiters'[mine'[v]][1] = v
      BY <1>7a, <1>8, <2>1, <2>3, <2>5 DEF RegistryInv, HolderOK
    <3>4. QED
      BY <3>1, <3>2, <3>3 DEF HolderOK
  <2>7. QED
    BY <1>3, <1>5, <1>6, <1>7, <2>2, <2>6 DEF RegistryInv
<1>9. CASE /\ ~ FreeForNewcomer(l)
           /\ waiters' = [waiters EXCEPT ![l] = Append(@, u)]
           /\ stage' = [stage EXCEPT ![u] = "pending"]
           /\ locked' = locked
  <2>1. stage'[u] = "pending" /\ "pending" \in Waiting
    BY <1>9 DEF RegistryInv, TypeOK, Waiting
  <2> DEFINE q == waiters[l]
  <2>2. /\ q \in Seq(Uses)
        /\ waiters'[l] = Append(q, u)
        /\ \A k \in Uses \ {l} : waiters'[k] = waiters[k]
    BY <1>1, <1>9 DEF RegistryInv, TypeOK
  <2> HIDE DEF q
  <2>3. /\ Len(Append(q, u)) = Len(q) + 1
        /\ \A i \in 1..Len(q) : Append(q, u)[i] = q[i]
        /\ Append(q, u)[Len(q) + 1] = u
        /\ Len(q) \in Nat
    BY <2>2
  <2>4. /\ Distinct(q)
        /\ \A i \in 1..Len(q) : q[i] \in Uses /\ q[i] # u /\ stage[q[i]] \in Waiting
                                /\ mine[q[i]] = l
    BY <1>1, <2>2, NewIsApart, SMTT(30) DEF q, Occurs, RegistryInv, QueueOK
  <2>5. Distinct(Append(q, u))
    BY <2>3, <2>4 DEF Distinct
  <2>6. \A i \in 1..Len(Append(q, u)) :
            stage'[Append(q, u)[i]] \in Waiting /\ mine'[Append(q, u)[i]] = l
    BY <1>7a, <1>7b, <2>1, <2>3, <2>4
  <2>7. ASSUME NEW k \in Uses, k # l
        PROVE  /\ Distinct(waiters'[k])
               /\ \A i \in 1..Len(waiters'[k]) :
                    stage'[waiters'[k][i]] \in Waiting /\ mine'[waiters'[k][i]] = k
    <3>1. \A i \in 1..Len(waiters[k]) : waiters[k][i] \in Uses \ {u}
      BY <1>1, NewIsApart DEF Occurs, RegistryInv, TypeOK
    <3>2. QED
      BY <1>7a, <2>2, <2>7, <3>1 DEF RegistryInv, QueueOK
  <2>8. ASSUME NEW v \in Uses, stage'[v] \in Waiting
        PROVE  Occurs(waiters'[mine'[v]], v)
    <3>1. CASE v = u
      BY <3>1, <1>7b, <2>2, <2>3 DEF Occurs
    <3>2. CASE v # u
      <4>1. Occurs(waiters[mine[v]], v) /\ mine[v] \in Uses /\ mine'[v] = mine[v]
        BY <2>8, <3>2, <1>7a DEF RegistryInv, QueueOK, LinkOK, Active
      <4>2. CASE mine[v] = l
        BY <4>1, <4>2, <2>2, <2>3 DEF Occurs, q
      <4>3. CASE mine[v] # l
        BY <4>1, <4>3, <2>2
      <4>4. QED
        BY <4>2, <4>3
    <3>3. QED
      BY <3>1, <3>2
  <2>9. QueueOK'
    <3>1. ASSUME NEW k \in Uses
          PROVE  /\ Distinct(waiters'[k])
                 /\ \A i \in 1..Len(waiters'[k]) :
                    stage'[waiters'[k][i]] \in Waiting /\ mine'[waiters'[k][i]] = k
      <4>1. CASE k = l
        BY <4>1, <2>2, <2>5, <2>6
      <4>2. CASE k # l
        BY <4>2, <2>7
      <4>3. QED
        BY <4>1, <4>2
    <3>2. QED
      BY <3>1, <2>8 DEF QueueOK
  <2>10. HolderOK'
    <3>1. \A v \in Uses : stage'[v] = "holding" => v # u /\ locked'[mine'[v]]
      BY <1>7a, <1>9, <2>1 DEF RegistryInv, HolderOK
    <3>2. \A v, w \in Uses :
            stage'[v] = "holding" /\ stage'[w] = "holding" /\ mine'[v] = mine'[w] => v = w
      BY <1>7a, <2>1 DEF RegistryInv, HolderOK
    <3>3. ASSUME NEW v \in Uses, stage'[v] = "woken"
          PROVE  ~ locked'[mine'[v]] /\ waiters'[mine'[v]] # <<>> /\ waiters'[mine'[v]][1] = v
      <4>1. v # u /\ stage[v] = "woken" /\ mine'[v] = mine[v]
        BY <3>3, <1>7a, <2>1
      <4>2. /\ ~ locked[mine[v]] /\ mine[v] \in Uses
            /\ waiters[mine[v]] # <<>> /\ waiters[mine[v]][1] = v
        BY <4>1 DEF RegistryInv, HolderOK, LinkOK, Active, Waiting
      <4>3. CASE mine[v] = l
        <5>1. Len(q) >= 1 /\ q[1] = v
          BY <4>2, <4>3, <2>2 DEF q
        <5>2. QED
          BY <5>1, <4>1, <4>2, <4>3, <1>9, <2>2, <2>3
      <4>4. CASE mine[v] # l
        BY <4>1, <4>2, <4>4, <1>9, <2>2
      <4>5. QED
        BY <4>3, <4>4
    <3>4. QED
      BY <3>1, <3>2, <3>3 DEF HolderOK
  <2>11. QED
    BY <1>3, <1>5, <1>6, <1>7, <2>9, <2>10 DEF RegistryInv
<1>10. QED
  BY <1>2, <1>8, <1>9

\* A woken waiter takes the lock and leaves the queue.
LEMMA ResumeStep ==
    ASSUME RegistryInv, NEW u \in Uses, Resume(u)
    PROVE  RegistryInv'
<1> DEFINE l == mine[u]
           r == Remove(waiters[l], u)
<1>1. /\ l \in Uses
      /\ stage[u] = "woken"
      /\ waiters' = [waiters EXCEPT ![l] = r]
      /\ locked' = [locked EXCEPT ![l] = TRUE]
      /\ stage' = [stage EXCEPT ![u] = "holding"]
      /\ locks' = locks /\ refs' = refs /\ session' = session /\ mine' = mine
  BY DEF Resume, RegistryInv, LinkOK, Active, Waiting
<1>2. /\ r \in Seq(Uses)
      /\ Distinct(r)
      /\ \A j \in 1..Len(r) : r[j] # u /\ Occurs(waiters[l], r[j])
      /\ \A v \in Uses : v # u /\ Occurs(waiters[l], v) => Occurs(r, v)
  <2>1. waiters[l] \in Seq(Uses) /\ Distinct(waiters[l]) /\ Occurs(waiters[l], u)
    BY <1>1 DEF RegistryInv, TypeOK, QueueOK, Waiting
  <2>2. QED
    BY <2>1, RemoveFacts
<1> HIDE DEF r
<1>3. /\ waiters'[l] = r /\ locked'[l] = TRUE
      /\ \A k \in Uses \ {l} : waiters'[k] = waiters[k] /\ locked'[k] = locked[k]
      /\ stage'[u] = "holding" /\ \A v \in Uses \ {u} : stage'[v] = stage[v]
  BY <1>1 DEF RegistryInv, TypeOK
<1>4. ~ locked[l] /\ waiters[l][1] = u
  BY <1>1 DEF RegistryInv, HolderOK
<1>5. TypeOK'
  BY <1>1, <1>2 DEF RegistryInv, TypeOK, Stages, Active
<1>6. CountOK' /\ LinkOK'
  <2>1. \A v \in Uses : stage'[v] \in Active <=> stage[v] \in Active
    BY <1>1, <1>3 DEF Active, Waiting
  <2>2. \A s \in Sessions : Users(s)' = Users(s)
    BY <1>1, <2>1 DEF Users
  <2>3. QED
    BY <1>1, <2>1, <2>2 DEF RegistryInv, CountOK, LinkOK
<1>7. ObjectOK'
  <2>1. \A v \in Uses : stage[v] = "new" => v # l
    BY <1>1, NewIsApart DEF Active, Waiting
  <2>2. \A v \in Uses : stage'[v] = "new" <=> stage[v] = "new"
    BY <1>1, <1>3
  <2>3. \A s \in Sessions : locks[s] # None => locks[s] \in Uses
    BY DEF RegistryInv, TypeOK
  <2>4. QED
    BY <1>1, <1>3, <2>1, <2>2, <2>3 DEF RegistryInv, ObjectOK
<1>8. QueueOK'
  <2>1. \A i \in 1..Len(r) : r[i] \in Uses \ {u} /\ stage[r[i]] \in Waiting /\ mine[r[i]] = l
    <3>1. \A v : Occurs(waiters[l], v) => stage[v] \in Waiting /\ mine[v] = l
      BY <1>1 DEF RegistryInv, QueueOK, Occurs
    <3>2. \A i \in 1..Len(r) : r[i] \in Uses
      BY <1>2
    <3>3. QED
      BY <1>2, <3>1, <3>2
  <2>2. \A k \in Uses \ {l} : \A i \in 1..Len(waiters[k]) : waiters[k][i] \in Uses \ {u}
    BY <1>1 DEF RegistryInv, TypeOK, QueueOK
  <2>3. ASSUME NEW k \in Uses
        PROVE  /\ Distinct(waiters'[k])
               /\ \A i \in 1..Len(waiters'[k]) :
                    stage'[waiters'[k][i]] \in Waiting /\ mine'[waiters'[k][i]] = k
    <3>1. CASE k = l
      BY <3>1, <1>1, <1>2, <1>3, <2>1
    <3>2. CASE k # l
      BY <3>2, <1>1, <1>3, <2>2 DEF RegistryInv, QueueOK
    <3>3. QED
      BY <3>1, <3>2
  <2>4. ASSUME NEW v \in Uses, stage'[v] \in Waiting
        PROVE  Occurs(waiters'[mine'[v]], v)
    <3>1. v # u /\ stage[v] \in Waiting /\ mine[v] \in Uses /\ Occurs(waiters[mine[v]], v)
      BY <2>4, <1>3 DEF RegistryInv, QueueOK, LinkOK, Active, Waiting
    <3>2. QED
      BY <3>1, <1>1, <1>2, <1>3
  <2>5. QED
    BY <2>3, <2>4 DEF QueueOK
<1>9. HolderOK'
  <2>1. \A v \in Uses : stage[v] = "holding" => mine[v] # l
    BY <1>4 DEF RegistryInv, HolderOK
  <2>2. \A v \in Uses \ {u} : stage[v] = "woken" => mine[v] # l /\ mine[v] \in Uses
    BY <1>4 DEF RegistryInv, HolderOK, LinkOK, Active, Waiting
  <2>3. \A v \in Uses : stage'[v] = "holding" => locked'[mine'[v]]
    <3>1. \A v \in Uses : stage[v] = "holding" => mine[v] \in Uses
      BY DEF RegistryInv, LinkOK, Active
    <3>2. QED
      BY <3>1, <1>1, <1>3, <2>1 DEF RegistryInv, HolderOK
  <2>4. \A v, w \in Uses :
          stage'[v] = "holding" /\ stage'[w] = "holding" /\ mine'[v] = mine'[w] => v = w
    BY <1>1, <1>3, <2>1 DEF RegistryInv, HolderOK
  <2>5. \A v \in Uses : stage'[v] = "woken" =>
          ~ locked'[mine'[v]] /\ waiters'[mine'[v]] # <<>> /\ waiters'[mine'[v]][1] = v
    BY <1>1, <1>3, <2>2 DEF RegistryInv, HolderOK
  <2>6. QED
    BY <2>3, <2>4, <2>5 DEF HolderOK
<1>10. QED
  BY <1>5, <1>6, <1>7, <1>8, <1>9 DEF RegistryInv

\* The cancellation of a waiter moves nothing until its task runs.
LEMMA CancelStep ==
    ASSUME RegistryInv, NEW u \in Uses, CancelWaiter(u)
    PROVE  RegistryInv'
<1>1. /\ stage[u] \in {"pending", "woken"} /\ stage'[u] \in {"cancelled", "doomed"}
      /\ \A v \in Uses \ {u} : stage'[v] = stage[v]
      /\ locks' = locks /\ refs' = refs /\ session' = session /\ mine' = mine
      /\ locked' = locked /\ waiters' = waiters
  BY DEF CancelWaiter, RegistryInv, TypeOK
<1>2. TypeOK'
  BY DEF CancelWaiter, RegistryInv, TypeOK, Stages, Active, Waiting
<1>3. \A v \in Uses : /\ stage'[v] \in Active <=> stage[v] \in Active
                      /\ stage'[v] \in Waiting <=> stage[v] \in Waiting
                      /\ stage'[v] = "new" <=> stage[v] = "new"
                      /\ stage'[v] = "holding" <=> stage[v] = "holding"
                      /\ stage'[v] = "woken" => stage[v] = "woken"
  BY <1>1 DEF Active, Waiting
<1>4. \A s \in Sessions : Users(s)' = Users(s)
  BY <1>1, <1>3 DEF Users
<1>5. CountOK' /\ LinkOK'
  BY <1>1, <1>3, <1>4 DEF RegistryInv, CountOK, LinkOK
<1>6. ObjectOK'
  BY <1>1, <1>3 DEF RegistryInv, TypeOK, ObjectOK
<1>7. QueueOK'
  <2>1. \A k \in Uses : \A i \in 1..Len(waiters[k]) : waiters[k][i] \in Uses
    BY DEF RegistryInv, TypeOK
  <2>2. QED
    BY <1>1, <1>3, <2>1 DEF RegistryInv, QueueOK
<1>8. HolderOK'
  BY <1>1, <1>3 DEF RegistryInv, HolderOK
<1>9. QED
  BY <1>2, <1>5, <1>6, <1>7, <1>8 DEF RegistryInv

\* CancelledError leaves acquire().
LEMMA AbandonStep ==
    ASSUME RegistryInv, NEW u \in Uses, Abandon(u)
    PROVE  RegistryInv'
<1> DEFINE l == mine[u]
           r == Remove(waiters[l], u)
           w == IF locked[l] THEN stage ELSE WakeFirst(stage, r)
<1>1. /\ l \in Uses /\ session[u] \in Sessions
      /\ stage[u] \in {"cancelled", "doomed"}
      /\ waiters' = [waiters EXCEPT ![l] = r]
      /\ stage' = [w EXCEPT ![u] = "gone"]
      /\ DropReference(session[u])
      /\ locked' = locked /\ session' = session /\ mine' = mine
  BY DEF Abandon, RegistryInv, LinkOK, Active, Waiting
<1>2. waiters[l] \in Seq(Uses) /\ Distinct(waiters[l]) /\ Occurs(waiters[l], u)
  BY <1>1 DEF RegistryInv, TypeOK, QueueOK, Waiting
<1>3. /\ r \in Seq(Uses)
      /\ Distinct(r)
      /\ \A j \in 1..Len(r) : r[j] # u /\ Occurs(waiters[l], r[j])
      /\ \A v \in Uses : v # u /\ Occurs(waiters[l], v) => Occurs(r, v)
      /\ waiters[l][1] # u => r # <<>> /\ r[1] = waiters[l][1]
  BY <1>2, RemoveFacts
<1> HIDE DEF r
<1>4. /\ w \in [Uses -> Stages]
      /\ \A v \in Uses : w[v] = stage[v] \/
            /\ stage[v] = "pending" /\ w[v] = "woken"
            /\ ~ locked[l] /\ r # <<>> /\ r[1] = v
  <2>1. r # <<>> => Head(r) \in Uses /\ Head(r) = r[1]
    BY <1>3
  <2>2. stage \in [Uses -> Stages] /\ "woken" \in Stages
    BY DEF RegistryInv, TypeOK, Stages, Active, Waiting
  <2>3. QED
    BY <2>1, <2>2 DEF WakeFirst
<1> HIDE DEF w
<1>5. /\ waiters'[l] = r
      /\ \A k \in Uses \ {l} : waiters'[k] = waiters[k]
      /\ stage'[u] = "gone"
      /\ \A v \in Uses \ {u} : stage'[v] = w[v]
  BY <1>1, <1>4 DEF RegistryInv, TypeOK
<1>6. \A v \in Uses \ {u} : /\ stage'[v] \in Active <=> stage[v] \in Active
                            /\ stage'[v] \in Waiting <=> stage[v] \in Waiting
                            /\ stage'[v] = "new" <=> stage[v] = "new"
                            /\ stage'[v] = "holding" <=> stage[v] = "holding"
  BY <1>4, <1>5 DEF Active, Waiting
<1>7. /\ locks' \in [Sessions -> Uses \cup {None}]
      /\ refs' \in [Sessions -> Nat]
      /\ CountOK'
      /\ \A s \in Sessions : locks'[s] \in {locks[s], None}
      /\ \A v \in Uses \ {u} : stage[v] \in Active => locks'[session[v]] = locks[session[v]]
  BY <1>1, <1>5, <1>6, DropStep DEF Active, Waiting
<1>8. TypeOK'
  <2>1. stage' \in [Uses -> Stages]
    BY <1>1, <1>4 DEF Stages
  <2>2. QED
    BY <1>1, <1>3, <1>7, <2>1 DEF RegistryInv, TypeOK
<1>9. LinkOK'
  BY <1>1, <1>5, <1>6, <1>7 DEF RegistryInv, LinkOK, Active, Waiting
<1>10. ObjectOK'
  <2>1. \A s \in Sessions : locks'[s] # None => locks'[s] = locks[s] /\ locks[s] \in Uses
    BY <1>7 DEF RegistryInv, TypeOK
  <2>2. \A v \in Uses : stage'[v] = "new" => stage[v] = "new"
    BY <1>5, <1>6
  <2>3. \A v \in Uses : stage[v] = "new" => v # l
    BY <1>1, NewIsApart DEF Active, Waiting
  <2>4. QED
    BY <1>1, <1>5, <2>1, <2>2, <2>3 DEF RegistryInv, ObjectOK
<1>11. QueueOK'
  <2>1. \A i \in 1..Len(r) : r[i] \in Uses \ {u} /\ stage[r[i]] \in Waiting /\ mine[r[i]] = l
    <3>1. \A v : Occurs(waiters[l], v) => stage[v] \in Waiting /\ mine[v] = l
      BY <1>1 DEF RegistryInv, QueueOK, Occurs
    <3>2. \A i \in 1..Len(r) : r[i] \in Uses
      BY <1>3
    <3>3. QED
      BY <1>3, <3>1, <3>2
  <2>2. \A k \in Uses \ {l} : \A i \in 1..Len(waiters[k]) : waiters[k][i] \in Uses \ {u}
    BY <1>1 DEF RegistryInv, TypeOK, QueueOK
  <2>3. ASSUME NEW k \in Uses
        PROVE  /\ Distinct(waiters'[k])
               /\ \A i \in 1..Len(waiters'[k]) :
                    stage'[waiters'[k][i]] \in Waiting /\ mine'[waiters'[k][i]] = k
    <3>1. CASE k = l
      BY <3>1, <1>1, <1>3, <1>5, <1>6, <2>1
    <3>2. CASE k # l
      BY <3>2, <1>1, <1>5, <1>6, <2>2 DEF RegistryInv, QueueOK
    <3>3. QED
      BY <3>1, <3>2
  <2>4. ASSUME NEW v \in Uses, stage'[v] \in Waiting
        PROVE  Occurs(waiters'[mine'[v]], v)
    <3>1. v # u /\ stage[v] \in Waiting /\ mine[v] \in Uses /\ Occurs(waiters[mine[v]], v)
      BY <2>4, <1>5, <1>6 DEF RegistryInv, QueueOK, LinkOK, Active, Waiting
    <3>2. QED
      BY <3>1, <1>1, <1>3, <1>5
  <2>5. QED
    BY <2>3, <2>4 DEF QueueOK
<1>12. HolderOK'
  <2>1. \A v \in Uses : stage'[v] = "holding" => stage[v] = "holding"
    BY <1>5, <1>6
  <2>2. ASSUME NEW v \in Uses, stage'[v] = "woken"
        PROVE  ~ locked'[mine'[v]] /\ waiters'[mine'[v]] # <<>> /\ waiters'[mine'[v]][1] = v
    <3>1. v # u /\ w[v] = "woken"
      BY <2>2, <1>5
    <3>2. CASE stage[v] = "woken"
      <4>1. /\ ~ locked[mine[v]] /\ mine[v] \in Uses
            /\ waiters[mine[v]] # <<>> /\ waiters[mine[v]][1] = v
        BY <3>2 DEF RegistryInv, HolderOK, LinkOK, Active, Waiting
      <4>2. QED
        BY <4>1, <3>1, <1>1, <1>3, <1>5
    <3>3. CASE stage[v] # "woken"
      <4>1. stage[v] = "pending" /\ ~ locked[l] /\ r # <<>> /\ r[1] = v
        BY <3>1, <3>3, <1>4
      <4>2. mine[v] = l
        <5>1. 1 \in 1..Len(r)
          BY <4>1, <1>3
        <5>2. QED
          BY <5>1, <4>1, <1>1, <1>3 DEF Occurs, RegistryInv, QueueOK
      <4>3. QED
        BY <4>1, <4>2, <1>1, <1>5
    <3>4. QED
      BY <3>2, <3>3
  <2>3. QED
    BY <1>1, <2>1, <2>2 DEF RegistryInv, HolderOK
<1>13. QED
  BY <1>8, <1>7, <1>9, <1>10, <1>11, <1>12 DEF RegistryInv

\* The end of a locked block.
LEMMA LeaveStep ==
    ASSUME RegistryInv, NEW u \in Uses, Leave(u)
    PROVE  RegistryInv'
<1> DEFINE l == mine[u]
           q == waiters[l]
           w == WakeFirst(stage, q)
<1>1. /\ l \in Uses /\ session[u] \in Sessions
      /\ stage[u] = "holding"
      /\ locked' = [locked EXCEPT ![l] = FALSE]
      /\ stage' = [w EXCEPT ![u] = "gone"]
      /\ DropReference(session[u])
      /\ waiters' = waiters /\ session' = session /\ mine' = mine
  BY DEF Leave, RegistryInv, LinkOK, Active
<1>2. q \in Seq(Uses)
  BY <1>1 DEF RegistryInv, TypeOK
<1>3. /\ w \in [Uses -> Stages]
      /\ \A v \in Uses : w[v] = stage[v] \/
            /\ stage[v] = "pending" /\ w[v] = "woken"
            /\ q # <<>> /\ q[1] = v
  <2> HIDE DEF q
  <2>1. q # <<>> => Head(q) \in Uses /\ Head(q) = q[1]
    BY <1>2
  <2>2. stage \in [Uses -> Stages] /\ "woken" \in Stages
    BY DEF RegistryInv, TypeOK, Stages, Active, Waiting
  <2>3. QED
    BY <2>1, <2>2 DEF WakeFirst
<1> HIDE DEF w
<1>4. /\ locked'[l] = FALSE
      /\ \A k \in Uses \ {l} : locked'[k] = locked[k]
      /\ stage'[u] = "gone"
      /\ \A v \in Uses \ {u} : stage'[v] = w[v]
  BY <1>1, <1>3 DEF RegistryInv, TypeOK
<1>5. \A v \in Uses \ {u} : /\ stage'[v] \in Active <=> stage[v] \in Active
                            /\ stage'[v] \in Waiting <=> stage[v] \in Waiting
                            /\ stage'[v] = "new" <=> stage[v] = "new"
                            /\ stage'[v] = "holding" <=> stage[v] = "holding"
  BY <1>3, <1>4 DEF Active, Waiting
<1>6. /\ locks' \in [Sessions -> Uses \cup {None}]
      /\ refs' \in [Sessions -> Nat]
      /\ CountOK'
      /\ \A s \in Sessions : locks'[s] \in {locks[s], None}
      /\ \A v \in Uses \ {u} : stage[v] \in Active => locks'[session[v]] = locks[session[v]]
  BY <1>1, <1>4, <1>5, DropStep DEF Active
<1>7. TypeOK'
  <2>1. stage' \in [Uses -> Stages]
    BY <1>1, <1>3 DEF Stages
  <2>2. QED
    BY <1>1, <1>6, <2>1 DEF RegistryInv, TypeOK
<1>8. LinkOK'
  BY <1>1, <1>4, <1>5, <1>6 DEF RegistryInv, LinkOK, Active, Waiting
<1>9. ObjectOK'
  <2>1. \A s \in Sessions : locks'[s] # None => locks'[s] = locks[s] /\ locks[s] \in Uses
    BY <1>6 DEF RegistryInv, TypeOK
  <2>2. \A v \in Uses : stage'[v] = "new" => stage[v] = "new"
    BY <1>4, <1>5
  <2>3. \A v \in Uses : stage[v] = "new" => v # l
    BY <1>1, NewIsApart DEF Active
  <2>4. QED
    BY <1>1, <1>4, <2>1, <2>2, <2>3 DEF RegistryInv, ObjectOK
<1>10. \A k \in Uses : \A i \in 1..Len(waiters[k]) : waiters[k][i] \in Uses \ {u}
  <2>1. \A k \in Uses : \A i \in 1..Len(waiters[k]) : waiters[k][i] \in Uses
    BY DEF RegistryInv, TypeOK
  <2>2. \A k \in Uses : \A i \in 1..Len(waiters[k]) : stage[waiters[k][i]] # "holding"
    BY DEF RegistryInv, QueueOK, Waiting
  <2>3. QED
    BY <1>1, <2>1, <2>2
<1>11. QueueOK'
  <2>1. \A v \in Uses : stage'[v] \in Waiting => stage[v] \in Waiting
    BY <1>4, <1>5 DEF Waiting
  <2>2. QED
    BY <1>1, <1>5, <1>10, <2>1 DEF RegistryInv, QueueOK
<1>12. HolderOK'
  <2>1. \A v \in Uses : stage'[v] = "holding" => stage[v] = "holding" /\ v # u
    BY <1>4, <1>5
  <2>2. \A v \in Uses : stage'[v] = "holding" => locked'[mine'[v]]
    <3>1. \A v \in Uses : stage[v] = "holding" => mine[v] \in Uses
      BY DEF RegistryInv, LinkOK, Active
    <3>2. QED
      BY <3>1, <1>1, <1>4, <2>1 DEF RegistryInv, HolderOK
  <2>3. ASSUME NEW v \in Uses, stage'[v] = "woken"
        PROVE  ~ locked'[mine'[v]] /\ waiters'[mine'[v]] # <<>> /\ waiters'[mine'[v]][1] = v
    <3>1. v # u /\ w[v] = "woken"
      BY <2>3, <1>4
    <3>2. CASE stage[v] = "woken"
      BY <3>2, <1>1, <1>4 DEF RegistryInv, HolderOK, LinkOK, Active, Waiting
    <3>3. CASE stage[v] # "woken"
      <4>1. q # <<>> /\ q[1] = v
        BY <3>1, <3>3, <1>3
      <4>2. 1 \in 1..Len(q)
        BY <4>1, <1>2
      <4>3. mine[v] = l
        BY <4>1, <4>2, <1>1 DEF RegistryInv, QueueOK
      <4>4. QED
        BY <4>1, <4>3, <1>1, <1>4
    <3>4. QED
      BY <3>2, <3>3
  <2>4. QED
    BY <1>1, <2>1, <2>2, <2>3 DEF RegistryInv, HolderOK
<1>13. QED
  BY <1>6, <1>7, <1>8, <1>9, <1>11, <1>12 DEF RegistryInv

-----------------------------------------------------------------------------
\* The registry starts empty.
LEMMA RegistryInit == Init => RegistryInv
<1> SUFFICES ASSUME Init PROVE RegistryInv
  OBVIOUS
<1>1. TypeOK
  BY DEF Init, TypeOK, Stages
<1>2. \A s \in Sessions : Users(s) = {}
  BY DEF Init, Users, Active, Waiting
<1>3. CountOK
  BY <1>2, FS_EmptySet DEF Init, CountOK
<1>4. LinkOK /\ ObjectOK
  BY DEF Init, LinkOK, ObjectOK, Active, Waiting
<1>5. QueueOK /\ HolderOK
  BY DEF Init, QueueOK, HolderOK, Waiting, Distinct
<1>6. QED
  BY <1>1, <1>3, <1>4, <1>5 DEF RegistryInv

\* Every step of the registry keeps its invariant.
LEMMA RegistryStep == RegistryInv /\ [Next]_vars => RegistryInv'
<1> SUFFICES ASSUME RegistryInv, [Next]_vars PROVE RegistryInv'
  OBVIOUS
<1>1. ASSUME NEW u \in Uses, NEW s \in Sessions, Enter(u, s)
      PROVE  RegistryInv'
  BY <1>1, EnterStep
<1>2. ASSUME NEW u \in Uses, Resume(u)
      PROVE  RegistryInv'
  BY <1>2, ResumeStep
<1>3. ASSUME NEW u \in Uses, CancelWaiter(u)
      PROVE  RegistryInv'
  BY <1>3, CancelStep
<1>4. ASSUME NEW u \in Uses, Abandon(u)
      PROVE  RegistryInv'
  BY <1>4, AbandonStep
<1>5. ASSUME NEW u \in Uses, Leave(u)
      PROVE  RegistryInv'
  BY <1>5, LeaveStep
<1>6. CASE UNCHANGED vars
  <2>1. TypeOK' /\ CountOK' /\ LinkOK'
    <3>1. \A s \in Sessions : Users(s)' = Users(s)
      BY <1>6 DEF vars, Users
    <3>2. QED
      BY <1>6, <3>1 DEF vars, RegistryInv, TypeOK, CountOK, LinkOK
  <2>2. ObjectOK' /\ QueueOK' /\ HolderOK'
    BY <1>6 DEF vars, RegistryInv, ObjectOK, QueueOK, HolderOK
  <2>3. QED
    BY <2>1, <2>2 DEF RegistryInv
<1>7. QED
  BY <1>1, <1>2, <1>3, <1>4, <1>5, <1>6 DEF Next

\* Queues, holders and counts agree in every reachable state (sqlite.py, lock() and the
\* asyncio.Lock of Python under it).
THEOREM SpecRegistryInv == Spec => []RegistryInv
BY RegistryInit, RegistryStep, PTL DEF Spec

\* Every variable of the registry keeps its type; in particular no count goes below zero.
THEOREM RegistryTypeCorrect == Spec => []TypeOK
<1>1. RegistryInv => TypeOK
  BY DEF RegistryInv
<1>2. QED
  BY <1>1, SpecRegistryInv, PTL

\* Two requests never run the locked section of one session side by side, however many
\* waiters are cancelled and however often its lock is forgotten and rebuilt.
THEOREM OneHolderPerSession == Spec => []MutualExclusion
<1>1. RegistryInv => MutualExclusion
  <2> SUFFICES ASSUME RegistryInv, NEW u \in Uses, NEW v \in Uses,
                      stage[u] = "holding", stage[v] = "holding", session[u] = session[v]
               PROVE  u = v
    BY DEF MutualExclusion
  <2>1. mine[u] = mine[v]
    BY DEF RegistryInv, LinkOK, Active
  <2>2. QED
    BY <2>1 DEF RegistryInv, HolderOK
<1>2. QED
  BY <1>1, SpecRegistryInv, PTL

\* The reference count of a lock is the number of uses that hold it or wait for it, and
\* the lock is registered exactly as long as there are any.
THEOREM ReferenceCountIsExact == Spec => []CountExact
<1>1. RegistryInv => CountExact
  BY DEF RegistryInv, CountOK, CountExact
<1>2. QED
  BY <1>1, SpecRegistryInv, PTL

-----------------------------------------------------------------------------
(* Whatever is locked is held.                                             *)

\* What is locked is held: nothing leaves a block without releasing.
HeldOK == \A l \in Uses : locked[l] => \E u \in Uses : stage[u] = "holding" /\ mine[u] = l

QueueInv == RegistryInv /\ HeldOK

\* _wake_up_first() changes the stage of one waiter at most, from pending to woken.
LEMMA WakeFirstFacts ==
    ASSUME NEW stages \in [Uses -> Stages], NEW q \in Seq(Uses)
    PROVE  /\ WakeFirst(stages, q) \in [Uses -> Stages]
           /\ \A v \in Uses :
                 \/ WakeFirst(stages, q)[v] = stages[v]
                 \/ stages[v] = "pending" /\ WakeFirst(stages, q)[v] = "woken"
<1>1. q # <<>> => Head(q) \in Uses
  BY HeadTailProperties
<1>2. QED
  BY <1>1 DEF WakeFirst, Stages, Active, Waiting

\* Every step keeps what is locked held.
LEMMA HeldStep ==
    ASSUME QueueInv, Next
    PROVE  HeldOK'
<1>1. ASSUME NEW u \in Uses, NEW s \in Sessions, Enter(u, s)
      PROVE  HeldOK'
  <2>1. \A v \in Uses : stage[v] = "holding" => v # u
    BY <1>1 DEF Enter
  <2>2. \A v \in Uses \ {u} : stage'[v] = stage[v] /\ mine'[v] = mine[v]
    BY <1>1 DEF Enter, QueueInv, RegistryInv, TypeOK
  <2> DEFINE l == IF locks[s] = None THEN u ELSE locks[s]
  <2>3. \/ locked' = locked
        \/ locked' = [locked EXCEPT ![l] = TRUE] /\ stage'[u] = "holding" /\ mine'[u] = l
    BY <1>1 DEF Enter, QueueInv, RegistryInv, TypeOK
  <2>4. ASSUME NEW m \in Uses, locked'[m]
        PROVE  \E v \in Uses : stage'[v] = "holding" /\ mine'[v] = m
    <3>1. CASE locked[m]
      <4>1. PICK v \in Uses : stage[v] = "holding" /\ mine[v] = m
        BY <3>1 DEF QueueInv, HeldOK
      <4>2. QED
        BY <2>1, <2>2, <4>1
    <3>2. CASE ~ locked[m]
      <4>1. m = l /\ stage'[u] = "holding" /\ mine'[u] = l
        BY <2>3, <2>4, <3>2 DEF QueueInv, RegistryInv, TypeOK
      <4>2. QED
        BY <4>1
    <3>3. QED
      BY <3>1, <3>2
  <2>5. QED
    BY <2>4 DEF HeldOK
<1>2. ASSUME NEW u \in Uses, Resume(u)
      PROVE  HeldOK'
  <2>1. \A v \in Uses : stage[v] = "holding" => stage'[v] = "holding"
    BY <1>2 DEF Resume, QueueInv, RegistryInv, TypeOK
  <2>2. locked' = [locked EXCEPT ![mine[u]] = TRUE] /\ stage'[u] = "holding" /\ mine' = mine
    BY <1>2 DEF Resume, QueueInv, RegistryInv, TypeOK
  <2>3. QED
    BY <2>1, <2>2 DEF QueueInv, HeldOK, RegistryInv, TypeOK
<1>3. ASSUME NEW u \in Uses, CancelWaiter(u)
      PROVE  HeldOK'
  BY <1>3 DEF CancelWaiter, QueueInv, HeldOK, RegistryInv, TypeOK
<1>4. ASSUME NEW u \in Uses, Abandon(u)
      PROVE  HeldOK'
  <2>1. Remove(waiters[mine[u]], u) \in Seq(Uses)
    <3>1. stage[u] \in Active /\ stage[u] \in Waiting
      BY <1>4 DEF Abandon, Active, Waiting
    <3>2. mine[u] \in Uses
      BY <3>1 DEF QueueInv, RegistryInv, LinkOK
    <3>3. Occurs(waiters[mine[u]], u) /\ Distinct(waiters[mine[u]])
      BY <3>1, <3>2 DEF QueueInv, RegistryInv, QueueOK
    <3>4. QED
      BY <3>2, <3>3, RemoveFacts DEF QueueInv, RegistryInv, TypeOK
  <2>2. ASSUME NEW v \in Uses, stage[v] = "holding"
        PROVE  stage'[v] = "holding"
    <3>1. v # u
      BY <1>4, <2>2 DEF Abandon
    <3>2. WakeFirst(stage, Remove(waiters[mine[u]], u))[v] = stage[v]
      BY <2>1, <2>2, WakeFirstFacts DEF QueueInv, RegistryInv, TypeOK
    <3>3. WakeFirst(stage, Remove(waiters[mine[u]], u)) \in [Uses -> Stages]
      BY <2>1, WakeFirstFacts DEF QueueInv, RegistryInv, TypeOK
    <3>4. QED
      BY <1>4, <2>2, <3>1, <3>2, <3>3 DEF Abandon, QueueInv, RegistryInv, TypeOK
  <2>3. locked' = locked /\ mine' = mine
    BY <1>4 DEF Abandon
  <2>4. QED
    BY <2>2, <2>3 DEF QueueInv, HeldOK
<1>5. ASSUME NEW u \in Uses, Leave(u)
      PROVE  HeldOK'
  <2>1. mine[u] \in Uses /\ waiters[mine[u]] \in Seq(Uses)
    BY <1>5 DEF Leave, Active, QueueInv, RegistryInv, LinkOK, TypeOK
  <2>2. ASSUME NEW v \in Uses, stage[v] = "holding", v # u
        PROVE  stage'[v] = "holding"
    <3>1. WakeFirst(stage, waiters[mine[u]])[v] = stage[v]
      BY <2>1, <2>2, WakeFirstFacts DEF QueueInv, RegistryInv, TypeOK
    <3>2. WakeFirst(stage, waiters[mine[u]]) \in [Uses -> Stages]
      BY <2>1, WakeFirstFacts DEF QueueInv, RegistryInv, TypeOK
    <3>3. QED
      BY <1>5, <2>2, <3>1, <3>2 DEF Leave
  <2>3. locked' = [locked EXCEPT ![mine[u]] = FALSE] /\ mine' = mine
    BY <1>5 DEF Leave
  <2>4. QED
    BY <2>1, <2>2, <2>3 DEF QueueInv, HeldOK, RegistryInv, TypeOK
<1>6. QED
  BY <1>1, <1>2, <1>3, <1>4, <1>5 DEF Next

\* Initially nothing is locked.
LEMMA QueueInvInit == Init => QueueInv
BY RegistryInit DEF QueueInv, HeldOK, Init

\* Every step keeps the two together.
LEMMA QueueInvStep == QueueInv /\ [Next]_vars => QueueInv'
<1>1. ASSUME QueueInv, UNCHANGED vars
      PROVE  HeldOK'
  BY <1>1 DEF QueueInv, HeldOK, vars
<1>2. QED
  BY <1>1, HeldStep, RegistryStep DEF QueueInv

\* Everything that is locked is held by a use that will release it.
THEOREM SpecQueueInv == Spec => []QueueInv
<1>1. QED
  BY QueueInvInit, QueueInvStep, PTL DEF Spec

-----------------------------------------------------------------------------
(* Select is a recursive function: that there is one has to be shown, and   *)
(* what it returns follows by induction over the queue.                    *)

\* f picks from the first n elements of q, one after the other, those of S.
Picked(q, S, p, i) == IF q[i] \in S THEN Append(p, q[i]) ELSE p
Picks(q, S, n, f) == f = [i \in 0..n |-> IF i = 0 THEN <<>> ELSE Picked(q, S, f[i - 1], i)]

\* There is such a function for every n.
LEMMA PicksExist ==
    ASSUME NEW q, NEW S, NEW n \in Nat
    PROVE  \E f : Picks(q, S, n, f)
<1> DEFINE N == {m \in Nat : \E f : Picks(q, S, m, f)}
<1>1. 0 \in N
  <2> DEFINE f == [i \in 0..0 |-> <<>>]
  <2>1. Picks(q, S, 0, f)
    BY DEF Picks
  <2>2. QED
    BY <2>1
<1>2. ASSUME NEW m \in N
      PROVE  m + 1 \in N
  <2>1. PICK f : Picks(q, S, m, f)
    OBVIOUS
  <2> DEFINE g == [i \in 0..(m + 1) |-> IF i = m + 1 THEN Picked(q, S, f[m], m + 1) ELSE f[i]]
             h == [i \in 0..(m + 1) |-> IF i = 0 THEN <<>> ELSE Picked(q, S, g[i - 1], i)]
  <2>2. ASSUME NEW i \in 0..(m + 1)
        PROVE  g[i] = h[i]
    <3>1. CASE i = m + 1
      <4>1. g[i - 1] = f[m]
        BY <3>1
      <4>2. QED
        BY <3>1, <4>1
    <3>2. CASE i # m + 1 /\ i # 0
      <4>1. i \in 0..m /\ i - 1 \in 0..m /\ i - 1 \in 0..(m + 1) /\ i - 1 # m + 1
        BY <3>2
      <4>2. g[i - 1] = f[i - 1] /\ g[i] = f[i]
        BY <4>1, <3>2
      <4>3. f[i] = Picked(q, S, f[i - 1], i)
        BY <2>1, <4>1, <3>2 DEF Picks
      <4>4. QED
        BY <3>2, <4>2, <4>3
    <3>3. CASE i = 0
      BY <2>1, <3>3 DEF Picks
    <3>4. QED
      BY <3>1, <3>2, <3>3
  <2>3. g = h
    BY <2>2
  <2>4. Picks(q, S, m + 1, g)
    BY <2>3 DEF Picks
  <2>5. QED
    BY <2>4
<1>3. N = Nat
  <2> HIDE DEF N
  <2>1. N \in SUBSET Nat
    BY DEF N
  <2>2. QED
    BY <1>1, <1>2, <2>1, NatFrom0
<1>4. QED
  BY <1>3

\* Two such functions agree where both are defined.
LEMMA PicksAgree ==
    ASSUME NEW S, NEW q, NEW r, NEW n \in Nat, NEW m \in Nat, NEW f, NEW g, n <= m,
           \A i \in 1..n : q[i] = r[i],
           Picks(q, S, n, f), Picks(r, S, m, g)
    PROVE  f[n] = g[n]
<1> DEFINE N == {i \in Nat : i <= n => f[i] = g[i]}
<1>1. 0 \in N
  BY DEF Picks
<1>2. ASSUME NEW i \in N
      PROVE  i + 1 \in N
  <2>1. SUFFICES ASSUME i + 1 <= n
                 PROVE  f[i + 1] = g[i + 1]
    OBVIOUS
  <2>2. /\ i + 1 \in 0..n /\ i + 1 \in 0..m /\ i + 1 # 0 /\ i + 1 \in 1..n /\ (i + 1) - 1 = i
    BY <2>1
  <2>3. f[i + 1] = Picked(q, S, f[i], i + 1)
    BY <2>2 DEF Picks
  <2>4. g[i + 1] = Picked(r, S, g[i], i + 1)
    BY <2>2 DEF Picks
  <2>5. f[i] = g[i]
    BY <2>1
  <2>6. q[i + 1] = r[i + 1]
    BY <2>2
  <2>7. QED
    BY <2>3, <2>4, <2>5, <2>6 DEF Picked
<1>3. N = Nat
  <2> HIDE DEF N
  <2>1. N \in SUBSET Nat
    BY DEF N
  <2>2. QED
    BY <1>1, <1>2, <2>1, NatFrom0
<1>4. QED
  BY <1>3

\* Select returns the last value of such a function.
LEMMA SelectIsPicked ==
    ASSUME NEW q \in Seq(Uses), NEW S
    PROVE  \E f : Picks(q, S, Len(q), f) /\ Select(q, S) = f[Len(q)]
<1> DEFINE f == CHOOSE f : Picks(q, S, Len(q), f)
<1>1. Len(q) \in Nat
  OBVIOUS
<1>2. Picks(q, S, Len(q), f)
  BY <1>1, PicksExist
<1>3. Select(q, S) = f[Len(q)]
  BY DEF Select, Picks, Picked
<1>4. QED
  BY <1>2, <1>3

\* Nothing is selected from an empty queue.
LEMMA SelectEmpty == ASSUME NEW S PROVE Select(<<>>, S) = <<>>
<1>1. <<>> \in Seq(Uses) /\ Len(<<>>) = 0
  BY EmptySeq
<1>2. PICK f : Picks(<<>>, S, 0, f) /\ Select(<<>>, S) = f[0]
  BY <1>1, SelectIsPicked
<1>3. QED
  BY <1>2 DEF Picks

\* A use at the end of a queue is selected last.
LEMMA SelectAppend ==
    ASSUME NEW q \in Seq(Uses), NEW u \in Uses, NEW S
    PROVE  Select(Append(q, u), S) = IF u \in S THEN Append(Select(q, S), u) ELSE Select(q, S)
<1> DEFINE r == Append(q, u)
           n == Len(q)
<1>1. /\ n \in Nat /\ r \in Seq(Uses) /\ Len(r) = n + 1 /\ r[n + 1] = u
      /\ \A i \in 1..n : q[i] = r[i]
  BY AppendProperties, LenProperties
<1> HIDE DEF r, n
<1>2. PICK f : Picks(q, S, n, f) /\ Select(q, S) = f[n]
  BY SelectIsPicked DEF n
<1>3. PICK g : Picks(r, S, n + 1, g) /\ Select(r, S) = g[n + 1]
  BY <1>1, SelectIsPicked
<1>4. f[n] = g[n]
  BY <1>1, <1>2, <1>3, n <= n + 1, n + 1 \in Nat, PicksAgree
<1>5. g[n + 1] = Picked(r, S, g[n], n + 1)
  BY <1>1, <1>3, n + 1 # 0, n + 1 \in 0..(n + 1), (n + 1) - 1 = n DEF Picks
<1>6. QED
  BY <1>1, <1>2, <1>3, <1>4, <1>5 DEF Picked, r

\* What is selected from a queue of uses is a queue of uses.
LEMMA SelectTyped ==
    ASSUME NEW S
    PROVE  \A q \in Seq(Uses) : Select(q, S) \in Seq(Uses)
<1> DEFINE P == {q \in Seq(Uses) : Select(q, S) \in Seq(Uses)}
<1>1. <<>> \in P
  BY SelectEmpty, EmptySeq
<1>2. ASSUME NEW q \in P, NEW u \in Uses
      PROVE  Append(q, u) \in P
  <2>1. q \in Seq(Uses) /\ Append(q, u) \in Seq(Uses) /\ Append(Select(q, S), u) \in Seq(Uses)
    BY AppendProperties
  <2>2. Select(Append(q, u), S) = IF u \in S THEN Append(Select(q, S), u) ELSE Select(q, S)
    BY <2>1, SelectAppend
  <2>3. QED
    BY <2>1, <2>2
<1>3. P \in SUBSET Seq(Uses)
  OBVIOUS
<1> HIDE DEF P
<1>4. P = Seq(Uses)
  BY <1>1, <1>2, <1>3, SeqFromEmpty
<1>5. QED
  BY <1>4 DEF P

\* What two sets have in common with a queue is all that matters of them.
LEMMA SelectSame ==
    ASSUME NEW S, NEW T
    PROVE  \A q \in Seq(Uses) :
               (\A i \in 1..Len(q) : q[i] \in S <=> q[i] \in T) => Select(q, S) = Select(q, T)
<1> DEFINE Same(q) == (\A i \in 1..Len(q) : q[i] \in S <=> q[i] \in T)
           P == {q \in Seq(Uses) : Same(q) => Select(q, S) = Select(q, T)}
<1>1. <<>> \in P
  BY SelectEmpty, EmptySeq
<1>2. ASSUME NEW q \in P, NEW u \in Uses
      PROVE  Append(q, u) \in P
  <2>1. /\ Append(q, u) \in Seq(Uses) /\ Len(Append(q, u)) = Len(q) + 1 /\ Len(q) \in Nat
        /\ \A i \in 1..Len(q) : Append(q, u)[i] = q[i]
        /\ Append(q, u)[Len(q) + 1] = u
    BY AppendProperties, LenProperties
  <2>2. ASSUME Same(Append(q, u))
        PROVE  Same(q) /\ (u \in S <=> u \in T)
    <3> HIDE <1>2
    <3>1. ASSUME NEW i \in 1..Len(q)
          PROVE  q[i] \in S <=> q[i] \in T
      <4>1. i \in 1..Len(Append(q, u)) /\ Append(q, u)[i] = q[i]
        BY <2>1
      <4>2. QED
        BY <2>2, <4>1
    <3>2. Len(q) + 1 \in 1..Len(Append(q, u))
      BY <2>1
    <3>3. QED
      BY <2>1, <2>2, <3>1, <3>2
  <2>3. ASSUME Same(Append(q, u))
        PROVE  Select(Append(q, u), S) = Select(Append(q, u), T)
    <3>1. Select(q, S) = Select(q, T)
      BY <2>2, <2>3
    <3>2. Select(Append(q, u), S) = IF u \in S THEN Append(Select(q, S), u) ELSE Select(q, S)
      BY SelectAppend
    <3>3. Select(Append(q, u), T) = IF u \in T THEN Append(Select(q, T), u) ELSE Select(q, T)
      BY SelectAppend
    <3>4. QED
      BY <2>2, <2>3, <3>1, <3>2, <3>3
  <2>4. QED
    BY <2>1, <2>3
<1>3. P \in SUBSET Seq(Uses)
  OBVIOUS
<1>4. P = Seq(Uses)
  <2> HIDE DEF P
  <2>1. QED
    BY <1>1, <1>2, <1>3, SeqFromEmpty
<1>5. QED
  BY <1>4

\* Select takes two queues one after the other.
LEMMA SelectConcat ==
    ASSUME NEW S, NEW p \in Seq(Uses)
    PROVE  \A q \in Seq(Uses) : Select(p \o q, S) = Select(p, S) \o Select(q, S)
<1> DEFINE P == {q \in Seq(Uses) : Select(p \o q, S) = Select(p, S) \o Select(q, S)}
<1>1. <<>> \in P
  BY SelectEmpty, SelectTyped, EmptySeq, ConcatEmptySeq
<1>2. ASSUME NEW q \in P, NEW u \in Uses
      PROVE  Append(q, u) \in P
  <2>1. q \in Seq(Uses) /\ Append(q, u) \in Seq(Uses) /\ p \o q \in Seq(Uses)
    BY AppendProperties, ConcatProperties
  <2>2. p \o Append(q, u) = Append(p \o q, u)
    BY <2>1, AppendIsConcat, ConcatAssociative, <<u>> \in Seq(Uses)
  <2>3. Select(p \o q, S) = Select(p, S) \o Select(q, S)
    OBVIOUS
  <2>4. Select(p, S) \in Seq(Uses) /\ Select(q, S) \in Seq(Uses)
    BY <2>1, SelectTyped
  <2>5. Select(p, S) \o Append(Select(q, S), u) = Append(Select(p, S) \o Select(q, S), u)
    BY <2>4, AppendIsConcat, ConcatAssociative, ConcatProperties, <<u>> \in Seq(Uses)
  <2>6. Select(Append(p \o q, u), S)
            = IF u \in S THEN Append(Select(p \o q, S), u) ELSE Select(p \o q, S)
    <3> DEFINE pq == p \o q
    <3>1. pq \in Seq(Uses)
      BY <2>1
    <3> HIDE DEF pq
    <3>2. Select(Append(pq, u), S) = IF u \in S THEN Append(Select(pq, S), u) ELSE Select(pq, S)
      BY <3>1, SelectAppend
    <3>3. QED
      BY <3>2 DEF pq
  <2>7. Select(Append(q, u), S) = IF u \in S THEN Append(Select(q, S), u) ELSE Select(q, S)
    BY <2>1, SelectAppend
  <2>8. Select(p \o Append(q, u), S) = Select(p, S) \o Select(Append(q, u), S)
    BY <2>2, <2>3, <2>5, <2>6, <2>7
  <2>9. QED
    BY <2>1, <2>8
<1>3. P \in SUBSET Seq(Uses)
  OBVIOUS
<1> HIDE DEF P
<1>4. P = Seq(Uses)
  BY <1>1, <1>2, <1>3, SeqFromEmpty
<1>5. QED
  BY <1>4 DEF P

\* Select takes exactly the uses of S.
LEMMA SelectMembers ==
    ASSUME NEW S
    PROVE  \A q \in Seq(Uses) : \A v \in Uses : Occurs(Select(q, S), v) <=> v \in S /\ Occurs(q, v)
<1> DEFINE P == {q \in Seq(Uses) :
                   \A v \in Uses : Occurs(Select(q, S), v) <=> v \in S /\ Occurs(q, v)}
<1>1. <<>> \in P
  BY SelectEmpty, EmptySeq DEF Occurs
<1>2. ASSUME NEW q \in P, NEW u \in Uses
      PROVE  Append(q, u) \in P
  <2>1. Append(q, u) \in Seq(Uses)
    BY AppendProperties
  <2>2. ASSUME NEW r \in Seq(Uses), NEW v \in Uses
        PROVE  Occurs(Append(r, u), v) <=> Occurs(r, v) \/ v = u
    <3>1. /\ Len(Append(r, u)) = Len(r) + 1 /\ Len(r) \in Nat
          /\ \A i \in 1..Len(r) : Append(r, u)[i] = r[i]
          /\ Append(r, u)[Len(r) + 1] = u
      BY AppendProperties, LenProperties
    <3>2. QED
      BY <3>1 DEF Occurs
  <2>3. Select(q, S) \in Seq(Uses)
    BY SelectTyped
  <2>4. Select(Append(q, u), S) = IF u \in S THEN Append(Select(q, S), u) ELSE Select(q, S)
    BY SelectAppend
  <2>5. ASSUME NEW v \in Uses
        PROVE  Occurs(Select(Append(q, u), S), v) <=> v \in S /\ Occurs(Append(q, u), v)
    <3>1. Occurs(Select(q, S), v) <=> v \in S /\ Occurs(q, v)
      OBVIOUS
    <3>2. Occurs(Append(q, u), v) <=> Occurs(q, v) \/ v = u
      BY <2>2
    <3>3. Occurs(Append(Select(q, S), u), v) <=> Occurs(Select(q, S), v) \/ v = u
      BY <2>2, <2>3
    <3>4. QED
      BY <2>4, <3>1, <3>2, <3>3
  <2>6. QED
    BY <2>1, <2>5
<1>3. P \in SUBSET Seq(Uses)
  OBVIOUS
<1> HIDE DEF P
<1>4. P = Seq(Uses)
  BY <1>1, <1>2, <1>3, SeqFromEmpty
<1>5. QED
  BY <1>4 DEF P

\* Remove parts a queue of distinct uses before and behind the one it takes out.
LEMMA SplitAt ==
    ASSUME NEW q \in Seq(Uses), NEW u \in Uses, Occurs(q, u), Distinct(q)
    PROVE  \E a, b \in Seq(Uses) :
              /\ q = a \o (<<u>> \o b)
              /\ Remove(q, u) = a \o b
              /\ ~ Occurs(a, u) /\ ~ Occurs(b, u)
              /\ q[1] = u => a = <<>>
<1> DEFINE i == IndexOf(q, u)
           n == Len(q)
           a == SubSeq(q, 1, i - 1)
           b == SubSeq(q, i + 1, n)
<1>1. i \in 1..n /\ q[i] = u
  BY DEF Occurs, IndexOf
<1>2. n \in Nat /\ \A j \in 1..n : q[j] \in Uses
  BY LenProperties, ElementOfSeq
<1>3. Remove(q, u) = a \o b
  BY DEF Remove
<1> HIDE DEF i
<1>4. a \in Seq(Uses) /\ Len(a) = i - 1 /\ \A j \in 1..(i - 1) : a[j] = q[j]
  BY <1>1, <1>2
<1>5. b \in Seq(Uses) /\ Len(b) = n - i /\ \A j \in 1..(n - i) : b[j] = q[j + i]
  BY <1>1, <1>2
<1>6. q = a \o SubSeq(q, i, n)
  <2>1. a \o SubSeq(q, (i - 1) + 1, n) = SubSeq(q, 1, n)
    BY <1>1, <1>2, i - 1 \in 1 - 1..n, n \in (i - 1)..n, 1 \in 1..(n + 1), ConcatAdjacentSubSeq
  <2>2. SubSeq(q, 1, n) = q
    BY SubSeqFull
  <2>3. (i - 1) + 1 = i
    BY <1>1
  <2>4. QED
    BY <2>1, <2>2, <2>3
<1>7. SubSeq(q, i, n) = <<u>> \o b
  BY <1>1, <1>2, n \in i..n, SubSeqRecursiveFirst
<1>8. ~ Occurs(a, u)
  BY <1>1, <1>2, <1>4 DEF Occurs, Distinct
<1>9. ~ Occurs(b, u)
  <2>1. ASSUME NEW j \in 1..Len(b), b[j] = u
        PROVE  FALSE
    <3>1. j + i \in 1..n /\ j + i # i /\ q[j + i] = u
      BY <2>1, <1>1, <1>2, <1>5
    <3>2. QED
      BY <3>1, <1>1 DEF Distinct
  <2>2. QED
    BY <2>1 DEF Occurs
<1>10. ASSUME q[1] = u
       PROVE  a = <<>>
  <2>1. i = 1
    BY <1>1, <1>2, <1>10 DEF Distinct
  <2>2. QED
    BY <2>1, SubSeqEmpty, 1 - 1 < 1
<1> HIDE DEF a, b
<1>11. QED
  BY <1>3, <1>4, <1>5, <1>6, <1>7, <1>8, <1>9, <1>10

\* A use leaves a queue: what S has of it loses that use, if it was in S.
LEMMA SelectRemove ==
    ASSUME NEW q \in Seq(Uses), NEW u \in Uses, Occurs(q, u), Distinct(q), NEW S
    PROVE  /\ u \notin S => Select(Remove(q, u), S) = Select(q, S)
           /\ u \in S => \E a, b \in Seq(Uses) :
                            /\ Select(q, S) = a \o (<<u>> \o b)
                            /\ Select(q, S \ {u}) = a \o b
                            /\ Select(Remove(q, u), S \ {u}) = a \o b
                            /\ ~ Occurs(a, u)
                            /\ q[1] = u => a = <<>>
<1>1. PICK a, b \in Seq(Uses) :
          /\ q = a \o (<<u>> \o b)
          /\ Remove(q, u) = a \o b
          /\ ~ Occurs(a, u) /\ ~ Occurs(b, u)
          /\ q[1] = u => a = <<>>
  BY SplitAt
<1>2. <<u>> \in Seq(Uses) /\ <<u>> \o b \in Seq(Uses)
  BY ConcatProperties
<1>3. ASSUME NEW T
      PROVE  /\ Select(q, T) = Select(a, T) \o (Select(<<u>>, T) \o Select(b, T))
             /\ Select(Remove(q, u), T) = Select(a, T) \o Select(b, T)
             /\ Select(a, T) \in Seq(Uses) /\ Select(b, T) \in Seq(Uses)
             /\ Select(<<u>>, T) = IF u \in T THEN <<u>> ELSE <<>>
  <2>1. Select(<<u>> \o b, T) = Select(<<u>>, T) \o Select(b, T)
    BY <1>2, SelectConcat
  <2>2. Select(a \o (<<u>> \o b), T) = Select(a, T) \o Select(<<u>> \o b, T)
    BY <1>2, SelectConcat
  <2>3. Select(a \o b, T) = Select(a, T) \o Select(b, T)
    BY SelectConcat
  <2>4. Select(Append(<<>>, u), T) = IF u \in T THEN Append(Select(<<>>, T), u) ELSE Select(<<>>, T)
    BY EmptySeq, SelectAppend
  <2>5. Append(<<>>, u) = <<u>>
    OBVIOUS
  <2>6. QED
    BY <1>1, <2>1, <2>2, <2>3, <2>4, <2>5, SelectEmpty, SelectTyped
<1>4. ASSUME NEW r \in Seq(Uses), ~ Occurs(r, u)
      PROVE  Select(r, S \ {u}) = Select(r, S)
  <2>1. \A i \in 1..Len(r) : r[i] \in S \ {u} <=> r[i] \in S
    BY <1>4 DEF Occurs
  <2>2. QED
    BY <2>1, SelectSame
<1>5. ASSUME u \notin S
      PROVE  Select(Remove(q, u), S) = Select(q, S)
  <2>1. Select(b, S) \in Seq(Uses)
    BY SelectTyped
  <2>2. <<>> \o Select(b, S) = Select(b, S)
    BY <2>1, ConcatEmptySeq
  <2>3. Select(q, S) = Select(a, S) \o (<<>> \o Select(b, S))
    BY <1>3, <1>5
  <2>4. QED
    BY <1>3, <2>2, <2>3
<1>6. ASSUME u \in S
      PROVE  /\ Select(q, S) = Select(a, S) \o (<<u>> \o Select(b, S))
             /\ Select(q, S \ {u}) = Select(a, S) \o Select(b, S)
             /\ Select(Remove(q, u), S \ {u}) = Select(a, S) \o Select(b, S)
             /\ ~ Occurs(Select(a, S), u)
             /\ q[1] = u => Select(a, S) = <<>>
  <2>1. Select(a, S \ {u}) = Select(a, S) /\ Select(b, S \ {u}) = Select(b, S)
    BY <1>1, <1>4
  <2>2. Select(q, S) = Select(a, S) \o (<<u>> \o Select(b, S))
    BY <1>3, <1>6
  <2>3. Select(Remove(q, u), S \ {u}) = Select(a, S) \o Select(b, S)
    BY <1>3, <2>1
  <2>4. Select(q, S \ {u}) = Select(a, S) \o Select(b, S)
    <3>1. Select(<<u>>, S \ {u}) = <<>>
      BY <1>3
    <3>2. Select(b, S) \in Seq(Uses)
      BY SelectTyped
    <3>3. <<>> \o Select(b, S) = Select(b, S)
      BY <3>2, ConcatEmptySeq
    <3>4. QED
      BY <1>3, <2>1, <3>1, <3>3
  <2>5. ~ Occurs(Select(a, S), u)
    BY <1>1, SelectMembers
  <2>6. q[1] = u => Select(a, S) = <<>>
    BY <1>1, SelectEmpty
  <2>7. QED
    BY <2>2, <2>3, <2>4, <2>5, <2>6
<1>7. QED
  BY <1>3, <1>5, <1>6

-----------------------------------------------------------------------------
(* LockRegistry implements SessionLock.                                     *)

\* Nothing is selected exactly when nothing of S is in the queue.
LEMMA SelectNone ==
    ASSUME NEW q \in Seq(Uses), NEW S
    PROVE  Select(q, S) = <<>> <=> \A i \in 1..Len(q) : q[i] \notin S
<1>1. Select(q, S) \in Seq(Uses)
  BY SelectTyped
<1>2. ASSUME Select(q, S) # <<>>
      PROVE  \E i \in 1..Len(q) : q[i] \in S
  <2>1. Len(Select(q, S)) \in Nat \ {0} /\ 1 \in 1..Len(Select(q, S))
    BY <1>1, <1>2, EmptySeq
  <2>2. Select(q, S)[1] \in Uses
    BY <1>1, <2>1, ElementOfSeq
  <2>3. Occurs(Select(q, S), Select(q, S)[1])
    BY <2>1 DEF Occurs
  <2>4. Select(q, S)[1] \in S /\ Occurs(q, Select(q, S)[1])
    BY <2>2, <2>3, SelectMembers
  <2>5. QED
    BY <2>4 DEF Occurs
<1>3. ASSUME NEW i \in 1..Len(q), q[i] \in S
      PROVE  Select(q, S) # <<>>
  <2>1. q[i] \in Uses /\ Occurs(q, q[i])
    BY ElementOfSeq DEF Occurs
  <2>2. Occurs(Select(q, S), q[i])
    BY <1>3, <2>1, SelectMembers
  <2>3. QED
    BY <2>2, EmptySeq DEF Occurs
<1>4. QED
  BY <1>2, <1>3

\* The head of two queues in a row is the head of the first, if that has one.
LEMMA ConcatHead ==
    ASSUME NEW a \in Seq(Uses), NEW b \in Seq(Uses), a # <<>>
    PROVE  /\ a \o b # <<>>
           /\ Head(a \o b) = Head(a)
           /\ Tail(a \o b) = Tail(a) \o b
           /\ Tail(a) \in Seq(Uses)
<1>1. /\ Len(a) \in Nat \ {0} /\ Len(b) \in Nat /\ a \o b \in Seq(Uses)
      /\ Len(a \o b) = Len(a) + Len(b)
      /\ \A i \in 1..(Len(a) + Len(b)) :
            (a \o b)[i] = IF i <= Len(a) THEN a[i] ELSE b[i - Len(a)]
  BY EmptySeq, LenProperties, ConcatProperties
<1>2. /\ Tail(a) \in Seq(Uses) /\ Len(Tail(a)) = Len(a) - 1
      /\ \A i \in 1..(Len(a) - 1) : Tail(a)[i] = a[i + 1]
  BY <1>1, HeadTailProperties
<1>3. a \o b # <<>>
  BY <1>1, EmptySeq
<1>4. /\ Tail(a \o b) \in Seq(Uses) /\ Len(Tail(a \o b)) = Len(a) + Len(b) - 1
      /\ \A i \in 1..(Len(a) + Len(b) - 1) : Tail(a \o b)[i] = (a \o b)[i + 1]
  BY <1>1, <1>3, HeadTailProperties
<1>5. /\ Tail(a) \o b \in Seq(Uses)
      /\ Len(Tail(a) \o b) = Len(a) - 1 + Len(b)
      /\ \A i \in 1..(Len(a) - 1 + Len(b)) :
            (Tail(a) \o b)[i] = IF i <= Len(a) - 1 THEN Tail(a)[i] ELSE b[i - (Len(a) - 1)]
  BY <1>1, <1>2, ConcatProperties
<1>6. \A i \in 1..(Len(a) + Len(b) - 1) : Tail(a \o b)[i] = (Tail(a) \o b)[i]
  <2>1. ASSUME NEW i \in 1..(Len(a) + Len(b) - 1)
        PROVE  Tail(a \o b)[i] = (Tail(a) \o b)[i]
    <3>1. (a \o b)[i + 1] = IF i + 1 <= Len(a) THEN a[i + 1] ELSE b[(i + 1) - Len(a)]
      BY <1>1
    <3>2. (i + 1) - Len(a) = i - (Len(a) - 1)
      BY <1>1
    <3>3. CASE i <= Len(a) - 1
      BY <3>1, <3>3, <1>1, <1>2, <1>4, <1>5
    <3>4. CASE ~ (i <= Len(a) - 1)
      BY <3>1, <3>2, <3>4, <1>1, <1>4, <1>5
    <3>5. QED
      BY <3>3, <3>4
  <2>2. QED
    BY <2>1
<1>7. Tail(a \o b) = Tail(a) \o b
  BY <1>1, <1>4, <1>5, <1>6, SeqEqual
<1>8. Head(a \o b) = Head(a)
  <2>1. Head(a \o b) = (a \o b)[1] /\ Head(a) = a[1]
    BY <1>1, <1>3
  <2>2. (a \o b)[1] = a[1]
    BY <1>1
  <2>3. QED
    BY <2>1, <2>2
<1>9. QED
  BY <1>2, <1>3, <1>7, <1>8

\* The queue of SessionLock without one task.
LEMMA WithoutMiddle ==
    ASSUME NEW a \in Seq(Uses), NEW b \in Seq(Uses), NEW u \in Uses
    PROVE  \E i \in 1..Len(a \o (<<u>> \o b)) :
              /\ (a \o (<<u>> \o b))[i] = u
              /\ Abstract!Without(a \o (<<u>> \o b), i) = a \o b
<1> DEFINE c == <<u>> \o b
           q == a \o c
           i == Len(a) + 1
<1>1. /\ <<u>> \in Seq(Uses) /\ Len(<<u>>) = 1 /\ Len(a) \in Nat /\ Len(b) \in Nat
  BY LenProperties
<1>2. /\ c \in Seq(Uses) /\ Len(c) = 1 + Len(b)
      /\ \A j \in 1..(1 + Len(b)) : c[j] = IF j <= 1 THEN <<u>>[j] ELSE b[j - 1]
  BY <1>1, ConcatProperties
<1> HIDE DEF c
<1>3. /\ q \in Seq(Uses) /\ Len(q) = Len(a) + Len(c)
      /\ \A j \in 1..(Len(a) + Len(c)) : q[j] = IF j <= Len(a) THEN a[j] ELSE c[j - Len(a)]
  BY <1>2, ConcatProperties
<1> HIDE DEF q
<1>4. i \in 1..Len(q) /\ q[i] = u
  BY <1>1, <1>2, <1>3
<1>5. SubSeq(q, 1, i - 1) = a
  <2> DEFINE x == SubSeq(q, 1, i - 1)
  <2>1. /\ x \in Seq(Uses) /\ Len(x) = Len(a) /\ \A j \in 1..Len(a) : x[j] = q[j]
    BY <1>1, <1>2, <1>3
  <2> HIDE DEF x
  <2>2. \A j \in 1..Len(a) : x[j] = a[j]
    BY <1>1, <1>2, <1>3, <2>1
  <2>3. QED
    BY <2>1, <2>2, SeqEqual DEF x
<1>6. SubSeq(q, i + 1, Len(q)) = b
  <2> DEFINE x == SubSeq(q, i + 1, Len(q))
  <2>1. /\ x \in Seq(Uses) /\ Len(x) = Len(b) /\ \A j \in 1..Len(b) : x[j] = q[j + i]
    BY <1>1, <1>2, <1>3
  <2> HIDE DEF x
  <2>2. ASSUME NEW j \in 1..Len(b)
        PROVE  x[j] = b[j]
    <3>1. j + i \in 1..(Len(a) + Len(c)) /\ ~ (j + i <= Len(a)) /\ (j + i) - Len(a) = j + 1
      BY <1>1, <1>2
    <3>2. q[j + i] = c[j + 1]
      BY <3>1, <1>3
    <3>3. c[j + 1] = b[j]
      BY <1>1, <1>2, (j + 1) - 1 = j, ~ (j + 1 <= 1), j + 1 \in 1..(1 + Len(b))
    <3>4. QED
      BY <2>1, <3>2, <3>3
  <2>3. QED
    BY <2>1, <2>2, SeqEqual DEF x
<1>7. Abstract!Without(q, i) = a \o b
  BY <1>5, <1>6 DEF Abstract!Without
<1>8. QED
  BY <1>4, <1>7 DEF q, c

\* The owner and the queue of a session by whether its lock has a holder.
View ==
    \A s \in Sessions :
        /\ locks[s] = None => OwnerOf(s) = None /\ QueueOf(s) = <<>>
        /\ \A h \in Uses : locks[s] # None /\ Holders(locks[s]) = {h} =>
              OwnerOf(s) = h /\ QueueOf(s) = LiveWaiters(locks[s])
        /\ locks[s] # None /\ Holders(locks[s]) = {} =>
              IF LiveWaiters(locks[s]) = <<>>
              THEN OwnerOf(s) = None /\ QueueOf(s) = <<>>
              ELSE /\ OwnerOf(s) = Head(LiveWaiters(locks[s]))
                   /\ QueueOf(s) = Tail(LiveWaiters(locks[s]))

\* The cases are those of OwnerOf and QueueOf.
LEMMA ViewHolds == View
<1>1. ASSUME NEW s \in Sessions, NEW h \in Uses, locks[s] # None, Holders(locks[s]) = {h}
      PROVE  OwnerOf(s) = h /\ QueueOf(s) = LiveWaiters(locks[s])
  <2>1. (CHOOSE u \in {h} : TRUE) = h
    OBVIOUS
  <2>2. {h} # {}
    OBVIOUS
  <2>3. QED
    BY <1>1, <2>1, <2>2 DEF OwnerOf, QueueOf
<1>2. QED
  BY <1>1 DEF View, OwnerOf, QueueOf

\* The same after a step.
LEMMA ViewHoldsThen == View'
BY ViewHolds, PTL

\* A step that touches the lock of one session is not seen at another.
LEMMA Elsewhere ==
    ASSUME QueueInv, NEW s \in Sessions, NEW l \in Uses,
           \A x \in Sessions \ {s} : locks'[x] = locks[x] /\ locks[x] # l,
           \A m \in Uses \ {l} : waiters'[m] = waiters[m],
           \A v \in Uses : mine'[v] = l \/ (stage'[v] = stage[v] /\ mine'[v] = mine[v]),
           \A v \in Uses : stage[v] # "new" => mine'[v] = mine[v]
    PROVE  \A x \in Sessions \ {s} : OwnerOf(x)' = OwnerOf(x) /\ QueueOf(x)' = QueueOf(x)
<1> TAKE x \in Sessions \ {s}
<1>1. CASE locks[x] = None
  BY <1>1 DEF OwnerOf, QueueOf
<1>2. ASSUME NEW m \in Uses, m = locks[x]
      PROVE  OwnerOf(x)' = OwnerOf(x) /\ QueueOf(x)' = QueueOf(x)
  <2>1. m # None /\ m # l /\ locks'[x] = m /\ waiters'[m] = waiters[m]
    BY <1>2, RegistryAssumption
  <2>2. ASSUME NEW v \in Uses, stage[v] # "new", mine[v] = m
        PROVE  stage'[v] = stage[v]
    BY <2>1, <2>2
  <2>3. Holders(m)' = Holders(m)
    BY <2>1, <2>2 DEF Holders
  <2>4. LiveWaiters(m)' = LiveWaiters(m)
    <3>1. waiters[m] \in Seq(Uses)
      BY DEF QueueInv, RegistryInv, TypeOK
    <3>2. ASSUME NEW i \in 1..Len(waiters[m])
          PROVE  waiters[m][i] \in Live <=> waiters[m][i] \in Live'
      <4>1. waiters[m][i] \in Uses
        BY <3>1, ElementOfSeq
      <4>2. stage[waiters[m][i]] \in Waiting /\ mine[waiters[m][i]] = m
        BY DEF QueueInv, RegistryInv, QueueOK
      <4>3. stage'[waiters[m][i]] = stage[waiters[m][i]]
        BY <2>2, <4>1, <4>2 DEF Waiting
      <4>4. QED
        BY <4>1, <4>3 DEF Live
    <3>3. Select(waiters[m], Live) = Select(waiters[m], Live')
      <4> DEFINE T == Live'
      <4>1. \A i \in 1..Len(waiters[m]) : waiters[m][i] \in Live <=> waiters[m][i] \in T
        BY <3>2
      <4> HIDE DEF T
      <4>2. Select(waiters[m], Live) = Select(waiters[m], T)
        BY <3>1, <4>1, SelectSame
      <4>3. QED
        BY <4>2 DEF T
    <3>4. QED
      BY <2>1, <3>3 DEF LiveWaiters
  <2>5. QED
    BY <1>2, <2>1, <2>3, <2>4 DEF OwnerOf, QueueOf
<1>3. QED
  BY <1>1, <1>2 DEF QueueInv, RegistryInv, TypeOK

\* The steps of SessionLock, told by what they do to the one session they touch.
LEMMA AbstractSteps ==
    ASSUME NEW s \in Sessions, NEW u \in Uses,
           \A x \in Sessions \ {s} : OwnerOf(x)' = OwnerOf(x) /\ QueueOf(x)' = QueueOf(x)
    PROVE  /\ OwnerOf(s) = None /\ OwnerOf(s)' = u /\ QueueOf(s)' = QueueOf(s)
                => Abstract!RequestLock(u, s)
           /\ OwnerOf(s) # None /\ OwnerOf(s)' = OwnerOf(s) /\ QueueOf(s)' = Append(QueueOf(s), u)
                => Abstract!RequestLock(u, s)
           /\ (/\ OwnerOf(s)' = IF QueueOf(s) = <<>> THEN None ELSE Head(QueueOf(s))
               /\ QueueOf(s)' = IF QueueOf(s) = <<>> THEN <<>> ELSE Tail(QueueOf(s)))
                => Abstract!ReleaseLock(s)
           /\ (/\ \E i \in 1..Len(QueueOf(s)) :
                     QueueOf(s)[i] = u /\ QueueOf(s)' = Abstract!Without(QueueOf(s), i)
               /\ OwnerOf(s)' = OwnerOf(s))
                => Abstract!LeaveQueue(u, s)
           /\ OwnerOf(s)' = OwnerOf(s) /\ QueueOf(s)' = QueueOf(s)
                => UNCHANGED Abstract!lockVars
<1> DEFINE owners == [x \in Sessions |-> OwnerOf(x)]
           queues == [x \in Sessions |-> QueueOf(x)]
<1>1. owners' = [owners EXCEPT ![s] = OwnerOf(s)'] /\ queues' = [queues EXCEPT ![s] = QueueOf(s)']
  OBVIOUS
<1>2. owners[s] = OwnerOf(s) /\ queues[s] = QueueOf(s)
  OBVIOUS
<1>3. /\ OwnerOf(s)' = OwnerOf(s) => owners' = owners
      /\ QueueOf(s)' = QueueOf(s) => queues' = queues
  OBVIOUS
<1> HIDE DEF owners, queues
<1>4. OwnerOf(s) = None /\ OwnerOf(s)' = u /\ QueueOf(s)' = QueueOf(s)
          => Abstract!RequestLock(u, s)
  BY <1>1, <1>2, <1>3 DEF Abstract!RequestLock, owners, queues
<1>5. OwnerOf(s) # None /\ OwnerOf(s)' = OwnerOf(s) /\ QueueOf(s)' = Append(QueueOf(s), u)
          => Abstract!RequestLock(u, s)
  BY <1>1, <1>2, <1>3 DEF Abstract!RequestLock, owners, queues
<1>6. (/\ OwnerOf(s)' = IF QueueOf(s) = <<>> THEN None ELSE Head(QueueOf(s))
       /\ QueueOf(s)' = IF QueueOf(s) = <<>> THEN <<>> ELSE Tail(QueueOf(s)))
          => Abstract!ReleaseLock(s)
  BY <1>1, <1>2, <1>3 DEF Abstract!ReleaseLock, Abstract!HandOver, owners, queues
<1>7. ASSUME NEW i \in 1..Len(QueueOf(s)), QueueOf(s)[i] = u,
             QueueOf(s)' = Abstract!Without(QueueOf(s), i), OwnerOf(s)' = OwnerOf(s)
      PROVE  Abstract!LeaveQueue(u, s)
  BY <1>1, <1>2, <1>3, <1>7 DEF Abstract!LeaveQueue, owners, queues
<1>8. OwnerOf(s)' = OwnerOf(s) /\ QueueOf(s)' = QueueOf(s) => UNCHANGED Abstract!lockVars
  BY <1>3 DEF Abstract!lockVars, owners, queues
<1>9. QED
  BY <1>4, <1>5, <1>6, <1>7, <1>8

\* A use that is active is a user of its session's lock, and its queue is of such uses.
LEMMA OneLock ==
    ASSUME QueueInv, NEW u \in Uses, stage[u] \in Active
    PROVE  /\ session[u] \in Sessions /\ mine[u] \in Uses /\ mine[u] # None
           /\ locks[session[u]] = mine[u]
           /\ \A x \in Sessions \ {session[u]} : locks[x] # mine[u]
           /\ waiters[mine[u]] \in Seq(Uses) /\ Distinct(waiters[mine[u]])
           /\ \A v \in Uses : Occurs(waiters[mine[u]], v) =>
                 stage[v] \in Waiting /\ mine[v] = mine[u] /\ session[v] = session[u]
           /\ \A v \in Holders(mine[u]) : locked[mine[u]] /\ Holders(mine[u]) = {v}
           /\ locked[mine[u]] => Holders(mine[u]) # {}
<1>1. session[u] \in Sessions /\ mine[u] \in Uses /\ locks[session[u]] = mine[u]
  BY DEF QueueInv, RegistryInv, LinkOK
<1>2. \A x \in Sessions : locks[x] = mine[u] => x = session[u]
  BY <1>1, RegistryAssumption DEF QueueInv, RegistryInv, ObjectOK
<1>3. ASSUME NEW v \in Uses, Occurs(waiters[mine[u]], v)
      PROVE  stage[v] \in Waiting /\ mine[v] = mine[u] /\ session[v] = session[u]
  <2>1. stage[v] \in Waiting /\ mine[v] = mine[u]
    BY <1>1, <1>3 DEF Occurs, QueueInv, RegistryInv, QueueOK
  <2>2. session[v] \in Sessions /\ mine[v] = locks[session[v]]
    BY <2>1 DEF QueueInv, RegistryInv, LinkOK, Active
  <2>3. QED
    BY <1>2, <2>1, <2>2
<1>4. \A v \in Holders(mine[u]) : locked[mine[u]] /\ Holders(mine[u]) = {v}
  BY DEF Holders, QueueInv, RegistryInv, HolderOK
<1>5. locked[mine[u]] => Holders(mine[u]) # {}
  BY <1>1 DEF Holders, QueueInv, HeldOK
<1>6. QED
  BY <1>1, <1>2, <1>3, <1>4, <1>5, RegistryAssumption DEF QueueInv, RegistryInv, TypeOK, QueueOK

\* The resumption of a waiter is not seen: the lock was handed to it when it was released.
LEMMA ResumeIsSilent ==
    ASSUME QueueInv, QueueInv', NEW u \in Uses, Resume(u)
    PROVE  UNCHANGED Abstract!lockVars
<1>1. /\ stage[u] = "woken" /\ stage[u] \in Active /\ stage[u] \in Waiting
  BY DEF Resume, Active, Waiting
<1>2. PICK s \in Sessions, l \in Uses :
          /\ s = session[u] /\ l = mine[u] /\ l # None /\ locks[s] = l
          /\ \A x \in Sessions \ {s} : locks[x] # l
          /\ waiters[l] \in Seq(Uses) /\ Distinct(waiters[l])
          /\ \A v \in Holders(l) : locked[l]
  BY <1>1, OneLock, ZenonT(40)
<1>3. ~ locked[l] /\ waiters[l] # <<>> /\ waiters[l][1] = u /\ Occurs(waiters[l], u)
  BY <1>1, <1>2 DEF QueueInv, RegistryInv, HolderOK, QueueOK
<1>4. /\ waiters' = [waiters EXCEPT ![l] = Remove(@, u)]
      /\ stage' = [stage EXCEPT ![u] = "holding"]
      /\ UNCHANGED <<locks, mine>>
  BY <1>2 DEF Resume
<1>5. \A x \in Sessions \ {s} : OwnerOf(x)' = OwnerOf(x) /\ QueueOf(x)' = QueueOf(x)
  <2>1. \A m \in Uses \ {l} : waiters'[m] = waiters[m]
    BY <1>4 DEF QueueInv, RegistryInv, TypeOK
  <2>2. \A v \in Uses : mine'[v] = l \/ (stage'[v] = stage[v] /\ mine'[v] = mine[v])
    BY <1>2, <1>4 DEF QueueInv, RegistryInv, TypeOK
  <2>3. QED
    BY <1>2, <1>4, <2>1, <2>2, Elsewhere
<1>6. u \in Live /\ Live' = Live \ {u}
  BY <1>1, <1>4 DEF Live, QueueInv, RegistryInv, TypeOK
<1>7. PICK b \in Seq(Uses) : LiveWaiters(l) = <<u>> \o b /\ LiveWaiters(l)' = b
  <2>1. PICK a, b \in Seq(Uses) :
            /\ Select(waiters[l], Live) = a \o (<<u>> \o b)
            /\ Select(Remove(waiters[l], u), Live \ {u}) = a \o b
            /\ waiters[l][1] = u => a = <<>>
    <3> DEFINE q == waiters[l]
               S == Live
    <3>1. q \in Seq(Uses) /\ Occurs(q, u) /\ Distinct(q) /\ u \in S
      BY <1>2, <1>3, <1>6
    <3> HIDE DEF q, S
    <3>2. \E a, b \in Seq(Uses) :
              /\ Select(q, S) = a \o (<<u>> \o b)
              /\ Select(q, S \ {u}) = a \o b
              /\ Select(Remove(q, u), S \ {u}) = a \o b
              /\ ~ Occurs(a, u)
              /\ q[1] = u => a = <<>>
      BY <3>1, SelectRemove
    <3>3. QED
      BY <3>2 DEF q, S
  <2>2. a = <<>>
    BY <1>3, <2>1
  <2>3. <<u>> \o b \in Seq(Uses)
    BY ConcatProperties
  <2>4. a \o (<<u>> \o b) = <<u>> \o b /\ a \o b = b
    BY <2>2, <2>3, ConcatEmptySeq
  <2>5. LiveWaiters(l)' = Select(Remove(waiters[l], u), Live \ {u})
    BY <1>2, <1>4, <1>6 DEF LiveWaiters, QueueInv, RegistryInv, TypeOK
  <2>6. QED
    BY <2>1, <2>4, <2>5 DEF LiveWaiters
<1>8. LiveWaiters(l) # <<>> /\ Head(LiveWaiters(l)) = u /\ Tail(LiveWaiters(l)) = b
  <2>1. <<u>> \in Seq(Uses) /\ <<u>> # <<>> /\ Head(<<u>>) = u /\ Tail(<<u>>) = <<>>
    OBVIOUS
  <2>2. QED
    BY <1>7, <2>1, ConcatHead, ConcatEmptySeq
<1>9. OwnerOf(s) = u /\ QueueOf(s) = b
  <2>1. Holders(l) = {}
    BY <1>2, <1>3
  <2>2. QED
    BY <1>2, <1>8, <2>1, ViewHolds DEF View
<1>10. OwnerOf(s)' = u /\ QueueOf(s)' = b
  <2>1. Holders(l)' = {u}
    BY <1>2, <1>4 DEF Holders, QueueInv, RegistryInv, TypeOK, HolderOK
  <2>2. locks'[s] = l
    BY <1>2, <1>4
  <2>3. QED
    BY <1>2, <1>7, <2>1, <2>2, ViewHoldsThen DEF View
<1>11. QED
  BY <1>5, <1>9, <1>10, AbstractSteps

\* A waiter that is cancelled leaves the queue, or hands on the lock it was about to get.
LEMMA CancelIsLeaving ==
    ASSUME QueueInv, QueueInv', NEW u \in Uses, CancelWaiter(u)
    PROVE  \E s \in Sessions :
              \/ OwnerOf(s) = u /\ Abstract!ReleaseLock(s)
              \/ Abstract!LeaveQueue(u, s)
<1>1. stage[u] \in {"pending", "woken"} /\ stage[u] \in Active /\ stage[u] \in Waiting
  BY DEF CancelWaiter, Active, Waiting
<1>2. PICK s \in Sessions, l \in Uses :
          /\ s = session[u] /\ l = mine[u] /\ l # None /\ locks[s] = l
          /\ \A x \in Sessions \ {s} : locks[x] # l
          /\ waiters[l] \in Seq(Uses) /\ Distinct(waiters[l])
          /\ \A v \in Holders(l) : Holders(l) = {v}
  BY <1>1, OneLock
<1>3. Occurs(waiters[l], u)
  BY <1>1, <1>2 DEF QueueInv, RegistryInv, QueueOK
<1>4. /\ UNCHANGED <<locks, waiters, mine>>
      /\ \A v \in Uses \ {u} : stage'[v] = stage[v]
      /\ stage'[u] \in {"cancelled", "doomed"}
  BY DEF CancelWaiter, QueueInv, RegistryInv, TypeOK
<1>5. \A x \in Sessions \ {s} : OwnerOf(x)' = OwnerOf(x) /\ QueueOf(x)' = QueueOf(x)
  <2>1. \A v \in Uses : mine'[v] = l \/ (stage'[v] = stage[v] /\ mine'[v] = mine[v])
    BY <1>2, <1>4
  <2>2. QED
    BY <1>2, <1>4, <2>1, Elsewhere
<1>6. u \in Live /\ Live' = Live \ {u}
  BY <1>1, <1>4 DEF Live
<1>7. PICK a, b \in Seq(Uses) :
          /\ LiveWaiters(l) = a \o (<<u>> \o b)
          /\ LiveWaiters(l)' = a \o b
          /\ ~ Occurs(a, u)
  <2> DEFINE q == waiters[l]
             S == Live
  <2>1. q \in Seq(Uses) /\ Occurs(q, u) /\ Distinct(q) /\ u \in S
    BY <1>2, <1>3, <1>6
  <2> HIDE DEF q, S
  <2>2. \E a, b \in Seq(Uses) :
            /\ Select(q, S) = a \o (<<u>> \o b)
            /\ Select(q, S \ {u}) = a \o b
            /\ Select(Remove(q, u), S \ {u}) = a \o b
            /\ ~ Occurs(a, u)
            /\ q[1] = u => a = <<>>
    BY <2>1, SelectRemove
  <2>3. LiveWaiters(l) = Select(q, S)
    BY DEF LiveWaiters, q, S
  <2>4. LiveWaiters(l)' = Select(q, S \ {u})
    BY <1>4, <1>6 DEF LiveWaiters, q, S
  <2>5. QED
    BY <2>2, <2>3, <2>4
<1>8. Holders(l)' = Holders(l) /\ locks'[s] = l
  BY <1>1, <1>2, <1>4 DEF Holders
<1>9. <<u>> \o b \in Seq(Uses) /\ <<u>> \o b # <<>> /\ Head(<<u>> \o b) = u /\ Tail(<<u>> \o b) = b
  <2>1. <<u>> \in Seq(Uses) /\ <<u>> # <<>> /\ Head(<<u>>) = u /\ Tail(<<u>>) = <<>>
    OBVIOUS
  <2>2. QED
    BY <2>1, ConcatHead, ConcatEmptySeq, ConcatProperties
<1>10. CASE Holders(l) # {}
  <2>1. PICK h \in Uses : Holders(l) = {h}
    BY <1>2, <1>10 DEF Holders
  <2>2. OwnerOf(s) = h /\ QueueOf(s) = a \o (<<u>> \o b)
    BY <1>2, <1>7, <2>1, ViewHolds DEF View
  <2>3. OwnerOf(s)' = h /\ QueueOf(s)' = a \o b
    BY <1>2, <1>7, <1>8, <2>1, ViewHoldsThen DEF View
  <2>4. \E i \in 1..Len(a \o (<<u>> \o b)) :
            /\ (a \o (<<u>> \o b))[i] = u
            /\ Abstract!Without(a \o (<<u>> \o b), i) = a \o b
    BY WithoutMiddle
  <2>5. \E i \in 1..Len(QueueOf(s)) :
            QueueOf(s)[i] = u /\ QueueOf(s)' = Abstract!Without(QueueOf(s), i)
    BY <2>2, <2>3, <2>4
  <2>6. QED
    BY <1>5, <2>2, <2>3, <2>5, AbstractSteps
<1>11. CASE Holders(l) = {} /\ a = <<>>
  <2>1. LiveWaiters(l) = <<u>> \o b /\ LiveWaiters(l)' = b
    BY <1>7, <1>9, <1>11, ConcatEmptySeq
  <2>2. OwnerOf(s) = u /\ QueueOf(s) = b
    BY <1>2, <1>9, <1>11, <2>1, ViewHolds DEF View
  <2>3. IF b = <<>> THEN OwnerOf(s)' = None /\ QueueOf(s)' = <<>>
        ELSE OwnerOf(s)' = Head(b) /\ QueueOf(s)' = Tail(b)
    BY <1>2, <1>8, <1>11, <2>1, ViewHoldsThen DEF View
  <2>4. Abstract!ReleaseLock(s)
    BY <1>5, <2>2, <2>3, AbstractSteps
  <2>5. QED
    BY <2>2, <2>4
<1>12. CASE Holders(l) = {} /\ a # <<>>
  <2> DEFINE c == <<u>> \o b
  <2>1. c \in Seq(Uses)
    BY <1>9
  <2> HIDE DEF c
  <2>2. /\ a \o c # <<>> /\ Head(a \o c) = Head(a) /\ Tail(a \o c) = Tail(a) \o c
        /\ a \o b # <<>> /\ Head(a \o b) = Head(a) /\ Tail(a \o b) = Tail(a) \o b
        /\ Tail(a) \in Seq(Uses)
    BY <1>12, <2>1, ConcatHead
  <2>3. OwnerOf(s) = Head(a) /\ QueueOf(s) = Tail(a) \o (<<u>> \o b)
    BY <1>2, <1>7, <1>12, <2>2, ViewHolds DEF View, c
  <2>4. OwnerOf(s)' = Head(a) /\ QueueOf(s)' = Tail(a) \o b
    BY <1>2, <1>7, <1>8, <1>12, <2>2, ViewHoldsThen DEF View
  <2>5. \E i \in 1..Len(QueueOf(s)) :
            QueueOf(s)[i] = u /\ QueueOf(s)' = Abstract!Without(QueueOf(s), i)
    <3> DEFINE t == Tail(a)
    <3>1. t \in Seq(Uses)
      BY <2>2
    <3> HIDE DEF t
    <3>2. \E i \in 1..Len(t \o (<<u>> \o b)) :
              /\ (t \o (<<u>> \o b))[i] = u
              /\ Abstract!Without(t \o (<<u>> \o b), i) = t \o b
      BY <3>1, WithoutMiddle
    <3>3. QED
      BY <2>3, <2>4, <3>2 DEF t
  <2>6. QED
    BY <1>5, <2>3, <2>4, <2>5, AbstractSteps
<1>13. QED
  BY <1>10, <1>11, <1>12

\* Who abandons the lock has left its queue already.
LEMMA AbandonIsSilent ==
    ASSUME QueueInv, QueueInv', NEW u \in Uses, Abandon(u)
    PROVE  UNCHANGED Abstract!lockVars
<1>1. stage[u] \in {"cancelled", "doomed"} /\ stage[u] \in Active /\ stage[u] \in Waiting
  BY DEF Abandon, Active, Waiting
<1>2. PICK s \in Sessions, l \in Uses :
          /\ s = session[u] /\ l = mine[u] /\ l # None /\ locks[s] = l
          /\ \A x \in Sessions \ {s} : locks[x] # l
          /\ waiters[l] \in Seq(Uses) /\ Distinct(waiters[l])
          /\ \A v \in Uses : Occurs(waiters[l], v) => session[v] = s
          /\ \A v \in Holders(l) : Holders(l) = {v}
  <2>1. /\ session[u] \in Sessions /\ mine[u] \in Uses /\ mine[u] # None
        /\ locks[session[u]] = mine[u]
        /\ \A x \in Sessions \ {session[u]} : locks[x] # mine[u]
        /\ waiters[mine[u]] \in Seq(Uses) /\ Distinct(waiters[mine[u]])
        /\ \A v \in Uses : Occurs(waiters[mine[u]], v) => session[v] = session[u]
        /\ \A v \in Holders(mine[u]) : Holders(mine[u]) = {v}
    BY <1>1, OneLock
  <2>2. QED
    BY <2>1
<1>3. Occurs(waiters[l], u)
  BY <1>1, <1>2 DEF QueueInv, RegistryInv, QueueOK
<1>4. /\ Remove(waiters[l], u) \in Seq(Uses)
      /\ \A v \in Uses : v # u /\ Occurs(waiters[l], v) => Occurs(Remove(waiters[l], u), v)
  BY <1>2, <1>3, RemoveFacts
<1>5. /\ waiters' = [waiters EXCEPT ![l] = Remove(@, u)]
      /\ UNCHANGED <<session, mine>>
      /\ \A x \in Sessions \ {s} : locks'[x] = locks[x]
      /\ locks'[s] \in {l, None}
  BY <1>2 DEF Abandon, DropReference, QueueInv, RegistryInv, TypeOK
<1>6. /\ \A v \in Uses \ {u} : \/ stage'[v] = stage[v]
                               \/ stage[v] = "pending" /\ stage'[v] = "woken" /\ mine[v] = l
      /\ stage'[u] = "gone"
  <2> DEFINE q == Remove(waiters[l], u)
             w == IF locked[l] THEN stage ELSE WakeFirst(stage, q)
  <2>1. w \in [Uses -> Stages]
    BY <1>4, WakeFirstFacts DEF QueueInv, RegistryInv, TypeOK
  <2>2. ASSUME NEW v \in Uses
        PROVE  \/ w[v] = stage[v]
               \/ stage[v] = "pending" /\ w[v] = "woken" /\ mine[v] = l
    <3>1. CASE w[v] # stage[v]
      <4>1. q # <<>> /\ v = Head(q) /\ stage[v] = "pending" /\ w[v] = "woken"
        BY <3>1 DEF WakeFirst, QueueInv, RegistryInv, TypeOK
      <4>2. q[1] = v /\ 1 \in 1..Len(q)
        BY <1>4, <4>1, EmptySeq
      <4>3. mine[v] = l
        <5>1. Occurs(waiters[l], q[1])
          BY <1>2, <1>3, <4>2, RemoveFacts
        <5>2. QED
          BY <4>2, <5>1 DEF Occurs, QueueInv, RegistryInv, QueueOK
      <4>4. QED
        BY <4>1, <4>3
    <3>2. QED
      BY <3>1
  <2>3. stage' = [w EXCEPT ![u] = "gone"]
    BY <1>2 DEF Abandon
  <2> HIDE DEF w
  <2>4. QED
    BY <2>1, <2>2, <2>3
<1>7. \A x \in Sessions \ {s} : OwnerOf(x)' = OwnerOf(x) /\ QueueOf(x)' = QueueOf(x)
  <2>1. \A v \in Uses : mine'[v] = l \/ (stage'[v] = stage[v] /\ mine'[v] = mine[v])
    BY <1>2, <1>5, <1>6
  <2>2. \A m \in Uses \ {l} : waiters'[m] = waiters[m]
    BY <1>5 DEF QueueInv, RegistryInv, TypeOK
  <2>3. QED
    BY <1>2, <1>5, <2>1, <2>2, Elsewhere
<1>8. u \notin Live /\ Live' = Live
  BY <1>1, <1>6 DEF Live
<1>9. LiveWaiters(l)' = LiveWaiters(l)
  <2> DEFINE q == waiters[l]
             S == Live
  <2>1. q \in Seq(Uses) /\ Occurs(q, u) /\ Distinct(q) /\ u \notin S
    BY <1>2, <1>3, <1>8
  <2> HIDE DEF q, S
  <2>2. Select(Remove(q, u), S) = Select(q, S)
    BY <2>1, SelectRemove
  <2>3. waiters'[l] = Remove(q, u)
    BY <1>5 DEF q, QueueInv, RegistryInv, TypeOK
  <2>4. QED
    BY <1>8, <2>2, <2>3 DEF LiveWaiters, q, S
<1>10. Holders(l)' = Holders(l)
  BY <1>1, <1>5, <1>6 DEF Holders
<1>11. CASE locks'[s] = l
  <2>1. OwnerOf(s)' = OwnerOf(s) /\ QueueOf(s)' = QueueOf(s)
    BY <1>2, <1>9, <1>10, <1>11 DEF OwnerOf, QueueOf
  <2>2. QED
    BY <1>7, <2>1, AbstractSteps
<1>12. CASE locks'[s] = None
  <2>1. \A v \in Uses : stage'[v] \in Active => session[v] # s
    BY <1>5, <1>12 DEF QueueInv, RegistryInv, CountOK, Users
  <2>2. ASSUME NEW v \in Uses, v # u, stage[v] \in Active
        PROVE  stage'[v] \in Active
    BY <1>6, <2>2 DEF Active, Waiting
  <2>3. Holders(l) = {}
    <3>1. ASSUME NEW v \in Uses, stage[v] = "holding", mine[v] = l
          PROVE  FALSE
      <4>1. stage[v] \in Active /\ v # u
        BY <1>1, <3>1 DEF Active
      <4>2. session[v] = s
        BY <1>2, <3>1, <4>1, OneLock
      <4>3. QED
        BY <2>1, <2>2, <4>1, <4>2
    <3>2. QED
      BY <3>1 DEF Holders
  <2>4. LiveWaiters(l) = <<>>
    <3>1. ASSUME NEW i \in 1..Len(waiters[l]), waiters[l][i] \in Live
          PROVE  FALSE
      <4>1. waiters[l][i] \in Uses /\ Occurs(waiters[l], waiters[l][i])
        BY <1>2, ElementOfSeq DEF Occurs
      <4>2. waiters[l][i] # u /\ stage[waiters[l][i]] \in Active
        BY <1>8, <3>1 DEF Live, Active, Waiting
      <4>3. QED
        BY <1>2, <2>1, <2>2, <4>1, <4>2
    <3>2. QED
      BY <1>2, <3>1, SelectNone DEF LiveWaiters
  <2>5. OwnerOf(s) = None /\ QueueOf(s) = <<>>
    BY <1>2, <2>3, <2>4, ViewHolds DEF View
  <2>6. OwnerOf(s)' = None /\ QueueOf(s)' = <<>>
    BY <1>12, ViewHoldsThen DEF View
  <2>7. QED
    BY <1>7, <2>5, <2>6, AbstractSteps
<1>13. QED
  BY <1>5, <1>11, <1>12

\* A release hands the lock to the first that waits.
LEMMA LeaveIsRelease ==
    ASSUME QueueInv, QueueInv', NEW u \in Uses, Leave(u)
    PROVE  \E s \in Sessions : OwnerOf(s) = u /\ Abstract!ReleaseLock(s)
<1>1. stage[u] = "holding" /\ stage[u] \in Active
  BY DEF Leave, Active
<1>2. PICK s \in Sessions, l \in Uses :
          /\ s = session[u] /\ l = mine[u] /\ l # None /\ locks[s] = l
          /\ \A x \in Sessions \ {s} : locks[x] # l
          /\ waiters[l] \in Seq(Uses)
          /\ \A v \in Uses : Occurs(waiters[l], v) =>
                stage[v] \in Waiting /\ mine[v] = l /\ session[v] = s
          /\ \A v \in Holders(l) : Holders(l) = {v}
  <2>1. /\ session[u] \in Sessions /\ mine[u] \in Uses /\ mine[u] # None
        /\ locks[session[u]] = mine[u]
        /\ \A x \in Sessions \ {session[u]} : locks[x] # mine[u]
        /\ waiters[mine[u]] \in Seq(Uses)
        /\ \A v \in Uses : Occurs(waiters[mine[u]], v) =>
              stage[v] \in Waiting /\ mine[v] = mine[u] /\ session[v] = session[u]
        /\ \A v \in Holders(mine[u]) : Holders(mine[u]) = {v}
    BY <1>1, OneLock
  <2>2. QED
    BY <2>1
<1>3. /\ UNCHANGED <<waiters, session, mine>>
      /\ \A x \in Sessions \ {s} : locks'[x] = locks[x]
      /\ locks'[s] \in {l, None}
  BY <1>2 DEF Leave, DropReference, QueueInv, RegistryInv, TypeOK
<1>4. /\ \A v \in Uses \ {u} : \/ stage'[v] = stage[v]
                               \/ stage[v] = "pending" /\ stage'[v] = "woken" /\ mine[v] = l
      /\ stage'[u] = "gone"
  <2> DEFINE q == waiters[l]
             w == WakeFirst(stage, q)
  <2>1. w \in [Uses -> Stages]
    BY <1>2, WakeFirstFacts DEF QueueInv, RegistryInv, TypeOK
  <2>2. ASSUME NEW v \in Uses
        PROVE  \/ w[v] = stage[v]
               \/ stage[v] = "pending" /\ w[v] = "woken" /\ mine[v] = l
    <3>1. CASE w[v] # stage[v]
      <4>1. q # <<>> /\ v = Head(q) /\ stage[v] = "pending" /\ w[v] = "woken"
        BY <3>1 DEF WakeFirst, QueueInv, RegistryInv, TypeOK
      <4>2. q[1] = v /\ 1 \in 1..Len(q)
        BY <1>2, <4>1, EmptySeq
      <4>3. mine[v] = l
        BY <1>2, <4>2 DEF Occurs
      <4>4. QED
        BY <4>1, <4>3
    <3>2. QED
      BY <3>1
  <2>3. stage' = [w EXCEPT ![u] = "gone"]
    BY <1>2 DEF Leave
  <2> HIDE DEF w
  <2>4. QED
    BY <2>1, <2>2, <2>3
<1>5. \A x \in Sessions \ {s} : OwnerOf(x)' = OwnerOf(x) /\ QueueOf(x)' = QueueOf(x)
  <2>1. \A v \in Uses : mine'[v] = l \/ (stage'[v] = stage[v] /\ mine'[v] = mine[v])
    BY <1>2, <1>3, <1>4
  <2>2. QED
    BY <1>2, <1>3, <2>1, Elsewhere
<1>6. Live' = Live
  BY <1>1, <1>4 DEF Live
<1>7. LiveWaiters(l)' = LiveWaiters(l)
  BY <1>3, <1>6 DEF LiveWaiters
<1>8. Holders(l) = {u} /\ Holders(l)' = {}
  <2>1. Holders(l) = {u}
    BY <1>1, <1>2 DEF Holders
  <2>2. QED
    BY <1>3, <1>4, <2>1 DEF Holders
<1>9. OwnerOf(s) = u /\ QueueOf(s) = LiveWaiters(l)
  BY <1>2, <1>8, ViewHolds DEF View
<1>10. IF LiveWaiters(l) = <<>> THEN OwnerOf(s)' = None /\ QueueOf(s)' = <<>>
       ELSE OwnerOf(s)' = Head(LiveWaiters(l)) /\ QueueOf(s)' = Tail(LiveWaiters(l))
  <2>1. CASE locks'[s] = l
    BY <1>2, <1>7, <1>8, <2>1, ViewHoldsThen DEF View
  <2>2. CASE locks'[s] = None
    <3>1. \A v \in Uses : stage'[v] \in Active => session[v] # s
      BY <1>3, <2>2 DEF QueueInv, RegistryInv, CountOK, Users
    <3>2. ASSUME NEW i \in 1..Len(waiters[l]), waiters[l][i] \in Live
          PROVE  FALSE
      <4>1. waiters[l][i] \in Uses /\ Occurs(waiters[l], waiters[l][i])
        BY <1>2, ElementOfSeq DEF Occurs
      <4>2. stage'[waiters[l][i]] \in Active
        BY <1>6, <3>2 DEF Live, Active, Waiting
      <4>3. QED
        BY <1>2, <3>1, <4>1, <4>2
    <3>3. LiveWaiters(l) = <<>>
      BY <1>2, <3>2, SelectNone DEF LiveWaiters
    <3>4. QED
      BY <2>2, <3>3, ViewHoldsThen DEF View
  <2>3. QED
    BY <1>3, <2>1, <2>2
<1>11. QED
  BY <1>5, <1>9, <1>10, AbstractSteps

\* Who comes takes a free lock or joins the queue, also where the lock is not locked but one
\* that was cancelled after it was woken is still to pass it on.
LEMMA EnterIsRequest ==
    ASSUME QueueInv, QueueInv', NEW u \in Uses, NEW s \in Sessions, Enter(u, s)
    PROVE  Abstract!RequestLock(u, s)
<1>1. PICK l \in Uses : l = IF locks[s] = None THEN u ELSE locks[s]
  BY DEF QueueInv, RegistryInv, TypeOK
<1>2. /\ stage[u] = "new"
      /\ locks' = [locks EXCEPT ![s] = l]
      /\ mine' = [mine EXCEPT ![u] = l]
      /\ \A v \in Uses \ {u} : stage'[v] = stage[v]
      /\ l # None
  BY <1>1, RegistryAssumption DEF Enter, QueueInv, RegistryInv, TypeOK
<1>3. waiters[l] \in Seq(Uses) /\ ~ Occurs(waiters[l], u)
  BY <1>2, NewIsApart DEF QueueInv, RegistryInv, TypeOK
<1>4. \A x \in Sessions \ {s} : locks'[x] = locks[x] /\ locks[x] # l
  <2>1. \A x \in Sessions \ {s} : locks'[x] = locks[x]
    BY <1>2 DEF QueueInv, RegistryInv, TypeOK
  <2>2. ASSUME NEW x \in Sessions \ {s}, locks[x] = l
        PROVE  FALSE
    <3>1. l # u
      BY <1>2, <2>2, NewIsApart DEF QueueInv
    <3>2. locks[s] = l
      BY <1>1, <3>1
    <3>3. QED
      BY <1>2, <2>2, <3>2 DEF QueueInv, RegistryInv, ObjectOK
  <2>3. QED
    BY <2>1, <2>2
<1>5. \A m \in Uses \ {l} : waiters'[m] = waiters[m]
  BY <1>1 DEF Enter, QueueInv, RegistryInv, TypeOK
<1>6. \A x \in Sessions \ {s} : OwnerOf(x)' = OwnerOf(x) /\ QueueOf(x)' = QueueOf(x)
  <2>1. \A v \in Uses : mine'[v] = l \/ (stage'[v] = stage[v] /\ mine'[v] = mine[v])
    BY <1>2 DEF QueueInv, RegistryInv, TypeOK
  <2>2. \A v \in Uses : stage[v] # "new" => mine'[v] = mine[v]
    BY <1>2 DEF QueueInv, RegistryInv, TypeOK
  <2>3. QED
    BY <1>4, <1>5, <2>1, <2>2, Elsewhere
<1>7. locks'[s] = l
  BY <1>2 DEF QueueInv, RegistryInv, TypeOK
<1>8. locks[s] = None => ~ locked[l] /\ waiters[l] = <<>> /\ Holders(l) = {}
  <2>1. locks[s] = None => l = u
    BY <1>1
  <2>2. \A v \in Uses : stage[v] = "holding" => mine[v] # u
    BY <1>2, NewIsApart DEF QueueInv, Active
  <2>3. QED
    BY <1>2, <2>1, <2>2 DEF Holders, QueueInv, RegistryInv, ObjectOK
<1>9. ~ locked[l] => Holders(l) = {}
  BY DEF Holders, QueueInv, RegistryInv, HolderOK
<1>10. ASSUME FreeForNewcomer(l)
       PROVE  Abstract!RequestLock(u, s)
  <2>1. stage'[u] = "holding" /\ UNCHANGED waiters
    BY <1>1, <1>10 DEF Enter, QueueInv, RegistryInv, TypeOK
  <2>2. ~ locked[l] /\ Holders(l) = {}
    BY <1>9, <1>10 DEF FreeForNewcomer
  <2>3. ASSUME NEW i \in 1..Len(waiters[l])
        PROVE  waiters[l][i] \in Uses /\ stage[waiters[l][i]] = "cancelled" /\ waiters[l][i] # u
    BY <1>3, <1>10, ElementOfSeq DEF FreeForNewcomer, Occurs
  <2>4. LiveWaiters(l) = <<>>
    <3>1. \A i \in 1..Len(waiters[l]) : waiters[l][i] \notin Live
      BY <2>3 DEF Live
    <3>2. QED
      BY <1>3, <3>1, SelectNone DEF LiveWaiters
  <2>5. LiveWaiters(l)' = <<>>
    <3> DEFINE S == Live'
    <3>1. \A i \in 1..Len(waiters[l]) : waiters[l][i] \notin S
      BY <1>2, <2>3 DEF Live
    <3> HIDE DEF S
    <3>2. Select(waiters[l], S) = <<>>
      BY <1>3, <3>1, SelectNone
    <3>3. QED
      BY <2>1, <3>2 DEF LiveWaiters, S
  <2>6. OwnerOf(s) = None /\ QueueOf(s) = <<>>
    BY <1>1, <1>2, <2>2, <2>4, ViewHolds DEF View
  <2>7. Holders(l)' = {u}
    <3>1. mine'[u] = l
      BY <1>2 DEF QueueInv, RegistryInv, TypeOK
    <3>2. QED
      BY <2>1, <3>1 DEF Holders, QueueInv, RegistryInv, HolderOK
  <2>8. OwnerOf(s)' = u /\ QueueOf(s)' = <<>>
    BY <1>2, <1>7, <2>5, <2>7, ViewHoldsThen DEF View
  <2>9. QED
    BY <1>6, <2>6, <2>8, AbstractSteps
<1>11. ASSUME ~ FreeForNewcomer(l)
       PROVE  Abstract!RequestLock(u, s)
  <2>1. stage'[u] = "pending" /\ waiters' = [waiters EXCEPT ![l] = Append(@, u)]
    BY <1>1, <1>11 DEF Enter, QueueInv, RegistryInv, TypeOK
  <2>2. locks[s] = l
    <3>1. locks[s] # None
      BY <1>8, <1>11 DEF FreeForNewcomer
    <3>2. QED
      BY <1>1, <3>1
  <2>3. Holders(l)' = Holders(l)
    BY <1>2, <2>1 DEF Holders, QueueInv, RegistryInv, TypeOK
  <2>4. LiveWaiters(l)' = Append(LiveWaiters(l), u)
    <3> DEFINE q == waiters[l]
               S == Live
               T == Live'
    <3>1. T = S \cup {u}
      BY <1>2, <2>1 DEF Live
    <3>2. \A i \in 1..Len(q) : q[i] \in S <=> q[i] \in T
      BY <1>3, <3>1 DEF Occurs
    <3> HIDE DEF q, S, T
    <3>3. q \in Seq(Uses)
      BY <1>3 DEF q
    <3>4. Select(q, S) = Select(q, T)
      BY <3>2, <3>3, SelectSame
    <3>5. Select(Append(q, u), T) = Append(Select(q, T), u)
      BY <3>1, <3>3, SelectAppend
    <3>6. waiters'[l] = Append(q, u)
      BY <2>1 DEF q, QueueInv, RegistryInv, TypeOK
    <3>7. QED
      BY <3>4, <3>5, <3>6 DEF LiveWaiters, q, S, T
  <2>5. LiveWaiters(l) \in Seq(Uses)
    BY <1>3, SelectTyped DEF LiveWaiters
  <2>6. LiveWaiters(l)' # <<>>
    BY <2>4, <2>5, AppendProperties
  <2>7. CASE Holders(l) # {}
    <3>1. PICK h \in Uses : Holders(l) = {h}
      BY <2>7 DEF Holders, QueueInv, RegistryInv, HolderOK
    <3>2. OwnerOf(s) = h /\ QueueOf(s) = LiveWaiters(l)
      BY <1>2, <2>2, <3>1, ViewHolds DEF View
    <3>3. OwnerOf(s)' = h /\ QueueOf(s)' = LiveWaiters(l)'
      BY <1>2, <1>7, <2>3, <3>1, ViewHoldsThen DEF View
    <3>4. h # None
      BY RegistryAssumption
    <3>5. QED
      BY <1>6, <2>4, <3>2, <3>3, <3>4, AbstractSteps
  <2>8. CASE Holders(l) = {} /\ LiveWaiters(l) = <<>>
    <3>1. OwnerOf(s) = None /\ QueueOf(s) = <<>>
      BY <1>2, <2>2, <2>8, ViewHolds DEF View
    <3>2. OwnerOf(s)' = Head(Append(<<>>, u)) /\ QueueOf(s)' = Tail(Append(<<>>, u))
      BY <1>2, <1>7, <2>3, <2>4, <2>6, <2>8, ViewHoldsThen DEF View
    <3>3. Head(Append(<<>>, u)) = u /\ Tail(Append(<<>>, u)) = <<>>
      BY EmptySeq, HeadTailAppend
    <3>4. QED
      BY <1>6, <3>1, <3>2, <3>3, AbstractSteps
  <2>9. CASE Holders(l) = {} /\ LiveWaiters(l) # <<>>
    <3> DEFINE w == LiveWaiters(l)
    <3>1. OwnerOf(s) = Head(w) /\ QueueOf(s) = Tail(w)
      BY <1>2, <2>2, <2>9, ViewHolds DEF View
    <3>2. OwnerOf(s)' = Head(Append(w, u)) /\ QueueOf(s)' = Tail(Append(w, u))
      BY <1>2, <1>7, <2>3, <2>4, <2>6, <2>9, ViewHoldsThen DEF View
    <3>3. w \in Seq(Uses) /\ w # <<>>
      BY <2>5, <2>9
    <3> HIDE DEF w
    <3>4. Head(Append(w, u)) = Head(w) /\ Tail(Append(w, u)) = Append(Tail(w), u)
      BY <3>3, HeadTailAppend
    <3>5. Head(w) # None
      BY <3>3, HeadTailProperties, RegistryAssumption
    <3>6. QED
      BY <1>6, <3>1, <3>2, <3>4, <3>5, AbstractSteps
  <2>10. QED
    BY <2>7, <2>8, <2>9
<1>12. QED
  BY <1>10, <1>11

\* No session is owned or waited for initially.
LEMMA LockBegins == Init => Abstract!LockInit
<1> SUFFICES ASSUME Init PROVE Abstract!LockInit
  OBVIOUS
<1>1. \A s \in Sessions : OwnerOf(s) = None /\ QueueOf(s) = <<>>
  BY ViewHolds DEF View, Init
<1>2. QED
  BY <1>1 DEF Abstract!LockInit

\* Every step of the registry is a step of SessionLock or is not seen there.
LEMMA LockSteps == QueueInv /\ QueueInv' /\ [Next]_vars => [Abstract!LockNext]_(Abstract!lockVars)
<1> SUFFICES ASSUME QueueInv, QueueInv', [Next]_vars PROVE [Abstract!LockNext]_(Abstract!lockVars)
  OBVIOUS
<1>2. ASSUME NEW u \in Uses, NEW s \in Sessions, Enter(u, s)
      PROVE  Abstract!LockNext
  <2>1. Abstract!RequestLock(u, s)
    BY <1>2, EnterIsRequest
  <2>2. QED
    BY <2>1 DEF Abstract!LockNext
<1>3. ASSUME NEW u \in Uses, Resume(u) \/ Abandon(u)
      PROVE  UNCHANGED Abstract!lockVars
  BY <1>3, ResumeIsSilent, AbandonIsSilent
<1>4. ASSUME NEW u \in Uses, Leave(u)
      PROVE  Abstract!LockNext
  <2>1. PICK s \in Sessions : OwnerOf(s) = u /\ Abstract!ReleaseLock(s)
    BY <1>4, LeaveIsRelease
  <2>2. QED
    BY <2>1 DEF Abstract!LockNext
<1>5. ASSUME NEW u \in Uses, CancelWaiter(u)
      PROVE  Abstract!LockNext
  <2>1. PICK s \in Sessions : \/ OwnerOf(s) = u /\ Abstract!ReleaseLock(s)
                              \/ Abstract!LeaveQueue(u, s)
    BY <1>5, CancelIsLeaving
  <2>2. QED
    BY <2>1 DEF Abstract!LockNext
<1>6. ASSUME UNCHANGED vars
      PROVE  UNCHANGED Abstract!lockVars
  <2>1. ASSUME NEW l
        PROVE  Holders(l)' = Holders(l) /\ LiveWaiters(l)' = LiveWaiters(l)
    <3>1. Live' = Live /\ Holders(l)' = Holders(l)
      BY <1>6 DEF vars, Live, Holders
    <3>2. QED
      BY <1>6, <3>1 DEF vars, LiveWaiters
  <2>2. ASSUME NEW s \in Sessions, NEW l, l = locks[s]
        PROVE  OwnerOf(s)' = OwnerOf(s) /\ QueueOf(s)' = QueueOf(s)
    <3>1. locks'[s] = l
      BY <1>6, <2>2 DEF vars
    <3>2. Holders(l)' = Holders(l) /\ LiveWaiters(l)' = LiveWaiters(l)
      BY <2>1
    <3>3. QED
      BY <2>2, <3>1, <3>2 DEF OwnerOf, QueueOf
  <2>3. \A s \in Sessions : OwnerOf(s)' = OwnerOf(s) /\ QueueOf(s)' = QueueOf(s)
    BY <2>2
  <2>4. QED
    BY <2>3 DEF Abstract!lockVars
<1>7. QED
  BY <1>2, <1>3, <1>4, <1>5, <1>6 DEF Next

\* The registry is the first-come-first-served lock of SessionLock, whatever lock objects are
\* forgotten and built anew, and whoever is cancelled before or after it was woken.
THEOREM RegistryImplementsSessionLock == Spec => ImplementsSessionLock
<1>1. QED
  BY LockBegins, LockSteps, SpecQueueInv, PTL DEF Spec, ImplementsSessionLock, Abstract!LockSpec
=============================================================================
