----------------------- MODULE RequestPipeline_proofs -----------------------
(***************************************************************************)
(* Proofs about RequestPipeline, for every value of its constants.         *)
(***************************************************************************)
EXTENDS RequestPipeline, TLAPS

-----------------------------------------------------------------------------
(* The session lock.                                                       *)

\* A request for a lock leaves every owner where it is.
LEMMA RequestKeepsOwners ==
    ASSUME Lock!LockTypeOK, NEW t \in Tasks, NEW s \in Sessions, Lock!RequestLock(t, s)
    PROVE  /\ Lock!LockTypeOK'
           /\ \A x \in Sessions : owner[x] # None => owner'[x] = owner[x]
<1>1. CASE owner[s] = None
  BY <1>1 DEF Lock!LockTypeOK, Lock!RequestLock
<1>2. CASE owner[s] # None
  <2>1. queue' = [queue EXCEPT ![s] = Append(@, t)] /\ owner' = owner
    BY <1>2 DEF Lock!RequestLock
  <2>2. queue[s] \in Seq(Tasks)
    BY DEF Lock!LockTypeOK
  <2>3. Append(queue[s], t) \in Seq(Tasks)
    BY <2>2
  <2>4. QED
    BY <2>1, <2>3 DEF Lock!LockTypeOK
<1>3. QED
  BY <1>1, <1>2

\* Handing one lock over leaves the others alone.
LEMMA HandOverKeepsOthers ==
    ASSUME Lock!LockTypeOK, NEW s \in Sessions, NEW q \in Seq(Tasks), Lock!HandOver(s, q)
    PROVE  /\ Lock!LockTypeOK'
           /\ \A x \in Sessions \ {s} : owner'[x] = owner[x]
<1>1. q # <<>> => Head(q) \in Tasks /\ Tail(q) \in Seq(Tasks)
  OBVIOUS
<1>2. QED
  BY <1>1 DEF Lock!LockTypeOK, Lock!HandOver

\* A release concerns one lock.
LEMMA ReleaseKeepsOthers ==
    ASSUME Lock!LockTypeOK, NEW s \in Sessions, Lock!ReleaseLock(s)
    PROVE  /\ Lock!LockTypeOK'
           /\ \A x \in Sessions \ {s} : owner'[x] = owner[x]
BY HandOverKeepsOthers DEF Lock!LockTypeOK, Lock!ReleaseLock

\* A queue stays a queue when a waiter is taken out of it.
LEMMA WithoutIsSequence ==
    ASSUME NEW q \in Seq(Tasks), NEW i \in 1..Len(q)
    PROVE  Lock!Without(q, i) \in Seq(Tasks)
BY DEF Lock!Without

\* A cancelled waiter changes no owner.
LEMMA LeaveKeepsOwners ==
    ASSUME Lock!LockTypeOK, NEW t \in Tasks, NEW s \in Sessions, Lock!LeaveQueue(t, s)
    PROVE  Lock!LockTypeOK' /\ owner' = owner
BY WithoutIsSequence DEF Lock!LockTypeOK, Lock!LeaveQueue

-----------------------------------------------------------------------------
(* The store.                                                              *)

Rows == [Sessions -> Row \cup {None}]
BindingRows == [Responses -> BindingRow \cup {None}]

\* The purge before a transaction leaves well-formed rows.
LEMMA PurgeIsTyped ==
    ASSUME StoreTypeOK
    PROVE  /\ PurgeExpired(records, now) \in Rows
           /\ PurgeExpired(bindings, now) \in BindingRows
BY DEF StoreTypeOK, PurgeExpired, Rows, BindingRows

\* So does the removal of one expired row.
LEMMA DropIsTyped ==
    ASSUME StoreTypeOK, NEW s \in Sessions, NEW r \in Responses
    PROVE  /\ DropExpired(records, s, now) \in Rows
           /\ DropExpired(bindings, r, now) \in BindingRows
BY DEF StoreTypeOK, DropExpired, Rows, BindingRows

\* Writing a session leaves well-formed rows.
LEMMA WriteIsTyped ==
    ASSUME StoreTypeOK, NEW s \in Sessions, NEW session \in Session, WriteSession(s, session)
    PROVE  records' \in Rows /\ bindings' \in BindingRows
<1>1. now \in Nat /\ now \in Time /\ idleTtl \in Nat
  BY StoreAssumption DEF StoreTypeOK, Time
<1>2. session.expiresAt \in Nat
  BY StoreAssumption DEF Session, Expiry
<1>3. RowOf(session, now) \in Row
  <2>1. [session EXCEPT !.lastUsed = now] \in Session
    BY <1>1 DEF Session
  <2>2. Earlier(session.expiresAt, now + idleTtl) \in Nat
    BY <1>1, <1>2 DEF Earlier
  <2>3. QED
    BY <2>1, <2>2 DEF RowOf, Row
<1>4. QED
  BY <1>3, PurgeIsTyped DEF WriteSession, Rows

\* As long as there is an undrawn key, the next one is undrawn.
LEMMA FreshKeyIsFresh ==
    ASSUME \E key \in Keys : drawnFor[key] = None
    PROVE  FreshKey \in Keys /\ drawnFor[FreshKey] = None
BY DEF FreshKey

\* new_session() builds a session.
LEMMA NewSessionIsTyped ==
    ASSUME StoreTypeOK, NEW key \in Keys
    PROVE  NewSession(key, now) \in Session
<1>1. now \in Nat /\ now \in Time /\ now <= MaxTime
  BY StoreAssumption DEF StoreTypeOK, Time
<1>2. now + AbsoluteTtl \in Expiry
  BY <1>1, StoreAssumption DEF Expiry
<1>3. EmptyTable \in Table
  BY DEF EmptyTable, Table
<1>4. QED
  BY <1>1, <1>2, <1>3 DEF NewSession, Session

\* bind_response() leaves well-formed rows.
LEMMA BindIsTyped ==
    ASSUME StoreTypeOK, NEW r \in Responses, NEW s \in Sessions, BindResponse(r, s)
    PROVE  records' \in Rows /\ bindings' \in BindingRows
<1>1. now + idleTtl \in Nat
  BY StoreAssumption DEF StoreTypeOK, Time
<1>2. [session |-> s, expires |-> now + idleTtl] \in BindingRow
  BY <1>1 DEF BindingRow
<1>3. QED
  BY <1>2, PurgeIsTyped DEF BindResponse, BindingRows

\* delete() leaves well-formed rows.
LEMMA DeleteIsTyped ==
    ASSUME StoreTypeOK, NEW s \in Sessions, DeleteSession(s)
    PROVE  records' \in Rows /\ bindings' \in BindingRows
BY PurgeIsTyped DEF DeleteSession, Rows, BindingRows

-----------------------------------------------------------------------------
(* Types and stages.                                                       *)

InCriticalSection(t) == pc[t] \in {"masking", "selfwait"}

\* What is known of a task from where it is.  A task between its load and its save
\* owns the lock of its session.
StageOK(t) ==
    /\ pc[t] \in Running => request[t] \in Requests /\ storeKey[t] \in Sessions
    /\ pc[t] \in {"masking", "guarding", "awaiting", "streaming"} => work[t] \in Session
    /\ InCriticalSection(t) => owner[storeKey[t]] = t

TypeInv == TypeOK /\ \A t \in Tasks : StageOK(t)

\* The steps that end a critical section, or give back a lock before it.
LEMMA ReleaseStep ==
    ASSUME TypeInv, StoreTypeOK', NEW t \in Tasks, NEW stage \in {"rejected", "guarding", "failed"},
           pc[t] \in Running, owner[storeKey[t]] = t,
           stage = "guarding" => pc[t] = "masking",
           Lock!ReleaseLock(storeKey[t]), Goto(t, stage),
           UNCHANGED <<request, storeKey, work, todo, upstream, known>>
    PROVE  TypeInv'
<1>1. storeKey[t] \in Sessions /\ StageOK(t)
  BY DEF TypeInv, StageOK
<1>2. Lock!LockTypeOK' /\ \A x \in Sessions \ {storeKey[t]} : owner'[x] = owner[x]
  BY <1>1, ReleaseKeepsOthers DEF TypeInv, TypeOK
<1>3. TypeOK'
  BY <1>2 DEF TypeInv, TypeOK, Goto, Stages, Running, Final
<1>4. ASSUME NEW u \in Tasks PROVE StageOK(u)'
  <2>1. CASE u = t
    BY <2>1, <1>1 DEF TypeInv, TypeOK, StageOK, Goto, Running, InCriticalSection
  <2>2. CASE u # t
    <3>1. pc'[u] = pc[u] /\ StageOK(u)
      BY <2>2 DEF TypeInv, TypeOK, Goto
    <3>2. InCriticalSection(u) => owner'[storeKey[u]] = owner[storeKey[u]]
      BY <2>2, <3>1, <1>2 DEF StageOK, InCriticalSection, Running
    <3>3. QED
      BY <3>1, <3>2 DEF StageOK, InCriticalSection
  <2>3. QED
    BY <2>1, <2>2
<1>5. QED
  BY <1>3, <1>4 DEF TypeInv

\* The steps that leave the locks and the session copies alone.
LEMMA QuietStep ==
    ASSUME TypeInv, StoreTypeOK', NEW t \in Tasks, NEW stage \in Stages \ {"idle", "queued"},
           pc[t] \in Running, Goto(t, stage),
           stage \notin {"masking", "selfwait", "reaping"},
           stage \in {"guarding", "awaiting", "streaming"} =>
                pc[t] \in {"masking", "guarding", "awaiting", "streaming"},
           UNCHANGED <<request, storeKey, work, todo>>,
           Lock!LockTypeOK', owner' = owner,
           upstream' \subseteq Message, known' \subseteq Tasks
    PROVE  TypeInv'
<1>1. TypeOK'
  BY DEF TypeInv, TypeOK, Goto
<1>2. ASSUME NEW u \in Tasks PROVE StageOK(u)'
  <2>1. StageOK(u) /\ pc'[u] = IF u = t THEN stage ELSE pc[u]
    BY DEF TypeInv, TypeOK, Goto
  <2>2. QED
    BY <2>1 DEF StageOK, InCriticalSection, Running, Stages, Final
<1>3. QED
  BY <1>1, <1>2 DEF TypeInv

\* A task that joins a lock has a session and no critical section yet.
LEMMA JoinStep ==
    ASSUME TypeInv, StoreTypeOK', NEW t \in Tasks, NEW r \in Requests, NEW s \in Sessions,
           NEW stage \in {"queued", "reaping"}, pc[t] = "idle", Join(t, r, s, stage)
    PROVE  TypeInv'
<1>1. /\ Lock!LockTypeOK'
      /\ \A x \in Sessions : owner[x] # None => owner'[x] = owner[x]
  BY RequestKeepsOwners DEF TypeInv, TypeOK, Join
<1>2. r.secrets \subseteq Secrets
  BY PipelineAssumption DEF RequestType
<1>3. TypeOK'
  BY <1>1, <1>2 DEF TypeInv, TypeOK, Join, Goto, Stages, Running
<1>4. ASSUME NEW u \in Tasks PROVE StageOK(u)'
  <2>1. CASE u = t
    BY <2>1 DEF TypeInv, TypeOK, StageOK, Join, Goto, Running, InCriticalSection
  <2>2. CASE u # t
    <3>1. pc'[u] = pc[u] /\ request'[u] = request[u] /\ storeKey'[u] = storeKey[u] /\ StageOK(u)
      BY <2>2 DEF TypeInv, TypeOK, Join, Goto
    <3>2. InCriticalSection(u) => owner'[storeKey[u]] = owner[storeKey[u]]
      BY <3>1, <1>1, PipelineAssumption DEF StageOK, InCriticalSection, Running
    <3>3. QED
      BY <3>1, <3>2 DEF StageOK, InCriticalSection, Join
  <2>3. QED
    BY <2>1, <2>2
<1>5. QED
  BY <1>3, <1>4 DEF TypeInv

\* A refused request touches nothing else.
LEMMA RefuseStep ==
    ASSUME TypeInv, StoreTypeOK', NEW t \in Tasks, NEW r \in Requests, pc[t] = "idle", Refuse(t, r)
    PROVE  TypeInv'
<1>1. TypeOK'
  BY DEF TypeInv, TypeOK, Refuse, Goto, Stages, Final, Lock!LockTypeOK
<1>2. ASSUME NEW u \in Tasks PROVE StageOK(u)'
  BY DEF TypeInv, TypeOK, StageOK, InCriticalSection, Refuse, Goto, Running
<1>3. QED
  BY <1>1, <1>2 DEF TypeInv

\* The second reading of the clock is within its bound.
LEMMA ClockReadingsAreTimes ==
    ASSUME now \in Time
    PROVE  ClockReadings \subseteq Time
BY StoreAssumption DEF ClockReadings, Time

\* The arrival of a request keeps the type invariant.
LEMMA ArriveKeepsTypes ==
    ASSUME TypeInv, NEW t \in Tasks, Arrive(t)
    PROVE  TypeInv'
<1>1. PICK r \in Requests : \/ ArriveWithSession(t, r)
                            \/ ArriveUnstable(t, r)
                            \/ ArriveWithPrevious(t, r)
                            \/ LookupFails(t, r)
  BY DEF Arrive
<1>2. r.session \in Sessions \cup {None} /\ r.previous \in Tasks \cup {None}
  BY PipelineAssumption DEF RequestType
<1>3. CASE ArriveWithSession(t, r)
  <2>1. r.session \in Sessions
    BY <1>2, <1>3, PipelineAssumption DEF NamesItsSession, ArriveWithSession
  <2>2. StoreTypeOK'
    BY <1>3 DEF ArriveWithSession, storeVars, TypeInv, TypeOK, StoreTypeOK
  <2>3. QED
    BY <1>3, <2>1, <2>2, JoinStep DEF ArriveWithSession
<1>4. CASE ArriveUnstable(t, r)
  <2>1. StoreTypeOK'
    BY <1>4 DEF ArriveUnstable, storeVars, TypeInv, TypeOK, StoreTypeOK
  <2>2. Ephemeral(t) \in Sessions
    BY PipelineAssumption
  <2>3. QED
    BY <1>4, <2>1, <2>2, JoinStep, RefuseStep DEF ArriveUnstable
<1>5. CASE ArriveWithPrevious(t, r)
  <2> DEFINE s == Bound(r.previous)
  <2>1. PICK u \in ClockReadings :
            /\ now' = u
            /\ ReadBound(r, s)
            /\ \/ s # None /\ Join(t, r, s, "queued")
               \/ Refuse(t, r)
               \/ s # None /\ Join(t, r, s, "reaping")
    BY <1>5 DEF ArriveWithPrevious
  <2>2. r.previous \in Responses
    BY <1>5, <1>2, PipelineAssumption DEF ArriveWithPrevious, AsksForPrevious
  <2>3. s \in Sessions \cup {None}
    BY <2>2 DEF Bound, Present, TypeInv, TypeOK, StoreTypeOK, BindingRow
  <2>4. now' \in Time
    BY <2>1, ClockReadingsAreTimes DEF TypeInv, TypeOK, StoreTypeOK
  <2>5. records' \in Rows /\ bindings' \in BindingRows
    <3>1. StoreTypeOK
      BY DEF TypeInv, TypeOK
    <3>2. DropExpired(bindings, r.previous, now) \in BindingRows
      BY <3>1, <2>2 DEF StoreTypeOK, DropExpired, BindingRows
    <3>3. s # None => DropExpired(records, s, now) \in Rows
      BY <3>1, <2>3 DEF StoreTypeOK, DropExpired, Rows
    <3>4. records \in Rows
      BY <3>1 DEF StoreTypeOK, Rows
    <3>5. QED
      BY <2>1, <3>2, <3>3, <3>4 DEF ReadBound
  <2>6. StoreTypeOK'
    BY <2>1, <2>4, <2>5 DEF ReadBound, StoreTypeOK, Rows, BindingRows, TypeInv, TypeOK
  <2>7. pc[t] = "idle"
    BY <1>5 DEF ArriveWithPrevious
  <2>8. CASE Refuse(t, r)
    BY <2>8, <2>6, <2>7, RefuseStep
  <2>9. ASSUME NEW stage \in {"queued", "reaping"}, s # None, Join(t, r, s, stage)
        PROVE  TypeInv'
    BY <2>9, <2>3, <2>6, <2>7, JoinStep
  <2>10. QED
    BY <2>1, <2>8, <2>9
<1>6. CASE LookupFails(t, r)
  <2>1. StoreTypeOK'
    BY <1>6 DEF LookupFails, storeVars, TypeInv, TypeOK, StoreTypeOK
  <2>2. QED
    BY <1>6, <2>1, RefuseStep DEF LookupFails
<1>7. QED
  BY <1>1, <1>3, <1>4, <1>5, <1>6

\* So does get_or_create().
LEMMA LoadKeepsTypes ==
    ASSUME TypeInv, NEW t \in Tasks, LoadSession(t)
    PROVE  TypeInv'
<1> DEFINE s == storeKey[t]
<1>1. /\ pc[t] = "queued" /\ owner[s] = t /\ s \in Sessions
      /\ UNCHANGED <<request, storeKey, todo, upstream, known>>
  BY DEF LoadSession, TypeInv, StageOK, Running
<1>2. CASE /\ CreateSession(s)
           /\ work' = [work EXCEPT ![t] = NewSession(FreshKey, now)]
           /\ Goto(t, "masking")
           /\ UNCHANGED <<now, idleTtl, owner, queue>>
  <2>1. FreshKey \in Keys
    BY <1>2, FreshKeyIsFresh DEF CreateSession
  <2>2. NewSession(FreshKey, now) \in Session
    BY <2>1, NewSessionIsTyped DEF TypeInv, TypeOK
  <2>3. records' \in Rows /\ bindings' \in BindingRows
    BY <1>1, <1>2, <2>2, WriteIsTyped DEF CreateSession, TypeInv, TypeOK
  <2>4. StoreTypeOK'
    BY <1>1, <1>2, <2>1, <2>3
       DEF CreateSession, StoreTypeOK, Rows, BindingRows, TypeInv, TypeOK
  <2>5. TypeOK'
    BY <1>1, <1>2, <2>2, <2>4
       DEF TypeInv, TypeOK, Goto, Stages, Running, Lock!LockTypeOK
  <2>6. ASSUME NEW v \in Tasks PROVE StageOK(v)'
    BY <1>1, <1>2, <2>2 DEF TypeInv, TypeOK, StageOK, InCriticalSection, Goto, Running
  <2>7. QED
    BY <2>5, <2>6 DEF TypeInv
<1>3. ASSUME NEW u \in ClockReadings,
             Alive(s, now, u), now' = u,
             work' = [work EXCEPT ![t] = records[s].session],
             Goto(t, "masking"),
             UNCHANGED <<idleTtl, records, bindings, drawnFor, owner, queue>>
      PROVE  TypeInv'
  <2>1. records[s].session \in Session
    BY <1>1, <1>3 DEF Alive, Present, TypeInv, TypeOK, StoreTypeOK, Row
  <2>2. StoreTypeOK'
    BY <1>3, ClockReadingsAreTimes DEF StoreTypeOK, TypeInv, TypeOK
  <2>3. TypeOK'
    BY <1>1, <1>3, <2>1, <2>2
       DEF TypeInv, TypeOK, Goto, Stages, Running, Lock!LockTypeOK
  <2>4. ASSUME NEW v \in Tasks PROVE StageOK(v)'
    BY <1>1, <1>3, <2>1 DEF TypeInv, TypeOK, StageOK, InCriticalSection, Goto, Running
  <2>5. QED
    BY <2>3, <2>4 DEF TypeInv
<1>4. ASSUME NEW u \in ClockReadings,
             now' = u, Lock!RequestLock(t, s), Goto(t, "selfwait"),
             UNCHANGED <<idleTtl, records, bindings, drawnFor, work>>
      PROVE  TypeInv'
  <2>1. /\ Lock!LockTypeOK'
        /\ \A x \in Sessions : owner[x] # None => owner'[x] = owner[x]
    BY <1>1, <1>4, RequestKeepsOwners DEF TypeInv, TypeOK
  <2>2. StoreTypeOK'
    BY <1>4, ClockReadingsAreTimes DEF StoreTypeOK, TypeInv, TypeOK
  <2>3. TypeOK'
    BY <1>1, <1>4, <2>1, <2>2 DEF TypeInv, TypeOK, Goto, Stages, Running
  <2>4. ASSUME NEW v \in Tasks PROVE StageOK(v)'
    <3>1. /\ pc'[v] = IF v = t THEN "selfwait" ELSE pc[v]
          /\ StageOK(v)
      BY <1>4 DEF TypeInv, TypeOK, Goto
    <3>2. v = t \/ InCriticalSection(v) => owner'[storeKey[v]] = v
      BY <1>1, <3>1, <2>1, PipelineAssumption DEF StageOK, InCriticalSection, Running
    <3>3. QED
      BY <1>1, <1>4, <3>1, <3>2 DEF StageOK, InCriticalSection, Running
  <2>5. QED
    BY <2>3, <2>4 DEF TypeInv
<1>5. QED
  BY <1>2, <1>3, <1>4 DEF LoadSession

\* Every candidate of _allocate_alias is an alias.
LEMMA NewAliasIsAlias ==
    ASSUME NEW key \in Keys, NEW secret \in Secrets, NEW n \in 1..MaxLength
    PROVE  AliasFor(key, secret, n) \in Aliases
BY AliasAssumption

\* get_or_create_alias() returns a table.
LEMMA TableStaysTyped ==
    ASSUME NEW table \in Table, NEW key \in Keys, NEW secret \in Secrets, NEW after,
           GetOrCreateAlias(table, key, secret, after)
    PROVE  after \in Table
BY NewAliasIsAlias DEF GetOrCreateAlias, Table

\* Masking one secret keeps the type invariant.
LEMMA MaskKeepsTypes ==
    ASSUME TypeInv, NEW t \in Tasks, NEW secret \in Secrets, MaskSecret(t, secret)
    PROVE  TypeInv'
<1>1. /\ pc[t] = "masking" /\ work[t] \in Session
      /\ UNCHANGED <<storeVars, owner, queue, pc, request, storeKey, upstream, known>>
      /\ todo' = [todo EXCEPT ![t] = @ \ {secret}]
  BY DEF MaskSecret, TypeInv, StageOK
<1>2. PICK after : /\ GetOrCreateAlias(work[t].table, work[t].key, secret, after)
                   /\ work' = [work EXCEPT ![t].table = after]
  BY DEF MaskSecret
<1>3. [work[t] EXCEPT !.table = after] \in Session
  BY <1>1, <1>2, TableStaysTyped DEF Session
<1>4. work' = [work EXCEPT ![t] = [work[t] EXCEPT !.table = after]]
  BY <1>2
<1>5. TypeOK'
  BY <1>1, <1>3, <1>4 DEF TypeInv, TypeOK, StoreTypeOK, storeVars, Lock!LockTypeOK
<1>6. ASSUME NEW u \in Tasks PROVE StageOK(u)'
  BY <1>1, <1>3, <1>4 DEF TypeInv, TypeOK, StageOK, InCriticalSection
<1>7. QED
  BY <1>5, <1>6 DEF TypeInv

\* Every step of a running task keeps the type invariant.
LEMMA ProceedKeepsTypes ==
    ASSUME TypeInv, NEW t \in Tasks, Proceed(t)
    PROVE  TypeInv'
<1> USE DEF Running
<1>0. /\ TypeOK /\ StoreTypeOK /\ Lock!LockTypeOK /\ StageOK(t)
      /\ pc[t] \in Running => storeKey[t] \in Sessions
  BY DEF TypeInv, TypeOK, StageOK
<1>1. CASE Reap(t)
  <2>1. records' \in Rows /\ bindings' \in BindingRows
    BY <1>0, <1>1, DeleteIsTyped DEF Reap
  <2>2. StoreTypeOK'
    BY <1>0, <1>1, <2>1 DEF Reap, StoreTypeOK, Rows, BindingRows
  <2>3. QED
    BY <1>1, <2>2, ReleaseStep DEF Reap
<1>2. CASE LoadSession(t)
  BY <1>2, LoadKeepsTypes
<1>3. CASE \E secret \in Secrets : MaskSecret(t, secret)
  BY <1>3, MaskKeepsTypes
<1>4. CASE MaskingFails(t)
  <2>1. StoreTypeOK'
    BY <1>0, <1>4 DEF MaskingFails, storeVars, StoreTypeOK
  <2>2. QED
    BY <1>0, <1>4, <2>1, ReleaseStep DEF MaskingFails, StageOK, InCriticalSection
<1>5. CASE SaveSession(t)
  <2>1. work[t] \in Session
    BY <1>0, <1>5 DEF SaveSession, StageOK
  <2>2. records' \in Rows /\ bindings' \in BindingRows
    BY <1>0, <1>5, <2>1, WriteIsTyped DEF SaveSession
  <2>3. StoreTypeOK'
    BY <1>0, <1>5, <2>2 DEF SaveSession, StoreTypeOK, Rows, BindingRows
  <2>4. QED
    BY <1>0, <1>5, <2>3, ReleaseStep DEF SaveSession, StageOK, InCriticalSection
<1>6. CASE StoreFails(t)
  <2>1. StoreTypeOK'
    BY <1>0, <1>6 DEF StoreFails, storeVars, StoreTypeOK
  <2>2. QED
    BY <1>0, <1>6, <2>1, ReleaseStep DEF StoreFails, StageOK, InCriticalSection
<1>7. CASE GuardBlocks(t)
  <2>1. StoreTypeOK' /\ Lock!LockTypeOK' /\ upstream' \subseteq Message /\ known' \subseteq Tasks
    BY <1>0, <1>7 DEF GuardBlocks, storeVars, StoreTypeOK, Lock!LockTypeOK, TypeOK
  <2>2. QED
    BY <1>7, <2>1, QuietStep DEF GuardBlocks, Stages, Final
<1>8. CASE Send(t)
  <2>1. Payload(t) \subseteq Message
    <3>1. pc[t] = "guarding" /\ work[t] \in Session /\ request[t] \in Requests
      BY <1>0, <1>8 DEF Send, StageOK
    <3>2. request[t].secrets \subseteq Secrets
      BY <3>1, PipelineAssumption DEF RequestType
    <3>3. QED
      BY <1>0, <3>1, <3>2 DEF Payload, Message, Session, Table
  <2>2. StoreTypeOK' /\ Lock!LockTypeOK' /\ upstream' \subseteq Message /\ known' \subseteq Tasks
    BY <1>0, <1>8, <2>1 DEF Send, storeVars, StoreTypeOK, Lock!LockTypeOK, TypeOK
  <2>3. QED
    BY <1>8, <2>2, QuietStep DEF Send, Stages, Final
<1>9. CASE Answer(t)
  <2>1. records' \in Rows /\ bindings' \in BindingRows
    BY <1>0, <1>9, BindIsTyped, PipelineAssumption DEF Answer
  <2>2. StoreTypeOK' /\ Lock!LockTypeOK' /\ upstream' \subseteq Message /\ known' \subseteq Tasks
    BY <1>0, <1>9, <2>1 DEF Answer, StoreTypeOK, Lock!LockTypeOK, TypeOK, Rows, BindingRows
  <2>3. QED
    BY <1>9, <2>2, QuietStep DEF Answer, Stages, Final
<1>10. CASE StreamBegins(t)
  <2>1. StoreTypeOK' /\ Lock!LockTypeOK' /\ upstream' \subseteq Message /\ known' \subseteq Tasks
    BY <1>0, <1>10 DEF StreamBegins, storeVars, StoreTypeOK, Lock!LockTypeOK, TypeOK
  <2>2. QED
    BY <1>10, <2>1, QuietStep DEF StreamBegins, Stages, Final
<1>11. CASE StreamEnds(t)
  <2>1. records' \in Rows /\ bindings' \in BindingRows
    BY <1>0, <1>11, BindIsTyped, PipelineAssumption DEF StreamEnds
  <2>2. StoreTypeOK' /\ Lock!LockTypeOK' /\ upstream' \subseteq Message /\ known' \subseteq Tasks
    BY <1>0, <1>11, <2>1 DEF StreamEnds, StoreTypeOK, Lock!LockTypeOK, TypeOK, Rows, BindingRows
  <2>3. QED
    BY <1>11, <2>2, QuietStep DEF StreamEnds, Stages, Final
<1>12. CASE ResponseFails(t)
  <2>1. StoreTypeOK' /\ Lock!LockTypeOK' /\ upstream' \subseteq Message /\ known' \subseteq Tasks
    BY <1>0, <1>12 DEF ResponseFails, storeVars, StoreTypeOK, Lock!LockTypeOK, TypeOK
  <2>2. QED
    BY <1>12, <2>1, QuietStep DEF ResponseFails, Stages, Final
<1>13. QED
  BY <1>1, <1>2, <1>3, <1>4, <1>5, <1>6, <1>7, <1>8, <1>9, <1>10, <1>11, <1>12 DEF Proceed

\* A cancellation gives back only what the task holds.
LEMMA CancelKeepsTypes ==
    ASSUME TypeInv, NEW t \in Tasks, Cancel(t)
    PROVE  TypeInv'
<1>1. /\ TypeOK /\ Lock!LockTypeOK /\ StageOK(t) /\ pc[t] \in Running
      /\ storeKey[t] \in Sessions /\ queue[storeKey[t]] \in Seq(Tasks)
      /\ Goto(t, "failed")
      /\ UNCHANGED <<request, storeKey, work, todo, upstream, known>>
  BY DEF TypeInv, TypeOK, StageOK, Cancel, Lock!LockTypeOK
<1>2. StoreTypeOK'
  BY DEF Cancel, TypeInv, TypeOK, storeVars, StoreTypeOK
<1>3. CASE pc[t] = "guarding" /\ UNCHANGED <<owner, queue>>
  BY <1>1, <1>2, <1>3, QuietStep DEF Stages, Final, TypeOK, Lock!LockTypeOK
<1>4. CASE Lock!LeaveQueue(t, storeKey[t])
  <2>1. Lock!LockTypeOK' /\ owner' = owner
    BY <1>1, <1>4, LeaveKeepsOwners
  <2>2. QED
    BY <1>1, <1>2, <2>1, QuietStep DEF Stages, Final, TypeOK
<1>5. CASE owner[storeKey[t]] = t /\ Lock!ReleaseLock(storeKey[t])
  BY <1>1, <1>2, <1>5, ReleaseStep
<1>6. CASE pc[t] = "selfwait" /\ LeaveOwnQueue(t, storeKey[t])
  <2>1. PICK q \in Seq(Tasks) : Lock!HandOver(storeKey[t], q)
    BY <1>1, <1>6, WithoutIsSequence DEF LeaveOwnQueue
  <2>2. /\ Lock!LockTypeOK'
        /\ \A x \in Sessions \ {storeKey[t]} : owner'[x] = owner[x]
    BY <1>1, <2>1, HandOverKeepsOthers
  <2>3. TypeOK'
    BY <1>1, <1>2, <2>2 DEF TypeOK, Goto, Stages, Final
  <2>4. ASSUME NEW u \in Tasks PROVE StageOK(u)'
    <3>1. pc'[u] = (IF u = t THEN "failed" ELSE pc[u]) /\ StageOK(u)
      BY <1>1 DEF TypeInv, TypeOK, Goto
    <3>2. u # t /\ InCriticalSection(u) => owner'[storeKey[u]] = owner[storeKey[u]]
      BY <1>1, <1>6, <3>1, <2>2 DEF StageOK, InCriticalSection, Running
    <3>3. QED
      BY <1>1, <3>1, <3>2 DEF StageOK, InCriticalSection, Running
  <2>5. QED
    BY <2>3, <2>4 DEF TypeInv
<1>7. QED
  BY <1>3, <1>4, <1>5, <1>6 DEF Cancel

\* A restart leaves nobody in a critical section.
LEMMA RestartKeepsTypes ==
    ASSUME TypeInv, NEW ttl \in IdleTtls, Restart(ttl)
    PROVE  TypeInv'
<1>1. StoreTypeOK'
  BY PurgeIsTyped DEF Restart, ReopenStore, TypeInv, TypeOK, StoreTypeOK, Rows, BindingRows
<1>2. TypeOK'
  <2>1. <<>> \in Seq(Tasks)
    OBVIOUS
  <2>2. Lock!LockTypeOK'
    BY <2>1 DEF Restart, Lock!LockTypeOK
  <2>3. pc' \in [Tasks -> Stages]
    BY DEF Restart, TypeInv, TypeOK, Stages, Final
  <2>4. QED
    BY <1>1, <2>2, <2>3 DEF Restart, TypeInv, TypeOK
<1>3. ASSUME NEW u \in Tasks PROVE StageOK(u)'
  BY DEF Restart, TypeInv, TypeOK, StageOK, InCriticalSection, Running
<1>4. QED
  BY <1>2, <1>3 DEF TypeInv

\* Time passes for everyone alike.
LEMMA TickKeepsTypes ==
    ASSUME TypeInv, Tick
    PROVE  TypeInv'
<1>1. now + 1 \in Time
  BY StoreAssumption DEF Tick, AdvanceClock, TypeInv, TypeOK, StoreTypeOK, Time
<1>2. TypeOK'
  BY <1>1 DEF Tick, AdvanceClock, taskVars, TypeInv, TypeOK, StoreTypeOK, Lock!LockTypeOK
<1>3. ASSUME NEW u \in Tasks PROVE StageOK(u)'
  BY DEF Tick, AdvanceClock, taskVars, TypeInv, TypeOK, StageOK, InCriticalSection
<1>4. QED
  BY <1>2, <1>3 DEF TypeInv

\* The type invariant holds at the start.
LEMMA TypeInit == Init => TypeInv
<1> SUFFICES ASSUME Init PROVE TypeInv
  OBVIOUS
<1>1. StoreTypeOK
  BY StoreAssumption DEF Init, StoreInit, StoreTypeOK, Time
<1>2. Lock!LockTypeOK
  BY DEF Init, Lock!LockInit, Lock!LockTypeOK
<1>3. TypeOK
  BY <1>1, <1>2 DEF Init, TypeOK, Stages
<1>4. QED
  BY <1>3 DEF Init, TypeInv, StageOK, InCriticalSection, Running

\* Every step keeps the type invariant.
LEMMA TypeStep == TypeInv /\ [Next]_vars => TypeInv'
<1> SUFFICES ASSUME TypeInv, [Next]_vars PROVE TypeInv'
  OBVIOUS
<1>1. CASE UNCHANGED vars
  BY <1>1 DEF vars, storeVars, taskVars, TypeInv, TypeOK, StoreTypeOK, Lock!LockTypeOK,
              StageOK, InCriticalSection
<1>2. CASE Next
  BY <1>2, ArriveKeepsTypes, ProceedKeepsTypes, CancelKeepsTypes, RestartKeepsTypes,
     TickKeepsTypes DEF Next
<1>3. QED
  BY <1>1, <1>2

\* Every variable keeps its type, and a task between the load and the save of its
\* session owns the lock of that session (request_pipeline.py, the block under
\* `async with runtime.store.lock`).
THEOREM SpecTypeInv == Spec => []TypeInv
BY TypeInit, TypeStep, PTL DEF Spec

\* Every variable of the pipeline keeps its type.
THEOREM TypeCorrect == Spec => []TypeOK
<1>1. TypeInv => TypeOK
  BY DEF TypeInv
<1>2. QED
  BY <1>1, SpecTypeInv, PTL

-----------------------------------------------------------------------------
(* Keys and copies.                                                        *)

\* A key is used by the session it was drawn for and by no other.
KeysOwned ==
    /\ \A s \in Sessions : records[s] # None => drawnFor[records[s].session.key] = s
    /\ \A t \in Tasks :
            work[t] # None => storeKey[t] \in Sessions /\ drawnFor[work[t].key] = storeKey[t]
    /\ \A m \in upstream : drawnFor[m.key] = m.session

\* What a task knows of its copy: it holds none before the load; a masked secret has
\* an alias; until it is saved it maps all that the row maps.
CopyOK(t) ==
    /\ pc[t] = "queued" => todo[t] = request[t].secrets
    /\ pc[t] \in {"idle", "queued", "reaping", "selfwait"} => work[t] = None
    /\ pc[t] \in {"masking", "guarding"} =>
            \A secret \in request[t].secrets \ todo[t] : work[t].table[secret] # None
    /\ pc[t] = "guarding" => todo[t] = {}
    /\ pc[t] = "masking" =>
            LET row == records[storeKey[t]] IN
            row # None /\ row.session.key = work[t].key =>
                Includes(work[t].table, row.session.table)

CopyInv == KeysOwned /\ TablesInjective /\ \A t \in Tasks : CopyOK(t)

-----------------------------------------------------------------------------
(* What was published, or is about to be.                                  *)

\* The alias of a secret was sent under a key, or the task that saved it is about to
\* send it.
Published(key, secret, alias) ==
    \/ \E m \in upstream : m.key = key /\ m.secret = secret /\ m.alias = alias
    \/ /\ alias # None
       /\ \E u \in Tasks :
            pc[u] = "guarding" /\ work[u].key = key /\ work[u].table[secret] = alias

\* What is published is consistent, recorded in the row of its key, and known to the
\* task that is about to overwrite that row.
PublishedInv ==
    /\ \A m \in upstream : m.alias # None
    /\ \A key \in Keys, a, b \in Secrets, x, y \in Aliases :
            Published(key, a, x) /\ Published(key, b, y) => (a = b <=> x = y)
    /\ \A secret \in Secrets, alias \in Aliases, s \in Sessions :
            records[s] # None /\ Published(records[s].session.key, secret, alias)
            => records[s].session.table[secret] = alias
    /\ \A secret \in Secrets, alias \in Aliases, t \in Tasks :
            pc[t] = "masking" /\ Published(work[t].key, secret, alias)
            => work[t].table[secret] = alias

IInv == TypeInv /\ CopyInv /\ PublishedInv

-----------------------------------------------------------------------------
(* Quiet steps: they write no session, publish nothing and start no masking. *)

RowsOnlyVanish == \A s \in Sessions : records'[s] = None \/ records'[s] = records[s]

BeforeLoad == {"idle", "queued", "reaping", "selfwait"}

Quiet ==
    /\ RowsOnlyVanish
    /\ UNCHANGED <<drawnFor, work, upstream>>
    /\ \A u \in Tasks :
        /\ pc'[u] \in {"masking", "guarding"} =>
                /\ pc[u] = pc'[u]
                /\ request'[u] = request[u] /\ todo'[u] = todo[u]
        /\ pc'[u] = "queued" =>
                \/ todo'[u] = request'[u].secrets
                \/ pc[u] = "queued" /\ request'[u] = request[u] /\ todo'[u] = todo[u]
        /\ pc'[u] \in BeforeLoad => pc[u] \in BeforeLoad
        /\ storeKey'[u] # storeKey[u] => pc[u] = "idle"

\* A quiet step keeps what is known of the session copies.
LEMMA QuietKeepsCopies ==
    ASSUME TypeInv, CopyInv, Quiet
    PROVE  CopyInv'
<1>1. KeysOwned'
  BY DEF KeysOwned, CopyInv, CopyOK, Quiet, RowsOnlyVanish, BeforeLoad
<1>2. TablesInjective'
  BY DEF CopyInv, TablesInjective, Quiet, RowsOnlyVanish
<1>3. ASSUME NEW u \in Tasks PROVE CopyOK(u)'
  <2>1. CopyOK(u)
    BY DEF CopyInv
  <2>0. pc'[u] = "queued" => todo'[u] = request'[u].secrets
    BY <2>1 DEF CopyOK, Quiet
  <2>2. pc'[u] \in BeforeLoad => work'[u] = None
    BY <2>1 DEF CopyOK, Quiet, BeforeLoad
  <2>3. pc'[u] \in {"masking", "guarding"} =>
            \A secret \in request'[u].secrets \ todo'[u] : work'[u].table[secret] # None
    BY <2>1 DEF CopyOK, Quiet
  <2>4. pc'[u] = "guarding" => todo'[u] = {}
    BY <2>1 DEF CopyOK, Quiet
  <2>5. ASSUME pc'[u] = "masking", records'[storeKey'[u]] # None,
               records'[storeKey'[u]].session.key = work'[u].key
        PROVE  Includes(work'[u].table, records'[storeKey'[u]].session.table)
    <3>1. pc[u] = "masking" /\ storeKey'[u] = storeKey[u] /\ work' = work
      BY <2>5 DEF Quiet
    <3>2. storeKey[u] \in Sessions
      BY <3>1 DEF TypeInv, StageOK, Running
    <3>3. records'[storeKey[u]] = records[storeKey[u]]
      BY <2>5, <3>1, <3>2 DEF Quiet, RowsOnlyVanish
    <3>4. QED
      BY <2>1, <2>5, <3>1, <3>3 DEF CopyOK
  <2>6. QED
    BY <2>0, <2>2, <2>3, <2>4, <2>5 DEF CopyOK, BeforeLoad
<1>4. QED
  BY <1>1, <1>2, <1>3 DEF CopyInv

\* A quiet step publishes no alias.
LEMMA QuietPublishesNothing ==
    ASSUME Quiet, NEW key \in Keys, NEW secret \in Secrets, NEW alias \in Aliases,
           Published(key, secret, alias)'
    PROVE  Published(key, secret, alias)
BY DEF Published, Quiet

\* A quiet step keeps the published aliases consistent.
LEMMA QuietKeepsPublished ==
    ASSUME TypeInv, PublishedInv, Quiet
    PROVE  PublishedInv'
<1>1. \A m \in upstream' : m.alias # None
  BY DEF PublishedInv, Quiet
<1>2. ASSUME NEW key \in Keys, NEW a \in Secrets, NEW b \in Secrets,
             NEW x \in Aliases, NEW y \in Aliases,
             Published(key, a, x)', Published(key, b, y)'
      PROVE  a = b <=> x = y
  BY <1>2, QuietPublishesNothing DEF PublishedInv
<1>3. ASSUME NEW secret \in Secrets, NEW alias \in Aliases, NEW s \in Sessions,
             records'[s] # None, Published(records[s].session.key, secret, alias)'
      PROVE  records'[s].session.table[secret] = alias
  <2>1. records'[s] = records[s]
    BY <1>3 DEF Quiet, RowsOnlyVanish
  <2>2. records[s].session.key \in Keys
    BY <1>3, <2>1 DEF TypeInv, TypeOK, StoreTypeOK, Row, Session
  <2>3. QED
    BY <1>3, <2>1, <2>2, QuietPublishesNothing DEF PublishedInv
<1>4. ASSUME NEW secret \in Secrets, NEW alias \in Aliases, NEW t \in Tasks,
             pc'[t] = "masking", Published(work[t].key, secret, alias)'
      PROVE  work'[t].table[secret] = alias
  <2>1. pc[t] = "masking" /\ work' = work
    BY <1>4 DEF Quiet
  <2>2. work[t].key \in Keys
    BY <2>1 DEF TypeInv, StageOK, Session
  <2>3. QED
    BY <1>4, <2>1, <2>2, QuietPublishesNothing DEF PublishedInv
<1>5. QED
  BY <1>1, <1>2, <1>3, <1>4 DEF PublishedInv

\* The purge changes no row it keeps.
LEMMA PurgeOnlyRemoves ==
    ASSUME StoreTypeOK, NEW s \in Sessions
    PROVE  PurgeExpired(records, now)[s] \in {None, records[s]}
BY DEF PurgeExpired, StoreTypeOK

\* An arrival writes no session.
LEMMA ArriveIsQuiet ==
    ASSUME TypeInv, NEW t \in Tasks, Arrive(t)
    PROVE  Quiet
<1>1. PICK r \in Requests : \/ ArriveWithSession(t, r)
                            \/ ArriveUnstable(t, r)
                            \/ ArriveWithPrevious(t, r)
                            \/ LookupFails(t, r)
  BY DEF Arrive
<1>2. /\ pc[t] = "idle" /\ UNCHANGED <<drawnFor, work, upstream>>
      /\ \/ \E s, stage : Join(t, r, s, stage) /\ stage \in {"queued", "reaping"}
         \/ Refuse(t, r)
  <2>1. CASE ArriveWithSession(t, r)
    BY <2>1 DEF ArriveWithSession, Join, storeVars
  <2>2. CASE ArriveUnstable(t, r)
    BY <2>2 DEF ArriveUnstable, Join, Refuse, storeVars
  <2>3. CASE ArriveWithPrevious(t, r)
    BY <2>3 DEF ArriveWithPrevious, ReadBound, Join, Refuse
  <2>4. CASE LookupFails(t, r)
    BY <2>4 DEF LookupFails, Refuse, storeVars
  <2>5. QED
    BY <1>1, <2>1, <2>2, <2>3, <2>4
<1>3. RowsOnlyVanish
  <2>1. CASE ArriveWithPrevious(t, r)
    <3>1. PICK s : /\ s = Bound(r.previous)
                   /\ records' = IF s = None THEN records ELSE DropExpired(records, s, now)
      BY <2>1 DEF ArriveWithPrevious, ReadBound
    <3>2. QED
      BY <3>1 DEF RowsOnlyVanish, DropExpired, TypeInv, TypeOK, StoreTypeOK
  <2>2. CASE records' = records
    BY <2>2 DEF RowsOnlyVanish
  <2>3. QED
    BY <1>1, <2>1, <2>2 DEF ArriveWithSession, ArriveUnstable, LookupFails, storeVars
<1>4. ASSUME NEW u \in Tasks
      PROVE  /\ pc'[u] \in {"masking", "guarding"} =>
                    /\ pc[u] = pc'[u]
                    /\ request'[u] = request[u] /\ todo'[u] = todo[u]
             /\ pc'[u] = "queued" =>
                    \/ todo'[u] = request'[u].secrets
                    \/ pc[u] = "queued" /\ request'[u] = request[u] /\ todo'[u] = todo[u]
             /\ pc'[u] \in BeforeLoad => pc[u] \in BeforeLoad
             /\ storeKey'[u] # storeKey[u] => pc[u] = "idle"
  BY <1>2 DEF Join, Refuse, Goto, BeforeLoad, TypeInv, TypeOK
<1>5. QED
  BY <1>2, <1>3, <1>4 DEF Quiet

\* The steps of a running task that go to a stage where nothing is masked or guarded.
LEMMA MoveIsQuiet ==
    ASSUME TypeInv, RowsOnlyVanish, NEW t \in Tasks, NEW stage,
           stage \notin {"queued", "masking", "guarding"}, Goto(t, stage),
           stage \in BeforeLoad => pc[t] \in BeforeLoad,
           UNCHANGED <<drawnFor, work, upstream, request, todo, storeKey>>
    PROVE  Quiet
BY DEF Quiet, Goto, TypeInv, TypeOK

\* delete() and bind_response() write no session.
LEMMA DropsOnly ==
    ASSUME TypeInv, NEW t \in Tasks,
           Reap(t) \/ Answer(t) \/ StreamEnds(t)
    PROVE  RowsOnlyVanish
<1>1. StoreTypeOK
  BY DEF TypeInv, TypeOK
<1>2. CASE Reap(t)
  <2>1. storeKey[t] \in Sessions
    BY <1>2 DEF Reap, TypeInv, StageOK, Running
  <2>2. records' = [PurgeExpired(records, now) EXCEPT ![storeKey[t]] = None]
    BY <1>2 DEF Reap, DeleteSession
  <2>3. PurgeExpired(records, now) \in Rows
    BY <1>1, PurgeIsTyped
  <2>4. QED
    BY <1>1, <2>1, <2>2, <2>3, PurgeOnlyRemoves DEF RowsOnlyVanish, Rows
<1>3. CASE records' = PurgeExpired(records, now)
  BY <1>1, <1>3, PurgeOnlyRemoves DEF RowsOnlyVanish
<1>4. QED
  BY <1>2, <1>3 DEF Answer, StreamEnds, BindResponse

\* Untouched rows are rows of which none was written.
LEMMA SameRowsVanish == UNCHANGED records => RowsOnlyVanish
BY DEF RowsOnlyVanish

\* The steps of a task that are not quiet.
Loud(t) ==
    \/ LoadSession(t) /\ pc'[t] = "masking"
    \/ \E secret \in Secrets : MaskSecret(t, secret)
    \/ SaveSession(t)
    \/ Send(t) /\ pc'[t] = "awaiting"

\* Of the steps of a task only four are not quiet.
LEMMA ProceedIsQuiet ==
    ASSUME TypeInv, NEW t \in Tasks, Proceed(t), ~ Loud(t)
    PROVE  Quiet
<1>1. CASE Reap(t)
  BY <1>1, DropsOnly, MoveIsQuiet DEF Reap, BeforeLoad
<1>2. CASE LoadSession(t)
  <2>1. Goto(t, "masking") => pc'[t] = "masking"
    BY DEF Goto, TypeInv, TypeOK
  <2>2. /\ pc[t] = "queued" /\ Goto(t, "selfwait")
        /\ UNCHANGED <<records, drawnFor, work, upstream, request, todo, storeKey>>
    BY <1>2, <2>1 DEF LoadSession, Loud
  <2>3. QED
    BY <2>2, SameRowsVanish, MoveIsQuiet DEF BeforeLoad
<1>3. CASE MaskingFails(t)
  BY <1>3, SameRowsVanish, MoveIsQuiet DEF MaskingFails, storeVars, BeforeLoad
<1>4. CASE StoreFails(t)
  BY <1>4, SameRowsVanish, MoveIsQuiet DEF StoreFails, storeVars, BeforeLoad
<1>5. CASE GuardBlocks(t)
  BY <1>5, SameRowsVanish, MoveIsQuiet DEF GuardBlocks, storeVars, BeforeLoad
<1>6. CASE Send(t)
  <2>1. Goto(t, "awaiting") => pc'[t] = "awaiting"
    BY DEF Goto, TypeInv, TypeOK
  <2>2. /\ Goto(t, "answered")
        /\ UNCHANGED <<records, drawnFor, work, upstream, request, todo, storeKey>>
    BY <1>6, <2>1 DEF Send, Loud, storeVars
  <2>3. QED
    BY <2>2, SameRowsVanish, MoveIsQuiet DEF BeforeLoad
<1>7. CASE Answer(t)
  BY <1>7, DropsOnly, MoveIsQuiet DEF Answer, BeforeLoad
<1>8. CASE StreamBegins(t)
  BY <1>8, SameRowsVanish, MoveIsQuiet DEF StreamBegins, storeVars, BeforeLoad
<1>9. CASE StreamEnds(t)
  BY <1>9, DropsOnly, MoveIsQuiet DEF StreamEnds, BeforeLoad
<1>10. CASE ResponseFails(t)
  BY <1>10, SameRowsVanish, MoveIsQuiet DEF ResponseFails, storeVars, BeforeLoad
<1>11. QED
  BY <1>1, <1>2, <1>3, <1>4, <1>5, <1>6, <1>7, <1>8, <1>9, <1>10 DEF Proceed, Loud

\* A cancellation is quiet.
LEMMA CancelIsQuiet ==
    ASSUME TypeInv, NEW t \in Tasks, Cancel(t)
    PROVE  Quiet
BY SameRowsVanish, MoveIsQuiet DEF Cancel, storeVars, BeforeLoad

\* A restart writes no session; the copies of lost tasks are dead.
LEMMA RestartIsQuiet ==
    ASSUME TypeInv, NEW ttl \in IdleTtls, Restart(ttl)
    PROVE  Quiet
<1>1. RowsOnlyVanish
  BY PurgeOnlyRemoves DEF Restart, ReopenStore, RowsOnlyVanish, TypeInv, TypeOK
<1>2. QED
  BY <1>1 DEF Restart, ReopenStore, Quiet, BeforeLoad, TypeInv, TypeOK, Running

\* The clock is quiet.
LEMMA TickIsQuiet ==
    ASSUME TypeInv, Tick
    PROVE  Quiet
BY SameRowsVanish DEF Tick, AdvanceClock, taskVars, Quiet

\* A stutter is quiet.
LEMMA StutterIsQuiet ==
    ASSUME UNCHANGED vars
    PROVE  Quiet
BY SameRowsVanish DEF vars, storeVars, taskVars, Quiet

\* A step is quiet, or it is one of the four that write, mask, save or send.
LEMMA QuietOrLoud ==
    ASSUME TypeInv, [Next]_vars
    PROVE  Quiet \/ \E t \in Tasks : Proceed(t) /\ Loud(t)
BY ArriveIsQuiet, ProceedIsQuiet, CancelIsQuiet, RestartIsQuiet, TickIsQuiet, StutterIsQuiet
   DEF Next

-----------------------------------------------------------------------------
(* The steps that are not quiet.                                           *)

\* get_or_create_alias keeps the table injective and forgets nothing.
LEMMA AliasIsAdded ==
    ASSUME NEW table \in Table, NEW key \in Keys, NEW secret \in Secrets, NEW after,
           GetOrCreateAlias(table, key, secret, after), Injective(table)
    PROVE  /\ after \in Table /\ Injective(after)
           /\ Includes(after, table) /\ after[secret] # None
<1>1. CASE table[secret] # None /\ after = table
  BY <1>1 DEF Includes
<1>2. CASE table[secret] = None
  <2>1. PICK n \in 1..MaxLength :
            /\ IsFree(table, key, secret, n)
            /\ after = [table EXCEPT ![secret] = AliasFor(key, secret, n)]
    BY <1>2 DEF GetOrCreateAlias, ShortestFree
  <2>2. AliasFor(key, secret, n) \in Aliases
    BY NewAliasIsAlias
  <2>3. after \in Table
    BY <2>1, <2>2 DEF Table
  <2>4. \A v \in Secrets \ {secret} : after[v] = table[v] /\ after[v] # after[secret]
    BY <2>1 DEF IsFree, Table
  <2>5. after[secret] # None
    BY <2>1, <2>2, AliasAssumption DEF Table
  <2>6. Injective(after)
    BY <2>4 DEF Injective
  <2>7. QED
    BY <1>2, <2>3, <2>4, <2>5, <2>6 DEF Includes
<1>3. QED
  BY <1>1, <1>2 DEF GetOrCreateAlias

\* An alias is published only under a key that some session drew.
LEMMA PublishedKeysAreDrawn ==
    ASSUME TypeInv, CopyInv, NEW key \in Keys, NEW secret, NEW alias,
           Published(key, secret, alias)
    PROVE  drawnFor[key] \in Sessions
<1>1. ASSUME NEW m \in upstream, m.key = key PROVE drawnFor[key] \in Sessions
  BY <1>1 DEF TypeInv, TypeOK, Message, CopyInv, KeysOwned
<1>2. ASSUME NEW u \in Tasks, pc[u] = "guarding", work[u].key = key
      PROVE  drawnFor[key] \in Sessions
  BY <1>2, PipelineAssumption DEF TypeInv, StageOK, CopyInv, KeysOwned
<1>3. QED
  BY <1>1, <1>2 DEF Published

\* Two tasks are never between load and save under one key.
LEMMA MaskingExcludes ==
    ASSUME TypeInv, CopyInv, NEW t \in Tasks, NEW u \in Tasks,
           pc[t] = "masking", pc[u] = "masking", work[t].key = work[u].key
    PROVE  t = u
BY PipelineAssumption DEF TypeInv, StageOK, InCriticalSection, CopyInv, KeysOwned

\* An alias added to the copy of a lock holder agrees with all that is published: under
\* its key nothing is published outside this copy.
LEMMA MaskKeepsInv ==
    ASSUME IInv, NEW t \in Tasks, NEW secret \in Secrets, MaskSecret(t, secret)
    PROVE  CopyInv' /\ PublishedInv'
<1>1. /\ pc[t] = "masking" /\ work[t] \in Session /\ work[t] # None
      /\ UNCHANGED <<records, drawnFor, pc, request, storeKey, upstream>>
      /\ todo' = [todo EXCEPT ![t] = @ \ {secret}]
  BY PipelineAssumption DEF MaskSecret, storeVars, IInv, TypeInv, StageOK
<1>2. PICK after : /\ GetOrCreateAlias(work[t].table, work[t].key, secret, after)
                   /\ work' = [work EXCEPT ![t] = [work[t] EXCEPT !.table = after]]
  BY DEF MaskSecret
<1>3. /\ work[t].table \in Table /\ work[t].key \in Keys /\ Injective(work[t].table)
  BY <1>1 DEF Session, IInv, CopyInv, TablesInjective
<1>4. /\ after \in Table /\ Injective(after)
      /\ Includes(after, work[t].table) /\ after[secret] # None
  BY <1>2, <1>3, AliasIsAdded
<1>5. /\ work'[t].table = after /\ work'[t].key = work[t].key
      /\ \A u \in Tasks \ {t} : work'[u] = work[u] /\ todo'[u] = todo[u]
      /\ todo'[t] = todo[t] \ {secret}
  BY <1>1, <1>2 DEF IInv, TypeInv, TypeOK, Session
<1>6. KeysOwned'
  BY <1>1, <1>5 DEF IInv, CopyInv, KeysOwned
<1>7. TablesInjective'
  BY <1>1, <1>4, <1>5 DEF IInv, CopyInv, TablesInjective
<1>8. ASSUME NEW u \in Tasks PROVE CopyOK(u)'
  <2>1. CopyOK(u)
    BY DEF IInv, CopyInv
  <2>2. CASE u # t
    BY <1>1, <1>5, <2>1, <2>2 DEF CopyOK
  <2>3. CASE u = t
    <3>1. \A x \in request[t].secrets \ todo'[t] : after[x] # None
      <4>1. request[t].secrets \subseteq Secrets
        BY <1>1, PipelineAssumption DEF IInv, TypeInv, StageOK, Running, RequestType
      <4>2. QED
        BY <1>1, <1>4, <1>5, <2>1, <2>3, <4>1 DEF CopyOK, Includes
    <3>2. records[storeKey[t]] # None /\ records[storeKey[t]].session.key = work[t].key =>
            Includes(after, records[storeKey[t]].session.table)
      BY <1>1, <1>4, <2>1, <2>3 DEF CopyOK, Includes
    <3>3. QED
      BY <1>1, <1>5, <2>3, <3>1, <3>2 DEF CopyOK
  <2>4. QED
    BY <2>2, <2>3
<1>9. ASSUME NEW key, NEW a, NEW x, Published(key, a, x)'
      PROVE  Published(key, a, x)
  BY <1>1, <1>5, <1>9 DEF Published
<1>10. ASSUME NEW a \in Secrets, NEW x \in Aliases, NEW u \in Tasks,
              pc'[u] = "masking", Published(work[u].key, a, x)'
       PROVE  work'[u].table[a] = x
  <2>1. Published(work[u].key, a, x) /\ pc[u] = "masking"
    BY <1>1, <1>5, <1>9, <1>10
  <2>2. work[u].table[a] = x
    BY <2>1 DEF IInv, PublishedInv
  <2>3. QED
    BY <1>4, <1>5, <2>2, AliasAssumption DEF Includes
<1>11. PublishedInv'
  BY <1>1, <1>9, <1>10 DEF IInv, PublishedInv
<1>12. QED
  BY <1>6, <1>7, <1>8, <1>11 DEF CopyInv

\* A payload repeats aliases that are published already.
LEMMA SendKeepsInv ==
    ASSUME IInv, NEW t \in Tasks, Send(t), pc'[t] = "awaiting"
    PROVE  CopyInv' /\ PublishedInv'
<1>1. /\ pc[t] = "guarding" /\ pc' = [pc EXCEPT ![t] = "awaiting"]
      /\ work[t] \in Session /\ work[t] # None
      /\ upstream' = upstream \cup Payload(t)
      /\ UNCHANGED <<records, drawnFor, work, todo, request, storeKey>>
  BY PipelineAssumption DEF Send, Goto, storeVars, IInv, TypeInv, TypeOK, StageOK
<1>2. \A m \in Payload(t) :
        /\ m.key = work[t].key /\ m.session = storeKey[t]
        /\ m.alias = work[t].table[m.secret] /\ m.alias # None
  <2>1. \A x \in request[t].secrets : work[t].table[x] # None
    BY <1>1 DEF IInv, CopyInv, CopyOK
  <2>2. QED
    BY <2>1 DEF Payload
<1>3. KeysOwned'
  BY <1>1, <1>2 DEF IInv, CopyInv, KeysOwned
<1>4. TablesInjective'
  BY <1>1 DEF IInv, CopyInv, TablesInjective
<1>5. ASSUME NEW u \in Tasks PROVE CopyOK(u)'
  BY <1>1 DEF IInv, CopyInv, CopyOK, TypeInv, TypeOK
<1>6. ASSUME NEW key, NEW a, NEW x, Published(key, a, x)'
      PROVE  Published(key, a, x)
  <2>1. ASSUME NEW m \in Payload(t), m.key = key, m.secret = a, m.alias = x
        PROVE  Published(key, a, x)
    BY <1>1, <1>2, <2>1 DEF Published
  <2>2. ASSUME NEW u \in Tasks, pc'[u] = "guarding" PROVE pc[u] = "guarding"
    BY <1>1, <2>2 DEF IInv, TypeInv, TypeOK
  <2>3. QED
    BY <1>1, <1>6, <2>1, <2>2 DEF Published
<1>7. ASSUME NEW u \in Tasks, pc'[u] = "masking" PROVE pc[u] = "masking"
  BY <1>1, <1>7 DEF IInv, TypeInv, TypeOK
<1>8. PublishedInv'
  BY <1>1, <1>2, <1>6, <1>7 DEF IInv, PublishedInv
<1>9. QED
  BY <1>3, <1>4, <1>5, <1>8 DEF CopyInv

\* A loaded table is the row's; a created session has a key nobody has used.
LEMMA LoadKeepsInv ==
    ASSUME IInv, NEW t \in Tasks, LoadSession(t), pc'[t] = "masking"
    PROVE  CopyInv' /\ PublishedInv'
<1> DEFINE s == storeKey[t]
<1>1. /\ pc[t] = "queued" /\ owner[s] = t /\ s \in Sessions
      /\ pc' = [pc EXCEPT ![t] = "masking"]
      /\ work[t] = None /\ todo[t] = request[t].secrets
      /\ UNCHANGED <<request, storeKey, todo, upstream>>
  <2>1. CopyOK(t) /\ StageOK(t)
    BY DEF IInv, CopyInv, TypeInv
  <2>2. Goto(t, "selfwait") => pc'[t] # "masking"
    BY DEF Goto, IInv, TypeInv, TypeOK
  <2>3. QED
    BY <2>1, <2>2 DEF LoadSession, Goto, CopyOK, StageOK, Running
<1>2. ASSUME NEW u \in Tasks, pc[u] = "masking" PROVE u # t /\ storeKey[u] # s
  BY <1>1, <1>2 DEF IInv, TypeInv, StageOK, InCriticalSection
<1>3. CASE /\ CreateSession(s)
           /\ work' = [work EXCEPT ![t] = NewSession(FreshKey, now)]
  <2> DEFINE new == NewSession(FreshKey, now)
  <2>1. /\ FreshKey \in Keys /\ drawnFor[FreshKey] = None
        /\ drawnFor' = [drawnFor EXCEPT ![FreshKey] = s]
    BY <1>3, FreshKeyIsFresh DEF CreateSession
  <2>2. new \in Session /\ new # None /\ new.key = FreshKey /\ new.table = EmptyTable
    BY <2>1, NewSessionIsTyped, PipelineAssumption DEF IInv, TypeInv, TypeOK, NewSession
  <2>3. /\ records'[s].session.key = FreshKey
        /\ records'[s].session.table = EmptyTable
        /\ \A x \in Sessions \ {s} : records'[x] \in {None, records[x]}
    <3>1. records' = [PurgeExpired(records, now) EXCEPT ![s] = RowOf(new, now)]
      BY <1>3 DEF CreateSession, WriteSession
    <3>2. PurgeExpired(records, now) \in Rows
      BY PurgeIsTyped DEF IInv, TypeInv, TypeOK
    <3>3. RowOf(new, now).session.key = FreshKey /\ RowOf(new, now).session.table = EmptyTable
      BY <2>2 DEF RowOf, Session
    <3>4. QED
      BY <1>1, <3>1, <3>2, <3>3, PurgeOnlyRemoves DEF Rows, IInv, TypeInv, TypeOK
  <2>4. \A u \in Tasks : work'[u] = IF u = t THEN new ELSE work[u]
    BY <1>3 DEF IInv, TypeInv, TypeOK
  <2>5. \A key \in Keys : drawnFor[key] \in Sessions => key # FreshKey /\ drawnFor'[key] = drawnFor[key]
    BY <2>1, StoreAssumption DEF IInv, TypeInv, TypeOK, StoreTypeOK
  <2>6. KeysOwned'
    <3>1. ASSUME NEW x \in Sessions, records'[x] # None
          PROVE  drawnFor'[records'[x].session.key] = x
      <4>1. CASE x = s
        BY <1>1, <2>1, <2>3, <4>1 DEF IInv, TypeInv, TypeOK, StoreTypeOK
      <4>2. CASE x # s
        <5>1. records'[x] = records[x] /\ records[x] \in Row
          BY <2>3, <3>1, <4>2 DEF IInv, TypeInv, TypeOK, StoreTypeOK
        <5>2. records[x].session.key \in Keys /\ drawnFor[records[x].session.key] = x
          BY <3>1, <5>1 DEF Row, Session, IInv, CopyInv, KeysOwned
        <5>3. QED
          BY <2>5, <5>1, <5>2
      <4>3. QED
        BY <4>1, <4>2
    <3>2. ASSUME NEW u \in Tasks, work'[u] # None
          PROVE  storeKey'[u] \in Sessions /\ drawnFor'[work'[u].key] = storeKey'[u]
      <4>1. CASE u = t
        BY <1>1, <2>1, <2>2, <2>4, <4>1 DEF IInv, TypeInv, TypeOK, StoreTypeOK
      <4>2. CASE u # t
        <5>1. work'[u] = work[u] /\ work[u].key \in Keys
          BY <2>4, <3>2, <4>2 DEF IInv, TypeInv, TypeOK, Session
        <5>2. storeKey[u] \in Sessions /\ drawnFor[work[u].key] = storeKey[u]
          BY <3>2, <5>1 DEF IInv, CopyInv, KeysOwned
        <5>3. QED
          BY <1>1, <2>5, <5>1, <5>2
      <4>3. QED
        BY <4>1, <4>2
    <3>3. ASSUME NEW m \in upstream' PROVE drawnFor'[m.key] = m.session
      BY <1>1, <2>5 DEF IInv, TypeInv, TypeOK, Message, CopyInv, KeysOwned
    <3>4. QED
      BY <3>1, <3>2, <3>3 DEF KeysOwned
  <2>7. Injective(EmptyTable)
    BY DEF Injective, EmptyTable
  <2>8. TablesInjective'
    BY <2>2, <2>3, <2>4, <2>7 DEF IInv, CopyInv, TablesInjective
  <2>9. ASSUME NEW u \in Tasks PROVE CopyOK(u)'
    <3>1. CASE u = t
      BY <1>1, <2>2, <2>3, <2>4, <3>1 DEF CopyOK, Includes, IInv, TypeInv, TypeOK
    <3>2. CASE u # t
      <4>1. CopyOK(u) /\ pc'[u] = pc[u] /\ work'[u] = work[u]
        BY <1>1, <2>4, <3>2 DEF IInv, CopyInv, TypeInv, TypeOK
      <4>2. pc[u] = "masking" =>
                storeKey[u] \in Sessions /\ records'[storeKey[u]] \in {None, records[storeKey[u]]}
        BY <1>2, <2>3 DEF IInv, TypeInv, StageOK, Running
      <4>3. QED
        BY <1>1, <4>1, <4>2 DEF CopyOK
    <3>3. QED
      BY <3>1, <3>2
  <2>10. ASSUME NEW key, NEW a, NEW x, Published(key, a, x)'
         PROVE  Published(key, a, x)
    BY <1>1, <2>4, <2>10 DEF Published, IInv, TypeInv, TypeOK
  <2>11. ASSUME NEW a, NEW x PROVE ~ Published(FreshKey, a, x)
    BY <2>1, PublishedKeysAreDrawn, StoreAssumption DEF IInv
  <2>12. ASSUME NEW a \in Secrets, NEW x \in Aliases, NEW y \in Sessions,
                records'[y] # None, Published(records[y].session.key, a, x)'
         PROVE  records'[y].session.table[a] = x
    <3>1. y # s /\ records'[y] = records[y]
      BY <2>3, <2>10, <2>11, <2>12
    <3>2. QED
      BY <2>10, <2>12, <3>1 DEF IInv, PublishedInv
  <2>13. ASSUME NEW a \in Secrets, NEW x \in Aliases, NEW u \in Tasks,
                pc'[u] = "masking", Published(work[u].key, a, x)'
         PROVE  work'[u].table[a] = x
    <3>1. u # t
      BY <2>2, <2>4, <2>10, <2>11, <2>13
    <3>2. QED
      BY <1>1, <2>4, <2>10, <2>13, <3>1 DEF IInv, PublishedInv, TypeInv, TypeOK
  <2>14. PublishedInv'
    BY <1>1, <2>10, <2>12, <2>13 DEF IInv, PublishedInv
  <2>15. QED
    BY <2>6, <2>8, <2>9, <2>14 DEF CopyInv
<1>4. CASE /\ records[s] # None
           /\ work' = [work EXCEPT ![t] = records[s].session]
           /\ UNCHANGED <<records, drawnFor>>
  <2>1. /\ records[s].session \in Session
        /\ \A u \in Tasks : work'[u] = IF u = t THEN records[s].session ELSE work[u]
    BY <1>1, <1>4 DEF IInv, TypeInv, TypeOK, StoreTypeOK, Row
  <2>2. KeysOwned'
    BY <1>1, <1>4, <2>1 DEF IInv, CopyInv, KeysOwned
  <2>3. TablesInjective'
    BY <1>1, <1>4, <2>1 DEF IInv, CopyInv, TablesInjective
  <2>4. ASSUME NEW u \in Tasks PROVE CopyOK(u)'
    BY <1>1, <1>4, <2>1 DEF CopyOK, Includes, IInv, CopyInv, TypeInv, TypeOK
  <2>5. ASSUME NEW key, NEW a, NEW x, Published(key, a, x)'
        PROVE  Published(key, a, x)
    BY <1>1, <2>1, <2>5 DEF Published, IInv, TypeInv, TypeOK
  <2>6. ASSUME NEW a \in Secrets, NEW x \in Aliases, NEW u \in Tasks,
               pc'[u] = "masking", Published(work[u].key, a, x)'
        PROVE  work'[u].table[a] = x
    <3>1. CASE u = t
      BY <1>1, <1>4, <2>1, <2>5, <2>6, <3>1 DEF IInv, PublishedInv
    <3>2. CASE u # t
      BY <1>1, <2>1, <2>5, <2>6, <3>2 DEF IInv, PublishedInv, TypeInv, TypeOK
    <3>3. QED
      BY <3>1, <3>2
  <2>7. PublishedInv'
    BY <1>1, <1>4, <2>5, <2>6 DEF IInv, PublishedInv
  <2>8. QED
    BY <2>2, <2>3, <2>4, <2>7 DEF CopyInv
<1>5. QED
  <2>1. Goto(t, "selfwait") => pc'[t] # "masking"
    BY DEF Goto, IInv, TypeInv, TypeOK
  <2>2. QED
    BY <1>3, <1>4, <2>1 DEF LoadSession, Alive, Present

\* A saved table includes the row it replaces, if that has the same key.
LEMMA SaveKeepsInv ==
    ASSUME IInv, NEW t \in Tasks, SaveSession(t)
    PROVE  CopyInv' /\ PublishedInv'
<1> DEFINE s == storeKey[t]
<1>1. /\ pc[t] = "masking" /\ todo[t] = {} /\ s \in Sessions
      /\ work[t] \in Session /\ work[t] # None /\ owner[s] = t
      /\ pc' = [pc EXCEPT ![t] = "guarding"]
      /\ UNCHANGED <<drawnFor, work, todo, request, storeKey, upstream>>
  BY PipelineAssumption
     DEF SaveSession, Goto, IInv, TypeInv, StageOK, InCriticalSection, Running
<1>2. /\ records'[s].session.key = work[t].key
      /\ records'[s].session.table = work[t].table
      /\ \A x \in Sessions \ {s} : records'[x] \in {None, records[x]}
  <2>1. records' = [PurgeExpired(records, now) EXCEPT ![s] = RowOf(work[t], now)]
    BY DEF SaveSession, WriteSession
  <2>2. PurgeExpired(records, now) \in Rows
    BY PurgeIsTyped DEF IInv, TypeInv, TypeOK
  <2>3. RowOf(work[t], now).session.key = work[t].key
        /\ RowOf(work[t], now).session.table = work[t].table
    BY <1>1 DEF RowOf, Session
  <2>4. QED
    BY <1>1, <2>1, <2>2, <2>3, PurgeOnlyRemoves DEF Rows, IInv, TypeInv, TypeOK
<1>3. ASSUME NEW u \in Tasks, pc'[u] = "masking"
      PROVE  /\ u # t /\ pc[u] = "masking"
             /\ storeKey[u] \in Sessions \ {s}
             /\ work[u].key # work[t].key
  <2>1. u # t /\ pc[u] = "masking"
    BY <1>1, <1>3 DEF IInv, TypeInv, TypeOK
  <2>2. storeKey[u] \in Sessions /\ storeKey[u] # s
    BY <1>1, <2>1 DEF IInv, TypeInv, StageOK, InCriticalSection, Running
  <2>3. QED
    BY <1>1, <2>1, <2>2, MaskingExcludes DEF IInv
<1>4. KeysOwned'
  BY <1>1, <1>2 DEF IInv, CopyInv, KeysOwned
<1>5. TablesInjective'
  BY <1>1, <1>2 DEF IInv, CopyInv, TablesInjective
<1>6. ASSUME NEW u \in Tasks PROVE CopyOK(u)'
  <2>1. CopyOK(u)
    BY DEF IInv, CopyInv
  <2>2. CASE u = t
    BY <1>1, <2>1, <2>2 DEF CopyOK, IInv, TypeInv, TypeOK
  <2>3. CASE u # t
    <3>1. pc'[u] = pc[u]
      BY <1>1, <2>3 DEF IInv, TypeInv, TypeOK
    <3>2. pc[u] = "masking" => records'[storeKey[u]] \in {None, records[storeKey[u]]}
      BY <1>2, <1>3, <3>1
    <3>3. QED
      BY <1>1, <2>1, <3>1, <3>2 DEF CopyOK
  <2>4. QED
    BY <2>2, <2>3
<1>7. ASSUME NEW key, NEW a, NEW x, Published(key, a, x)'
      PROVE  Published(key, a, x) \/ (key = work[t].key /\ work[t].table[a] = x)
  <2>1. \A u \in Tasks : pc'[u] = "guarding" => u = t \/ pc[u] = "guarding"
    BY <1>1 DEF IInv, TypeInv, TypeOK
  <2>2. QED
    BY <1>1, <1>7, <2>1 DEF Published
<1>8. ASSUME NEW key, key = work[t].key, NEW a \in Secrets, NEW x \in Aliases,
             Published(key, a, x)'
      PROVE  work[t].table[a] = x
  BY <1>1, <1>7, <1>8 DEF IInv, PublishedInv
<1>9. ASSUME NEW key \in Keys, NEW a \in Secrets, NEW b \in Secrets,
             NEW x \in Aliases, NEW y \in Aliases,
             Published(key, a, x)', Published(key, b, y)'
      PROVE  a = b <=> x = y
  <2>1. CASE key = work[t].key
    <3>1. work[t].table[a] = x /\ work[t].table[b] = y
      BY <1>8, <1>9, <2>1
    <3>2. x # None /\ y # None
      BY AliasAssumption
    <3>3. QED
      BY <1>1, <3>1, <3>2 DEF IInv, CopyInv, TablesInjective, Injective
  <2>2. CASE key # work[t].key
    BY <1>7, <1>9, <2>2 DEF IInv, PublishedInv
  <2>3. QED
    BY <2>1, <2>2
<1>10. ASSUME NEW a \in Secrets, NEW x \in Aliases, NEW y \in Sessions,
              records'[y] # None, Published(records[y].session.key, a, x)'
       PROVE  records'[y].session.table[a] = x
  <2>1. CASE y = s
    <3>1. records'[y].session.key = work[t].key
      BY <1>2, <2>1
    <3>2. QED
      BY <1>2, <1>8, <1>10, <2>1, <3>1
  <2>2. CASE y # s
    <3>1. records'[y] = records[y]
      BY <1>2, <1>10, <2>2
    <3>2. drawnFor[records[y].session.key] = y /\ drawnFor[work[t].key] = s
      BY <1>1, <1>10, <3>1 DEF IInv, CopyInv, KeysOwned
    <3>3. Published(records[y].session.key, a, x)
      BY <1>7, <1>10, <2>2, <3>1, <3>2
    <3>4. QED
      BY <1>10, <3>1, <3>3 DEF IInv, PublishedInv
  <2>3. QED
    BY <2>1, <2>2
<1>11. ASSUME NEW a \in Secrets, NEW x \in Aliases, NEW u \in Tasks,
              pc'[u] = "masking", Published(work[u].key, a, x)'
       PROVE  work'[u].table[a] = x
  <2>1. work' = work /\ work[u].key # work[t].key /\ pc[u] = "masking"
    BY <1>1, <1>3, <1>11
  <2>2. Published(work[u].key, a, x)
    BY <1>7, <1>11, <2>1
  <2>3. QED
    BY <2>1, <2>2 DEF IInv, PublishedInv
<1>12. PublishedInv'
  BY <1>1, <1>9, <1>10, <1>11 DEF IInv, PublishedInv
<1>13. QED
  BY <1>4, <1>5, <1>6, <1>12 DEF CopyInv

-----------------------------------------------------------------------------
(* The theorems.                                                           *)

\* The inductive invariant holds at the start.
LEMMA InvInit == Init => IInv
<1> SUFFICES ASSUME Init PROVE IInv
  OBVIOUS
<1>1. CopyInv
  BY DEF Init, StoreInit, CopyInv, KeysOwned, TablesInjective, CopyOK
<1>2. PublishedInv
  BY StoreAssumption DEF Init, StoreInit, PublishedInv, Published
<1>3. QED
  BY <1>1, <1>2, TypeInit DEF IInv

\* Every step keeps the inductive invariant.
LEMMA InvStep == IInv /\ [Next]_vars => IInv'
<1> SUFFICES ASSUME IInv, [Next]_vars PROVE IInv'
  OBVIOUS
<1>1. TypeInv'
  BY TypeStep DEF IInv
<1>2. CASE Quiet
  BY <1>1, <1>2, QuietKeepsCopies, QuietKeepsPublished DEF IInv
<1>3. ASSUME NEW t \in Tasks, Loud(t) PROVE IInv'
  BY <1>1, <1>3, LoadKeepsInv, MaskKeepsInv, SaveKeepsInv, SendKeepsInv DEF Loud, IInv
<1>4. QED
  BY <1>2, <1>3, QuietOrLoud DEF IInv

\* The inductive invariant: types, ownership of the lock, ownership of the keys, and
\* what is published is in the row and in the copy that will replace the row.
THEOREM SpecIInv == Spec => []IInv
BY InvInit, InvStep, PTL DEF Spec

\* No save loses an alias that another request of the session recorded and sent
\* (prepare_request loads, masks and saves under one lock).
THEOREM SentAliasesAreRecorded == Spec => []SentIsRecorded
<1>1. IInv => SentIsRecorded
  <2> SUFFICES ASSUME IInv, NEW m \in upstream,
                      records[m.session] # None, records[m.session].session.key = m.key
               PROVE  records[m.session].session.table[m.secret] = m.alias
    BY DEF SentIsRecorded
  <2>1. m.session \in Sessions /\ m.secret \in Secrets /\ m.alias \in Aliases
    BY DEF IInv, TypeInv, TypeOK, Message, PublishedInv
  <2>2. Published(m.key, m.secret, m.alias)
    BY DEF Published
  <2>3. QED
    BY <2>1, <2>2 DEF IInv, PublishedInv
<1>2. QED
  BY <1>1, SpecIInv, PTL

\* No alias stands for two secrets, in a row or in a copy (aliases/factory.py tries
\* longer tokens until the alias is free).
THEOREM AliasTablesAreInjective == Spec => []TablesInjective
<1>1. IInv => TablesInjective
  BY DEF IInv, CopyInv
<1>2. QED
  BY <1>1, SpecIInv, PTL

\* A step never takes an alias out of a row that keeps its key.
LEMMA RowsGrowStep ==
    ASSUME IInv, [Next]_vars
    PROVE  RowsGrow
<1>1. ASSUME RowsOnlyVanish PROVE RowsGrow
  BY <1>1 DEF RowsGrow, RowsOnlyVanish, Includes
<1>2. ASSUME NEW t \in Tasks, LoadSession(t), CreateSession(storeKey[t]) PROVE RowsGrow
  <2> DEFINE s == storeKey[t]
  <2>1. s \in Sessions /\ FreshKey \in Keys /\ drawnFor[FreshKey] = None
    BY <1>2, FreshKeyIsFresh DEF LoadSession, CreateSession, IInv, TypeInv, StageOK, Running
  <2>2. /\ records' = [PurgeExpired(records, now) EXCEPT ![s] = RowOf(NewSession(FreshKey, now), now)]
        /\ PurgeExpired(records, now) \in Rows
    BY <1>2, PurgeIsTyped DEF CreateSession, WriteSession, IInv, TypeInv, TypeOK
  <2>3. records'[s].session.key = FreshKey
    <3>1. NewSession(FreshKey, now) \in Session /\ NewSession(FreshKey, now).key = FreshKey
      BY <2>1, NewSessionIsTyped DEF IInv, TypeInv, TypeOK, NewSession
    <3>2. QED
      BY <2>1, <2>2, <3>1 DEF RowOf, Rows, Session
  <2>4. records[s] # None => records[s].session.key # FreshKey
    BY <2>1, StoreAssumption DEF IInv, CopyInv, KeysOwned
  <2>5. \A x \in Sessions \ {s} : records'[x] \in {None, records[x]}
    BY <2>1, <2>2, PurgeOnlyRemoves DEF Rows, IInv, TypeInv, TypeOK
  <2>6. QED
    BY <2>3, <2>4, <2>5 DEF RowsGrow, Includes
<1>3. ASSUME NEW t \in Tasks, SaveSession(t) PROVE RowsGrow
  <2> DEFINE s == storeKey[t]
  <2>1. /\ pc[t] = "masking" /\ s \in Sessions /\ work[t] \in Session
        /\ records' = [PurgeExpired(records, now) EXCEPT ![s] = RowOf(work[t], now)]
        /\ PurgeExpired(records, now) \in Rows
    BY <1>3, PurgeIsTyped
       DEF SaveSession, WriteSession, IInv, TypeInv, TypeOK, StageOK, Running
  <2>2. /\ records'[s].session.key = work[t].key
        /\ records'[s].session.table = work[t].table
    BY <2>1 DEF RowOf, Rows, Session
  <2>3. records[s] # None /\ records[s].session.key = work[t].key =>
            Includes(work[t].table, records[s].session.table)
    BY <2>1 DEF IInv, CopyInv, CopyOK
  <2>4. \A x \in Sessions \ {s} : records'[x] \in {None, records[x]}
    BY <2>1, PurgeOnlyRemoves DEF Rows, IInv, TypeInv, TypeOK
  <2>5. QED
    BY <2>2, <2>3, <2>4 DEF RowsGrow, Includes
<1>4. ASSUME NEW t \in Tasks, Loud(t) PROVE RowsGrow
  <2>1. CASE LoadSession(t) /\ pc'[t] = "masking"
    <3>1. CreateSession(storeKey[t]) \/ records' = records
      BY <2>1 DEF LoadSession, Goto, IInv, TypeInv, TypeOK
    <3>2. QED
      BY <1>1, <1>2, <2>1, <3>1, SameRowsVanish
  <2>2. CASE (\E secret \in Secrets : MaskSecret(t, secret)) \/ Send(t)
    <3>1. records' = records
      BY <2>2 DEF MaskSecret, Send, storeVars
    <3>2. QED
      BY <1>1, <3>1, SameRowsVanish
  <2>3. QED
    BY <1>3, <1>4, <2>1, <2>2 DEF Loud
<1>5. QED
  BY <1>1, <1>4, QuietOrLoud DEF Quiet, IInv

\* What a row recorded stands while the row is under its key.
THEOREM RecordedAliasesStand == Spec => RecordedStands
<1>1. IInv /\ [Next]_vars => RowsGrow
  BY RowsGrowStep
<1>2. QED
  BY <1>1, SpecIInv, PTL DEF Spec, RecordedStands

\* What the invariant says of published aliases, in the terms of the ledger.
LEMMA IssuedIsConsistent ==
    IInv => Issued \subseteq Ledger!Issue /\ Ledger!Consistent(Issued)
<1> SUFFICES ASSUME IInv PROVE Issued \subseteq Ledger!Issue /\ Ledger!Consistent(Issued)
  OBVIOUS
<1>1. \A m \in upstream : /\ m.key \in Keys /\ m.secret \in Secrets /\ m.alias \in Aliases
                          /\ Published(m.key, m.secret, m.alias)
  BY DEF IInv, TypeInv, TypeOK, Message, PublishedInv, Published
<1>2. Issued \subseteq Ledger!Issue
  BY <1>1 DEF Issued, Ledger!Issue
<1>3. ASSUME NEW m \in upstream, NEW n \in upstream, m.key = n.key
      PROVE  m.secret = n.secret <=> m.alias = n.alias
  BY <1>1, <1>3 DEF IInv, PublishedInv
<1>4. QED
  BY <1>2, <1>3 DEF Issued, Ledger!Consistent

\* A send is a step of the ledger, everything else a stutter.
LEMMA LedgerStep ==
    ASSUME IInv, IInv', [Next]_vars
    PROVE  [Ledger!IssuePayload]_Issued
<1>1. CASE upstream' = upstream
  BY <1>1 DEF Issued
<1>2. ASSUME NEW t \in Tasks, Send(t), upstream' = upstream \cup Payload(t)
      PROVE  Ledger!IssuePayload
  <2>1. work[t].key \in Keys
    BY <1>2 DEF Send, IInv, TypeInv, StageOK, Session
  <2>2. Issued \subseteq Issued'
    BY <1>2 DEF Issued
  <2>3. Issued' \subseteq Ledger!Issue /\ Ledger!Consistent(Issued')
    <3>1. IInv' => (Issued \subseteq Ledger!Issue /\ Ledger!Consistent(Issued))'
      BY IssuedIsConsistent, PTL
    <3>2. QED
      BY <3>1 DEF Ledger!Consistent, Ledger!Issue
  <2>4. \A x \in Issued' \ Issued : x.key = work[t].key
    BY <1>2 DEF Issued, Payload
  <2>5. QED
    BY <2>1, <2>2, <2>3, <2>4 DEF Ledger!IssuePayload
<1>3. upstream' = upstream \/ \E t \in Tasks : Send(t) /\ upstream' = upstream \cup Payload(t)
  <2>1. ASSUME NEW t \in Tasks, Loud(t)
        PROVE  upstream' = upstream \/ (Send(t) /\ upstream' = upstream \cup Payload(t))
    BY <2>1 DEF Loud, LoadSession, MaskSecret, SaveSession, Send
  <2>2. QED
    BY <2>1, QuietOrLoud DEF Quiet, IInv
<1>4. QED
  BY <1>1, <1>2, <1>3

\* The gateway implements the ledger: under one key an alias stands for one secret
\* and a secret has one alias in everything that was ever sent.
THEOREM GatewayImplementsLedger == Spec => ImplementsLedger
<1>1. Init => Ledger!LedgerInit
  BY DEF Init, Issued, Ledger!LedgerInit
<1>2. IInv /\ IInv' /\ [Next]_vars => [Ledger!IssuePayload]_Issued
  BY LedgerStep
<1>3. QED
  BY <1>1, <1>2, SpecIInv, PTL DEF Spec, ImplementsLedger, Ledger!LedgerSpec

-----------------------------------------------------------------------------
(* Continued turns.                                                        *)

\* The upstream received all that such a task will ever send.
Spoken == {"streaming", "answered", "failed", "lost"}

Continuing == (Running \cup {"answered"}) \ {"reaping"}

Continues(t) == pc[t] \in Continuing /\ AsksForPrevious(request[t])

\* A binding leads to the session of its response; a turn that continues another one
\* is in that session and maps what the other one sent.
TurnInv ==
    /\ \A u \in known : pc[u] \in Spoken
    /\ \A t \in Tasks : pc[t] = "streaming" => t \in known
    /\ \A r \in Responses :
            bindings[r] # None => r \in known /\ bindings[r].session = storeKey[r]
    /\ \A t \in Tasks :
            Continues(t) =>
                /\ request[t].previous \in known
                /\ storeKey[t] = storeKey[request[t].previous]
                /\ FitsConnection(request[t], storeKey[t])
    /\ \A t \in Tasks, m \in upstream :
            /\ Continues(t) /\ pc[t] # "queued" /\ pc[t] # "selfwait"
            /\ m.turn = request[t].previous /\ m.key = work[t].key
            => work[t].table[m.secret] = m.alias

\* No step moves a task to another session or back to an earlier part of its turn.
Forward ==
    \A u \in Tasks :
        /\ pc[u] # "idle" => UNCHANGED <<request[u], storeKey[u]>>
        /\ pc[u] \in Spoken => pc'[u] \in Spoken
        /\ u \in known' => u \in known \/ (pc[u] # "idle" /\ pc'[u] \in Spoken)
        /\ pc[u] # "idle" /\ pc'[u] \in Continuing => pc[u] \in Continuing
        /\ pc[u] \in BeforeLoad => pc'[u] \notin {"guarding", "awaiting", "streaming", "answered"}

\* A task that changes its stage keeps its request and its session.
LEMMA MoveIsForward ==
    ASSUME TypeInv, NEW t \in Tasks, NEW stage, Goto(t, stage), pc[t] # "idle",
           UNCHANGED <<request, storeKey>>,
           \/ known' = known
           \/ known' = known \cup {t} /\ stage \in Spoken,
           pc[t] \in Spoken => stage \in Spoken,
           stage \in Continuing => pc[t] \in Continuing,
           pc[t] \in BeforeLoad => stage \notin {"guarding", "awaiting", "streaming", "answered"}
    PROVE  Forward
<1>1. pc' = [pc EXCEPT ![t] = stage] /\ pc \in [Tasks -> Stages]
  BY DEF Goto, TypeInv, TypeOK
<1>2. QED
  BY <1>1 DEF Forward, BeforeLoad

\* The steps of a running task are forward.
LEMMA ProceedIsForward ==
    ASSUME TypeInv, NEW t \in Tasks, Proceed(t)
    PROVE  Forward
<1> USE DEF Continuing, Spoken, Running, BeforeLoad
<1>1. CASE Reap(t)
  BY <1>1, MoveIsForward DEF Reap
<1>2. CASE LoadSession(t)
  <2>1. PICK stage \in {"masking", "selfwait"} : Goto(t, stage)
    BY <1>2 DEF LoadSession
  <2>2. QED
    BY <1>2, <2>1, MoveIsForward DEF LoadSession
<1>3. CASE \E secret \in Secrets : MaskSecret(t, secret)
  BY <1>3 DEF MaskSecret, Forward
<1>4. CASE MaskingFails(t)
  BY <1>4, MoveIsForward DEF MaskingFails
<1>5. CASE SaveSession(t)
  BY <1>5, MoveIsForward DEF SaveSession
<1>6. CASE StoreFails(t)
  BY <1>6, MoveIsForward DEF StoreFails
<1>7. CASE GuardBlocks(t)
  BY <1>7, MoveIsForward DEF GuardBlocks
<1>8. CASE Send(t)
  <2>1. PICK stage \in {"answered", "awaiting"} : Goto(t, stage)
    BY <1>8 DEF Send
  <2>2. QED
    BY <1>8, <2>1, MoveIsForward DEF Send
<1>9. CASE Answer(t)
  BY <1>9, MoveIsForward DEF Answer
<1>10. CASE StreamBegins(t)
  BY <1>10, MoveIsForward DEF StreamBegins
<1>11. CASE StreamEnds(t)
  BY <1>11, MoveIsForward DEF StreamEnds
<1>12. CASE ResponseFails(t)
  BY <1>12, MoveIsForward DEF ResponseFails
<1>13. QED
  BY <1>1, <1>2, <1>3, <1>4, <1>5, <1>6, <1>7, <1>8, <1>9, <1>10, <1>11, <1>12 DEF Proceed

\* The arrival of one request changes no other.
LEMMA ArriveIsForward ==
    ASSUME TypeInv, NEW t \in Tasks, Arrive(t)
    PROVE  Forward /\ known' = known
<1>1. PICK r \in Requests :
            /\ pc[t] = "idle"
            /\ \/ \E s, stage : Join(t, r, s, stage) /\ stage \in {"queued", "reaping"}
               \/ Refuse(t, r)
  BY DEF Arrive, ArriveWithSession, ArriveUnstable, ArriveWithPrevious, LookupFails
<1>2. /\ \A u \in Tasks \ {t} :
            pc'[u] = pc[u] /\ UNCHANGED <<request[u], storeKey[u]>>
      /\ pc'[t] \notin {"guarding", "awaiting", "streaming", "answered"}
  BY <1>1 DEF Join, Refuse, Goto, TypeInv, TypeOK
<1>3. known' = known
  BY <1>1 DEF Join, Refuse
<1>4. ASSUME NEW u \in Tasks
      PROVE  /\ pc[u] # "idle" => UNCHANGED <<request[u], storeKey[u]>>
             /\ pc[u] \in Spoken => pc'[u] \in Spoken
             /\ pc[u] # "idle" /\ pc'[u] \in Continuing => pc[u] \in Continuing
             /\ pc[u] \in BeforeLoad => pc'[u] \notin {"guarding", "awaiting", "streaming", "answered"}
  <2>1. CASE u = t
    BY <1>1, <1>2, <2>1 DEF Spoken
  <2>2. CASE u # t
    BY <1>2, <2>2 DEF BeforeLoad
  <2>3. QED
    BY <2>1, <2>2
<1>5. QED
  BY <1>3, <1>4 DEF Forward

\* No step takes a request back.
LEMMA StepIsForward ==
    ASSUME TypeInv, [Next]_vars
    PROVE  Forward
<1> USE DEF Continuing, Spoken, Running, BeforeLoad
<1>1. ASSUME NEW t \in Tasks, Cancel(t) PROVE Forward
  BY <1>1, MoveIsForward DEF Cancel
<1>2. ASSUME NEW ttl \in IdleTtls, Restart(ttl) PROVE Forward
  BY <1>2 DEF Restart, Forward, TypeInv, TypeOK
<1>3. CASE Tick \/ UNCHANGED vars
  BY <1>3 DEF Tick, vars, taskVars, Forward
<1>4. QED
  BY <1>1, <1>2, <1>3, ArriveIsForward, ProceedIsForward DEF Next

-----------------------------------------------------------------------------
(* Bindings.                                                               *)

\* A client never forgets a response id.
LEMMA KnownGrows ==
    ASSUME [Next]_vars
    PROVE  known \subseteq known'
BY DEF Next, Arrive, ArriveWithSession, ArriveUnstable, ArriveWithPrevious, LookupFails,
       Join, Refuse, Proceed, Reap, LoadSession, MaskSecret, MaskingFails, SaveSession,
       StoreFails, GuardBlocks, Send, Answer, StreamBegins, StreamEnds, ResponseFails,
       Cancel, Restart, Tick, vars, taskVars

\* A binding is kept, deleted, or made by the task whose response it is.
LEMMA BindingStaysOrIsMade ==
    ASSUME TypeInv, [Next]_vars, NEW r \in Responses
    PROVE  \/ bindings'[r] \in {None, bindings[r]}
           \/ \E t \in Tasks : (Answer(t) \/ StreamEnds(t)) /\ r = t
                             /\ bindings'[r].session = storeKey[t]
<1>1. StoreTypeOK /\ PurgeExpired(bindings, now) \in BindingRows
  BY PurgeIsTyped DEF TypeInv, TypeOK
<1>2. PurgeExpired(bindings, now)[r] \in {None, bindings[r]}
  BY <1>1 DEF PurgeExpired, StoreTypeOK
<1>3. ASSUME NEW t \in Tasks, Answer(t) \/ StreamEnds(t)
      PROVE  bindings'[r] \in {None, bindings[r]} \/ (r = t /\ bindings'[r].session = storeKey[t])
  <2>1. BindResponse(t, storeKey[t])
    BY <1>3 DEF Answer, StreamEnds
  <2>2. QED
    BY <1>1, <1>2, <2>1 DEF BindResponse, BindingRows
<1>4. CASE bindings' = PurgeExpired(bindings, now) \/ bindings' = bindings
  BY <1>2, <1>4
<1>5. ASSUME NEW s, DeleteSession(s) PROVE bindings'[r] \in {None, bindings[r]}
  BY <1>2, <1>5 DEF DeleteSession
<1>6. ASSUME NEW q, bindings' = DropExpired(bindings, q, now)
      PROVE  bindings'[r] \in {None, bindings[r]}
  BY <1>1, <1>6 DEF DropExpired, StoreTypeOK
<1>7. ASSUME NEW t \in Tasks, Proceed(t) \/ Cancel(t), ~ Answer(t), ~ StreamEnds(t)
      PROVE  \/ bindings' = PurgeExpired(bindings, now) \/ bindings' = bindings
             \/ \E s : DeleteSession(s)
  BY <1>7 DEF Proceed, Reap, LoadSession, CreateSession, WriteSession, MaskSecret, MaskingFails,
              SaveSession, StoreFails, GuardBlocks, Send, StreamBegins, ResponseFails, Cancel,
              storeVars
<1>8. ASSUME NEW t \in Tasks, Arrive(t)
      PROVE  bindings' = bindings \/ \E q : bindings' = DropExpired(bindings, q, now)
  BY <1>8 DEF Arrive, ArriveWithSession, ArriveUnstable, ArriveWithPrevious, LookupFails,
              ReadBound, storeVars
<1>9. CASE Tick \/ (\E ttl \in IdleTtls : Restart(ttl)) \/ UNCHANGED vars
  BY <1>4, <1>9 DEF Tick, AdvanceClock, Restart, ReopenStore, vars, storeVars
<1>10. QED
  BY <1>3, <1>4, <1>5, <1>6, <1>7, <1>8, <1>9 DEF Next

\* A binding leads to the session of the task that made it.
LEMMA BindingsStep ==
    ASSUME TypeInv, TurnInv, [Next]_vars, NEW r \in Responses, bindings'[r] # None
    PROVE  r \in known' /\ bindings'[r].session = storeKey'[r]
<1>1. r \in Tasks
  BY PipelineAssumption
<1>2. CASE bindings'[r] \in {None, bindings[r]}
  <2>1. r \in known /\ bindings'[r].session = storeKey[r] /\ pc[r] # "idle"
    BY <1>1, <1>2 DEF TurnInv, Spoken
  <2>2. QED
    BY <1>1, <2>1, KnownGrows, StepIsForward DEF Forward
<1>3. ASSUME NEW t \in Tasks, Answer(t) \/ StreamEnds(t), r = t,
             bindings'[r].session = storeKey[t]
      PROVE  r \in known' /\ bindings'[r].session = storeKey'[r]
  BY <1>3 DEF Answer, StreamEnds, TurnInv
<1>4. QED
  BY <1>2, <1>3, BindingStaysOrIsMade

\* A task that begins to continue another turn is in the session of that turn.
LEMMA ArriveContinues ==
    ASSUME TypeInv, TurnInv, NEW t \in Tasks, Arrive(t), pc'[t] \in Continuing,
           AsksForPrevious(request'[t])
    PROVE  /\ request'[t].previous \in known
           /\ pc'[t] = "queued"
           /\ storeKey'[t] = storeKey[request'[t].previous]
           /\ FitsConnection(request'[t], storeKey'[t])
<1> USE DEF Continuing, Running
<1>1. PICK r \in Requests : \/ ArriveWithSession(t, r)
                            \/ ArriveUnstable(t, r)
                            \/ ArriveWithPrevious(t, r)
                            \/ LookupFails(t, r)
  BY DEF Arrive
<1>2. request'[t] = r
  BY <1>1 DEF ArriveWithSession, ArriveUnstable, ArriveWithPrevious, LookupFails, Join, Refuse,
              TypeInv, TypeOK
<1>3. ~ Refuse(t, r) /\ \A s : ~ Join(t, r, s, "reaping")
  BY DEF Refuse, Join, Goto, TypeInv, TypeOK
<1>4. PICK s : /\ s = Bound(r.previous) /\ s # None /\ r.previous \in known
               /\ FitsConnection(r, s) /\ Join(t, r, s, "queued")
  BY <1>1, <1>2, <1>3
     DEF ArriveWithSession, ArriveUnstable, ArriveWithPrevious, LookupFails, AsksForPrevious
<1>5. r.previous \in Responses
  BY <1>4, PipelineAssumption DEF TypeInv, TypeOK
<1>6. s = storeKey[r.previous]
  BY <1>4, <1>5 DEF Bound, Present, TurnInv
<1>7. QED
  BY <1>2, <1>4, <1>6 DEF Join, Goto, TypeInv, TypeOK

\* A step of the others leaves an idle task idle.
LEMMA IdleWaitsForArrive ==
    ASSUME TypeInv, [Next]_vars, NEW t \in Tasks, pc[t] = "idle", pc'[t] # "idle"
    PROVE  Arrive(t)
<1>1. ASSUME NEW u \in Tasks, Arrive(u), u # t PROVE pc'[t] = pc[t]
  BY <1>1 DEF Arrive, ArriveWithSession, ArriveUnstable, ArriveWithPrevious, LookupFails,
              Join, Refuse, Goto, TypeInv, TypeOK
<1>2. ASSUME NEW u \in Tasks, Proceed(u) \/ Cancel(u) PROVE pc'[t] = pc[t]
  <2>1. pc[u] \in Running /\ (pc' = pc \/ \E stage : Goto(u, stage))
    BY <1>2 DEF Proceed, Reap, LoadSession, MaskSecret, MaskingFails, SaveSession, StoreFails,
                GuardBlocks, Send, Answer, StreamBegins, StreamEnds, ResponseFails, Cancel, Running
  <2>2. u # t
    BY <2>1 DEF Running
  <2>3. QED
    BY <2>1, <2>2 DEF Goto, TypeInv, TypeOK
<1>3. CASE Tick \/ (\E ttl \in IdleTtls : Restart(ttl)) \/ UNCHANGED vars
  BY <1>3 DEF Tick, Restart, vars, taskVars, Running
<1>4. QED
  BY <1>1, <1>2, <1>3 DEF Next

\* Behind the mask a copy does not change.
LEMMA CopyIsFinal ==
    ASSUME TypeInv, [Next]_vars, NEW t \in Tasks,
           pc'[t] \in {"guarding", "awaiting", "streaming", "answered"}
    PROVE  work'[t] = work[t]
<1>1. ASSUME NEW u \in Tasks, Proceed(u), Loud(u) PROVE work'[t] = work[t]
  <2>1. CASE LoadSession(u) /\ pc'[u] = "masking"
    BY <2>1 DEF LoadSession, TypeInv, TypeOK
  <2>2. CASE \E secret \in Secrets : MaskSecret(u, secret)
    BY <2>2 DEF MaskSecret, TypeInv, TypeOK
  <2>3. QED
    BY <1>1, <2>1, <2>2 DEF Loud, SaveSession, Send
<1>2. QED
  BY <1>1, QuietOrLoud DEF Quiet

\* Messages leave only from the stage after the guards.
LEMMA NewMessagesAreOfGuarding ==
    ASSUME TypeInv, [Next]_vars, NEW m \in upstream' \ upstream
    PROVE  m.turn \in Tasks /\ pc[m.turn] = "guarding"
<1>1. ASSUME NEW u \in Tasks, Loud(u)
      PROVE  upstream' = upstream \/ (pc[u] = "guarding" /\ upstream' = upstream \cup Payload(u))
  BY <1>1 DEF Loud, LoadSession, MaskSecret, SaveSession, Send
<1>2. QED
  BY <1>1, QuietOrLoud DEF Quiet, Payload

\* A streaming response has shown its id.
LEMMA StreamingIsKnown ==
    ASSUME TypeInv, TurnInv, [Next]_vars, NEW t \in Tasks, pc'[t] = "streaming"
    PROVE  t \in known'
<1>1. CASE pc[t] = "streaming"
  BY <1>1, KnownGrows DEF TurnInv
<1>2. CASE pc[t] # "streaming"
  <2>1. ASSUME NEW u \in Tasks, Proceed(u) \/ Cancel(u) \/ Arrive(u)
        PROVE  StreamBegins(u) \/ pc' = pc \/
                    \E stage \in Stages \ {"streaming"} : Goto(u, stage)
    BY <2>1 DEF Arrive, ArriveWithSession, ArriveUnstable, ArriveWithPrevious, LookupFails,
                Join, Refuse, Proceed, Reap, LoadSession, MaskSecret, MaskingFails, SaveSession,
                StoreFails, GuardBlocks, Send, Answer, StreamEnds, ResponseFails, Cancel,
                Stages, Running, Final
  <2>2. ASSUME NEW u \in Tasks, StreamBegins(u) PROVE t \in known'
    BY <1>2, <2>2 DEF StreamBegins, Goto, TypeInv, TypeOK
  <2>3. ASSUME NEW u \in Tasks, NEW stage \in Stages \ {"streaming"}, Goto(u, stage) PROVE FALSE
    BY <1>2, <2>3 DEF Goto, TypeInv, TypeOK
  <2>4. ~ Tick /\ (\A ttl \in IdleTtls : ~ Restart(ttl)) /\ ~ UNCHANGED vars
    BY <1>2 DEF Tick, Restart, vars, taskVars, TypeInv, TypeOK
  <2>5. QED
    BY <1>2, <2>1, <2>2, <2>3, <2>4 DEF Next
<1>3. QED
  BY <1>1, <1>2

\* Every step keeps what is known of continued turns.
LEMMA TurnStep == IInv /\ TurnInv /\ [Next]_vars => TurnInv'
<1> SUFFICES ASSUME IInv, TurnInv, [Next]_vars PROVE TurnInv'
  OBVIOUS
<1>1. TypeInv /\ IInv' /\ Forward
  BY InvStep, StepIsForward DEF IInv
<1>2. ASSUME NEW u \in known' PROVE pc'[u] \in Spoken
  <2>1. u \in Tasks
    BY <1>1 DEF IInv, TypeInv, TypeOK
  <2>2. QED
    BY <1>1, <2>1 DEF Forward, TurnInv
<1>3. \A t \in Tasks : pc'[t] = "streaming" => t \in known'
  BY <1>1, StreamingIsKnown
<1>4. \A r \in Responses : bindings'[r] # None => r \in known' /\ bindings'[r].session = storeKey'[r]
  BY <1>1, BindingsStep
<1>5. \A u \in known : u \in Tasks /\ u \in known' /\ storeKey'[u] = storeKey[u]
  BY <1>1, KnownGrows DEF TypeInv, TypeOK, TurnInv, Forward, Spoken
<1>6. ASSUME NEW t \in Tasks, Continues(t)'
      PROVE  /\ request'[t].previous \in known'
             /\ storeKey'[t] = storeKey'[request'[t].previous]
             /\ FitsConnection(request'[t], storeKey'[t])
  <2>1. CASE pc[t] = "idle"
    <3>1. pc'[t] # "idle"
      BY <1>6 DEF Continues, Continuing, Running
    <3>2. QED
      BY <1>1, <1>5, <1>6, <2>1, <3>1, IdleWaitsForArrive, ArriveContinues DEF Continues
  <2>2. CASE pc[t] # "idle"
    <3>1. UNCHANGED <<request[t], storeKey[t]>> /\ Continues(t)
      BY <1>1, <1>6, <2>2 DEF Forward, Continues
    <3>2. QED
      BY <1>5, <3>1 DEF TurnInv
  <2>3. QED
    BY <2>1, <2>2
<1>7. ASSUME NEW t \in Tasks, NEW m \in upstream',
             Continues(t)', pc'[t] # "queued", pc'[t] # "selfwait",
             m.turn = request'[t].previous, m.key = work'[t].key
      PROVE  work'[t].table[m.secret] = m.alias
  <2>1. CASE pc'[t] = "masking"
    <3>1. Published(m.key, m.secret, m.alias)'
      BY DEF Published
    <3>2. m.secret \in Secrets /\ m.alias \in Aliases
      BY <1>1 DEF IInv, TypeInv, TypeOK, Message, PublishedInv
    <3>3. QED
      BY <1>1, <1>7, <2>1, <3>1, <3>2 DEF IInv, PublishedInv
  <2>2. CASE pc'[t] # "masking"
    <3>1. pc'[t] \in {"guarding", "awaiting", "streaming", "answered"}
      BY <1>7, <2>2 DEF Continues, Continuing, Running
    <3>2. pc[t] \notin BeforeLoad /\ work'[t] = work[t]
      BY <1>1, <3>1, CopyIsFinal DEF Forward
    <3>3. UNCHANGED request[t] /\ Continues(t)
      BY <1>1, <1>7, <3>2 DEF Forward, Continues, BeforeLoad
    <3>4. m \in upstream
      <4>1. request[t].previous \in known
        BY <3>3 DEF TurnInv
      <4>2. pc[m.turn] # "guarding"
        BY <1>7, <3>3, <4>1 DEF TurnInv, Spoken
      <4>3. QED
        BY <1>1, <4>2, NewMessagesAreOfGuarding
    <3>5. QED
      BY <1>7, <3>2, <3>3, <3>4 DEF TurnInv, BeforeLoad
  <2>3. QED
    BY <2>1, <2>2
<1>8. QED
  BY <1>2, <1>3, <1>4, <1>6, <1>7 DEF TurnInv

\* Bindings, known ids and continued turns agree in every reachable state.
LEMMA SpecTurnInv == Spec => []TurnInv
<1>1. Init => TurnInv
  BY DEF Init, StoreInit, TurnInv, Continues, Continuing, Running
<1>2. QED
  BY <1>1, TurnStep, SpecIInv, PTL DEF Spec

\* A turn that names an earlier response works in the session of that response, and on
\* a WebSocket this is the session of the connection (_resolve_store_key).
THEOREM PreviousTurnKeepsItsSession == Spec => []PreviousSameSession
<1>1. TurnInv => PreviousSameSession
  BY DEF FitsConnection, TurnInv, PreviousSameSession, Continues, Continuing, Running
<1>2. QED
  BY <1>1, SpecTurnInv, PTL

\* Such a turn maps every secret that the earlier turn sent to the alias it had, as
\* long as the session has its key.
THEOREM PreviousTurnIsRestorable == Spec => []PreviousTurnRestorable
<1>1. TurnInv => PreviousTurnRestorable
  BY DEF TurnInv, PreviousTurnRestorable, Continues, Continuing, Running
<1>2. QED
  BY <1>1, SpecTurnInv, PTL
=============================================================================
