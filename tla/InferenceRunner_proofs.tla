------------------------ MODULE InferenceRunner_proofs ----------------------
(***************************************************************************)
(* Proofs about InferenceRunner: whichever of the three parties gives a    *)
(* slot back, it does so once, and the limit bounds the work itself.       *)
(***************************************************************************)
EXTENDS InferenceRunner, FiniteSetTheorems, TLAPS

\* Where a call is tells what its job and its callback can be; a slot that was given
\* back belongs to work that is over.
StageOK ==
    \A c \in Calls :
        /\ caller[c] \in {"idle", "refused", "admitted"} =>
              job[c] = "none" /\ release[c] = "none"
        /\ caller[c] = "submitted" =>
              job[c] \in {"pending", "running", "finished"} /\ release[c] = "none"
        /\ caller[c] \in {"registered", "waiting", "timedOut", "returned", "gaveUp"} =>
              job[c] # "none" /\ release[c] # "none"
        /\ release[c] = "fired" => job[c] \in {"finished", "cancelled"}
        /\ caller[c] = "gaveUp" => job[c] # "pending"

RunnerInv ==
    /\ TypeOK
    /\ StageOK
    /\ inflight = Cardinality(Holding)
    /\ inflight <= MaxInflight

-----------------------------------------------------------------------------
\* The holders are finitely many.
LEMMA HoldingFinite == IsFiniteSet(Holding) /\ Cardinality(Holding) \in Nat
<1>1. Holding \subseteq Calls
  BY DEF Holding
<1>2. QED
  BY <1>1, RunnerAssumption, FS_Subset, FS_CardinalityType

\* Giving back the slot of a holder leaves the count exact and non-negative.
LEMMA FireKeepsCount ==
    ASSUME RunnerInv, NEW c \in Calls, c \in Holding, Fire(c),
           \A d \in Calls : d # c =>
              (caller'[d] \in {"idle", "refused"} <=> caller[d] \in {"idle", "refused"})
    PROVE  /\ release' \in [Calls -> {"none", "registered", "fired"}]
           /\ \A d \in Calls : release'[d] = IF d = c THEN "fired" ELSE release[d]
           /\ inflight' \in Nat
           /\ inflight' = Cardinality(Holding')
           /\ inflight' <= MaxInflight
<1>1. \A d \in Calls : release'[d] = IF d = c THEN "fired" ELSE release[d]
  BY DEF Fire, RunnerInv, TypeOK
<1>2. Holding' = Holding \ {c}
  BY <1>1 DEF Holding
<1>3. /\ Cardinality(Holding') = Cardinality(Holding) - 1
      /\ Cardinality(Holding') \in Nat
  <2>1. IsFiniteSet(Holding)
    BY HoldingFinite
  <2>2. /\ IsFiniteSet(Holding \ {c})
        /\ Cardinality(Holding \ {c}) = Cardinality(Holding) - 1
    BY <2>1, FS_RemoveElement
  <2>3. Cardinality(Holding \ {c}) \in Nat
    BY <2>2, FS_CardinalityType
  <2>4. QED
    BY <1>2, <2>2, <2>3
<1>4. release' \in [Calls -> {"none", "registered", "fired"}]
  BY DEF Fire, RunnerInv, TypeOK
<1>5. QED
  BY <1>1, <1>3, <1>4, HoldingFinite, RunnerAssumption DEF Fire, RunnerInv

\* A step that gives back no slot and admits nobody leaves the count as it is.
LEMMA CountUntouched ==
    ASSUME RunnerInv, UNCHANGED inflight,
           \A d \in Calls : release'[d] = "fired" <=> release[d] = "fired",
           \A d \in Calls :
              caller'[d] \in {"idle", "refused"} <=> caller[d] \in {"idle", "refused"}
    PROVE  /\ inflight' \in Nat
           /\ inflight' = Cardinality(Holding')
           /\ inflight' <= MaxInflight
<1>1. Holding' = Holding
  BY DEF Holding
<1>2. QED
  BY <1>1 DEF RunnerInv, TypeOK

-----------------------------------------------------------------------------
(* Every step keeps the invariant.                                         *)

LEMMA InitRunnerInv == Init => RunnerInv
<1> SUFFICES ASSUME Init PROVE RunnerInv
  OBVIOUS
<1>1. TypeOK /\ StageOK
  BY DEF Init, TypeOK, StageOK, Callers, Jobs
<1>2. Holding = {}
  BY DEF Init, Holding
<1>3. Cardinality(Holding) = 0
  BY <1>2, FS_EmptySet
<1>4. QED
  BY <1>1, <1>3, RunnerAssumption DEF Init, RunnerInv

\* The move of one coroutine.
LEMMA GoesFacts ==
    ASSUME TypeOK, NEW c \in Calls, NEW from, NEW to \in Callers, Goes(c, from, to)
    PROVE  /\ caller[c] = from
           /\ caller' \in [Calls -> Callers]
           /\ \A d \in Calls : caller'[d] = IF d = c THEN to ELSE caller[d]
BY DEF Goes, TypeOK

LEMMA StepRefuse ==
    ASSUME RunnerInv, NEW c \in Calls, Refuse(c)
    PROVE  RunnerInv'
<1>1. /\ caller[c] = "idle"
      /\ caller' \in [Calls -> Callers]
      /\ \A d \in Calls : caller'[d] = IF d = c THEN "refused" ELSE caller[d]
  BY GoesFacts DEF Refuse, RunnerInv, Callers, Ended
<1>2. TypeOK'
  BY <1>1 DEF Refuse, RunnerInv, TypeOK
<1>3. StageOK'
  BY <1>1 DEF Refuse, RunnerInv, StageOK
<1>4. QED
  BY <1>1, <1>2, <1>3, CountUntouched DEF Refuse, RunnerInv

LEMMA StepAdmit ==
    ASSUME RunnerInv, NEW c \in Calls, Admit(c)
    PROVE  RunnerInv'
<1>1. /\ caller[c] = "idle"
      /\ caller' \in [Calls -> Callers]
      /\ \A d \in Calls : caller'[d] = IF d = c THEN "admitted" ELSE caller[d]
  BY GoesFacts DEF Admit, RunnerInv, Callers
<1>2. TypeOK'
  BY <1>1 DEF Admit, RunnerInv, TypeOK
<1>3. StageOK'
  BY <1>1 DEF Admit, RunnerInv, StageOK
<1>4. Holding' = Holding \cup {c} /\ c \notin Holding
  <2>1. release[c] = "none"
    BY <1>1 DEF RunnerInv, StageOK
  <2>2. QED
    BY <1>1, <2>1 DEF Admit, Holding
<1>5. Cardinality(Holding') = Cardinality(Holding) + 1
  BY <1>4, HoldingFinite, FS_AddElement
<1>6. QED
  BY <1>2, <1>3, <1>5, RunnerAssumption DEF Admit, RunnerInv, TypeOK

LEMMA StepSubmit ==
    ASSUME RunnerInv, NEW c \in Calls, Submit(c)
    PROVE  RunnerInv'
<1>1. /\ caller[c] = "admitted"
      /\ caller' \in [Calls -> Callers]
      /\ \A d \in Calls : caller'[d] = IF d = c THEN "submitted" ELSE caller[d]
  BY GoesFacts DEF Submit, RunnerInv, Callers
<1>2. /\ job' \in [Calls -> Jobs]
      /\ \A d \in Calls : job'[d] = IF d = c THEN "pending" ELSE job[d]
  BY DEF Submit, RunnerInv, TypeOK, Jobs
<1>3. TypeOK'
  BY <1>1, <1>2 DEF Submit, RunnerInv, TypeOK
<1>4. StageOK'
  BY <1>1, <1>2 DEF Submit, RunnerInv, StageOK
<1>5. QED
  BY <1>1, <1>3, <1>4, CountUntouched DEF Submit, RunnerInv

LEMMA StepRegister ==
    ASSUME RunnerInv, NEW c \in Calls, Register(c)
    PROVE  RunnerInv'
<1>1. /\ caller[c] = "submitted"
      /\ caller' \in [Calls -> Callers]
      /\ \A d \in Calls : caller'[d] = IF d = c THEN "registered" ELSE caller[d]
  BY GoesFacts DEF Register, RunnerInv, Callers
<1>2. release[c] = "none" /\ c \in Holding /\ job[c] # "none"
  BY <1>1 DEF RunnerInv, StageOK, Holding
<1>3. CASE job[c] = "finished"
  <2>1. /\ release' \in [Calls -> {"none", "registered", "fired"}]
        /\ \A d \in Calls : release'[d] = IF d = c THEN "fired" ELSE release[d]
        /\ inflight' \in Nat
        /\ inflight' = Cardinality(Holding')
        /\ inflight' <= MaxInflight
    BY <1>1, <1>2, <1>3, FireKeepsCount DEF Register
  <2>2. TypeOK'
    BY <1>1, <2>1 DEF Register, RunnerInv, TypeOK
  <2>3. StageOK'
    BY <1>1, <1>3, <2>1 DEF Register, RunnerInv, StageOK
  <2>4. QED
    BY <2>1, <2>2, <2>3 DEF RunnerInv
<1>4. CASE job[c] # "finished"
  <2>1. /\ release' \in [Calls -> {"none", "registered", "fired"}]
        /\ \A d \in Calls : release'[d] = IF d = c THEN "registered" ELSE release[d]
    BY <1>4 DEF Register, RunnerInv, TypeOK
  <2>2. TypeOK'
    BY <1>1, <1>4, <2>1 DEF Register, RunnerInv, TypeOK
  <2>3. StageOK'
    BY <1>1, <1>2, <2>1 DEF Register, RunnerInv, StageOK
  <2>4. UNCHANGED inflight
    BY <1>4 DEF Register
  <2>5. QED
    BY <1>1, <1>2, <2>1, <2>2, <2>3, <2>4, CountUntouched DEF RunnerInv
<1>5. QED
  BY <1>3, <1>4

\* Await, Return and Timeout move the coroutine and touch neither job nor slot.
LEMMA StepWaiting ==
    ASSUME RunnerInv, NEW c \in Calls, Await(c) \/ Return(c) \/ Timeout(c)
    PROVE  RunnerInv'
<1>1. PICK to \in {"waiting", "returned", "timedOut"} :
         /\ caller[c] \in {"registered", "waiting"}
         /\ caller' \in [Calls -> Callers]
         /\ \A d \in Calls : caller'[d] = IF d = c THEN to ELSE caller[d]
  BY GoesFacts DEF Await, Return, Timeout, RunnerInv, Callers, Ended
<1>2. UNCHANGED <<inflight, job, release, queue, busy>> /\ answered' \in SUBSET Calls
  BY DEF Await, Return, Timeout, RunnerInv, TypeOK
<1>3. TypeOK'
  BY <1>1, <1>2 DEF RunnerInv, TypeOK
<1>4. StageOK'
  BY <1>1, <1>2 DEF RunnerInv, StageOK
<1>5. QED
  BY <1>1, <1>2, <1>3, <1>4, CountUntouched DEF RunnerInv

LEMMA StepGiveUp ==
    ASSUME RunnerInv, NEW c \in Calls, GiveUp(c)
    PROVE  RunnerInv'
<1>1. /\ caller[c] = "timedOut"
      /\ caller' \in [Calls -> Callers]
      /\ \A d \in Calls : caller'[d] = IF d = c THEN "gaveUp" ELSE caller[d]
  BY GoesFacts DEF GiveUp, RunnerInv, Callers, Ended
<1>2. CASE job[c] = "pending"
  <2>1. c \in Holding
    BY <1>1, <1>2 DEF RunnerInv, StageOK, Holding
  <2>2. /\ job' \in [Calls -> Jobs]
        /\ \A d \in Calls : job'[d] = IF d = c THEN "cancelled" ELSE job[d]
    BY <1>2 DEF GiveUp, RunnerInv, TypeOK, Jobs
  <2>3. /\ release' \in [Calls -> {"none", "registered", "fired"}]
        /\ \A d \in Calls : release'[d] = IF d = c THEN "fired" ELSE release[d]
        /\ inflight' \in Nat
        /\ inflight' = Cardinality(Holding')
        /\ inflight' <= MaxInflight
    BY <1>1, <1>2, <2>1, FireKeepsCount DEF GiveUp
  <2>4. TypeOK'
    BY <1>1, <2>2, <2>3 DEF GiveUp, RunnerInv, TypeOK
  <2>5. StageOK'
    BY <1>1, <2>2, <2>3 DEF RunnerInv, StageOK
  <2>6. QED
    BY <2>3, <2>4, <2>5 DEF RunnerInv
<1>3. CASE job[c] # "pending"
  <2>1. UNCHANGED <<inflight, job, release, queue, busy, answered>>
    BY <1>3 DEF GiveUp
  <2>2. TypeOK'
    BY <1>1, <2>1 DEF RunnerInv, TypeOK
  <2>3. StageOK'
    BY <1>1, <1>3, <2>1 DEF RunnerInv, StageOK
  <2>4. QED
    BY <1>1, <2>1, <2>2, <2>3, CountUntouched DEF RunnerInv
<1>4. QED
  BY <1>2, <1>3

LEMMA StepTake ==
    ASSUME RunnerInv, Take
    PROVE  RunnerInv'
<1> DEFINE h == Head(queue)
<1>1. h \in Calls /\ Tail(queue) \in Seq(Calls)
  BY DEF Take, RunnerInv, TypeOK
<1>2. /\ job' \in [Calls -> Jobs]
      /\ \A d \in Calls : job'[d] = job[d] \/ (job[d] = "pending" /\ job'[d] = "running")
  <2>1. CASE job[h] = "pending"
    <3>1. job' = [job EXCEPT ![h] = "running"]
      BY <2>1 DEF Take
    <3>2. QED
      BY <1>1, <2>1, <3>1 DEF RunnerInv, TypeOK, Jobs
  <2>2. CASE job[h] # "pending"
    BY <2>2 DEF Take, RunnerInv, TypeOK
  <2>3. QED
    BY <2>1, <2>2
<1>3. busy' \in SUBSET Calls
  BY <1>1 DEF Take, RunnerInv, TypeOK
<1>4. TypeOK'
  BY <1>1, <1>2, <1>3 DEF Take, RunnerInv, TypeOK
<1>5. StageOK'
  BY <1>2 DEF Take, RunnerInv, StageOK
<1>6. QED
  BY <1>4, <1>5, CountUntouched DEF Take, RunnerInv

LEMMA StepFinish ==
    ASSUME RunnerInv, NEW c \in Calls, Finish(c)
    PROVE  RunnerInv'
<1>1. /\ job' \in [Calls -> Jobs]
      /\ job[c] = "running"
      /\ \A d \in Calls : job'[d] = IF d = c THEN "finished" ELSE job[d]
  BY DEF Finish, RunnerInv, TypeOK, Jobs
<1>2. TypeOK'
  BY <1>1 DEF Finish, RunnerInv, TypeOK
<1>3. StageOK'
  BY <1>1 DEF Finish, RunnerInv, StageOK
<1>4. QED
  BY <1>2, <1>3, CountUntouched DEF Finish, RunnerInv

LEMMA StepRelease ==
    ASSUME RunnerInv, NEW c \in Calls, Release(c)
    PROVE  RunnerInv'
<1>1. c \in Holding
  BY DEF Release, RunnerInv, StageOK, Holding
<1>2. /\ release' \in [Calls -> {"none", "registered", "fired"}]
      /\ \A d \in Calls : release'[d] = IF d = c THEN "fired" ELSE release[d]
      /\ inflight' \in Nat
      /\ inflight' = Cardinality(Holding')
      /\ inflight' <= MaxInflight
  BY <1>1, FireKeepsCount DEF Release
<1>3. TypeOK'
  BY <1>2 DEF Release, RunnerInv, TypeOK
<1>4. StageOK'
  BY <1>2 DEF Release, RunnerInv, StageOK
<1>5. QED
  BY <1>2, <1>3, <1>4 DEF RunnerInv

LEMMA StepDeliver ==
    ASSUME RunnerInv, NEW c \in Calls, Deliver(c)
    PROVE  RunnerInv'
<1>1. TypeOK'
  BY DEF Deliver, RunnerInv, TypeOK
<1>2. StageOK'
  BY DEF Deliver, RunnerInv, StageOK
<1>3. QED
  BY <1>1, <1>2, CountUntouched DEF Deliver, RunnerInv

\* The invariant is inductive.
LEMMA NextRunnerInv == RunnerInv /\ [Next]_vars => RunnerInv'
<1> SUFFICES ASSUME RunnerInv, [Next]_vars PROVE RunnerInv'
  OBVIOUS
<1>1. CASE Take
  BY <1>1, StepTake
<1>2. ASSUME NEW c \in Calls, CoroutineStep(c) PROVE RunnerInv'
  BY <1>2, StepRefuse, StepAdmit, StepSubmit, StepRegister, StepWaiting, StepGiveUp
     DEF CoroutineStep
<1>3. ASSUME NEW c \in Calls, Finish(c) \/ Release(c) \/ Deliver(c) PROVE RunnerInv'
  BY <1>3, StepFinish, StepRelease, StepDeliver
<1>4. CASE UNCHANGED vars
  <2>1. TypeOK' /\ StageOK'
    BY <1>4 DEF vars, RunnerInv, TypeOK, StageOK
  <2>2. QED
    BY <1>4, <2>1, CountUntouched DEF vars, RunnerInv
<1>5. QED
  BY <1>1, <1>2, <1>3, <1>4 DEF Next

\* The inductive invariant holds in every behaviour.
THEOREM SpecRunnerInv == Spec => []RunnerInv
BY InitRunnerInv, NextRunnerInv, PTL DEF Spec

-----------------------------------------------------------------------------
(* What follows from it.                                                   *)

\* Every variable of the runner keeps its type; the count of slots is never negative.
THEOREM RunnerTypeCorrect == Spec => []TypeOK
<1>1. RunnerInv => TypeOK
  BY DEF RunnerInv
<1>2. QED
  BY <1>1, SpecRunnerInv, PTL

\* The work that is not done belongs to holders of slots.
LEMMA LiveHolds == RunnerInv => Live \subseteq Holding
BY DEF RunnerInv, StageOK, TypeOK, Callers, Ended, Live, Holding

\* inflight is the number of admitted calls whose work is not done and notified.
THEOREM SlotsAreExact == Spec => []SlotsExact
<1>1. RunnerInv => SlotsExact
  BY LiveHolds DEF RunnerInv, SlotsExact
<1>2. QED
  BY <1>1, SpecRunnerInv, PTL

\* At most MaxInflight inferences are queued or running, abandoned ones included.
THEOREM WorkIsBounded == Spec => []LiveWorkBounded
<1>1. ASSUME RunnerInv PROVE LiveWorkBounded
  <2>1. Cardinality(Live) <= Cardinality(Holding)
    BY <1>1, LiveHolds, HoldingFinite, FS_Subset
  <2>2. Cardinality(Live) \in Nat
    BY <1>1, LiveHolds, HoldingFinite, FS_Subset, FS_CardinalityType
  <2>3. QED
    BY <1>1, <2>1, <2>2, HoldingFinite, RunnerAssumption DEF RunnerInv, LiveWorkBounded
<1>2. QED
  BY <1>1, SpecRunnerInv, PTL

\* A caller that gave up leaves no job that has yet to start.
THEOREM NothingAbandonedInQueue == Spec => []AbandonedIsNotQueued
<1>1. RunnerInv => AbandonedIsNotQueued
  BY DEF RunnerInv, StageOK, AbandonedIsNotQueued
<1>2. QED
  BY <1>1, SpecRunnerInv, PTL
=============================================================================
