---------------------------- MODULE LockRegistry ----------------------------
(***************************************************************************)
(* SqliteSessionStore.lock(): one asyncio.Lock per session id, made by the *)
(* first user and forgotten by the last.  The registry counts its users,   *)
(* the waiting ones too: a lock forgotten while someone still refers to it *)
(* would let a newcomer build a second one and enter beside the holder.    *)
(*                                                                         *)
(* asyncio.Lock is part of Python; it is modelled because the count and    *)
(* the cancellation of waiters meet inside it.  A release marks the first  *)
(* waiter; the lock stays unlocked until the event loop resumes that       *)
(* waiter, which may be cancelled in the meantime.                         *)
(*                                                                         *)
(* A use is one `async with store.lock(...)`.  Every call builds a lock    *)
(* object for setdefault, so the lock that use u built is named u.         *)
(***************************************************************************)
EXTENDS Integers, Sequences, FiniteSets

CONSTANTS Sessions, Uses, None

ASSUME RegistryAssumption == None \notin Uses

VARIABLES
    locks,      \* _locks: the lock object of each session, or None
    refs,       \* _lock_refs
    locked,     \* asyncio.Lock._locked of each object
    waiters,    \* asyncio.Lock._waiters of each object
    stage,      \* where each use is
    session,    \* the session it asked for
    mine        \* the lock object it holds or waits for

vars == <<locks, refs, locked, waiters, stage, session, mine>>

\* The future of a waiter is pending, has its result (woken), or is cancelled; a
\* doomed use was cancelled after its future had its result.
Waiting == {"pending", "woken", "cancelled", "doomed"}
Active == Waiting \cup {"holding"}
Stages == Active \cup {"new", "gone"}

TypeOK ==
    /\ locks \in [Sessions -> Uses \cup {None}]
    /\ refs \in [Sessions -> Nat]
    /\ locked \in [Uses -> BOOLEAN]
    /\ waiters \in [Uses -> Seq(Uses)]
    /\ stage \in [Uses -> Stages]
    /\ session \in [Uses -> Sessions \cup {None}]
    /\ mine \in [Uses -> Uses \cup {None}]

Init ==
    /\ locks = [s \in Sessions |-> None]
    /\ refs = [s \in Sessions |-> 0]
    /\ locked = [l \in Uses |-> FALSE]
    /\ waiters = [l \in Uses |-> <<>>]
    /\ stage = [u \in Uses |-> "new"]
    /\ session = [u \in Uses |-> None]
    /\ mine = [u \in Uses |-> None]

-----------------------------------------------------------------------------
(* asyncio.Lock.                                                           *)

\* _wake_up_first: the future of the first waiter gets its result, if it is pending.
WakeFirst(stages, q) ==
    IF q # <<>> /\ stages[Head(q)] = "pending"
    THEN [stages EXCEPT ![Head(q)] = "woken"]
    ELSE stages

\* acquire() succeeds without waiting.
FreeForNewcomer(l) ==
    /\ ~ locked[l]
    /\ \A i \in 1..Len(waiters[l]) : stage[waiters[l][i]] = "cancelled"

\* deque.remove(): q without the first u.
IndexOf(q, u) == CHOOSE i \in 1..Len(q) : q[i] = u

Remove(q, u) == SubSeq(q, 1, IndexOf(q, u) - 1) \o SubSeq(q, IndexOf(q, u) + 1, Len(q))

-----------------------------------------------------------------------------
(* The registry.                                                           *)

\* The `finally` of _held.
ForgetAtOnce(s) ==
    /\ refs' = [refs EXCEPT ![s] = @ - 1]
    /\ locks' = [locks EXCEPT ![s] = None]

DropReference(s) ==
    /\ refs' = [refs EXCEPT ![s] = @ - 1]
    /\ locks' = IF refs[s] - 1 <= 0 THEN [locks EXCEPT ![s] = None] ELSE locks

\* lock(s) and the acquire() of its asyncio.Lock, up to the first suspension.
Enter(u, s) ==
    LET l == IF locks[s] = None THEN u ELSE locks[s] IN
    /\ stage[u] = "new"
    /\ locks' = [locks EXCEPT ![s] = l]
    /\ refs' = [refs EXCEPT ![s] = @ + 1]
    /\ session' = [session EXCEPT ![u] = s]
    /\ mine' = [mine EXCEPT ![u] = l]
    /\ \/ /\ FreeForNewcomer(l)
          /\ locked' = [locked EXCEPT ![l] = TRUE]
          /\ stage' = [stage EXCEPT ![u] = "holding"]
          /\ UNCHANGED waiters
       \/ /\ ~ FreeForNewcomer(l)
          /\ waiters' = [waiters EXCEPT ![l] = Append(@, u)]
          /\ stage' = [stage EXCEPT ![u] = "pending"]
          /\ UNCHANGED locked

\* The event loop resumes a waiter whose future has its result.
Resume(u) ==
    /\ stage[u] = "woken"
    /\ waiters' = [waiters EXCEPT ![mine[u]] = Remove(@, u)]
    /\ locked' = [locked EXCEPT ![mine[u]] = TRUE]
    /\ stage' = [stage EXCEPT ![u] = "holding"]
    /\ UNCHANGED <<locks, refs, session, mine>>

\* The task of a waiter is cancelled; it runs later.
CancelWaiter(u) ==
    /\ \/ stage[u] = "pending" /\ stage' = [stage EXCEPT ![u] = "cancelled"]
       \/ stage[u] = "woken" /\ stage' = [stage EXCEPT ![u] = "doomed"]
    /\ UNCHANGED <<locks, refs, locked, waiters, session, mine>>

\* CancelledError leaves acquire(): the wake-up is passed on, the reference dropped.
Abandon(u) ==
    LET q == Remove(waiters[mine[u]], u) IN
    /\ stage[u] \in {"cancelled", "doomed"}
    /\ waiters' = [waiters EXCEPT ![mine[u]] = q]
    /\ stage' = [(IF locked[mine[u]] THEN stage ELSE WakeFirst(stage, q))
                    EXCEPT ![u] = "gone"]
    /\ DropReference(session[u])
    /\ UNCHANGED <<locked, session, mine>>

\* An exception leaves the block and nothing releases the lock.
LeaveLocked(u) ==
    /\ stage[u] = "holding"
    /\ stage' = [stage EXCEPT ![u] = "gone"]
    /\ DropReference(session[u])
    /\ UNCHANGED <<locked, waiters, session, mine>>

\* The block ends, by an exception or not.
Leave(u) ==
    /\ stage[u] = "holding"
    /\ locked' = [locked EXCEPT ![mine[u]] = FALSE]
    /\ stage' = [WakeFirst(stage, waiters[mine[u]]) EXCEPT ![u] = "gone"]
    /\ DropReference(session[u])
    /\ UNCHANGED <<waiters, session, mine>>

Next ==
    \E u \in Uses :
        \/ \E s \in Sessions : Enter(u, s)
        \/ Resume(u)
        \/ CancelWaiter(u)
        \/ Abandon(u)
        \/ Leave(u)

Spec == Init /\ [][Next]_vars

\* The event loop resumes what it scheduled, and every locked block ends.
FairSpec ==
    Spec /\ \A u \in Uses : WF_vars(Resume(u)) /\ WF_vars(Abandon(u)) /\ WF_vars(Leave(u))

-----------------------------------------------------------------------------
(* Properties.                                                             *)

\* Two uses never hold the lock of one session, whatever lock object each refers to.
MutualExclusion ==
    \A u, v \in Uses :
        stage[u] = "holding" /\ stage[v] = "holding" /\ session[u] = session[v] => u = v

\* The uses that the count of s must stand for.
Users(s) == {u \in Uses : stage[u] \in Active /\ session[u] = s}

\* The count is exact, a lock is registered as long as someone uses it and no longer.
CountExact ==
    \A s \in Sessions :
        /\ refs[s] = Cardinality(Users(s))
        /\ locks[s] = None <=> Users(s) = {}

\* Every waiter gets the lock or was cancelled: no release and no cancellation loses
\* the wake-up.
EveryWaiterServed ==
    \A u \in Uses : (stage[u] \in Waiting) ~> (stage[u] \in {"holding", "gone"})

\* What q has of S, in the order of q.
Select(q, S) ==
    LET picked[i \in 0..Len(q)] ==
            IF i = 0 THEN <<>>
            ELSE IF q[i] \in S THEN Append(picked[i - 1], q[i]) ELSE picked[i - 1]
    IN  picked[Len(q)]

\* The waiters that were not cancelled. An unlocked lock belongs to the first of them already.
Live == {u \in Uses : stage[u] \in {"pending", "woken"}}
LiveWaiters(l) == Select(waiters[l], Live)

Holders(l) == {u \in Uses : stage[u] = "holding" /\ mine[u] = l}

OwnerOf(s) ==
    LET l == locks[s] IN
    IF l = None THEN None
    ELSE IF Holders(l) # {} THEN CHOOSE u \in Holders(l) : TRUE
    ELSE IF LiveWaiters(l) # <<>> THEN Head(LiveWaiters(l)) ELSE None

QueueOf(s) ==
    LET l == locks[s] IN
    IF l = None \/ (l # None /\ LiveWaiters(l) = <<>>) THEN <<>>
    ELSE IF Holders(l) # {} THEN LiveWaiters(l) ELSE Tail(LiveWaiters(l))

Abstract == INSTANCE SessionLock WITH
    Tasks <- Uses,
    owner <- [s \in Sessions |-> OwnerOf(s)],
    queue <- [s \in Sessions |-> QueueOf(s)]

\* The registry gives each session the first-come-first-served lock of SessionLock.
ImplementsSessionLock == Abstract!LockSpec
=============================================================================
