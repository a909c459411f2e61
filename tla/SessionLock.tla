---------------------------- MODULE SessionLock -----------------------------
(***************************************************************************)
(* What SessionStore.lock(session_id) promises its callers: one holder per *)
(* session, the others served in the order they came, a cancelled waiter   *)
(* forgotten.  A released lock goes to the head of the queue at once, so a *)
(* newcomer cannot overtake a waiter the event loop has yet to resume.     *)
(***************************************************************************)
EXTENDS Sequences, Integers

CONSTANTS Sessions, Tasks, None

VARIABLES
    owner,      \* the task that holds the lock of each session, or None
    queue       \* the tasks that wait for it

lockVars == <<owner, queue>>

LockTypeOK ==
    /\ owner \in [Sessions -> Tasks \cup {None}]
    /\ queue \in [Sessions -> Seq(Tasks)]

LockInit ==
    /\ owner = [s \in Sessions |-> None]
    /\ queue = [s \in Sessions |-> <<>>]

\* `async with store.lock(s)`: taken when free, otherwise the task waits.
RequestLockIgnoringOwner(t, s) ==
    /\ owner' = [owner EXCEPT ![s] = t]
    /\ UNCHANGED queue

RequestLock(t, s) ==
    \/ /\ owner[s] = None
       /\ owner' = [owner EXCEPT ![s] = t]
       /\ UNCHANGED queue
    \/ /\ owner[s] # None
       /\ queue' = [queue EXCEPT ![s] = Append(@, t)]
       /\ UNCHANGED owner

\* The owner of s, if anyone waits in q, becomes the first of them.
HandOver(s, q) ==
    /\ owner' = [owner EXCEPT ![s] = IF q = <<>> THEN None ELSE Head(q)]
    /\ queue' = [queue EXCEPT ![s] = IF q = <<>> THEN <<>> ELSE Tail(q)]

\* The lock is left free and its waiters are not resumed.
ReleaseWithoutWakeUp(s) ==
    /\ owner' = [owner EXCEPT ![s] = None]
    /\ UNCHANGED queue

ReleaseLock(s) == HandOver(s, queue[s])

Without(q, i) == SubSeq(q, 1, i - 1) \o SubSeq(q, i + 1, Len(q))

\* A waiter is cancelled.
LeaveQueue(t, s) ==
    \E i \in 1..Len(queue[s]) :
        /\ queue[s][i] = t
        /\ queue' = [queue EXCEPT ![s] = Without(@, i)]
        /\ UNCHANGED owner

LockNext ==
    \E t \in Tasks, s \in Sessions :
        \/ RequestLock(t, s)
        \/ owner[s] = t /\ ReleaseLock(s)
        \/ LeaveQueue(t, s)

LockSpec == LockInit /\ [][LockNext]_lockVars
=============================================================================
