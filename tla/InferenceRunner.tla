--------------------------- MODULE InferenceRunner --------------------------
(***************************************************************************)
(* BoundedInferenceRunner: synchronous model inference on a fixed pool of  *)
(* threads, behind a limit on admitted work.  Nothing can interrupt a      *)
(* running inference, so a caller that stops waiting leaves its job behind *)
(* and the job keeps its slot.                                             *)
(*                                                                         *)
(* Three parties meet without a common lock: the coroutine of run(), the   *)
(* worker threads, and the event loop that carries answers and             *)
(* cancellations between them.  concurrent.futures and asyncio belong to   *)
(* Python; they are modelled as far as run() relies on them.  A call is    *)
(* one use of run(), made once.                                            *)
(***************************************************************************)
EXTENDS Integers, Sequences, FiniteSets

CONSTANTS
    Calls,          \* calls of run()
    MaxWorkers,     \* _max_workers
    MaxInflight     \* _max_inflight

ASSUME RunnerAssumption ==
    /\ IsFiniteSet(Calls)
    /\ MaxWorkers \in Nat \ {0}
    /\ MaxInflight \in Nat

VARIABLES
    inflight,   \* _inflight
    caller,     \* how far run() is
    job,        \* Future._state of the submitted work
    release,    \* _release: not registered yet, registered, or fired
    queue,      \* _work_queue of the executor, cancelled items included
    busy,       \* jobs that occupy a thread
    answered    \* calls whose asyncio future was given the result

vars == <<inflight, caller, job, release, queue, busy, answered>>

Ended == {"refused", "returned", "gaveUp"}
Callers == {"idle", "admitted", "submitted", "registered", "waiting", "timedOut"} \cup Ended
Jobs == {"none", "pending", "running", "finished", "cancelled"}

TypeOK ==
    /\ inflight \in Nat
    /\ caller \in [Calls -> Callers]
    /\ job \in [Calls -> Jobs]
    /\ release \in [Calls -> {"none", "registered", "fired"}]
    /\ queue \in Seq(Calls)
    /\ busy \in SUBSET Calls
    /\ answered \in SUBSET Calls

Init ==
    /\ inflight = 0
    /\ caller = [c \in Calls |-> "idle"]
    /\ job = [c \in Calls |-> "none"]
    /\ release = [c \in Calls |-> "none"]
    /\ queue = <<>>
    /\ busy = {}
    /\ answered = {}

-----------------------------------------------------------------------------
(* The coroutine of run().                                                 *)

Goes(c, from, to) == caller[c] = from /\ caller' = [caller EXCEPT ![c] = to]

\* _release runs: the slot is given back.
Fire(c) ==
    /\ release' = [release EXCEPT ![c] = "fired"]
    /\ inflight' = inflight - 1

\* Under _lock, both: the count cannot change between the test and the increment.
Refuse(c) ==
    /\ Goes(c, "idle", "refused")
    /\ inflight >= MaxInflight
    /\ UNCHANGED <<inflight, job, release, queue, busy, answered>>

\* The limit reached and passed.
AdmitOneTooMany(c) ==
    /\ Goes(c, "idle", "admitted")
    /\ inflight <= MaxInflight
    /\ inflight' = inflight + 1
    /\ UNCHANGED <<job, release, queue, busy, answered>>

Admit(c) ==
    /\ Goes(c, "idle", "admitted")
    /\ inflight < MaxInflight
    /\ inflight' = inflight + 1
    /\ UNCHANGED <<job, release, queue, busy, answered>>

Submit(c) ==
    /\ Goes(c, "admitted", "submitted")
    /\ job' = [job EXCEPT ![c] = "pending"]
    /\ queue' = Append(queue, c)
    /\ UNCHANGED <<inflight, release, busy, answered>>

\* A callback that a finished job never runs.
RegisterTooLate(c) ==
    /\ Goes(c, "submitted", "registered")
    /\ release' = [release EXCEPT ![c] = "registered"]
    /\ UNCHANGED <<inflight, job, queue, busy, answered>>

\* The worker may have finished by now; the callback then runs at once.
Register(c) ==
    /\ Goes(c, "submitted", "registered")
    /\ IF job[c] = "finished"
       THEN Fire(c)
       ELSE /\ release' = [release EXCEPT ![c] = "registered"]
            /\ UNCHANGED inflight
    /\ UNCHANGED <<job, queue, busy, answered>>

\* wrap_future and wait_for.
Await(c) ==
    /\ Goes(c, "registered", "waiting")
    /\ answered' = IF job[c] = "finished" THEN answered \cup {c} ELSE answered
    /\ UNCHANGED <<inflight, job, release, queue, busy>>

Return(c) ==
    /\ Goes(c, "waiting", "returned")
    /\ c \in answered
    /\ UNCHANGED <<inflight, job, release, queue, busy, answered>>

\* A timeout that counts from the start of the work.
TimeoutOnceRunning(c) ==
    /\ Goes(c, "waiting", "timedOut")
    /\ job[c] # "pending"
    /\ UNCHANGED <<inflight, job, release, queue, busy, answered>>

\* The wait is over: a timeout of run() or of the engine, or the request was cancelled.
\* An answer that is on its way is lost.
Timeout(c) ==
    /\ Goes(c, "waiting", "timedOut")
    /\ UNCHANGED <<inflight, job, release, queue, busy, answered>>

\* The slot goes back when the wait ends, whatever the job does.
GiveUpAndRelease(c) ==
    /\ Goes(c, "timedOut", "gaveUp")
    /\ job' = [job EXCEPT ![c] = IF @ = "pending" THEN "cancelled" ELSE @]
    /\ Fire(c)
    /\ UNCHANGED <<queue, busy, answered>>

\* The asyncio future passes its cancellation on, which only a queued job obeys.
GiveUp(c) ==
    /\ Goes(c, "timedOut", "gaveUp")
    /\ IF job[c] = "pending"
       THEN job' = [job EXCEPT ![c] = "cancelled"] /\ Fire(c)
       ELSE UNCHANGED <<job, inflight, release>>
    /\ UNCHANGED <<queue, busy, answered>>

-----------------------------------------------------------------------------
(* A worker thread.                                                        *)

\* The item at the head of the queue; a cancelled one is thrown away.
Take ==
    /\ queue # <<>>
    /\ Cardinality(busy) < MaxWorkers
    /\ queue' = Tail(queue)
    /\ IF job[Head(queue)] = "pending"
       THEN /\ job' = [job EXCEPT ![Head(queue)] = "running"]
            /\ busy' = busy \cup {Head(queue)}
       ELSE UNCHANGED <<job, busy>>
    /\ UNCHANGED <<inflight, caller, release, answered>>

\* The inference returns or raises.
Finish(c) ==
    /\ job[c] = "running"
    /\ job' = [job EXCEPT ![c] = "finished"]
    /\ UNCHANGED <<inflight, caller, release, queue, busy, answered>>

\* _invoke_callbacks: first _release, if it was registered in time ...
Release(c) ==
    /\ c \in busy
    /\ job[c] = "finished"
    /\ release[c] = "registered"
    /\ Fire(c)
    /\ UNCHANGED <<caller, job, queue, busy, answered>>

\* ... then the one that carries the result to the event loop; the thread is free.
Deliver(c) ==
    /\ c \in busy
    /\ job[c] = "finished"
    /\ release[c] # "registered"
    /\ answered' = IF caller[c] \in {"submitted", "registered"} THEN answered
                   ELSE answered \cup {c}
    /\ busy' = busy \ {c}
    /\ UNCHANGED <<inflight, caller, job, release, queue>>

-----------------------------------------------------------------------------
CoroutineStep(c) ==
    \/ Refuse(c)
    \/ Admit(c)
    \/ Submit(c)
    \/ Register(c)
    \/ Await(c)
    \/ Return(c)
    \/ Timeout(c)
    \/ GiveUp(c)

Next ==
    \/ Take
    \/ \E c \in Calls : CoroutineStep(c) \/ Finish(c) \/ Release(c) \/ Deliver(c)

Spec == Init /\ [][Next]_vars

\* The event loop runs what it can run, a timeout expires, and threads do their own
\* work.  Nothing makes an inference end: Finish has no fairness.
Fairness ==
    /\ WF_vars(Take)
    /\ \A c \in Calls :
          /\ WF_vars(Submit(c) \/ Register(c) \/ Await(c) \/ GiveUp(c))
          /\ WF_vars(Return(c) \/ Timeout(c))
          /\ WF_vars(Release(c) \/ Deliver(c))

FairSpec == Spec /\ Fairness

-----------------------------------------------------------------------------
(* Properties.                                                             *)

\* Admitted calls whose work is not done.  An abandoned call is one of them until the
\* thread has finished with it.
Live == {c \in Calls : job[c] \in {"pending", "running"}}

Holding == {c \in Calls : caller[c] \notin {"idle", "refused"} /\ release[c] # "fired"}

\* inflight counts every admitted call until its work is done, exactly once, although
\* three parties may give its slot back: the coroutine that comes too late to register,
\* the loop that cancels a queued job, the worker that finishes it.
SlotsExact ==
    /\ inflight = Cardinality(Holding)
    /\ Live \subseteq Holding

\* The limit bounds the work itself, that of callers who walked away included.
LiveWorkBounded == Cardinality(Live) <= MaxInflight

\* A call that gave up never leaves a job behind that has not started.
AbandonedIsNotQueued == \A c \in Calls : caller[c] = "gaveUp" => job[c] # "pending"

\* A call ends though its inference never does.
CallersReturn == \A c \in Calls : (caller[c] = "admitted") ~> (caller[c] \in Ended)

\* If every inference ends, every slot comes back.
InferenceEnds == \A c \in Calls : (job[c] = "running") ~> (job[c] = "finished")

SlotsComeBack ==
    InferenceEnds => \A c \in Calls : (caller[c] = "admitted") ~> (release[c] = "fired")
=============================================================================
