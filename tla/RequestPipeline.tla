--------------------------- MODULE RequestPipeline --------------------------
(***************************************************************************)
(* What the gateway does with a request (gateway/request_pipeline.py, and  *)
(* the part of app.py and websocket.py around it): find the session, take  *)
(* its lock, load or create its alias table, mask, save, release, scan for *)
(* leaks, send, and bind the id of the response to the session.            *)
(*                                                                         *)
(* A task is one request.  The event loop switches tasks only where the    *)
(* code awaits something that is not ready: the lock, a detector, a leak   *)
(* scanner, the upstream.  An action is what a task does between two such  *)
(* points.  The id of the response to request t is t itself.               *)
(***************************************************************************)
EXTENDS SessionStore, Sequences

CONSTANTS
    Tasks,          \* the requests that are ever made
    Requests,       \* what a client may ask for
    Ephemeral(_)    \* the "eph:<uuid>" session id that task t would draw

VARIABLES
    owner, queue,   \* the session locks (SessionLock)
    pc,             \* where each task is
    request,        \* its request
    storeKey,       \* the session id it resolved to
    work,           \* its copy of the session
    todo,           \* secrets of the payload it has yet to mask
    upstream,       \* every alias the upstream has been sent, with its origin
    known           \* response ids that clients have seen

taskVars == <<pc, request, storeKey, work, todo, upstream, known>>
vars == <<storeVars, owner, queue, taskVars>>

Lock == INSTANCE SessionLock

Transports == {"buffered", "stream", "websocket", "handshake"}

\* session is the stable id of the headers or of the WebSocket connection.
RequestType ==
    [transport : Transports, session : Sessions \cup {None},
     previous : Tasks \cup {None}, secrets : SUBSET Secrets, echoes : BOOLEAN]

ASSUME PipelineAssumption ==
    /\ None \notin Tasks
    /\ None \notin Session
    /\ Responses = Tasks
    /\ Requests \subseteq RequestType
    /\ \A r \in Requests :
        /\ r.transport \in {"websocket", "handshake"} => r.session # None
        /\ r.transport = "handshake" => r.previous = None /\ r.secrets = {}
    /\ \A t \in Tasks : Ephemeral(t) \in Sessions

Running == {"queued", "reaping", "selfwait", "masking", "guarding", "awaiting", "streaming"}
Final == {"answered", "rejected", "failed", "lost"}
Stages == {"idle"} \cup Running \cup Final

\* One alias in one payload: who sent it, under which table, for what.
Message ==
    [turn : Tasks, session : Sessions, key : Keys, secret : Secrets, alias : Aliases \cup {None}]

TypeOK ==
    /\ StoreTypeOK
    /\ Lock!LockTypeOK
    /\ pc \in [Tasks -> Stages]
    /\ request \in [Tasks -> Requests \cup {None}]
    /\ storeKey \in [Tasks -> Sessions \cup {None}]
    /\ work \in [Tasks -> Session \cup {None}]
    /\ todo \in [Tasks -> SUBSET Secrets]
    /\ upstream \subseteq Message
    /\ known \subseteq Tasks

Init ==
    /\ StoreInit
    /\ Lock!LockInit
    /\ pc = [t \in Tasks |-> "idle"]
    /\ request = [t \in Tasks |-> None]
    /\ storeKey = [t \in Tasks |-> None]
    /\ work = [t \in Tasks |-> None]
    /\ todo = [t \in Tasks |-> {}]
    /\ upstream = {}
    /\ known = {}

Goto(t, stage) == pc' = [pc EXCEPT ![t] = stage]

-----------------------------------------------------------------------------
(* _resolve_store_key: which session the request belongs to.               *)

\* A request with a stable id, or a connection that names no earlier response.
NamesItsSession(r) ==
    \/ r.transport = "websocket" /\ r.previous = None
    \/ r.transport # "websocket" /\ r.session # None

\* The request looks for its session through previous_response_id.
AsksForPrevious(r) == r.previous # None /\ ~ NamesItsSession(r)

\* A task that knows its session joins the lock of that session.
Join(t, r, s, stage) ==
    /\ request' = [request EXCEPT ![t] = r]
    /\ storeKey' = [storeKey EXCEPT ![t] = s]
    /\ todo' = [todo EXCEPT ![t] = r.secrets]
    /\ Lock!RequestLock(t, s)
    /\ Goto(t, stage)
    /\ UNCHANGED <<work, upstream, known>>

Refuse(t, r) ==
    /\ request' = [request EXCEPT ![t] = r]
    /\ Goto(t, "rejected")
    /\ UNCHANGED <<owner, queue, storeKey, work, todo, upstream, known>>

ArriveWithSession(t, r) ==
    /\ pc[t] = "idle"
    /\ NamesItsSession(r)
    /\ Join(t, r, r.session, "queued")
    /\ UNCHANGED storeVars

\* No id at all: a session of its own, unless the payload cites earlier aliases.
ArriveUnstable(t, r) ==
    /\ pc[t] = "idle"
    /\ r.session = None /\ r.previous = None
    /\ \/ ~ r.echoes /\ Join(t, r, Ephemeral(t), "queued")
       \/ r.echoes /\ Refuse(t, r)
    /\ UNCHANGED storeVars

Bound(response) ==
    IF Present(bindings, response, now) THEN bindings[response].session ELSE None

\* The session a response id leads to is the one the connection is fixed to.
AnySession(r, s) == TRUE

FitsConnection(r, s) == r.transport = "websocket" => s = r.session

\* resolve_response() deletes an expired binding, and get() an expired session row.
ReadBound(r, s) ==
    /\ bindings' = DropExpired(bindings, r.previous, now)
    /\ records' = IF s = None THEN records ELSE DropExpired(records, s, now)
    /\ UNCHANGED <<idleTtl, drawnFor>>

\* The clock may move between the two readings that get() makes of it.
ClockReadings == {u \in {now, now + 1} : u <= MaxTime}

ArriveWithPrevious(t, r) ==
    /\ pc[t] = "idle"
    /\ AsksForPrevious(r) /\ r.previous \in known
    /\ \E u \in ClockReadings :
        LET s == Bound(r.previous) IN
        /\ now' = u
        /\ ReadBound(r, s)
        /\ \/ /\ s # None /\ Alive(s, now, u) /\ FitsConnection(r, s)
              /\ Join(t, r, s, "queued")
           \/ /\ s # None /\ Alive(s, now, u) /\ ~ FitsConnection(r, s)
              /\ Refuse(t, r)
           \/ /\ ~ (s # None /\ Present(records, s, now))
              /\ Refuse(t, r)
           \/ /\ s # None /\ Stale(s, now, u)
              /\ Join(t, r, s, "reaping")

\* The lookup of the binding or of its session raises: 503.
LookupFails(t, r) ==
    /\ pc[t] = "idle"
    /\ AsksForPrevious(r) /\ r.previous \in known
    /\ Refuse(t, r)
    /\ UNCHANGED storeVars

\* get() found the bound session expired and calls delete(), which takes the lock.
Reap(t) ==
    /\ pc[t] = "reaping"
    /\ owner[storeKey[t]] = t
    /\ DeleteSession(storeKey[t])
    /\ Lock!ReleaseLock(storeKey[t])
    /\ Goto(t, "rejected")
    /\ UNCHANGED <<now, idleTtl, drawnFor, request, storeKey, work, todo, upstream, known>>

-----------------------------------------------------------------------------
(* The section under the session lock: get_or_create, mask, save.          *)

\* get_or_create(): the row as it is, or a new session.
LoadSession(t) ==
    /\ pc[t] = "queued"
    /\ owner[storeKey[t]] = t
    /\ LET s == storeKey[t] IN
       \/ /\ Absent(s, now)
          /\ CreateSession(s)
          /\ work' = [work EXCEPT ![t] = NewSession(FreshKey, now)]
          /\ Goto(t, "masking")
          /\ UNCHANGED <<now, idleTtl, owner, queue>>
       \/ \E u \in ClockReadings :
          /\ Alive(s, now, u)
          /\ now' = u
          /\ work' = [work EXCEPT ![t] = records[s].session]
          /\ Goto(t, "masking")
          /\ UNCHANGED <<idleTtl, records, bindings, drawnFor, owner, queue>>
       \/ \E u \in ClockReadings :
          \* get() calls delete() without the handle: it asks for the lock again.
          /\ Stale(s, now, u)
          /\ now' = u
          /\ Lock!RequestLock(t, s)
          /\ Goto(t, "selfwait")
          /\ UNCHANGED <<idleTtl, records, bindings, drawnFor, work>>
    /\ UNCHANGED <<request, storeKey, todo, upstream, known>>

\* A full table is begun anew.
MaskSecretAnew(t, secret) ==
    LET table == work[t].table
        full == table[secret] = None /\ Cardinality(Mapped(table)) >= MaxMappings
        before == IF full THEN EmptyTable ELSE table
    IN
    /\ pc[t] = "masking"
    /\ secret \in todo[t]
    /\ \E after \in {before} \cup
            {[before EXCEPT ![secret] = AliasFor(work[t].key, secret, n)] : n \in 1..MaxLength} :
        /\ GetOrCreateAlias(before, work[t].key, secret, after)
        /\ work' = [work EXCEPT ![t].table = after]
    /\ todo' = [todo EXCEPT ![t] = @ \ {secret}]
    /\ UNCHANGED <<storeVars, owner, queue, pc, request, storeKey, upstream, known>>

\* mask_text() finds one secret and asks the factory for its alias.
MaskSecret(t, secret) ==
    /\ pc[t] = "masking"
    /\ secret \in todo[t]
    /\ \E after \in {work[t].table} \cup
            {[work[t].table EXCEPT ![secret] = AliasFor(work[t].key, secret, n)] :
                n \in 1..MaxLength} :
        /\ GetOrCreateAlias(work[t].table, work[t].key, secret, after)
        /\ work' = [work EXCEPT ![t].table = after]
    /\ todo' = [todo EXCEPT ![t] = @ \ {secret}]
    /\ UNCHANGED <<storeVars, owner, queue, pc, request, storeKey, upstream, known>>

\* A policy block, a detector fault or timeout, no alias left: the lock is released
\* and what was allocated is forgotten.
MaskingFails(t) ==
    /\ pc[t] = "masking"
    /\ request[t].transport # "handshake"
    /\ Lock!ReleaseLock(storeKey[t])
    /\ Goto(t, "rejected")
    /\ UNCHANGED <<storeVars, request, storeKey, work, todo, upstream, known>>

SaveNothing(t) ==
    /\ pc[t] = "masking" /\ todo[t] = {}
    /\ Lock!ReleaseLock(storeKey[t])
    /\ Goto(t, "guarding")
    /\ UNCHANGED <<storeVars, request, storeKey, work, todo, upstream, known>>

\* save() and the end of the locked block.
SaveSession(t) ==
    /\ pc[t] = "masking" /\ todo[t] = {}
    /\ WriteSession(storeKey[t], work[t])
    /\ Lock!ReleaseLock(storeKey[t])
    /\ Goto(t, "guarding")
    /\ UNCHANGED <<now, idleTtl, drawnFor, request, storeKey, work, todo, upstream, known>>

\* SessionError from SQLite while the lock is held: 503.
StoreFails(t) ==
    /\ \/ pc[t] = "queued" /\ owner[storeKey[t]] = t
       \/ pc[t] = "masking" /\ todo[t] = {}
    /\ Lock!ReleaseLock(storeKey[t])
    /\ Goto(t, "rejected")
    /\ UNCHANGED <<storeVars, request, storeKey, work, todo, upstream, known>>

-----------------------------------------------------------------------------
(* After the lock: leak guards, the upstream, the response.                *)

GuardBlocks(t) ==
    /\ pc[t] = "guarding"
    /\ Goto(t, "rejected")
    /\ UNCHANGED <<storeVars, owner, queue, request, storeKey, work, todo, upstream, known>>

Payload(t) ==
    {[turn |-> t, session |-> storeKey[t], key |-> work[t].key,
      secret |-> secret, alias |-> work[t].table[secret]] : secret \in request[t].secrets}

\* The guards pass and the masked payload leaves; a handshake only opens the connection.
Send(t) ==
    /\ pc[t] = "guarding"
    /\ \/ /\ request[t].transport = "handshake"
          /\ Goto(t, "answered")
          /\ UNCHANGED upstream
       \/ /\ request[t].transport # "handshake"
          /\ Goto(t, "awaiting")
          /\ upstream' = upstream \cup Payload(t)
    /\ UNCHANGED <<storeVars, owner, queue, request, storeKey, work, todo, known>>

\* A buffered response, or the first event of a WebSocket one: bound, then shown.
Answer(t) ==
    /\ pc[t] = "awaiting"
    /\ request[t].transport \in {"buffered", "websocket"}
    /\ BindResponse(t, storeKey[t])
    /\ known' = known \cup {t}
    /\ Goto(t, "answered")
    /\ UNCHANGED <<now, idleTtl, drawnFor, owner, queue, request, storeKey, work, todo, upstream>>

\* An SSE response shows its id in the first event and is bound when the stream ends.
StreamBegins(t) ==
    /\ pc[t] = "awaiting"
    /\ request[t].transport = "stream"
    /\ known' = known \cup {t}
    /\ Goto(t, "streaming")
    /\ UNCHANGED <<storeVars, owner, queue, request, storeKey, work, todo, upstream>>

StreamEnds(t) ==
    /\ pc[t] = "streaming"
    /\ BindResponse(t, storeKey[t])
    /\ Goto(t, "answered")
    /\ UNCHANGED <<now, idleTtl, drawnFor, owner, queue, request, storeKey, work, todo, upstream,
                   known>>

\* The upstream fails, the binding cannot be written, or the client stops reading.
ResponseFails(t) ==
    /\ pc[t] \in {"awaiting", "streaming"}
    /\ Goto(t, "failed")
    /\ UNCHANGED <<storeVars, owner, queue, request, storeKey, work, todo, upstream, known>>

-----------------------------------------------------------------------------
(* Cancellation and restarts.                                              *)

\* The lock t waits for while it holds it: the inner wait is cancelled first.
LeaveOwnQueue(t, s) ==
    \E i \in 1..Len(queue[s]) :
        /\ queue[s][i] = t
        /\ Lock!HandOver(s, Lock!Without(queue[s], i))

\* _relay cancels the client side of a WebSocket: `async with` gives the lock back.
Cancel(t) ==
    /\ pc[t] \in Running
    /\ request[t].transport \in {"websocket", "handshake"}
    /\ \/ /\ pc[t] = "guarding"
          /\ UNCHANGED <<owner, queue>>
       \/ /\ pc[t] = "selfwait"
          /\ LeaveOwnQueue(t, storeKey[t])
       \/ /\ pc[t] \in {"queued", "reaping"} /\ owner[storeKey[t]] # t
          /\ Lock!LeaveQueue(t, storeKey[t])
       \/ /\ pc[t] \in {"queued", "reaping", "masking"} /\ owner[storeKey[t]] = t
          /\ Lock!ReleaseLock(storeKey[t])
    /\ Goto(t, "failed")
    /\ UNCHANGED <<storeVars, request, storeKey, work, todo, upstream, known>>

\* The process dies and is started again: only the database survives.
Restart(ttl) ==
    /\ ReopenStore(ttl)
    /\ owner' = [s \in Sessions |-> None]
    /\ queue' = [s \in Sessions |-> <<>>]
    /\ pc' = [t \in Tasks |-> IF pc[t] \in Running THEN "lost" ELSE pc[t]]
    /\ UNCHANGED <<request, storeKey, work, todo, upstream, known>>

Tick ==
    /\ AdvanceClock
    /\ UNCHANGED <<owner, queue, taskVars>>

-----------------------------------------------------------------------------
Arrive(t) ==
    \E r \in Requests :
        \/ ArriveWithSession(t, r)
        \/ ArriveUnstable(t, r)
        \/ ArriveWithPrevious(t, r)
        \/ LookupFails(t, r)

Proceed(t) ==
    \/ Reap(t)
    \/ LoadSession(t)
    \/ \E secret \in Secrets : MaskSecret(t, secret)
    \/ MaskingFails(t)
    \/ SaveSession(t)
    \/ StoreFails(t)
    \/ GuardBlocks(t)
    \/ Send(t)
    \/ Answer(t)
    \/ StreamBegins(t)
    \/ StreamEnds(t)
    \/ ResponseFails(t)

Next ==
    \/ \E t \in Tasks : Arrive(t) \/ Proceed(t) \/ Cancel(t)
    \/ \E ttl \in IdleTtls : Restart(ttl)
    \/ Tick

Spec == Init /\ [][Next]_vars

\* The event loop runs every task that can run, and up to the sending a task waits only
\* for the lock, for SQLite, and for detectors.  These have a limit unless
\* detector_timeout_seconds is 0, so their end is not assumed; nor is an answer: a
\* WebSocket receives without a timeout.
OnItsOwn(t) == pc[t] \in {"queued", "reaping", "guarding"} /\ Proceed(t)

FairSpec == Spec /\ \A t \in Tasks : WF_vars(OnItsOwn(t))

-----------------------------------------------------------------------------
(* Properties.                                                             *)

\* Whatever was sent under a key is in the row of that key for as long as the row is
\* there: no save may lose what another request recorded and sent.
SentIsRecorded ==
    \A m \in upstream :
        LET row == records[m.session] IN
        row # None /\ row.session.key = m.key => row.session.table[m.secret] = m.alias

\* No alias stands for two secrets, in a row or in a copy a request works on.
TablesInjective ==
    /\ \A s \in Sessions : records[s] # None => Injective(records[s].session.table)
    /\ \A t \in Tasks : work[t] # None => Injective(work[t].table)

\* A turn that continues another one can restore what the other one sent, unless the
\* session was replaced by a new one in between.
PreviousTurnRestorable ==
    \A t \in Tasks, m \in upstream :
        /\ pc[t] \in {"awaiting", "streaming", "answered"}
        /\ AsksForPrevious(request[t]) /\ request[t].previous = m.turn
        /\ work[t].key = m.key
        => work[t].table[m.secret] = m.alias

\* previous_response_id leads to the session that produced the response.
PreviousSameSession ==
    \A t \in Tasks :
        /\ pc[t] \in {"masking", "guarding", "awaiting", "streaming", "answered"}
        /\ AsksForPrevious(request[t])
        => /\ storeKey[t] = storeKey[request[t].previous]
           /\ request[t].transport = "websocket" => storeKey[t] = request[t].session

\* While a row stays under its key its table only grows.
RowsGrow ==
    \A s \in Sessions :
        /\ records[s] # None /\ records'[s] # None
        /\ records[s].session.key = records'[s].session.key
        => Includes(records'[s].session.table, records[s].session.table)

RecordedStands == [][RowsGrow]_vars

\* The gateway implements the ledger of issued aliases: whoever reads the upstream's
\* copy of the traffic never sees one alias for two secrets of a key, nor two aliases
\* for one secret.
Issued == {[key |-> m.key, secret |-> m.secret, alias |-> m.alias] : m \in upstream}

Ledger == INSTANCE AliasLedger WITH issued <- Issued

ImplementsLedger == Ledger!LedgerSpec

-----------------------------------------------------------------------------
\* A task that waits behind itself.
WaitsForItself(t) == pc[t] = "selfwait"

\* No detector runs for ever.
DetectorsEnd == \A t \in Tasks : []<>(pc[t] # "masking")

\* Every request is sent or ends, unless it is queued behind a task of its session that
\* waits for itself: releases, failures, cancellations and silent upstreams keep no
\* other request of the session waiting.
EveryRequestGetsThrough ==
    DetectorsEnd =>
        \A t \in Tasks :
            (pc[t] \in {"queued", "reaping", "masking", "guarding"}) ~>
                \/ pc[t] \in Final \cup {"awaiting", "streaming"}
                \/ \E u \in Tasks : WaitsForItself(u) /\ storeKey[u] = storeKey[t]

\* No task waits for a lock it holds.
NoTaskWaitsForItself ==
    \A s \in Sessions : \A i \in 1..Len(queue[s]) : queue[s][i] # owner[s]
=============================================================================
