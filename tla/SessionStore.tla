---------------------------- MODULE SessionStore ----------------------------
(***************************************************************************)
(* The encrypted SQLite session store (sessions/sqlite.py) with its TTL    *)
(* rules (sessions/store.py).  Every method but delete() runs without      *)
(* yielding to the event loop, so each is one operator here; the caller    *)
(* decides who holds which lock.                                           *)
(*                                                                         *)
(* A row is a sealed session and the expiry time written beside it.  The   *)
(* two can disagree: the expiry is computed with the idle TTL in force     *)
(* when the row is written, and is_expired() uses the TTL in force when it *)
(* is read, which a restart with another configuration changes.            *)
(***************************************************************************)
EXTENDS AliasTable

CONSTANTS
    Sessions,       \* session ids
    Responses,      \* response ids
    IdleTtls,       \* the values session_idle_ttl has over the restarts
    AbsoluteTtl,    \* session_absolute_ttl
    MaxTime         \* bound of the clock

ASSUME StoreAssumption ==
    /\ None \notin Sessions
    /\ IdleTtls # {} /\ IdleTtls \subseteq Nat \ {0}
    /\ AbsoluteTtl \in Nat \ {0}
    /\ MaxTime \in Nat

VARIABLES
    now,            \* the wall clock
    idleTtl,        \* the idle TTL of the running process
    records,        \* the row of each session, or None
    bindings,       \* the row of each response id, or None
    drawnFor        \* the session each key was drawn for: CSPRNG keys never repeat

storeVars == <<now, idleTtl, records, bindings, drawnFor>>

Time == 0..MaxTime
Expiry == 0..(MaxTime + AbsoluteTtl)

\* MaskingSession: the part of it that decides anything.
Session == [key : Keys, table : Table, lastUsed : Time, expiresAt : Expiry]

Row == [session : Session, expires : Nat]
BindingRow == [session : Sessions, expires : Nat]

StoreTypeOK ==
    /\ now \in Time
    /\ idleTtl \in IdleTtls
    /\ records \in [Sessions -> Row \cup {None}]
    /\ bindings \in [Responses -> BindingRow \cup {None}]
    /\ drawnFor \in [Keys -> Sessions \cup {None}]

StoreInit ==
    /\ now = 0
    /\ idleTtl \in IdleTtls
    /\ records = [s \in Sessions |-> None]
    /\ bindings = [r \in Responses |-> None]
    /\ drawnFor = [key \in Keys |-> None]

-----------------------------------------------------------------------------
(* Reading.                                                                *)

IsExpired(session, t) ==
    \/ t >= session.expiresAt
    \/ t - session.lastUsed >= idleTtl

Present(rows, x, t) == rows[x] # None /\ rows[x].expires > t

\* _read_record deletes a row whose expiry has passed.
DropExpired(rows, x, t) ==
    IF Present(rows, x, t) THEN rows ELSE [rows EXCEPT ![x] = None]

\* _read_record and is_expired read the clock one after the other: at t and at u.
Absent(s, t) == ~ Present(records, s, t)
Alive(s, t, u) == Present(records, s, t) /\ ~ IsExpired(records[s].session, u)
Stale(s, t, u) == Present(records, s, t) /\ IsExpired(records[s].session, u)

-----------------------------------------------------------------------------
(* Writing: every transaction first deletes what has expired.              *)

PurgeExpired(rows, t) ==
    [x \in DOMAIN rows |-> IF Present(rows, x, t) THEN rows[x] ELSE None]

Earlier(a, b) == IF a <= b THEN a ELSE b

RowOf(session, t) ==
    [session |-> [session EXCEPT !.lastUsed = t],
     expires |-> Earlier(session.expiresAt, t + idleTtl)]

WriteSession(s, session) ==
    /\ records' = [PurgeExpired(records, now) EXCEPT ![s] = RowOf(session, now)]
    /\ bindings' = PurgeExpired(bindings, now)

NewSession(key, t) ==
    [key |-> key, table |-> EmptyTable, lastUsed |-> t, expiresAt |-> t + AbsoluteTtl]

FreshKey == CHOOSE key \in Keys : drawnFor[key] = None

\* create(): a session with a fresh key, written before it is used.
CreateSession(s) ==
    /\ \E key \in Keys : drawnFor[key] = None
    /\ drawnFor' = [drawnFor EXCEPT ![FreshKey] = s]
    /\ WriteSession(s, NewSession(FreshKey, now))

\* bind_response().
BindResponse(r, s) ==
    /\ bindings' = [PurgeExpired(bindings, now) EXCEPT
                        ![r] = [session |-> s, expires |-> now + idleTtl]]
    /\ records' = PurgeExpired(records, now)

\* delete(): the session and, in the same transaction, the responses bound to it.
DeleteSession(s) ==
    /\ records' = [PurgeExpired(records, now) EXCEPT ![s] = None]
    /\ bindings' = [r \in Responses |->
                        LET row == PurgeExpired(bindings, now)[r]
                        IN  IF row # None /\ row.session = s THEN None ELSE row]

\* The process restarts, perhaps with another idle TTL: _initialize purges.
ReopenStore(ttl) ==
    /\ idleTtl' = ttl
    /\ records' = PurgeExpired(records, now)
    /\ bindings' = PurgeExpired(bindings, now)
    /\ UNCHANGED <<now, drawnFor>>

AdvanceClock ==
    /\ now < MaxTime
    /\ now' = now + 1
    /\ UNCHANGED <<idleTtl, records, bindings, drawnFor>>
=============================================================================
