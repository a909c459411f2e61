---------------------------- MODULE WebSocketRelay ---------------------------
(***************************************************************************)
(* One accepted WebSocket: _relay() runs two pumps, client to upstream and *)
(* upstream to client, that share the active response.  Its two accesses   *)
(* are under a lock that no await separates from them, so each is one      *)
(* step; everything between two awaits of a pump is one step, and at each  *)
(* await the other pump may run or this one be cancelled.                  *)
(*                                                                         *)
(* The ends are arbitrary: the client sends anything at any time, the      *)
(* upstream any event, asked for or not.  What prepare_request() does is   *)
(* RequestPipeline; here it accepts or rejects.  The stream processor is   *)
(* its choice of outputs for an event.                                     *)
(***************************************************************************)
EXTENDS Integers, Sequences, FiniteSets

CONSTANTS
    Creates,    \* response.create messages; each names the response it starts
    Ids,        \* response ids the upstream may mention
    None

ASSUME RelayAssumption == None \notin Creates

VARIABLES
    active,     \* the active response, or None
    clientAt,   \* the await that client_to_upstream is at, or how it ended
    message,    \* the response.create it works on, or None
    serverAt,   \* the await that upstream_to_client is at, or how it ended
    event,      \* the upstream event it works on
    outputs,    \* what it still has to send for that event
    current,    \* the response it read from `active` for that event
    ids,        \* processor.response_ids of each response
    bound_ids,  \* the ids each response has bound to the session in the store
    handler,    \* handle_responses_websocket
    open,       \* application_state is CONNECTED
    shown,      \* history: response ids the client has seen in events of a response
    forwarded,  \* history: requests the upstream was sent
    finished    \* history: responses that ended

clientVars == <<clientAt, message, forwarded>>
workVars == <<event, outputs, current>>
responseVars == <<ids, bound_ids, shown, finished>>
serverVars == <<serverAt, workVars, responseVars>>
endVars == <<handler, open>>
vars == <<active, clientVars, serverVars, endVars>>

\* returned, connection closed by the other end, unexpected exception, cancelled
Ends == {"returned", "cut", "broken", "cancelled"}

NoEvent == [kind |-> "none", ids |-> {}]

\* The terminal types other than `error` are one kind.
Events ==
    [kind : {"content", "terminal", "error", "timing"},
     ids : {{}} \cup {{i} : i \in Ids}]

\* own: the event itself; extra: pending text or a second event; refusal: an error event
\* of the processor.
Finishing == {<<>>, <<"extra">>, <<"refusal">>, <<"extra", "refusal">>}

OutputsOf(e) ==
    CASE e.kind \in {"terminal", "error"} -> {<<"own">> \o rest : rest \in Finishing}
      [] e.kind = "content" /\ e.ids = {} ->
             {<<>>, <<"own">>, <<"extra", "own">>, <<"refusal">>}
      [] OTHER -> {<<"own">>}

TypeOK ==
    /\ active \in Creates \cup {None}
    /\ clientAt \in {"receive", "prepare", "guard", "send", "explain", "close"} \cup Ends
    /\ message \in Creates \cup {None}
    /\ serverAt \in
           {"receive", "guard", "bind", "emit", "hangUp", "explain", "close"} \cup Ends
    /\ event \in Events \cup {NoEvent}
    /\ outputs \in Seq({"own", "extra", "refusal"})
    /\ current \in Creates \cup {None}
    /\ ids \in [Creates -> SUBSET Ids]
    /\ bound_ids \in [Creates -> SUBSET Ids]
    /\ handler \in {"relaying", "explain", "close", "done"}
    /\ open \in BOOLEAN
    /\ shown \in SUBSET Ids
    /\ forwarded \in SUBSET Creates
    /\ finished \in SUBSET Creates

Init ==
    /\ active = None
    /\ clientAt = "receive"
    /\ message = None
    /\ serverAt = "receive"
    /\ event = NoEvent
    /\ outputs = <<>>
    /\ current = None
    /\ ids = [r \in Creates |-> {}]
    /\ bound_ids = [r \in Creates |-> {}]
    /\ handler = "relaying"
    /\ open = TRUE
    /\ shown = {}
    /\ forwarded = {}
    /\ finished = {}

-----------------------------------------------------------------------------
(* client_to_upstream.                                                     *)

ClientGoes(from, to) == clientAt = from /\ clientAt' = to

ClientDisconnects ==
    /\ ClientGoes("receive", "returned")
    /\ UNCHANGED <<active, message, forwarded, serverVars, endVars>>

\* Binary, malformed, oversized, or a field the adapter refuses.
ReceiveUnusable ==
    /\ ClientGoes("receive", "explain")
    /\ UNCHANGED <<active, message, forwarded, serverVars, endVars>>

\* A request whatever is in progress.
ReceiveAnyCreate(c) ==
    /\ c \notin forwarded
    /\ message' = c
    /\ ClientGoes("receive", "prepare")
    /\ UNCHANGED <<active, forwarded, serverVars, endVars>>

\* A message is used once: the next one of the same content is another message.
ReceiveCreate(c) ==
    /\ c \notin forwarded
    /\ message' = c
    /\ ClientGoes("receive", IF active # None THEN "explain" ELSE "prepare")
    /\ UNCHANGED <<active, forwarded, serverVars, endVars>>

ReceiveOther ==
    /\ ClientGoes("receive", "guard")
    /\ message' = None
    /\ UNCHANGED <<active, forwarded, serverVars, endVars>>

\* prepare_request accepts; the response is active before its request is sent.  What
\* has become too large is refused with the response left active.
Prepared ==
    /\ active' = message
    /\ \/ ClientGoes("prepare", "send")
       \/ ClientGoes("prepare", "explain")
    /\ UNCHANGED <<message, forwarded, serverVars, endVars>>

\* prepare_request rejects.
RejectRequest ==
    /\ ClientGoes("prepare", "explain")
    /\ UNCHANGED <<active, message, forwarded, serverVars, endVars>>

\* guard_unknown_event rejects.
RejectEvent ==
    /\ ClientGoes("guard", "explain")
    /\ UNCHANGED <<active, message, forwarded, serverVars, endVars>>

GuardPassed ==
    /\ ClientGoes("guard", "send")
    /\ UNCHANGED <<active, message, forwarded, serverVars, endVars>>

SendUpstream ==
    /\ ClientGoes("send", "receive")
    /\ forwarded' = forwarded \cup ({message} \ {None})
    /\ message' = None
    /\ UNCHANGED <<active, serverVars, endVars>>

\* The upstream is gone, or the store, the engine or a send raised something else.
ClientPumpFails ==
    /\ clientAt \in {"prepare", "guard", "send", "explain", "close"}
    /\ clientAt' \in {"cut", "broken"}
    /\ UNCHANGED <<active, message, forwarded, serverVars, endVars>>

\* _close_with_error: an error event, then the close; neither if already closed.
ExplainToClient ==
    /\ ClientGoes("explain", "close")
    /\ UNCHANGED <<active, message, forwarded, serverVars, endVars>>

\* The close waits for the other pump.
CloseAfterServer ==
    /\ serverAt \in Ends
    /\ ClientGoes("close", "returned")
    /\ open' = FALSE
    /\ UNCHANGED <<active, message, forwarded, serverVars, handler>>

CloseByClientPump ==
    /\ ClientGoes("close", "returned")
    /\ open' = FALSE
    /\ UNCHANGED <<active, message, forwarded, serverVars, handler>>

-----------------------------------------------------------------------------
(* upstream_to_client.                                                     *)

ServerGoes(from, to) == serverAt = from /\ serverAt' = to

UpstreamCloses ==
    /\ ServerGoes("receive", "cut")
    /\ UNCHANGED <<active, clientVars, workVars, responseVars, endVars>>

\* Not text, too large, or not a JSON object.
ReceiveJunk ==
    /\ ServerGoes("receive", "explain")
    /\ UNCHANGED <<active, clientVars, workVars, responseVars, endVars>>

\* Nothing is in progress: one kind of event passes the guard, the others are refused.
ReceiveStray(e) ==
    /\ active = None
    /\ ServerGoes("receive", IF e.kind = "timing" THEN "guard" ELSE "explain")
    /\ event' = e
    /\ current' = None
    /\ UNCHANGED <<active, clientVars, outputs, responseVars, endVars>>

\* The event is sent as it came; no processor has looked for ids in it.
StrayPasses ==
    /\ ServerGoes("guard", "emit")
    /\ outputs' = <<"own">>
    /\ UNCHANGED <<active, clientVars, event, current, responseVars, endVars>>

StrayBlocked ==
    /\ ServerGoes("guard", "explain")
    /\ UNCHANGED <<active, clientVars, workVars, responseVars, endVars>>

ReceiveForResponse(e) ==
    /\ active # None
    /\ ServerGoes("receive", "bind")
    /\ event' = e
    /\ current' = active
    /\ ids' = [ids EXCEPT ![active] = @ \cup e.ids]
    /\ outputs' \in OutputsOf(e)
    /\ UNCHANGED <<active, clientVars, bound_ids, shown, finished, endVars>>

\* The ids are not bound before the event is sent on.
EmitUnbound ==
    /\ ServerGoes("bind", "emit")
    /\ UNCHANGED <<active, clientVars, workVars, responseVars, endVars>>

BindResponse(i) ==
    /\ serverAt = "bind"
    /\ i \in ids[current] \ bound_ids[current]
    /\ bound_ids' = [bound_ids EXCEPT ![current] = @ \cup {i}]
    /\ UNCHANGED <<active, clientVars, serverAt, workVars, ids, shown, finished, endVars>>

\* bind_response raises.
BindFails ==
    /\ ServerGoes("bind", "explain")
    /\ ~ (ids[current] \subseteq bound_ids[current])
    /\ UNCHANGED <<active, clientVars, workVars, responseVars, endVars>>

AllBound ==
    /\ ServerGoes("bind", "emit")
    /\ ids[current] \subseteq bound_ids[current]
    /\ UNCHANGED <<active, clientVars, workVars, responseVars, endVars>>

\* The client sees the next output; after an error of the processor the connection is
\* closed, unless the event was an error itself.
Emit ==
    /\ outputs # <<>>
    /\ open
    /\ ServerGoes("emit",
           IF Head(outputs) = "refusal" /\ event.kind # "error" THEN "hangUp" ELSE "emit")
    /\ outputs' = Tail(outputs)
    /\ shown' = IF Head(outputs) = "own" /\ current # None
                THEN shown \cup event.ids
                ELSE shown
    /\ UNCHANGED <<active, clientVars, event, current, ids, bound_ids, finished, endVars>>

HangUp ==
    /\ ServerGoes("hangUp", "returned")
    /\ open
    /\ open' = FALSE
    /\ UNCHANGED <<active, clientVars, workVars, responseVars, handler>>

\* The other pump has closed the connection: sending and closing raise.
EmitTooLate ==
    /\ ~ open
    /\ \/ ServerGoes("emit", "broken") /\ outputs # <<>>
       \/ ServerGoes("hangUp", "broken")
    /\ UNCHANGED <<active, clientVars, workVars, responseVars, endVars>>

\* All outputs are out: the response is over after a terminal event or an error.
EventDone ==
    LET over == current # None /\ event.kind \in {"terminal", "error"} IN
    /\ outputs = <<>>
    /\ ServerGoes("emit", "receive")
    /\ active' = IF over THEN None ELSE active
    /\ finished' = IF over THEN finished \cup {current} ELSE finished
    /\ event' = NoEvent
    /\ current' = None
    /\ UNCHANGED <<clientVars, outputs, ids, bound_ids, shown, endVars>>

\* The client is gone, or the processor, the guard or a send raised something else.
ServerPumpFails ==
    /\ serverAt \notin Ends
    /\ serverAt' \in {"cut", "broken"}
    /\ UNCHANGED <<active, clientVars, workVars, responseVars, endVars>>

ExplainToServerSide ==
    /\ ServerGoes("explain", "close")
    /\ UNCHANGED <<active, clientVars, workVars, responseVars, endVars>>

CloseByServerPump ==
    /\ ServerGoes("close", "returned")
    /\ open' = FALSE
    /\ UNCHANGED <<active, clientVars, workVars, responseVars, handler>>

-----------------------------------------------------------------------------
(* _relay after FIRST_COMPLETED, and its caller.                           *)

\* One pump has ended: the other is cancelled at whatever it awaits.
CancelClientPump ==
    /\ serverAt \in Ends
    /\ clientAt \notin Ends
    /\ clientAt' = "cancelled"
    /\ UNCHANGED <<active, message, forwarded, serverVars, endVars>>

\* Only a pump that returned takes the other with it.
CancelAfterReturn ==
    /\ clientAt = "returned"
    /\ serverAt \notin Ends
    /\ serverAt' = "cancelled"
    /\ UNCHANGED <<active, clientVars, workVars, responseVars, endVars>>

CancelServerPump ==
    /\ clientAt \in Ends
    /\ serverAt \notin Ends
    /\ serverAt' = "cancelled"
    /\ UNCHANGED <<active, clientVars, workVars, responseVars, endVars>>

\* Both have ended; the caller explains an unexpected exception, unless the other pump's
\* is raised first.
RelayEnds ==
    /\ handler = "relaying"
    /\ clientAt \in Ends
    /\ serverAt \in Ends
    /\ \/ handler' = "explain" /\ "broken" \in {clientAt, serverAt}
       \/ handler' = "done" /\ {clientAt, serverAt} \cap {"cut", "broken"} # {"broken"}
    /\ UNCHANGED <<active, clientVars, serverVars, open>>

HandlerExplains ==
    /\ handler = "explain"
    /\ handler' = "close"
    /\ UNCHANGED <<active, clientVars, serverVars, open>>

HandlerCloses ==
    /\ handler = "close"
    /\ handler' = "done"
    /\ open' = FALSE
    /\ UNCHANGED <<active, clientVars, serverVars>>

-----------------------------------------------------------------------------
ClientHears ==
    \/ ClientDisconnects
    \/ ReceiveUnusable
    \/ \E c \in Creates : ReceiveCreate(c)
    \/ ReceiveOther

\* prepare_request ends.
ClientPrepares ==
    \/ Prepared
    \/ RejectRequest

ClientWorks ==
    \/ RejectEvent
    \/ GuardPassed
    \/ SendUpstream
    \/ ExplainToClient
    \/ CloseByClientPump

ServerHears ==
    \/ UpstreamCloses
    \/ ReceiveJunk
    \/ \E e \in Events : ReceiveStray(e) \/ ReceiveForResponse(e)

ServerWorks ==
    \/ StrayPasses
    \/ StrayBlocked
    \/ \E i \in Ids : BindResponse(i)
    \/ BindFails
    \/ AllBound
    \/ Emit
    \/ HangUp
    \/ EmitTooLate
    \/ EventDone
    \/ ExplainToServerSide
    \/ CloseByServerPump

Supervise ==
    \/ CancelClientPump
    \/ CancelServerPump
    \/ RelayEnds
    \/ HandlerExplains
    \/ HandlerCloses

Next ==
    \/ ClientHears \/ ClientPrepares \/ ClientWorks \/ ClientPumpFails
    \/ ServerHears \/ ServerWorks \/ ServerPumpFails
    \/ Supervise

Spec == Init /\ [][Next]_vars

\* The event loop runs a pump whose await is over, and the awaits of the fair steps are
\* bounded (the guard's patterns, SQLite, close and ping timeouts).  Nobody has to say
\* anything: receiving is not fair.  Nor is the end of prepare_request: it may wait for
\* the session's lock behind a request that waits for itself (RequestPipeline's
\* WaitsForItself), and with detector_timeout_seconds 0 a detector has no limit.
FairSpec == Spec /\ WF_vars(ClientWorks) /\ WF_vars(ServerWorks) /\ WF_vars(Supervise)

-----------------------------------------------------------------------------
(* Properties.                                                             *)

\* A response id is bound to the session before the client sees it, so that a client that
\* continues at once, or on another connection, finds the session.
ShownIsBound == shown \subseteq UNION {bound_ids[r] : r \in Creates}

\* The upstream never works on two responses of one connection.
Unanswered == forwarded \ finished

OneResponseInFlight == Cardinality(Unanswered) <= 1

\* While the outputs of an event are bound and sent, the response whose processor made
\* them stays the active one: no request of the client slips in between.
ProcessorStaysActive ==
    (serverAt \in {"bind", "emit", "hangUp"} /\ current # None) => active = current

PreparationsEnd == []<>(clientAt # "prepare")

\* A message that was received is sent on, or its connection ends, if prepare_request
\* always comes back: the relay itself never leaves a message lying.
MessageHandled ==
    PreparationsEnd =>
        ((clientAt \in {"prepare", "guard", "send"}) ~> (clientAt \in {"receive"} \cup Ends))

\* When one side ends, the other and the handler end, wherever they are: also when the
\* other is in a prepare_request that would never come back.
HandlerEnds == (clientAt \in Ends \/ serverAt \in Ends) ~> (handler = "done")
=============================================================================
