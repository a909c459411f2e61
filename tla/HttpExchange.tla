---------------------------- MODULE HttpExchange ------------------------------
(***************************************************************************)
(* One HTTP request through the gateway: its body is read and checked,     *)
(* masked, sent, and the answer restored as a whole or as a stream, while  *)
(* the client or the upstream may go away at any await.  The middleware    *)
(* around it counts what it sees.  How a request is masked and an answer   *)
(* restored is left to other modules; here each may succeed or fail.       *)
(***************************************************************************)
EXTENDS Integers, FiniteSets

CONSTANT MaxBody    \* MAX_BODY_BYTES

\* What a client may send
Requests ==
    [path : {"responses", "messages", "count_tokens", "models", "other"},
     encoded : BOOLEAN,                 \* a Content-Encoding other than identity
     media : BOOLEAN,                   \* JSON by its Content-Type, or none
     declared : 0..(MaxBody + 1),       \* Content-Length; 0 if there is none
     body : {"object", "other", "broken"},
     stream : BOOLEAN]

\* What the upstream may answer
Answers ==
    [success : BOOLEAN, type : {"event-stream", "none", "json", "other"}, id : BOOLEAN]

VARIABLES
    product_mode,
    request,
    step,           \* where the handler is
    total,          \* bytes of the body read so far
    answer,
    upstream,       \* the connection: "none", "open", "closed"
    relaying,       \* the generator of the stream has begun
    bound,          \* bind_response was done for each id
    shown,          \* to the client: "nothing", "start", "all"
    status,         \* the status it was shown
    started, completed, stream_errors,      \* counters of the middleware
    recorded,       \* the status of the first completion
    gone            \* the client, while a stream was shown to it

vars == <<product_mode, request, step, total, answer, upstream, relaying, bound, shown, status,
          started, completed, stream_errors, recorded, gone>>

NoAnswer == [success |-> FALSE, type |-> "none", id |-> FALSE]

Init ==
    /\ product_mode \in {"chatgpt", "claude"}
    /\ request \in Requests
    /\ step = "new"
    /\ total = 0
    /\ answer = NoAnswer
    /\ upstream = "none"
    /\ relaying = FALSE
    /\ bound = FALSE
    /\ shown = "nothing"
    /\ status = 0
    /\ started = 0
    /\ completed = 0
    /\ stream_errors = 0
    /\ recorded = 0
    /\ gone = FALSE

-----------------------------------------------------------------------------
(* The routes and the middleware.                                          *)

\* create_app
Routed == request.path \in IF product_mode = "chatgpt" THEN {"responses", "models"}
                           ELSE {"messages", "count_tokens", "models"}

\* complete()
Complete(code) ==
    /\ completed' = IF completed = 0 THEN 1 ELSE completed
    /\ recorded' = IF completed = 0 THEN code ELSE recorded

Goes(from, to) == step = from /\ step' = to

\* A response without a stream; the application returns.
Respond(code) ==
    /\ step' = "done"
    /\ shown' = "all"
    /\ status' = code
    /\ Complete(code)
    /\ UNCHANGED <<started, stream_errors>>

\* Every exception is an error of a stream.
RaiseAsStreamError ==
    /\ step' = "done"
    /\ stream_errors' = stream_errors + 1
    /\ status' = IF shown = "nothing" THEN 500 ELSE status
    /\ shown' = IF shown = "nothing" THEN "all" ELSE shown
    /\ Complete(500)
    /\ UNCHANGED started

\* An exception leaves the application: after the start of a response it is an error of the
\* stream, before it the server answers 500.
Raise ==
    /\ step' = "done"
    /\ stream_errors' = IF shown = "nothing" THEN stream_errors ELSE stream_errors + 1
    /\ status' = IF shown = "nothing" THEN 500 ELSE status
    /\ shown' = IF shown = "nothing" THEN "all" ELSE shown
    /\ Complete(500)
    /\ UNCHANGED started

Arrive ==
    /\ step = "new"
    /\ started' = started + 1
    /\ IF Routed
       THEN /\ step' = IF request.path = "models" THEN "prepared" ELSE "head"
            /\ UNCHANGED <<shown, status, completed, recorded, stream_errors>>
       ELSE /\ step' = "done" /\ shown' = "all" /\ status' = 404 /\ Complete(404)
            /\ UNCHANGED stream_errors
    /\ UNCHANGED <<product_mode, gone, request, total, answer, upstream, relaying, bound>>

-----------------------------------------------------------------------------
(* _read_json_object and prepare_request.                                  *)

telemetry == <<started, completed, stream_errors, recorded, shown, status>>

CheckHead ==
    /\ step = "head"
    /\ IF request.encoded \/ ~ request.media THEN Respond(415)
       ELSE IF request.declared > MaxBody THEN Respond(413)
       ELSE step' = "reading" /\ UNCHANGED telemetry
    /\ UNCHANGED <<product_mode, gone, request, total, answer, upstream, relaying, bound>>

\* Whatever length was declared
ReadChunk(size) ==
    /\ step = "reading"
    /\ total + size <= MaxBody + 1
    /\ total' = total + size
    /\ IF total' > MaxBody THEN Respond(413) ELSE UNCHANGED <<step, telemetry>>
    /\ UNCHANGED <<product_mode, gone, request, answer, upstream, relaying, bound>>

\* An empty body is an empty object.
Parse ==
    /\ step = "reading"
    /\ IF total > 0 /\ request.body # "object" THEN Respond(400)
       ELSE step' = "parsed" /\ UNCHANGED telemetry
    /\ UNCHANGED <<product_mode, gone, request, total, answer, upstream, relaying, bound>>

\* RequestRejected, or an exception that is not foreseen
Prepare ==
    /\ step = "parsed"
    /\ \/ step' = "prepared" /\ UNCHANGED telemetry
       \/ \E code \in {400, 409, 503} : Respond(code)
       \/ Raise
    /\ UNCHANGED <<product_mode, gone, request, total, answer, upstream, relaying, bound>>

-----------------------------------------------------------------------------
(* The upstream.                                                           *)

\* count_tokens is never a stream, a list of models always.
Streaming ==
    \/ request.path = "models"
    \/ request.path # "count_tokens" /\ request.stream /\ total > 0

\* process_stream: a processor and an answer for it
Processed ==
    /\ request.path # "models"
    /\ answer.success
    /\ answer.type \in {"event-stream", "none"}

\* forward_streaming and forward_buffered; the latter closes the connection.
Forward ==
    /\ step = "prepared"
    /\ \/ /\ answer' \in Answers
          /\ step' = IF Streaming THEN "answered" ELSE "buffered"
          /\ upstream' = IF Streaming THEN "open" ELSE "closed"
          /\ UNCHANGED telemetry
       \/ Raise /\ upstream' = "closed" /\ UNCHANGED answer
    /\ UNCHANGED <<product_mode, gone, request, total, relaying, bound>>

Code == IF answer.success THEN 200 ELSE 429

\* The id is bound before anything is restored.
BindBuffered ==
    /\ step = "buffered"
    /\ IF answer.type = "json" /\ answer.id
       THEN \/ step' = "restoring" /\ bound' = TRUE /\ UNCHANGED telemetry
            \/ Raise /\ UNCHANGED bound
       ELSE step' = "restoring" /\ UNCHANGED <<bound, telemetry>>
    /\ UNCHANGED <<product_mode, gone, request, total, answer, upstream, relaying>>

RestoreAndRespond ==
    /\ step = "restoring"
    /\ Respond(Code) \/ (answer.type = "json" /\ Raise)
    /\ UNCHANGED <<product_mode, gone, request, total, answer, upstream, relaying, bound>>

\* http.response.start
StartStream ==
    /\ Goes("answered", "started")
    /\ shown' = "start"
    /\ status' = Code
    /\ UNCHANGED <<product_mode, gone, request, total, answer, upstream, relaying, bound, started,
                   completed, stream_errors, recorded>>

BeginRelay ==
    /\ Goes("started", "relaying")
    /\ relaying' = TRUE
    /\ UNCHANGED <<product_mode, gone, request, total, answer, upstream, bound, telemetry>>

\* A chunk, or flush() at the end of the stream; each may raise, as may the upstream.
Relay ==
    /\ step = "relaying"
    /\ \/ step' = "relaying" /\ UNCHANGED <<telemetry, upstream>>
       \/ step' = "flushed" /\ UNCHANGED <<telemetry, upstream>>
       \/ Raise /\ upstream' = "closed"
    /\ UNCHANGED <<product_mode, gone, request, total, answer, relaying, bound>>

\* An id that cannot be bound is passed over.
BindStreamQuietly ==
    /\ step = "flushed"
    /\ step' = "bound"
    /\ bound' \in IF Processed THEN BOOLEAN ELSE {bound}
    /\ UNCHANGED <<product_mode, gone, request, total, answer, relaying, telemetry, upstream>>

\* on_complete: the ids the processor saw
BindStream ==
    /\ step = "flushed"
    /\ IF Processed
       THEN \/ step' = "bound" /\ bound' = TRUE /\ UNCHANGED <<telemetry, upstream>>
            \/ Raise /\ upstream' = "closed" /\ UNCHANGED bound
       ELSE step' = "bound" /\ UNCHANGED <<bound, telemetry, upstream>>
    /\ UNCHANGED <<product_mode, gone, request, total, answer, relaying>>

\* finally, and the last message of the body
EndStream ==
    /\ step = "bound"
    /\ step' = "done"
    /\ upstream' = "closed"
    /\ shown' = "all"
    /\ Complete(status)
    /\ UNCHANGED <<product_mode, gone, request, total, answer, relaying, bound, status, started,
                   stream_errors>>

\* A generator that has not begun has no finally to run.
Abandon == upstream' = IF relaying \/ upstream = "none" THEN "closed" ELSE upstream

\* The server stops, or a message cannot be received or sent: an exception at an await.
Cancel ==
    /\ step \notin {"new", "done"}
    /\ Raise
    /\ Abandon
    /\ UNCHANGED <<product_mode, request, total, answer, relaying, bound, gone>>

\* The framework sees that the client is gone and ends a stream as if it were over.
HangUp ==
    /\ step \in {"started", "relaying", "flushed", "bound"}
    /\ step' = "done"
    /\ gone' = TRUE
    /\ Complete(status)
    /\ Abandon
    /\ UNCHANGED <<product_mode, request, total, answer, relaying, bound, shown, status, started,
                   stream_errors>>

Next ==
    \/ Arrive \/ CheckHead \/ (\E size \in 1..2 : ReadChunk(size)) \/ Parse \/ Prepare
    \/ Forward \/ BindBuffered \/ RestoreAndRespond
    \/ StartStream \/ BeginRelay \/ Relay \/ BindStream \/ EndStream
    \/ Cancel \/ HangUp

Spec == Init /\ [][Next]_vars

-----------------------------------------------------------------------------
(* Properties.                                                             *)

\* Each request is counted once when it comes and once when it has ended, however it ends.
\* Unless the client hung up, the status recorded is the one of a response the client has seen
\* to its end, else 500, and a stream that was broken off is an error of the stream, once;
\* no other request is.
AccountedFor ==
    step = "done" =>
        /\ started = 1 /\ completed = 1
        /\ ~ gone => /\ recorded = IF shown = "all" THEN status ELSE 500
                     /\ stream_errors = IF shown = "start" THEN 1 ELSE 0

\* An answer whose id the gateway reads
Readable == IF Streaming THEN Processed ELSE answer.type = "json"

\* A client that has seen the end of an answer may continue from it: its id is bound.  And a
\* stream that was begun has closed its connection.
EndsInOrder ==
    step = "done" =>
        /\ shown = "all" /\ status = Code /\ upstream # "none" /\ answer.id /\ Readable => bound
        /\ relaying \/ ~ Streaming => upstream # "open"
=============================================================================
