------------------------- MODULE MCRequestPipeline --------------------------
(***************************************************************************)
(* Small instances of RequestPipeline.                                     *)
(***************************************************************************)
EXTENDS RequestPipeline, TLC

CONSTANT S      \* a stable session id

MCSessions == {S} \cup Tasks
MCEphemeral(t) == t

\* The short alias of two secrets collides under every key; the long one does not.
MCAliasFor(key, secret, n) == IF n = 1 THEN <<key, None>> ELSE <<key, secret>>
MCAliases == Keys \X (Secrets \cup {None})

Ask(transport, session, previous, secrets, echoes) ==
    [transport |-> transport, session |-> session, previous |-> previous,
     secrets |-> secrets, echoes |-> echoes]

MCRequests ==
    {Ask("buffered", S, None, {x}, FALSE) : x \in Secrets}
    \cup {Ask("websocket", S, p, Secrets, FALSE) : p \in Tasks}
    \cup {Ask("buffered", None, p, {x}, TRUE) : p \in Tasks, x \in Secrets}

\* Requests that reach every branch of the actions on two tasks: with one secret over every
\* transport, and with another one, or both, where a table may be full.
Usual == {CHOOSE x \in Secrets : TRUE}

WideRequests ==
    {Ask(transport, S, None, Usual, FALSE) : transport \in Transports \ {"handshake"}}
    \cup {Ask("handshake", S, None, {}, FALSE)}
    \cup {Ask("websocket", S, p, Usual, FALSE) : p \in Tasks}
    \cup {Ask("stream", None, p, Usual, FALSE) : p \in Tasks \cup {None}}
    \cup {Ask("buffered", None, None, Usual, TRUE)}
    \cup {Ask("buffered", S, None, secrets, FALSE) : secrets \in {Secrets, Secrets \ Usual}}

Symmetry == Permutations(Tasks) \cup Permutations(Secrets)
=============================================================================
