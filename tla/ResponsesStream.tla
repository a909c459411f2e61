--------------------------- MODULE ResponsesStream --------------------------
(***************************************************************************)
(* ResponsesStreamProcessor: one response of the OpenAI Responses API on   *)
(* its way to the client.  The arguments of a tool call arrive in pieces   *)
(* that are held back until the call is complete; they are then parsed,    *)
(* restored if the tool is trusted, and emitted in one event, or replaced  *)
(* by an error event.  Text is restored piece by piece.                    *)
(*                                                                         *)
(* A text is its length.  The upstream is truthful, every event that       *)
(* repeats the arguments of a call has all of them, and free otherwise: it *)
(* interleaves calls and texts, leaves out events and stops anywhere.      *)
(***************************************************************************)
EXTENDS Integers, FiniteSets, Dicts

CONSTANTS
    Items,      \* tool calls, by item_id
    Blocks,     \* text blocks, by (output_index, content_index)
    Names,      \* tool names
    Trusted,    \* trusted_local_tools
    None,
    Cap,        \* _MAX_ARG_BUFFER_BYTES
    MaxPiece,   \* bound: length of a delta
    MaxArgs,    \* bound: length of the arguments of a call, and of a text
    MaxCarry    \* the length of the longest alias, less one

ASSUME StreamAssumption ==
    /\ None \notin Names
    /\ Trusted \subseteq Names
    /\ {Cap, MaxPiece, MaxArgs, MaxCarry} \subseteq Nat

VARIABLES
    transport,      \* "sse" or "websocket"
    calls,          \* what the upstream sends: name, arguments well-formed or not
    progress,       \* how far the upstream is with a call
    sent,           \* length of the arguments the upstream has sent
    arg_buffers,    \* _arg_buffers, the total length for each item
    arg_sizes,      \* _arg_sizes
    arg_overflow,   \* _arg_overflow
    item_names,     \* _item_names
    carry,          \* _text_restorers: length of the text held back
    got,            \* history: text received of each block
    shown,          \* history: text emitted of each block
    delivered,      \* history: arguments the client was given
    refused,        \* history: calls that an error event names as not forwarded
    reported,       \* history: calls that the last error event counts as incomplete
    ended           \* "no", "finished", "closed" after a refusal, "broken"

callVars == <<calls, progress, sent>>
argVars == <<arg_buffers, arg_sizes, arg_overflow>>
textVars == <<carry, got, shown>>
outcome == <<delivered, refused, reported, ended>>
vars == <<transport, callVars, argVars, item_names, textVars, outcome>>

TypeOK ==
    /\ transport \in {"sse", "websocket"}
    /\ calls \in [Items -> [name : Names, valid : BOOLEAN]]
    /\ progress \in [Items -> {"new", "open", "argsDone", "over"}]
    /\ sent \in [Items -> 0..MaxArgs]
    /\ arg_buffers \in PartialFunctions(Items, 0..Cap)
    /\ arg_sizes \in PartialFunctions(Items, 0..(Cap + MaxPiece))
    /\ arg_overflow \subseteq DOMAIN arg_sizes \ DOMAIN arg_buffers
    /\ item_names \in PartialFunctions(Items, Names)
    /\ carry \in PartialFunctions(Blocks, 0..MaxCarry)
    /\ got \in [Blocks -> 0..MaxArgs]
    /\ shown \in [Blocks -> 0..MaxArgs]
    /\ delivered \subseteq [item : Items, length : 0..MaxArgs, restored : BOOLEAN]
    /\ refused \in SUBSET Items
    /\ reported \in SUBSET Items
    /\ ended \in {"no", "finished", "closed", "broken"}

Init ==
    /\ transport \in {"sse", "websocket"}
    /\ calls \in [Items -> [name : Names, valid : BOOLEAN]]
    /\ progress = [i \in Items |-> "new"]
    /\ sent = [i \in Items |-> 0]
    /\ arg_buffers = <<>>
    /\ arg_sizes = <<>>
    /\ arg_overflow = {}
    /\ item_names = <<>>
    /\ carry = <<>>
    /\ got = [b \in Blocks |-> 0]
    /\ shown = [b \in Blocks |-> 0]
    /\ delivered = {}
    /\ refused = {}
    /\ reported = {}
    /\ ended = "no"

-----------------------------------------------------------------------------
(* Results.                                                                *)

\* A tool whose name is not known is trusted.
RestoresUnlessDenied(name) == name \notin Names \ Trusted

\* ToolTrustPolicy.restores_arguments
Restores(name) == name \in Trusted

\* _safe_args returns a text: an empty one is passed on for a trusted tool, and is no
\* JSON for any other.
Accepted(i, length, restore) == IF length = 0 THEN restore ELSE calls[i].valid

Deliver(i, length, restore) ==
    /\ delivered' = delivered \cup {[item |-> i, length |-> length, restored |-> restore]}
    /\ UNCHANGED <<refused, reported, ended>>

\* The processor goes on after an error event, whatever carries its events.
RefuseAndGoOn(i) ==
    /\ refused' = refused \cup {i}
    /\ UNCHANGED <<delivered, reported, ended>>

\* An error event of the processor; the WebSocket is closed after it.
Refuse(i) ==
    /\ refused' = refused \cup {i}
    /\ ended' = IF transport = "websocket" THEN "closed" ELSE ended
    /\ UNCHANGED <<delivered, reported>>

Forward(i, length, restore) ==
    IF Accepted(i, length, restore) THEN Deliver(i, length, restore) ELSE Refuse(i)

-----------------------------------------------------------------------------
(* Tool calls.                                                             *)

Advances(i, from, to) ==
    /\ ended = "no"
    /\ progress[i] \in from
    /\ progress' = [progress EXCEPT ![i] = to]
    /\ UNCHANGED <<transport, calls>>

\* output_item.added, before any of the arguments, with or without the name
ItemAdded(i) ==
    /\ Advances(i, {"new"}, "open")
    /\ item_names' \in {item_names, Put(item_names, i, calls[i].name)}
    /\ UNCHANGED <<sent, argVars, textVars, outcome>>

\* Too much is dropped, and what follows is collected anew.
ArgsDeltaRestarting(i, n) ==
    LET size == Get(arg_sizes, i, 0) + n IN
    /\ Advances(i, {"new", "open"}, "open")
    /\ sent[i] + n <= MaxArgs
    /\ sent' = [sent EXCEPT ![i] = @ + n]
    /\ IF size > Cap
       THEN /\ arg_buffers' = Drop(arg_buffers, i)
            /\ arg_sizes' = Drop(arg_sizes, i)
       ELSE /\ arg_buffers' = Put(arg_buffers, i, Get(arg_buffers, i, 0) + n)
            /\ arg_sizes' = Put(arg_sizes, i, size)
    /\ UNCHANGED <<arg_overflow, item_names, textVars, outcome>>

\* function_call_arguments.delta
ArgsDelta(i, n) ==
    LET size == Get(arg_sizes, i, 0) + n IN
    /\ Advances(i, {"new", "open"}, "open")
    /\ sent[i] + n <= MaxArgs
    /\ sent' = [sent EXCEPT ![i] = @ + n]
    /\ IF i \in arg_overflow
       THEN UNCHANGED argVars
       ELSE /\ arg_sizes' = Put(arg_sizes, i, size)
            /\ IF size > Cap
               THEN /\ arg_overflow' = arg_overflow \cup {i}
                    /\ arg_buffers' = Drop(arg_buffers, i)
               ELSE /\ arg_buffers' = Put(arg_buffers, i, Get(arg_buffers, i, 0) + n)
                    /\ UNCHANGED arg_overflow
    /\ UNCHANGED <<item_names, textVars, outcome>>

\* Events that end a call have all of its arguments, also when no delta came before.
Repeats(i, whole) ==
    /\ sent[i] \in {0, whole}
    /\ sent' = [sent EXCEPT ![i] = whole]

\* function_call_arguments.done; what was not buffered is taken from the event itself
ArgsDone(i, whole) ==
    LET buffered == Get(arg_buffers, i, 0)
        raw == IF buffered = 0 THEN whole ELSE buffered
    IN  /\ Advances(i, {"new", "open"}, "argsDone")
        /\ Repeats(i, whole)
        /\ arg_buffers' = Drop(arg_buffers, i)
        /\ arg_sizes' = Drop(arg_sizes, i)
        /\ arg_overflow' = arg_overflow \ {i}
        /\ IF i \in arg_overflow
           THEN Refuse(i)
           ELSE Forward(i, raw, Restores(Get(item_names, i, None)))
        /\ UNCHANGED <<item_names, textVars>>

\* output_item.done has the name and all of the arguments; empty ones are not looked at
ItemDone(i, whole) ==
    /\ Advances(i, {"new", "open", "argsDone"}, "over")
    /\ Repeats(i, whole)
    /\ progress[i] = "argsDone" => whole = sent[i]
    /\ item_names' = Put(item_names, i, calls[i].name)
    /\ IF whole = 0 THEN Deliver(i, 0, FALSE)
       ELSE Forward(i, whole, Restores(calls[i].name))
    /\ UNCHANGED <<argVars, textVars>>

\* A `response` object, such as that of response.completed, repeats the calls that are
\* over; only texts are restored in it.
Snapshot ==
    /\ ended = "no"
    /\ delivered' = delivered \cup
           {[item |-> i, length |-> sent[i], restored |-> FALSE] :
               i \in {j \in Items : progress[j] = "over"}}
    /\ UNCHANGED <<transport, callVars, argVars, item_names, textVars, refused, reported,
                   ended>>

-----------------------------------------------------------------------------
(* Texts.  How much of a piece is held back is StreamingRestorer.          *)

Held(b) == Get(carry, b, 0)

TextDelta(b, n) ==
    /\ ended = "no"
    /\ got[b] + n <= MaxArgs
    /\ got' = [got EXCEPT ![b] = @ + n]
    /\ \E held \in 0..MaxCarry :
          /\ held <= Held(b) + n
          /\ carry' = Put(carry, b, held)
          /\ shown' = [shown EXCEPT ![b] = @ + Held(b) + n - held]
    /\ UNCHANGED <<transport, callVars, argVars, item_names, outcome>>

\* The restorer is dropped with what it holds.
TextDoneUnflushed(b) ==
    /\ ended = "no"
    /\ carry' = Drop(carry, b)
    /\ UNCHANGED <<transport, callVars, argVars, item_names, got, shown, outcome>>

\* output_text.done: the rest is emitted before the event
TextDone(b) ==
    /\ ended = "no"
    /\ carry' = Drop(carry, b)
    /\ shown' = [shown EXCEPT ![b] = @ + Held(b)]
    /\ UNCHANGED <<transport, callVars, argVars, item_names, got, outcome>>

-----------------------------------------------------------------------------
(* The end.                                                                *)

FlushTexts ==
    /\ carry' = <<>>
    /\ shown' = [b \in Blocks |-> shown[b] + Held(b)]
    /\ UNCHANGED got

\* Only what is still buffered counts as incomplete.
FinishBuffered ==
    /\ ended = "no"
    /\ ended' = "finished"
    /\ FlushTexts
    /\ reported' = DOMAIN arg_buffers
    /\ arg_buffers' = <<>> /\ arg_sizes' = <<>> /\ arg_overflow' = {}
    /\ UNCHANGED <<transport, callVars, item_names, delivered, refused>>

\* The upstream's stream, or its terminal event, has come to its end.
Finish ==
    /\ ended = "no"
    /\ ended' = "finished"
    /\ FlushTexts
    /\ reported' = DOMAIN arg_buffers \cup arg_overflow
    /\ arg_buffers' = <<>> /\ arg_sizes' = <<>> /\ arg_overflow' = {}
    /\ UNCHANGED <<transport, callVars, item_names, delivered, refused>>

\* The upstream or the client is gone: nothing more is sent.
Break ==
    /\ ended = "no"
    /\ ended' = "broken"
    /\ UNCHANGED <<transport, callVars, argVars, item_names, textVars, delivered, refused,
                   reported>>

CallEvent(i) ==
    \/ ItemAdded(i)
    \/ \E n \in 0..MaxPiece : ArgsDelta(i, n)
    \/ \E whole \in 0..MaxArgs : ArgsDone(i, whole) \/ ItemDone(i, whole)

Next ==
    \/ \E i \in Items : CallEvent(i)
    \/ Snapshot
    \/ \E b \in Blocks : TextDone(b) \/ \E n \in 1..MaxPiece : TextDelta(b, n)
    \/ Finish
    \/ Break

Spec == Init /\ [][Next]_vars

-----------------------------------------------------------------------------
(* Properties.                                                             *)

\* The client is never given a part of a call's arguments, whatever the pieces and the cap.
WholeArguments == \A d \in delivered : d.length = sent[d.item]

\* Originals are put only into the arguments of a trusted tool, also when its name comes
\* late or never.
OnlyTrustedRestored == \A d \in delivered : d.restored => calls[d.item].name \in Trusted

\* A call the upstream has begun is not lost silently: when the stream ends the client
\* has its arguments or was told that it has not.
NoCallLost ==
    ended = "finished" =>
        {i \in Items : sent[i] > 0} \subseteq {d.item : d \in delivered} \cup refused \cup reported

\* No text is lost or repeated: what is not shown is held, and nothing is held at the end.
TextConserved ==
    /\ \A b \in Blocks : shown[b] + Held(b) = got[b]
    /\ ended = "finished" => shown = got

\* "The call was not forwarded to the client", says the error event.
RefusedIsNotForwarded == {d.item : d \in delivered} \cap refused = {}

\* It is so at least where the connection is closed after an error event.
RefusedIsNotForwardedOnWebSocket == transport = "websocket" => RefusedIsNotForwarded
=============================================================================
