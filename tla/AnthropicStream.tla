--------------------------- MODULE AnthropicStream ---------------------------
(***************************************************************************)
(* AnthropicStreamProcessor: one streamed response of the Anthropic        *)
(* Messages API on its way to the client.  A message is made of blocks,    *)
(* known by their index: texts are restored piece by piece, the input of a *)
(* tool is held back until its block stops.                                *)
(*                                                                         *)
(* A text is its length.  The upstream interleaves blocks, leaves events   *)
(* out and stops anywhere; it uses an index once.                          *)
(***************************************************************************)
EXTENDS Integers, FiniteSets, Dicts

CONSTANTS
    ToolBlocks, \* indexes of tool_use blocks
    TextBlocks, \* indexes of text blocks
    Names,      \* tool names
    Trusted,    \* trusted_local_tools
    None,
    Cap,        \* _MAX_JSON_BUFFER_BYTES
    MaxPiece,   \* bound: length of a delta
    MaxInput,   \* bound: length of an input, and of a text
    MaxCarry    \* the length of the longest alias, less one

VARIABLES
    inputs,         \* what the upstream sends: name, input well-formed or not
    stopped,        \* blocks whose content_block_stop came
    sent,           \* length of the input the upstream has sent
    json_blocks,    \* _json_blocks
    json_buffers,   \* _json_buffers, the total length for each block
    json_sizes,     \* _json_sizes
    json_overflow,  \* _json_overflow
    block_names,    \* _block_names
    carry,          \* _text_restorers: length of the text held back
    got,            \* history: text received of each block
    shown,          \* history: text emitted of each block
    delivered,      \* history: inputs the client was given
    refused,        \* history: blocks that an error event names as not forwarded
    reported,       \* history: blocks that the last error event counts as incomplete
    ended           \* "no", "finished" or "broken"

upstreamVars == <<inputs, stopped, sent>>
jsonVars == <<json_blocks, json_buffers, json_sizes, json_overflow, block_names>>
textVars == <<carry, got, shown>>
outcome == <<delivered, refused, reported>>
vars == <<upstreamVars, jsonVars, textVars, outcome, ended>>

Init ==
    /\ inputs \in [ToolBlocks -> [name : Names, valid : BOOLEAN]]
    /\ stopped = {}
    /\ sent = [b \in ToolBlocks |-> 0]
    /\ json_blocks = {} /\ json_overflow = {}
    /\ json_buffers = <<>> /\ json_sizes = <<>> /\ block_names = <<>>
    /\ carry = <<>>
    /\ got = [b \in TextBlocks |-> 0]
    /\ shown = [b \in TextBlocks |-> 0]
    /\ delivered = {} /\ refused = {} /\ reported = {}
    /\ ended = "no"

Arrives(b) ==
    /\ ended = "no"
    /\ b \notin stopped

-----------------------------------------------------------------------------
(* Tool blocks.                                                            *)

\* content_block_start of a tool_use, with or without a name
StartTool(b) ==
    /\ Arrives(b)
    /\ sent[b] = 0
    /\ json_blocks' = json_blocks \cup {b}
    /\ json_buffers' = Put(json_buffers, b, 0)
    /\ block_names' \in {block_names, Put(block_names, b, inputs[b].name)}
    /\ UNCHANGED <<upstreamVars, json_sizes, json_overflow, textVars, outcome, ended>>

\* What follows an overflow is collected anew.
InputDeltaForgetting(b, n) ==
    LET size == Get(json_sizes, b, 0) + n IN
    /\ Arrives(b)
    /\ sent[b] + n <= MaxInput
    /\ sent' = [sent EXCEPT ![b] = @ + n]
    /\ IF size > Cap
       THEN /\ json_buffers' = Drop(json_buffers, b)
            /\ json_sizes' = Drop(json_sizes, b)
       ELSE /\ json_buffers' = Put(json_buffers, b, Get(json_buffers, b, 0) + n)
            /\ json_sizes' = Put(json_sizes, b, size)
    /\ UNCHANGED <<inputs, stopped, json_blocks, json_overflow, block_names, textVars, outcome,
                   ended>>

\* input_json_delta
InputDelta(b, n) ==
    LET size == Get(json_sizes, b, 0) + n IN
    /\ Arrives(b)
    /\ sent[b] + n <= MaxInput
    /\ sent' = [sent EXCEPT ![b] = @ + n]
    /\ IF b \in json_overflow
       THEN UNCHANGED <<json_buffers, json_sizes, json_overflow>>
       ELSE /\ json_sizes' = Put(json_sizes, b, size)
            /\ IF size > Cap
               THEN /\ json_overflow' = json_overflow \cup {b}
                    /\ json_buffers' = Drop(json_buffers, b)
               ELSE /\ json_buffers' = Put(json_buffers, b, Get(json_buffers, b, 0) + n)
                    /\ UNCHANGED json_overflow
    /\ UNCHANGED <<inputs, stopped, json_blocks, block_names, textVars, outcome, ended>>

\* ToolTrustPolicy.restores_arguments: a tool without a name is not trusted.
Restores(name) == name \in Trusted

\* _safe_restore_json, of an input that is not empty
Forward(b, length, restore) ==
    IF inputs[b].valid
    THEN /\ delivered' = delivered \cup {[block |-> b, length |-> length, restored |-> restore]}
         /\ UNCHANGED <<refused, reported>>
    ELSE /\ refused' = refused \cup {b}
         /\ UNCHANGED <<delivered, reported>>

\* content_block_stop of a block whose start was seen: the input goes out before it.
StopTool(b) ==
    LET raw == Get(json_buffers, b, 0) IN
    /\ Arrives(b)
    /\ b \in json_blocks
    /\ stopped' = stopped \cup {b}
    /\ json_blocks' = json_blocks \ {b}
    /\ json_buffers' = Drop(json_buffers, b)
    /\ json_sizes' = Drop(json_sizes, b)
    /\ json_overflow' = json_overflow \ {b}
    /\ block_names' = Drop(block_names, b)
    /\ CASE b \in json_overflow -> refused' = refused \cup {b} /\ UNCHANGED <<delivered, reported>>
         [] b \notin json_overflow /\ raw > 0 -> Forward(b, raw, Restores(Get(block_names, b, None)))
         [] OTHER -> UNCHANGED outcome
    /\ UNCHANGED <<inputs, sent, textVars, ended>>

\* The stop of a block that never started releases nothing.
StopUnknownTool(b) ==
    /\ Arrives(b)
    /\ b \notin json_blocks
    /\ stopped' = stopped \cup {b}
    /\ UNCHANGED <<inputs, sent, jsonVars, textVars, outcome, ended>>

-----------------------------------------------------------------------------
(* Text blocks.  How much of a piece is held back is StreamingRestorer.    *)

Held(b) == Get(carry, b, 0)

\* content_block_start of a text: a new restorer
StartText(b) ==
    /\ Arrives(b)
    /\ got[b] = 0
    /\ carry' = Put(carry, b, 0)
    /\ UNCHANGED <<upstreamVars, jsonVars, got, shown, outcome, ended>>

\* text_delta, with or without a start before it
TextDelta(b, n) ==
    /\ Arrives(b)
    /\ got[b] + n <= MaxInput
    /\ got' = [got EXCEPT ![b] = @ + n]
    /\ \E held \in 0..MaxCarry :
          /\ held <= Held(b) + n
          /\ carry' = Put(carry, b, held)
          /\ shown' = [shown EXCEPT ![b] = @ + Held(b) + n - held]
    /\ UNCHANGED <<upstreamVars, jsonVars, outcome, ended>>

\* The rest would come after the stop, with the end of the stream.
StopTextLate(b) ==
    /\ Arrives(b)
    /\ stopped' = stopped \cup {b}
    /\ UNCHANGED <<inputs, sent, jsonVars, textVars, outcome, ended>>

\* content_block_stop of a text: the rest is emitted before it.
StopText(b) ==
    /\ Arrives(b)
    /\ stopped' = stopped \cup {b}
    /\ carry' = Drop(carry, b)
    /\ shown' = [shown EXCEPT ![b] = @ + Held(b)]
    /\ UNCHANGED <<inputs, sent, jsonVars, got, outcome, ended>>

-----------------------------------------------------------------------------
(* The end.                                                                *)

\* What overflowed is not counted.
FlushBuffered ==
    /\ ended = "no"
    /\ ended' = "finished"
    /\ carry' = <<>>
    /\ shown' = [b \in TextBlocks |-> shown[b] + Held(b)]
    /\ reported' = DOMAIN json_buffers
    /\ json_buffers' = <<>> /\ json_sizes' = <<>> /\ json_overflow' = {}
    /\ UNCHANGED <<upstreamVars, json_blocks, block_names, got, delivered, refused>>

\* flush(), when the upstream's stream has ended
Flush ==
    /\ ended = "no"
    /\ ended' = "finished"
    /\ carry' = <<>>
    /\ shown' = [b \in TextBlocks |-> shown[b] + Held(b)]
    /\ reported' = DOMAIN json_buffers \cup json_overflow
    /\ json_buffers' = <<>> /\ json_sizes' = <<>> /\ json_overflow' = {}
    /\ UNCHANGED <<upstreamVars, json_blocks, block_names, got, delivered, refused>>

\* The upstream or the client is gone: nothing more is sent.
Break ==
    /\ ended = "no"
    /\ ended' = "broken"
    /\ UNCHANGED <<upstreamVars, jsonVars, textVars, outcome>>

ToolEvent(b) ==
    \/ StartTool(b)
    \/ \E n \in 0..MaxPiece : InputDelta(b, n)
    \/ StopTool(b)
    \/ StopUnknownTool(b)

TextEvent(b) ==
    \/ StartText(b)
    \/ \E n \in 1..MaxPiece : TextDelta(b, n)
    \/ StopText(b)

Next ==
    \/ \E b \in ToolBlocks : ToolEvent(b)
    \/ \E b \in TextBlocks : TextEvent(b)
    \/ Flush
    \/ Break

Spec == Init /\ [][Next]_vars

-----------------------------------------------------------------------------
(* Properties.                                                             *)

TypeOK ==
    /\ inputs \in [ToolBlocks -> [name : Names, valid : BOOLEAN]]
    /\ stopped \subseteq ToolBlocks \cup TextBlocks
    /\ sent \in [ToolBlocks -> 0..MaxInput]
    /\ json_blocks \subseteq ToolBlocks
    /\ json_buffers \in PartialFunctions(ToolBlocks, 0..Cap)
    /\ json_sizes \in PartialFunctions(ToolBlocks, 0..(Cap + MaxPiece))
    /\ json_overflow \subseteq DOMAIN json_sizes \ DOMAIN json_buffers
    /\ block_names \in PartialFunctions(ToolBlocks, Names)
    /\ carry \in PartialFunctions(TextBlocks, 0..MaxCarry)
    /\ {got, shown} \subseteq [TextBlocks -> 0..MaxInput]
    /\ delivered \subseteq [block : ToolBlocks, length : 0..MaxInput, restored : BOOLEAN]
    /\ {refused, reported} \subseteq SUBSET ToolBlocks
    /\ ended \in {"no", "finished", "broken"}

\* The client is given all of a tool's input or none, with originals for a trusted tool only.
InputsWholeAndTrusted ==
    \A d \in delivered :
        /\ d.length = sent[d.block]
        /\ d.restored => inputs[d.block].name \in Trusted

\* The text of a block is complete when the client sees it stop, and none is lost or shown
\* twice before.
TextCompleteAtStop ==
    \A b \in TextBlocks :
        /\ shown[b] + Held(b) = got[b]
        /\ b \in stopped \/ ended = "finished" => shown[b] = got[b]

\* What became of each call, for CallDelivery.
fate ==
    [b \in ToolBlocks |->
        IF b \in refused THEN "refused"
        ELSE IF b \in {d.block : d \in delivered} THEN "given"
        ELSE IF b \in reported THEN "reported" ELSE "open"]

Delivery == INSTANCE CallDelivery
    WITH Calls <- ToolBlocks, begun <- {b \in ToolBlocks : sent[b] > 0},
         closed <- ended = "finished"

\* Each call is settled once, as a whole, and the end of the stream leaves none open: what
\* an error event calls not forwarded never was and never will be.
ImplementsCallDelivery == Delivery!Spec
=============================================================================
