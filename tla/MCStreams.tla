------------------------------ MODULE MCStreams -------------------------------
(***************************************************************************)
(* The two stream processors side by side: a response is of one protocol,  *)
(* and the other processor does not exist for it.                          *)
(***************************************************************************)
EXTENDS ResponsesStream, TLC

CONSTANTS
    ToolBlocks, TextBlocks,
    MaxText     \* bound: length of a text of the Responses API

\* An index is of one block.
ASSUME BlocksAssumption == ToolBlocks \cap TextBlocks = {}

VARIABLES
    protocol,   \* "responses" or "anthropic"
    inputs, stopped, tool_sent, json_blocks, json_buffers, json_sizes, json_overflow,
    block_names, block_carry, block_got, block_shown, block_delivered, block_refused,
    block_reported, block_ended

Anthropic == INSTANCE AnthropicStream WITH
    MaxInput <- MaxArgs, sent <- tool_sent, carry <- block_carry, got <- block_got,
    shown <- block_shown, delivered <- block_delivered, refused <- block_refused,
    reported <- block_reported, ended <- block_ended

anthropicVars ==
    <<inputs, stopped, tool_sent, json_blocks, json_buffers, json_sizes, json_overflow,
      block_names, block_carry, block_got, block_shown, block_delivered, block_refused,
      block_reported, block_ended>>

Plain == [name |-> CHOOSE n \in Names : TRUE, valid |-> TRUE]

StreamsInit ==
    /\ protocol \in {"responses", "anthropic"}
    /\ Init
    /\ Anthropic!Init
    /\ protocol = "anthropic" => transport = "sse" /\ \A i \in Items : calls[i] = Plain
    /\ protocol = "responses" => \A b \in ToolBlocks : inputs[b] = Plain

\* bound: the texts of the Responses API
Bounded == \A b \in Blocks : got[b] <= MaxText

StreamsNext ==
    \/ protocol = "responses" /\ Next /\ Bounded' /\ UNCHANGED <<protocol, anthropicVars>>
    \/ protocol = "anthropic" /\ Anthropic!Next /\ UNCHANGED <<protocol, vars>>

StreamsSpec == StreamsInit /\ [][StreamsNext]_<<protocol, vars, anthropicVars>>

Symmetry == Permutations(Items) \cup Permutations(ToolBlocks)

\* The client is given all of a tool's input or none, and originals in it only if the tool is
\* trusted, whatever starts, deltas and stops the upstream sends for its block.
InputsWholeAndTrusted == Anthropic!InputsWholeAndTrusted

\* When the client sees a text block stop, or the stream end, it has all of the block's text.
TextCompleteAtStop == Anthropic!TextCompleteAtStop

\* Each tool_use block is settled once, given whole or refused, and the end of the stream
\* reports those that are not.
ImplementsCallDelivery == Anthropic!ImplementsCallDelivery
=============================================================================
