-------------------------- MODULE ProtocolAdapters ---------------------------
(***************************************************************************)
(* The adapters of the two protocols: where in a request text is masked,   *)
(* where in an answer it is restored, what is refused, and the guard over  *)
(* all that is left.  A client sends an answer back with its next request. *)
(*                                                                         *)
(* A payload is a function from places to texts.  A place is the sequence  *)
(* of keys that lead to a string; "json" leads into a string that is JSON. *)
(* A text is a sequence of tokens.  Plain tokens are what no scanner takes *)
(* for anything; digits inside a UUID are plain too (identifiers.py).      *)
(***************************************************************************)
EXTENDS Integers, Sequences, Functions, Dicts

CONSTANT TrustedTools

Elements == {"[0]", "[1]"}      \* of lists
TextKeys == {"text", "input_text", "output_text"}

Original == "original"          \* a secret the session knows
Alias == "alias"                \* its alias
Secret == "secret"              \* another one, by a secret pattern or a rule of the user
Number == "4111111111111"       \* what a scanner of formats takes for a number of a person
NumberedId == "fc_4111111111111111"     \* such a number in what has the form of an id
NewAlias == "new alias"         \* of whatever else was masked
Note == "note"                  \* ALIAS_INSTRUCTION

Sensitive == {Original, Secret, Number, NumberedId}

Refused == <<>>                 \* instead of a payload

\* A place and those below a pattern, which has a set of keys for each step
Fits(place, pattern) ==
    Len(place) = Len(pattern) /\ \A i \in DOMAIN pattern : place[i] \in pattern[i]

Below(place, pattern) ==
    Len(place) > Len(pattern) /\ Fits(SubSeq(place, 1, Len(pattern)), pattern)

\* The last key of a place, and the place without it
Key(place) == place[Len(place)]
Up(place) == SubSeq(place, 1, Len(place) - 1)

\* A field of the block that a place begins with, as a token
Field(payload, block, key) ==
    LET text == Get(payload, Append(block, key), <<>>)
    IN  IF text = <<>> THEN "" ELSE Head(text)

Replace(text, by) == [i \in DOMAIN text |-> Get(by, text[i], text[i])]

MaskText(text) ==
    Replace(text, [t \in Sensitive |-> IF t = Original THEN Alias ELSE NewAlias])
RestoreText(text) == Replace(text, [t \in {Alias} |-> Original])

Tokens(payload) == UNION {Range(place) \cup Range(payload[place]) : place \in DOMAIN payload}

\* restores_arguments
Trusts(name) == name \in TrustedTools

-----------------------------------------------------------------------------
(* openai_responses.py                                                     *)

ResponsesMasks(place) ==
    \/ place \in {<<"instructions">>, <<"input">>}
    \/ Fits(place, <<{"input"}, Elements, TextKeys \cup {"content"}>>)
    \/ Fits(place, <<{"input"}, Elements, {"content"}, Elements, TextKeys>>)
    \/ Fits(place, <<{"input"}, Elements, {"output", "arguments"}>>)
    \/ Below(place, <<{"input"}, Elements, {"output"}>>)
    \/ Below(place, <<{"input"}, Elements, {"arguments"}, {"json"}>>)
    \/ Fits(place, <<{"tools"}, Elements, {"description"}>>)
    \/ Fits(place, <<{"tools"}, Elements, {"function"}, {"description"}>>)

ResponsesArguments == <<{"output"}, Elements, {"arguments"}>>

TrustedItem(answer, place) == Trusts(Field(answer, SubSeq(place, 1, 2), "name"))

ResponsesRestores(answer, place) ==
    \/ Fits(place, <<{"output"}, Elements, {"content"}, Elements, TextKeys>>)
    \/ Below(place, ResponsesArguments \o <<{"json"}>>) /\ TrustedItem(answer, place)

\* RestoreError: arguments of a trusted tool that are not JSON
Unrestorable(answer, place) ==
    Fits(place, ResponsesArguments) /\ answer[place] # <<>> /\ TrustedItem(answer, place)

\* Where an id may be exempted: fields of objects; of strings that are JSON only the
\* metadata of a turn is read.
TransportPlace(place) ==
    /\ \E fields \in {<<{"previous_response_id", "prompt_cache_key"}>>,
                      <<{"client_metadata"}>>,
                      <<{"input"}, Elements, {"id", "call_id"}>>} :
          \/ Fits(place, fields) /\ place # <<"client_metadata">>
          \/ Below(place, fields) /\ Key(place) \notin Elements
    /\ \A i \in DOMAIN place \ {1} :
          place[i] = "json" => place[i - 1] = "x-codex-turn-metadata"

TimestampKeys == {"turn_started_at_unix_ms", "x-codex-ws-stream-request-start-ms"}

\* _opaque_transport_tokens: values that are an id as a whole, or a timestamp
OpaqueTokens(payload) ==
    {Head(payload[place]) : place \in {p \in DOMAIN payload :
        /\ TransportPlace(p)
        /\ \/ payload[p] = <<NumberedId>>
           \/ payload[p] = <<Number>> /\ Key(p) \in TimestampKeys}}

-----------------------------------------------------------------------------
(* anthropic_messages.py                                                   *)

\* The first n keys lead to a block of a message, through results of tools.
IsBlock(request, place, n) ==
    /\ n \in 4..Len(place) /\ n % 2 = 0
    /\ \A i \in 1..n : place[i] \in IF i = 1 THEN {"messages"}
                                    ELSE IF i % 2 = 0 THEN Elements ELSE {"content"}
    /\ \A i \in {k \in 4..(n - 1) : k % 2 = 0} :
          Field(request, SubSeq(place, 1, i), "type") = "tool_result"

\* The text of a block of the answer, but not the input of a tool
BlockMasksText(request, place, n) ==
    /\ Field(request, SubSeq(place, 1, n), "type") = "text"
    /\ Len(place) = n + 1 /\ place[n + 1] = "text"

\* _mask_block
BlockMasks(request, place, n) ==
    LET type == Field(request, SubSeq(place, 1, n), "type") IN
    \/ type = "text" /\ Len(place) = n + 1 /\ place[n + 1] = "text"
    \/ type = "tool_use" /\ Len(place) > n + 1 /\ place[n + 1] = "input"
    \/ type = "tool_result" /\ Len(place) = n + 1 /\ place[n + 1] = "content"

AnthropicMasks(request, place) ==
    \/ place = <<"system">>
    \/ Fits(place, <<{"system"}, Elements, {"text"}>>)
    \/ Fits(place, <<{"messages"}, Elements, {"content"}>>)
    \/ \E n \in DOMAIN place : IsBlock(request, place, n) /\ BlockMasks(request, place, n)
    \/ Fits(place, <<{"tools"}, Elements, {"description"}>>)

AnthropicRestores(answer, place) ==
    LET block == SubSeq(place, 1, 2) IN
    \/ /\ Fits(place, <<{"content"}, Elements, {"text"}>>)
       /\ Field(answer, block, "type") = "text"
    \/ /\ Below(place, <<{"content"}, Elements, {"input"}>>)
       /\ Field(answer, block, "type") = "tool_use"
       /\ Trusts(Field(answer, block, "name"))

-----------------------------------------------------------------------------
(* A request and an answer of either protocol.                             *)

BlockTypes(protocol) ==
    IF protocol = "responses"
    THEN {"input_image", "input_file", "input_audio", "computer_screenshot",
          "computer_call_output", "file_search"}
    ELSE {"image", "document", "container_upload"}

ReferenceFields(protocol) ==
    IF protocol = "responses"
    THEN {"file_data", "file_id", "file_url", "image_url", "audio_url"}
    ELSE {"file_id"}

\* reject_unsupported_attachments, at any depth
HasAttachment(protocol, payload) ==
    \E place \in DOMAIN payload :
        /\ "json" \notin Range(place)
        /\ \/ Key(place) = "type" /\ Field(payload, Up(place), "type") \in BlockTypes(protocol)
           \/ Key(place) \in ReferenceFields(protocol)

\* assert_no_leak_in_payload, over every string and every key: what is registered, or
\* found by a scanner that reads headers too, is refused wherever it stands; the other
\* scanners read the strings with the opaque tokens blanked out.
Guard(payload, opaque) ==
    Tokens(payload) \cap ({Original, Secret} \cup ({Number, NumberedId} \ opaque)) # {}

\* _prepend_instruction, where there is a text or nothing
WithNote(protocol, payload) ==
    LET field == IF protocol = "responses" THEN "instructions" ELSE "system"
        listed == \E place \in DOMAIN payload : Below(place, <<{field}>>)
    IN  IF listed
        THEN IF protocol = "responses" THEN payload
             ELSE Put(payload, <<field, "note", "text">>, <<Note>>)
        ELSE Put(payload, <<field>>, <<Note>> \o Get(payload, <<field>>, <<>>))

Masks(protocol, payload, place) ==
    IF protocol = "responses" THEN ResponsesMasks(place) ELSE AnthropicMasks(payload, place)

\* mask_request and the guard behind it
MaskRequest(protocol, payload, noted) ==
    LET masked == [place \in DOMAIN payload |->
                      IF Masks(protocol, payload, place) THEN MaskText(payload[place])
                      ELSE payload[place]]
        opaque == IF protocol = "responses" THEN OpaqueTokens(payload) ELSE {}
        sent == IF noted THEN WithNote(protocol, masked) ELSE masked
    IN  IF HasAttachment(protocol, payload) \/ Guard(sent, opaque) THEN Refused ELSE sent

Restores(protocol, answer, place) ==
    IF protocol = "responses" THEN ResponsesRestores(answer, place)
    ELSE AnthropicRestores(answer, place)

\* restore_response
RestoreResponse(protocol, answer) ==
    IF protocol = "responses" /\ \E place \in DOMAIN answer : Unrestorable(answer, place)
    THEN Refused
    ELSE [place \in DOMAIN answer |->
             IF Restores(protocol, answer, place) THEN RestoreText(answer[place])
             ELSE answer[place]]

-----------------------------------------------------------------------------
(* What the two must be together.                                          *)

\* How a client repeats an answer in its next request
Repeat(protocol, answer) ==
    LET asInput(place) ==
            IF protocol = "responses" THEN <<"input">> \o Tail(place)
            ELSE <<"messages", "[0]">> \o place
        repeated == {asInput(place) : place \in DOMAIN answer}
    IN  [place \in repeated |-> answer[CHOOSE p \in DOMAIN answer : asInput(p) = place]]

\* An answer that nothing in it of the provider's own makes the gateway mask or refuse when
\* it comes back: no attachments, no secrets but aliases, no numbers except in identifiers
\* of the Responses API.  Nothing exempts those of Anthropic's, so that an answer with a
\* number in one (not in a UUID) is not harmless.
Harmless(protocol, answer) ==
    /\ ~ HasAttachment(protocol, answer)
    /\ Tokens(answer) \cap {Original, Secret, Number} = {}
    /\ \A place \in DOMAIN answer :
          NumberedId \in Range(place) \cup Range(answer[place]) =>
              /\ protocol = "responses"
              /\ Fits(place, <<{"output"}, Elements, {"id", "call_id"}>>)
              /\ answer[place] = <<NumberedId>>

\* The provider gets its own answer back: what was restored for the client is masked again
\* in the same place, and neither that nor its identifiers make the guard refuse.
ComesBack(protocol, answer, noted, again) ==
    again = IF noted THEN WithNote(protocol, Repeat(protocol, answer))
            ELSE Repeat(protocol, answer)
=============================================================================
