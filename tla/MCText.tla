------------------------------- MODULE MCText ---------------------------------
(***************************************************************************)
(* The way of a text through the gateway, one part of it at a time: the    *)
(* algorithms of detection on every small input, a session of the masking  *)
(* engine, a stream of server-sent events, a stream restored in pieces.    *)
(***************************************************************************)
EXTENDS MCStreamingRestorer

CONSTANTS
    Parts,                                                  \* the parts of this run
    None, x, y, UpperY,
    EngineChars, LowerCase, Stem, Words, WordPolicy,        \* of MaskingEngine
    MaxTexts, MaxSymbols, MaxSegmented,                     \* its bounds
    MaxClaims, MaxSegments, Gap,                            \* of ContextSegments
    MinScore,                                               \* of NerWindows
    TrustedTools, MaxLeaves,                                \* of ProtocolAdapters
    MaxFindings, MaxSpan, MaxUnits, MaxPoints, MaxEvents    \* bounds of the inputs

ASSUME BoundsAssumption ==
    /\ MaxFindings \in Nat /\ MaxSpan \in Nat /\ MaxUnits \in Nat /\ MaxSymbols \in Nat
    /\ MaxClaims \in Nat /\ Gap \in Nat /\ MaxPoints \in Nat

MCLowerCase == UpperY :> y
MCWords == {<<y, x>>, <<y, y>>}
MCWordPolicy == (<<y, x>> :> 0) @@ (<<y, y>> :> 2)

VARIABLES
    part,           \* which part of the way this is
    input, output,  \* of an algorithm
    segment_contexts, skip_code_contexts, case_sensitive,
    mappings, seen, text, result, masked, detected,
    pending, lines, events, fed, cut_in_crlf, flushed

Policy == INSTANCE PolicyResolution
Ner == INSTANCE NerWindows
Offsets == INSTANCE TextOffsets
Engine == INSTANCE MaskingEngine WITH Chars <- EngineChars, MaxText <- MaxSymbols
Adapters == INSTANCE ProtocolAdapters
SSE == INSTANCE SSEParser WITH
    MaxText <- MaxEvents, received <- fed, ended <- flushed

\* Registered words have characters, aliases begin with one, and no character is what
\* stands for an original.
ASSUME EngineAssumption ==
    /\ IsFiniteSet(Words) /\ Words \subseteq Seq(EngineChars) \ {<<>>}
    /\ \A w \in Words : WordPolicy[w] \in 0..3
    /\ Stem \in EngineChars
    /\ DOMAIN LowerCase \subseteq EngineChars
    /\ \A c \in DOMAIN LowerCase : LowerCase[c] \in EngineChars
    /\ \A c \in EngineChars :
          c # Engine!Mark /\ \A o \in BoundedSeq(EngineChars, MaxSymbols) : c # Engine!AliasOf(o)

algorithmVars == <<input, output>>
engineVars == <<segment_contexts, skip_code_contexts, case_sensitive,
                mappings, seen, text, result, masked, detected>>
sseVars == <<pending, lines, events, fed, cut_in_crlf, flushed>>
restorerVars == <<spelling, buffer, emitted, received, ended>>
textVars == <<part, algorithmVars, engineVars, sseVars, restorerVars>>

-----------------------------------------------------------------------------
(* Inputs.                                                                 *)

Spans(length) == {s \in [start : 0..length, end : 0..length] : s.start < s.end}

\* Of each strength of finding one, with a priority that does not follow from it
Strengths ==
    {[type |-> "existing_alias", policy |-> 0, priority |-> 300],
     [type |-> "name", policy |-> 0, priority |-> 200],
     [type |-> "name", policy |-> 2, priority |-> 90],
     [type |-> "credential", policy |-> 0, priority |-> 100],
     [type |-> "number", policy |-> 0, priority |-> 90]}

Findings ==
    {[type |-> k.type, policy |-> k.policy, priority |-> k.priority, start |-> s.start,
      end |-> s.end, score |-> 1] : k \in Strengths, s \in Spans(MaxSpan)}

Claims == {[start |-> s.start, end |-> s.end, kind |-> k] :
              s \in Spans(MaxSpan), k \in {"code", "patch"}}

\* Units one after the other, each with a width and a gap before it
Units(widths, gaps) ==
    LET at[i \in 0..Len(widths)] == IF i = 0 THEN 0 ELSE at[i - 1] + gaps[i] + widths[i]
    IN  [i \in DOMAIN widths |-> [start |-> at[i] - widths[i], end |-> at[i]]]

\* Places of an answer below an item of the Responses API and a block of Anthropic's
Leaves(protocol) ==
    IF protocol = "responses"
    THEN {<<"id">>, <<"call_id">>, <<"arguments">>, <<"arguments", "json", "a">>,
          <<"arguments", "json", "original">>, <<"content">>, <<"content", "[0]", "text">>, <<"content", "[1]", "output_text">>,
          <<"content", "[0]", "refusal">>, <<"content", "[0]", "annotations", "[0]", "file_id">>,
          <<"summary", "[0]", "text">>, <<"output", "a", "[0]">>}
    ELSE {<<"text">>, <<"input">>, <<"input", "a">>, <<"input", "[0]", "original">>,
          <<"thinking">>, <<"content">>, <<"content", "[0]", "text">>, <<"id">>}

\* A string has no strings below it.
NoneBelow(places) == \A a, b \in places : a # b => ~ IsPrefix(a, b)

Types(protocol) ==
    IF protocol = "responses" THEN {"message", "function_call", "file_search"}
    ELSE {"text", "tool_use", "tool_result", "image"}

AnswerTexts ==
    {<<"plain">>, <<Adapters!Alias>>, <<"plain", Adapters!Alias>>, <<Adapters!Secret>>,
     <<Adapters!Number>>, <<Adapters!NumberedId>>, <<"plain", Adapters!NumberedId>>}

Answer(protocol, type, name, places, texts) ==
    LET item == IF protocol = "responses" THEN <<"output", "[0]">> ELSE <<"content", "[0]">>
        all == {item \o place : place \in places} \cup {Append(item, "type"), Append(item, "name")}
    IN  [place \in all |-> CASE place = Append(item, "type") -> <<type>>
                              [] place = Append(item, "name") -> <<name>>
                              [] OTHER -> texts[SubSeq(place, 3, Len(place))]]

InitInput ==
    \/ part = "policy" /\ \E n \in 0..MaxFindings : input \in [1..n -> Findings]
    \/ /\ part = "segments"
       /\ \E n \in 0..1, m \in 0..MaxClaims :
             input \in [length : {MaxSpan}, fences : [1..n -> Claims], matches : [1..m -> Claims]]
    \/ /\ part = "windows"
       /\ \E n \in 1..MaxUnits : \E widths, gaps \in [1..n -> 0..1] :
             input \in [units : {Units(widths, gaps)}, size : 1..3, overlap : 0..2]
    \/ /\ part = "offsets"
       /\ \E n \in 0..MaxPoints :
             input \in [text : [1..n -> Offsets!CodePoints],
                        term : {<<"a", "b">>, <<"A">>, <<"b", "a^">>}, exact : BOOLEAN]
    \/ /\ part = "adapters"
       /\ \E protocol \in {"responses", "anthropic"} :
          \E places \in kSubset(MaxLeaves, Leaves(protocol)) : NoneBelow(places) /\
          \E type \in Types(protocol), name \in {"shell", "other"},
             texts \in [places -> AnswerTexts] :
                input \in [protocol : {protocol}, noted : BOOLEAN,
                           answer : {Answer(protocol, type, name, places, texts)}]
    \/ part \in {"engine", "sse", "restorer"} /\ input = None

TextInit ==
    /\ part \in Parts
    /\ InitInput
    /\ output = None
    /\ Engine!Init
    /\ part # "engine" => ~ segment_contexts /\ case_sensitive = {}
    /\ skip_code_contexts => segment_contexts      \* it is about segments
    /\ SSE!Init
    /\ IF part = "restorer" THEN spelling \in Vocabularies ELSE spelling = <<>>
    /\ InitWith(spelling)

-----------------------------------------------------------------------------
Computes(name, value) ==
    /\ part = name
    /\ output = None
    /\ output' = value
    /\ UNCHANGED <<part, input, engineVars, sseVars, restorerVars>>

ResolvePolicy == part = "policy" /\ Computes("policy", Policy!Resolve(input))

CutSegments ==
    /\ part = "segments"
    /\ ~ Engine!TooManyClaims(input.fences, input.matches)
    /\ Computes("segments", Engine!Segments(input.length, input.fences, input.matches))

CutWindows ==
    /\ part = "windows"
    /\ Computes("windows", Ner!Slice(input.units[Len(input.units)].end, input.units,
                                     input.size, input.overlap))

FindTerm ==
    /\ part = "offsets"
    /\ Computes("offsets", Offsets!DictionaryHits(input.text, input.term, input.exact))

\* An answer is restored, and comes back with the next request.
AnswerAndRepeat ==
    /\ part = "adapters"
    /\ LET shown == Adapters!RestoreResponse(input.protocol, input.answer) IN
       /\ shown # Adapters!Refused
       /\ Computes("adapters",
             Adapters!MaskRequest(input.protocol, Adapters!Repeat(input.protocol, shown),
                                  input.noted))

TextNext ==
    \/ AnswerAndRepeat
    \/ ResolvePolicy
    \/ CutSegments
    \/ CutWindows
    \/ FindTerm
    \/ part = "engine" /\ Engine!Next /\ UNCHANGED <<part, algorithmVars, sseVars, restorerVars>>
    \/ part = "sse" /\ SSE!Next /\ UNCHANGED <<part, algorithmVars, engineVars, restorerVars>>
    \/ part = "restorer" /\ Next /\ UNCHANGED <<part, algorithmVars, engineVars, sseVars>>

TextSpec == TextInit /\ [][TextNext]_textVars

-----------------------------------------------------------------------------
(* Properties.                                                             *)

Computed(name) == part = name /\ output # None

\* What resolve() leaves is apart, at least as strict as each finding and its type ask for,
\* spares issued aliases, and does not depend on how the sweep made its clusters.
ResolutionSound == Computed("policy") => Policy!ResolutionSound(input, output)

\* The segments of a text tile it, before and after neighbours of one kind are joined, and
\* what a model finds in the text of the joined ones is masked exactly where it is.
SegmentationSound == Computed("segments") => Engine!SegmentationSound(input.length, output)

\* Every window can be read by the model, and a name that the overlap has room for is
\* reported once, where it is, whichever windows show it.
WindowsSound ==
    Computed("windows") => Ner!WindowsSound(output, input.units, input.size, input.overlap)

\* A registered term is found wherever the normalised text has it, and the span to replace
\* is the one of whole characters it came from: unless a character has two in lower case,
\* where dictionary.py adds an offset of the folded text to one of the text that is not.
OffsetsSound ==
    Computed("offsets") /\ (input.exact \/ Offsets!FoldsOneToOne(input.text))
        => Offsets!OffsetsRight(input.text, input.term, input.exact, output)

\* The provider gets its own answer back with the next request: what was restored for the
\* client is masked again, in every place of both protocols, and the guard refuses nothing
\* of it, not even an identifier of the Responses API with a number in it.  Harmless names
\* what the provider may not have put into the answer itself; among that is, for
\* Anthropic, an identifier with such a number.
AnswerComesBack ==
    Computed("adapters") /\ Adapters!Harmless(input.protocol, input.answer)
        => Adapters!ComesBack(input.protocol, input.answer, input.noted, output)

\* The events of a stream do not depend on where it was cut, except inside of a CRLF.
EventsOfAnySplit == SSE!EventsOfAnySplit

\* Without segments, masking leaves no registered word to the guard behind it, whatever a
\* model found and whichever aliases the text had before: but for a word registered with
\* its case that the text has in another, and one that ends as the aliases begin.
GuardIdle == Engine!GuardIdle

\* An alias stands for what it replaced: a text with new aliases and old ones comes back from
\* the restorer as the client wrote it, unless a copy of what was found lies in an old one,
\* or a model that reads joined segments took one.
RoundTrip == Engine!RoundTrip

\* existing_alias.py:3-4 says of every text that an alias is not masked again.
ExistingAliasProtected == Engine!ExistingAliasProtected
=============================================================================
