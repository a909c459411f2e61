------------------------------ MODULE SSEParser ------------------------------
(***************************************************************************)
(* protocols/sse.py: the parser of a stream of server-sent events, which   *)
(* arrive in pieces cut anywhere.                                          *)
(*                                                                         *)
(* A text is a sequence of characters: carriage return, line feed, and one *)
(* for each kind of line, which a line consists of.                        *)
(***************************************************************************)
EXTENDS Integers, Sequences, SequencesExt

CONSTANTS
    MaxText,    \* bound: characters of a stream
    MaxChunk    \* bound: characters of a piece

CR == "\r"
LF == "\n"

\* Characters of lines: of a `data:` line, of `event:`, of a comment, of an unknown field.
LineChars == {"d", "e", ":", "?"}

Characters == LineChars \cup {CR, LF}

VARIABLES
    pending,    \* _pending
    lines,      \* _lines
    events,     \* history: the events returned
    received,   \* history: the text fed
    cut_in_crlf,\* history: a piece ended with CR and the next began with LF
    ended       \* flush() was called

vars == <<pending, lines, events, received, cut_in_crlf, ended>>

Init ==
    /\ pending = <<>>
    /\ lines = <<>>
    /\ events = <<>>
    /\ received = <<>>
    /\ cut_in_crlf = FALSE
    /\ ended = FALSE

\* chunk.replace("\r\n", "\n").replace("\r", "\n")
Unix(text) ==
    FoldLeft(LAMBDA acc, c :
                 [last |-> c,
                  text |-> IF c = CR THEN Append(acc.text, LF)
                           ELSE IF c = LF /\ acc.last = CR THEN acc.text
                           ELSE Append(acc.text, c)],
             [last |-> LF, text |-> <<>>], text).text

\* _event_from_lines: the last `event:`, every `data:` and comment in order, and nothing
\* of a field that is not known.
EventFromLines(ls) ==
    LET of(kind) == SelectSeq(ls, LAMBDA l : Head(l) = kind)
    IN  [event |-> IF of("e") = <<>> THEN <<>> ELSE Last(of("e")),
         data |-> of("d"), comments |-> of(":")]

IsEmpty(ev) == ev.event = <<>> /\ ev.data = <<>> /\ ev.comments = <<>>

\* One character of the normalised text: a line feed ends a line, an empty line an event.
Take(state, c) ==
    IF c # LF THEN [state EXCEPT !.pending = Append(@, c)]
    ELSE IF state.pending # <<>>
         THEN [state EXCEPT !.lines = Append(@, state.pending), !.pending = <<>>]
         ELSE IF state.lines # <<>>
              THEN [state EXCEPT !.events = Append(@, EventFromLines(state.lines)),
                                 !.lines = <<>>]
              ELSE state

TakeAll(state, text) == FoldLeft(Take, state, text)

CutsCRLF(chunk) == received # <<>> /\ Last(received) = CR /\ Head(chunk) = LF

\* A line that goes on in the next piece is ended with this one.
FeedLosingPending(chunk) ==
    LET next == TakeAll([pending |-> <<>>, lines |-> lines, events |-> events], Unix(chunk))
    IN  /\ ~ended
        /\ pending' = next.pending
        /\ lines' = next.lines
        /\ events' = next.events
        /\ received' = received \o chunk
        /\ cut_in_crlf' = (cut_in_crlf \/ CutsCRLF(chunk))
        /\ UNCHANGED ended

Feed(chunk) ==
    LET next == TakeAll([pending |-> pending, lines |-> lines, events |-> events], Unix(chunk))
    IN  /\ ~ended
        /\ pending' = next.pending
        /\ lines' = next.lines
        /\ events' = next.events
        /\ received' = received \o chunk
        /\ cut_in_crlf' = (cut_in_crlf \/ CutsCRLF(chunk))
        /\ UNCHANGED ended

\* What is left is an event, unless there is nothing in it.
Flush ==
    LET all == IF pending = <<>> THEN lines ELSE Append(lines, pending)
        ev == EventFromLines(all)
    IN  /\ ~ended
        /\ ended' = TRUE
        /\ events' = IF all = <<>> \/ IsEmpty(ev) THEN events ELSE Append(events, ev)
        /\ pending' = <<>>
        /\ lines' = <<>>
        /\ UNCHANGED <<received, cut_in_crlf>>

Next ==
    \/ \E chunk \in BoundedSeq(Characters, MaxChunk) \ {<<>>} :
          Len(received) + Len(chunk) <= MaxText /\ Feed(chunk)
    \/ Flush

Spec == Init /\ [][Next]_vars

-----------------------------------------------------------------------------
(* The whole text at once, by its line feeds and blank lines.              *)

\* The n-th position of a set, and 0 before the first
Nth(positions, n) ==
    IF n = 0 THEN 0
    ELSE CHOOSE i \in positions : Cardinality({j \in positions : j <= i}) = n

\* The parts of a sequence that end before each of the positions, and what is behind them
Split(seq, ends) ==
    [n \in 1..Cardinality(ends) |-> SubSeq(seq, Nth(ends, n - 1) + 1, Nth(ends, n) - 1)]

Behind(seq, ends) == SubSeq(seq, Nth(ends, Cardinality(ends)) + 1, Len(seq))

LineFeeds(text) == {i \in DOMAIN text : text[i] = LF}
Blank(ls) == {n \in DOMAIN ls : ls[n] = <<>>}

\* The events of the blocks of lines that have any
EventsOf(blocks) ==
    LET full == {n \in DOMAIN blocks : blocks[n] # <<>>}
    IN  [n \in 1..Cardinality(full) |-> EventFromLines(blocks[Nth(full, n)])]

ParseSSE(text) ==
    LET all == Unix(text)
        rest == Behind(all, LineFeeds(all))
        ls == Split(all, LineFeeds(all))
        evs == EventsOf(Split(ls, Blank(ls)))
        unended == Behind(ls, Blank(ls)) \o (IF rest = <<>> THEN <<>> ELSE <<rest>>)
        last == EventFromLines(unended)
    IN  IF unended = <<>> \/ IsEmpty(last) THEN evs ELSE Append(evs, last)

\* The events are those of the whole text, however it was cut; but not if it was cut
\* inside of a CRLF, which then counts as two ends of lines.
EventsOfAnySplit == ended /\ ~cut_in_crlf => events = ParseSSE(received)
=============================================================================
