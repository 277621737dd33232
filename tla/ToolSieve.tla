------------------------------ MODULE ToolSieve ------------------------------
(***************************************************************************)
(* The sieve a streamed answer passes through chunk by chunk               *)
(* (ProcessStreamChunk, FinalizeStream): text goes out, and what may be a  *)
(* call is held back until its end is there.                               *)
(***************************************************************************)
EXTENDS ToolMarkup

\* StreamState: text held back because it ends as a tag may begin, or a capture.
NewStream == [pending |-> <<>>, capturing |-> FALSE, capture |-> <<>>]

Result(content, calls) == [content |-> content, calls |-> calls]
Nothing == Result(<<>>, <<>>)

\* What goes out of a complete block with these calls.
Released(s, calls) ==
    IF calls # <<>> THEN Result(Trim(RemoveMarkup(s)), calls) ELSE Result(Trim(StripPrelude(s)), <<>>)

\* Of markup that is no block, the text; stripToolPromptLeakage trims it.
Leftover(s) == Result(Trim(StripPrelude(RemoveMarkup(s))), <<>>)

\* tryConsumeCapture: from the first opening tag of a kind to the last closing one.
Consumed(s, tags) ==
    LET opens == {i \in 1 .. Len(s) : OpenAt(s, i, tags)}
        closes == {i \in 1 .. Len(s) : CloseAt(s, i, tags)}
    IN  IF closes = {} \/ Max(closes) < Min(opens) THEN {}
        ELSE {Released(s, ParseCalls(SubSeq(s, Min(opens), Max(closes) + 1)))}

TryConsume(s) ==
    IF \E i \in 1 .. Len(s) : OpenAt(s, i, Outer) THEN Consumed(s, Outer)
    ELSE IF \E i \in 1 .. Len(s) : OpenAt(s, i, Inner) THEN Consumed(s, Inner)
    ELSE IF \E i \in 1 .. Len(s) : CloseAt(s, i, Tags)
         THEN {Leftover(s)}
    ELSE {}

\* shouldFallbackMalformedCapture: after the opening tag comes something that is no tag.
Malformed(s) ==
    LET inside == TrimLeft(SubSeq(s, 3, Len(s)))
    IN  OpenAt(s, 1, Tags) /\ inside # <<>> /\ inside[1] \notin {"<", "</"} \cup Calls

\* Mutant: nothing is held back.
HeldNone(s) == 0

\* longestMarkerPrefixSuffix: the end of a text with which a tag may begin.
Held(s) == IF s # <<>> /\ s[Len(s)] = "<" THEN 1 ELSE 0

Step(state, out) == [state |-> state, out |-> out]
Consumable(consumed) == CHOOSE r \in consumed : TRUE

\* A capture goes on, or ends.
Capturing(held, consumed) ==
    IF consumed # {} THEN Step(NewStream, Consumable(consumed))
    ELSE IF Malformed(held) THEN Step(NewStream, Result(StripPrelude(held), <<>>))
    ELSE Step([pending |-> <<>>, capturing |-> TRUE, capture |-> held], Nothing)

\* A text begins a capture, or goes out but for its end.
Passing(text, mark, cut) ==
    IF mark > 0
    THEN Step([pending |-> <<>>, capturing |-> TRUE, capture |-> SubSeq(text, mark, Len(text))],
              Result(SubSeq(text, 1, mark - 1), <<>>))
    ELSE Step([NewStream EXCEPT !.pending = SubSeq(text, cut + 1, Len(text))],
              Result(SubSeq(text, 1, cut), <<>>))

ProcessStreamChunk(state, chunk) ==
    LET text == state.pending \o chunk
        held == state.capture \o text
    IN  IF state.capturing THEN Capturing(held, TryConsume(held))
        ELSE Passing(text, FirstMarker(text), Len(text) - Held(text))

FinalCapture(text, consumed) ==
    IF consumed # {} THEN Consumable(consumed)
    ELSE Leftover(text)

FinalizeStream(state) ==
    LET text == state.capture \o state.pending IN
    IF state.capturing THEN FinalCapture(text, TryConsume(text))
    ELSE Released(text, ParseCalls(text))
=============================================================================
