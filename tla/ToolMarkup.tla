----------------------------- MODULE ToolMarkup -----------------------------
(***************************************************************************)
(* The markup of tool calls in a model's answer (internal/toolcall): what  *)
(* is a call, and what is left for the reader.  A text is a sequence of    *)
(* symbols:                                                                *)
(*                                                                         *)
(*   "<"  "calls>"     <ml_tool_calls>       "</" "calls>"  its end        *)
(*   "<"  "call>"      <ml_tool_call>        "</" "call>"   its end        *)
(*   an element of Calls    name and parameters of a call                  *)
(*   " "                    white space                                    *)
(*   anything else          other text ("<" alone is a less-than sign)     *)
(*                                                                         *)
(* so that a text can be cut within a tag.  The other names of the tags    *)
(* (tool_calls, invoke, ...) and the phrases that stripToolPromptLeakage   *)
(* deletes are not told apart.                                             *)
(***************************************************************************)
EXTENDS Naturals, SequencesExt     \* FlattenSeq, Last, ToSet, Min, Max

CONSTANT Calls          \* the calls a model may make

Outer == {"calls>"}
Inner == {"call>"}
Tags == Outer \cup Inner

OpenAt(s, i, tags) == i < Len(s) /\ s[i] = "<" /\ s[i + 1] \in tags
CloseAt(s, i, tags) == i < Len(s) /\ s[i] = "</" /\ s[i + 1] \in tags
TagAt(s, i) == OpenAt(s, i, Tags) \/ CloseAt(s, i, Tags)

\* FindAll of (?is)<open[^>]*>(.*?)</close>: from left to right, each to the nearest end,
\* as pairs of first and last position.  Further(s, i, open, close, found) adds the one that
\* begins at i, if it does, to those found before.
Further(s, i, open, close, found) ==
    LET ends == {j \in i + 2 .. Len(s) : CloseAt(s, j, close)}
    IN  IF /\ OpenAt(s, i, open) /\ ends # {}
           /\ found = <<>> \/ Last(found)[2] < i
        THEN Append(found, <<i, Min(ends) + 1>>)
        ELSE found

Blocks(s, open, close) ==
    LET found[i \in 0 .. Len(s)] ==
          IF i = 0 THEN <<>> ELSE Further(s, i, open, close, found[i - 1])
    IN  found[Len(s)]

Inside(s, block) == SubSeq(s, block[1] + 2, block[2] - 2)

\* What is at some positions, and what is left without some symbols.
Keep(s, positions) ==
    FlattenSeq([i \in 1 .. Len(s) |-> IF i \in positions THEN <<s[i]>> ELSE <<>>])

Without(s, symbols) == Keep(s, {i \in 1 .. Len(s) : s[i] \notin symbols})

\* parseToolCallBlock: the first name in the block; a block without one is no call.
CallIn(s) ==
    LET names == {i \in 1 .. Len(s) : s[i] \in Calls}
    IN  IF names = {} THEN <<>> ELSE <<s[Min(names)]>>

\* The expression for <ml_tool_call matches <ml_tool_calls> too, its end does not.
CallsIn(s) ==
    LET found == Blocks(s, Tags, Inner)
    IN  FlattenSeq([n \in 1 .. Len(found) |-> CallIn(Inside(s, found[n]))])

\* The calls in containers.
Wrapped(s) ==
    LET found == Blocks(s, Outer, Outer)
    IN  FlattenSeq([n \in 1 .. Len(found) |-> CallsIn(Inside(s, found[n]))])

Dedupe(calls) ==
    Keep(calls, {i \in 1 .. Len(calls) : \A j \in 1 .. i - 1 : calls[j] # calls[i]})

\* Calls in a container, if there are any.
Preferred(wrapped, others) == IF wrapped # <<>> THEN wrapped ELSE others

ParseCalls(s) == Dedupe(Preferred(Wrapped(s), CallsIn(s)))

DropTags(s) == Keep(s, {i \in 1 .. Len(s) : ~TagAt(s, i) /\ (i = 1 \/ ~TagAt(s, i - 1))})

\* removeMarkupPreserveWhitespace, CleanVisibleChunk
RemoveMarkup(s) ==
    DropTags(Keep(s, (1 .. Len(s)) \ UNION {b[1] .. b[2] : b \in ToSet(Blocks(s, Tags, Tags))}))

\* strings.TrimSpace and TrimLeft
Solids(s) == {i \in 1 .. Len(s) : s[i] # " "}
Trim(s) == IF Solids(s) = {} THEN <<>> ELSE SubSeq(s, Min(Solids(s)), Max(Solids(s)))
TrimLeft(s) == IF Solids(s) = {} THEN <<>> ELSE SubSeq(s, Min(Solids(s)), Len(s))

\* stripMalformedToolPreludePrefix: without the opening tags a text begins with.
StripPrelude(s) ==
    LET run == {k \in 0 .. Len(s) : \A m \in 0 .. k - 1 : OpenAt(s, 2 * m + 1, Tags)}
    IN  TrimLeft(SubSeq(s, 2 * Max(run) + 1, Len(s)))

\* firstMarkerIndex, 0 for none.
FirstMarker(s) ==
    LET marks == {i \in 1 .. Len(s) : OpenAt(s, i, Tags)}
    IN  IF marks = {} THEN 0 ELSE Min(marks)
=============================================================================
