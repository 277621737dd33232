--------------------------- MODULE ResponseStream ---------------------------
(***************************************************************************)
(* How an upstream answer reaches the client: as OpenAI chunks             *)
(* (handleStream), as Anthropic events (handleAnthropicStream), or whole   *)
(* (handleNonStream, handleAnthropicNonStream).  Upstream sends the answer *)
(* in events, cut anywhere, perhaps after a thought, and may break off or  *)
(* report an error.  InspectUpstreamStream looks at the first events and   *)
(* holds them back: an error there fails the attempt (which ChatExecution  *)
(* repeats with another account), and the client never knows.             *)
(***************************************************************************)
EXTENDS ToolSieve

CONSTANTS
    Answers,    \* what upstream may answer: sequences of symbols (see ToolMarkup)
    None

\* Symbols are strings, and none of those that stand for other events is in an answer.
ASSUME StreamAssumption ==
    /\ Answers \subseteq Seq(STRING) /\ Calls \subseteq STRING
    /\ \A text \in Answers : {"thought", "error", "identifier", "nil"} \cap ToSet(text) = {}
    /\ None \notin Nat

VARIABLES
    api,        \* who is answered, and how: one of Streamed or Whole
    tools,      \* the request has tools
    expose,     \* the setting OUTPUT_THINK
    answer,     \* what upstream answers
    deltas,     \* its deltas: all "full", or "roleless", or some "hollow", without content
    sent,       \* how many symbols of it have come
    ended,      \* upstream sends nothing more
    state,      \* "inspect", "serve", and at last "done", or "refused": the attempt failed
    buffered,   \* bufferedChunks: events that the handler has not read
    body,       \* what of a whole answer has been read: the texts of its events
    sieve,      \* the StreamState
    block,      \* anthropicStreamState.activeBlock: the index of a text block, or None
    next,       \* anthropicStreamState.nextIndex
    callsSent,  \* toolCallsSent
    out         \* the events the client has been sent

request == <<api, tools, expose, answer, deltas>>
handler == <<body, sieve, block, next, callsSent, out>>
vars == <<request, sent, ended, state, buffered, handler>>

Streamed == {"openai", "anthropic"}
Whole == {"completion", "message"}      \* OpenAI's and Anthropic's

\* Events of the upstream stream that are no part of the answer: a thought, an error, one
\* without a delta (response.created), one whose delta has no content (the first of a stream,
\* with the role alone, or the last).  fmt.Sprint makes the text <nil> of that; in a whole body
\* an event without text is a text that nobody was to see.
Thought == <<"thought">>
Failure == <<"error">>
Bare == <<>>
NoContent == <<"nil">>
Identifier == <<"identifier">>

Init ==
    /\ api \in Streamed \cup Whole
    /\ tools \in BOOLEAN /\ expose \in BOOLEAN
    /\ answer \in Answers /\ deltas \in {"full", "roleless", "hollow"}
    /\ sent = 0 /\ ended = FALSE
    /\ state = "inspect" /\ buffered = <<>>
    /\ body = <<>>
    /\ sieve = NewStream
    /\ block = None /\ next = 0
    /\ callsSent = FALSE
    /\ out = <<>>

Event(kind, index, item) == [kind |-> kind, index |-> index, item |-> item]
Unless(cond, events) == IF cond THEN <<>> ELSE events

Blank(text) == ToSet(text) \subseteq {" "}

-----------------------------------------------------------------------------
\* handleStream: calls come before the text, but for the last chunk.  The calls of an event
\* are numbered from 0.
OpenAIContent(r) == Unless(r.content = <<>>, <<Event("content", None, r.content)>>)
OpenAICalls(r) == Unless(r.calls = <<>>, <<Event("calls", 0, r.calls)>>)

\* ensureAnthropicMessageStart
Started == Unless(out # <<>>, <<Event("message_start", None, <<>>)>>)

\* emitAnthropicTextDelta: into the text block that is open, or into a new one.
TextBlock == IF block = None THEN next ELSE block

TextDelta(r) ==
    Unless(r.content = <<>>,
        Unless(block # None, <<Event("block_start", TextBlock, <<"text">>)>>)
            \o <<Event("delta", TextBlock, r.content)>>)

\* emitAnthropicToolUse for each call, after the open text block has been closed.
ToolUse(index, call) ==
    <<Event("block_start", index, <<"tool_use">>), Event("input", index, <<call>>),
      Event("block_stop", index, <<>>)>>

\* Mutant: a text block stays open beside a tool's.
ToolUsesOverlap(r, open, first) ==
    FlattenSeq([n \in 1 .. Len(r.calls) |-> ToolUse(first + n - 1, r.calls[n])])

ToolUses(r, open, first) ==
    Unless(r.calls = <<>> \/ open = None, <<Event("block_stop", open, <<>>)>>)
        \o FlattenSeq([n \in 1 .. Len(r.calls) |-> ToolUse(first + n - 1, r.calls[n])])

\* What a result of the sieve leaves open, and the index after it.
OpenAfter(r) == IF r.calls # <<>> THEN None ELSE IF r.content # <<>> THEN TextBlock ELSE block
NextText(r) == IF r.content # <<>> /\ block = None THEN next + 1 ELSE next
NextAfter(r) == NextText(r) + Len(r.calls)

AnthropicEvents(r) ==
    Started \o TextDelta(r)
        \o ToolUses(r, IF r.content # <<>> THEN TextBlock ELSE block, NextText(r))

-----------------------------------------------------------------------------
\* Mutant: only the last result of the sieve counts.
AnyCallsLast(r) == r.calls # <<>>

\* toolCallsSent, after a result of the sieve.
AnyCalls(r) == callsSent \/ r.calls # <<>>

\* shouldSkipAnthropicTextChunk
Skipped(text) == api = "anthropic" /\ TagAt(Trim(text), 1)

\* CleanVisibleChunk of what the sieve lets through.
Visible(r) ==
    LET text == RemoveMarkup(r.content) IN Result(Unless(Skipped(text), text), r.calls)

Tells(r) ==
    /\ callsSent' = AnyCalls(r)
    /\ IF api = "openai"
       THEN /\ out' = out \o OpenAICalls(r) \o OpenAIContent(r)
            /\ UNCHANGED <<block, next>>
       ELSE /\ out' = out \o AnthropicEvents(r)
            /\ block' = OpenAfter(r) /\ next' = NextAfter(r)
    /\ UNCHANGED body

Sieved(chunk) ==
    \E step \in {ProcessStreamChunk(sieve, chunk)} :
        /\ sieve' = step.state
        /\ Tells(Visible(step.out))

\* extractChoiceContent: an event's text, trimmed.
Content(event) == IF event \in {Bare, NoContent} THEN Identifier ELSE Trim(event)

\* shouldExposeThinking, extractThinkingSummary
ThoughtShown == Unless(~expose, <<Event("reasoning", None, Thought)>>)

Shows(events) ==
    /\ out' = out \o events
    /\ UNCHANGED <<body, sieve, block, next, callsSent>>

\* readCompletedChat
HandleWhole(event) ==
    /\ api \in Whole
    /\ body' = body \o Content(event)
    /\ UNCHANGED <<sieve, block, next, callsSent, out>>

\* handleStream passes over an event without a role, or without text, also when that is white
\* space (extractDeltaContent), and tells of a thinking phase if it is asked to.
HandleOpenAI(event) ==
    /\ api = "openai"
    /\ \/ deltas = "roleless" /\ Shows(<<>>)
       \/ event = NoContent /\ Shows(<<>>)
       \/ Blank(event) /\ Shows(<<>>)
       \/ event = Failure /\ Shows(<<>>)
       \/ event = Thought /\ Shows(ThoughtShown)
       \/ /\ ~Blank(event) /\ event \notin {Thought, Failure}
          /\ IF tools THEN Sieved(event) ELSE Shows(<<Event("content", None, event)>>)

\* handleAnthropicStream looks neither at the role nor at the phase.
HandleAnthropic(event) ==
    /\ api = "anthropic"
    /\ IF event \in {Bare, Failure} THEN Shows(Started) ELSE Sieved(event)

\* The handler reads an event.
Handle(event) == HandleWhole(event) \/ HandleOpenAI(event) \/ HandleAnthropic(event)

-----------------------------------------------------------------------------
\* isAlibabaHumanVerification: some words anywhere in what has come so far.
Verification(events) == "captcha" \in ToSet(FlattenSeq(events))

\* isPendingToolPrelude: text that is not yet more than the tags of a call.
Pending(text) ==
    \/ text = <<>>
    \/ OpenAt(text, 1, Tags) /\ ToSet(text) \cap Calls = {} /\ text[Len(text)] \in Tags

\* assistantContentProbe: the contents so far.
Probe(events) == Trim(Without(FlattenSeq(events), ToSet(NoContent)))

\* InspectUpstreamStream of the next event.
Inspect(event) ==
    LET events == Append(buffered, event) IN
    /\ IF Verification(events) \/ event = Failure
       THEN state' = "refused" /\ buffered' = <<>>
       ELSE /\ state' = IF Pending(Probe(events)) THEN "inspect" ELSE "serve"
            /\ buffered' = events
    /\ UNCHANGED handler

\* An event comes: to be inspected, or to the handler when it has read what was held back.
Comes(event) ==
    /\ ~ended
    /\ \/ state = "inspect" /\ Inspect(event)
       \/ /\ state = "serve" /\ buffered = <<>>
          /\ Handle(event)
          /\ UNCHANGED <<state, buffered>>
    /\ UNCHANGED request

Chunk(n) ==
    /\ sent < n /\ sent' = n
    /\ Comes(SubSeq(answer, sent + 1, n))
    /\ UNCHANGED ended

Think ==
    /\ sent = 0
    /\ Thought \notin ToSet(buffered) /\ Thought[1] \notin ToSet(body)
    /\ \A i \in 1 .. Len(out) : out[i].item # Thought
    /\ Comes(Thought)
    /\ UNCHANGED <<sent, ended>>

Heartbeat ==
    /\ state = "inspect" /\ buffered = <<>>
    /\ Comes(Bare)
    /\ UNCHANGED <<sent, ended>>

\* A delta without content: one while the stream is inspected, later only the last.
Hollow ==
    /\ deltas = "hollow" /\ NoContent \notin ToSet(buffered)
    /\ Comes(NoContent)
    /\ ended' = (state = "serve")
    /\ UNCHANGED sent

\* Upstream reports an error, as an event.
Fails ==
    /\ Comes(Failure)
    /\ ended' = TRUE
    /\ UNCHANGED sent

\* The stream ends before it is released, or is no stream but an error: then it is not seen.
InspectEnds ==
    /\ state = "inspect" /\ ~ended
    /\ ended' = TRUE
    /\ state' = "serve"
    /\ \/ UNCHANGED buffered
       \/ buffered = <<>> /\ buffered' = <<Failure>>
    /\ UNCHANGED <<request, sent, handler>>

\* It breaks off before it is released.
InspectBreaks ==
    /\ state = "inspect" /\ ~ended
    /\ state' = "refused" /\ ended' = TRUE
    /\ UNCHANGED <<request, sent, buffered, handler>>

\* The handler reads what was held back.
Replay ==
    /\ state = "serve" /\ buffered # <<>>
    /\ Handle(buffered[1])
    /\ buffered' = Tail(buffered)
    /\ UNCHANGED <<request, sent, ended, state>>

-----------------------------------------------------------------------------
Reason(calls) == Event("finish", None, <<IF calls THEN "tool_calls" ELSE "stop">>)

Done ==
    /\ state = "serve" /\ buffered = <<>>
    /\ state' = "done"
    /\ ended' = TRUE
    /\ UNCHANGED <<request, sent, buffered, body>>

\* The last of a stream; handleStream passes over white space.
TellsLast(r, calls) ==
    /\ callsSent' = calls
    /\ IF api = "openai"
       THEN /\ out' = out \o Unless(Blank(r.content), OpenAIContent(r)) \o OpenAICalls(r)
                        \o <<Reason(calls), Event("usage", None, <<>>), Event("done", None, <<>>)>>
            /\ UNCHANGED <<block, next>>
       ELSE /\ out' = out \o AnthropicEvents(r)
                        \o Unless(OpenAfter(r) = None, <<Event("block_stop", OpenAfter(r), <<>>)>>)
                        \o <<Reason(calls), Event("message_stop", None, <<>>)>>
            /\ block' = None /\ next' = NextAfter(r)
    /\ UNCHANGED sieve

\* The upstream stream has ended, complete or not.
FinishStream ==
    /\ api \in Streamed
    /\ Done
    /\ \E r \in {IF api = "openai" /\ ~tools THEN Nothing ELSE Visible(FinalizeStream(sieve))} :
          TellsLast(r, AnyCalls(r))

\* parseChatCompletionContent: of each event the text without white space around it.  If
\* there is none, the first text that is found, a thought's or some identifier.
FullContent ==
    LET text == Without(body, ToSet(Thought \o Failure \o Identifier))
    IN  IF text # <<>> \/ body = <<>> THEN text ELSE <<body[1]>>

VisibleContent == Trim(RemoveMarkup(FullContent))

\* handleNonStream
Completion(calls) ==
    Unless(Thought[1] \notin ToSet(body), ThoughtShown)
        \o OpenAIContent(Result(VisibleContent, calls)) \o OpenAICalls(Result(<<>>, calls))
        \o <<Reason(calls # <<>>)>>

\* handleAnthropicNonStream: no thought; a message without calls has a text, even an empty one.
Message(calls) ==
    Unless(VisibleContent = <<>> /\ calls # <<>>, <<Event("content", 0, VisibleContent)>>)
        \o OpenAICalls(Result(<<>>, calls)) \o <<Reason(calls # <<>>)>>

\* readCompletedChat: an error that is all of the body is told as such (parseAssetError), as
\* is a body that breaks off.
FinishWhole ==
    /\ api \in Whole
    /\ Done
    /\ \E calls \in {IF tools THEN ParseCalls(FullContent) ELSE <<>>} :
          /\ \/ out' = <<Event("error", None, <<>>)>>
             \/ /\ body # Failure
                /\ out' = IF api = "completion" THEN Completion(calls) ELSE Message(calls)
          /\ callsSent' = (calls # <<>>)
    /\ UNCHANGED <<sieve, block, next>>

Next ==
    \/ \E n \in 1 .. Len(answer) : Chunk(n)
    \/ Think \/ Heartbeat \/ Hollow \/ Fails
    \/ InspectEnds \/ InspectBreaks \/ Replay
    \/ FinishStream \/ FinishWhole

Spec == Init /\ [][Next]_vars
-----------------------------------------------------------------------------
\* What the events of some kinds say.
Items(events, kinds) ==
    FlattenSeq([i \in 1 .. Len(events) |-> IF events[i].kind \in kinds THEN events[i].item ELSE <<>>])

SentCalls == Items(out, {"calls", "input"})
SentText == Without(Items(out, {"content", "delta"}), ToSet(Thought))

Solid(text) == Without(text, {" "})
Untagged(text) == \A k \in 1 .. Len(text) : ~TagAt(text, k)

\* A complete block with a call of which nothing is left for the reader: a <ml_tool_calls>
\* with what is in it, or a call without that.
CallBlock(b) ==
    /\ ParseCalls(b) # <<>> /\ RemoveMarkup(b) = <<>>
    /\ \E tags \in {Outer, Inner} :
          /\ OpenAt(b, 1, tags) /\ CloseAt(b, Len(b) - 1, tags)
          /\ \A k \in 2 .. Len(b) - 2 : TagAt(b, k) => tags = Outer /\ b[k + 1] \in Inner
    /\ b[3] \in {"<", "</"} \cup Calls
    /\ " " \notin ToSet(b)

\* All of its markup is one such block, and no other appears when that is taken out.  (Of a
\* block without a call, or where other text follows the opening tag, and of a second block that
\* begins in the chunk that ends the first, a client that streams is sent pieces.)
OneBlock(s) ==
    \/ Untagged(Solid(s))
    \/ \E i, j \in 1 .. Len(s) :
          /\ i < j /\ CallBlock(SubSeq(s, i, j))
          /\ Untagged(Solid(SubSeq(s, 1, i - 1) \o SubSeq(s, j + 1, Len(s))))

\* The client has been told an answer, to the end.
Answered == state = "done" /\ sent = Len(answer) /\ \A i \in 1 .. Len(out) : out[i].kind # "error"

\* No handler takes what is missing for text, or an event without a role for none of its own.
Legible ==
    \/ deltas = "full" \/ api \in Whole
    \/ deltas = "roleless" /\ api = "anthropic"

\* However the answer is cut into events, and whatever of it was held back, every client is
\* told the same calls and the same text: nothing of a call leaks into the text, no text is held
\* back for good or told twice.  An Anthropic client that streams is told an answer without
\* calls to the letter.  (White space is lost beside a call, and but for that stream where the
\* answer is cut.)  Only clients that stream need upstream's deltas complete: handleStream drops
\* one without a role, and both put in the text <nil> for a missing content.
StreamTellsTheAnswer ==
    Answered /\ Legible /\ Solid(answer) # <<>> /\ (tools \/ api = "anthropic") /\ OneBlock(answer) =>
        /\ SentCalls = ParseCalls(answer)
        /\ Solid(SentText) = Solid(RemoveMarkup(answer))
        /\ api = "anthropic" /\ Untagged(Solid(answer)) => SentText = answer

Blocked == {"block_start", "delta", "input", "block_stop"}

\* Among the first n events.
Count(events, kind, n) == Cardinality({j \in 1 .. n : events[j].kind = kind})

\* An event that begins a content block, or belongs to the one that is open.
Placed(events, i) ==
    LET starts == Count(events, "block_start", i - 1)
        stops == Count(events, "block_stop", i - 1)
    IN  IF events[i].kind = "block_start"
        THEN events[i].index = starts /\ starts = stops
        ELSE events[i].index = starts - 1 /\ starts = stops + 1

\* Anthropic's event order: message_start first; content blocks numbered from 0, one at a
\* time, each closed before the next begins and before the message ends.
EventsInOrder ==
    api = "anthropic" =>
        /\ \A i \in 1 .. Len(out) : out[i].kind = "message_start" <=> i = 1
        /\ \A i \in 1 .. Len(out) : out[i].kind \in Blocked => Placed(out, i)
        /\ state = "done" => \A n \in 0 .. next - 1 : \E i \in 1 .. Len(out) :
              out[i].kind = "block_stop" /\ out[i].index = n

\* The client is told to run tools exactly when it was sent calls.
ReasonTellsCalls ==
    \A i \in 1 .. Len(out) : out[i].kind = "finish" =>
        (out[i].item = <<"tool_calls">> <=>
            \E j \in 1 .. i : out[j].kind \in {"calls", "input"})
=============================================================================
