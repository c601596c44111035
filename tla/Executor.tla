-------------------------------- MODULE Executor --------------------------------
(* One execution of a job by a GPU worker: the conversation is turned into a    *)
(* request, the server's chunks are sorted into answer, thinking and tool       *)
(* calls, what may be shown is sent on at once, and the whole is reported when   *)
(* the stream ends.  Models write calls and thinking as markup inside the text.  *)
EXTENDS Naturals, Sequences, FiniteSets, SequencesExt, Subsequences

CONSTANTS
  MaxChunks,   \* chunks of a stream
  Window,      \* messages the context holds
  LoopWindow   \* identical rounds that count as a loop

ASSUME ExecutorAssumption == MaxChunks \in Nat /\ Window \in Nat \ {0} /\ LoopWindow \in Nat \ {0}

VARIABLES
  image,       \* an image generation worker runs the job
  effort,      \* "none" suppresses thinking
  history,     \* the job's messages: "system", "user", and rounds of a call and its result
  request,     \* the messages the server is asked with
  phase,       \* "new", "streaming", "over"
  stopped,     \* the job's context: "no", "cancelled", "timeout"
  chunks,      \* chunks read
  inThink,     \* between <think> and </think> of the content
  inCall,      \* inXMLToolCallContent: a call was opened in the content
  inCallThought, \* inXMLToolCall: the same for the reasoning
  fullResponse, reasoningContent,   \* what was accumulated
  shown, thought,                   \* what was sent on as it came
  accToolCalls,\* structured calls by index: their fragments
  completion   \* what the router was told: nothing, an error, or the completion

execvars == <<image, effort, history, request, phase, stopped, chunks, inThink, inCall, inCallThought, fullResponse,
              reasoningContent, shown, thought, accToolCalls, completion>>
inputs == <<image, effort, history, request>>

\* Pieces of text.  A call is opened by two pieces, which one chunk or two may
\* carry, and "call" is the rest of it up to its closing tag.
Pieces == {"text", "<think>", "</think>", "<tool", "_call>", "call", "inline call"}
Opening == <<"<tool", "_call>">>
ContentChunks == {<<"text">>, <<"<think>">>, <<"</think>">>, Opening, <<"<tool">>, <<"_call>">>, <<"call">>, <<"inline call">>,
                  <<"text", "<think>", "text", "</think>", "text">>}
ReasoningChunks == {<<"text">>, Opening, <<"call">>}
Indices == {0, 1}

\* The conversation: each round is a call and its result.
Rounds(n) == [k \in 1 .. 2 * n |-> IF k % 2 = 1 THEN "call" ELSE "result"]
Histories == {<<"system", "user">> \o Rounds(n) : n \in 0 .. LoopWindow}
Turns == {"system", "user", "call", "result"}

ExecutorInit ==
  /\ image \in BOOLEAN /\ effort \in {"none", "high"} /\ history \in Histories /\ request = <<>>
  /\ phase = "new" /\ stopped = "no" /\ chunks = 0 /\ inThink = FALSE /\ inCall = FALSE /\ inCallThought = FALSE
  /\ fullResponse = <<>> /\ reasoningContent = <<>> /\ shown = <<>> /\ thought = <<>>
  /\ accToolCalls = [i \in Indices |-> 0] /\ completion = [is |-> "none"]
-----------------------------------------------------------------------------
\* detectToolLoop: the last rounds all have one call, the same, with one result.
ToolLoop(h, alike) ==
  LET n == Len(h) IN n >= 2 * LoopWindow /\ SubSeq(h, n - 2 * LoopWindow + 1, n) = Rounds(LoopWindow) /\ alike
\* lastResortContextTruncation: the oldest messages after the system prompt go,
\* one by one, the last one never.
Truncated(h) == IF Len(h) <= Window THEN h ELSE <<h[1]>> \o SubSeq(h, IF Window > 1 THEN Len(h) - Window + 2 ELSE Len(h), Len(h))

Tell(answer) == completion' = answer /\ phase' = "over"
Fail == Tell([is |-> "error"])
Streams == UNCHANGED <<stopped, chunks, inThink, inCall, inCallThought, fullResponse, reasoningContent, shown, thought, accToolCalls>>

ExecuteJob ==
  /\ phase = "new" /\ ~ image /\ Streams /\ UNCHANGED <<image, effort, history>>
  /\ \/ (\E alike \in BOOLEAN : ToolLoop(history, alike)) /\ Fail /\ UNCHANGED request
     \/ /\ \E alike \in BOOLEAN : ~ ToolLoop(history, alike)
        /\ request' = Truncated(history)
        /\ \/ phase' = "streaming" /\ UNCHANGED completion
           \/ Fail
\* The image executor: one request, one picture, or an error.
ExecuteImage ==
  /\ phase = "new" /\ image /\ Streams /\ UNCHANGED inputs
  /\ \/ Tell([is |-> "complete", response |-> <<"image">>, reasoning |-> <<>>, calls |-> <<>>])
     \/ Fail
-----------------------------------------------------------------------------
\* splitThinkContent: each piece with where it goes; whole tags only are seen.
Thinking(chunk, p) ==
  \E q \in 0 .. p - 1 :
    /\ IF q = 0 THEN inThink ELSE chunk[q] = "<think>"
    /\ \A r \in q + 1 .. p - 1 : chunk[r] # "</think>"
Split(chunk) ==
  [in |-> Thinking(chunk, Len(chunk) + 1),
   thinking |-> At(chunk, {p \in 1 .. Len(chunk) : Thinking(chunk, p) /\ chunk[p] # "</think>"}),
   answer |-> At(chunk, {p \in 1 .. Len(chunk) : ~ Thinking(chunk, p) /\ chunk[p] # "<think>"})]

\* strings.Contains of the tail and the new text.
Openings(text) == {k \in 1 .. Len(text) - 1 : text[k] = "<tool" /\ text[k + 1] = "_call>"}
HasOpening(text) == Openings(text) # {}
Opens(text) == HasOpening(text) \/ Contains(text, "inline call")
\* Mutant: each chunk is searched on its own.
LastOfNothing(text) == <<>>
LastOf(text) == IF text = <<>> THEN <<>> ELSE <<Last(text)>>

Chunk == phase = "streaming" /\ stopped = "no" /\ chunks < MaxChunks /\ chunks' = chunks + 1
         /\ UNCHANGED <<image, effort, history, request, phase, stopped, completion>>
ContentChunk(chunk) ==
  LET parts == Split(chunk)
      hides == inCall \/ (parts.answer # <<>> /\ Opens(LastOf(fullResponse) \o parts.answer))
      thinks == IF effort = "none" THEN <<>> ELSE parts.thinking
  IN  /\ Chunk /\ inThink' = parts.in /\ inCall' = hides /\ fullResponse' = fullResponse \o parts.answer
      /\ shown' = IF hides THEN shown ELSE shown \o parts.answer
      /\ reasoningContent' = reasoningContent \o thinks
      /\ thought' = IF inCallThought THEN thought ELSE thought \o thinks
      /\ UNCHANGED <<inCallThought, accToolCalls>>
\* Suppressed thinking is folded into the answer.
ReasoningChunk(chunk) ==
  /\ Chunk /\ UNCHANGED <<inThink, inCall, shown, accToolCalls>>
  /\ IF effort = "none" THEN fullResponse' = fullResponse \o chunk /\ UNCHANGED <<reasoningContent, thought, inCallThought>>
     ELSE LET hides == inCallThought \/ HasOpening(chunk)
          IN  /\ inCallThought' = hides /\ reasoningContent' = reasoningContent \o chunk
              /\ thought' = (IF hides THEN thought ELSE thought \o chunk) /\ UNCHANGED fullResponse
\* A fragment of the structured call at an index.
ToolCallDelta(i) ==
  /\ Chunk /\ accToolCalls' = [accToolCalls EXCEPT ![i] = @ + 1]
  /\ UNCHANGED <<inThink, inCall, inCallThought, fullResponse, reasoningContent, shown, thought>>

\* The stream breaks with an error chunk; or the context is done.
StreamError ==
  /\ phase = "streaming" /\ Fail /\ Streams /\ UNCHANGED inputs
StopStream(why) ==
  /\ phase = "streaming" /\ stopped = "no" /\ stopped' = why
  /\ UNCHANGED <<image, effort, history, request, phase, chunks, inThink, inCall, inCallThought, fullResponse, reasoningContent,
                 shown, thought, accToolCalls, completion>>

\* extractXMLToolCalls: the calls, and the text without them.  A call runs from
\* an opening to the next closing; inline calls count only beside an opening.
Called(text) ==
  {p \in 1 .. Len(text) : \E o \in Openings(text) :
     /\ o <= p /\ \A i \in o .. p - 1 : text[i] # "call"
     /\ \E c \in p .. Len(text) : text[c] = "call"}
Closings(text) == {p \in Called(text) : text[p] = "call"}
Inlines(text) == {p \in 1 .. Len(text) : HasOpening(text) /\ p \notin Called(text) /\ text[p] = "inline call"}
Outside(text) == (1 .. Len(text)) \ (Called(text) \cup Inlines(text))
\* Mutant: the calls are found but stay in the text.
ExtractedCopy(text) ==
  [calls |-> At(text, Closings(text)) \o At(text, Inlines(text)), rest |-> text]
Extracted(text) ==
  [calls |-> At(text, Closings(text)) \o At(text, Inlines(text)), rest |-> At(text, Outside(text))]

\* The indices at which a call came, in order.
Structured == At(<<0, 1>>, {k \in 1 .. 2 : accToolCalls[k - 1] > 0})
\* Where thinking is suppressed, tags that were left in the answer go.
FinalResponse ==
  IF effort # "none" THEN fullResponse
  ELSE At(fullResponse, {p \in 1 .. Len(fullResponse) : fullResponse[p] \notin {"<think>", "</think>"}})
\* Structured calls come first; else those of the reasoning; else of the answer.
CompleteJob ==
  LET ofThought == Extracted(reasoningContent)
      ofAnswer == Extracted(FinalResponse)
      full == [is |-> "complete", response |-> FinalResponse, reasoning |-> reasoningContent, calls |-> Structured]
  IN  IF Structured # <<>> THEN full
      ELSE IF ofThought.calls # <<>> THEN [full EXCEPT !.reasoning = ofThought.rest, !.calls = ofThought.calls]
      ELSE [full EXCEPT !.response = ofAnswer.rest, !.calls = ofAnswer.calls]
\* The stream is over: a job that was stopped, or took too long, is not answered.
SendComplete ==
  /\ phase = "streaming" /\ Streams /\ UNCHANGED inputs
  /\ Tell(IF stopped = "no" THEN CompleteJob ELSE [is |-> "none"])

ExecutorNext ==
  \/ ExecuteJob \/ ExecuteImage \/ StreamError \/ SendComplete
  \/ \E chunk \in ContentChunks : ContentChunk(chunk)
  \/ \E chunk \in ReasoningChunks : ReasoningChunk(chunk)
  \/ \E i \in Indices : ToolCallDelta(i)
  \/ \E why \in {"cancelled", "timeout"} : StopStream(why)
ExecutorSpec == ExecutorInit /\ [][ExecutorNext]_execvars
-----------------------------------------------------------------------------
ExecTypeOK ==
  /\ phase \in {"new", "streaming", "over"} /\ stopped \in {"no", "cancelled", "timeout"} /\ chunks \in 0 .. MaxChunks
  /\ completion.is \in {"none", "error", "complete"} /\ accToolCalls \in [Indices -> 0 .. MaxChunks]
  /\ {inThink, inCall, inCallThought, image} \subseteq BOOLEAN /\ effort \in {"none", "high"}
  /\ {fullResponse, reasoningContent, shown, thought} \subseteq Seq(Pieces)
  /\ {history, request} \subseteq Seq(Turns) /\ Len(request) <= Len(history)

\* What the caller is shown is the beginning of the answer the router is told,
\* all of it while the model opened no call, and never as much as the opening of
\* a call, however it was cut into chunks.  (Suppressed thinking is folded into
\* the answer without being shown.)
ShownIsAnswered ==
  effort # "none" =>
    /\ IsPrefix(shown, fullResponse) /\ ~ HasOpening(shown)
    /\ inCall \/ shown = fullResponse
    /\ completion.is = "complete" /\ ~ image /\ ~ inCall => completion.response = shown

\* A call is reported exactly if it was taken out of the text: none is reported
\* and told again, none is taken out and lost.  Structured calls leave the text as
\* it is; without them a job that wrote calls reports those of one of its texts.
WrittenCalls(text) == Cardinality(Closings(text)) + Cardinality(Inlines(text))
TakenOut(text, told) == IF told = text THEN 0 ELSE WrittenCalls(text)
CallsAccounted ==
  completion.is = "complete" /\ ~ image =>
    /\ Len(completion.calls) = IF Structured # <<>> THEN Len(Structured)
                              ELSE TakenOut(FinalResponse, completion.response) + TakenOut(reasoningContent, completion.reasoning)
    /\ completion.response = FinalResponse \/ completion.reasoning = reasoningContent
    /\ Structured # <<>> => completion.response = FinalResponse /\ completion.reasoning = reasoningContent
    /\ completion.calls = <<>> => WrittenCalls(FinalResponse) + WrittenCalls(reasoningContent) = 0
=============================================================================
