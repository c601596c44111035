----------------------------- MODULE ApiAnswers -----------------------------
(* The seven request handlers that read a job's token stream and answer with  *)
(* it: OpenAI chat and legacy completions, streamed or not, Anthropic          *)
(* messages, streamed or not, and the MCP tool generate_text.                  *)
(* A handler reads the events in the order of the stream and nothing it does   *)
(* is seen by the writers, so an event is delivered when it is read; TokenStream *)
(* has the writers.                                                            *)
EXTENDS Naturals, Sequences, Subsequences, FiniteSets

CONSTANTS Rounds,     \* executions of the job at most
          MaxTokens   \* token events of all executions together

ASSUME AnswersAssumption == Rounds \in Nat \ {0} /\ MaxTokens \in Nat

Streaming == {"chat_stream", "legacy_stream", "anthropic_stream"}
Blocking == {"chat_block", "legacy_block", "anthropic_block", "mcp"}
Timed == (Streaming \cup Blocking) \ {"anthropic_stream", "anthropic_block"}
Execs == 1 .. Rounds

VARIABLES
  log,     \* the events read so far
  round,   \* the execution that writes them
  kind,    \* the handler that reads them
  out,     \* what a streaming handler wrote to its client
  got,     \* what a blocking handler accumulated
  block,   \* the Anthropic stream's block index and open-block flags
  answer   \* "open", or how the request ended

ansvars == <<log, round, kind, out, got, block, answer>>

TokenEvents == {"token", "reasoning_token"}
SkippedEvents == {"job_dispatched", "tool_generating"}

Events == [type : TokenEvents \cup SkippedEvents \cup {"done", "error"}, exec : Execs, calls : 0 .. 1]
ChunkEvents == {"role", "text", "reasoning", "call", "calls", "tool_calls", "stop", "DONE", "error", "message_start", "ping",
                "start", "delta", "message_delta", "message_stop"}
BlockTypes == {"none", "any", "text", "thinking", "tool_use"}
Chunks == [ev : ChunkEvents, of : Nat, block : BlockTypes]

AnsTypeOK ==
  /\ round \in Execs /\ kind \in Streaming \cup Blocking
  /\ log \in Seq(Events) /\ \A i \in 1 .. Len(log) : log[i].exec <= round
  /\ out \in Seq(Chunks)
  /\ got \in [text : Seq(Execs), reasoning : Seq(Execs), calls : 0 .. 1]
  /\ block \in [index : Nat, text : BOOLEAN, thinking : BOOLEAN]
  /\ answer \in {"open", "done", "error", "timeout", "gone", "failed"}

Chunk(ev, of) == <<[ev |-> ev, of |-> of, block |-> "none"]>>

AnswersInit ==
  /\ log = <<>> /\ round = 1 /\ kind \in Streaming \cup Blocking /\ answer = "open"
  /\ out = CASE kind = "chat_stream" -> Chunk("role", 0)
             [] kind = "anthropic_stream" -> Chunk("message_start", 0) \o Chunk("ping", 0)
             [] OTHER -> <<>>
  /\ got = [text |-> <<>>, reasoning |-> <<>>, calls |-> 0]
  /\ block = [index |-> 0, text |-> FALSE, thinking |-> FALSE]

\* The events at the places P of the stream, each named by its execution.
ExecsOf(events) == [i \in 1 .. Len(events) |-> events[i].exec]
ExecsAt(P) == ExecsOf(At(log, P))
EventPlaces(type) == {i \in 1 .. Len(log) : log[i].type = type}
\* The tokens of one type that execution x put on the stream.
Generated(type, x) == ExecsAt({i \in EventPlaces(type) : log[i].exec = x})

Write(chunks) == out' = out \o chunks
EndWith(a) == answer' = a
Finish(e) == IF e.calls > 0 THEN "tool_calls" ELSE "stop"

ChatStream(e) ==
  \/ e.type = "token" /\ Write(Chunk("text", e.exec)) /\ UNCHANGED answer
  \/ e.type = "reasoning_token" /\ Write(Chunk("reasoning", e.exec)) /\ UNCHANGED answer
  \/ /\ e.type = "done" /\ EndWith("done")
     /\ Write([i \in 1 .. e.calls |-> [ev |-> "call", of |-> e.exec, block |-> "none"]]
                \o Chunk(Finish(e), 0) \o Chunk("DONE", 0))
  \/ e.type = "error" /\ Write(Chunk("error", 0) \o Chunk("DONE", 0)) /\ EndWith("error")

\* The legacy stream has no calls, no reasoning and no error chunk.
LegacyStream(e) ==
  \/ e.type = "token" /\ Write(Chunk("text", e.exec)) /\ UNCHANGED answer
  \/ e.type = "done" /\ Write(Chunk("stop", 0) \o Chunk("DONE", 0)) /\ EndWith("done")
  \/ e.type = "error" /\ Write(Chunk("DONE", 0)) /\ EndWith("error")
  \/ e.type = "reasoning_token" /\ UNCHANGED <<out, answer>>

\* The Anthropic stream opens and closes content blocks as it goes.
Start(b, i) == <<[ev |-> "start", of |-> i, block |-> b]>>
Delta(b, i) == <<[ev |-> "delta", of |-> i, block |-> b]>>
Stop(i) == <<[ev |-> "stop", of |-> i, block |-> "any"]>>
\* A block for each call.
ToolBlocks(first, calls) ==
  [k \in 1 .. 3 * calls |-> [ev |-> <<"start", "delta", "stop">>[1 + ((k - 1) % 3)], of |-> first + (k - 1) \div 3,
                             block |-> IF k % 3 = 0 THEN "any" ELSE "tool_use"]]
ThinkingEnds == block.thinking /\ ~block.text

AnthropicThinking ==
  /\ Write((IF block.thinking THEN <<>> ELSE Start("thinking", block.index))
             \o Delta("thinking", block.index))
  /\ block' = [block EXCEPT !.thinking = TRUE]
\* Mutant: the text block takes the index of the thinking block it closes.
AnthropicTextSameIndex ==
  /\ Write((IF ThinkingEnds THEN Stop(block.index) ELSE <<>>)
             \o (IF block.text THEN <<>> ELSE Start("text", block.index)) \o Delta("text", block.index))
  /\ block' = [block EXCEPT !.text = TRUE, !.thinking = @ /\ block.text]
AnthropicText ==
  LET i == IF ThinkingEnds THEN block.index + 1 ELSE block.index
  IN  /\ Write((IF ThinkingEnds THEN Stop(block.index) ELSE <<>>)
                 \o (IF block.text THEN <<>> ELSE Start("text", i)) \o Delta("text", i))
      /\ block' = [index |-> i, text |-> TRUE, thinking |-> block.thinking /\ block.text]
AnthropicDone(e) ==
  LET open == ThinkingEnds \/ block.text
      first == IF open THEN block.index + 1 ELSE block.index
  IN  /\ Write((IF open THEN Stop(block.index) ELSE <<>>)
                 \o ToolBlocks(first, e.calls) \o Chunk("message_delta", 0) \o Chunk("message_stop", 0))
      /\ block' = [block EXCEPT !.index = first + e.calls]
AnthropicStream(e) ==
  \/ e.type = "reasoning_token" /\ AnthropicThinking /\ UNCHANGED answer
  \/ e.type = "token" /\ AnthropicText /\ UNCHANGED answer
  \/ e.type = "done" /\ AnthropicDone(e) /\ EndWith("done")
  \/ e.type = "error" /\ Write(Chunk("error", 0)) /\ EndWith("error") /\ UNCHANGED block

\* Mutant: the full response is added to what was accumulated.
ReplacedTwice(sofar, full) == sofar \o full
\* What "done" does to a blocking handler's text: the worker's full response,
\* if it is not empty, replaces what was accumulated.
Replaced(sofar, full) == IF full # <<>> THEN full ELSE sofar
Completed(e) ==
  [text |-> Replaced(got.text, Generated("token", e.exec)),
   reasoning |-> Replaced(got.reasoning, Generated("reasoning_token", e.exec)),
   calls |-> e.calls]
Accumulate(e) ==
  \/ e.type = "token" /\ got' = [got EXCEPT !.text = Append(@, e.exec)]
  \/ e.type = "reasoning_token" /\ got' = [got EXCEPT !.reasoning = Append(@, e.exec)]

\* The parts of the one response.  A chat completion with calls has no text.
Part(p, present) == IF present THEN Chunk(p, 0) ELSE <<>>
ChatBlock(e) ==
  \/ Accumulate(e) /\ UNCHANGED <<out, answer>>
  \/ /\ e.type = "done" /\ got' = Completed(e) /\ EndWith("done")
     /\ Write(IF e.calls > 0 THEN Chunk("calls", 0)
              ELSE Part("reasoning", got'.reasoning # <<>>) \o Chunk("text", 0))
  \/ e.type = "error" /\ EndWith("error") /\ UNCHANGED <<got, out>>
AnthropicBlock(e) ==
  \/ Accumulate(e) /\ UNCHANGED <<out, answer>>
  \/ /\ e.type = "done" /\ got' = Completed(e) /\ EndWith("done")
     /\ LET parts == Part("reasoning", got'.reasoning # <<>>) \o Part("text", got'.text # <<>>)
                        \o Part("calls", e.calls > 0)
        IN  Write(IF parts = <<>> THEN Chunk("text", 0) ELSE parts)
  \/ e.type = "error" /\ EndWith("error") /\ UNCHANGED <<got, out>>
\* The legacy handler and the MCP tool know neither reasoning nor calls.
TextBlock(e) ==
  \/ e.type = "token" /\ Accumulate(e) /\ UNCHANGED <<out, answer>>
  \/ /\ e.type = "done" /\ got' = [got EXCEPT !.text = Completed(e).text]
     /\ Write(Chunk("text", 0)) /\ EndWith("done")
  \/ e.type = "error" /\ EndWith("error") /\ UNCHANGED <<got, out>>
  \/ e.type = "reasoning_token" /\ UNCHANGED <<got, out, answer>>
LegacyBlock(e) == TextBlock(e)
\* It also says whether the model stopped to call tools.
McpCall(e) == TextBlock(e)
-----------------------------------------------------------------------------
(* One event reaches the handler; types it does not know are skipped. *)
Deliver(e) ==
  /\ answer = "open" /\ log' = Append(log, e) /\ UNCHANGED <<round, kind>>
  /\ \/ e.type \in SkippedEvents /\ UNCHANGED <<out, got, block, answer>>
     \/ kind = "chat_stream" /\ ChatStream(e) /\ UNCHANGED <<got, block>>
     \/ kind = "legacy_stream" /\ LegacyStream(e) /\ UNCHANGED <<got, block>>
     \/ kind = "anthropic_stream" /\ AnthropicStream(e) /\ UNCHANGED got
     \/ kind = "chat_block" /\ ChatBlock(e) /\ UNCHANGED block
     \/ kind = "anthropic_block" /\ AnthropicBlock(e) /\ UNCHANGED block
     \/ kind = "legacy_block" /\ LegacyBlock(e) /\ UNCHANGED block
     \/ kind = "mcp" /\ McpCall(e) /\ UNCHANGED block

Event(type, calls) == [type |-> type, exec |-> round, calls |-> calls]
TokensRead == Cardinality(UNION {EventPlaces(type) : type \in TokenEvents})

ReadToken == TokensRead < MaxTokens /\ \E type \in TokenEvents : Deliver(Event(type, 0))
\* The sentinel, or a tool call being generated; at most one per execution here.
ReadSkipped ==
  /\ \A i \in 1 .. Len(log) : log[i].type \in SkippedEvents => log[i].exec # round
  /\ \E type \in SkippedEvents : Deliver(Event(type, 0))
ReadDone == \E calls \in 0 .. 1 : Deliver(Event("done", calls))
ReadError == Deliver(Event("error", 0))
\* The job is executed again: the router ran its tool calls, or its worker was lost.
NextRound ==
  /\ answer = "open" /\ round < Rounds /\ round' = round + 1
  /\ UNCHANGED <<log, kind, out, got, block, answer>>

\* The context and, in the OpenAI handlers and the MCP call, the deadline are
\* looked at before every read.  Only the chat stream ends what it wrote.
ClientGone == answer = "open" /\ answer' = "gone" /\ UNCHANGED <<log, round, kind, out, got, block>>
ReadFails == answer = "open" /\ answer' = "failed" /\ UNCHANGED <<log, round, kind, out, got, block>>
Deadline ==
  /\ answer = "open" /\ kind \in Timed /\ answer' = "timeout"
  /\ out' = IF kind = "chat_stream" THEN out \o Chunk("stop", 0) \o Chunk("DONE", 0) ELSE out
  /\ UNCHANGED <<log, round, kind, got, block>>

AnswersNext == ReadToken \/ ReadSkipped \/ ReadDone \/ ReadError \/ NextRound \/ ClientGone \/ ReadFails \/ Deadline
AnswersSpec == AnswersInit /\ [][AnswersNext]_ansvars
-----------------------------------------------------------------------------
(* Properties. *)

\* A reference reading of the Anthropic stream: one block at a time, indices in
\* order, a delta only inside the open block of its kind, nothing left open.
Step(s, c) ==
  CASE c.ev = "start" -> [s EXCEPT !.ok = @ /\ s.open = "none" /\ c.of = s.next, !.open = c.block]
    [] c.ev = "delta" -> [s EXCEPT !.ok = @ /\ s.open = c.block /\ c.of = s.next]
    [] c.ev = "stop" -> [s EXCEPT !.ok = @ /\ s.open # "none" /\ c.of = s.next,
                                  !.open = "none", !.next = @ + 1]
    [] OTHER -> s
Reading(chunks) ==
  LET read[n \in 0 .. Len(chunks)] ==
        IF n = 0 THEN [open |-> "none", next |-> 0, ok |-> TRUE] ELSE Step(read[n - 1], chunks[n])
  IN  read
ReadBlocks(chunks) == Reading(chunks)[Len(chunks)]

\* Reasoning after text: a second execution that thinks again.  There the
\* handler opens a thinking block inside the text block (anthropichandler.go:567).
ThinksAgain == \E i, j \in 1 .. Len(log) : i < j /\ log[i].type = "token" /\ log[j].type = "reasoning_token"

\* The content blocks of an Anthropic stream follow one another, each delta in
\* its own block, and all are closed when the message stops, whenever no
\* reasoning follows text.
BlocksNest ==
  kind = "anthropic_stream" /\ ~ThinksAgain =>
    LET read == ReadBlocks(out) IN read.ok /\ (answer = "done" => read.open = "none")

Texts == ExecsAt(EventPlaces("token"))
TextPlaces == {i \in 1 .. Len(out) : out[i].ev = "text"}
Streamed == LET texts == At(out, TextPlaces) IN [i \in 1 .. Len(texts) |-> texts[i].of]
TextDeltas == {i \in 1 .. Len(out) : out[i].ev = "delta" /\ out[i].block = "text"}

\* A client that streams is told all the text of the job, of every execution,
\* in order and once; a client that waits the last execution's, or all of it
\* when the last had none.  So both are told the same when there was one.
SameText ==
  answer = "done" =>
    LET last == Generated("token", round) IN
    /\ kind \in {"chat_stream", "legacy_stream"} => Streamed = Texts
    /\ kind = "anthropic_stream" => Cardinality(TextDeltas) = Len(Texts)
    /\ kind \in Blocking =>
         /\ got.text = IF last = <<>> THEN Texts ELSE last
         /\ round = 1 => got.text = Texts
=============================================================================
