-------------------------- MODULE RequestConversion --------------------------
(* From the body of an API request to the messages of a job.  Anthropic        *)
(* messages are content blocks and become OpenAI messages, one step of the     *)
(* handler's loop at a time; OpenAI messages are copied; a legacy prompt is    *)
(* one user message.                                                           *)
EXTENDS Naturals, Sequences, FiniteSets, SequencesExt, Subsequences

CONSTANT MaxMessages  \* messages of one request at most

ASSUME ConversionAssumption == MaxMessages \in Nat \ {0}

VARIABLES
  api,       \* the endpoint: "messages", "count", "chat", "legacy"
  flaw,      \* what is wrong with the body, or "none"
  system,    \* whether there is system text (Anthropic puts it outside the messages)
  asked,     \* the messages as the client sent them
  at,        \* how many of them are converted
  messages,  \* the messages of the job so far
  outcome    \* "working", "rejected", "overloaded", "queued", "counted"

convvars == <<api, flaw, system, asked, at, messages, outcome>>

\* Content blocks.  Thinking, images and documents are parsed and ignored.
Text == [type |-> "text", id |-> "none"]
Ignored == [type |-> "thinking", id |-> "none"]
Use(i) == [type |-> "tool_use", id |-> i]
Result(i) == [type |-> "tool_result", id |-> i]
CallIds == {"c1", "c2"}

\* Messages a client sends: a plain string or blocks.  An OpenAI message has its
\* calls, or the call it answers, beside its content.
Said(role, plain, blocks) == [role |-> role, plain |-> plain, blocks |-> blocks]
UserForms ==
  {<<Text>>, <<Ignored>>, <<Result("c1")>>, <<Result("c1"), Text>>, <<Text, Result("c1")>>,
   <<Result("c1"), Result("c2")>>, <<Result("c2")>>}
AssistantForms ==
  {<<Text>>, <<Ignored>>, <<Use("c1")>>, <<Text, Use("c1")>>, <<Use("c1"), Use("c2")>>, <<Use("c1"), Text>>}
Messages ==
  {Said("user", FALSE, b) : b \in UserForms} \cup {Said("assistant", FALSE, b) : b \in AssistantForms}
    \cup {Said(role, TRUE, <<Text>>) : role \in {"user", "assistant"}}

ChatMessages == {Said("user", TRUE, <<Text>>), Said("assistant", TRUE, <<Text, Use("c1"), Use("c2")>>),
                 Said("assistant", TRUE, <<Use("c1")>>), Said("tool", TRUE, <<Result("c1")>>)}

Flaws == [messages |-> {"json", "no_messages", "no_model", "no_max_tokens"},
          count |-> {"json", "no_messages"}, chat |-> {"json", "no_messages"},
          legacy |-> {"json", "no_prompt"}]

\* SystemText comes first, as a message of its own.
ConversionInit ==
  /\ api \in DOMAIN Flaws /\ flaw \in Flaws[api] \cup {"none"}
  /\ system \in IF api = "messages" THEN BOOLEAN ELSE {FALSE}
  /\ asked \in IF flaw = "none" /\ api = "messages" THEN BoundedSeq(Messages, MaxMessages) \ {<<>>}
               ELSE IF flaw = "none" /\ api = "chat" THEN BoundedSeq(ChatMessages, MaxMessages) \ {<<>>}
               ELSE {<<Said("user", TRUE, <<Text>>)>>}
  /\ at = 0 /\ outcome = "working"
  /\ messages = IF system THEN <<[role |-> "system", text |-> TRUE, calls |-> <<>>, answers |-> "none", from |-> 0]>> ELSE <<>>

\* A message of the job: its role, whether it has text, the calls it makes,
\* the call it answers, and the message it was made from.
JobMessages ==
  [role : {"system", "user", "assistant", "tool"}, text : BOOLEAN, calls : Seq(CallIds), answers : CallIds \cup {"none"}, from : Nat]

ConvTypeOK ==
  /\ api \in DOMAIN Flaws /\ flaw \in Flaws[api] \cup {"none"} /\ system \in BOOLEAN
  /\ asked \in Seq(IF api = "messages" THEN Messages ELSE ChatMessages) /\ at \in 0 .. Len(asked)
  /\ messages \in Seq(JobMessages)
  /\ outcome \in {"working", "rejected", "overloaded", "queued", "counted"}

-----------------------------------------------------------------------------
Message(role, text, calls, answers) ==
  [role |-> role, text |-> text, calls |-> calls, answers |-> answers, from |-> at + 1]

BlocksOf(blocks, type) == {i \in 1 .. Len(blocks) : blocks[i].type = type}
Has(blocks, type) == BlocksOf(blocks, type) # {}
IdsOf(blocks, type) ==
  LET found == At(blocks, BlocksOf(blocks, type)) IN [i \in 1 .. Len(found) |-> found[i].id]

\* Mutant: the text of a user message goes before its results.
ConvertedTextFirst(m) ==
  IF m.plain THEN <<Message(m.role, TRUE, <<>>, "none")>>
  ELSE LET uses == IdsOf(m.blocks, "tool_use")
           results == IdsOf(m.blocks, "tool_result")
       IN  (IF Has(m.blocks, "text") \/ uses # <<>> THEN <<Message(m.role, Has(m.blocks, "text"), uses, "none")>> ELSE <<>>)
             \o [i \in 1 .. Len(results) |-> Message("tool", TRUE, <<>>, results[i])]

\* Mutant: an assistant message is kept for its calls only.
ConvertedCalls(m) ==
  IF m.plain THEN <<Message(m.role, TRUE, <<>>, "none")>>
  ELSE LET uses == IdsOf(m.blocks, "tool_use")
           results == IdsOf(m.blocks, "tool_result")
       IN  IF m.role = "assistant" THEN IF uses # <<>> THEN <<Message("assistant", Has(m.blocks, "text"), uses, "none")>> ELSE <<>>
           ELSE IF results # <<>> THEN [i \in 1 .. Len(results) |-> Message("tool", TRUE, <<>>, results[i])]
           ELSE <<Message(m.role, Has(m.blocks, "text"), <<>>, "none")>>
\* handleMessages: an assistant's text and calls are one message, or none; the
\* results of a user message are a message each and its text is not sent.
Converted(m) ==
  IF m.plain THEN <<Message(m.role, TRUE, <<>>, "none")>>
  ELSE LET text == Has(m.blocks, "text")
           uses == IdsOf(m.blocks, "tool_use")
           results == IdsOf(m.blocks, "tool_result")
       IN  IF m.role = "assistant"
           THEN IF text \/ uses # <<>> THEN <<Message("assistant", text, uses, "none")>> ELSE <<>>
           ELSE IF results # <<>>
           THEN [i \in 1 .. Len(results) |-> Message("tool", TRUE, <<>>, results[i])]
           ELSE <<Message(m.role, text, <<>>, "none")>>

Reject ==
  /\ outcome = "working" /\ flaw # "none" /\ outcome' = "rejected"
  /\ UNCHANGED <<api, flaw, system, asked, at, messages>>
ConvertAnthropic ==
  /\ outcome = "working" /\ flaw = "none" /\ api = "messages" /\ at < Len(asked)
  /\ at' = at + 1 /\ messages' = messages \o Converted(asked[at + 1])
  /\ UNCHANGED <<api, flaw, system, asked, outcome>>
\* Chat messages keep their content, calls and call id; a prompt is one user message.
Copied(m) ==
  LET results == IdsOf(m.blocks, "tool_result")
  IN  Message(m.role, Has(m.blocks, "text") \/ results # <<>>, IdsOf(m.blocks, "tool_use"),
              IF results = <<>> THEN "none" ELSE results[1])
ConvertOpenAI ==
  /\ outcome = "working" /\ flaw = "none" /\ api \in {"chat", "legacy"} /\ at < Len(asked)
  /\ at' = at + 1 /\ messages' = Append(messages, Copied(asked[at + 1]))
  /\ UNCHANGED <<api, flaw, system, asked, outcome>>
\* count_tokens estimates from the text and enqueues nothing.
CountTokens ==
  /\ outcome = "working" /\ flaw = "none" /\ api = "count" /\ outcome' = "counted"
  /\ UNCHANGED <<api, flaw, system, asked, at, messages>>
EnqueueJob ==
  /\ outcome = "working" /\ flaw = "none" /\ api # "count" /\ at = Len(asked)
  /\ outcome' \in {"queued", "overloaded"} /\ UNCHANGED <<api, flaw, system, asked, at, messages>>

ConversionNext == Reject \/ ConvertAnthropic \/ ConvertOpenAI \/ CountTokens \/ EnqueueJob
ConversionSpec == ConversionInit /\ [][ConversionNext]_convvars
-----------------------------------------------------------------------------
IdSet(m, type) == {m.blocks[i].id : i \in BlocksOf(m.blocks, type)}

\* A conversation as clients keep it: results follow the message that asked for
\* them, with at most other results (of OpenAI clients) between.
ProperTurns ==
  \A i \in 1 .. Len(asked) : IdSet(asked[i], "tool_result") # {} =>
    \E k \in 1 .. i - 1 :
      /\ asked[k].role = "assistant" /\ IdSet(asked[i], "tool_result") \subseteq IdSet(asked[k], "tool_use")
      /\ \A j \in k + 1 .. i - 1 : asked[j].role = "tool"

\* In the job of a proper conversation every tool message answers a call of the
\* assistant message before it, with nothing but tool messages between: the
\* form chat templates require.
ResultsFollowCalls ==
  ProperTurns =>
    \A i \in 1 .. Len(messages) : messages[i].role = "tool" =>
      \E k \in 1 .. i - 1 :
        /\ messages[k].role = "assistant" /\ \E c \in 1 .. Len(messages[k].calls) : messages[k].calls[c] = messages[i].answers
        /\ \A j \in k + 1 .. i - 1 : messages[j].role = "tool"

\* Messages that say all of m: an answer for each result, or the text and the
\* calls in one message.
Complete(made, m) ==
  LET results == IdSet(m, "tool_result") IN
  /\ {made[i].answers : i \in 1 .. Len(made)} \ {"none"} = results
  /\ Len(made) = IF results # {} THEN Cardinality(BlocksOf(m.blocks, "tool_result"))
                 ELSE IF m.role = "assistant" /\ m.blocks = <<Ignored>> THEN 0 ELSE 1
  /\ results = {} =>
       /\ (\E i \in 1 .. Len(made) : made[i].text) <=> Has(m.blocks, "text")
       /\ \A i \in 1 .. Len(made) : made[i].calls = IdsOf(m.blocks, "tool_use")
MadeFrom(k) == At(messages, {i \in 1 .. Len(messages) : messages[i].from = k})

\* Nothing a client said is lost on the way into the queue but the text beside
\* tool results, blocks that are ignored, and an assistant message of such
\* blocks only; nothing is reordered or said twice.
NothingLost ==
  outcome = "queued" =>
    /\ \A i, j \in 1 .. Len(messages) : i < j => messages[i].from <= messages[j].from
    /\ \A k \in 1 .. Len(asked) : Complete(MadeFrom(k), asked[k])
=============================================================================
