----------------------------- MODULE TokenStream -----------------------------
(* The Redis key of one job's token stream, and who sets its expiry: the       *)
(* dispatcher after it sent the job, the handlers of the worker's messages,    *)
(* the sweep of jobs that timed out and the continuation pipeline.  An event   *)
(* and its TTL are two calls; a worker's connection may end between them, and  *)
(* with it the context of the dispatcher, which sweeps too.                    *)
EXTENDS Naturals

CONSTANT Executions     \* executions of the job at most: after tool calls, after a loss

ASSUME TokenStreamAssumption == Executions \in Nat \ {0}

Tries == 1 .. Executions

VARIABLES
  ttl,       \* "absent": no key; "never": a key without expiry; else the TTL last set
  run,       \* run[x]: "no", "running", "tools" (its calls run), "lost", "over"
  timedOut,  \* timedOut[x]: the router gave the execution up; its worker may go on
  post,      \* post[x]: what the dispatcher still has to write
  due        \* due[x]: the TTL that the worker's message handler still has to set

tsvars == <<ttl, run, timedOut, post, due>>

TTLs == {"dispatched", "streaming", "done"}

TsTypeOK ==
  /\ ttl \in TTLs \cup {"absent", "never"}
  /\ run \in [Tries -> {"no", "running", "tools", "lost", "over"}]
  /\ timedOut \in [Tries -> BOOLEAN]
  /\ post \in [Tries -> {"nothing", "sentinel", "dispatched", "done"}]
  /\ due \in [Tries -> {"nothing", "streaming", "done"}]

StreamInit ==
  /\ ttl = "absent"
  /\ run = [x \in Tries |-> "no"] /\ timedOut = [x \in Tries |-> FALSE]
  /\ post = [x \in Tries |-> "nothing"] /\ due = [x \in Tries |-> "nothing"]

\* XADD: a key it creates has no expiry, an existing key keeps its own.
Publish == ttl' = IF ttl = "absent" THEN "never" ELSE ttl
\* EXPIRE does nothing to a key that is not there.
SetTTL(t) == ttl' = IF ttl = "absent" THEN ttl ELSE t

\* The job is taken from the queue and sent; the next time after a round of
\* tool calls, or from the entry a lost worker left pending.
SendJob(x) ==
  /\ run[x] = "no" /\ (x > 1 => run[x - 1] \in {"tools", "lost"})
  /\ run' = [run EXCEPT ![x] = "running"] /\ post' = [post EXCEPT ![x] = "sentinel"]
  /\ UNCHANGED <<ttl, timedOut, due>>
PublishSentinel(x) ==
  /\ post[x] = "sentinel" /\ Publish /\ post' = [post EXCEPT ![x] = "dispatched"]
  /\ UNCHANGED <<run, timedOut, due>>
SetPostTTL(x) ==
  /\ post[x] \in TTLs /\ SetTTL(post[x]) /\ post' = [post EXCEPT ![x] = "nothing"]
  /\ UNCHANGED <<run, timedOut, due>>

\* The worker's messages, one at a time; none asks whether the job still runs
\* for the router.
Handling(x) == run[x] = "running" /\ due[x] = "nothing"
HandleToken(x) ==
  /\ Handling(x) /\ Publish /\ due' = [due EXCEPT ![x] = "streaming"]
  /\ UNCHANGED <<run, timedOut, post>>
HandleToolGenerating(x) ==
  /\ Handling(x) /\ Publish /\ UNCHANGED <<run, timedOut, post, due>>
\* Mutant: no TTL is set after the terminal event.
HandleCompleteForever(x) ==
  /\ Handling(x)
  /\ \/ run' = [run EXCEPT ![x] = "tools"] /\ UNCHANGED ttl
     \/ run' = [run EXCEPT ![x] = "over"] /\ Publish
  /\ UNCHANGED <<timedOut, post, due>>
HandleComplete(x) ==
  /\ Handling(x)
  /\ \/ run' = [run EXCEPT ![x] = "tools"] /\ UNCHANGED <<ttl, due>>
     \/ /\ run' = [run EXCEPT ![x] = "over"]
        /\ Publish /\ due' = [due EXCEPT ![x] = "done"]
  /\ UNCHANGED <<timedOut, post>>
HandleWorkerError(x) ==
  /\ Handling(x) /\ run' = [run EXCEPT ![x] = "over"]
  /\ Publish /\ due' = [due EXCEPT ![x] = "done"]
  /\ UNCHANGED <<timedOut, post>>
SetDueTTL(x) ==
  /\ due[x] # "nothing" /\ SetTTL(due[x]) /\ due' = [due EXCEPT ![x] = "nothing"]
  /\ UNCHANGED <<run, timedOut, post>>

\* The round of tool calls ends but the job cannot be enqueued again.
ContinuationFails(x) ==
  /\ run[x] = "tools" /\ due[x] = "nothing" /\ (x < Executions => run[x + 1] = "no")
  /\ run' = [run EXCEPT ![x] = "over"]
  /\ Publish /\ due' = [due EXCEPT ![x] = "done"]
  /\ UNCHANGED <<timedOut, post>>

\* The sweep of the connection's dispatcher: the job is acknowledged, answered
\* with an error and forgotten.
ExpireStaleJob(x) ==
  /\ run[x] = "running" /\ ~timedOut[x] /\ post[x] = "nothing"
  /\ timedOut' = [timedOut EXCEPT ![x] = TRUE]
  /\ Publish /\ post' = [post EXCEPT ![x] = "done"]
  /\ UNCHANGED <<run, due>>

\* The connection ends.  The handler of a message finishes, the dispatcher does
\* not; the entry is pending still unless the job was given up.
WorkerLost(x) ==
  /\ run[x] \in {"running", "tools", "over"} /\ due[x] = "nothing"
  /\ run' = [run EXCEPT ![x] = IF @ # "running" THEN @ ELSE IF timedOut[x] THEN "over" ELSE "lost"]
  /\ post' = [post EXCEPT ![x] = "nothing"]
  /\ UNCHANGED <<ttl, timedOut, due>>

\* The shortest TTL is three minutes: no two calls of one path are that far apart.
KeyExpires ==
  /\ ttl \in TTLs
  /\ \A x \in Tries : due[x] = "nothing" /\ post[x] = "nothing"
  /\ ttl' = "absent" /\ UNCHANGED <<run, timedOut, post, due>>

StreamNext ==
  \/ \E x \in Tries :
       \/ SendJob(x) \/ PublishSentinel(x) \/ SetPostTTL(x)
       \/ HandleToken(x) \/ HandleToolGenerating(x) \/ HandleComplete(x)
       \/ HandleWorkerError(x) \/ SetDueTTL(x)
       \/ ContinuationFails(x) \/ ExpireStaleJob(x) \/ WorkerLost(x)
  \/ KeyExpires
StreamSpec == StreamInit /\ [][StreamNext]_tsvars
-----------------------------------------------------------------------------
\* Nothing is left to write.
AtRest == \E x \in Tries :
  /\ run[x] = "over" /\ \A y \in Tries : y # x => run[y] # "running"
  /\ \A y \in Tries : due[y] = "nothing" /\ post[y] = "nothing"

\* A stream that nobody will write again expires, in whatever order the
\* sentinel, its TTL and the worker's events came and whoever was lost, unless
\* the router gave an execution up: an execution that goes on after its error
\* can write tool_generating to a new key and then be lost.
NoStreamLeft == AtRest /\ (\A x \in Tries : ~timedOut[x]) => ttl # "never"
=============================================================================
