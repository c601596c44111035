--------------------------- MODULE MCContinuation ---------------------------
(* Model checking of Continuation: symmetry and fairness.                    *)
EXTENDS Continuation, TLC

Interchangeable == Permutations(Gpus) \cup Permutations(Tools) \cup Permutations(Calls)

\* The router's goroutines run, and a tools worker that is away comes back.  A
\* GPU worker ends every execution, with a message or, after its own time-out,
\* without one; a tools worker ends every call.  A completion that FreshBatches
\* holds back is not held back for ever.  Time passes: a job in flight is overdue
\* sooner or later, and a reader that expires stale jobs again and again expires it.
Expires(g, j) == ExpireStaleJobs(g) /\ tracked[g][j] # 0 /\ tracked'[g][j] = 0

Fairness ==
  /\ \A g \in Gpus : WF_vars(ReaderStep(g)) /\ WF_vars(HandlerStep(g))
  /\ \A g \in Gpus, j \in SlowJobs : SF_vars(Expires(g, j))
  /\ \A x \in Execs : WF_vars(NextRound(x))
  /\ \A g \in Gpus, x \in Execs :
       SF_vars(\/ ReceiveError(g, x) \/ EndsInSilence(g, x)
               \/ \E calls \in SUBSET Calls : ReceiveComplete(g, x, calls))
  /\ \A t \in Tools :
       /\ WF_vars(ToolsConnect(t) \/ ToolsCleanup(t))
       /\ WF_vars(ToolRecord(t))
       /\ \A x \in Execs, c \in Calls : WF_vars(ToolResult(t, x, c) \/ ToolResultLost(t, x, c))

LiveSpec == Spec /\ Fairness
=============================================================================
