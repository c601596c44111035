----------------------------- MODULE MCDispatch -----------------------------
(* Model checking of Dispatch: the symmetry, and the fairness of a router    *)
(* whose goroutines keep running, with and without workers that answer.      *)
EXTENDS Dispatch, TLC

CONSTANT Steady   \* connections whose worker connects and stays

ASSUME Steady \subseteq Conns

Interchangeable == Permutations(Conns)

\* The Go scheduler runs every goroutine of the router, the sweeper's ticker
\* fires again and again, and a closed socket is noticed.
RouterRuns ==
  /\ WF_vars(SweeperStep)
  /\ \A w \in Conns :
       /\ WF_vars(ReaderStep(w))
       /\ WF_vars(HandlerStep(w))
       /\ WF_vars(Disconnect(w) \/ Cleanup(w))

\* A worker ends every execution: with a completion or an error, or in silence
\* once its own AUXOT_JOB_TIMEOUT has passed.  Time passes, so a job that stays
\* in flight is overdue in the end.  A steady worker connects.
WorkersAnswer ==
  /\ \A w \in Conns, j \in Jobs :
       /\ WF_vars(ReceiveComplete(w, j) \/ ReceiveError(w, j) \/ EndsInSilence(w, j))
       /\ WF_vars(Ages(w, j))
  /\ \A w \in Steady : WF_vars(\E n \in SlotCounts : Connect(w, n))

\* Next, where a steady worker connects and its link does not break.
SteadyNext ==
  \/ Enqueue
  \/ SweeperStep
  \/ \E w \in Conns :
       \/ Disconnect(w) \/ Cleanup(w) \/ Ping(w) \/ HeartbeatLapses(w)
       \/ ReaderStep(w) \/ HandlerStep(w)
       \/ \E n \in SlotCounts : Connect(w, n) \/ Reconfigure(w, n)
       \/ \E j \in Jobs : \/ Ages(w, j) \/ EndsInSilence(w, j)
                        \/ ReceiveComplete(w, j) \/ ReceiveError(w, j)
  \/ \E w \in Conns \ Steady :
       LinkBreaks(w) \/ \E n \in SlotCounts : ConnectFails(w, n)

LiveSpec == Init /\ [][SteadyNext]_vars /\ RouterRuns /\ WorkersAnswer

\* The worker stays connected and need never answer.
MuteSpec == Init /\ [][SteadyNext]_vars /\ RouterRuns
=============================================================================
