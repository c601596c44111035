------------------------------ MODULE JobLease ------------------------------
(***************************************************************************)
(* What the job queue promises an API caller, with no goroutine in sight:  *)
(* jobs are leased to workers in the order they were submitted, a lease    *)
(* passes from worker to worker but is never dropped, and it ends only for *)
(* a job that is answered or whose answer is under way.                    *)
(***************************************************************************)
EXTENDS Naturals

CONSTANTS Jobs,      \* submitted in increasing order
          Holders,   \* who may hold a lease
          NoHolder,
          Answers    \* what a caller may be told

VARIABLES state,     \* absent, waiting, leased, answering, over
          holder,    \* of the lease
          reply      \* "none" until the caller is told something

vars == <<state, holder, reply>>

Init ==
  /\ state = [j \in Jobs |-> "absent"]
  /\ holder = [j \in Jobs |-> NoHolder]
  /\ reply = [j \in Jobs |-> "none"]

Submit(j) ==
  /\ state[j] = "absent"
  /\ \A k \in Jobs : k < j => state[k] # "absent"
  /\ state' = [state EXCEPT ![j] = "waiting"]
  /\ UNCHANGED <<holder, reply>>

\* The oldest waiting job goes first.
Grant(j, h) ==
  /\ state[j] = "waiting"
  /\ \A k \in Jobs : k < j => state[k] # "waiting"
  /\ state' = [state EXCEPT ![j] = "leased"]
  /\ holder' = [holder EXCEPT ![j] = h]
  /\ UNCHANGED reply

\* Some leases of one holder pass to another.
Pass(S, h) ==
  /\ \A j \in S : state[j] = "leased"
  /\ holder' = [j \in Jobs |-> IF j \in S THEN h ELSE holder[j]]
  /\ UNCHANGED <<state, reply>>

\* The lease ends: over when the caller knows, else the answer must follow.
Settle(j) ==
  /\ state[j] = "leased"
  /\ state' = [state EXCEPT ![j] = IF reply[j] = "none" THEN "answering" ELSE "over"]
  /\ holder' = [holder EXCEPT ![j] = NoHolder]
  /\ UNCHANGED reply

\* The first answer is the one that counts.
Reply(j, a) ==
  /\ state[j] \in {"leased", "answering"}
  /\ reply[j] = "none"
  /\ reply' = [reply EXCEPT ![j] = a]
  /\ state' = [state EXCEPT ![j] = IF @ = "answering" THEN "over" ELSE @]
  /\ UNCHANGED holder

Next ==
  \/ \E j \in Jobs : Submit(j) \/ Settle(j)
  \/ \E j \in Jobs, h \in Holders : Grant(j, h)
  \/ \E j \in Jobs, a \in Answers : Reply(j, a)
  \/ \E S \in SUBSET Jobs, h \in Holders : Pass(S, h)

Spec == Init /\ [][Next]_vars
=============================================================================
