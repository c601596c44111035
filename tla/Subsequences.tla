----------------------------- MODULE Subsequences -----------------------------
(* The subsequence of a sequence at some of its places: what SelectSeq is for *)
(* a test, with the set of places in the test's stead.                        *)
EXTENDS Naturals, Sequences

\* What stands at the places P among the first n, for every n.
Kept(s, P) ==
  LET kept[n \in 0 .. Len(s)] ==
        IF n = 0 THEN <<>> ELSE IF n \in P THEN Append(kept[n - 1], s[n]) ELSE kept[n - 1]
  IN  kept
At(s, P) == Kept(s, P)[Len(s)]
=============================================================================
