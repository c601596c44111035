-------------------------- MODULE SubsequenceProofs --------------------------
(* Lemmas about Subsequences, and induction as a least counterexample. *)
EXTENDS Subsequences, FiniteSets, SequenceTheorems, FiniteSetTheorems, WellFoundedInduction, TLAPS

LEMMA LeastOf ==
  ASSUME NEW S, S \subseteq Nat, S # {}
  PROVE  \E m \in S : \A n \in S : m <= n
<1>0. \E m \in S : \A n \in S : <<n, m>> \notin OpToRel(<, Nat)
  BY NatLessThanWellFounded, WFMin, Zenon
<1>1. PICK m \in S : \A n \in S : ~ (n < m)
  BY <1>0, Zenon DEF OpToRel
<1> QED
  BY <1>1

\* Induction: a set with 0, and with the successor of each of its numbers below
\* N, has all numbers up to N.
LEMMA CountUp ==
  ASSUME NEW N \in Nat, NEW S, 0 \in S, \A n \in 1 .. N : n - 1 \in S => n \in S
  PROVE  0 .. N \subseteq S
<1> DEFINE Bad == (0 .. N) \ S
<1>1. SUFFICES ASSUME Bad # {} PROVE FALSE
  OBVIOUS
<1>2. Bad \subseteq Nat
  OBVIOUS
<1>3. PICK m \in Bad : \A n \in Bad : m <= n
  <2> HIDE DEF Bad
  <2> QED BY <1>1, <1>2, LeastOf
<1>4. m \in 1 .. N /\ m - 1 \in (0 .. N) /\ m - 1 \notin Bad
  BY <1>3
<1> QED
  BY <1>3, <1>4

\* A function on the first numbers may be given by its first value and a step.
Stepping(N, X) == [1 .. N -> [X -> X]]
FollowsSteps(f, N, X, b, step) ==
  f \in [0 .. N -> X] /\ f[0] = b /\ \A n \in 1 .. N : f[n] = step[n][f[n - 1]]
LEMMA StepsMakeFunction ==
  ASSUME NEW N \in Nat, NEW X, NEW b \in X, NEW step \in Stepping(N, X)
  PROVE  \E f : FollowsSteps(f, N, X, b, step)
<1> USE DEF Stepping, FollowsSteps
<1> DEFINE Good(m) == \E f \in [0 .. m -> X] : f[0] = b /\ \A n \in 1 .. m : f[n] = step[n][f[n - 1]]
           S == {m \in 0 .. N : Good(m)}
<1>1. Good(0)
  <2>1. [n \in 0 .. 0 |-> b] \in [0 .. 0 -> X] /\ [n \in 0 .. 0 |-> b][0] = b /\ 1 .. 0 = {}
    OBVIOUS
  <2> QED BY <2>1, Zenon
<1>2. ASSUME NEW m \in 1 .. N, m - 1 \in S PROVE m \in S
  <2>1. PICK g \in [0 .. m - 1 -> X] : g[0] = b /\ \A n \in 1 .. m - 1 : g[n] = step[n][g[n - 1]]
    BY <1>2
  <2> DEFINE f == [n \in 0 .. m |-> IF n = m THEN step[m][g[m - 1]] ELSE g[n]]
  <2>2. step[m][g[m - 1]] \in X
    BY <2>1
  <2>3. f \in [0 .. m -> X] /\ f[0] = b
    BY <2>1, <2>2
  <2>4. \A n \in 1 .. m : f[n] = step[n][f[n - 1]]
    BY <2>1, <2>2
  <2>5. Good(m)
    <3> HIDE DEF f
    <3> QED BY <2>3, <2>4, Zenon
  <2> QED BY <2>5
<1>3. 0 \in S
  BY <1>1
<1>4. 0 .. N \subseteq S
  <2> HIDE DEF S
  <2> QED BY <1>2, <1>3, CountUp
<1> QED
  BY <1>4

LEMMA KeptStep ==
  ASSUME NEW S, NEW s \in Seq(S), NEW P
  PROVE  /\ Kept(s, P) \in [0 .. Len(s) -> Seq(S)] /\ Kept(s, P)[0] = <<>>
         /\ \A n \in 1 .. Len(s) :
              Kept(s, P)[n] = IF n \in P THEN Append(Kept(s, P)[n - 1], s[n]) ELSE Kept(s, P)[n - 1]
<1> DEFINE step == [n \in 1 .. Len(s) |-> [k \in Seq(S) |-> IF n \in P THEN Append(k, s[n]) ELSE k]]
           Is(f) == f = [n \in 0 .. Len(s) |->
                      IF n = 0 THEN <<>> ELSE IF n \in P THEN Append(f[n - 1], s[n]) ELSE f[n - 1]]
<1>0. Len(s) \in Nat /\ <<>> \in Seq(S)
  OBVIOUS
<1>1. step \in Stepping(Len(s), Seq(S))
  BY DEF Stepping
<1>2. \A n \in 1 .. Len(s), k \in Seq(S) : step[n][k] = IF n \in P THEN Append(k, s[n]) ELSE k
  OBVIOUS
<1>3. PICK f \in [0 .. Len(s) -> Seq(S)] : f[0] = <<>> /\ \A n \in 1 .. Len(s) : f[n] = step[n][f[n - 1]]
  <2>1. \E f : FollowsSteps(f, Len(s), Seq(S), <<>>, step)
    <3> HIDE DEF step
    <3> QED BY <1>0, <1>1, StepsMakeFunction
  <2> HIDE DEF step
  <2> QED BY <2>1 DEF FollowsSteps
<1>4. \A n \in 0 .. Len(s) : f[n] = IF n = 0 THEN <<>> ELSE IF n \in P THEN Append(f[n - 1], s[n]) ELSE f[n - 1]
  <2> SUFFICES ASSUME NEW n \in 0 .. Len(s)
               PROVE  f[n] = IF n = 0 THEN <<>> ELSE IF n \in P THEN Append(f[n - 1], s[n]) ELSE f[n - 1]
    OBVIOUS
  <2> HIDE DEF step, Is
  <2>1. CASE n = 0
    BY <1>3, <2>1
  <2>2. CASE n # 0
    <3>1. n \in 1 .. Len(s) /\ n - 1 \in 0 .. Len(s)
      BY <1>0, <2>2
    <3>2. f[n] = step[n][f[n - 1]] /\ f[n - 1] \in Seq(S)
      BY <1>3, <3>1
    <3>3. f[n] = IF n \in P THEN Append(f[n - 1], s[n]) ELSE f[n - 1]
      BY <1>2, <3>1, <3>2
    <3> QED BY <2>2, <3>3
  <2> QED BY <2>1, <2>2
<1>6. Is(f)
  <2> HIDE DEF step
  <2> QED BY <1>3, <1>4
<1>7. Kept(s, P) = CHOOSE g : Is(g)
  BY DEF Kept
<1>8. Is(Kept(s, P))
  <2> HIDE DEF Is
  <2> QED BY <1>6, <1>7, Zenon
<1> DEFINE k == Kept(s, P)
<1>9. \A n \in 0 .. Len(s) : k[n] = IF n = 0 THEN <<>> ELSE IF n \in P THEN Append(k[n - 1], s[n]) ELSE k[n - 1]
  BY <1>8
<1>10. k = [n \in 0 .. Len(s) |-> k[n]]
  BY <1>8
<1> HIDE DEF k, step, Is
<1>11. \A n \in 0 .. Len(s) : k[n] \in Seq(S)
  <2> DEFINE T == {n \in 0 .. Len(s) : k[n] \in Seq(S)}
  <2>1. 0 \in T
    <3>1. k[0] = <<>>
      BY <1>0, <1>9
    <3>2. k[0] \in Seq(S) /\ 0 \in 0 .. Len(s)
      BY <1>0, <3>1
    <3> QED BY <3>2
  <2>2. ASSUME NEW n \in 1 .. Len(s), n - 1 \in T PROVE n \in T
    <3>1. n \in 0 .. Len(s) /\ n # 0 /\ s[n] \in S /\ k[n - 1] \in Seq(S)
      BY <1>0, <2>2
    <3>2. Append(k[n - 1], s[n]) \in Seq(S)
      BY <3>1, AppendProperties
    <3>3. k[n] = Append(k[n - 1], s[n]) \/ k[n] = k[n - 1]
      BY <1>9, <3>1
    <3> QED BY <3>1, <3>2, <3>3
  <2>3. 0 .. Len(s) \subseteq T
    <3> HIDE DEF T
    <3> QED BY <1>0, <2>1, <2>2, CountUp
  <2> QED BY <2>3
<1>12. k \in [0 .. Len(s) -> Seq(S)]
  BY <1>10, <1>11
<1>13. k[0] = <<>> /\ \A n \in 1 .. Len(s) : k[n] = IF n \in P THEN Append(k[n - 1], s[n]) ELSE k[n - 1]
  BY <1>9
<1> QED
  BY <1>12, <1>13 DEF k

LEMMA AtType ==
  ASSUME NEW S, NEW s \in Seq(S), NEW P
  PROVE  At(s, P) \in Seq(S)
<1>1. Len(s) \in 0 .. Len(s)
  OBVIOUS
<1> QED
  BY <1>1, KeptStep DEF At

LEMMA AtEmpty ==
  ASSUME NEW P
  PROVE  At(<<>>, P) = <<>>
<1>1. PICK e \in Seq({0}) : e = <<>>
  BY EmptySeq
<1>2. Kept(e, P)[0] = <<>>
  BY KeptStep
<1> QED
  BY <1>1, <1>2 DEF At

Agree(N, s, P, t, Q) == \A i \in 1 .. N : s[i] = t[i] /\ (i \in P <=> i \in Q)
LEMMA KeptAlike ==
  ASSUME NEW S, NEW s \in Seq(S), NEW t \in Seq(S), NEW P, NEW Q,
         NEW N \in Nat, N <= Len(s), N <= Len(t), Agree(N, s, P, t, Q)
  PROVE  Kept(s, P)[N] = Kept(t, Q)[N]
<1> USE DEF Agree
<1> DEFINE T == {n \in 0 .. N : Kept(s, P)[n] = Kept(t, Q)[n]}
<1>1. 0 \in T
  BY KeptStep
<1>2. ASSUME NEW n \in 1 .. N, n - 1 \in T PROVE n \in T
  <2>1. n \in 1 .. Len(s) /\ n \in 1 .. Len(t) /\ Kept(s, P)[n - 1] = Kept(t, Q)[n - 1]
    BY <1>2
  <2>2. /\ Kept(s, P)[n] = IF n \in P THEN Append(Kept(s, P)[n - 1], s[n]) ELSE Kept(s, P)[n - 1]
        /\ Kept(t, Q)[n] = IF n \in Q THEN Append(Kept(t, Q)[n - 1], t[n]) ELSE Kept(t, Q)[n - 1]
    BY <2>1, KeptStep
  <2> QED  BY <2>1, <2>2
<1>3. 0 .. N \subseteq T
  <2> HIDE DEF T
  <2> QED  BY <1>1, <1>2, CountUp
<1> QED
  BY <1>3

\* At sees of its places those the sequence has.
LEMMA AtAlike ==
  ASSUME NEW S, NEW s \in Seq(S), NEW P, NEW Q, \A i \in 1 .. Len(s) : i \in P <=> i \in Q
  PROVE  At(s, P) = At(s, Q)
<1>1. PICK N \in Nat : N = Len(s)
  OBVIOUS
<1>2. Agree(N, s, P, s, Q) /\ N <= Len(s)
  BY <1>1 DEF Agree
<1>3. Kept(s, P)[N] = Kept(s, Q)[N]
  BY <1>2, KeptAlike
<1> QED
  BY <1>1, <1>3 DEF At

LEMMA AtAppend ==
  ASSUME NEW S, NEW s \in Seq(S), NEW x \in S, NEW P
  PROVE  At(Append(s, x), P) = IF Len(s) + 1 \in P THEN Append(At(s, P), x) ELSE At(s, P)
<1> DEFINE t == Append(s, x)
<1>1. t \in Seq(S) /\ Len(t) = Len(s) + 1 /\ t[Len(s) + 1] = x /\ \A i \in 1 .. Len(s) : t[i] = s[i]
  BY AppendProperties
<1>2. Len(s) \in Nat /\ Len(s) + 1 \in 1 .. Len(t) /\ (Len(s) + 1) - 1 = Len(s)
  BY <1>1
<1> HIDE DEF t
<1>3. Kept(t, P)[Len(s) + 1] = IF Len(s) + 1 \in P THEN Append(Kept(t, P)[Len(s)], x) ELSE Kept(t, P)[Len(s)]
  BY <1>1, <1>2, KeptStep
<1>4. Kept(t, P)[Len(s)] = Kept(s, P)[Len(s)]
  <2>1. Len(s) \in Nat /\ Len(s) <= Len(t) /\ Len(s) <= Len(s) /\ Agree(Len(s), t, P, s, P)
    BY <1>1, <1>2 DEF Agree
  <2> QED  BY <1>1, <2>1, KeptAlike
<1> QED
  BY <1>1, <1>3, <1>4 DEF At, t

LEMMA CatAppended ==
  ASSUME NEW S, NEW s \in Seq(S), NEW t \in Seq(S), NEW x \in S, NEW y, y = Append(s \o t, x)
  PROVE  y = s \o Append(t, x)
<1>1. s \o t \in Seq(S)
  BY ConcatProperties
<1>2. PICK z \in Seq(S) : z = <<x>>
  <2>1. <<x>> \in Seq(S)
    OBVIOUS
  <2> QED  BY <2>1, Zenon
<1>3. Append(s \o t, x) = (s \o t) \o z /\ Append(t, x) = t \o z
  BY <1>1, <1>2, AppendIsConcat
<1>4. (s \o t) \o z = s \o (t \o z)
  BY ConcatAssociative
<1> QED
  BY <1>3, <1>4

\* At distributes over concatenation.
Shifted(s, t, P, Q) == \A i \in 1 .. Len(t) : i \in Q <=> Len(s) + i \in P
LEMMA AtCat ==
  ASSUME NEW S, NEW s \in Seq(S), NEW t \in Seq(S), NEW P, NEW Q, Shifted(s, t, P, Q),
         NEW y, y = At(s \o t, P)
  PROVE  y = At(s, P) \o At(t, Q)
<1> USE DEF Shifted
<1> DEFINE c == s \o t
           T == {n \in 0 .. Len(t) : Kept(c, P)[Len(s) + n] = At(s, P) \o Kept(t, Q)[n]}
<1>1. /\ c \in Seq(S) /\ Len(c) = Len(s) + Len(t) /\ Len(s) \in Nat /\ Len(t) \in Nat
      /\ \A i \in 1 .. Len(s) : c[i] = s[i]
      /\ \A i \in 1 .. Len(t) : c[Len(s) + i] = t[i]
  BY ConcatProperties
<1> HIDE DEF c
<1>2. 0 \in T
  <2>1. Kept(c, P)[Len(s)] = Kept(s, P)[Len(s)]
    <3>1. Len(s) \in Nat /\ Len(s) <= Len(c) /\ Len(s) <= Len(s) /\ Agree(Len(s), c, P, s, P)
      BY <1>1 DEF Agree
    <3> QED  BY <1>1, <3>1, KeptAlike
  <2>2. Kept(t, Q)[0] = <<>> /\ At(s, P) \in Seq(S)
    BY KeptStep, AtType
  <2>3. At(s, P) \o <<>> = At(s, P)
    BY <2>2
  <2>4. Len(s) + 0 = Len(s) /\ 0 \in 0 .. Len(t)
    BY <1>1
  <2> QED  BY <2>1, <2>2, <2>3, <2>4 DEF At
<1>3. ASSUME NEW n \in 1 .. Len(t), n - 1 \in T PROVE n \in T
  <2> DEFINE a == At(s, P)
             k == Kept(t, Q)[n - 1]
  <2>1. Len(s) + n \in 1 .. Len(c) /\ (Len(s) + n) - 1 = Len(s) + (n - 1) /\ n - 1 \in 0 .. Len(t) /\ n \in 0 .. Len(t)
    BY <1>1
  <2>2. Kept(c, P)[Len(s) + (n - 1)] = a \o k
    BY <1>3
  <2>3. /\ Kept(c, P)[Len(s) + n] = IF Len(s) + n \in P THEN Append(a \o k, t[n]) ELSE a \o k
        /\ Kept(t, Q)[n] = IF n \in Q THEN Append(k, t[n]) ELSE k
    <3>0. PICK m \in 1 .. Len(c) : m = Len(s) + n
      BY <2>1
    <3>1. Kept(c, P)[m] = IF m \in P THEN Append(Kept(c, P)[m - 1], c[m]) ELSE Kept(c, P)[m - 1]
      <4>1. c \in Seq(S)
        BY <1>1
      <4> HIDE DEF a, k, T
      <4> QED  BY <4>1, KeptStep
    <3>2. Kept(t, Q)[n] = IF n \in Q THEN Append(k, t[n]) ELSE k
      BY KeptStep
    <3> QED  BY <1>1, <2>1, <2>2, <3>0, <3>1, <3>2
  <2>4. a \in Seq(S) /\ k \in Seq(S) /\ t[n] \in S
    <3>1. Kept(t, Q) \in [0 .. Len(t) -> Seq(S)]
      BY KeptStep
    <3>2. a \in Seq(S)
      BY AtType
    <3>3. t[n] \in S
      BY ElementOfSeq
    <3> QED  BY <2>1, <3>1, <3>2, <3>3
  <2>5. Append(a \o k, t[n]) = a \o Append(k, t[n])
    <3> HIDE DEF a, k
    <3>1. PICK u \in Seq(S), v \in Seq(S), x \in S : u = a /\ v = k /\ x = t[n]
      BY <2>4
    <3>2. PICK z : z = Append(u \o v, x)
      OBVIOUS
    <3>3. z = u \o Append(v, x)
      BY <3>2, CatAppended, Zenon
    <3> QED  BY <3>1, <3>2, <3>3
  <2>6. Kept(c, P)[Len(s) + n] = a \o Kept(t, Q)[n]
    <3> HIDE DEF a, k
    <3> QED  BY <2>3, <2>5
  <2> QED  BY <2>1, <2>6
<1>4. 0 .. Len(t) \subseteq T
  <2> HIDE DEF T
  <2> QED  BY <1>1, <1>2, <1>3, CountUp
<1>5. Kept(c, P)[Len(s) + Len(t)] = At(s, P) \o Kept(t, Q)[Len(t)]
  <2>1. Len(t) \in T
    <3> HIDE DEF T
    <3> QED  BY <1>1, <1>4
  <2> QED  BY <2>1
<1> QED
  BY <1>1, <1>5 DEF At, c

LEMMA AtNone ==
  ASSUME NEW S, NEW s \in Seq(S), NEW P, \A i \in 1 .. Len(s) : i \notin P
  PROVE  At(s, P) = <<>>
<1> DEFINE T == {n \in 0 .. Len(s) : Kept(s, P)[n] = <<>>}
<1>1. Len(s) \in Nat /\ 0 \in T
  BY KeptStep
<1>2. ASSUME NEW n \in 1 .. Len(s), n - 1 \in T PROVE n \in T
  <2>1. Kept(s, P)[n] = IF n \in P THEN Append(Kept(s, P)[n - 1], s[n]) ELSE Kept(s, P)[n - 1]
    BY KeptStep
  <2> QED  BY <1>2, <2>1
<1>3. 0 .. Len(s) \subseteq T
  <2> HIDE DEF T
  <2> QED  BY <1>1, <1>2, CountUp
<1> QED
  BY <1>1, <1>3 DEF At

\* What a sequence holds.
ElementsOf(s) == {s[i] : i \in 1 .. Len(s)}
LEMMA EntriesAppended ==
  ASSUME NEW S, NEW s \in Seq(S), NEW x \in S
  PROVE  ElementsOf(Append(s, x)) = ElementsOf(s) \cup {x}
<1>1. /\ Len(Append(s, x)) = Len(s) + 1 /\ Append(s, x)[Len(s) + 1] = x /\ Len(s) \in Nat
      /\ \A i \in 1 .. Len(s) : Append(s, x)[i] = s[i]
  BY AppendProperties
<1> QED
  BY <1>1 DEF ElementsOf

LEMMA AtEntries ==
  ASSUME NEW S, NEW s \in Seq(S), NEW P
  PROVE  ElementsOf(At(s, P)) = {s[i] : i \in P \cap (1 .. Len(s))}
<1> DEFINE T == {n \in 0 .. Len(s) : ElementsOf(Kept(s, P)[n]) = {s[i] : i \in P \cap (1 .. n)}}
<1>1. Len(s) \in Nat /\ 0 \in T
  <2>1. Kept(s, P)[0] = <<>>
    BY KeptStep
  <2> QED  BY <2>1 DEF ElementsOf
<1>2. ASSUME NEW n \in 1 .. Len(s), n - 1 \in T PROVE n \in T
  <2> DEFINE k == Kept(s, P)[n - 1]
  <2>1. Kept(s, P)[n] = IF n \in P THEN Append(k, s[n]) ELSE k
    BY KeptStep
  <2>2. k \in Seq(S) /\ s[n] \in S
    <3>1. Kept(s, P) \in [0 .. Len(s) -> Seq(S)] /\ n - 1 \in 0 .. Len(s)
      BY KeptStep, <1>1
    <3>2. s[n] \in S
      BY ElementOfSeq
    <3> QED  BY <3>1, <3>2
  <2>3. ElementsOf(k) = {s[i] : i \in P \cap (1 .. n - 1)}
    BY <1>2
  <2> HIDE DEF k
  <2>4. ElementsOf(Append(k, s[n])) = ElementsOf(k) \cup {s[n]}
    BY <2>2, EntriesAppended
  <2>5. CASE n \in P
    <3>1. P \cap (1 .. n) = (P \cap (1 .. n - 1)) \cup {n}
      BY <2>5
    <3>2. {s[i] : i \in P \cap (1 .. n)} = {s[i] : i \in P \cap (1 .. n - 1)} \cup {s[n]}
      BY <3>1
    <3>3. ElementsOf(Kept(s, P)[n]) = ElementsOf(k) \cup {s[n]}
      BY <2>1, <2>4, <2>5, Zenon
    <3>4. ElementsOf(Kept(s, P)[n]) = {s[i] : i \in P \cap (1 .. n)}
      BY <2>3, <3>2, <3>3, Zenon
    <3>5. n \in 0 .. Len(s)
      BY <1>1
    <3> QED  BY <3>4, <3>5
  <2>6. CASE n \notin P
    <3>1. P \cap (1 .. n) = P \cap (1 .. n - 1)
      BY <2>6
    <3>2. ElementsOf(Kept(s, P)[n]) = {s[i] : i \in P \cap (1 .. n)}
      BY <2>1, <2>3, <2>6, <3>1, Zenon
    <3>3. n \in 0 .. Len(s)
      BY <1>1
    <3> QED  BY <3>2, <3>3
  <2> QED  BY <2>5, <2>6
<1>3. 0 .. Len(s) \subseteq T
  <2> HIDE DEF T
  <2> QED  BY <1>1, <1>2, CountUp
<1>4. Len(s) \in 0 .. Len(s)
  BY <1>1
<1> QED
  BY <1>3, <1>4 DEF At

LEMMA AtAll ==
  ASSUME NEW S, NEW s \in Seq(S), NEW P, \A i \in 1 .. Len(s) : i \in P
  PROVE  At(s, P) = s
<1> DEFINE Good(n) == Len(Kept(s, P)[n]) = n /\ \A i \in 1 .. n : Kept(s, P)[n][i] = s[i]
           T == {n \in 0 .. Len(s) : Good(n)}
<1>1. Len(s) \in Nat /\ 0 \in T
  BY KeptStep
<1>2. ASSUME NEW n \in 1 .. Len(s), n - 1 \in T PROVE n \in T
  <2> DEFINE k == Kept(s, P)[n - 1]
  <2>1. Kept(s, P)[n] = Append(k, s[n])
    BY KeptStep
  <2>2. k \in Seq(S) /\ s[n] \in S
    <3>1. Kept(s, P) \in [0 .. Len(s) -> Seq(S)] /\ n - 1 \in 0 .. Len(s)
      BY KeptStep, <1>1
    <3>2. s[n] \in S
      BY ElementOfSeq
    <3> QED  BY <3>1, <3>2
  <2>3. Len(k) = n - 1 /\ \A i \in 1 .. n - 1 : k[i] = s[i]
    BY <1>2
  <2> HIDE DEF k
  <2>4. Len(Append(k, s[n])) = Len(k) + 1 /\ Append(k, s[n])[Len(k) + 1] = s[n] /\ \A i \in 1 .. Len(k) : Append(k, s[n])[i] = k[i]
    BY <2>2, AppendProperties
  <2>5. Good(n)
    BY <2>1, <2>3, <2>4
  <2> QED  BY <2>5
<1>3. 0 .. Len(s) \subseteq T
  <2> HIDE DEF T
  <2> QED  BY <1>1, <1>2, CountUp
<1>4. Len(s) \in 0 .. Len(s) /\ At(s, P) \in Seq(S)
  BY <1>1, AtType
<1>5. Good(Len(s))
  BY <1>3, <1>4
<1>6. Len(At(s, P)) = Len(s) /\ \A i \in 1 .. Len(s) : At(s, P)[i] = s[i]
  BY <1>5 DEF At
<1> QED
  BY <1>4, <1>6

LEMMA AtLen ==
  ASSUME NEW S, NEW s \in Seq(S), NEW P
  PROVE  Len(At(s, P)) = Cardinality(P \cap (1 .. Len(s)))
<1> DEFINE Good(n) == Len(Kept(s, P)[n]) = Cardinality(P \cap (1 .. n))
           T == {n \in 0 .. Len(s) : Good(n)}
<1>1. Len(s) \in Nat /\ 0 \in T
  <2>1. P \cap (1 .. 0) = {} /\ Kept(s, P)[0] = <<>>
    BY KeptStep
  <2> QED  BY <2>1, FS_EmptySet
<1>2. ASSUME NEW n \in 1 .. Len(s), n - 1 \in T PROVE n \in T
  <2> DEFINE k == Kept(s, P)[n - 1]
             A == P \cap (1 .. n - 1)
  <2>1. Kept(s, P)[n] = IF n \in P THEN Append(k, s[n]) ELSE k
    BY KeptStep
  <2>2. k \in Seq(S) /\ s[n] \in S
    <3>1. Kept(s, P) \in [0 .. Len(s) -> Seq(S)] /\ n - 1 \in 0 .. Len(s)
      BY KeptStep, <1>1
    <3>2. s[n] \in S
      BY ElementOfSeq
    <3> QED  BY <3>1, <3>2
  <2>3. Len(k) = Cardinality(A)
    BY <1>2
  <2>4. IsFiniteSet(A) /\ n \notin A
    <3>1. IsFiniteSet(1 .. n - 1) /\ A \subseteq 1 .. n - 1
      BY FS_Interval
    <3> QED  BY <3>1, FS_Subset
  <2> HIDE DEF k
  <2>5. CASE n \in P
    <3>1. P \cap (1 .. n) = A \cup {n}
      BY <2>5
    <3> HIDE DEF A
    <3>2. Cardinality(A \cup {n}) = Cardinality(A) + 1
      BY <2>4, FS_AddElement
    <3>3. Len(Append(k, s[n])) = Len(k) + 1
      BY <2>2, AppendProperties
    <3>4. Good(n)
      BY <2>1, <2>3, <2>5, <3>1, <3>2, <3>3
    <3> QED  BY <1>1, <3>4
  <2>6. CASE n \notin P
    <3>1. P \cap (1 .. n) = A
      BY <2>6
    <3> HIDE DEF A
    <3>2. Good(n)
      BY <2>1, <2>3, <2>6, <3>1
    <3> QED  BY <1>1, <3>2
  <2> QED  BY <2>5, <2>6
<1>3. 0 .. Len(s) \subseteq T
  <2> HIDE DEF T
  <2> QED  BY <1>1, <1>2, CountUp
<1>4. Len(s) \in T
  <2> HIDE DEF T
  <2> QED  BY <1>1, <1>3
<1> QED
  BY <1>4 DEF At
=============================================================================
