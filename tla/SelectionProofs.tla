---------------------------- MODULE SelectionProofs ----------------------------
(* What the operators of Selection return, for every sequence.  The proofs *)
(* are by induction over a set of numbers.                                 *)
EXTENDS Selection, SequencesExt, WellFoundedInduction, SequenceTheorems, FiniteSetTheorems, TLAPS

-----------------------------------------------------------------------------
(* Induction. *)

(* A set of numbers that is not empty has a least one.                     *)
LEMMA Least ==
  ASSUME NEW T \in SUBSET Nat, T # {}
  PROVE  \E m \in T : \A k \in T : m <= k
<1>1. IsWellFoundedOn(OpToRel(<, Nat), Nat)
  BY NatLessThanWellFounded
<1>2. PICK m \in T : \A k \in T : ~(<<k, m>> \in OpToRel(<, Nat))
  BY <1>1, WFMin
<1>3. \A k \in T : ~(k < m)
  BY <1>2 DEF OpToRel
<1>4. QED
  BY <1>3

(* Induction over the numbers of a set of which 0 is one, and the next of each. *)
LEMMA UpTo ==
  ASSUME NEW N \in Nat, NEW Good, 0 \in Good, \A n \in 1..N : n - 1 \in Good => n \in Good
  PROVE  0..N \subseteq Good
<1> DEFINE T == (0..N) \ Good
<1>1. SUFFICES ASSUME T # {} PROVE FALSE
  OBVIOUS
<1>2. PICK m \in T : \A k \in T : m <= k
  <2>1. T \in SUBSET Nat
    OBVIOUS
  <2>2. QED
    BY <1>1, <2>1, Least
<1>3. m \in 1..N /\ m - 1 \in 0..N /\ ~(m <= m - 1)
  OBVIOUS
<1>4. m - 1 \notin T
  BY <1>2, <1>3
<1>5. QED
  BY <1>2, <1>3, <1>4

(* A recursion over the first N numbers, each from the one before, has a   *)
(* solution, and no other.                                                 *)
Steps(N, V) == [1..N -> [V -> V]]
Iteration(f, N, V, a, step) ==
  f \in [0..N -> V] /\ f[0] = a /\ \A n \in 1..N : f[n] = step[n][f[n - 1]]

LEMMA Iterates ==
  ASSUME NEW N \in Nat, NEW V, NEW a \in V, NEW step \in Steps(N, V)
  PROVE  \E f : Iteration(f, N, V, a, step)
<1> USE DEF Steps, Iteration
<1> DEFINE Good == {n \in 0..N : \E f \in [0..n -> V] :
                                  f[0] = a /\ \A k \in 1..n : f[k] = step[k][f[k - 1]]}
<1>1. 0 \in Good
  <2> DEFINE f == [k \in 0..0 |-> a]
  <2>1. f \in [0..0 -> V] /\ f[0] = a /\ 0 \in 0..N /\ 1..0 = {}
    OBVIOUS
  <2> HIDE DEF f
  <2>2. QED
    BY <2>1
<1>2. ASSUME NEW n \in 1..N, n - 1 \in Good PROVE n \in Good
  <2>1. PICK f \in [0..(n - 1) -> V] : f[0] = a /\ \A k \in 1..(n - 1) : f[k] = step[k][f[k - 1]]
    BY <1>2
  <2> DEFINE t == step[n][f[n - 1]]
             g == [k \in 0..n |-> IF k = n THEN t ELSE f[k]]
  <2>2. n \in Nat /\ n # 0 /\ n - 1 \in 0..(n - 1) /\ \A k \in 0..n : k # n => k \in 0..(n - 1)
    OBVIOUS
  <2>3. t \in V
    BY <2>1, <2>2
  <2> HIDE DEF t
  <2>4. g \in [0..n -> V]
    BY <2>1, <2>2, <2>3
  <2>5. g[0] = a /\ g[n] = t /\ \A k \in 0..(n - 1) : g[k] = f[k]
    BY <2>1, <2>2
  <2> HIDE DEF g
  <2>6. ASSUME NEW k \in 1..n PROVE g[k] = step[k][g[k - 1]]
    <3>1. CASE k = n
      BY <2>2, <2>5, <3>1 DEF t
    <3>2. CASE k # n
      <4>1. k \in 1..(n - 1) /\ k \in 0..(n - 1) /\ k - 1 \in 0..(n - 1)
        BY <2>2, <3>2
      <4>2. QED
        BY <2>1, <2>5, <4>1
    <3>3. QED
      BY <3>1, <3>2
  <2>7. n \in 0..N
    OBVIOUS
  <2>8. QED
    BY <2>4, <2>5, <2>6, <2>7
<1>3. N \in Good
  <2>1. N \in 0..N
    OBVIOUS
  <2> HIDE DEF Good
  <2>2. QED
    BY <1>1, <1>2, <2>1, UpTo
<1>4. QED
  BY <1>3

LEMMA OneIteration ==
  ASSUME NEW N \in Nat, NEW f, NEW g, f[0] = g[0],
         \A n \in 1..N : f[n - 1] = g[n - 1] => f[n] = g[n]
  PROVE  \A n \in 0..N : f[n] = g[n]
<1> DEFINE Good == {n \in 0..N : f[n] = g[n]}
<1>1. 0 \in Good /\ \A n \in 1..N : n - 1 \in Good => n \in Good
  OBVIOUS
<1>2. 0..N \subseteq Good
  <2> HIDE DEF Good
  <2>1. QED
    BY <1>1, UpTo
<1>3. QED
  BY <1>2

-----------------------------------------------------------------------------
(* Joined. *)

(* The recursive definition has a solution. *)
Grows(f, ss, n) == f[n] = f[n - 1] \o ss[n]

LEMMA JoinedSteps ==
  ASSUME NEW S, NEW ss \in Seq(Seq(S))
  PROVE  \E f \in [0..Len(ss) -> Seq(S)] :
           /\ f[0] = <<>> /\ (\A n \in 1..Len(ss) : Grows(f, ss, n))
           /\ Joined(ss) = f[Len(ss)]
<1> DEFINE N == Len(ss)
           Upto(n) == \E f \in [0..n -> Seq(S)] : f[0] = <<>> /\ \A k \in 1..n : Grows(f, ss, k)
           Good == {n \in 0..N : Upto(n)}
<1>1. N \in Nat /\ \A n \in 1..N : ss[n] \in Seq(S)
  BY LenProperties, ElementOfSeq
<1> HIDE DEF N
<1>2. 0 \in Good
  <2> DEFINE f == [k \in 0..0 |-> <<>>]
  <2>1. f \in [0..0 -> Seq(S)] /\ f[0] = <<>>
    OBVIOUS
  <2>2. \A k \in 1..0 : Grows(f, ss, k)
    OBVIOUS
  <2> HIDE DEF f
  <2>3. QED
    BY <1>1, <2>1, <2>2
<1>3. ASSUME NEW n \in 1..N, n - 1 \in Good PROVE n \in Good
  <2>1. PICK f \in [0..(n - 1) -> Seq(S)] : f[0] = <<>> /\ \A k \in 1..(n - 1) : Grows(f, ss, k)
    BY <1>3
  <2> DEFINE t == f[n - 1] \o ss[n]
             g == [k \in 0..n |-> IF k = n THEN t ELSE f[k]]
  <2>2. n \in Nat /\ n # 0 /\ n - 1 \in 0..(n - 1) /\ \A k \in 0..n : k # n => k \in 0..(n - 1)
    BY <1>1
  <2>3. f[n - 1] \in Seq(S) /\ ss[n] \in Seq(S)
    BY <1>1, <2>1, <2>2
  <2>4. t \in Seq(S)
    BY <2>3
  <2> HIDE DEF t
  <2>5. g \in [0..n -> Seq(S)]
    BY <2>1, <2>2, <2>4
  <2>6. g[0] = <<>> /\ g[n] = t /\ \A k \in 0..(n - 1) : g[k] = f[k]
    BY <2>1, <2>2
  <2> HIDE DEF g
  <2>7. ASSUME NEW k \in 1..n PROVE Grows(g, ss, k)
    <3>1. CASE k = n
      BY <2>2, <2>6, <3>1 DEF Grows, t
    <3>2. CASE k # n
      <4>1. k \in 1..(n - 1) /\ k \in 0..(n - 1) /\ k - 1 \in 0..(n - 1)
        BY <2>2, <3>2
      <4>2. QED
        BY <2>1, <2>6, <4>1 DEF Grows
    <3>3. QED
      BY <3>1, <3>2
  <2>8. n \in 0..N
    BY <1>1
  <2>9. QED
    BY <2>5, <2>6, <2>7, <2>8
<1>4. N \in Good
  <2>1. 0..N \subseteq Good
    <3> HIDE DEF Good
    <3>1. QED
      BY <1>1, <1>2, <1>3, UpTo
  <2>2. N \in 0..N
    BY <1>1
  <2>3. QED
    BY <2>1, <2>2
<1>5. PICK f \in [0..N -> Seq(S)] : f[0] = <<>> /\ \A k \in 1..N : Grows(f, ss, k)
  BY <1>4
<1> DEFINE Solves(g) == g = [n \in 0..N |-> IF n = 0 THEN <<>>
                               ELSE g[n - 1] \o ss[n]]
<1>6. Solves(f)
  <2>1. \A n \in 0..N : f[n] = IF n = 0 THEN <<>>
                               ELSE f[n - 1] \o ss[n]
    <3>1. \A n \in 0..N : n # 0 => n \in 1..N
      BY <1>1
    <3>2. QED
      BY <1>5, <3>1 DEF Grows
  <2>2. QED
    BY <1>5, <2>1
<1> DEFINE g == CHOOSE g : Solves(g)
<1>7. Solves(g)
  BY <1>6
<1>8. Joined(ss) = g[N]
  BY DEF Joined, N
<1> HIDE DEF g
<1>9. g[0] = <<>> /\ \A n \in 1..N : Grows(g, ss, n)
  <2> SUFFICES g[0] = <<>> /\ \A n \in 1..N : g[n] = g[n - 1] \o ss[n]
    BY DEF Grows
  <2>1. 0 \in 0..N /\ \A n \in 1..N : n \in 0..N /\ n # 0
    BY <1>1
  <2>2. QED
    BY <1>7, <2>1
<1>10. g \in [0..N -> Seq(S)]
  <2> DEFINE Typed == {n \in 0..N : g[n] \in Seq(S)}
  <2>1. 0 \in Typed
    <3>1. 0 \in 0..N /\ <<>> \in Seq(S)
      BY <1>1
    <3>2. QED
      BY <1>9, <3>1
  <2>2. ASSUME NEW n \in 1..N, n - 1 \in Typed PROVE n \in Typed
    <3>1. n \in 0..N /\ ss[n] \in Seq(S) /\ g[n - 1] \in Seq(S)
      BY <1>1, <2>2
    <3>2. g[n - 1] \o ss[n] \in Seq(S)
      BY <3>1
    <3>3. g[n] \in Seq(S)
      BY <1>9, <3>1, <3>2 DEF Grows
    <3>4. QED
      BY <3>1, <3>3
  <2>3. 0..N \subseteq Typed
    <3> HIDE DEF Typed
    <3>1. QED
      BY <1>1, <2>1, <2>2, UpTo
  <2>4. g = [n \in 0..N |-> g[n]]
    BY <1>7
  <2>5. QED
    BY <2>3, <2>4
<1>11. QED
  BY <1>8, <1>9, <1>10 DEF N


-----------------------------------------------------------------------------
(* Taking: what it keeps, and in which order.                              *)

Step(f, s, I, n) == f[n] = IF n \in I THEN Append(f[n - 1], s[n]) ELSE f[n - 1]

LEMMA TakingSteps ==
  ASSUME NEW S, NEW s \in Seq(S), NEW I
  PROVE  \E f \in [0..Len(s) -> Seq(S)] :
           /\ f[0] = <<>> /\ (\A n \in 1..Len(s) : Step(f, s, I, n))
           /\ Taking(s, I) = f[Len(s)]
<1> DEFINE ss == [n \in 1..Len(s) |-> IF n \in I THEN <<s[n]>> ELSE <<>>]
<1>1. Len(s) \in Nat /\ \A n \in 1..Len(s) : s[n] \in S
  BY LenProperties, ElementOfSeq
<1>2. /\ ss \in Seq(Seq(S)) /\ Len(ss) = Len(s)
      /\ \A n \in 1..Len(s) : ss[n] = IF n \in I THEN <<s[n]>> ELSE <<>>
  <2>1. \A n \in 1..Len(s) : (IF n \in I THEN <<s[n]>> ELSE <<>>) \in Seq(S)
    BY <1>1
  <2>2. QED
    BY <1>1, <2>1
<1>3. Taking(s, I) = Joined(ss)
  BY DEF Taking
<1> HIDE DEF ss
<1>4. PICK f \in [0..Len(s) -> Seq(S)] :
        /\ f[0] = <<>> /\ \A n \in 1..Len(s) : Grows(f, ss, n)
        /\ Joined(ss) = f[Len(s)]
  BY <1>2, JoinedSteps
<1>5. ASSUME NEW n \in 1..Len(s) PROVE Step(f, s, I, n)
  <2>0. n - 1 \in 0..Len(s) /\ Grows(f, ss, n)
    BY <1>1, <1>4
  <2>1. f[n - 1] \in Seq(S) /\ s[n] \in S /\ f[n] = f[n - 1] \o ss[n]
    BY <1>1, <1>4, <2>0 DEF Grows
  <2>2. /\ Append(f[n - 1], s[n]) = f[n - 1] \o <<s[n]>>
        /\ f[n - 1] \o <<>> = f[n - 1]
    BY <2>1, AppendIsConcat, ConcatEmptySeq
  <2>3. QED
    BY <1>2, <2>1, <2>2 DEF Step
<1>6. QED
  BY <1>3, <1>4, <1>5

(* What is taken is at those places, all of it, and in their order.        *)
Fine(t, s, I, n) ==
    /\ \A i \in DOMAIN t : \E a \in 1..n : a \in I /\ t[i] = s[a]
    /\ \A a \in 1..n : a \in I => \E i \in DOMAIN t : t[i] = s[a]
    /\ \A i, j \in DOMAIN t : i < j => \E a, b \in 1..n : a < b /\ t[i] = s[a] /\ t[j] = s[b]

LEMMA OneMore ==
    ASSUME NEW S, NEW t \in Seq(S), NEW s, NEW I, NEW n \in Nat \ {0}, s[n] \in S, Fine(t, s, I, n - 1)
    PROVE  /\ n \in I => Fine(Append(t, s[n]), s, I, n)
           /\ n \notin I => Fine(t, s, I, n)
<1>1. \A a \in 1..(n - 1) : a \in 1..n /\ a < n
  OBVIOUS
<1>2. \A a \in 1..n : a \in 1..(n - 1) \/ a = n
  OBVIOUS
<1>3. n \notin I => Fine(t, s, I, n)
  BY <1>1, <1>2 DEF Fine
<1>4. ASSUME n \in I PROVE Fine(Append(t, s[n]), s, I, n)
  <2> DEFINE u == Append(t, s[n])
             m == Len(t) + 1
  <2>1. /\ DOMAIN t = 1..Len(t) /\ Len(t) \in Nat /\ DOMAIN u = 1..m
        /\ u[m] = s[n] /\ \A i \in 1..Len(t) : u[i] = t[i]
    BY AppendProperties, LenProperties
  <2>2. \A i \in DOMAIN u : (i \in DOMAIN t /\ u[i] = t[i]) \/ (i = m /\ u[i] = s[n])
    BY <2>1
  <2>3. /\ \A i \in DOMAIN t : i \in DOMAIN u /\ u[i] = t[i] /\ ~(m < i)
        /\ m \in DOMAIN u /\ u[m] = s[n] /\ n \in 1..n /\ ~(m < m)
    BY <2>1
  <2> HIDE DEF u, m
  <2>4. \A i \in DOMAIN u : \E a \in 1..n : a \in I /\ u[i] = s[a]
    BY <1>1, <1>4, <2>2, <2>3 DEF Fine
  <2>5. \A a \in 1..n : a \in I => \E i \in DOMAIN u : u[i] = s[a]
    <3> SUFFICES ASSUME NEW a \in 1..n, a \in I PROVE \E i \in DOMAIN u : u[i] = s[a]
      OBVIOUS
    <3>1. CASE a = n
      BY <2>3, <3>1
    <3>2. CASE a # n
      <4>1. PICK i \in DOMAIN t : t[i] = s[a]
        BY <1>2, <3>2 DEF Fine
      <4>2. QED
        BY <2>3, <4>1
    <3>3. QED
      BY <3>1, <3>2
  <2>6. ASSUME NEW i \in DOMAIN u, NEW j \in DOMAIN u, i < j
        PROVE  \E a, b \in 1..n : a < b /\ u[i] = s[a] /\ u[j] = s[b]
    <3>1. i \in DOMAIN t /\ u[i] = t[i]
      BY <2>2, <2>3, <2>6
    <3>2. CASE j \in DOMAIN t /\ u[j] = t[j]
      <4>1. PICK a \in 1..(n - 1), b \in 1..(n - 1) : a < b /\ t[i] = s[a] /\ t[j] = s[b]
        BY <2>6, <3>1, <3>2 DEF Fine
      <4>2. QED
        BY <1>1, <3>1, <3>2, <4>1
    <3>3. CASE j = m /\ u[j] = s[n]
      <4>1. PICK a \in 1..(n - 1) : t[i] = s[a]
        BY <3>1 DEF Fine
      <4>2. QED
        BY <1>1, <2>3, <3>1, <3>3, <4>1
    <3>4. QED
      BY <2>2, <3>2, <3>3
  <2>7. QED
    BY <2>4, <2>5, <2>6 DEF Fine, u
<1>5. QED
  BY <1>3, <1>4

LEMMA WhatIsTaken ==
    ASSUME NEW S, NEW s \in Seq(S), NEW I
    PROVE  Taking(s, I) \in Seq(S) /\ Fine(Taking(s, I), s, I, Len(s))
<1>1. Len(s) \in Nat /\ \A n \in 1..Len(s) : s[n] \in S
  BY LenProperties, ElementOfSeq
<1>2. PICK f \in [0..Len(s) -> Seq(S)] :
        /\ f[0] = <<>> /\ \A n \in 1..Len(s) : Step(f, s, I, n)
        /\ Taking(s, I) = f[Len(s)]
  BY TakingSteps
<1> DEFINE Good == {n \in 0..Len(s) : Fine(f[n], s, I, n)}
<1>3. 0 \in Good
  <2>1. DOMAIN <<>> = {} /\ 0 \in 0..Len(s) /\ 1..0 = {}
    BY <1>1
  <2>2. Fine(<<>>, s, I, 0)
    BY <2>1 DEF Fine
  <2>3. QED
    BY <1>2, <2>1, <2>2
<1>4. ASSUME NEW n \in 1..Len(s), n - 1 \in Good PROVE n \in Good
  <2>1. n \in Nat \ {0} /\ n \in 0..Len(s) /\ s[n] \in S /\ n - 1 \in 0..Len(s)
    BY <1>1
  <2>2. f[n - 1] \in Seq(S) /\ Fine(f[n - 1], s, I, n - 1)
    BY <1>2, <1>4, <2>1
  <2>3. /\ n \in I => Fine(Append(f[n - 1], s[n]), s, I, n)
        /\ n \notin I => Fine(f[n - 1], s, I, n)
    BY <2>1, <2>2, OneMore
  <2>4. f[n] = IF n \in I THEN Append(f[n - 1], s[n]) ELSE f[n - 1]
    BY <1>2 DEF Step
  <2>5. QED
    BY <2>1, <2>3, <2>4
<1>5. 0..Len(s) \subseteq Good
  <2> HIDE DEF Good
  <2>1. QED
    BY <1>1, <1>3, <1>4, UpTo
<1>6. Len(s) \in 0..Len(s)
  BY <1>1
<1>7. QED
  BY <1>2, <1>5, <1>6

LEMMA TakenFrom ==
    ASSUME NEW S, NEW s \in Seq(S), NEW I, I \subseteq DOMAIN s
    PROVE  /\ Taking(s, I) \in Seq(S)
           /\ ToSet(Taking(s, I)) = {s[a] : a \in I}
<1> DEFINE t == Taking(s, I)
<1>1. t \in Seq(S) /\ Fine(t, s, I, Len(s))
  BY WhatIsTaken
<1>2. DOMAIN s = 1..Len(s)
  BY LenProperties
<1> HIDE DEF t
<1>3. \A i \in DOMAIN t : \E a \in I : t[i] = s[a]
  BY <1>1 DEF Fine
<1>4. \A a \in I : \E i \in DOMAIN t : t[i] = s[a]
  BY <1>1, <1>2 DEF Fine
<1>5. ToSet(t) = {s[a] : a \in I}
  BY <1>3, <1>4 DEF ToSet
<1>6. QED
  BY <1>1, <1>5 DEF t

-----------------------------------------------------------------------------
(* No two elements of t are alike for g. *)
Apart(t, g) == \A i, j \in DOMAIN t : i # j => g[t[i]] # g[t[j]]

LEMMA TakenApart ==
    ASSUME NEW S, NEW s \in Seq(S), NEW I, NEW g, Apart(s, g)
    PROVE  Apart(Taking(s, I), g)
<1> DEFINE t == Taking(s, I)
<1>1. t \in Seq(S) /\ Fine(t, s, I, Len(s))
  BY WhatIsTaken
<1>2. DOMAIN s = 1..Len(s) /\ DOMAIN t = 1..Len(t) /\ Len(t) \in Nat /\ Len(s) \in Nat
  BY <1>1, LenProperties
<1> HIDE DEF t
<1>3. ASSUME NEW i \in DOMAIN t, NEW j \in DOMAIN t, i < j PROVE g[t[i]] # g[t[j]]
  <2>1. PICK a \in 1..Len(s), b \in 1..Len(s) : a < b /\ t[i] = s[a] /\ t[j] = s[b]
    BY <1>1, <1>3 DEF Fine
  <2>2. a # b
    BY <2>1
  <2>3. QED
    BY <1>2, <2>1, <2>2 DEF Apart
<1>4. \A i, j \in DOMAIN t : i # j => i < j \/ j < i
  BY <1>2
<1>5. Apart(t, g)
  BY <1>3, <1>4 DEF Apart
<1>6. QED
  BY <1>5 DEF t

LEMMA Concatenated ==
    ASSUME NEW S, NEW t \in Seq(S), NEW u \in Seq(S)
    PROVE  /\ DOMAIN (t \o u) = 1..(Len(t) + Len(u))
           /\ Len(t) \in Nat /\ Len(u) \in Nat
           /\ \A i \in DOMAIN (t \o u) :
                \/ i \in DOMAIN t /\ (t \o u)[i] = t[i]
                \/ i > Len(t) /\ i - Len(t) \in DOMAIN u /\ (t \o u)[i] = u[i - Len(t)]
           /\ \A i \in DOMAIN t : i \in DOMAIN (t \o u) /\ (t \o u)[i] = t[i]
           /\ \A i \in DOMAIN u : Len(t) + i \in DOMAIN (t \o u) /\ (t \o u)[Len(t) + i] = u[i]
<1> DEFINE v == t \o u
<1>1. /\ v \in Seq(S) /\ Len(v) = Len(t) + Len(u)
      /\ \A i \in 1..(Len(t) + Len(u)) : v[i] = IF i <= Len(t) THEN t[i] ELSE u[i - Len(t)]
  BY ConcatProperties
<1> HIDE DEF v
<1>2. /\ DOMAIN t = 1..Len(t) /\ DOMAIN u = 1..Len(u) /\ DOMAIN v = 1..(Len(t) + Len(u))
      /\ Len(t) \in Nat /\ Len(u) \in Nat
  BY <1>1, LenProperties
<1>3. \A i \in DOMAIN v :
         \/ i \in DOMAIN t /\ v[i] = t[i]
         \/ i > Len(t) /\ i - Len(t) \in DOMAIN u /\ v[i] = u[i - Len(t)]
  BY <1>1, <1>2
<1>4. \A i \in DOMAIN t : i \in DOMAIN v /\ v[i] = t[i]
  BY <1>1, <1>2
<1>5. \A i \in DOMAIN u : Len(t) + i \in DOMAIN v /\ v[Len(t) + i] = u[i]
  BY <1>1, <1>2
<1>6. QED
  BY <1>2, <1>3, <1>4, <1>5 DEF v

LEMMA ConcatenatedSet ==
    ASSUME NEW S, NEW t \in Seq(S), NEW u \in Seq(S)
    PROVE  ToSet(t \o u) = ToSet(t) \cup ToSet(u)
<1> DEFINE v == t \o u
<1>1. /\ \A i \in DOMAIN v : \/ i \in DOMAIN t /\ v[i] = t[i]
                             \/ i - Len(t) \in DOMAIN u /\ v[i] = u[i - Len(t)]
      /\ \A i \in DOMAIN t : i \in DOMAIN v /\ v[i] = t[i]
      /\ \A i \in DOMAIN u : Len(t) + i \in DOMAIN v /\ v[Len(t) + i] = u[i]
  BY Concatenated
<1> HIDE DEF v
<1>2. ToSet(v) \subseteq ToSet(t) \cup ToSet(u)
  BY <1>1 DEF ToSet
<1>3. ToSet(t) \subseteq ToSet(v)
  BY <1>1 DEF ToSet
<1>4. ToSet(u) \subseteq ToSet(v)
  BY <1>1 DEF ToSet
<1>5. QED
  BY <1>2, <1>3, <1>4 DEF v

LEMMA ConcatenatedApart ==
    ASSUME NEW S, NEW t \in Seq(S), NEW u \in Seq(S), NEW g, Apart(t, g), Apart(u, g),
           \A x \in ToSet(t), y \in ToSet(u) : g[x] # g[y]
    PROVE  Apart(t \o u, g)
<1> DEFINE v == t \o u
<1>1. /\ DOMAIN v = 1..(Len(t) + Len(u)) /\ Len(t) \in Nat /\ Len(u) \in Nat
      /\ \A i \in DOMAIN v : \/ i \in DOMAIN t /\ v[i] = t[i]
                             \/ i > Len(t) /\ i - Len(t) \in DOMAIN u /\ v[i] = u[i - Len(t)]
  BY Concatenated
<1> HIDE DEF v
<1>2. \A i \in DOMAIN t, j \in DOMAIN u : g[t[i]] # g[u[j]]
  BY DEF ToSet
<1>3. ASSUME NEW i \in DOMAIN v, NEW j \in DOMAIN v, i # j PROVE g[v[i]] # g[v[j]]
  <2>1. CASE i \in DOMAIN t /\ v[i] = t[i] /\ j \in DOMAIN t /\ v[j] = t[j]
    BY <1>3, <2>1 DEF Apart
  <2>2. CASE i \in DOMAIN t /\ v[i] = t[i] /\ j - Len(t) \in DOMAIN u /\ v[j] = u[j - Len(t)]
    BY <1>2, <2>2
  <2>3. CASE j \in DOMAIN t /\ v[j] = t[j] /\ i - Len(t) \in DOMAIN u /\ v[i] = u[i - Len(t)]
    BY <1>2, <2>3
  <2>4. CASE /\ i - Len(t) \in DOMAIN u /\ v[i] = u[i - Len(t)]
             /\ j - Len(t) \in DOMAIN u /\ v[j] = u[j - Len(t)]
    <3>1. i - Len(t) # j - Len(t)
      BY <1>1, <1>3
    <3>2. QED
      BY <2>4, <3>1 DEF Apart
  <2>5. QED
    BY <1>1, <2>1, <2>2, <2>3, <2>4
<1>4. Apart(v, g)
  BY <1>3 DEF Apart
<1>5. QED
  BY <1>4 DEF v

-----------------------------------------------------------------------------
(* What is joined is in one of the parts, and in their order.              *)
Holds(t, ss, n) == \A x : x \in ToSet(t) <=> \E k \in 1..n : x \in ToSet(ss[k])

LEMMA WhatIsJoined ==
    ASSUME NEW S, NEW ss \in Seq(Seq(S))
    PROVE  Joined(ss) \in Seq(S) /\ Holds(Joined(ss), ss, Len(ss))
<1>1. Len(ss) \in Nat /\ \A n \in 1..Len(ss) : ss[n] \in Seq(S)
  BY LenProperties, ElementOfSeq
<1>2. PICK f \in [0..Len(ss) -> Seq(S)] :
        /\ f[0] = <<>> /\ \A n \in 1..Len(ss) : Grows(f, ss, n)
        /\ Joined(ss) = f[Len(ss)]
  BY JoinedSteps
<1> DEFINE Good == {n \in 0..Len(ss) : Holds(f[n], ss, n)}
<1>3. 0 \in Good
  <2>1. DOMAIN <<>> = {} /\ 0 \in 0..Len(ss) /\ 1..0 = {}
    BY <1>1
  <2>2. Holds(<<>>, ss, 0)
    BY <2>1 DEF Holds, ToSet
  <2>3. QED
    BY <1>2, <2>1, <2>2
<1>4. ASSUME NEW n \in 1..Len(ss), n - 1 \in Good PROVE n \in Good
  <2>1. n \in 0..Len(ss) /\ n - 1 \in 0..Len(ss) /\ \A k \in 1..n : k \in 1..(n - 1) \/ k = n
    BY <1>1
  <2>2. \A k \in 1..(n - 1) : k \in 1..n
    BY <1>1
  <2>g. Grows(f, ss, n) /\ f[n - 1] \in Seq(S)
    BY <1>2, <2>1
  <2>3. f[n - 1] \in Seq(S) /\ ss[n] \in Seq(S) /\ f[n] = f[n - 1] \o ss[n] /\ n \in 1..n
    BY <1>1, <2>g DEF Grows
  <2>4. ToSet(f[n]) = ToSet(f[n - 1]) \cup ToSet(ss[n])
    BY <2>3, ConcatenatedSet
  <2>5. Holds(f[n - 1], ss, n - 1)
    BY <1>4
  <2>6. Holds(f[n], ss, n)
    BY <2>1, <2>2, <2>3, <2>4, <2>5 DEF Holds
  <2>7. QED
    BY <2>1, <2>6
<1>5. 0..Len(ss) \subseteq Good
  <2> HIDE DEF Good
  <2>1. QED
    BY <1>1, <1>3, <1>4, UpTo
<1>6. Len(ss) \in 0..Len(ss)
  BY <1>1
<1>7. QED
  BY <1>2, <1>5, <1>6

LEMMA JoinedApart ==
    ASSUME NEW S, NEW ss \in Seq(Seq(S)), NEW g, \A n \in 1..Len(ss) : Apart(ss[n], g),
           \A k, n \in 1..Len(ss) : k < n => \A x \in ToSet(ss[k]), y \in ToSet(ss[n]) : g[x] # g[y]
    PROVE  Apart(Joined(ss), g)
<1>1. Len(ss) \in Nat /\ \A n \in 1..Len(ss) : ss[n] \in Seq(S)
  BY LenProperties, ElementOfSeq
<1>2. PICK f \in [0..Len(ss) -> Seq(S)] :
        /\ f[0] = <<>> /\ \A n \in 1..Len(ss) : Grows(f, ss, n)
        /\ Joined(ss) = f[Len(ss)]
  BY JoinedSteps
<1> DEFINE Good == {n \in 0..Len(ss) : Holds(f[n], ss, n) /\ Apart(f[n], g)}
<1>3. 0 \in Good
  <2>1. DOMAIN <<>> = {} /\ 0 \in 0..Len(ss) /\ 1..0 = {}
    BY <1>1
  <2>2. Holds(<<>>, ss, 0) /\ Apart(<<>>, g)
    BY <2>1 DEF Holds, ToSet, Apart
  <2>3. QED
    BY <1>2, <2>1, <2>2
<1>4. ASSUME NEW n \in 1..Len(ss), n - 1 \in Good PROVE n \in Good
  <2>1. n \in 0..Len(ss) /\ n - 1 \in 0..Len(ss) /\ \A k \in 1..n : k \in 1..(n - 1) \/ k = n
    BY <1>1
  <2>2. \A k \in 1..(n - 1) : k \in 1..n /\ k \in 1..Len(ss) /\ k < n
    BY <1>1
  <2>g. Grows(f, ss, n) /\ f[n - 1] \in Seq(S)
    BY <1>2, <2>1
  <2>3. f[n - 1] \in Seq(S) /\ ss[n] \in Seq(S) /\ f[n] = f[n - 1] \o ss[n] /\ n \in 1..n
    BY <1>1, <2>g DEF Grows
  <2>4. ToSet(f[n]) = ToSet(f[n - 1]) \cup ToSet(ss[n])
    BY <2>3, ConcatenatedSet
  <2>5. Holds(f[n - 1], ss, n - 1) /\ Apart(f[n - 1], g)
    BY <1>4
  <2>6. Holds(f[n], ss, n)
    BY <2>1, <2>2, <2>3, <2>4, <2>5 DEF Holds
  <2>7. \A x \in ToSet(f[n - 1]), y \in ToSet(ss[n]) : g[x] # g[y]
    BY <2>2, <2>5 DEF Holds
  <2>8. Apart(f[n], g)
    BY <2>3, <2>5, <2>7, ConcatenatedApart
  <2>9. QED
    BY <2>1, <2>6, <2>8
<1>5. 0..Len(ss) \subseteq Good
  <2> HIDE DEF Good
  <2>1. QED
    BY <1>1, <1>3, <1>4, UpTo
<1>6. Len(ss) \in 0..Len(ss)
  BY <1>1
<1>7. QED
  BY <1>2, <1>5, <1>6

-----------------------------------------------------------------------------
(* Sorting keeps all there is. *)

LEMMA WhatIsSorted ==
    ASSUME NEW S, NEW s \in Seq(S), NEW N \in Nat, NEW key \in [DOMAIN s -> 1..N]
    PROVE  /\ Sorted(s, key, N) \in Seq(S)
           /\ ToSet(Sorted(s, key, N)) = ToSet(s)
           /\ \A g : Apart(s, g) => Apart(Sorted(s, key, N), g)
<1> DEFINE At(k) == {i \in DOMAIN s : key[i] = k}
           ss == [k \in 1..N |-> Taking(s, At(k))]
<1>1. \A k \in 1..N : Taking(s, At(k)) \in Seq(S) /\ ToSet(Taking(s, At(k))) = {s[a] : a \in At(k)}
  BY TakenFrom
<1>2. Sorted(s, key, N) = Joined(ss)
  BY DEF Sorted
<1>3. ss \in Seq(Seq(S)) /\ Len(ss) = N /\ \A k \in 1..N : ss[k] = Taking(s, At(k))
  BY <1>1
<1>a. \A k, a : a \in At(k) <=> a \in DOMAIN s /\ key[a] = k
  OBVIOUS
<1> HIDE DEF ss, At
<1>4. Joined(ss) \in Seq(S) /\ Holds(Joined(ss), ss, N)
  BY <1>3, WhatIsJoined
<1>5. \A k \in 1..N : ToSet(ss[k]) = {s[a] : a \in At(k)}
  BY <1>1, <1>3
<1>b. ASSUME NEW k \in 1..N, NEW x \in ToSet(ss[k])
      PROVE  \E a \in DOMAIN s : key[a] = k /\ x = s[a]
  <2>1. x \in {s[a] : a \in At(k)}
    BY <1>5, <1>b
  <2>2. PICK a \in At(k) : x = s[a]
    BY <2>1
  <2>3. QED
    BY <1>a, <2>2
<1>6. ToSet(Joined(ss)) = ToSet(s)
  <2>1. \A x \in ToSet(s) : \E k \in 1..N : x \in ToSet(ss[k])
    <3>1. \A a \in DOMAIN s : key[a] \in 1..N /\ a \in At(key[a])
      BY <1>a
    <3>2. \A a \in DOMAIN s : s[a] \in ToSet(ss[key[a]])
      BY <1>5, <3>1
    <3>3. QED
      BY <3>1, <3>2 DEF ToSet
  <2>2. \A k \in 1..N : ToSet(ss[k]) \subseteq ToSet(s)
    BY <1>b DEF ToSet
  <2>3. QED
    BY <1>4, <2>1, <2>2 DEF Holds
<1>7. ASSUME NEW g, Apart(s, g) PROVE Apart(Joined(ss), g)
  <2>1. \A k \in 1..N : Apart(ss[k], g)
    <3>1. \A k \in 1..N : Apart(Taking(s, At(k)), g)
      BY <1>7, TakenApart
    <3>2. QED
      BY <1>3, <3>1
  <2>2. ASSUME NEW k \in 1..N, NEW n \in 1..N, k < n, NEW x \in ToSet(ss[k]), NEW y \in ToSet(ss[n])
        PROVE  g[x] # g[y]
    <3>1. PICK a \in DOMAIN s, b \in DOMAIN s : key[a] = k /\ key[b] = n /\ x = s[a] /\ y = s[b]
      BY <1>b, <2>2
    <3>2. a # b
      BY <2>2, <3>1
    <3>3. QED
      BY <1>7, <3>1, <3>2 DEF Apart
  <2>3. QED
    BY <1>3, <2>1, <2>2, JoinedApart
<1>8. QED
  BY <1>2, <1>4, <1>6, <1>7

-----------------------------------------------------------------------------
(* A finite set in some order. *)
LEMMA EnFila ==
  ASSUME NEW S, IsFiniteSet(S)
  PROVE  LET s == SetToSeq(S)
         IN  /\ s \in [1..Cardinality(S) -> S] /\ Len(s) = Cardinality(S) /\ Cardinality(S) \in Nat
             /\ \A i, j \in 1..Cardinality(S) : s[i] = s[j] => i = j
             /\ S = {s[i] : i \in 1..Cardinality(S)}
<1> DEFINE N == Cardinality(S)
           s == SetToSeq(S)
<1>1. N \in Nat /\ ExistsBijection(1..N, S)
  BY FS_CardinalityType
<1>2. \E f \in [1..N -> S] : IsInjective(f)
  BY <1>1 DEF ExistsBijection, Bijection, Injection
<1>3. s \in [1..N -> S] /\ IsInjective(s)
  BY <1>2 DEF SetToSeq
<1> HIDE DEF s
<1>4. s \in Injection(1..N, S)
  BY <1>3 DEF Injection
<1>5. IsFiniteSet(1..N) /\ Cardinality(1..N) = N
  <2> HIDE DEF N
  <2>1. QED
    BY <1>1, FS_Interval
<1>6. s \in Surjection(1..N, S)
  BY <1>4, <1>5, FS_Injection
<1>7. S = {s[i] : i \in 1..N}
  BY <1>3, <1>6 DEF Surjection
<1>8. Len(s) = N
  <2> HIDE DEF N
  <2>1. s \in Seq(S)
    BY <1>1, <1>3
  <2>2. QED
    BY <1>1, <1>3, <2>1, LenProperties
<1>9. QED
  BY <1>1, <1>3, <1>7, <1>8 DEF s, IsInjective

-----------------------------------------------------------------------------
(* Sums. *)

LEMMA AddedSteps ==
    ASSUME NEW N \in Nat, NEW f, \A i \in 1..N : f[i] \in Nat
    PROVE  /\ Added(f, 0) = 0
           /\ \A n \in 0..N : Added(f, n) \in Nat
           /\ \A n \in 1..N : Added(f, n) = Added(f, n - 1) + f[n]
<1> DEFINE step == [i \in 1..N |-> [v \in Nat |-> v + f[i]]]
<1>1. step \in Steps(N, Nat) /\ \A i \in 1..N, v \in Nat : step[i][v] = v + f[i]
  BY DEF Steps
<1> HIDE DEF step
<1>2. PICK F : Iteration(F, N, Nat, 0, step)
  BY <1>1, Iterates
<1>3. F \in [0..N -> Nat] /\ F[0] = 0 /\ \A n \in 1..N : F[n] = step[n][F[n - 1]]
  BY <1>2 DEF Iteration
<1>4. ASSUME NEW n \in 1..N PROVE n - 1 \in 0..N /\ n \in 0..N /\ F[n] = F[n - 1] + f[n]
  <2>1. n - 1 \in 0..N /\ n \in 0..N
    OBVIOUS
  <2>2. F[n - 1] \in Nat /\ F[n] = step[n][F[n - 1]]
    BY <1>3, <2>1
  <2>3. QED
    BY <1>1, <2>1, <2>2
<1>5. ASSUME NEW n \in 0..N PROVE Added(f, n) = F[n]
  <2> DEFINE Solves(g) == g = [i \in 0..n |-> IF i = 0 THEN 0 ELSE g[i - 1] + f[i]]
             g == CHOOSE g : Solves(g)
             h == [i \in 0..n |-> F[i]]
  <2>1. Added(f, n) = g[n]
    BY DEF Added
  <2>2. \A i \in 0..n : i \in 0..N /\ h[i] = F[i] /\ (i # 0 => i \in 1..N /\ i - 1 \in 0..n)
    OBVIOUS
  <2>3. \A i \in 0..n : h[i] = IF i = 0 THEN 0 ELSE h[i - 1] + f[i]
    BY <1>3, <1>4, <2>2
  <2>4. Solves(h)
    BY <2>3
  <2>5. Solves(g)
    BY <2>4
  <2> HIDE DEF g, h
  <2>6. g[0] = h[0] /\ \A i \in 1..n : g[i - 1] = h[i - 1] => g[i] = h[i]
    <3>1. 0 \in 0..n /\ \A i \in 1..n : i \in 0..n /\ i # 0
      OBVIOUS
    <3>2. QED
      BY <2>4, <2>5, <3>1
  <2>7. n \in 0..n /\ n \in Nat
    OBVIOUS
  <2> HIDE DEF Solves
  <2>8. g[n] = h[n]
    BY <2>6, <2>7, OneIteration
  <2>9. QED
    BY <2>1, <2>2, <2>7, <2>8
<1>6. Added(f, 0) = 0
  BY <1>3, <1>5
<1>7. ASSUME NEW n \in 0..N PROVE Added(f, n) \in Nat
  BY <1>3, <1>5
<1>8. ASSUME NEW n \in 1..N PROVE Added(f, n) = Added(f, n - 1) + f[n]
  <2>1. Added(f, n) = F[n] /\ Added(f, n - 1) = F[n - 1]
    BY <1>4, <1>5
  <2>2. QED
    BY <1>4, <2>1
<1>9. QED
  BY <1>6, <1>7, <1>8

LEMMA AddedAlike ==
    ASSUME NEW N \in Nat, NEW f, NEW g, \A i \in 1..N : f[i] \in Nat /\ g[i] = f[i]
    PROVE  \A n \in 0..N : Added(g, n) = Added(f, n)
<1> DEFINE Good == {n \in 0..N : Added(g, n) = Added(f, n)}
<1>1. /\ Added(f, 0) = 0 /\ Added(g, 0) = 0
      /\ \A n \in 1..N : Added(f, n) = Added(f, n - 1) + f[n] /\ Added(g, n) = Added(g, n - 1) + g[n]
  BY AddedSteps
<1>2. 0 \in Good /\ \A n \in 1..N : n - 1 \in Good => n \in Good
  BY <1>1
<1>3. 0..N \subseteq Good
  <2> HIDE DEF Good
  <2>1. QED
    BY <1>2, UpTo
<1>4. QED
  BY <1>3

LEMMA AddedNothing ==
    ASSUME NEW N \in Nat, NEW f, \A i \in 1..N : f[i] = 0
    PROVE  Added(f, N) = 0
<1> DEFINE Good == {n \in 0..N : Added(f, n) = 0}
<1>1. Added(f, 0) = 0 /\ \A n \in 1..N : Added(f, n) = Added(f, n - 1) + f[n]
  BY AddedSteps
<1>2. 0 \in Good /\ \A n \in 1..N : n - 1 \in Good => n \in Good
  BY <1>1
<1>3. 0..N \subseteq Good
  <2> HIDE DEF Good
  <2>1. QED
    BY <1>2, UpTo
<1>4. QED
  BY <1>3

-----------------------------------------------------------------------------
(* A list with one element for every key. *)

LEMMA TakenOne ==
    ASSUME NEW S, NEW s \in Seq(S), NEW p \in DOMAIN s, NEW I, \A i \in DOMAIN s : i \in I <=> i = p
    PROVE  Taking(s, I) = <<s[p]>>
<1>1. Len(s) \in Nat /\ DOMAIN s = 1..Len(s) /\ s[p] \in S
  BY LenProperties, ElementOfSeq
<1>2. PICK f \in [0..Len(s) -> Seq(S)] :
        /\ f[0] = <<>> /\ \A n \in 1..Len(s) : Step(f, s, I, n)
        /\ Taking(s, I) = f[Len(s)]
  BY TakingSteps
<1> DEFINE Good == {n \in 0..Len(s) : f[n] = IF n < p THEN <<>> ELSE <<s[p]>>}
<1>3. 0 \in Good
  BY <1>1, <1>2
<1>4. ASSUME NEW n \in 1..Len(s), n - 1 \in Good PROVE n \in Good
  <2>1. f[n] = IF n = p THEN Append(f[n - 1], s[n]) ELSE f[n - 1]
    BY <1>1, <1>2 DEF Step
  <2>2. f[n - 1] = IF n - 1 < p THEN <<>> ELSE <<s[p]>>
    BY <1>4
  <2>3. CASE n = p
    <3>0. f[n - 1] = <<>>
      BY <1>1, <2>2, <2>3
    <3>1. f[n] = Append(<<>>, s[p])
      BY <2>1, <2>3, <3>0
    <3>2. Append(<<>>, s[p]) = <<s[p]>>
      OBVIOUS
    <3>3. QED
      BY <1>1, <2>3, <3>1, <3>2
  <2>4. CASE n # p
    BY <1>1, <2>1, <2>2, <2>4
  <2>5. QED
    BY <2>3, <2>4
<1>5. Len(s) \in Good
  <2>1. Len(s) \in 0..Len(s)
    BY <1>1
  <2> HIDE DEF Good
  <2>2. QED
    BY <1>1, <1>3, <1>4, <2>1, UpTo
<1>6. ~(Len(s) < p)
  BY <1>1
<1>7. QED
  BY <1>2, <1>5, <1>6

Ones(ss, g, S) == \A k \in 1..Len(ss) : ss[k] = <<g[k]>> /\ g[k] \in S

LEMMA JoinedOnes ==
    ASSUME NEW S, NEW ss \in Seq(Seq(S)), NEW g, Ones(ss, g, S)
    PROVE  Joined(ss) = [k \in 1..Len(ss) |-> g[k]]
<1> DEFINE N == Len(ss)
<1>1. N \in Nat
  BY LenProperties
<1>2. PICK f \in [0..N -> Seq(S)] :
        f[0] = <<>> /\ (\A n \in 1..N : Grows(f, ss, n)) /\ Joined(ss) = f[N]
  BY JoinedSteps
<1>3. \A k \in 1..N : ss[k] = <<g[k]>> /\ g[k] \in S
  BY DEF Ones
<1> HIDE DEF N
<1> DEFINE Good == {n \in 0..N : Len(f[n]) = n /\ \A k \in 1..n : f[n][k] = g[k]}
<1>4. 0 \in Good
  BY <1>1, <1>2
<1>5. ASSUME NEW n \in 1..N, n - 1 \in Good PROVE n \in Good
  <2>1. n - 1 \in 0..N /\ n \in 0..N /\ \A k \in 1..n : k = n \/ k \in 1..(n - 1)
    BY <1>1
  <2>2. f[n - 1] \in Seq(S) /\ f[n] = f[n - 1] \o <<g[n]>> /\ g[n] \in S
    BY <1>2, <1>3, <2>1 DEF Grows
  <2>3. Len(f[n - 1]) = n - 1 /\ \A k \in 1..(n - 1) : f[n - 1][k] = g[k]
    BY <1>5
  <2>4. f[n] = Append(f[n - 1], g[n])
    BY <2>2, AppendIsConcat
  <2>5. /\ Len(f[n]) = n /\ f[n][n] = g[n]
        /\ \A k \in 1..(n - 1) : f[n][k] = f[n - 1][k]
    BY <1>1, <2>2, <2>3, <2>4, AppendProperties
  <2>6. QED
    BY <2>1, <2>3, <2>5
<1>6. N \in Good
  <2>1. N \in 0..N
    BY <1>1
  <2> HIDE DEF Good
  <2>2. QED
    BY <1>1, <1>4, <1>5, <2>1, UpTo
<1> DEFINE t == f[N]
<1>7. Len(t) = N /\ (\A k \in 1..N : t[k] = g[k]) /\ t \in Seq(S)
  BY <1>2, <1>6
<1> HIDE DEF t, Good
<1>8. t \in [1..N -> S]
  BY <1>7, LenProperties
<1>9. t = [k \in 1..N |-> g[k]]
  BY <1>7, <1>8
<1>10. QED
  BY <1>2, <1>9 DEF t, N

Places(s, key, N, at) ==
    /\ key \in [DOMAIN s -> 1..N] /\ at \in [1..N -> DOMAIN s]
    /\ \A k \in 1..N : \A i \in DOMAIN s : key[i] = k <=> i = at[k]

LEMMA SortedOut ==
    ASSUME NEW S, NEW s \in Seq(S), NEW N \in Nat, NEW key, NEW at, Places(s, key, N, at)
    PROVE  Sorted(s, key, N) = [k \in 1..N |-> s[at[k]]]
<1> DEFINE ss == [k \in 1..N |-> Taking(s, {i \in DOMAIN s : key[i] = k})]
           g == [k \in 1..N |-> s[at[k]]]
<1>1. ASSUME NEW k \in 1..N PROVE ss[k] = <<s[at[k]]>> /\ s[at[k]] \in S
  <2> DEFINE I == {i \in DOMAIN s : key[i] = k}
  <2>1. at[k] \in DOMAIN s /\ \A i \in DOMAIN s : i \in I <=> i = at[k]
    BY DEF Places
  <2>2. ss[k] = Taking(s, I)
    OBVIOUS
  <2> HIDE DEF I, ss
  <2>3. Taking(s, I) = <<s[at[k]]>>
    BY <2>1, TakenOne
  <2>4. s[at[k]] \in S
    BY <2>1, LenProperties, ElementOfSeq
  <2>5. QED
    BY <2>2, <2>3, <2>4
<1>2. Sorted(s, key, N) = Joined(ss) /\ Len(ss) = N
  BY DEF Sorted
<1>3. ss \in Seq(Seq(S))
  <2>1. ASSUME NEW k \in 1..N PROVE ss[k] \in Seq(S)
    <3>1. ss[k] = <<s[at[k]]>> /\ s[at[k]] \in S
      BY <1>1
    <3>2. <<s[at[k]]>> \in Seq(S)
      BY <3>1
    <3>3. QED
      BY <3>1, <3>2
  <2>2. ss \in [1..N -> Seq(S)]
    BY <2>1
  <2> DEFINE T == Seq(S)
  <2> HIDE DEF ss, T
  <2>3. ss \in [1..N -> T]
    BY <2>2 DEF T
  <2>4. ss \in Seq(T)
    BY <2>3
  <2>5. QED
    BY <2>4 DEF T
<1> HIDE DEF ss
<1>4. \A k \in 1..N : ss[k] = <<g[k]>> /\ g[k] \in S
  BY <1>1
<1>5. g = [k \in 1..N |-> g[k]]
  OBVIOUS
<1> HIDE DEF g
<1>6. Joined(ss) = [k \in 1..N |-> g[k]]
  <2>1. Ones(ss, g, S)
    BY <1>2, <1>4 DEF Ones
  <2>2. Joined(ss) = [k \in 1..Len(ss) |-> g[k]]
    BY <1>3, <2>1, JoinedOnes
  <2>3. QED
    BY <1>2, <2>2
<1>7. QED
  BY <1>2, <1>5, <1>6 DEF g

(* What is on a list that gets one more. *)
LEMMA OneAppended ==
    ASSUME NEW S, NEW s \in Seq(S), NEW x \in S
    PROVE  /\ Append(s, x) \in Seq(S) /\ ToSet(Append(s, x)) = ToSet(s) \cup {x}
           /\ \A g : Apart(s, g) /\ (\A y \in ToSet(s) : g[y] # g[x]) => Apart(Append(s, x), g)
<1>1. Append(s, x) = s \o <<x>> /\ <<x>> \in Seq(S) /\ ToSet(<<x>>) = {x}
  BY AppendIsConcat DEF ToSet
<1>2. \A g : Apart(<<x>>, g)
  BY DEF Apart
<1>3. ToSet(s \o <<x>>) = ToSet(s) \cup {x} /\ s \o <<x>> \in Seq(S)
  <2> DEFINE u == <<x>>
  <2>1. u \in Seq(S) /\ ToSet(u) = {x}
    BY <1>1
  <2> HIDE DEF u
  <2>2. ToSet(s \o u) = ToSet(s) \cup ToSet(u) /\ s \o u \in Seq(S)
    BY <2>1, ConcatenatedSet, ConcatProperties
  <2>3. QED
    BY <2>1, <2>2 DEF u
<1>4. ASSUME NEW g, Apart(s, g), \A y \in ToSet(s) : g[y] # g[x] PROVE Apart(s \o <<x>>, g)
  BY <1>1, <1>2, <1>4, ConcatenatedApart
<1>5. QED
  BY <1>1, <1>3, <1>4

=============================================================================
