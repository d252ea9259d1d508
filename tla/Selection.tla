------------------------------ MODULE Selection ------------------------------
(* What the code does with lists: a comprehension with a condition, a sort *)
(* that keeps the order of equals, and a sum.  The operators are folds     *)
(* written as recursive functions.                                         *)
EXTENDS Integers, Sequences

(* The sequences of ss, one after the other.                               *)
Joined(ss) ==
    LET upto[n \in 0..Len(ss)] == IF n = 0 THEN <<>> ELSE upto[n - 1] \o ss[n]
    IN upto[Len(ss)]

(* What is at the places `I` of s, in its order.                           *)
Taking(s, I) == Joined([n \in 1..Len(s) |-> IF n \in I THEN <<s[n]>> ELSE <<>>])

(* s by the keys, from 1 to N, of its places; equals keep their order.     *)
Sorted(s, key, N) == Joined([k \in 1..N |-> Taking(s, {i \in DOMAIN s : key[i] = k})])

(* f[1] + ... + f[n].                                                      *)
Added(f, n) ==
    LET upto[i \in 0..n] == IF i = 0 THEN 0 ELSE upto[i - 1] + f[i]
    IN upto[n]
=============================================================================
