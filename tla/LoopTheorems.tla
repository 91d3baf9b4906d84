---------------------------- MODULE LoopTheorems -----------------------------
(***************************************************************************)
(* Theorems about loops.  A loop of the code is in the models a function   *)
(* "after" that gives the state after its first steps: over the actions of *)
(* a queue, or over the players of a set in the order of their numbers.    *)
(* That there is such a function, and that it keeps what each step keeps,  *)
(* is proved by the lemma UpTo, which is induction for a set of numbers,   *)
(* and it follows from the order of the numbers being well-founded.        *)
(***************************************************************************)
EXTENDS Integers, WellFoundedInduction, TLAPS

\* Each set of numbers that is not empty has a least one.
LEMMA Least ==
    ASSUME NEW U \in SUBSET Nat, U # {}
    PROVE  \E x \in U : \A y \in U : x <= y
<1> DEFINE R == {ss \in Nat \X Nat : ss[1] < ss[2]}
<1>1. IsWellFoundedOn(R, Nat)
  BY NatLessThanWellFounded DEF OpToRel
<1>2. \E x \in U : \A y \in U : ~(<<y, x>> \in R)
  <2> HIDE DEF R
  <2> QED
    BY <1>1, WFMin
<1>3. PICK x \in U : \A y \in U : ~(<<y, x>> \in R)
  BY <1>2
<1>4. ASSUME NEW y \in U PROVE x <= y
  <2>1. x \in Nat /\ y \in Nat /\ ~(<<y, x>> \in R)
    BY <1>3
  <2>2. ~(y < x)
    BY <2>1
  <2> QED
    BY <2>1, <2>2
<1> QED
  BY <1>3, <1>4

\* Induction over the numbers to n.
LEMMA UpTo ==
    ASSUME NEW n \in Nat, NEW U, 0 \in U, \A i \in 1 .. n : i - 1 \in U => i \in U
    PROVE  \A i \in 0 .. n : i \in U
<1> SUFFICES ASSUME NEW j \in 0 .. n, j \notin U PROVE FALSE
  OBVIOUS
<1> DEFINE V == {i \in 0 .. n : i \notin U}
<1>1. V \in SUBSET Nat /\ V # {}
  OBVIOUS
<1>2. PICK x \in V : \A y \in V : x <= y
  <2> HIDE DEF V
  <2> QED
    BY <1>1, Least
<1>3. x \in 0 .. n /\ x \notin U
  BY <1>2
<1>4. x \in 1 .. n /\ x - 1 \in 0 .. n
  BY <1>3
<1>5. x - 1 \notin V
  BY <1>2, <1>4
<1> QED
  BY <1>3, <1>4, <1>5

\* A loop of n steps over states in D: the states after each of them.
IsLoop(f, n, s, step) ==
    f = [i \in 0 .. n |-> IF i = 0 THEN s ELSE step[<<f[i - 1], i>>]]

\* There are such states, and they are in D.
LEMMA LoopDefined ==
    ASSUME NEW n \in Nat, NEW D, NEW s \in D, NEW step \in [D \X (1 .. n) -> D]
    PROVE  \E f \in [0 .. n -> D] : IsLoop(f, n, s, step)
<1> DEFINE Steps(f, k) == f[0] = s /\ \A i \in 1 .. k : f[i] = step[<<f[i - 1], i>>]
<1> DEFINE U == {k \in 0 .. n : \E f \in [0 .. k -> D] : Steps(f, k)}
<1>1. 0 \in U
  <2> DEFINE g == [i \in 0 .. 0 |-> s]
  <2>1. g \in [0 .. 0 -> D] /\ g[0] = s
    OBVIOUS
  <2>2. 1 .. 0 = {} /\ 0 \in 0 .. n
    OBVIOUS
  <2>3. Steps(g, 0)
    BY <2>1, <2>2
  <2> HIDE DEF g, Steps
  <2> QED
    BY <2>1, <2>2, <2>3
<1>2. ASSUME NEW k \in 1 .. n, k - 1 \in U PROVE k \in U
  <2>1. PICK f \in [0 .. k - 1 -> D] : Steps(f, k - 1)
    BY <1>2
  <2> DEFINE g == [i \in 0 .. k |-> IF i = k THEN step[<<f[k - 1], k>>] ELSE f[i]]
  <2>2. f[k - 1] \in D
    BY <2>1
  <2>3. step[<<f[k - 1], k>>] \in D
    BY <2>2
  <2>4. g \in [0 .. k -> D]
    <3> SUFFICES ASSUME NEW i \in 0 .. k PROVE g[i] \in D
      OBVIOUS
    <3>1. CASE i = k
      BY <2>3, <3>1
    <3>2. CASE i # k
      <4>1. i \in 0 .. k - 1
        BY <3>2
      <4>2. f[i] \in D
        BY <2>1, <4>1
      <4> QED
        BY <3>2, <4>2
    <3> QED
      BY <3>1, <3>2
  <2>5. g[0] = s
    BY <2>1
  <2>6. ASSUME NEW i \in 1 .. k PROVE g[i] = step[<<g[i - 1], i>>]
    <3>1. i - 1 \in 0 .. k /\ i - 1 # k
      OBVIOUS
    <3>2. g[i - 1] = f[i - 1]
      BY <3>1
    <3>3. CASE i = k
      <4>1. k \in 0 .. k
        OBVIOUS
      <4>2. g[k] = step[<<f[k - 1], k>>]
        BY <4>1
      <4> HIDE DEF g
      <4> QED
        BY <3>2, <3>3, <4>2
    <3>4. CASE i # k
      <4>1. i \in 1 .. k - 1 /\ i \in 0 .. k
        BY <3>4
      <4>2. g[i] = f[i]
        BY <3>4, <4>1
      <4>3. f[i] = step[<<f[i - 1], i>>]
        BY <2>1, <4>1
      <4> QED
        BY <3>2, <4>2, <4>3
    <3> QED
      BY <3>3, <3>4
  <2>7. Steps(g, k)
    BY <2>5, <2>6
  <2>8. k \in 0 .. n
    OBVIOUS
  <2> HIDE DEF g, Steps
  <2> QED
    BY <2>4, <2>7, <2>8
<1>3. \A i \in 0 .. n : i \in U
  <2>1. \A i \in 1 .. n : i - 1 \in U => i \in U
    BY <1>2
  <2> HIDE DEF U
  <2> QED
    BY <1>1, <2>1, UpTo
<1>4. PICK f \in [0 .. n -> D] : Steps(f, n)
  <2>1. n \in U
    <3>1. n \in 0 .. n
      OBVIOUS
    <3> HIDE DEF U
    <3> QED
      BY <1>3, <3>1
  <2> HIDE DEF Steps
  <2> QED
    BY <2>1
<1>5. \A i \in 0 .. n : f[i] = IF i = 0 THEN s ELSE step[<<f[i - 1], i>>]
  <2> SUFFICES ASSUME NEW i \in 0 .. n
               PROVE  f[i] = IF i = 0 THEN s ELSE step[<<f[i - 1], i>>]
    OBVIOUS
  <2>1. CASE i = 0
    BY <1>4, <2>1
  <2>2. CASE i # 0
    <3>1. i \in 1 .. n
      BY <2>2
    <3> QED
      BY <1>4, <2>2, <3>1
  <2> QED
    BY <2>1, <2>2
<1> QED
  BY <1>4, <1>5 DEF IsLoop

\* What each step of a loop keeps, the loop keeps.
LEMMA LoopKeeps ==
    ASSUME NEW n \in Nat, NEW D, NEW f, f[0] \in D, \A i \in 1 .. n : f[i - 1] \in D => f[i] \in D
    PROVE  \A i \in 0 .. n : f[i] \in D
<1> DEFINE U == {i \in 0 .. n : f[i] \in D}
<1>1. 0 \in U
  OBVIOUS
<1>2. \A i \in 1 .. n : i - 1 \in U => i \in U
  OBVIOUS
<1>3. \A i \in 0 .. n : i \in U
  <2> HIDE DEF U
  <2> QED
    BY <1>1, <1>2, UpTo
<1> QED
  BY <1>3

\* A loop over the numbers of S up to n; the others are left out.
IsLoopOver(f, n, S, s, step) ==
    f = [p \in 0 .. n |-> IF p = 0 THEN s
                          ELSE IF p \in S THEN step[<<f[p - 1], p>>] ELSE f[p - 1]]

\* There are such states, and they are in D.
LEMMA LoopOver ==
    ASSUME NEW n \in Nat, NEW D, NEW s \in D, NEW S, NEW step \in [D \X (1 .. n) -> D]
    PROVE  \E f \in [0 .. n -> D] : IsLoopOver(f, n, S, s, step)
<1> DEFINE all == [x \in D \X (1 .. n) |-> IF x[2] \in S THEN step[x] ELSE x[1]]
<1>1. all \in [D \X (1 .. n) -> D]
  OBVIOUS
<1>2. \A x \in D, p \in 1 .. n : all[<<x, p>>] = IF p \in S THEN step[<<x, p>>] ELSE x
  OBVIOUS
<1> HIDE DEF all
<1>3. PICK f \in [0 .. n -> D] : IsLoop(f, n, s, all)
  BY <1>1, LoopDefined
<1>4. \A p \in 1 .. n : f[p - 1] \in D
  OBVIOUS
<1>5. ASSUME NEW p \in 0 .. n, p # 0
      PROVE  all[<<f[p - 1], p>>] = IF p \in S THEN step[<<f[p - 1], p>>] ELSE f[p - 1]
  <2>1. p \in 1 .. n
    BY <1>5
  <2> QED
    BY <1>2, <1>4, <2>1
<1>6. f = [p \in 0 .. n |-> IF p = 0 THEN s
                            ELSE IF p \in S THEN step[<<f[p - 1], p>>] ELSE f[p - 1]]
  BY <1>3, <1>5 DEF IsLoop
<1> QED
  BY <1>6 DEF IsLoopOver
=============================================================================
