----------------------------- MODULE DataInduction -----------------------------
(***************************************************************************)
(* Induction and recursion over the naturals, for the recursive functions  *)
(* that stand for loops over a sequence or a text.  The library's theorems *)
(* take the formula, or the body of the recursion, as an operator; these   *)
(* take it as a set, or as a function, so that a first-order prover can    *)
(* use them.                                                               *)
(***************************************************************************)
EXTENDS Naturals, WellFoundedInduction, TLAPS

\* A set of naturals with 0 and the successor of each of its members has all.
LEMMA SetInduction ==
  ASSUME NEW S, 0 \in S, \A n \in Nat : n \in S => n + 1 \in S
  PROVE  \A n \in Nat : n \in S
  <1> DEFINE T == Nat \ S
             R == OpToRel(<, Nat)
  <1> SUFFICES ASSUME T # {} PROVE FALSE
    OBVIOUS
  <1>1. IsWellFoundedOn(R, Nat)
    BY NatLessThanWellFounded
  <1>2. T \subseteq Nat /\ \A n \in Nat \ T : n \in S
    OBVIOUS
  <1>3. \A m, n \in Nat : <<m, n>> \in R <=> m < n
    BY DEF OpToRel
  <1>4. T \cap S = {}
    OBVIOUS
  <1> HIDE DEF T, R
  <1>5. PICK n \in T : \A m \in T : ~ (<<m, n>> \in R)
    <2>1. \E n \in T : \A m \in T : ~ (<<m, n>> \in R)
      BY <1>1, <1>2, WFMin
    <2> QED
      BY <2>1
  <1>6. n \in Nat \ {0}
    BY <1>2, <1>4, <1>5
  <1>7. n - 1 \in Nat /\ n - 1 < n /\ (n - 1) + 1 = n
    BY <1>6
  <1>8. n - 1 \in S
    BY <1>2, <1>3, <1>5, <1>6, <1>7
  <1>9. n \in S
    BY <1>7, <1>8
  <1> QED
    BY <1>4, <1>5, <1>9

\* The same up to a bound.
LEMMA BoundedInduction ==
  ASSUME NEW N \in Nat, NEW S, 0 \in S, \A n \in 0 .. N : n \in S /\ n < N => n + 1 \in S
  PROVE  \A n \in 0 .. N : n \in S
  <1> DEFINE U == S \cup {n \in Nat : n > N}
  <1>1. 0 \in U
    OBVIOUS
  <1>2. \A n \in Nat : n \in U => n + 1 \in U
    OBVIOUS
  <1>3. \A n \in Nat : n \in U
    <2> HIDE DEF U
    <2> QED
      BY <1>1, <1>2, SetInduction
  <1> QED
    BY <1>3

\* A loop of N iterations, each of which makes of its number and of a value in
\* D a value in D again, and the value after each of its iterations.
IsLoop(step, N, D) == step \in [1 .. N -> [D -> D]]

ValuesOfLoop(f, step, N, D, first) ==
  /\ f \in [0 .. N -> D]
  /\ f[0] = first
  /\ \A n \in 1 .. N : f[n] = step[n][f[n - 1]]

\* Every loop has them: what a recursive function of a module, which is a
\* CHOOSE, needs to be the function it looks like.
LEMMA LoopExists ==
  ASSUME NEW N \in Nat, NEW D, NEW first \in D, NEW step, IsLoop(step, N, D)
  PROVE  \E f : ValuesOfLoop(f, step, N, D, first)
  <1> DEFINE Tells(k, f) == /\ f[0] = first
                            /\ \A n \in 1 .. k : f[n] = step[n][f[n - 1]]
             S == {k \in 0 .. N : \E f \in [0 .. k -> D] : Tells(k, f)}
  <1>1. 0 \in S
    <2> DEFINE f == [n \in 0 .. 0 |-> first]
    <2>1. f \in [0 .. 0 -> D] /\ Tells(0, f)
      OBVIOUS
    <2> HIDE DEF f
    <2>2. 0 \in 0 .. N /\ \E h \in [0 .. 0 -> D] : Tells(0, h)
      BY <2>1
    <2> QED
      BY <2>2
  <1>2. ASSUME NEW k \in 0 .. N, k \in S, k < N PROVE k + 1 \in S
    <2>1. PICK f \in [0 .. k -> D] : Tells(k, f)
      BY <1>2
    <2> DEFINE g == [n \in 0 .. k + 1 |-> IF n = k + 1 THEN step[n][f[k]] ELSE f[n]]
    <2>2. k + 1 \in 1 .. N /\ f[k] \in D
      BY <1>2
    <2>3. step[k + 1][f[k]] \in D
      BY <2>2 DEF IsLoop
    <2>4. g \in [0 .. k + 1 -> D]
      BY <2>3
    <2>5. Tells(k + 1, g)
      <3>1. g[0] = first
        BY <2>1
      <3>2. ASSUME NEW n \in 1 .. k + 1 PROVE g[n] = step[n][g[n - 1]]
        <4>1. CASE n = k + 1
          BY <4>1
        <4>2. CASE n # k + 1
          <5>1. n \in 1 .. k /\ n - 1 \in 0 .. k
            BY <4>2
          <5> QED
            BY <2>1, <5>1
        <4> QED
          BY <4>1, <4>2
      <3> QED
        BY <3>1, <3>2
    <2> HIDE DEF g
    <2> QED
      BY <2>2, <2>4, <2>5
  <1>3. N \in S
    <2> HIDE DEF S
    <2>1. \A n \in 0 .. N : n \in S /\ n < N => n + 1 \in S
      BY <1>2
    <2>2. \A n \in 0 .. N : n \in S
      BY <1>1, <2>1, BoundedInduction
    <2> QED
      BY <2>2
  <1>4. PICK f \in [0 .. N -> D] : Tells(N, f)
    BY <1>3
  <1>5. ValuesOfLoop(f, step, N, D, first)
    BY <1>4 DEF ValuesOfLoop
  <1> QED
    BY <1>5

\* A loop that goes through 1 .. N in strides of one or two, told from its end:
\* the value at a place comes from those at the two places after it.
IsStride(step, N, D) == step \in [1 .. N -> [D \X D -> D]]

ValuesOfStride(f, step, N, D, last) ==
  /\ f \in [1 .. N + 2 -> D]
  /\ f[N + 1] = last /\ f[N + 2] = last
  /\ \A i \in 1 .. N : f[i] = step[i][<<f[i + 1], f[i + 2]>>]

LEMMA StrideExists ==
  ASSUME NEW N \in Nat, NEW D, NEW last \in D, NEW step, IsStride(step, N, D)
  PROVE  \E f : ValuesOfStride(f, step, N, D, last)
  <1> DEFINE P == D \X D
             back == [n \in 1 .. N |-> [p \in P |-> <<step[N + 1 - n][p], p[1]>>]]
  <1>1. \A n \in 1 .. N : N + 1 - n \in 1 .. N
    OBVIOUS
  <1>2. \A n \in 1 .. N : \A p \in P : step[n][p] \in D
    BY DEF IsStride
  <1>3. ASSUME NEW n \in 1 .. N, NEW p \in P PROVE <<step[N + 1 - n][p], p[1]>> \in P
    <2>1. step[N + 1 - n][p] \in D
      BY <1>1, <1>2
    <2> QED
      BY <2>1
  <1>4. IsLoop(back, N, P)
    BY <1>3 DEF IsLoop
  <1>5. \A n \in 1 .. N : \A p \in P : back[n][p] = <<step[N + 1 - n][p], p[1]>>
    OBVIOUS
  <1>6. <<last, last>> \in P
    OBVIOUS
  <1> HIDE DEF back
  <1>7. PICK g : ValuesOfLoop(g, back, N, P, <<last, last>>)
    <2> HIDE DEF P
    <2> QED
      BY <1>4, <1>6, LoopExists
  <1>8. /\ \A n \in 0 .. N : g[n] \in P
        /\ g[0] = <<last, last>>
        /\ \A n \in 1 .. N : g[n] = <<step[N + 1 - n][g[n - 1]], g[n - 1][1]>>
    <2>1. g \in [0 .. N -> P] /\ g[0] = <<last, last>> /\ \A n \in 1 .. N : g[n] = back[n][g[n - 1]]
      BY <1>7 DEF ValuesOfLoop
    <2>2. ASSUME NEW n \in 1 .. N PROVE g[n] = <<step[N + 1 - n][g[n - 1]], g[n - 1][1]>>
      <3>1. n - 1 \in 0 .. N
        OBVIOUS
      <3>2. g[n - 1] \in P
        BY <2>1, <3>1
      <3> QED
        BY <1>5, <2>1, <3>2
    <2> QED
      BY <2>1, <2>2
  <1> DEFINE f == [i \in 1 .. N + 2 |-> IF i = N + 2 THEN last ELSE g[N + 1 - i][1]]
  <1>9. ASSUME NEW i \in 1 .. N + 2 PROVE f[i] \in D
    <2>1. i # N + 2 => N + 1 - i \in 0 .. N
      OBVIOUS
    <2>2. i # N + 2 => g[N + 1 - i] \in P
      BY <1>8, <2>1
    <2> QED
      BY <2>2
  <1>10. f[N + 1] = last /\ f[N + 2] = last
    <2>1. N + 1 \in 1 .. N + 2 /\ N + 2 \in 1 .. N + 2 /\ N + 1 # N + 2 /\ N + 1 - (N + 1) = 0
      OBVIOUS
    <2> QED
      BY <1>8, <2>1
  <1>11. ASSUME NEW i \in 1 .. N PROVE f[i] = step[i][<<f[i + 1], f[i + 2]>>]
    <2>1. PICK n : n = N + 1 - i
      OBVIOUS
    <2>2. /\ n \in 1 .. N /\ n - 1 \in 0 .. N /\ N + 1 - n = i
          /\ N + 1 - (i + 1) = n - 1 /\ i # N + 2 /\ i + 1 # N + 2
          /\ i \in 1 .. N + 2 /\ i + 1 \in 1 .. N + 2 /\ i + 2 \in 1 .. N + 2
      BY <2>1
    <2>3. f[i] = g[n][1] /\ f[i + 1] = g[n - 1][1]
      BY <2>1, <2>2
    <2>4. f[i + 2] = g[n - 1][2]
      <3>1. CASE n = 1
        <4>1. i + 2 = N + 2 /\ n - 1 = 0
          BY <2>2, <3>1
        <4> QED
          BY <1>8, <1>10, <4>1
      <3>2. CASE n # 1
        <4>1. n - 1 \in 1 .. N /\ i + 2 # N + 2 /\ N + 1 - (i + 2) = (n - 1) - 1
          BY <2>2, <3>2
        <4>2. f[i + 2] = g[(n - 1) - 1][1]
          BY <2>2, <4>1
        <4>3. g[n - 1] = <<step[N + 1 - (n - 1)][g[(n - 1) - 1]], g[(n - 1) - 1][1]>>
          BY <1>8, <4>1
        <4> QED
          BY <4>2, <4>3
      <3> QED
        BY <3>1, <3>2
    <2>5. g[n - 1] \in P
      BY <1>8, <2>2
    <2>6. g[n - 1] = <<f[i + 1], f[i + 2]>>
      BY <2>3, <2>4, <2>5
    <2>7. g[n] = <<step[i][g[n - 1]], g[n - 1][1]>>
      BY <1>8, <2>2
    <2> HIDE DEF f
    <2> QED
      BY <2>3, <2>6, <2>7
  <1>12. f \in [1 .. N + 2 -> D]
    BY <1>9
  <1> HIDE DEF f
  <1>13. ValuesOfStride(f, step, N, D, last)
    BY <1>10, <1>11, <1>12 DEF ValuesOfStride
  <1> QED
    BY <1>13

\* A set of naturals with a member has a least one.
LEMMA LeastElement ==
  ASSUME NEW T, T \subseteq Nat, T # {}
  PROVE  \E n \in T : \A m \in T : n <= m
  <1> DEFINE R == OpToRel(<, Nat)
  <1>1. IsWellFoundedOn(R, Nat)
    BY NatLessThanWellFounded
  <1>2. \A m, n \in Nat : <<m, n>> \in R <=> m < n
    BY DEF OpToRel
  <1> HIDE DEF R
  <1>3. PICK n \in T : \A m \in T : ~ (<<m, n>> \in R)
    <2>1. \E n \in T : \A m \in T : ~ (<<m, n>> \in R)
      BY <1>1, WFMin
    <2> QED
      BY <2>1
  <1>4. ASSUME NEW m \in T PROVE n <= m
    <2>1. m \in Nat /\ n \in Nat /\ ~ (m < n)
      BY <1>2, <1>3
    <2> QED
      BY <2>1
  <1> QED
    BY <1>4
===============================================================================
