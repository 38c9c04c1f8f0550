---------------------------- MODULE InventoryProofs ----------------------------
(***************************************************************************)
(* What holds of every inventory, whatever the packages, the patterns and  *)
(* the rules files: that the list of packages is of the source asked for   *)
(* and lacks nothing no failed call was about, that the patterns choose    *)
(* what they match, and that the rules in force are those of the first     *)
(* tier there is, never of an oversized file.                              *)
(***************************************************************************)
EXTENDS Inventory, DataInduction

-------------------------------------------------------------------------------
(***************************************************************************)
(* matchesGlob() finds a match whenever there is one, for every pattern    *)
(* and every value without a '*' of its own: its loop remembers only the   *)
(* last '*' it has passed, and going back to that one is enough.           *)
(***************************************************************************)

\* The pattern from position p matches the value from position v.
Matches(pattern, value, p, v) ==
  \E cut \in [p - 1 .. Len(pattern) -> 0 .. Len(value)] :
    /\ cut[p - 1] = v - 1
    /\ cut[Len(pattern)] = Len(value)
    /\ \A i \in p .. Len(pattern) :
         IF pattern[i] = "*" THEN cut[i - 1] <= cut[i]
         ELSE cut[i] = cut[i - 1] + 1 /\ takes(pattern[i], value[cut[i]])

LEMMA GlobMatchesAll ==
  ASSUME NEW pattern \in Seq(Characters), NEW value \in Seq(Characters)
  PROVE  GlobMatches(pattern, value) <=> Matches(pattern, value, 1, 1)
  BY DEF GlobMatches, Matches

LEMMA MatchesEnd ==
  ASSUME NEW pattern \in Seq(Characters), NEW value \in Seq(Characters),
         NEW v \in 1 .. Len(value) + 1
  PROVE  Matches(pattern, value, Len(pattern) + 1, v) <=> v = Len(value) + 1
  <1> DEFINE m == Len(pattern)
             n == Len(value)
  <1>1. m \in Nat /\ n \in Nat /\ (m + 1) - 1 = m
    OBVIOUS
  <1>2. ASSUME v = n + 1 PROVE Matches(pattern, value, m + 1, v)
    <2> DEFINE cut == [i \in m .. m |-> n]
    <2>1. cut \in [m .. m -> 0 .. n] /\ cut[m] = n /\ \A i \in m + 1 .. m : FALSE
      BY <1>1
    <2> HIDE DEF cut
    <2> QED
      BY <1>1, <1>2, <2>1 DEF Matches
  <1>3. ASSUME Matches(pattern, value, m + 1, v) PROVE v = n + 1
    <2>1. PICK cut \in [m .. m -> 0 .. n] : cut[m] = v - 1 /\ cut[m] = n
      BY <1>1, <1>3 DEF Matches
    <2> QED
      BY <1>1, <2>1
  <1> QED
    BY <1>2, <1>3

LEMMA MatchesStar ==
  ASSUME NEW pattern \in Seq(Characters), NEW value \in Seq(Characters),
         NEW p \in 1 .. Len(pattern), NEW v \in 1 .. Len(value) + 1, pattern[p] = "*"
  PROVE  Matches(pattern, value, p, v)
           <=> \E j \in v .. Len(value) + 1 : Matches(pattern, value, p + 1, j)
  <1> DEFINE m == Len(pattern)
             n == Len(value)
             Cuts(cut, i) == IF pattern[i] = "*" THEN cut[i - 1] <= cut[i]
                             ELSE cut[i] = cut[i - 1] + 1 /\ takes(pattern[i], value[cut[i]])
  <1>1. m \in Nat /\ n \in Nat /\ (p + 1) - 1 = p
    OBVIOUS
  <1>2. ASSUME Matches(pattern, value, p, v)
        PROVE  \E j \in v .. n + 1 : Matches(pattern, value, p + 1, j)
    <2>1. PICK cut \in [p - 1 .. m -> 0 .. n] :
            cut[p - 1] = v - 1 /\ cut[m] = n /\ \A i \in p .. m : Cuts(cut, i)
      BY <1>2 DEF Matches
    <2> DEFINE rest == [i \in p .. m |-> cut[i]]
    <2>2. rest \in [p .. m -> 0 .. n] /\ rest[m] = n /\ rest[p] = cut[p]
      BY <1>1, <2>1
    <2>3. cut[p - 1] <= cut[p] /\ cut[p] \in 0 .. n
      BY <1>1, <2>1
    <2>4. \A i \in p + 1 .. m : Cuts(rest, i)
      <3>1. \A i \in p + 1 .. m : rest[i] = cut[i] /\ rest[i - 1] = cut[i - 1] /\ i \in p .. m
        BY <1>1
      <3> QED
        BY <2>1, <3>1
    <2> HIDE DEF rest
    <2>5. PICK j \in v .. n + 1 : cut[p] = j - 1
      <3>1. cut[p] + 1 \in v .. n + 1 /\ cut[p] = (cut[p] + 1) - 1
        BY <2>1, <2>3
      <3> QED
        BY <3>1
    <2>6. Matches(pattern, value, p + 1, j)
      BY <1>1, <2>2, <2>4, <2>5 DEF Matches
    <2> QED
      BY <2>6
  <1>3. ASSUME NEW j \in v .. n + 1, Matches(pattern, value, p + 1, j)
        PROVE  Matches(pattern, value, p, v)
    <2>1. PICK cut \in [p .. m -> 0 .. n] :
            cut[p] = j - 1 /\ cut[m] = n /\ \A i \in p + 1 .. m : Cuts(cut, i)
      BY <1>1, <1>3 DEF Matches
    <2> DEFINE whole == [i \in p - 1 .. m |-> IF i = p - 1 THEN v - 1 ELSE cut[i]]
    <2>2. whole \in [p - 1 .. m -> 0 .. n] /\ whole[p - 1] = v - 1 /\ whole[m] = n
      BY <1>1, <2>1
    <2>3. \A i \in p .. m : Cuts(whole, i)
      <3>1. \A i \in p .. m : whole[i] = cut[i]
        BY <1>1
      <3>2. \A i \in p + 1 .. m : whole[i - 1] = cut[i - 1] /\ i \in p .. m
        BY <1>1
      <3>3. Cuts(whole, p)
        BY <1>1, <2>1, <2>2, <3>1
      <3>4. ASSUME NEW i \in p + 1 .. m PROVE Cuts(whole, i)
        <4> HIDE DEF whole
        <4> QED
          BY <2>1, <3>1, <3>2
      <3> HIDE DEF whole, Cuts
      <3> QED
        BY <3>3, <3>4
    <2> HIDE DEF whole
    <2> QED
      BY <1>1, <2>2, <2>3 DEF Matches
  <1> QED
    BY <1>2, <1>3

LEMMA MatchesCharacter ==
  ASSUME NEW pattern \in Seq(Characters), NEW value \in Seq(Characters),
         NEW p \in 1 .. Len(pattern), NEW v \in 1 .. Len(value) + 1, pattern[p] # "*"
  PROVE  Matches(pattern, value, p, v)
           <=> /\ v <= Len(value) /\ takes(pattern[p], value[v])
               /\ Matches(pattern, value, p + 1, v + 1)
  <1> DEFINE m == Len(pattern)
             n == Len(value)
             Cuts(cut, i) == IF pattern[i] = "*" THEN cut[i - 1] <= cut[i]
                             ELSE cut[i] = cut[i - 1] + 1 /\ takes(pattern[i], value[cut[i]])
  <1>1. m \in Nat /\ n \in Nat /\ (p + 1) - 1 = p /\ (v + 1) - 1 = v /\ (v - 1) + 1 = v
    OBVIOUS
  <1>2. ASSUME Matches(pattern, value, p, v)
        PROVE  /\ v <= n /\ takes(pattern[p], value[v])
               /\ Matches(pattern, value, p + 1, v + 1)
    <2>1. PICK cut \in [p - 1 .. m -> 0 .. n] :
            cut[p - 1] = v - 1 /\ cut[m] = n /\ \A i \in p .. m : Cuts(cut, i)
      BY <1>2 DEF Matches
    <2> DEFINE rest == [i \in p .. m |-> cut[i]]
    <2>2. rest \in [p .. m -> 0 .. n] /\ rest[m] = n /\ rest[p] = cut[p]
      BY <1>1, <2>1
    <2>3. cut[p] = v /\ takes(pattern[p], value[v]) /\ cut[p] \in 0 .. n
      BY <1>1, <2>1
    <2>4. \A i \in p + 1 .. m : Cuts(rest, i)
      <3>1. \A i \in p + 1 .. m : rest[i] = cut[i] /\ rest[i - 1] = cut[i - 1] /\ i \in p .. m
        BY <1>1
      <3> QED
        BY <2>1, <3>1
    <2> HIDE DEF rest
    <2>5. Matches(pattern, value, p + 1, v + 1)
      BY <1>1, <2>2, <2>3, <2>4 DEF Matches
    <2> QED
      BY <2>3, <2>5
  <1>3. ASSUME v <= n, takes(pattern[p], value[v]), Matches(pattern, value, p + 1, v + 1)
        PROVE  Matches(pattern, value, p, v)
    <2>1. PICK cut \in [p .. m -> 0 .. n] :
            cut[p] = v /\ cut[m] = n /\ \A i \in p + 1 .. m : Cuts(cut, i)
      BY <1>1, <1>3 DEF Matches
    <2> DEFINE whole == [i \in p - 1 .. m |-> IF i = p - 1 THEN v - 1 ELSE cut[i]]
    <2>2. whole \in [p - 1 .. m -> 0 .. n] /\ whole[p - 1] = v - 1 /\ whole[m] = n
      BY <1>1, <2>1
    <2>3. \A i \in p .. m : Cuts(whole, i)
      <3>1. \A i \in p .. m : whole[i] = cut[i]
        BY <1>1
      <3>2. \A i \in p + 1 .. m : whole[i - 1] = cut[i - 1] /\ i \in p .. m
        BY <1>1
      <3>3. Cuts(whole, p)
        BY <1>1, <1>3, <2>1, <2>2, <3>1
      <3>4. ASSUME NEW i \in p + 1 .. m PROVE Cuts(whole, i)
        <4> HIDE DEF whole
        <4> QED
          BY <2>1, <3>1, <3>2
      <3> HIDE DEF whole, Cuts
      <3> QED
        BY <3>3, <3>4
    <2> HIDE DEF whole
    <2> QED
      BY <1>1, <2>2, <2>3 DEF Matches
  <1> QED
    BY <1>2, <1>3

-------------------------------------------------------------------------------
(* From positions p and v the loop takes one character after the other, up *)
(* to a '*', to the end of the value or to where it is stuck.              *)

Stuck(pattern, value, p, v) ==
  /\ v <= Len(value)
  /\ p = Len(pattern) + 1 \/ (pattern[p] # "*" /\ ~takes(pattern[p], value[v]))

Blocked(pattern, value, p, v) ==
  \E l \in 0 .. Len(value) :
    /\ \A k \in 0 .. l - 1 : /\ p + k <= Len(pattern) /\ v + k <= Len(value)
                             /\ takes(pattern[p + k], value[v + k])
    /\ p + l <= Len(pattern) + 1
    /\ Stuck(pattern, value, p + l, v + l)

LEMMA NoStar ==
  ASSUME NEW value \in Seq(Characters \ {"*"}), NEW v \in 1 .. Len(value)
  PROVE  ~takes("*", value[v])
  <1>1. value[v] \in Characters \ {"*"}
    OBVIOUS
  <1> QED
    BY <1>1, FoldAssumption DEF takes, equalsOrdinalIgnoreCase

LEMMA StuckBlocked ==
  ASSUME NEW pattern \in Seq(Characters), NEW value \in Seq(Characters),
         NEW p \in 1 .. Len(pattern) + 1, NEW v \in 1 .. Len(value) + 1,
         Stuck(pattern, value, p, v)
  PROVE  Blocked(pattern, value, p, v)
  <1>1. p + 0 = p /\ v + 0 = v /\ 0 \in 0 .. Len(value) /\ \A k \in 0 .. 0 - 1 : FALSE
    OBVIOUS
  <1> QED
    BY <1>1 DEF Blocked

LEMMA BlockedFirst ==
  ASSUME NEW pattern \in Seq(Characters), NEW value \in Seq(Characters),
         NEW p \in 1 .. Len(pattern) + 1, NEW v \in 1 .. Len(value) + 1,
         Blocked(pattern, value, p, v)
  PROVE  /\ v <= Len(value)
         /\ \/ Stuck(pattern, value, p, v)
            \/ p <= Len(pattern) /\ takes(pattern[p], value[v])
  <1>1. PICK l \in 0 .. Len(value) :
          /\ \A k \in 0 .. l - 1 : /\ p + k <= Len(pattern) /\ v + k <= Len(value)
                                   /\ takes(pattern[p + k], value[v + k])
          /\ p + l <= Len(pattern) + 1
          /\ Stuck(pattern, value, p + l, v + l)
    BY DEF Blocked
  <1>2. p + 0 = p /\ v + 0 = v
    OBVIOUS
  <1>3. CASE l = 0
    BY <1>1, <1>2, <1>3 DEF Stuck
  <1>4. CASE l # 0
    <2>1. 0 \in 0 .. l - 1
      BY <1>4
    <2> QED
      BY <1>1, <1>2, <2>1
  <1> QED
    BY <1>3, <1>4

LEMMA BlockedNext ==
  ASSUME NEW pattern \in Seq(Characters), NEW value \in Seq(Characters \ {"*"}),
         NEW p \in 1 .. Len(pattern), NEW v \in 1 .. Len(value), takes(pattern[p], value[v])
  PROVE  Blocked(pattern, value, p, v) <=> Blocked(pattern, value, p + 1, v + 1)
  <1> DEFINE m == Len(pattern)
             n == Len(value)
             Taken(q, w, l) == \A k \in 0 .. l - 1 : /\ q + k <= m /\ w + k <= n
                                                     /\ takes(pattern[q + k], value[w + k])
  <1>1. m \in Nat /\ n \in Nat /\ p + 0 = p /\ v + 0 = v
    OBVIOUS
  <1>2. pattern[p] # "*" /\ ~Stuck(pattern, value, p, v)
    BY NoStar DEF Stuck
  <1>3. ASSUME Blocked(pattern, value, p, v) PROVE Blocked(pattern, value, p + 1, v + 1)
    <2>1. PICK l \in 0 .. n : /\ Taken(p, v, l) /\ p + l <= m + 1
                              /\ Stuck(pattern, value, p + l, v + l)
      BY <1>3 DEF Blocked
    <2>2. l # 0
      BY <1>1, <1>2, <2>1
    <2>3. PICK h \in 0 .. n : h + 1 = l
      <3>1. l - 1 \in 0 .. n /\ (l - 1) + 1 = l
        BY <2>2
      <3> QED
        BY <3>1
    <2>4. ASSUME NEW k \in 0 .. h - 1
          PROVE  /\ (p + 1) + k <= m /\ (v + 1) + k <= n
                 /\ takes(pattern[(p + 1) + k], value[(v + 1) + k])
      <3>1. k + 1 \in 0 .. l - 1 /\ (p + 1) + k = p + (k + 1) /\ (v + 1) + k = v + (k + 1)
        BY <1>1, <2>3
      <3> QED
        BY <2>1, <3>1
    <2>5. (p + 1) + h = p + l /\ (v + 1) + h = v + l
      BY <1>1, <2>3
    <2> QED
      BY <2>1, <2>4, <2>5 DEF Blocked
  <1>4. ASSUME Blocked(pattern, value, p + 1, v + 1) PROVE Blocked(pattern, value, p, v)
    <2>1. PICK l \in 0 .. n : /\ Taken(p + 1, v + 1, l) /\ (p + 1) + l <= m + 1
                              /\ Stuck(pattern, value, (p + 1) + l, (v + 1) + l)
      BY <1>4 DEF Blocked
    <2>2. PICK h \in 0 .. n : h = l + 1
      <3>1. (v + 1) + l <= n
        BY <2>1 DEF Stuck
      <3>2. l + 1 \in 0 .. n
        BY <1>1, <3>1
      <3> QED
        BY <3>2
    <2>3. ASSUME NEW k \in 0 .. h - 1
          PROVE  p + k <= m /\ v + k <= n /\ takes(pattern[p + k], value[v + k])
      <3>1. CASE k = 0
        BY <1>1, <3>1
      <3>2. CASE k # 0
        <4>1. PICK g \in 0 .. l - 1 : k = g + 1
          <5>1. k - 1 \in 0 .. l - 1 /\ k = (k - 1) + 1
            BY <2>2, <3>2
          <5> QED
            BY <5>1
        <4>2. (p + 1) + g = p + k /\ (v + 1) + g = v + k
          BY <1>1, <4>1
        <4> QED
          BY <2>1, <4>2
      <3> QED
        BY <3>1, <3>2
    <2>4. p + h = (p + 1) + l /\ v + h = (v + 1) + l
      BY <1>1, <2>2
    <2> QED
      BY <2>1, <2>3, <2>4 DEF Blocked
  <1> QED
    BY <1>3, <1>4

\* Where the loop fails the rest of the pattern does not match; and where it does
\* not, nothing is lost by having passed over as little of the value as it has:
\* what matches further on matches here.
Greedy(pattern, value, p, v) ==
  /\ Blocked(pattern, value, p, v) => ~Matches(pattern, value, p, v)
  /\ ~Blocked(pattern, value, p, v) =>
       \A j \in v .. Len(value) + 1 :
         Matches(pattern, value, p, j) => Matches(pattern, value, p, v)

LEMMA AlwaysGreedy ==
  ASSUME NEW pattern \in Seq(Characters), NEW value \in Seq(Characters \ {"*"})
  PROVE  \A p \in 1 .. Len(pattern) + 1, v \in 1 .. Len(value) + 1 :
           Greedy(pattern, value, p, v)
  <1> DEFINE m == Len(pattern)
             n == Len(value)
             S == {d \in 0 .. n : \A p \in 1 .. m + 1, v \in 1 .. n + 1 :
                                    v = n + 1 - d => Greedy(pattern, value, p, v)}
  <1>1. m \in Nat /\ n \in Nat /\ value \in Seq(Characters)
    OBVIOUS
  <1>2. 0 \in S
    <2>1. ASSUME NEW p \in 1 .. m + 1 PROVE Greedy(pattern, value, p, n + 1)
      <3>1. n + 1 \in 1 .. n + 1 /\ ~ (n + 1 <= n) /\ \A j \in n + 1 .. n + 1 : j = n + 1
        BY <1>1
      <3>2. ~Blocked(pattern, value, p, n + 1)
        BY <1>1, <3>1, BlockedFirst
      <3> QED
        BY <3>1, <3>2 DEF Greedy
    <2> QED
      BY <1>1, <2>1
  <1>3. ASSUME NEW d \in 0 .. n, d \in S, d < n PROVE d + 1 \in S
    <2>1. ASSUME NEW p \in 1 .. m + 1, NEW v \in 1 .. n + 1, v = n + 1 - (d + 1)
          PROVE  Greedy(pattern, value, p, v)
      <3>1. v \in 1 .. n /\ v + 1 \in 1 .. n + 1 /\ v + 1 = n + 1 - d
        BY <1>1, <1>3, <2>1
      <3>2. CASE Stuck(pattern, value, p, v)
        <4>1. Blocked(pattern, value, p, v)
          BY <1>1, <3>2, StuckBlocked
        <4>2. ~Matches(pattern, value, p, v)
          <5>1. CASE p = m + 1
            BY <1>1, <3>1, <5>1, MatchesEnd
          <5>2. CASE p # m + 1
            <6>1. p \in 1 .. m /\ pattern[p] # "*" /\ ~takes(pattern[p], value[v])
              BY <1>1, <3>2, <5>2 DEF Stuck
            <6> QED
              BY <1>1, <6>1, MatchesCharacter
          <5> QED
            BY <5>1, <5>2
        <4> QED
          BY <4>1, <4>2 DEF Greedy
      <3>3. CASE ~Stuck(pattern, value, p, v) /\ pattern[p] = "*"
        <4>1. p \in 1 .. m
          BY <1>1, <3>1, <3>3 DEF Stuck
        <4>2. ~Blocked(pattern, value, p, v)
          BY <1>1, <3>1, <3>3, BlockedFirst, NoStar
        <4>3. ASSUME NEW j \in v .. n + 1, Matches(pattern, value, p, j)
              PROVE  Matches(pattern, value, p, v)
          <5>1. j \in 1 .. n + 1
            BY <1>1
          <5>2. PICK i \in j .. n + 1 : Matches(pattern, value, p + 1, i)
            BY <1>1, <3>3, <4>1, <4>3, <5>1, MatchesStar
          <5>3. i \in v .. n + 1
            BY <1>1, <5>1
          <5> QED
            BY <1>1, <3>3, <4>1, <5>2, <5>3, MatchesStar
        <4> QED
          BY <4>2, <4>3 DEF Greedy
      <3>4. CASE ~Stuck(pattern, value, p, v) /\ pattern[p] # "*"
        <4>1. p \in 1 .. m /\ p + 1 \in 1 .. m + 1 /\ takes(pattern[p], value[v])
          BY <1>1, <3>1, <3>4 DEF Stuck
        <4>2. Blocked(pattern, value, p, v) <=> Blocked(pattern, value, p + 1, v + 1)
          BY <3>1, <4>1, BlockedNext
        <4>3. Matches(pattern, value, p, v) <=> Matches(pattern, value, p + 1, v + 1)
          BY <1>1, <3>1, <3>4, <4>1, MatchesCharacter
        <4>4. Greedy(pattern, value, p + 1, v + 1)
          BY <1>3, <3>1, <4>1
        <4>5. ASSUME NEW j \in v .. n + 1, Matches(pattern, value, p, j),
                     ~Blocked(pattern, value, p + 1, v + 1)
              PROVE  Matches(pattern, value, p + 1, v + 1)
          <5>1. j \in 1 .. n + 1
            BY <1>1
          <5>2. j <= n /\ Matches(pattern, value, p + 1, j + 1)
            BY <1>1, <3>4, <4>1, <4>5, <5>1, MatchesCharacter
          <5>3. j + 1 \in v + 1 .. n + 1
            BY <1>1, <5>1, <5>2
          <5> QED
            BY <4>4, <4>5, <5>2, <5>3 DEF Greedy
        <4> QED
          BY <4>2, <4>3, <4>4, <4>5 DEF Greedy
      <3> QED
        BY <3>2, <3>3, <3>4
    <2>2. d + 1 \in 0 .. n
      BY <1>1, <1>3
    <2> QED
      BY <2>1, <2>2
  <1>4. \A d \in 0 .. n : d \in S
    <2> HIDE DEF S
    <2> QED
      BY <1>1, <1>2, <1>3, BoundedInduction
  <1>5. ASSUME NEW p \in 1 .. m + 1, NEW v \in 1 .. n + 1 PROVE Greedy(pattern, value, p, v)
    <2>1. PICK d \in 0 .. n : v = n + 1 - d
      <3>1. n + 1 - v \in 0 .. n /\ v = n + 1 - (n + 1 - v)
        BY <1>1
      <3> QED
        BY <3>1
    <2> QED
      BY <1>4, <2>1
  <1> QED
    BY <1>5

-------------------------------------------------------------------------------
(* The loop of matchesGlob().                                              *)

\* The position of the next iteration.
Successor(pattern, value, at) ==
  IF at.p <= Len(pattern) /\ takes(pattern[at.p], value[at.v])
  THEN At(at.p + 1, at.v + 1, at.star, at.mark)
  ELSE IF at.p <= Len(pattern) /\ pattern[at.p] = "*"
  THEN At(at.p + 1, at.v, at.p, at.v)
  ELSE At(at.star + 1, at.mark + 1, at.star, at.mark + 1)

\* The iteration is the last one.
Ends(pattern, value, at) ==
  \/ at.v > Len(value)
  \/ /\ ~ (at.p <= Len(pattern) /\ takes(pattern[at.p], value[at.v]))
     /\ ~ (at.p <= Len(pattern) /\ pattern[at.p] = "*")
     /\ at.star = 0

AtEnd(pattern, value, at) ==
  at.v > Len(value) /\ \A rest \in at.p .. Len(pattern) : pattern[rest] = "*"

\* An f the iterations agree with.
IsVerdict(pattern, value, f) ==
  f = [at \in Positions(pattern, value) |->
         IF Ends(pattern, value, at) THEN AtEnd(pattern, value, at)
         ELSE f[Successor(pattern, value, at)]]

\* What the loop finds out from a position: whether the rest of the pattern
\* matches or, where it fails, whether what follows the last '*' matches after
\* more characters for that '*'.
Verdict(pattern, value, at) ==
  IF Blocked(pattern, value, at.p, at.v)
  THEN /\ at.star # 0
       /\ \E j \in at.mark + 1 .. Len(value) + 1 : Matches(pattern, value, at.star + 1, j)
  ELSE Matches(pattern, value, at.p, at.v)

\* The next iteration goes on in the value, or goes back to a '*' for one more
\* character, or passes a '*' for the first time.
Advances(at, next) ==
  \/ next.star > at.star
  \/ next.star = at.star /\ next.mark > at.mark
  \/ next.star = at.star /\ next.mark = at.mark /\ next.v > at.v

LEMMA PositionRange ==
  ASSUME NEW pattern \in Seq(Characters), NEW value \in Seq(Characters),
         NEW at \in Positions(pattern, value)
  PROVE  /\ at.p \in 1 .. Len(pattern) + 1 /\ at.v \in 1 .. Len(value) + 1
         /\ at.star \in 0 .. Len(pattern) /\ at.mark \in 1 .. Len(value) + 1
         /\ at.star < at.p /\ at.mark <= at.v
  BY DEF Positions

LEMMA SuccessorAdvances ==
  ASSUME NEW pattern \in Seq(Characters), NEW value \in Seq(Characters),
         NEW at \in Positions(pattern, value), ~Ends(pattern, value, at)
  PROVE  /\ Successor(pattern, value, at) \in Positions(pattern, value)
         /\ Advances(at, Successor(pattern, value, at))
  <1> DEFINE m == Len(pattern)
             n == Len(value)
  <1>1. /\ m \in Nat /\ n \in Nat
        /\ at.p \in 1 .. m + 1 /\ at.v \in 1 .. n + 1
        /\ at.star \in 0 .. m /\ at.mark \in 1 .. n + 1
        /\ at.star < at.p /\ at.mark <= at.v
    BY PositionRange
  <1>2. at.v \in 1 .. n /\ at.mark \in 1 .. n
    BY <1>1 DEF Ends
  <1>3. CASE at.p <= m /\ takes(pattern[at.p], value[at.v])
    <2>1. Successor(pattern, value, at) = At(at.p + 1, at.v + 1, at.star, at.mark)
      BY <1>3 DEF Successor
    <2> QED
      BY <1>1, <1>2, <1>3, <2>1 DEF Positions, At, Advances
  <1>4. CASE /\ ~ (at.p <= m /\ takes(pattern[at.p], value[at.v]))
             /\ at.p <= m /\ pattern[at.p] = "*"
    <2>1. Successor(pattern, value, at) = At(at.p + 1, at.v, at.p, at.v)
      BY <1>4 DEF Successor
    <2> QED
      BY <1>1, <1>2, <1>4, <2>1 DEF Positions, At, Advances
  <1>5. CASE /\ ~ (at.p <= m /\ takes(pattern[at.p], value[at.v]))
             /\ ~ (at.p <= m /\ pattern[at.p] = "*")
    <2>1. Successor(pattern, value, at) = At(at.star + 1, at.mark + 1, at.star, at.mark + 1)
      BY <1>5 DEF Successor
    <2>2. at.star \in 1 .. m
      BY <1>1, <1>2, <1>5 DEF Ends
    <2> QED
      BY <1>1, <1>2, <2>1, <2>2 DEF Positions, At, Advances
  <1> QED
    BY <1>3, <1>4, <1>5

LEMMA MatchesAtEnd ==
  ASSUME NEW pattern \in Seq(Characters), NEW value \in Seq(Characters)
  PROVE  \A p \in 1 .. Len(pattern) + 1 :
           Matches(pattern, value, p, Len(value) + 1)
             <=> \A rest \in p .. Len(pattern) : pattern[rest] = "*"
  <1> DEFINE m == Len(pattern)
             n == Len(value)
             Claim(p) == Matches(pattern, value, p, n + 1)
                           <=> \A rest \in p .. m : pattern[rest] = "*"
             S == {d \in 0 .. m : Claim(m + 1 - d)}
  <1>1. m \in Nat /\ n \in Nat /\ n + 1 \in 1 .. n + 1
    OBVIOUS
  <1>2. 0 \in S
    <2>1. Claim(m + 1)
      BY <1>1, MatchesEnd
    <2> HIDE DEF Claim
    <2>2. m + 1 - 0 = m + 1 /\ 0 \in 0 .. m
      BY <1>1
    <2> QED
      BY <2>1, <2>2
  <1>3. ASSUME NEW d \in 0 .. m, d \in S, d < m PROVE d + 1 \in S
    <2>1. PICK p \in 1 .. m : p = m + 1 - (d + 1) /\ p + 1 = m + 1 - d
      <3>1. /\ m + 1 - (d + 1) \in 1 .. m
            /\ (m + 1 - (d + 1)) + 1 = m + 1 - d
        BY <1>1, <1>3
      <3> QED
        BY <3>1
    <2>2. Claim(p + 1)
      BY <1>3, <2>1
    <2>3. \A rest \in p .. m : rest = p \/ rest \in p + 1 .. m
      BY <1>1, <2>1
    <2>4. \A rest \in p + 1 .. m : rest \in p .. m
      BY <1>1, <2>1
    <2>5. p \in p .. m
      BY <1>1, <2>1
    <2>6. CASE pattern[p] = "*"
      <3>1. Matches(pattern, value, p, n + 1) <=> \E j \in n + 1 .. n + 1 : Matches(pattern, value, p + 1, j)
        BY <1>1, <2>1, <2>6, MatchesStar
      <3>2. \A j \in n + 1 .. n + 1 : j = n + 1
        BY <1>1
      <3>3. Matches(pattern, value, p, n + 1) <=> Matches(pattern, value, p + 1, n + 1)
        BY <1>1, <3>1, <3>2
      <3>4. Claim(p)
        BY <2>2, <2>3, <2>4, <2>6, <3>3
      <3> QED
        BY <1>1, <1>3, <2>1, <3>4
    <2>7. CASE pattern[p] # "*"
      <3>1. ~Matches(pattern, value, p, n + 1)
        BY <1>1, <2>1, <2>7, MatchesCharacter
      <3>2. Claim(p)
        BY <2>5, <2>7, <3>1
      <3> QED
        BY <1>1, <1>3, <2>1, <3>2
    <2> QED
      BY <2>6, <2>7
  <1>4. \A d \in 0 .. m : d \in S
    <2> HIDE DEF S
    <2> QED
      BY <1>1, <1>2, <1>3, BoundedInduction
  <1>5. ASSUME NEW p \in 1 .. m + 1 PROVE Claim(p)
    <2>1. PICK d \in 0 .. m : p = m + 1 - d
      <3>1. m + 1 - p \in 0 .. m /\ p = m + 1 - (m + 1 - p)
        BY <1>1
      <3> QED
        BY <3>1
    <2> HIDE DEF Claim
    <2> QED
      BY <1>4, <2>1
  <1> QED
    BY <1>5

LEMMA VerdictBoolean ==
  ASSUME NEW pattern, NEW value, NEW at
  PROVE  Verdict(pattern, value, at) \in BOOLEAN /\ AtEnd(pattern, value, at) \in BOOLEAN
  BY DEF Verdict, Matches, AtEnd

LEMMA EqualTruths ==
  ASSUME NEW a \in BOOLEAN, NEW b \in BOOLEAN, a <=> b PROVE a = b
  OBVIOUS

LEMMA VerdictAtEnd ==
  ASSUME NEW pattern \in Seq(Characters), NEW value \in Seq(Characters \ {"*"}),
         NEW at \in Positions(pattern, value), Ends(pattern, value, at)
  PROVE  Verdict(pattern, value, at) <=> AtEnd(pattern, value, at)
  <1> DEFINE m == Len(pattern)
             n == Len(value)
  <1>1. m \in Nat /\ n \in Nat /\ value \in Seq(Characters)
    OBVIOUS
  <1>2. at.p \in 1 .. m + 1 /\ at.v \in 1 .. n + 1
    BY <1>1, PositionRange
  <1>3. CASE at.v > n
    <2>1. at.v = n + 1 /\ ~ (at.v <= n)
      BY <1>1, <1>2, <1>3
    <2>2. ~Blocked(pattern, value, at.p, at.v)
      BY <1>1, <1>2, <2>1, BlockedFirst
    <2> QED
      BY <1>1, <1>2, <1>3, <2>1, <2>2, MatchesAtEnd DEF Verdict, AtEnd
  <1>4. CASE ~ (at.v > n)
    <2>1. Stuck(pattern, value, at.p, at.v) /\ at.star = 0
      BY <1>1, <1>2, <1>4 DEF Stuck, Ends
    <2>2. Blocked(pattern, value, at.p, at.v)
      BY <1>1, <1>2, <2>1, StuckBlocked
    <2> QED
      BY <1>4, <2>1, <2>2 DEF Verdict, AtEnd
  <1> QED
    BY <1>3, <1>4

LEMMA VerdictKept ==
  ASSUME NEW pattern \in Seq(Characters), NEW value \in Seq(Characters \ {"*"}),
         NEW at \in Positions(pattern, value), ~Ends(pattern, value, at)
  PROVE  Verdict(pattern, value, at)
           <=> Verdict(pattern, value, Successor(pattern, value, at))
  <1> DEFINE m == Len(pattern)
             n == Len(value)
             next == Successor(pattern, value, at)
  <1>1. m \in Nat /\ n \in Nat /\ value \in Seq(Characters)
    OBVIOUS
  <1>2. /\ at.p \in 1 .. m + 1 /\ at.v \in 1 .. n + 1
        /\ at.star \in 0 .. m /\ at.mark \in 1 .. n + 1 /\ at.mark <= at.v
    BY <1>1, PositionRange
  <1>3. at.v \in 1 .. n /\ at.mark \in 1 .. n
    BY <1>1, <1>2 DEF Ends
  <1>4. CASE at.p <= m /\ takes(pattern[at.p], value[at.v])
    <2>1. at.p \in 1 .. m /\ pattern[at.p] # "*"
      BY <1>1, <1>2, <1>3, <1>4, NoStar
    <2>2. next = At(at.p + 1, at.v + 1, at.star, at.mark)
      BY <1>4 DEF Successor
    <2> QED
      <3>1. Blocked(pattern, value, at.p, at.v) <=> Blocked(pattern, value, at.p + 1, at.v + 1)
        BY <1>3, <1>4, <2>1, BlockedNext
      <3>2. Matches(pattern, value, at.p, at.v) <=> Matches(pattern, value, at.p + 1, at.v + 1)
        BY <1>1, <1>2, <1>3, <1>4, <2>1, MatchesCharacter
      <3>3. next.p = at.p + 1 /\ next.v = at.v + 1 /\ next.star = at.star /\ next.mark = at.mark
        BY <2>2 DEF At
      <3> HIDE DEF next
      <3>4. Verdict(pattern, value, at) <=> Verdict(pattern, value, next)
        BY <3>1, <3>2, <3>3 DEF Verdict
      <3> QED
        BY <3>4 DEF next
  <1>5. CASE /\ ~ (at.p <= m /\ takes(pattern[at.p], value[at.v]))
             /\ at.p <= m /\ pattern[at.p] = "*"
    <2>1. at.p \in 1 .. m /\ at.p # 0 /\ at.p + 1 \in 1 .. m + 1
      BY <1>1, <1>2, <1>5
    <2>2. next = At(at.p + 1, at.v, at.p, at.v)
      BY <1>5 DEF Successor
    <2>3. ~Blocked(pattern, value, at.p, at.v)
      BY <1>1, <1>2, <1>5, BlockedFirst DEF Stuck
    <2>4. Matches(pattern, value, at.p, at.v)
            <=> \E j \in at.v .. n + 1 : Matches(pattern, value, at.p + 1, j)
      BY <1>1, <1>2, <1>5, <2>1, MatchesStar
    <2>5. Greedy(pattern, value, at.p + 1, at.v)
      BY <1>1, <1>2, <2>1, AlwaysGreedy
    <2>6. \A j \in at.v .. n + 1 : j = at.v \/ j \in at.v + 1 .. n + 1
      BY <1>1, <1>2
    <2>7. at.v \in at.v .. n + 1 /\ \A j \in at.v + 1 .. n + 1 : j \in at.v .. n + 1
      BY <1>1, <1>2
    <2>8. Verdict(pattern, value, next)
            <=> IF Blocked(pattern, value, at.p + 1, at.v)
                THEN \E j \in at.v + 1 .. n + 1 : Matches(pattern, value, at.p + 1, j)
                ELSE Matches(pattern, value, at.p + 1, at.v)
      <3> HIDE DEF next
      <3> QED
        BY <2>1, <2>2 DEF Verdict, At
    <2>9. Verdict(pattern, value, next) <=> Matches(pattern, value, at.p, at.v)
      <3> HIDE DEF next
      <3>1. CASE Blocked(pattern, value, at.p + 1, at.v)
        BY <2>4, <2>5, <2>6, <2>7, <2>8, <3>1 DEF Greedy
      <3>2. CASE ~Blocked(pattern, value, at.p + 1, at.v)
        BY <2>4, <2>5, <2>7, <2>8, <3>2 DEF Greedy
      <3> QED
        BY <3>1, <3>2
    <2> QED
      BY <2>3, <2>9 DEF Verdict
  <1>6. CASE /\ ~ (at.p <= m /\ takes(pattern[at.p], value[at.v]))
             /\ ~ (at.p <= m /\ pattern[at.p] = "*")
    <2>1. Stuck(pattern, value, at.p, at.v)
      BY <1>1, <1>2, <1>3, <1>6 DEF Stuck
    <2>2. Blocked(pattern, value, at.p, at.v)
      BY <1>1, <1>2, <2>1, StuckBlocked
    <2>3. next = At(at.star + 1, at.mark + 1, at.star, at.mark + 1)
      BY <1>6 DEF Successor
    <2>4. at.star # 0 /\ at.star + 1 \in 1 .. m + 1 /\ at.mark + 1 \in 1 .. n + 1
      BY <1>1, <1>2, <1>3, <1>6 DEF Ends
    <2>5. Greedy(pattern, value, at.star + 1, at.mark + 1)
      BY <2>4, AlwaysGreedy
    <2>6. Verdict(pattern, value, next)
            <=> IF Blocked(pattern, value, at.star + 1, at.mark + 1)
                THEN \E j \in at.mark + 1 + 1 .. n + 1 : Matches(pattern, value, at.star + 1, j)
                ELSE Matches(pattern, value, at.star + 1, at.mark + 1)
      <3> HIDE DEF next
      <3> QED
        BY <2>3, <2>4 DEF Verdict, At
    <2>7. /\ \A j \in at.mark + 1 .. n + 1 : j = at.mark + 1 \/ j \in at.mark + 1 + 1 .. n + 1
          /\ at.mark + 1 \in at.mark + 1 .. n + 1
          /\ \A j \in at.mark + 1 + 1 .. n + 1 : j \in at.mark + 1 .. n + 1
      BY <1>1, <1>2, <1>3
    <2>8. Verdict(pattern, value, next)
            <=> \E j \in at.mark + 1 .. n + 1 : Matches(pattern, value, at.star + 1, j)
      <3> HIDE DEF next
      <3>1. CASE Blocked(pattern, value, at.star + 1, at.mark + 1)
        BY <2>5, <2>6, <2>7, <3>1 DEF Greedy
      <3>2. CASE ~Blocked(pattern, value, at.star + 1, at.mark + 1)
        BY <2>5, <2>6, <2>7, <3>2 DEF Greedy
      <3> QED
        BY <3>1, <3>2
    <2> QED
      BY <2>2, <2>4, <2>8 DEF Verdict
  <1> QED
    BY <1>4, <1>5, <1>6

\* An iteration advances, so the verdict is the only one there is.
LEMMA VerdictUnique ==
  ASSUME NEW pattern \in Seq(Characters), NEW value \in Seq(Characters \ {"*"}),
         NEW f, IsVerdict(pattern, value, f)
  PROVE  \A at \in Positions(pattern, value) : f[at] = Verdict(pattern, value, at)
  <1> DEFINE m == Len(pattern)
             n == Len(value)
             P == Positions(pattern, value)
             Bad == {at \in P : f[at] # Verdict(pattern, value, at)}
  <1> SUFFICES ASSUME Bad # {} PROVE FALSE
    OBVIOUS
  <1>1. m \in Nat /\ n \in Nat /\ value \in Seq(Characters)
    OBVIOUS
  <1>2. ASSUME NEW at \in P
        PROVE  m - at.star \in Nat /\ n + 1 - at.mark \in Nat /\ n + 1 - at.v \in Nat
    <2>1. at.star \in 0 .. m /\ at.mark \in 1 .. n + 1 /\ at.v \in 1 .. n + 1
      BY <1>1, PositionRange
    <2> QED
      BY <1>1, <2>1
  <1>3. Bad \subseteq P
    OBVIOUS
  <1>4. PICK at \in Bad : \A s \in Bad : ~Advances(at, s)
    <2> HIDE DEF Bad, P
    <2> DEFINE A == {m - s.star : s \in Bad}
    <2>1. PICK a \in A : \A x \in A : a <= x
      <3>1. A \subseteq Nat /\ A # {}
        BY <1>2, <1>3
      <3> HIDE DEF A
      <3> QED
        BY <3>1, LeastElement
    <2> DEFINE Bad1 == {s \in Bad : m - s.star = a}
               B == {n + 1 - s.mark : s \in Bad1}
    <2>2. PICK b \in B : \A x \in B : b <= x
      <3>1. B \subseteq Nat /\ B # {}
        BY <1>2, <1>3
      <3> HIDE DEF B
      <3> QED
        BY <3>1, LeastElement
    <2> DEFINE Bad2 == {s \in Bad1 : n + 1 - s.mark = b}
               C == {n + 1 - s.v : s \in Bad2}
    <2>3. PICK c \in C : \A x \in C : c <= x
      <3>1. C \subseteq Nat /\ C # {}
        BY <1>2, <1>3
      <3> HIDE DEF C
      <3> QED
        BY <3>1, LeastElement
    <2>4. PICK at \in Bad2 : c = n + 1 - at.v
      OBVIOUS
    <2>5. at \in Bad /\ m - at.star = a /\ n + 1 - at.mark = b
      OBVIOUS
    <2>6. ASSUME NEW s \in Bad PROVE ~Advances(at, s)
      <3>1. a <= m - s.star
        BY <2>1
      <3>2. m - s.star = a => b <= n + 1 - s.mark
        BY <2>2
      <3>3. m - s.star = a /\ n + 1 - s.mark = b => c <= n + 1 - s.v
        BY <2>3
      <3>4. s \in P /\ at \in P
        BY <1>3, <2>5
      <3>5. /\ s.star \in Int /\ s.mark \in Int /\ s.v \in Int
            /\ at.star \in Int /\ at.mark \in Int /\ at.v \in Int
        BY <1>1, <3>4, PositionRange DEF P
      <3> HIDE DEF A, B, C, Bad1, Bad2
      <3>6. ~ (s.star > at.star)
        BY <1>1, <2>5, <3>1, <3>5
      <3>7. ~ (s.star = at.star /\ s.mark > at.mark)
        BY <1>1, <2>5, <3>2, <3>5
      <3>8. ~ (s.star = at.star /\ s.mark = at.mark /\ s.v > at.v)
        BY <1>1, <2>4, <2>5, <3>3, <3>5, SMTT(30)
      <3> QED
        BY <3>6, <3>7, <3>8 DEF Advances
    <2> QED
      BY <2>5, <2>6
  <1>5. at \in P /\ f[at] # Verdict(pattern, value, at)
    OBVIOUS
  <1>6. f[at] = IF Ends(pattern, value, at) THEN AtEnd(pattern, value, at)
                ELSE f[Successor(pattern, value, at)]
    BY <1>5 DEF IsVerdict
  <1>7. CASE Ends(pattern, value, at)
    <2>1. f[at] = AtEnd(pattern, value, at)
      BY <1>6, <1>7
    <2>2. Verdict(pattern, value, at) <=> AtEnd(pattern, value, at)
      BY <1>5, <1>7, VerdictAtEnd
    <2>3. Verdict(pattern, value, at) = AtEnd(pattern, value, at)
      BY <2>2, VerdictBoolean, EqualTruths
    <2> QED
      BY <1>5, <2>1, <2>3
  <1>8. CASE ~Ends(pattern, value, at)
    <2> DEFINE next == Successor(pattern, value, at)
    <2>1. next \in P /\ Advances(at, next)
      BY <1>1, <1>5, <1>8, SuccessorAdvances
    <2> HIDE DEF Bad
    <2>2. next \notin Bad
      BY <1>4, <2>1
    <2>3. f[next] = Verdict(pattern, value, next)
      BY <2>1, <2>2 DEF Bad
    <2>4. f[at] = f[next]
      BY <1>6, <1>8
    <2>5. Verdict(pattern, value, at) <=> Verdict(pattern, value, next)
      BY <1>5, <1>8, VerdictKept
    <2>6. Verdict(pattern, value, at) = Verdict(pattern, value, next)
      BY <2>5, VerdictBoolean, EqualTruths
    <2> HIDE DEF next
    <2> QED
      BY <1>5, <2>3, <2>4, <2>6
  <1> QED
    BY <1>7, <1>8

\* matchesGlob() says what a glob means.
THEOREM GlobsMatchExactly ==
  ASSUME NEW pattern \in Seq(Characters), NEW value \in Seq(Characters \ {"*"})
  PROVE  matchesGlob(pattern, value) <=> GlobMatches(pattern, value)
  <1> DEFINE P == Positions(pattern, value)
             g == [at \in P |-> Verdict(pattern, value, at)]
             Body(f, at) ==
               IF at.v > Len(value)
               THEN \A rest \in at.p .. Len(pattern) : pattern[rest] = "*"
               ELSE IF at.p <= Len(pattern) /\ takes(pattern[at.p], value[at.v])
               THEN f[At(at.p + 1, at.v + 1, at.star, at.mark)]
               ELSE IF at.p <= Len(pattern) /\ pattern[at.p] = "*"
               THEN f[At(at.p + 1, at.v, at.p, at.v)]
               ELSE IF at.star # 0
               THEN f[At(at.star + 1, at.mark + 1, at.star, at.mark + 1)]
               ELSE FALSE
             loop == CHOOSE f : f = [at \in P |-> Body(f, at)]
             start == At(1, 1, 0, 1)
  <1>1. Len(pattern) \in Nat /\ Len(value) \in Nat /\ value \in Seq(Characters)
    OBVIOUS
  <1>2. start \in P
    BY <1>1 DEF Positions, At
  <1>3. matchesGlob(pattern, value) = loop[start]
    BY DEF matchesGlob
  <1>4. ASSUME NEW f, NEW at \in P
        PROVE  Body(f, at) = IF Ends(pattern, value, at) THEN AtEnd(pattern, value, at)
                             ELSE f[Successor(pattern, value, at)]
    <2>1. CASE at.v > Len(value)
      BY <2>1 DEF Ends, AtEnd
    <2>2. CASE ~ (at.v > Len(value))
      BY <2>2 DEF Ends, AtEnd, Successor
    <2> QED
      BY <2>1, <2>2
  <1> HIDE DEF Body
  <1>5. ASSUME NEW f PROVE f = [at \in P |-> Body(f, at)] <=> IsVerdict(pattern, value, f)
    BY <1>4 DEF IsVerdict
  <1>6. IsVerdict(pattern, value, g)
    <2>1. \A at \in P : g[at] = IF Ends(pattern, value, at) THEN AtEnd(pattern, value, at)
                                ELSE g[Successor(pattern, value, at)]
      <3>1. ASSUME NEW at \in P, Ends(pattern, value, at) PROVE g[at] = AtEnd(pattern, value, at)
        <4>1. Verdict(pattern, value, at) <=> AtEnd(pattern, value, at)
          BY <3>1, VerdictAtEnd
        <4>2. Verdict(pattern, value, at) = AtEnd(pattern, value, at)
          BY <4>1, VerdictBoolean, EqualTruths
        <4> QED
          BY <4>2
      <3>2. ASSUME NEW at \in P, ~Ends(pattern, value, at)
            PROVE  g[at] = g[Successor(pattern, value, at)]
        <4>1. Successor(pattern, value, at) \in P
          BY <1>1, <3>2, SuccessorAdvances
        <4>2. Verdict(pattern, value, at) <=> Verdict(pattern, value, Successor(pattern, value, at))
          BY <3>2, VerdictKept
        <4>3. Verdict(pattern, value, at) = Verdict(pattern, value, Successor(pattern, value, at))
          BY <4>2, VerdictBoolean, EqualTruths
        <4> QED
          BY <4>1, <4>3
      <3> HIDE DEF g
      <3> QED
        BY <3>1, <3>2
    <2>2. g = [at \in P |-> g[at]]
      OBVIOUS
    <2> HIDE DEF g
    <2> QED
      BY <2>1, <2>2 DEF IsVerdict
  <1>7. IsVerdict(pattern, value, loop)
    <2>1. \E f : f = [at \in P |-> Body(f, at)]
      BY <1>5, <1>6
    <2>2. loop = [at \in P |-> Body(loop, at)]
      BY <2>1
    <2> HIDE DEF loop
    <2> QED
      BY <1>5, <2>2
  <1> HIDE DEF loop, start, g
  <1>8. loop[start] = Verdict(pattern, value, start)
    BY <1>2, <1>7, VerdictUnique
  <1>9. Verdict(pattern, value, start) <=> Matches(pattern, value, 1, 1)
    <2>1. start.p = 1 /\ start.v = 1 /\ start.star = 0
      BY DEF start, At
    <2>2. Greedy(pattern, value, 1, 1)
      BY <1>1, AlwaysGreedy
    <2> QED
      BY <2>1, <2>2 DEF Verdict, Greedy
  <1> QED
    BY <1>1, <1>3, <1>8, <1>9, GlobMatchesAll

-------------------------------------------------------------------------------
USE PackageAssumption, RuleAssumption, InventoryAssumption

(* Where the list comes from.  A COM call is made by a source that nothing *)
(* has degraded yet, a file system call by the one asked for or by the one *)
(* degraded to, and a list under construction is of the source at work.    *)

FileSystemCalls == {"packagesDirectory", "isDirectory", "open", "visit", "increment"}

OriginInv ==
  /\ outcome = "running" <=> step # "end"
  /\ step \in ComCalls =>
       /\ requested # "FileSystem" /\ degraded = << >> /\ resolved = "Auto"
       /\ \A entry \in packages : entry.origin = "Com"
  /\ step \in FileSystemCalls =>
       /\ \/ requested = "FileSystem" /\ degraded = << >>
          \/ requested = "Auto" /\ Len(degraded) = 1 /\ resolved = "FileSystem"
       /\ \A entry \in packages : entry.origin = "FileSystem"
  /\ outcome = "packages" => Origin \in {"Com", "FileSystem"}
  /\ SourceAsRequested

\* Between two of its calls a match is being looked at.
MatchInv == step \in MatchCalls => current # 0

SourceInv == SourceTypeOK /\ MatchInv /\ OriginInv

LEMMA Calls ==
  /\ ComCalls = {"PackageManager", "GetLocalPackageCatalog", "Connect", "ConnectResult",
                 "FindPackagesOptions", "PackageMatchFilter", "Filters", "FindPackages",
                 "Status", "Matches", "NextMatch", "InstalledVersion", "InstallerType",
                 "InstalledLocation", "Id"}
  /\ AfterCall \in [ComCalls -> ComCalls]
  /\ FatalCalls \cup MatchCalls \cup {"NextMatch"} \subseteq ComCalls
  BY DEF ComCalls, AfterCall, FatalCalls, MatchCalls, Initialization, Activations

LEMMA KindsOfErrors ==
  /\ \A hresult : mapHresultToKind(hresult) \in PackageSourceErrorKind \ {"ScanFailed"}
  /\ \A status : classifyFindPackagesStatus(status) \in PackageSourceErrorKind \ {"ScanFailed"}
  BY DEF mapHresultToKind, classifyFindPackagesStatus, PackageSourceErrorKind

LEMMA SourceInitInv == SourceInit => SourceInv
  BY Calls DEF SourceInit, SourceInv, SourceTypeOK, OriginInv, FileSystemCalls, MatchInv,
               MatchCalls, SourceAsRequested, Origin, InstalledPackage, PackageSourceErrorKind

\* A COM source that fails.
LEMMA UnavailableInv ==
  ASSUME SourceInv, step \in ComCalls,
         NEW kind \in PackageSourceErrorKind \ {"ScanFailed"}, Unavailable(kind)
  PROVE  SourceInv'
  <1>1. degraded = << >> /\ requested \in {"Auto", "Com"} /\ resolved = "Auto" /\ outcome = "running"
    BY Calls DEF SourceInv, OriginInv, SourceTypeOK
  <1>2. SourceTypeOK'
    <2>1. degraded' \in Seq(PackageSourceErrorKind) /\ step' \in {"packagesDirectory", "end"}
      <3>1. degraded \in Seq(PackageSourceErrorKind) /\ kind \in PackageSourceErrorKind
        BY DEF SourceInv, SourceTypeOK
      <3>2. Append(degraded, kind) \in Seq(PackageSourceErrorKind)
        BY <3>1
      <3> QED
        BY <3>1, <3>2 DEF Unavailable, Throw
    <2>2. /\ outcome' \in {"running"} \cup PackageSourceErrorKind
          /\ resolved' \in {"Auto", "FileSystem"}
          /\ packages' = {} /\ swallowed' = {} /\ current' = 0 /\ server' = "released"
      BY <1>1 DEF Unavailable, Throw
    <2>3. UNCHANGED <<requested, root, unvisited>> /\ 0 \in 0 .. Len(Catalog)
      BY DEF Unavailable
    <2> QED
      BY <2>1, <2>2, <2>3 DEF SourceInv, SourceTypeOK
  <1>3. OriginInv'
    <2>1. CASE requested = "Auto"
      <3>1. degraded' = <<kind>> /\ step' = "packagesDirectory"
        BY <1>1, <2>1 DEF Unavailable
      <3>2. Len(degraded') = 1
        BY <3>1
      <3> QED
        BY <1>1, <2>1, <3>1, <3>2, Calls
           DEF Unavailable, OriginInv, FileSystemCalls, SourceAsRequested, Origin
    <2>2. CASE requested = "Com"
      BY <1>1, <2>2, Calls DEF Unavailable, Throw, OriginInv, FileSystemCalls,
                               SourceAsRequested, Origin, PackageSourceErrorKind
    <2> QED
      BY <1>1, <2>1, <2>2
  <1>4. MatchInv'
    BY <1>1 DEF MatchInv, MatchCalls, Unavailable, Throw
  <1> QED
    BY <1>2, <1>3, <1>4 DEF SourceInv

LEMMA FailuresUnavailable ==
  ASSUME \/ \E call \in FatalCalls \cup {"NextMatch"} : CallFails(call)
         \/ ConnectNotOk
         \/ FindNotOk
  PROVE  /\ step \in ComCalls
         /\ \E kind \in PackageSourceErrorKind \ {"ScanFailed"} : Unavailable(kind)
  <1>1. CASE \E call \in FatalCalls \cup {"NextMatch"} : CallFails(call)
    BY <1>1, Calls, KindsOfErrors DEF CallFails, Fails
  <1>2. CASE ConnectNotOk
    BY <1>2, Calls DEF ConnectNotOk, Returns, PackageSourceErrorKind
  <1>3. CASE FindNotOk
    BY <1>3, Calls, KindsOfErrors DEF FindNotOk, Returns
  <1> QED
    BY <1>1, <1>2, <1>3

\* The match looked at is one of the server's.
LEMMA MatchInCatalog ==
  ASSUME SourceTypeOK, current # 0
  PROVE  current \in DOMAIN Catalog /\ Match \in Packages
  <1>1. current \in 1 .. Len(Catalog)
    BY DEF SourceTypeOK
  <1> QED
    BY <1>1 DEF Match

LEMMA ComType ==
  ASSUME SourceTypeOK, MatchInv,
         \/ \E call \in FatalCalls : Call(call)
         \/ GetAt
         \/ \E call \in MatchCalls : MatchCall(call) \/ MatchCallFails(call)
         \/ ComReturns
  PROVE  SourceTypeOK' /\ MatchInv'
  <1> USE DEF MatchInv
  <1>1. CASE \E call \in FatalCalls : Call(call)
    <2>1. PICK call \in FatalCalls : Call(call)
      BY <1>1
    <2>2. AfterCall[call] \in ComCalls /\ AfterCall[call] \notin MatchCalls
      BY Calls DEF AfterCall, FatalCalls, MatchCalls, Initialization, Activations
    <2> QED
      BY <2>1, <2>2 DEF Call, SourceTypeOK
  <1>2. CASE GetAt
    <2>1. current + 1 \in 0 .. Len(Catalog) /\ current + 1 # 0 /\ "InstalledVersion" \in ComCalls
      BY <1>2, Calls DEF GetAt, SourceTypeOK
    <2> QED
      BY <1>2, <2>1 DEF GetAt, SourceTypeOK
  <1>3. CASE \E call \in MatchCalls : MatchCall(call)
    <2>1. PICK call \in MatchCalls : MatchCall(call)
      BY <1>3
    <2>2. step = call /\ current # 0 /\ Match \in Packages
      BY <2>1, MatchInCatalog DEF MatchCall, Returns
    <2>3. AfterCall[call] \in ComCalls /\ "NextMatch" \in ComCalls /\ "NextMatch" \notin MatchCalls
      BY Calls DEF AfterCall, MatchCalls
    <2>4. CASE call = "Id"
      <3>1. PICK found \in SUBSET ExecutablesOf[Match] : Listed(Match, found)
        BY <2>1, <2>4 DEF MatchCall
      <3>2. found \subseteq Executables
        BY <2>2, <3>1
      <3>3. packages' \subseteq InstalledPackage
        BY <2>2, <3>1, <3>2 DEF Listed, SourceTypeOK, InstalledPackage
      <3>4. swallowed' \subseteq Packages \X (HResults \cup {Disconnected, IoError})
        BY <2>2, <3>1 DEF Listed, SourceTypeOK
      <3> QED
        BY <2>1, <2>3, <2>4, <3>3, <3>4 DEF MatchCall, SourceTypeOK
    <2>5. CASE call # "Id"
      BY <2>1, <2>2, <2>3, <2>5 DEF MatchCall, SourceTypeOK
    <2> QED
      BY <2>4, <2>5
  <1>4. CASE \E call \in MatchCalls : MatchCallFails(call)
    <2>1. PICK call \in MatchCalls : MatchCallFails(call)
      BY <1>4
    <2>2. Match \in Packages
      BY <2>1, MatchInCatalog DEF MatchCallFails, Fails
    <2>3. swallowed' \subseteq Packages \X (HResults \cup {Disconnected, IoError})
      BY <2>1, <2>2 DEF MatchCallFails, SourceTypeOK
    <2>4. "NextMatch" \in ComCalls /\ "NextMatch" \notin MatchCalls
      BY Calls DEF MatchCalls
    <2> QED
      BY <2>1, <2>3, <2>4 DEF MatchCallFails, SourceTypeOK
  <1>5. CASE ComReturns
    <2>1. "end" \notin MatchCalls /\ 0 \in 0 .. Len(Catalog)
      BY DEF MatchCalls
    <2> QED
      BY <1>5, <2>1 DEF ComReturns, Return, SourceTypeOK
  <1> QED
    BY <1>1, <1>2, <1>3, <1>4, <1>5

LEMMA ComOrigin ==
  ASSUME SourceTypeOK, OriginInv,
         \/ \E call \in FatalCalls : Call(call)
         \/ GetAt
         \/ \E call \in MatchCalls : MatchCall(call) \/ MatchCallFails(call)
         \/ ComReturns
  PROVE  OriginInv'
  <1>1. /\ step \in ComCalls /\ UNCHANGED <<requested, degraded>>
        /\ requested \in {"Auto", "Com"} /\ degraded = << >> /\ resolved = "Auto"
        /\ outcome = "running"
        /\ \A entry \in packages : entry.origin = "Com"
    BY Calls DEF Call, GetAt, MatchCall, MatchCallFails, ComReturns, Returns, Fails,
                 OriginInv, SourceTypeOK
  <1>2. Len(degraded) = 0
    BY <1>1
  <1>3. CASE ComReturns
    BY <1>1, <1>2, <1>3, Calls DEF ComReturns, Return, OriginInv, SourceAsRequested, Origin,
                                   FileSystemCalls
  <1>4. CASE ~ComReturns
    <2>1. step' \in ComCalls /\ UNCHANGED <<resolved, outcome>>
      BY <1>4, Calls DEF Call, GetAt, MatchCall, MatchCallFails
    <2>2. \A entry \in packages' : entry.origin = "Com"
      BY <1>1, <1>4 DEF Call, GetAt, MatchCall, MatchCallFails, Listed
    <2> QED
      BY <1>1, <1>2, <2>1, <2>2, Calls DEF OriginInv, SourceAsRequested, Origin, FileSystemCalls
  <1> QED
    BY <1>3, <1>4

LEMMA FileSystemType ==
  ASSUME SourceTypeOK, MatchInv, FileSystemStep PROVE SourceTypeOK' /\ MatchInv'
  <1> USE DEF MatchInv, MatchCalls, fixed, Return, Throw
  <1>1. CASE PackagesDirectory \/ IsDirectory
    BY <1>1 DEF PackagesDirectory, IsDirectory, SourceTypeOK, PackageSourceErrorKind
  <1>2. CASE OpenDirectory
    BY <1>2 DEF OpenDirectory, SourceTypeOK, PackageSourceErrorKind, Entries
  <1>3. CASE \E p \in Packages : Visit(p)
    <2>1. PICK p \in Packages : Visit(p)
      BY <1>3
    <2>2. PICK misread \in BOOLEAN, found \in SUBSET ExecutablesOf[p] :
            LET entered == Folder[p] = "directory" \/ (misread /\ Folder[p] = "reparse")
            IN  /\ packages' = IF entered /\ found # {} /\ p \in Named
                               THEN packages \cup {[package |-> p, executables |-> found,
                                                    origin |-> "FileSystem"]}
                               ELSE packages
                /\ swallowed' = IF entered /\ (misread \/ found # ExecutablesOf[p])
                                THEN swallowed \cup {<<p, IoError>>}
                                ELSE swallowed
      BY <2>1 DEF Visit
    <2>3. [package |-> p, executables |-> found, origin |-> "FileSystem"] \in InstalledPackage
      BY <2>2 DEF InstalledPackage
    <2>4. <<p, IoError>> \in Packages \X (HResults \cup {Disconnected, IoError})
      OBVIOUS
    <2>5. /\ packages' \subseteq InstalledPackage
          /\ swallowed' \subseteq Packages \X (HResults \cup {Disconnected, IoError})
      BY <2>2, <2>3, <2>4 DEF SourceTypeOK
    <2> QED
      BY <2>1, <2>5 DEF Visit, SourceTypeOK
  <1>4. CASE Increment
    BY <1>4 DEF Increment, SourceTypeOK
  <1>5. CASE IncrementFails
    BY <1>5 DEF IncrementFails, SourceTypeOK, PackageSourceErrorKind
  <1> QED
    BY <1>1, <1>2, <1>3, <1>4, <1>5 DEF FileSystemStep

LEMMA FileSystemOrigin ==
  ASSUME SourceTypeOK, OriginInv, FileSystemStep PROVE OriginInv'
  <1>1. /\ step \in FileSystemCalls /\ UNCHANGED fixed /\ outcome = "running"
        /\ \/ requested = "FileSystem" /\ degraded = << >>
           \/ requested = "Auto" /\ Len(degraded) = 1 /\ resolved = "FileSystem"
        /\ \A entry \in packages : entry.origin = "FileSystem"
    BY DEF FileSystemStep, PackagesDirectory, IsDirectory, OpenDirectory, Visit, Increment,
           IncrementFails, OriginInv, FileSystemCalls
  <1>2. \A entry \in packages' : entry.origin = "FileSystem"
    BY <1>1 DEF FileSystemStep, PackagesDirectory, IsDirectory, OpenDirectory, Visit, Increment,
                IncrementFails, Return, Throw
  <1>3. /\ step' \in FileSystemCalls \cup {"end"}
        /\ step' = "end" <=> outcome' # "running"
        /\ outcome' \in {"running", "packages", "ScanFailed", "system_error"}
    BY <1>1 DEF FileSystemStep, PackagesDirectory, IsDirectory, OpenDirectory, Visit, Increment,
                IncrementFails, Return, Throw, FileSystemCalls
  <1>4. Origin' = "FileSystem" /\ Len(<< >>) = 0
    BY <1>1 DEF Origin, fixed
  <1>5. /\ requested' = "FileSystem" \/ degraded' # << >>
        /\ requested' # "Com"
        /\ Len(degraded') <= IF requested' = "Auto" THEN 1 ELSE 0
    <2>1. requested' = requested /\ degraded' = degraded
      BY <1>1 DEF fixed
    <2>2. CASE requested = "FileSystem" /\ degraded = << >>
      BY <1>4, <2>1, <2>2
    <2>3. CASE requested = "Auto" /\ Len(degraded) = 1
      <3>1. Len(degraded) # Len(<< >>)
        BY <1>4, <2>3
      <3>2. degraded # << >>
        BY <3>1
      <3> QED
        BY <2>1, <2>3, <3>2
    <2> QED
      BY <1>1, <2>2, <2>3
  <1>6. SourceAsRequested'
    BY <1>2, <1>3, <1>4, <1>5 DEF SourceAsRequested
  <1>7. step' \notin ComCalls
    BY <1>3, Calls DEF FileSystemCalls
  <1> QED
    BY <1>1, <1>2, <1>3, <1>4, <1>6, <1>7 DEF OriginInv, fixed

LEMMA StepSource == ASSUME SourceInv, SourceStep \/ ServerGone PROVE SourceInv'
  <1> USE DEF SourceInv
  <1>1. CASE \/ \E call \in FatalCalls \cup {"NextMatch"} : CallFails(call)
             \/ ConnectNotOk
             \/ FindNotOk
    <2>1. PICK kind \in PackageSourceErrorKind \ {"ScanFailed"} : Unavailable(kind)
      BY <1>1, FailuresUnavailable
    <2> QED
      BY <1>1, <2>1, FailuresUnavailable, UnavailableInv
  <1>2. CASE \/ \E call \in FatalCalls : Call(call)
             \/ GetAt
             \/ \E call \in MatchCalls : MatchCall(call) \/ MatchCallFails(call)
             \/ ComReturns
    BY <1>2, ComType, ComOrigin
  <1>3. CASE FileSystemStep
    BY <1>3, FileSystemType, FileSystemOrigin
  <1>4. CASE ServerGone
    BY <1>4 DEF ServerGone, SourceTypeOK, OriginInv, MatchInv, SourceAsRequested, Origin
  <1> QED
    BY <1>1, <1>2, <1>3, <1>4 DEF SourceStep, ComStep

-------------------------------------------------------------------------------
(* What is made of the packages and of the rules file.                     *)

LEMMA AliasType ==
  ASSUME NEW rs, NEW name
  PROVE  resolveAlias(rs, name) \in ValidAliases \cup {RegexError, NoAlias}
  <1>1. resolve(rs, name) \in ValidAliases \cup {RegexError, NoMatch}
    BY DEF resolve, isValidAliasFileName
  <1> QED
    BY <1>1 DEF resolveAlias, isValidAliasFileName

LEMMA FilterType ==
  ASSUME NEW list \in SUBSET InstalledPackage, NEW include, NEW exclude
  PROVE  apply(list, include, exclude) \subseteq InstalledPackage
  <1> DEFINE left(entry) ==
               {e \in entry.executables :
                  includesExecutable(include, exclude, IdOf[entry.package], FileName[e])}
  <1>1. ASSUME NEW entry \in list
        PROVE  [entry EXCEPT !.executables = left(entry)] \in InstalledPackage
    <2>1. entry \in InstalledPackage
      OBVIOUS
    <2>2. left(entry) \subseteq Executables
      BY <2>1 DEF InstalledPackage
    <2> HIDE DEF left
    <2> QED
      BY <2>1, <2>2 DEF InstalledPackage
  <1> HIDE DEF left
  <1>2. {[entry EXCEPT !.executables = left(entry)] :
           entry \in {entry \in list : left(entry) # {}}} \subseteq InstalledPackage
    BY <1>1
  <1> QED
    BY <1>2 DEF apply, left

AfterPackages == {"filter", "select", "preCheck", "open", "read", "verbose", "resolve"}

\* The rules in force are the first tier's.
Tiered == IF ~explicit /\ exists = "no"
          THEN rules = DefaultRules
          ELSE /\ exists # "error"
               /\ text # Absent
               /\ parses(text)
               /\ rules = text.rules

\* While the rules file is being loaded it has been found, and nothing of it has
\* been read; once there are rules they are of one tier; and what --verbose says
\* is said of a list that is complete.
TierInv ==
  /\ stage \in AfterPackages => outcome = "packages"
  /\ stage \in {"packages", "filter", "select"} => exists = "unasked"
  /\ stage \in {"preCheck", "open", "read"} => IF explicit THEN exists = "unasked"
                                                          ELSE exists = "yes"
  /\ stage \in AfterPackages \ {"verbose", "resolve"} => text = Absent
  /\ stage = "packages" => text = Absent
  /\ stage = "read" => rulesFile # Absent
  /\ stage \in {"verbose", "resolve"} => Tiered
  /\ items # {} => stage = "done" /\ Tiered
  /\ OversizeNeverParsed
  /\ stage \in ({"packages"} \cup AfterPackages) \ {"resolve"} => report = Unreported
  /\ ReportedSource

InventoryInv == TypeOK /\ SourceInv /\ TierInv

LEMMA InitInventory == Init => InventoryInv
  <1> SUFFICES ASSUME Init PROVE InventoryInv
    OBVIOUS
  <1>1. SourceInv
    BY SourceInitInv DEF Init
  <1>2. TypeOK
    <2>1. report \in [source : {"none", "com", "fs"},
                      rules : {"none", "explicit", "user", "defaults"}]
      BY DEF Init, Unreported
    <2>2. {includes, excludes} \subseteq PatternSets /\ rules \in Seq(AliasRule)
      BY DEF Init
    <2>3. edits \in 0 .. MaxEdits
      BY DEF Init
    <2> QED
      BY <1>1, <2>1, <2>2, <2>3 DEF SourceInv, Init, TypeOK
  <1>3. TierInv
    BY DEF Init, TierInv, AfterPackages, OversizeNeverParsed, ReportedSource, Unreported
  <1> QED
    BY <1>1, <1>2, <1>3 DEF InventoryInv

\* Whatever else goes on, the source takes a step of its own or none.
LEMMA SourceSteps == ASSUME [Next]_allVars PROVE SourceStep \/ ServerGone \/ UNCHANGED sourceVars
  BY DEF Next, Program, World, Source, Enumerated, Filter, Select, PreCheck, Open, Read,
         Verbose, Resolve, Edit, allVars, chosen, loading

LEMMA SourceKept == ASSUME SourceInv, [Next]_allVars PROVE SourceInv'
  <1>1. CASE SourceStep \/ ServerGone
    BY <1>1, StepSource
  <1>2. CASE UNCHANGED sourceVars
    BY <1>2 DEF sourceVars, SourceInv, SourceTypeOK, MatchInv, OriginInv, SourceAsRequested,
                Origin
  <1> QED
    BY <1>1, <1>2, SourceSteps

LEMMA StepInventoryType == ASSUME InventoryInv, [Next]_allVars PROVE TypeOK'
  <1> USE DEF InventoryInv
  <1>1. SourceInv'
    BY SourceKept
  <1>2. SourceTypeOK'
    BY <1>1 DEF SourceInv
  <1> USE DEF Go, Fail, chosen, loading, inventoryVars
  <1>3. CASE Source \/ (ServerGone /\ UNCHANGED inventoryVars) \/ UNCHANGED allVars
    BY <1>2, <1>3 DEF Source, TypeOK, allVars
  <1>4. CASE Enumerated
    BY <1>2, <1>4 DEF Enumerated, TypeOK
  <1>5. CASE Filter
    <2>1. kept' \subseteq InstalledPackage
      BY <1>5, FilterType DEF Filter, TypeOK, SourceTypeOK
    <2> QED
      BY <1>2, <1>5, <2>1 DEF Filter, TypeOK
  <1>6. CASE Select
    BY <1>2, <1>6 DEF Select, TypeOK
  <1>7. CASE PreCheck \/ Open
    BY <1>2, <1>7 DEF PreCheck, Open, TypeOK
  <1>8. CASE Read
    <2>1. rulesFile \in Texts
      BY <1>8 DEF Read, TypeOK, TierInv
    <2>2. rules' \in Seq(AliasRule)
      BY <1>8, <2>1 DEF Read, TypeOK
    <2> QED
      BY <1>2, <1>8, <2>1, <2>2 DEF Read, TypeOK
  <1>9. CASE Verbose
    <2>1. report' \in [source : {"none", "com", "fs"},
                       rules : {"none", "explicit", "user", "defaults"}]
      BY <1>9 DEF Verbose, TypeOK, Unreported
    <2> QED
      BY <1>2, <1>9, <2>1 DEF Verbose, TypeOK
  <1>10. CASE Resolve
    <2>1. items' \subseteq Item
      <3>1. CASE \E entry \in kept : \E e \in entry.executables :
                   resolveAlias(rules, NameOf[e]) = RegexError
        BY <1>10, <3>1 DEF Resolve, TypeOK
      <3>2. CASE ~ \E entry \in kept : \E e \in entry.executables :
                     resolveAlias(rules, NameOf[e]) = RegexError
        <4>1. ASSUME NEW entry \in kept, NEW e \in entry.executables,
                     resolveAlias(rules, NameOf[e]) # NoAlias
              PROVE  [package |-> entry.package, executable |-> e,
                      alias |-> resolveAlias(rules, NameOf[e])] \in Item
          <5>1. entry \in InstalledPackage
            BY DEF TypeOK
          <5>2. entry.package \in Packages /\ e \in Executables
            BY <5>1 DEF InstalledPackage
          <5>3. resolveAlias(rules, NameOf[e]) \in ValidAliases
            BY <3>2, <4>1, AliasType
          <5> QED
            BY <5>2, <5>3 DEF Item
        <4> QED
          BY <1>10, <3>2, <4>1 DEF Resolve
      <3> QED
        BY <3>1, <3>2
    <2> QED
      BY <1>2, <1>10, <2>1 DEF Resolve, TypeOK
  <1>11. CASE Edit
    BY <1>2, <1>11 DEF Edit, TypeOK
  <1> QED
    BY <1>3, <1>4, <1>5, <1>6, <1>7, <1>8, <1>9, <1>10, <1>11 DEF Next, Program, World

LEMMA StepTier == ASSUME InventoryInv, [Next]_allVars PROVE TierInv'
  <1> USE DEF InventoryInv, Go, Fail, chosen, loading, inventoryVars, Tiered,
              OversizeNeverParsed, AfterPackages
  <1>1. CASE Source \/ (stage = "packages" /\ ServerGone /\ UNCHANGED inventoryVars)
    BY <1>1 DEF Source, TierInv, ReportedSource, Unreported
  <1>2. CASE UNCHANGED allVars
    BY <1>2 DEF allVars, sourceVars, TierInv, ReportedSource, Origin
  <1>3. CASE Enumerated
    <2>1. /\ stage = "packages" /\ UNCHANGED sourceVars
          /\ stage' \in {"filter", "done"}
          /\ stage' = "filter" => outcome = "packages"
      <3>1. CASE outcome = "packages"
        BY <1>3, <3>1 DEF Enumerated
      <3>2. CASE outcome # "packages"
        BY <1>3, <3>2 DEF Enumerated
      <3> QED
        BY <3>1, <3>2
    <2>2. UNCHANGED <<exists, text, report, items>> /\ report = Unreported /\ items = {}
      BY <1>3 DEF Enumerated, TierInv
    <2>3. ReportedSource'
      BY <2>2 DEF ReportedSource, Unreported
    <2> QED
      BY <2>1, <2>2, <2>3 DEF TierInv, sourceVars
  <1>4. CASE Filter \/ Select \/ PreCheck \/ Open
    <2>1. report = Unreported /\ report' = Unreported /\ items = {} /\ items' = {}
      BY <1>4 DEF Filter, Select, PreCheck, Open, TierInv
    <2>2. ReportedSource'
      BY <2>1 DEF ReportedSource, Unreported
    <2>3. CASE Filter
      BY <2>1, <2>2, <2>3 DEF Filter, TierInv, sourceVars
    <2>4. CASE Select
      BY <2>1, <2>2, <2>4 DEF Select, TierInv, sourceVars
    <2>5. CASE PreCheck
      BY <2>1, <2>2, <2>5 DEF PreCheck, TierInv, sourceVars
    <2>6. CASE Open
      BY <2>1, <2>2, <2>6 DEF Open, TierInv, sourceVars
    <2> QED
      BY <1>4, <2>3, <2>4, <2>5, <2>6
  <1>5. CASE Read
    <2>1. report' = Unreported /\ items' = {} /\ outcome' = "packages"
      BY <1>5 DEF Read, TierInv, sourceVars
    <2>2. ReportedSource'
      BY <2>1 DEF ReportedSource, Unreported
    <2>3. rulesFile # Absent
      BY <1>5 DEF Read, TierInv
    <2> QED
      BY <1>5, <2>1, <2>2, <2>3 DEF Read, TierInv
  <1>6. CASE Verbose
    <2>1. outcome = "packages" /\ Tiered /\ items = {} /\ UNCHANGED sourceVars
      BY <1>6 DEF Verbose, TierInv
    <2>2. Origin = "FileSystem" <=> (requested = "FileSystem" \/ degraded # << >>)
      BY <2>1 DEF SourceInv, OriginInv, SourceAsRequested
    <2>3. Origin \in {"Com", "FileSystem"} /\ Origin' = Origin
      BY <2>1 DEF SourceInv, OriginInv, sourceVars, Origin
    <2>4. ReportedSource'
      BY <1>6, <2>2, <2>3 DEF Verbose, ReportedSource, Unreported, TierInv
    <2> QED
      BY <1>6, <2>1, <2>4 DEF Verbose, TierInv, sourceVars
  <1>7. CASE Resolve
    <2>1. Origin' = Origin
      BY <1>7 DEF Resolve, sourceVars, Origin
    <2> QED
      BY <1>7, <2>1 DEF Resolve, TierInv, ReportedSource
  <1>8. CASE Edit
    <2>1. Origin' = Origin
      BY <1>8 DEF Edit, sourceVars, Origin
    <2> QED
      BY <1>8, <2>1 DEF Edit, TierInv, ReportedSource, sourceVars
  <1> QED
    BY <1>1, <1>2, <1>3, <1>4, <1>5, <1>6, <1>7, <1>8 DEF Next, Program, World

-------------------------------------------------------------------------------
(* What is on the list.  Of a package no failed call was about, it has what *)
(* its source is there to find, once the match or the entry of that package *)
(* has been dealt with, and nothing before.                                 *)

Faultless(p) == \A fault \in swallowed : fault[1] # p

Listing(p) == {entry \in packages : entry.package = p}

Entry(p, origin) == [package |-> p, executables |-> ExecutablesOf[p], origin |-> origin]

DealtWith == IF step \in MatchCalls THEN current - 1 ELSE current

ComFinds(p) == /\ p \in Installed \cap Portable \cap Located
               /\ \E i \in 1 .. DealtWith : Catalog[i] = p

ScanFinds(p) == /\ Folder[p] = "directory" /\ p \in Named /\ ExecutablesOf[p] # {}
                /\ p \notin unvisited

ListInv ==
  /\ step \in ComCalls =>
       \A p \in Packages : Faultless(p) => Listing(p) = {e \in {Entry(p, "Com")} : ComFinds(p)}
  /\ step \in {"InstallerType", "InstalledLocation", "Id"} => Match \in Installed
  /\ step \in {"InstalledLocation", "Id"} => Match \in Portable
  /\ step = "Id" => Match \in Located
  /\ step \in {"packagesDirectory", "isDirectory", "open"} => packages = {} /\ swallowed = {}
  /\ step \in {"open", "visit", "increment"} => root = "directory"
  /\ step \in {"visit", "increment"} =>
       \A p \in Packages :
         Faultless(p) => Listing(p) = {e \in {Entry(p, "FileSystem")} : ScanFinds(p)}
  /\ OnlyFaultsAlter

LEMMA ListInit == SourceInit => ListInv
  <1> SUFFICES ASSUME SourceInit PROVE ListInv
    OBVIOUS
  <1>1. packages = {} /\ DealtWith = 0 /\ outcome = "running"
    BY DEF SourceInit, DealtWith, MatchCalls
  <1>2. \A p : Listing(p) = {} /\ ~ComFinds(p)
    BY <1>1 DEF Listing, ComFinds
  <1> QED
    BY <1>1, <1>2 DEF SourceInit, ListInv, OnlyFaultsAlter

\* The match looked at comes to the matches dealt with.
LEMMA NextDealtWith ==
  ASSUME SourceTypeOK, step \in MatchCalls, current # 0, step' = "NextMatch", UNCHANGED current
  PROVE  \A p : ComFinds(p)' <=> ComFinds(p) \/ (p = Match /\ p \in Installed \cap Portable \cap Located)
  <1>1. current \in 1 .. Len(Catalog)
    BY DEF SourceTypeOK
  <1>2. DealtWith = current - 1 /\ DealtWith' = current
    BY DEF DealtWith, MatchCalls
  <1>3. \A i \in 1 .. DealtWith' : i \in 1 .. DealtWith \/ i = current
    BY <1>1, <1>2
  <1>4. \A i \in 1 .. DealtWith : i \in 1 .. DealtWith'
    BY <1>1, <1>2
  <1>5. current \in 1 .. DealtWith'
    BY <1>1, <1>2
  <1> QED
    BY <1>3, <1>4, <1>5 DEF ComFinds, Match

\* The scan of the Packages directory.
LEMMA ScanList == ASSUME SourceInv, ListInv, FileSystemStep PROVE ListInv'
  <1> USE DEF SourceInv
  <1>1. step \in FileSystemCalls /\ UNCHANGED fixed
    BY DEF FileSystemStep, PackagesDirectory, IsDirectory, OpenDirectory, Visit, Increment,
           IncrementFails, FileSystemCalls
  <1>2. Origin = "FileSystem" /\ Origin' = "FileSystem" /\ outcome = "running"
    BY <1>1 DEF OriginInv, Origin, fixed, FileSystemCalls
  <1>3. \A p \in Packages :
          Expected(p)' = {e \in {Entry(p, "FileSystem")} :
                            /\ root = "directory" /\ Folder[p] = "directory"
                            /\ p \in Named /\ ExecutablesOf[p] # {}}
    BY <1>1, <1>2 DEF Expected, Entry, fixed
  <1>4. ASSUME step' = "end",
               outcome' = "packages" =>
                 \A p \in Packages : Faultless(p)' =>
                   Listing(p)' = {e \in {Entry(p, "FileSystem")} :
                                    /\ root = "directory" /\ Folder[p] = "directory"
                                    /\ p \in Named /\ ExecutablesOf[p] # {}}
        PROVE  ListInv'
    <2>1. OnlyFaultsAlter'
      BY <1>3, <1>4 DEF OnlyFaultsAlter, Faultless, Listing
    <2> QED
      BY <1>4, <2>1, Calls DEF ListInv
  <1>5. ASSUME step' \in FileSystemCalls, UNCHANGED outcome,
               step' \in {"packagesDirectory", "isDirectory", "open"} => packages' = {} /\ swallowed' = {},
               step' \in {"open", "visit", "increment"} => root' = "directory",
               step' \in {"visit", "increment"} =>
                 \A p \in Packages :
                   Faultless(p)' => Listing(p)' = {e \in {Entry(p, "FileSystem")} : ScanFinds(p)'}
        PROVE  ListInv'
    BY <1>2, <1>5, Calls DEF ListInv, OnlyFaultsAlter, FileSystemCalls
  <1>6. packages = {} => \A p : Listing(p) = {}
    BY DEF Listing
  <1>7. packages' = {} => \A p : Listing(p)' = {}
    BY DEF Listing
  <1> USE DEF Return, Throw, FileSystemCalls
  <1>8. CASE PackagesDirectory
    BY <1>4, <1>5, <1>8 DEF PackagesDirectory, ListInv
  <1>9. CASE IsDirectory
    <2>1. CASE step' = "end"
      BY <1>4, <1>7, <1>9, <2>1 DEF IsDirectory
    <2>2. CASE step' # "end"
      BY <1>1, <1>5, <1>9, <2>2 DEF IsDirectory, ListInv, fixed
    <2> QED
      BY <2>1, <2>2
  <1>10. CASE OpenDirectory
    <2>1. /\ step = "open" /\ packages = {} /\ packages' = {} /\ root = "directory"
          /\ unvisited' = Entries
      BY <1>10 DEF OpenDirectory, ListInv
    <2>2. \A p \in Packages : Folder[p] = "directory" => p \in Entries
      BY DEF Entries
    <2>3. CASE step' = "end"
      <3>1. outcome' = "packages" => Entries = {}
        BY <1>10, <1>2, <2>3 DEF OpenDirectory
      <3> QED
        BY <1>4, <1>7, <2>1, <2>2, <2>3, <3>1
    <2>4. CASE step' # "end"
      <3>1. step' = "visit" /\ UNCHANGED <<outcome, root>>
        BY <1>1, <1>10, <2>4 DEF OpenDirectory, fixed
      <3>2. \A p \in Packages : ~ScanFinds(p)'
        BY <2>1, <2>2 DEF ScanFinds
      <3> QED
        BY <1>5, <1>7, <2>1, <3>1, <3>2
    <2> QED
      BY <2>3, <2>4
  <1>11. CASE \E p \in Packages : Visit(p)
    <2>1. PICK q \in Packages : Visit(q)
      BY <1>11
    <2>2. PICK misread \in BOOLEAN, found \in SUBSET ExecutablesOf[q] :
            LET entered == Folder[q] = "directory" \/ (misread /\ Folder[q] = "reparse")
            IN  /\ packages' = IF entered /\ found # {} /\ q \in Named
                               THEN packages \cup {[package |-> q, executables |-> found,
                                                    origin |-> "FileSystem"]}
                               ELSE packages
                /\ swallowed' = IF entered /\ (misread \/ found # ExecutablesOf[q])
                                THEN swallowed \cup {<<q, IoError>>}
                                ELSE swallowed
      BY <2>1 DEF Visit
    <2>3. /\ step = "visit" /\ step' = "increment" /\ UNCHANGED <<outcome, root>>
          /\ q \in unvisited /\ unvisited' = unvisited \ {q} /\ root = "directory"
      BY <1>1, <2>1 DEF Visit, ListInv, fixed
    <2>4. ASSUME NEW p \in Packages, Faultless(p)'
          PROVE  Listing(p)' = {e \in {Entry(p, "FileSystem")} : ScanFinds(p)'}
      <3>1. Faultless(p)
        BY <2>2, <2>4 DEF Faultless
      <3>2. Listing(p) = {e \in {Entry(p, "FileSystem")} : ScanFinds(p)}
        BY <2>3, <3>1 DEF ListInv
      <3>3. CASE p = q
        <4>1. <<q, IoError>>[1] = q
          OBVIOUS
        <4>2. <<q, IoError>> \notin swallowed'
          BY <2>4, <3>3, <4>1 DEF Faultless
        <4>3. Listing(p) = {}
          BY <2>3, <3>2, <3>3 DEF ScanFinds
        <4>4. CASE Folder[q] = "directory"
          <5>1. found = ExecutablesOf[q]
            BY <2>2, <4>2, <4>4
          <5>2. packages' = IF ScanFinds(p)' THEN packages \cup {Entry(p, "FileSystem")}
                            ELSE packages
            BY <2>2, <2>3, <3>3, <4>4, <5>1 DEF ScanFinds, Entry
          <5>3. Entry(p, "FileSystem").package = p
            BY DEF Entry
          <5> QED
            BY <4>3, <5>2, <5>3 DEF Listing
        <4>5. CASE Folder[q] # "directory"
          <5>1. packages' = packages
            BY <2>2, <4>2, <4>5
          <5> QED
            BY <3>3, <4>3, <4>5, <5>1 DEF Listing, ScanFinds
        <4> QED
          BY <4>4, <4>5
      <3>4. CASE p # q
        <4>1. Listing(p)' = Listing(p) /\ (ScanFinds(p)' <=> ScanFinds(p))
          BY <2>2, <2>3, <3>4 DEF Listing, ScanFinds
        <4> QED
          BY <3>2, <4>1
      <3> QED
        BY <3>3, <3>4
    <2> QED
      BY <1>5, <2>3, <2>4
  <1>12. CASE Increment
    <2>1. /\ step = "increment" /\ UNCHANGED <<packages, swallowed, unvisited, root>>
          /\ root = "directory"
      BY <1>1, <1>12 DEF Increment, ListInv, fixed
    <2>2. \A p : /\ Listing(p)' = Listing(p)
                 /\ Faultless(p)' <=> Faultless(p)
                 /\ ScanFinds(p)' <=> ScanFinds(p)
      BY <2>1 DEF Listing, Faultless, ScanFinds
    <2>3. CASE unvisited # {}
      <3>1. step' = "visit" /\ UNCHANGED outcome
        BY <1>12, <2>3 DEF Increment
      <3>2. \A p \in Packages :
              Faultless(p)' => Listing(p)' = {e \in {Entry(p, "FileSystem")} : ScanFinds(p)'}
        BY <2>1, <2>2 DEF ListInv
      <3> QED
        BY <1>5, <2>1, <3>1, <3>2
    <2>4. CASE unvisited = {}
      <3>1. step' = "end"
        BY <1>12, <2>4 DEF Increment
      <3>2. \A p \in Packages : ScanFinds(p) <=> /\ root = "directory" /\ Folder[p] = "directory"
                                                 /\ p \in Named /\ ExecutablesOf[p] # {}
        BY <2>1, <2>4 DEF ScanFinds
      <3>3. \A p \in Packages :
              Faultless(p)' => Listing(p)' = {e \in {Entry(p, "FileSystem")} : ScanFinds(p)}
        BY <2>1, <2>2 DEF ListInv
      <3> QED
        BY <1>4, <3>1, <3>2, <3>3
    <2> QED
      BY <2>3, <2>4
  <1>13. CASE IncrementFails
    <2>1. /\ step = "increment" /\ step' = "end" /\ root = "directory"
      BY <1>13 DEF IncrementFails, ListInv
    <2>2. CASE outcome' = "packages"
      <3>1. /\ packages' = packages
            /\ swallowed' = swallowed \cup {<<p, IoError>> : p \in unvisited}
        BY <1>13, <2>2 DEF IncrementFails
      <3>2. ASSUME NEW p \in Packages, Faultless(p)'
            PROVE  Listing(p)' = {e \in {Entry(p, "FileSystem")} :
                                    /\ root = "directory" /\ Folder[p] = "directory"
                                    /\ p \in Named /\ ExecutablesOf[p] # {}}
        <4>1. Faultless(p)
          BY <3>1, <3>2 DEF Faultless
        <4>2. p \notin unvisited
          <5> SUFFICES ASSUME p \in unvisited PROVE FALSE
            OBVIOUS
          <5>1. <<p, IoError>> \in swallowed' /\ <<p, IoError>>[1] = p
            BY <3>1
          <5> QED
            BY <3>2, <5>1 DEF Faultless
        <4>3. Listing(p)' = {e \in {Entry(p, "FileSystem")} : ScanFinds(p)}
          BY <2>1, <3>1, <4>1 DEF ListInv, Listing
        <4> QED
          BY <2>1, <4>2, <4>3 DEF ScanFinds
      <3> QED
        BY <1>4, <2>1, <3>2
    <2>3. CASE outcome' # "packages"
      BY <1>4, <2>1, <2>3
    <2> QED
      BY <2>2, <2>3
  <1> QED
    BY <1>8, <1>9, <1>10, <1>11, <1>12, <1>13 DEF FileSystemStep

LEMMA StepList ==
  ASSUME SourceInv, ListInv, SourceStep \/ ServerGone PROVE ListInv'
  <1> USE DEF SourceInv
  <1>1. CASE \/ \E call \in FatalCalls \cup {"NextMatch"} : CallFails(call)
             \/ ConnectNotOk
             \/ FindNotOk
    <2>1. PICK kind \in PackageSourceErrorKind \ {"ScanFailed"} : Unavailable(kind)
      BY <1>1, FailuresUnavailable
    <2>2. packages' = {} /\ swallowed' = {} /\ step' \in {"packagesDirectory", "end"}
      BY <2>1 DEF Unavailable, Throw
    <2>3. outcome' # "packages"
      <3>1. outcome = "running"
        BY <1>1, FailuresUnavailable, Calls DEF OriginInv
      <3>2. kind # "packages"
        BY DEF PackageSourceErrorKind
      <3> QED
        BY <2>1, <3>1, <3>2 DEF Unavailable, Throw
    <2> QED
      BY <2>2, <2>3, Calls DEF ListInv, OnlyFaultsAlter
  <1>2. CASE \E call \in FatalCalls : Call(call)
    <2>1. PICK call \in FatalCalls : Call(call)
      BY <1>2
    <2>2. step = call /\ call \in ComCalls /\ call \notin MatchCalls
      BY <2>1 DEF Call, Returns, FatalCalls, MatchCalls, Initialization, Activations,
                  ComCalls, AfterCall
    <2>3. step' \in ComCalls /\ step' \notin MatchCalls /\ UNCHANGED current
      BY <2>1, Calls DEF Call, AfterCall, FatalCalls, MatchCalls, Initialization, Activations
    <2>4. DealtWith' = DealtWith
      BY <2>2, <2>3 DEF DealtWith
    <2>5. \A p : (ComFinds(p)' <=> ComFinds(p)) /\ Listing(p)' = Listing(p) /\ (Faultless(p)' <=> Faultless(p))
      BY <2>1, <2>4 DEF Call, ComFinds, Listing, Faultless
    <2>6. outcome' # "packages"
      BY <2>1, <2>2, Calls DEF OriginInv, Call
    <2>7. step' \notin {"packagesDirectory", "isDirectory", "open", "visit", "increment"}
      BY <2>3, Calls
    <2> QED
      BY <2>2, <2>3, <2>5, <2>6, <2>7 DEF ListInv, OnlyFaultsAlter, MatchCalls
  <1>3. CASE GetAt
    <2>1. step = "NextMatch" /\ step' = "InstalledVersion" /\ current \in Nat /\ current' = current + 1
      BY <1>3 DEF GetAt, Returns, SourceTypeOK
    <2>2. DealtWith' = DealtWith
      BY <2>1 DEF DealtWith, MatchCalls
    <2>3. \A p : (ComFinds(p)' <=> ComFinds(p)) /\ Listing(p)' = Listing(p) /\ (Faultless(p)' <=> Faultless(p))
      BY <1>3, <2>2 DEF GetAt, ComFinds, Listing, Faultless
    <2>4. outcome' # "packages"
      BY <1>3, <2>1, Calls DEF OriginInv, GetAt
    <2> QED
      BY <2>1, <2>3, <2>4, Calls DEF ListInv, OnlyFaultsAlter
  <1>4. CASE \E call \in MatchCalls : MatchCall(call)
    <2>1. PICK call \in MatchCalls : MatchCall(call)
      BY <1>4
    <2>2. /\ step = call /\ step \in ComCalls /\ step \in MatchCalls /\ current # 0
          /\ UNCHANGED <<current, outcome>>
      BY <2>1, Calls DEF MatchCall, Returns, MatchInv
    <2>3. outcome' # "packages"
      BY <2>2, Calls DEF OriginInv
    <2>4. CASE call = "Id"
      <3>1. PICK found \in SUBSET ExecutablesOf[Match] : Listed(Match, found)
        BY <2>1, <2>4 DEF MatchCall
      <3>2. step' = "NextMatch" /\ Match \in Installed \cap Portable \cap Located
        BY <2>1, <2>2, <2>4 DEF MatchCall, ListInv
      <3>3. ASSUME NEW p \in Packages, Faultless(p)'
            PROVE  Listing(p)' = {e \in {Entry(p, "Com")} : ComFinds(p)'}
        <4>1. swallowed \subseteq swallowed'
          BY <3>1 DEF Listed
        <4>2. Faultless(p)
          BY <3>3, <4>1 DEF Faultless
        <4>3. Listing(p) = {e \in {Entry(p, "Com")} : ComFinds(p)}
          BY <2>2, <4>2 DEF ListInv
        <4>4. ComFinds(p)' <=> ComFinds(p) \/ p = Match
          BY <2>2, <3>2, NextDealtWith
        <4>5. CASE p = Match
          <5>1. found = ExecutablesOf[Match]
            <6> SUFFICES ASSUME found # ExecutablesOf[Match] PROVE FALSE
              OBVIOUS
            <6>1. <<Match, IoError>> \in swallowed' /\ <<Match, IoError>>[1] = Match
              BY <3>1 DEF Listed
            <6> QED
              BY <3>3, <4>5, <6>1 DEF Faultless
          <5>2. packages' = packages \cup {Entry(p, "Com")} /\ Entry(p, "Com").package = p
            BY <3>1, <4>5, <5>1 DEF Listed, Entry
          <5> QED
            BY <4>3, <4>4, <4>5, <5>2 DEF Listing
        <4>6. CASE p # Match
          <5>1. Listing(p)' = Listing(p)
            BY <3>1, <4>6 DEF Listed, Listing
          <5> QED
            BY <4>3, <4>4, <4>6, <5>1
        <4> QED
          BY <4>5, <4>6
      <3> QED
        BY <2>3, <3>2, <3>3, Calls DEF ListInv, OnlyFaultsAlter
    <2>5. CASE call # "Id" /\ Wanted(call)
      <3>1. step' = AfterCall[call] /\ step' \in MatchCalls /\ UNCHANGED <<packages, swallowed>>
        BY <2>1, <2>5 DEF MatchCall, AfterCall, MatchCalls
      <3>2. \A p : (ComFinds(p)' <=> ComFinds(p)) /\ Listing(p)' = Listing(p) /\ (Faultless(p)' <=> Faultless(p))
        BY <2>2, <3>1 DEF ComFinds, DealtWith, Listing, Faultless
      <3>3. step' \notin {"packagesDirectory", "isDirectory", "open", "visit", "increment"}
        BY <3>1 DEF MatchCalls
      <3>4. Match' = Match
        BY <2>2 DEF Match
      <3>5. /\ step' \in {"InstallerType", "InstalledLocation", "Id"} => Match \in Installed
            /\ step' \in {"InstalledLocation", "Id"} => Match \in Portable
            /\ step' = "Id" => Match \in Located
        <4>1. CASE call = "InstalledVersion"
          BY <2>5, <3>1, <4>1 DEF Wanted, AfterCall
        <4>2. CASE call = "InstallerType"
          BY <2>2, <2>5, <3>1, <4>2 DEF ListInv, Wanted, AfterCall
        <4>3. CASE call = "InstalledLocation"
          BY <2>2, <2>5, <3>1, <4>3 DEF ListInv, Wanted, AfterCall
        <4> QED
          BY <2>5, <4>1, <4>2, <4>3 DEF MatchCalls
      <3> QED
        BY <2>2, <2>3, <3>2, <3>3, <3>4, <3>5 DEF ListInv, OnlyFaultsAlter
    <2>6. CASE call # "Id" /\ ~Wanted(call)
      <3>1. step' = "NextMatch" /\ UNCHANGED <<packages, swallowed>>
        BY <2>1, <2>6 DEF MatchCall
      <3>2. Match \notin Installed \cap Portable \cap Located
        BY <2>6 DEF Wanted, MatchCalls
      <3>3. \A p : (ComFinds(p)' <=> ComFinds(p)) /\ Listing(p)' = Listing(p) /\ (Faultless(p)' <=> Faultless(p))
        BY <2>2, <3>1, <3>2, NextDealtWith DEF Listing, Faultless
      <3> QED
        BY <2>2, <2>3, <3>1, <3>3, Calls DEF ListInv, OnlyFaultsAlter
    <2> QED
      BY <2>4, <2>5, <2>6
  <1>5. CASE \E call \in MatchCalls : MatchCallFails(call)
    <2>1. PICK call \in MatchCalls : MatchCallFails(call)
      BY <1>5
    <2>2. PICK hresult : swallowed' = swallowed \cup {<<Match, hresult>>}
      BY <2>1 DEF MatchCallFails
    <2>3. step \in MatchCalls /\ current # 0 /\ step' = "NextMatch" /\ UNCHANGED <<current, packages, outcome>>
      BY <2>1 DEF MatchCallFails, Fails, MatchInv
    <2>4. ASSUME NEW p, Faultless(p)' PROVE Faultless(p) /\ p # Match
      <3>1. <<Match, hresult>> \in swallowed' /\ <<Match, hresult>>[1] = Match
        BY <2>2
      <3> QED
        BY <2>2, <2>4, <3>1 DEF Faultless
    <2>5. \A p : Listing(p)' = Listing(p)
      BY <2>3 DEF Listing
    <2>6. \A p : p # Match => (ComFinds(p)' <=> ComFinds(p))
      BY <2>3, NextDealtWith
    <2>7. outcome' # "packages"
      BY <2>3, Calls DEF OriginInv
    <2> QED
      BY <2>3, <2>4, <2>5, <2>6, <2>7, Calls DEF ListInv, OnlyFaultsAlter
  <1>6. CASE ComReturns
    <2>1. /\ step = "NextMatch" /\ step' = "end" /\ DealtWith = Len(Catalog)
          /\ UNCHANGED <<requested, packages, swallowed>>
      BY <1>6 DEF ComReturns, Return, DealtWith, MatchCalls
    <2>2. Origin' = "Com"
      BY <1>6, <2>1, Calls DEF ComReturns, Origin, OriginInv, SourceTypeOK
    <2>3. ASSUME NEW p \in Packages, \A fault \in swallowed' : fault[1] # p
          PROVE  {entry \in packages' : entry.package = p} = Expected(p)'
      <3>1. Listing(p) = {e \in {Entry(p, "Com")} : ComFinds(p)}
        BY <2>1, <2>3, Calls DEF ListInv, Faultless
      <3>2. ComFinds(p) <=> /\ p \in Installed \cap Portable \cap Located
                            /\ \E i \in DOMAIN Catalog : Catalog[i] = p
        BY <2>1 DEF ComFinds
      <3>3. Expected(p)' = {e \in {Entry(p, "Com")} : ComFinds(p)}
        BY <2>2, <3>2 DEF Expected, Entry
      <3> QED
        BY <2>1, <3>1, <3>3 DEF Listing
    <2> QED
      BY <2>1, <2>3, Calls DEF ListInv, OnlyFaultsAlter
  <1>7. CASE FileSystemStep
    BY <1>7, ScanList
  <1>8. CASE ServerGone
    <2>1. \A p : (ComFinds(p)' <=> ComFinds(p)) /\ Listing(p)' = Listing(p) /\ (Faultless(p)' <=> Faultless(p))
      BY <1>8 DEF ServerGone, ComFinds, DealtWith, Listing, Faultless
    <2> QED
      BY <1>8, <2>1 DEF ServerGone, ListInv, OnlyFaultsAlter, Expected, Origin, ScanFinds, Match
  <1> QED
    BY <1>1, <1>2, <1>3, <1>4, <1>5, <1>6, <1>7, <1>8 DEF SourceStep, ComStep

LEMMA ListKept == ASSUME SourceInv, ListInv, [Next]_allVars PROVE ListInv'
  <1>1. CASE SourceStep \/ ServerGone
    BY <1>1, StepList
  <1>2. CASE UNCHANGED sourceVars
    <2>1. \A p : /\ ComFinds(p)' <=> ComFinds(p)
                 /\ ScanFinds(p)' <=> ScanFinds(p)
                 /\ Listing(p)' = Listing(p)
                 /\ Faultless(p)' <=> Faultless(p)
      BY <1>2 DEF sourceVars, ComFinds, ScanFinds, DealtWith, Listing, Faultless
    <2> QED
      BY <1>2, <2>1 DEF sourceVars, ListInv, OnlyFaultsAlter, Expected, Origin, Match
  <1> QED
    BY <1>1, <1>2, SourceSteps

-------------------------------------------------------------------------------
(* What the filter leaves.  The executables kept are those the patterns    *)
(* include, and matchesGlob() finds out whether they do.                   *)

Given == {"select", "preCheck", "open", "read", "verbose", "resolve"}

FilterInv ==
  /\ stage \in Given => kept = apply(packages, includes, excludes)
  /\ Filtered => kept = apply(packages, includes, excludes)

LEMMA MatchesAny ==
  ASSUME NEW patterns \in PatternSets, NEW p \in Packages, NEW e \in Executables
  PROVE  matchesAnyPattern(patterns, IdOf[p], FileName[e])
           <=> \E pattern \in patterns : \/ GlobMatches(pattern, IdOf[p])
                                         \/ GlobMatches(pattern, FileName[e])
  <1>1. /\ IdOf[p] \in Seq(Characters \ {"*"})
        /\ FileName[e] \in Seq(Characters \ {"*"})
        /\ \A pattern \in patterns : pattern \in Seq(Characters)
    BY GlobAssumption
  <1>2. \A pattern \in patterns :
          /\ matchesGlob(pattern, IdOf[p]) <=> GlobMatches(pattern, IdOf[p])
          /\ matchesGlob(pattern, FileName[e]) <=> GlobMatches(pattern, FileName[e])
    BY <1>1, GlobsMatchExactly
  <1> QED
    BY <1>2 DEF matchesAnyPattern

LEMMA FilterKeeps ==
  ASSUME NEW list \in SUBSET InstalledPackage, NEW include, NEW exclude,
         NEW entry \in list, NEW e \in entry.executables
  PROVE  (\E left \in apply(list, include, exclude) :
            left.package = entry.package /\ e \in left.executables)
           <=> includesExecutable(include, exclude, IdOf[entry.package], FileName[e])
  <1> DEFINE left(x) == {f \in x.executables :
                           includesExecutable(include, exclude, IdOf[x.package], FileName[f])}
  <1>1. CASE include = {} /\ exclude = {}
    <2>1. apply(list, include, exclude) = list
      BY <1>1 DEF apply
    <2>2. includesExecutable(include, exclude, IdOf[entry.package], FileName[e])
      BY <1>1 DEF includesExecutable, matchesAnyPattern
    <2> QED
      BY <2>1, <2>2
  <1>2. CASE ~ (include = {} /\ exclude = {})
    <2>1. apply(list, include, exclude)
            = {[x EXCEPT !.executables = left(x)] : x \in {z \in list : left(z) # {}}}
      BY <1>2 DEF apply
    <2>2. \A x \in list : x \in InstalledPackage
      OBVIOUS
    <2>3. ASSUME NEW x \in list
          PROVE  LET y == [x EXCEPT !.executables = left(x)]
                 IN  y.package = x.package /\ y.executables = left(x)
      <3> HIDE DEF left
      <3> QED
        BY <2>2 DEF InstalledPackage
    <2>4. ASSUME includesExecutable(include, exclude, IdOf[entry.package], FileName[e])
          PROVE  \E y \in apply(list, include, exclude) :
                   y.package = entry.package /\ e \in y.executables
      <3>1. e \in left(entry)
        BY <2>4
      <3> DEFINE y == [entry EXCEPT !.executables = left(entry)]
      <3>2. y \in apply(list, include, exclude)
        <4>1. entry \in {z \in list : left(z) # {}}
          BY <3>1
        <4> HIDE DEF left
        <4> QED
          BY <2>1, <4>1
      <3>3. y.package = entry.package /\ e \in y.executables
        BY <2>3, <3>1
      <3> HIDE DEF y
      <3> QED
        BY <3>2, <3>3
    <2>5. ASSUME NEW y \in apply(list, include, exclude),
                 y.package = entry.package, e \in y.executables
          PROVE  includesExecutable(include, exclude, IdOf[entry.package], FileName[e])
      <3>1. PICK x \in list : y = [x EXCEPT !.executables = left(x)]
        BY <2>1
      <3>2. x.package = entry.package /\ e \in left(x)
        BY <2>3, <2>5, <3>1
      <3> QED
        BY <3>2
    <2> QED
      BY <2>4, <2>5
  <1> QED
    BY <1>1, <1>2

LEMMA FilterCorrect == ASSUME TypeOK, FilterInv PROVE FilterHonoursPatterns
  <1> SUFFICES ASSUME Filtered, NEW entry \in packages, NEW e \in entry.executables
      PROVE  LET any(patterns) == \E pattern \in patterns :
                                     \/ GlobMatches(pattern, IdOf[entry.package])
                                     \/ GlobMatches(pattern, FileName[e])
             IN  (\E left \in kept : left.package = entry.package /\ e \in left.executables)
                   <=> ~any(excludes) /\ (includes = {} \/ any(includes))
    BY DEF FilterHonoursPatterns
  <1>1. packages \in SUBSET InstalledPackage /\ includes \in PatternSets /\ excludes \in PatternSets
    BY DEF TypeOK, SourceTypeOK
  <1>2. entry.package \in Packages /\ e \in Executables
    BY <1>1 DEF InstalledPackage
  <1>3. kept = apply(packages, includes, excludes)
    BY DEF FilterInv
  <1>4. (\E left \in kept : left.package = entry.package /\ e \in left.executables)
          <=> includesExecutable(includes, excludes, IdOf[entry.package], FileName[e])
    BY <1>1, <1>3, FilterKeeps, ZenonT(30)
  <1>5. \A patterns \in {includes, excludes} :
          matchesAnyPattern(patterns, IdOf[entry.package], FileName[e])
            <=> \E pattern \in patterns : \/ GlobMatches(pattern, IdOf[entry.package])
                                          \/ GlobMatches(pattern, FileName[e])
    BY <1>1, <1>2, MatchesAny
  <1> QED
    BY <1>4, <1>5 DEF includesExecutable

LEMMA StepFilter == ASSUME InventoryInv, FilterInv, [Next]_allVars PROVE FilterInv'
  <1> USE DEF InventoryInv, Filtered, Given, Go, Fail, chosen, loading
  <1>1. CASE Source \/ (stage = "packages" /\ ServerGone /\ UNCHANGED inventoryVars)
    BY <1>1 DEF Source, inventoryVars, FilterInv
  <1>2. CASE Enumerated
    <2>1. CASE outcome = "packages"
      BY <1>2, <2>1 DEF Enumerated, FilterInv
    <2>2. CASE outcome # "packages"
      BY <1>2, <2>2 DEF Enumerated, FilterInv, sourceVars
    <2> QED
      BY <2>1, <2>2
  <1>3. CASE Filter
    BY <1>3 DEF Filter, FilterInv, sourceVars
  <1>4. CASE Select \/ PreCheck \/ Open \/ Read \/ Verbose \/ Resolve \/ Edit
    <2>1. stage \in Given
      BY <1>4 DEF Select, PreCheck, Open, Read, Verbose, Resolve, Edit
    <2>2. UNCHANGED chosen /\ kept = apply(packages, includes, excludes)
      BY <1>4, <2>1 DEF Select, PreCheck, Open, Read, Verbose, Resolve, Edit, FilterInv
    <2>3. kept' = apply(packages, includes, excludes)' 
      BY <2>2 DEF apply, sourceVars
    <2> QED
      BY <2>3 DEF FilterInv
  <1>5. CASE UNCHANGED allVars
    <2>1. kept' = kept /\ apply(packages, includes, excludes)' = apply(packages, includes, excludes)
      BY <1>5 DEF allVars, inventoryVars, sourceVars, apply
    <2> QED
      BY <1>5, <2>1 DEF allVars, inventoryVars, sourceVars, FilterInv
  <1> QED
    BY <1>1, <1>2, <1>3, <1>4, <1>5 DEF Next, Program, World

-------------------------------------------------------------------------------
FullInv == InventoryInv /\ ListInv /\ FilterInv

LEMMA InventoryCorrect == Spec => []FullInv
  <1>1. Init => FullInv
    BY InitInventory, ListInit DEF Init, FullInv, FilterInv, Filtered, Given
  <1>2. FullInv /\ [Next]_allVars => FullInv'
    BY StepInventoryType, StepTier, SourceKept, ListKept, StepFilter DEF FullInv, InventoryInv
  <1> QED
    BY <1>1, <1>2, PTL DEF Spec

\* Every variable keeps to its type: whatever the packages, their executables,
\* the patterns and the rules files are, and however the COM server fails.
THEOREM TypeCorrect == Spec => []TypeOK
  <1>1. FullInv => TypeOK
    BY DEF FullInv, InventoryInv
  <1> QED
    BY <1>1, InventoryCorrect, PTL

\* createPackageSource() and AutoPackageSource: the list is of one source, the
\* one asked for, and comes from the Packages directory under --source auto only
\* after one call of onDegrade.
THEOREM SourceCorrect == Spec => []SourceAsRequested
  <1>1. FullInv => SourceAsRequested
    BY DEF FullInv, InventoryInv, SourceInv, OriginInv
  <1> QED
    BY <1>1, InventoryCorrect, PTL

\* A failed call of WingetComSource or FsScanSource costs the list the package
\* the call was about, and no other one: of all the others the list has what the
\* source is there to find, for every catalog and every Packages directory.
THEOREM ListCorrect == Spec => []OnlyFaultsAlter
  <1>1. FullInv => OnlyFaultsAlter
    BY DEF FullInv, ListInv
  <1> QED
    BY <1>1, InventoryCorrect, PTL

\* loadRuleSetFromFile() parses no file above kMaxRulesFileBytes, however often
\* another program changes the file between the check of its size and the read.
THEOREM SizeCorrect == Spec => []OversizeNeverParsed
  <1>1. FullInv => OversizeNeverParsed
    BY DEF FullInv, InventoryInv, TierInv
  <1> QED
    BY <1>1, InventoryCorrect, PTL

\* selectRuleSet(): an alias comes from the rules of the first tier there is, and
\* from the embedded ones only when the user's file was found to be absent.
THEOREM TierCorrect == Spec => []TierIsFinal
  <1>1. FullInv => TierIsFinal
    BY DEF FullInv, InventoryInv, TierInv, TierIsFinal, Tiered
  <1> QED
    BY <1>1, InventoryCorrect, PTL

\* reportVerboseDiagnostics() tells the source the packages are from, which it
\* infers from --source and from onDegrade having been called.
THEOREM ReportCorrect == Spec => []ReportedSource
  <1>1. FullInv => ReportedSource
    BY DEF FullInv, InventoryInv, TierInv
  <1> QED
    BY <1>1, InventoryCorrect, PTL

\* PackageFilter keeps exactly the executables the patterns mean: none matched by
\* an --exclude pattern and, if there are --include patterns, only matched ones,
\* for all patterns, ids and file names, however often matchesGlob() goes back.
THEOREM FilterIsExact == Spec => []FilterHonoursPatterns
  <1>1. FullInv => FilterHonoursPatterns
    BY FilterCorrect DEF FullInv, InventoryInv
  <1> QED
    BY <1>1, InventoryCorrect, PTL
===============================================================================
