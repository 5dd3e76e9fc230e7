-------------------------- MODULE FilteringProofs --------------------------
(***************************************************************************)
(* What a filtered sequence is, for every sequence and every set: its items *)
(* are those of the sequence that lie in the set, in their order.  Induction *)
(* is by the least counterexample, so that it needs no theorem with an      *)
(* operator for a parameter.                                                *)
(***************************************************************************)
EXTENDS Filtering, NaturalsInduction, WellFoundedInduction, TLAPS

\* Every set of numbers that is not empty has a least one.
LEMMA NatMin ==
  ASSUME NEW M \in SUBSET Nat, M # {}
  PROVE  \E n \in M : \A m \in M : n <= m
<1> DEFINE R == {p \in Nat \X Nat : p[1] < p[2]}
<1>1. IsWellFoundedOn(R, Nat)
  BY NatLessThanWellFounded DEF OpToRel
<1> HIDE DEF R
<1>2. PICK n \in M : \A m \in M : <<m, n>> \notin R
  BY <1>1, WFMin
<1>3. ASSUME NEW m \in M
      PROVE  n <= m
  <2>1. ~ (m < n)
    BY <1>2, <1>3 DEF R
  <2> QED
    BY <2>1
<1> QED
  BY <1>3

\* What the recursion says of one step.
KeepStep(s, T, f, i) ==
  IF i = 0 THEN <<>> ELSE IF s[i] \in T THEN Append(f[i - 1], s[i]) ELSE f[i - 1]

\* The recursion has a solution for every prefix.
LEMMA Solvable ==
  ASSUME NEW s, NEW T, NEW n \in Nat
  PROVE  \E f : f = [i \in 0..n |-> KeepStep(s, T, f, i)]
<1> DEFINE Bad == {k \in Nat : ~ \E f : f = [i \in 0..k |-> KeepStep(s, T, f, i)]}
<1>1. SUFFICES Bad = {}
  OBVIOUS
<1>2. SUFFICES ASSUME Bad # {} PROVE FALSE
  OBVIOUS
<1>3. Bad \in SUBSET Nat
  OBVIOUS
<1> HIDE DEF Bad
<1>4. PICK k \in Bad : \A m \in Bad : k <= m
  BY <1>2, <1>3, NatMin
<1>5. k \in Nat /\ ~ \E f : f = [i \in 0..k |-> KeepStep(s, T, f, i)]
  BY <1>4 DEF Bad
<1>6. CASE k = 0
  <2> DEFINE f == [i \in 0..0 |-> <<>>]
  <2>1. \A i \in 0..0 : i = 0
    OBVIOUS
  <2>2. f = [i \in 0..0 |-> KeepStep(s, T, f, i)]
    BY <2>1 DEF KeepStep
  <2> HIDE DEF f
  <2> QED
    BY <1>5, <1>6, <2>2
<1>7. CASE k # 0
  <2>1. k - 1 \in Nat /\ k - 1 \notin Bad
    BY <1>4, <1>5, <1>7
  <2>2. PICK f : f = [i \in 0..k - 1 |-> KeepStep(s, T, f, i)]
    BY <2>1 DEF Bad
  <2> DEFINE g == [i \in 0..k |-> IF i = k THEN KeepStep(s, T, f, k) ELSE f[i]]
  <2>3. \A i \in 0..k - 1 : g[i] = f[i]
    BY <1>5
  <2>4. ASSUME NEW i \in 0..k
        PROVE  g[i] = KeepStep(s, T, g, i)
    <3>1. i # 0 => i - 1 \in 0..k - 1 /\ g[i - 1] = f[i - 1]
      BY <1>5, <2>3
    <3>2. KeepStep(s, T, g, i) = KeepStep(s, T, f, i)
      <4> HIDE DEF g
      <4> QED
        BY <3>1 DEF KeepStep
    <3>3. CASE i = k
      BY <3>2, <3>3
    <3>4. CASE i # k
      <4>1. i \in 0..k - 1
        BY <1>5, <3>4
      <4>2. g[i] = f[i] /\ f[i] = KeepStep(s, T, f, i)
        BY <2>2, <2>3, <4>1
      <4> QED
        BY <3>2, <4>2
    <3> QED
      BY <3>3, <3>4
  <2>5. g = [i \in 0..k |-> g[i]]
    OBVIOUS
  <2>6. g = [i \in 0..k |-> KeepStep(s, T, g, i)]
    <3> HIDE DEF g
    <3> QED
      BY <2>4, <2>5
  <2> HIDE DEF g
  <2> QED
    BY <1>5, <2>6
<1> QED
  BY <1>6, <1>7

\* The recursion equation.
LEMMA KeptStep ==
  ASSUME NEW S, NEW s \in Seq(S), NEW T, NEW i \in 0..Len(s)
  PROVE  KeptUpTo(s, T)[i] = KeepStep(s, T, KeptUpTo(s, T), i)
<1>1. Len(s) \in Nat
  OBVIOUS
<1>2. \E f : f = [j \in 0..Len(s) |-> KeepStep(s, T, f, j)]
  BY <1>1, Solvable
<1>3. KeptUpTo(s, T) = CHOOSE f : f = [j \in 0..Len(s) |-> KeepStep(s, T, f, j)]
  BY DEF KeptUpTo, KeepStep
<1> DEFINE K == KeptUpTo(s, T)
<1>4. K = [j \in 0..Len(s) |-> KeepStep(s, T, K, j)]
  BY <1>2, <1>3
<1> HIDE DEF K
<1>5. K[i] = KeepStep(s, T, K, i)
  BY <1>4
<1> QED
  BY <1>5 DEF K

\* g lists the places, in order, at which s has a member of T, up to place i; and
\* q is what stands there.
Picks(s, T, i, g, n, q) ==
  /\ n \in 0..i
  /\ g \in [1..n -> 1..i]
  /\ \A j, k \in 1..n : j < k => g[j] < g[k]
  /\ \A k \in 1..i : s[k] \in T <=> \E j \in 1..n : g[j] = k
  /\ q = [j \in 1..n |-> s[g[j]]]

\* Every prefix is filtered by such a list.
LEMMA KeptPicks ==
  ASSUME NEW S, NEW s \in Seq(S), NEW T, NEW i \in 0..Len(s)
  PROVE  \E n : \E g : Picks(s, T, i, g, n, KeptUpTo(s, T)[i])
<1> DEFINE K(k) == KeptUpTo(s, T)[k]
           Good(k) == \E n : \E g : Picks(s, T, k, g, n, K(k))
           Bad == {k \in 0..Len(s) : ~ Good(k)}
<1>1. SUFFICES ASSUME Bad # {} PROVE FALSE
  OBVIOUS
<1>2. Bad \in SUBSET Nat /\ Len(s) \in Nat
  OBVIOUS
<1> HIDE DEF Bad
<1>3. PICK m \in Bad : \A k \in Bad : m <= k
  BY <1>1, <1>2, NatMin
<1>4. m \in 0..Len(s) /\ ~ Good(m)
  BY <1>3 DEF Bad
<1>5. K(m) = IF m = 0 THEN <<>> ELSE IF s[m] \in T THEN Append(K(m - 1), s[m]) ELSE K(m - 1)
  BY <1>4, KeptStep DEF KeepStep
<1> HIDE DEF K, Good
<1>6. CASE m = 0
  <2>1. K(m) = <<>>
    BY <1>5, <1>6
  <2>2. Picks(s, T, 0, <<>>, 0, <<>>)
    BY DEF Picks
  <2> QED
    BY <1>4, <1>6, <2>1, <2>2 DEF Good
<1>7. CASE m # 0
  <2>1. m - 1 \in 0..Len(s) /\ m - 1 \notin Bad /\ m \in 1..Len(s)
    BY <1>2, <1>3, <1>4, <1>7
  <2>2. Good(m - 1)
    BY <2>1 DEF Bad
  <2>3. PICK n, g : Picks(s, T, m - 1, g, n, K(m - 1))
    BY <2>2 DEF Good
  <2>4. /\ n \in 0..m - 1 /\ g \in [1..n -> 1..m - 1]
        /\ \A j, k \in 1..n : j < k => g[j] < g[k]
        /\ \A k \in 1..m - 1 : s[k] \in T <=> \E j \in 1..n : g[j] = k
        /\ K(m - 1) = [j \in 1..n |-> s[g[j]]]
    BY <2>3 DEF Picks
  <2>5. \A k \in 1..m : k = m \/ k \in 1..m - 1
    BY <2>1
  <2>6. \A j \in 1..n : g[j] \in 1..m - 1 /\ g[j] \in 1..m /\ g[j] # m
    BY <2>1, <2>4
  <2>7. CASE s[m] \notin T
    <3>1. K(m) = K(m - 1)
      BY <1>5, <1>7, <2>7
    <3>2. n \in 0..m /\ g \in [1..n -> 1..m]
      BY <2>1, <2>4, <2>6
    <3>3. \A k \in 1..m : s[k] \in T <=> \E j \in 1..n : g[j] = k
      BY <2>4, <2>5, <2>6, <2>7
    <3>4. Picks(s, T, m, g, n, K(m))
      BY <2>4, <3>1, <3>2, <3>3 DEF Picks
    <3> QED
      BY <1>4, <3>4 DEF Good
  <2>8. CASE s[m] \in T
    <3> DEFINE h == [j \in 1..n + 1 |-> IF j = n + 1 THEN m ELSE g[j]]
    <3>1. n \in Nat /\ n + 1 \in 0..m /\ n + 1 \in 1..n + 1
      BY <2>1, <2>4
    <3>2. \A j \in 1..n + 1 : j = n + 1 \/ (j \in 1..n /\ j # n + 1)
      BY <3>1
    <3>3. \A j \in 1..n : j \in 1..n + 1 /\ h[j] = g[j]
      BY <3>1
    <3>4. h[n + 1] = m
      BY <3>1
    <3>5. h \in [1..n + 1 -> 1..m]
      BY <2>1, <2>6, <3>2
    <3>6. DOMAIN h = 1..n + 1
      OBVIOUS
    <3> HIDE DEF h
    <3>7. ASSUME NEW j \in 1..n + 1, NEW k \in 1..n + 1, j < k
          PROVE  h[j] < h[k]
      <4>1. j \in 1..n
        BY <3>1, <3>7
      <4>2. CASE k = n + 1
        BY <2>1, <2>6, <3>3, <3>4, <4>1, <4>2
      <4>3. CASE k \in 1..n
        BY <2>4, <3>3, <3>7, <4>1, <4>3
      <4> QED
        BY <3>2, <4>2, <4>3
    <3>8. \A k \in 1..m : s[k] \in T <=> \E j \in 1..n + 1 : h[j] = k
      BY <2>4, <2>5, <2>6, <2>8, <3>1, <3>2, <3>3, <3>4
    <3>9. K(m) = [j \in 1..n + 1 |-> s[h[j]]]
      <4> DEFINE q == K(m - 1)
      <4>1. K(m) = Append(q, s[m])
        BY <1>5, <1>7, <2>8
      <4>2. q \in Seq(S) /\ Len(q) = n /\ s[m] \in S /\ \A j \in 1..n : q[j] = s[g[j]]
        <5>1. \A j \in 1..n : s[g[j]] \in S
          BY <2>1, <2>6
        <5> QED
          BY <2>1, <2>4, <3>1, <5>1
      <4> HIDE DEF q
      <4>3. /\ Append(q, s[m]) = [j \in 1..n + 1 |-> IF j = n + 1 THEN s[m] ELSE q[j]]
        BY <3>1, <4>2
      <4>4. \A j \in 1..n + 1 : (IF j = n + 1 THEN s[m] ELSE q[j]) = s[h[j]]
        BY <3>2, <3>3, <3>4, <4>2
      <4> QED
        BY <4>1, <4>3, <4>4
    <3>10. Picks(s, T, m, h, n + 1, K(m))
      BY <3>1, <3>5, <3>7, <3>8, <3>9 DEF Picks
    <3> QED
      BY <1>4, <3>10 DEF Good
  <2> QED
    BY <2>7, <2>8
<1> QED
  BY <1>6, <1>7

----------------------------------------------------------------------------
\* q has every item of s that lies in T, no other, and in their order.
IsFiltered(s, T, q) ==
  /\ \A j \in 1..Len(q) : q[j] \in T /\ \E k \in 1..Len(s) : q[j] = s[k]
  /\ \A k \in 1..Len(s) : s[k] \in T => \E j \in 1..Len(q) : q[j] = s[k]
  /\ \A i, j \in 1..Len(q) : i < j =>
       \E k, l \in 1..Len(s) : k < l /\ q[i] = s[k] /\ q[j] = s[l]

\* That is what the list comprehension returns, whatever the sequence and the set.
THEOREM KeptIsFiltered ==
  ASSUME NEW S, NEW s \in Seq(S), NEW T
  PROVE  /\ Kept(s, T) \in Seq(S) /\ Len(Kept(s, T)) <= Len(s)
         /\ IsFiltered(s, T, Kept(s, T))
<1> DEFINE q == Kept(s, T)
<1>1. Len(s) \in Nat /\ Len(s) \in 0..Len(s)
  OBVIOUS
<1>2. PICK n, g : Picks(s, T, Len(s), g, n, q)
  BY <1>1, KeptPicks DEF Kept
<1> HIDE DEF q
<1>3. /\ n \in 0..Len(s) /\ g \in [1..n -> 1..Len(s)]
      /\ \A j, k \in 1..n : j < k => g[j] < g[k]
      /\ \A k \in 1..Len(s) : s[k] \in T <=> \E j \in 1..n : g[j] = k
      /\ q = [j \in 1..n |-> s[g[j]]]
  BY <1>2 DEF Picks
<1>4. \A j \in 1..n : g[j] \in 1..Len(s) /\ s[g[j]] \in S \intersect T /\ q[j] = s[g[j]]
  BY <1>3
<1>5. q \in Seq(S) /\ Len(q) = n
  BY <1>1, <1>3, <1>4
<1>6. \A i, j \in 1..n : i < j => \E k, l \in 1..Len(s) : k < l /\ q[i] = s[k] /\ q[j] = s[l]
  BY <1>3, <1>4
<1>7. \A k \in 1..Len(s) : s[k] \in T => \E j \in 1..n : q[j] = s[k]
  BY <1>3, <1>4
<1>8. \A j \in 1..n : q[j] \in T /\ \E k \in 1..Len(s) : q[j] = s[k]
  BY <1>4
<1>9. n <= Len(s)
  BY <1>1, <1>3
<1>10. IsFiltered(s, T, q)
  BY <1>5, <1>6, <1>7, <1>8 DEF IsFiltered
<1> QED
  BY <1>5, <1>9, <1>10 DEF q
============================================================================
