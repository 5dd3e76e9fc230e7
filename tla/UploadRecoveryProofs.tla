------------------------ MODULE UploadRecoveryProofs ------------------------
(***************************************************************************)
(* Theorems about uploads across crashes, for any files and any number of  *)
(* tasks, crashes and retries: types, that a ledger row always has work    *)
(* ahead of it, and that an accepted upload no retry and no half-done      *)
(* upload interferes with is ingested, shown as failed or still owed.      *)
(***************************************************************************)
EXTENDS UploadRecovery, FilteringProofs

----------------------------------------------------------------------------
\* Sequences and their members.

\* The members by their places.
LEMMA Members ==
  ASSUME NEW S, NEW s \in Seq(S)
  PROVE  /\ Len(s) \in Nat /\ ToSet(s) \subseteq S
         /\ \A x : x \in ToSet(s) <=> \E i \in 1..Len(s) : s[i] = x
         /\ IsInjective(s) <=> \A i, j \in 1..Len(s) : s[i] = s[j] => i = j
BY DEF ToSet, IsInjective

\* The members of q follow each other as in s.
Follows(q, s) ==
  \A i, j \in 1..Len(q) : i < j =>
    \E k, l \in 1..Len(s) : k < l /\ q[i] = s[k] /\ q[j] = s[l]

\* What filtering keeps.
LEMMA Filtered ==
  ASSUME NEW S, NEW s \in Seq(S), NEW T
  PROVE  /\ Kept(s, T) \in Seq(S)
         /\ ToSet(Kept(s, T)) = ToSet(s) \intersect T
         /\ IsInjective(s) => IsInjective(Kept(s, T))
         /\ Follows(Kept(s, T), s)
<1> DEFINE q == Kept(s, T)
<1>1. q \in Seq(S) /\ IsFiltered(s, T, q)
  BY KeptIsFiltered
<1> HIDE DEF q
<1>2. /\ Len(s) \in Nat /\ Len(q) \in Nat
      /\ \A x : x \in ToSet(s) <=> \E i \in 1..Len(s) : s[i] = x
      /\ \A x : x \in ToSet(q) <=> \E i \in 1..Len(q) : q[i] = x
      /\ IsInjective(s) <=> \A i, j \in 1..Len(s) : s[i] = s[j] => i = j
      /\ IsInjective(q) <=> \A i, j \in 1..Len(q) : q[i] = q[j] => i = j
  BY <1>1, Members
<1>3. Follows(q, s)
  BY <1>1 DEF IsFiltered, Follows
<1>4. ToSet(q) = ToSet(s) \intersect T
  <2>1. ASSUME NEW x \in ToSet(q) PROVE x \in ToSet(s) /\ x \in T
    <3>1. PICK i \in 1..Len(q) : q[i] = x
      BY <1>2, <2>1
    <3> QED
      BY <1>1, <1>2, <3>1 DEF IsFiltered
  <2>2. ASSUME NEW x \in ToSet(s), x \in T PROVE x \in ToSet(q)
    <3>1. PICK i \in 1..Len(s) : s[i] = x
      BY <1>2, <2>2
    <3> QED
      BY <1>1, <1>2, <2>2, <3>1 DEF IsFiltered
  <2> QED
    BY <2>1, <2>2
<1>5. ASSUME IsInjective(s), NEW i \in 1..Len(q), NEW j \in 1..Len(q), q[i] = q[j]
      PROVE  i = j
  <2>1. ~ (i < j)
    BY <1>2, <1>3, <1>5 DEF Follows
  <2>2. ~ (j < i)
    BY <1>2, <1>3, <1>5 DEF Follows
  <2> QED
    BY <2>1, <2>2
<1>6. IsInjective(s) => IsInjective(q)
  BY <1>2, <1>5
<1> QED
  BY <1>1, <1>3, <1>4, <1>6 DEF q

\* One more at the end.
LEMMA Added ==
  ASSUME NEW S, NEW s \in Seq(S), NEW x \in S
  PROVE  /\ Append(s, x) \in Seq(S)
         /\ Len(s) \in Nat /\ Len(Append(s, x)) = Len(s) + 1
         /\ \A i \in 1..Len(s) : Append(s, x)[i] = s[i]
         /\ Append(s, x)[Len(s) + 1] = x
         /\ ToSet(Append(s, x)) = ToSet(s) \union {x}
         /\ IsInjective(s) /\ x \notin ToSet(s) => IsInjective(Append(s, x))
<1> DEFINE q == Append(s, x)
<1>1. /\ q \in Seq(S) /\ Len(s) \in Nat /\ Len(q) = Len(s) + 1
      /\ \A i \in 1..Len(s) : q[i] = s[i]
      /\ q[Len(s) + 1] = x
  OBVIOUS
<1> HIDE DEF q
<1>2. /\ \A y : y \in ToSet(s) <=> \E i \in 1..Len(s) : s[i] = y
      /\ \A y : y \in ToSet(q) <=> \E i \in 1..Len(q) : q[i] = y
      /\ IsInjective(s) <=> \A i, j \in 1..Len(s) : s[i] = s[j] => i = j
      /\ IsInjective(q) <=> \A i, j \in 1..Len(q) : q[i] = q[j] => i = j
  BY <1>1, Members
<1>3. \A i \in 1..Len(q) : i \in 1..Len(s) \/ i = Len(s) + 1
  BY <1>1
<1>4. \A i \in 1..Len(s) : i \in 1..Len(q)
  BY <1>1
<1>5. Len(s) + 1 \in 1..Len(q)
  BY <1>1
<1>6. ToSet(q) = ToSet(s) \union {x}
  BY <1>1, <1>2, <1>3, <1>4, <1>5
<1>7. ASSUME IsInjective(s), x \notin ToSet(s), NEW i \in 1..Len(q), NEW j \in 1..Len(q), q[i] = q[j]
      PROVE  i = j
  BY <1>1, <1>2, <1>3, <1>7
<1>8. IsInjective(s) /\ x \notin ToSet(s) => IsInjective(q)
  BY <1>2, <1>7
<1> QED
  BY <1>1, <1>6, <1>8 DEF q

\* The first one taken.
LEMMA Taken ==
  ASSUME NEW S, NEW s \in Seq(S), s # <<>>
  PROVE  /\ Tail(s) \in Seq(S) /\ Head(s) \in S /\ Head(s) = s[1]
         /\ Len(s) \in Nat \ {0} /\ Len(Tail(s)) = Len(s) - 1
         /\ \A i \in 1..Len(Tail(s)) : Tail(s)[i] = s[i + 1] /\ i + 1 \in 1..Len(s)
         /\ ToSet(s) = ToSet(Tail(s)) \union {Head(s)}
         /\ IsInjective(s) => IsInjective(Tail(s)) /\ Head(s) \notin ToSet(Tail(s))
<1> DEFINE q == Tail(s)
<1>1. /\ q \in Seq(S) /\ Len(s) \in Nat \ {0} /\ Len(q) = Len(s) - 1 /\ Head(s) = s[1] /\ s[1] \in S
      /\ \A i \in 1..Len(s) - 1 : q[i] = s[i + 1]
  OBVIOUS
<1> HIDE DEF q
<1>2. /\ \A y : y \in ToSet(s) <=> \E i \in 1..Len(s) : s[i] = y
      /\ \A y : y \in ToSet(q) <=> \E i \in 1..Len(q) : q[i] = y
      /\ IsInjective(s) <=> \A i, j \in 1..Len(s) : s[i] = s[j] => i = j
      /\ IsInjective(q) <=> \A i, j \in 1..Len(q) : q[i] = q[j] => i = j
  <2>1. /\ \A y : y \in ToSet(s) <=> \E i \in 1..Len(s) : s[i] = y
        /\ IsInjective(s) <=> \A i, j \in 1..Len(s) : s[i] = s[j] => i = j
    BY Members
  <2>2. /\ \A y : y \in ToSet(q) <=> \E i \in 1..Len(q) : q[i] = y
        /\ IsInjective(q) <=> \A i, j \in 1..Len(q) : q[i] = q[j] => i = j
    <3>1. q \in Seq(S)
      BY <1>1
    <3> QED
      BY <3>1, Members
  <2> QED
    BY <2>1, <2>2, Zenon
<1>3. \A i \in 1..Len(q) : q[i] = s[i + 1] /\ i + 1 \in 1..Len(s) /\ i + 1 # 1
  <2>1. \A i \in 1..Len(q) : i \in 1..Len(s) - 1 /\ i + 1 \in 1..Len(s) /\ i + 1 # 1
    BY <1>1
  <2> QED
    BY <1>1, <2>1
<1>4. \A i \in 1..Len(s) : i = 1 \/ (i - 1 \in 1..Len(q) /\ (i - 1) + 1 = i)
  BY <1>1
<1>5. 1 \in 1..Len(s)
  BY <1>1
<1>6. ToSet(s) = ToSet(q) \union {s[1]}
  <2>1. ASSUME NEW x \in ToSet(s), x # s[1] PROVE x \in ToSet(q)
    <3>1. PICK i \in 1..Len(s) : s[i] = x
      BY <1>2, <2>1
    <3>2. i - 1 \in 1..Len(q) /\ q[i - 1] = x
      BY <1>3, <1>4, <2>1, <3>1
    <3> QED
      BY <1>2, <3>2
  <2>2. ToSet(q) \subseteq ToSet(s) /\ s[1] \in ToSet(s)
    BY <1>2, <1>3, <1>5
  <2> QED
    BY <2>1, <2>2
<1>7. ASSUME IsInjective(s) PROVE IsInjective(q) /\ s[1] \notin ToSet(q)
  <2>1. ASSUME NEW i \in 1..Len(q), NEW j \in 1..Len(q), q[i] = q[j] PROVE i = j
    <3>1. i + 1 = j + 1
      BY <1>2, <1>3, <1>7, <2>1
    <3> QED
      BY <3>1
  <2>2. \A i \in 1..Len(q) : q[i] # s[1]
    BY <1>2, <1>3, <1>5, <1>7
  <2> QED
    BY <1>2, <2>1, <2>2
<1> QED
  BY <1>1, <1>3, <1>6, <1>7 DEF q

\* One sequence after another.
LEMMA Joined ==
  ASSUME NEW S, NEW s \in Seq(S), NEW r \in Seq(S)
  PROVE  /\ s \o r \in Seq(S) /\ Len(s) \in Nat /\ Len(r) \in Nat /\ Len(s \o r) = Len(s) + Len(r)
         /\ \A i \in 1..Len(s) : (s \o r)[i] = s[i]
         /\ \A i \in 1..Len(s \o r) :
              i \in 1..Len(s) \/ (i - Len(s) \in 1..Len(r) /\ (s \o r)[i] = r[i - Len(s)])
         /\ ToSet(s \o r) = ToSet(s) \union ToSet(r)
         /\ IsInjective(s) /\ IsInjective(r) /\ ToSet(s) \intersect ToSet(r) = {} => IsInjective(s \o r)
<1> DEFINE q == s \o r
<1>1. /\ q \in Seq(S) /\ Len(s) \in Nat /\ Len(r) \in Nat /\ Len(q) = Len(s) + Len(r)
      /\ \A i \in 1..Len(s) : q[i] = s[i]
      /\ \A i \in 1..Len(r) : q[Len(s) + i] = r[i]
  OBVIOUS
<1> HIDE DEF q
<1>2. /\ \A y : y \in ToSet(s) <=> \E i \in 1..Len(s) : s[i] = y
      /\ \A y : y \in ToSet(r) <=> \E i \in 1..Len(r) : r[i] = y
      /\ \A y : y \in ToSet(q) <=> \E i \in 1..Len(q) : q[i] = y
      /\ IsInjective(s) <=> \A i, j \in 1..Len(s) : s[i] = s[j] => i = j
      /\ IsInjective(r) <=> \A i, j \in 1..Len(r) : r[i] = r[j] => i = j
      /\ IsInjective(q) <=> \A i, j \in 1..Len(q) : q[i] = q[j] => i = j
  <2>1. /\ \A y : y \in ToSet(s) <=> \E i \in 1..Len(s) : s[i] = y
        /\ IsInjective(s) <=> \A i, j \in 1..Len(s) : s[i] = s[j] => i = j
    BY Members
  <2>2. /\ \A y : y \in ToSet(r) <=> \E i \in 1..Len(r) : r[i] = y
        /\ IsInjective(r) <=> \A i, j \in 1..Len(r) : r[i] = r[j] => i = j
    BY Members
  <2>3. /\ \A y : y \in ToSet(q) <=> \E i \in 1..Len(q) : q[i] = y
        /\ IsInjective(q) <=> \A i, j \in 1..Len(q) : q[i] = q[j] => i = j
    <3>1. q \in Seq(S)
      BY <1>1
    <3> QED
      BY <3>1, Members
  <2> QED
    BY <2>1, <2>2, <2>3, Zenon
<1>3. ASSUME NEW i \in 1..Len(q)
      PROVE  i \in 1..Len(s) \/ (i - Len(s) \in 1..Len(r) /\ q[i] = r[i - Len(s)])
  <2>1. CASE i <= Len(s)
    BY <1>1, <2>1
  <2>2. CASE ~ (i <= Len(s))
    <3>1. i - Len(s) \in 1..Len(r) /\ Len(s) + (i - Len(s)) = i
      BY <1>1, <2>2
    <3> QED
      BY <1>1, <3>1
  <2> QED
    BY <2>1, <2>2
<1>4. (\A i \in 1..Len(s) : i \in 1..Len(q)) /\ (\A i \in 1..Len(r) : Len(s) + i \in 1..Len(q))
  BY <1>1
<1>5. ToSet(q) = ToSet(s) \union ToSet(r)
  <2>1. ASSUME NEW x \in ToSet(q) PROVE x \in ToSet(s) \/ x \in ToSet(r)
    <3>1. PICK i \in 1..Len(q) : q[i] = x
      BY <1>2, <2>1
    <3>2. CASE i \in 1..Len(s)
      <4>1. s[i] = x
        BY <1>1, <3>1, <3>2
      <4> QED
        BY <1>2, <3>2, <4>1
    <3>3. CASE i - Len(s) \in 1..Len(r) /\ q[i] = r[i - Len(s)]
      BY <1>2, <3>1, <3>3
    <3> QED
      BY <1>3, <3>2, <3>3
  <2>2. ASSUME NEW x \in ToSet(s) PROVE x \in ToSet(q)
    <3>1. PICK i \in 1..Len(s) : s[i] = x
      BY <1>2, <2>2
    <3>2. q[i] = x /\ i \in 1..Len(q)
      BY <1>1, <1>4, <3>1
    <3> QED
      BY <1>2, <3>2
  <2>3. ASSUME NEW x \in ToSet(r) PROVE x \in ToSet(q)
    <3>1. PICK i \in 1..Len(r) : r[i] = x
      BY <1>2, <2>3
    <3>2. q[Len(s) + i] = x /\ Len(s) + i \in 1..Len(q)
      BY <1>1, <1>4, <3>1
    <3> QED
      BY <1>2, <3>2
  <2> QED
    BY <2>1, <2>2, <2>3
<1>6. ASSUME IsInjective(s), IsInjective(r), ToSet(s) \intersect ToSet(r) = {},
             NEW i \in 1..Len(q), NEW j \in 1..Len(q), q[i] = q[j]
      PROVE  i = j
  <2>1. CASE i \in 1..Len(s) /\ j \in 1..Len(s)
    BY <1>1, <1>2, <1>6, <2>1
  <2>2. CASE i \in 1..Len(s) /\ j \notin 1..Len(s)
    <3>1. q[i] \in ToSet(s) /\ q[j] \in ToSet(r)
      BY <1>1, <1>2, <1>3, <2>2
    <3> QED
      BY <1>6, <3>1
  <2>3. CASE i \notin 1..Len(s) /\ j \in 1..Len(s)
    <3>1. q[i] \in ToSet(r) /\ q[j] \in ToSet(s)
      BY <1>1, <1>2, <1>3, <2>3
    <3> QED
      BY <1>6, <3>1
  <2>4. CASE i \notin 1..Len(s) /\ j \notin 1..Len(s)
    <3>1. /\ i - Len(s) \in 1..Len(r) /\ q[i] = r[i - Len(s)]
          /\ j - Len(s) \in 1..Len(r) /\ q[j] = r[j - Len(s)]
      BY <1>3, <2>4
    <3>2. i - Len(s) = j - Len(s)
      BY <1>2, <1>6, <3>1
    <3> QED
      BY <1>1, <3>2
  <2> QED
    BY <2>1, <2>2, <2>3, <2>4
<1>7. IsInjective(s) /\ IsInjective(r) /\ ToSet(s) \intersect ToSet(r) = {} => IsInjective(q)
  BY <1>2, <1>6
<1> QED
  BY <1>1, <1>3, <1>5, <1>7 DEF q

----------------------------------------------------------------------------
\* The rows of the history.

Rows == [task : TaskIds, status : RowStates]

\* n is the last row of task t, or 0.
IsLastRow(r, t, n) ==
  /\ n \in 0..Len(r)
  /\ n # 0 => r[n].task = t
  /\ \A i \in 1..Len(r) : r[i].task = t => n # 0 /\ i <= n

\* _find_by_task finds it.
LEMMA LastRow ==
  ASSUME NEW R, NEW r \in Seq(R), NEW t
  PROVE  IsLastRow(r, t, LET I == {i \in 1..Len(r) : r[i].task = t}
                         IN  IF I # {} THEN Max(I) ELSE 0)
<1> DEFINE I == {i \in 1..Len(r) : r[i].task = t}
           n == IF I # {} THEN Max(I) ELSE 0
<1>1. SUFFICES IsLastRow(r, t, n)
  OBVIOUS
<1>2. Len(r) \in Nat
  OBVIOUS
<1>3. CASE I = {}
  <2>1. n = 0 /\ 0 \in 0..Len(r) /\ \A i \in 1..Len(r) : r[i].task # t
    BY <1>2, <1>3
  <2> HIDE DEF n, I
  <2> QED
    BY <1>1, <2>1 DEF IsLastRow
<1>4. CASE I # {}
  <2>1. \E x \in I : \A y \in I : x >= y
    <3> DEFINE M == {Len(r) - i : i \in I}
    <3>1. M \in SUBSET Nat /\ M # {}
      BY <1>2, <1>4
    <3> HIDE DEF M
    <3>2. PICK m \in M : \A k \in M : m <= k
      BY <3>1, NatMin
    <3>3. PICK x \in I : m = Len(r) - x
      BY DEF M
    <3>4. ASSUME NEW y \in I PROVE x >= y
      <4>1. Len(r) - y \in M
        BY DEF M
      <4>2. Len(r) - x <= Len(r) - y /\ x \in Nat /\ y \in Nat
        BY <3>2, <3>3, <4>1
      <4> QED
        BY <1>2, <4>2
    <3> QED
      BY <3>4
  <2>2. Max(I) \in I /\ \A y \in I : Max(I) >= y
    BY <2>1 DEF Max
  <2>3. n = Max(I)
    BY <1>4
  <2> HIDE DEF n
  <2>4. n \in I /\ \A y \in I : n >= y
    BY <2>2, <2>3
  <2>5. /\ n \in 0..Len(r) /\ n # 0 /\ n \in Nat /\ r[n].task = t
        /\ \A i \in 1..Len(r) : r[i].task = t => i \in I /\ i \in Nat
    BY <1>2, <2>4
  <2>6. \A i \in 1..Len(r) : r[i].task = t => i <= n
    BY <2>4, <2>5
  <2> HIDE DEF I
  <2> QED
    BY <1>1, <2>5, <2>6 DEF IsLastRow
<1> QED
  BY <1>3, <1>4

\* There is one last row.
LEMMA LastIsUnique ==
  ASSUME NEW R, NEW r \in Seq(R), NEW t, NEW n, NEW m, IsLastRow(r, t, n), IsLastRow(r, t, m)
  PROVE  n = m
<1>1. /\ Len(r) \in Nat /\ n \in Nat /\ m \in Nat
      /\ n # 0 => n \in 1..Len(r) /\ r[n].task = t
      /\ m # 0 => m \in 1..Len(r) /\ r[m].task = t
  BY DEF IsLastRow
<1>2. n # 0 => m # 0 /\ n <= m
  BY <1>1 DEF IsLastRow
<1>3. m # 0 => n # 0 /\ m <= n
  BY <1>1 DEF IsLastRow
<1> QED
  BY <1>1, <1>2, <1>3

\* The row of a task, before a step and after it.
LEMMA RowIs ==
  ASSUME rows \in Seq(Rows), NEW t
  PROVE  IsLastRow(rows, t, RowOf(t))
<1> DEFINE I == {i \in 1..Len(rows) : rows[i].task = t}
<1>1. RowOf(t) = IF I # {} THEN Max(I) ELSE 0
  BY DEF RowOf, SelectLastInSeq
<1>2. IsLastRow(rows, t, IF I # {} THEN Max(I) ELSE 0)
  BY LastRow
<1> QED
  BY <1>1, <1>2

\* The same for the rows after the step.
LEMMA RowIsNext ==
  ASSUME rows' \in Seq(Rows), NEW t
  PROVE  IsLastRow(rows', t, RowOf(t)')
<1> DEFINE I == {i \in 1..Len(rows') : rows'[i].task = t}
<1>1. RowOf(t)' = IF I # {} THEN Max(I) ELSE 0
  BY DEF RowOf, SelectLastInSeq
<1>2. IsLastRow(rows', t, IF I # {} THEN Max(I) ELSE 0)
  BY LastRow
<1> QED
  BY <1>1, <1>2

\* Rows of other tasks may change, and new ones may come: the task's row stays.
LEMMA SameRow ==
  ASSUME rows \in Seq(Rows), rows' \in Seq(Rows), NEW t,
         \A i \in 1..Len(rows) : i \in 1..Len(rows') /\ (rows'[i].task = t <=> rows[i].task = t),
         \A i \in 1..Len(rows') : rows'[i].task = t => i \in 1..Len(rows)
  PROVE  RowOf(t)' = RowOf(t)
<1> DEFINE n == RowOf(t)
           m == RowOf(t)'
<1>1. IsLastRow(rows, t, n) /\ IsLastRow(rows', t, m) /\ Len(rows) \in Nat /\ Len(rows') \in Nat
  BY RowIs, RowIsNext
<1> HIDE DEF n, m
<1>2. /\ n \in Nat /\ m \in Nat
      /\ n # 0 => n \in 1..Len(rows) /\ rows[n].task = t
      /\ m # 0 => m \in 1..Len(rows') /\ rows'[m].task = t
  BY <1>1 DEF IsLastRow
<1>3. n # 0 => m # 0 /\ n <= m
  BY <1>1, <1>2 DEF IsLastRow
<1>4. m # 0 => n # 0 /\ m <= n
  BY <1>1, <1>2 DEF IsLastRow
<1>5. n = m
  BY <1>2, <1>3, <1>4
<1> QED
  BY <1>5 DEF n, m

\* What setting the status of a row does.
LEMMA RowSet ==
  ASSUME rows \in Seq(Rows), NEW n \in 1..Len(rows), NEW s \in RowStates
  PROVE  /\ SetRow(n, s) \in Seq(Rows) /\ Len(SetRow(n, s)) = Len(rows)
         /\ SetRow(n, s)[n] = [task |-> rows[n].task, status |-> s]
         /\ \A i \in 1..Len(rows) : i # n => SetRow(n, s)[i] = rows[i]
<1>1. Len(rows) \in Nat /\ \A i \in 1..Len(rows) : rows[i] \in Rows
  OBVIOUS
<1>2. [rows[n] EXCEPT !.status = s] = [task |-> rows[n].task, status |-> s]
      /\ [task |-> rows[n].task, status |-> s] \in Rows
  BY <1>1 DEF Rows
<1> QED
  BY <1>1, <1>2 DEF SetRow

----------------------------------------------------------------------------
\* The invariant.

Running == {"persisted", "queued", "stored", "succeeded", "failing"}

\* While the process is down, all of its memory is gone.
Asleep ==
  ~ up => /\ draft = <<>> /\ scheduled = <<>> /\ survivors = <<>> /\ rekey = <<>>
          /\ \A t \in TaskIds : stage[t] \in {"unborn", "gone"}

\* Ids are given out in order, and nothing speaks of one that was not.
Known(t) == t \in TaskIds /\ stage[t] # "unborn"

IdsInOrder == \A t, u \in TaskIds : u < t /\ stage[t] # "unborn" => stage[u] # "unborn"

FilesOfKnown ==
  \A t \in TaskIds : /\ FileOf(t) \in Files <=> stage[t] # "unborn"
                     /\ stage[t] # "unborn" => work[t].ver # 0

NothingUnknown ==
  /\ \A t \in recorded : Known(t)
  /\ ToSet(ledger) \subseteq recorded
  /\ \A i \in 1..Len(rows) : Known(rows[i].task)
  /\ \A f \in Files : cur[f] # 0 => Known(cur[f])
  /\ rekey # <<>> => Known(rekey[2])

DraftIsNewer ==
  draft # <<>> => /\ Known(draft[2]) /\ FileOf(draft[2]) = draft[1]
                  /\ \A f \in Files : cur[f] < draft[2]

Born == IdsInOrder /\ FilesOfKnown /\ NothingUnknown /\ DraftIsNewer

\* Where a task waits, and what recovery holds.
Queued ==
  /\ \A t \in ToSet(scheduled) : stage[t] = "scheduled"
  /\ \A t \in ToSet(survivors) : stage[t] = "gone"
  /\ IsInjective(survivors)

\* A task that is worked on has its ledger row.
OnRecord == \A t \in TaskIds : stage[t] \in Running => t \in ToSet(ledger)

\* A known task of a file without an excuse is the first for its version, and a row
\* changes hands only between tasks of excused files.
Plain(t) == stage[t] # "unborn" /\ FileOf(t) \notin excused

OwnVersion == \A t \in TaskIds : Plain(t) => work[t].ver = t

RekeyExcused ==
  rekey # <<>> => FileOf(rows[rekey[1]].task) \in excused /\ FileOf(rekey[2]) \in excused

\* What was recorded, or is about to be, is not newer than the current version, but
\* for the one that is being uploaded.
Latest ==
  \A t \in recorded \union ToSet(scheduled) :
    Plain(t) => t <= cur[FileOf(t)] \/ draft = <<FileOf(t), t>>

\* Tasks of one file stand in the order of their versions.
Sorted(s) ==
  \A i, j \in 1..Len(s) :
    i < j /\ Plain(s[i]) /\ FileOf(s[i]) = FileOf(s[j]) => s[i] < s[j]

InOrder ==
  /\ Sorted(ledger)
  /\ Sorted(scheduled)
  /\ \A t \in ToSet(ledger), u \in ToSet(scheduled) :
       Plain(t) /\ FileOf(t) = FileOf(u) => t <= u

RowFailed(t) == RowOf(t) # 0 /\ rows[RowOf(t)].status = "failed"

\* What a stage says of the stores.
Outcome ==
  \A t \in TaskIds : Plain(t) =>
    /\ stage[t] \in {"stored", "succeeded", "COMPLETED"} => <<FileOf(t), t>> \in indexed
    /\ stage[t] \in {"queued", "stored"} => RowOf(t) # 0
    /\ stage[t] \in {"failing", "FAILED"} => RowFailed(t)

\* The task of the current version, or of the one that is being uploaded.
Top(t) == t = cur[FileOf(t)] \/ draft = <<FileOf(t), t>>

\* Once recorded it is on the ledger until it is ingested or shown as failed.
Held ==
  \A t \in recorded :
    Plain(t) /\ Top(t) =>
      t \in ToSet(ledger) \/ <<FileOf(t), t>> \in indexed \/ RowFailed(t)

Base == TypeOK /\ Asleep /\ Born /\ Queued /\ OnRecord

----------------------------------------------------------------------------
\* The start.

\* The empty sequence has no members.
LEMMA Nobody ==
  /\ \A S : <<>> \in Seq(S)
  /\ ToSet(<<>>) = {} /\ Len(<<>>) = 0 /\ IsInjective(<<>>)
BY DEF ToSet, IsInjective

\* At first there is nothing.
LEMMA InitBase == ASSUME Init PROVE Base
<1>1. TypeOK
  <2>1. /\ cur \in [Files -> 0..MaxTasks] /\ stage \in [TaskIds -> Stages]
        /\ calls \in [CallKinds -> Nat]
    BY BoundsAssumption DEF Init, Stages
  <2>2. work \in [TaskIds -> [file : Files \union {NoFile}, ver : 0..MaxTasks]]
    BY BoundsAssumption DEF Init
  <2> QED
    BY <2>1, <2>2, Nobody DEF Init, TypeOK
<1>2. Asleep
  BY DEF Init, Asleep
<1>3. Born
  BY Nobody, FilesAssumption
     DEF Init, Born, IdsInOrder, FilesOfKnown, NothingUnknown, DraftIsNewer, Known, FileOf
<1>4. Queued /\ OnRecord
  BY Nobody DEF Init, Queued, OnRecord, Running
<1> QED
  BY <1>1, <1>2, <1>3, <1>4 DEF Base

----------------------------------------------------------------------------
\* What the steps do to the sequences.

\* A task is scheduled when it was not.
LEMMA Scheduling ==
  ASSUME Base, NEW t \in TaskIds, stage[t] # "scheduled", Schedule(t)
  PROVE  /\ scheduled' \in Seq(TaskIds) /\ IsInjective(scheduled')
         /\ ToSet(scheduled') = ToSet(scheduled) \union {t}
         /\ Len(scheduled) \in Nat /\ Len(scheduled') = Len(scheduled) + 1
         /\ \A i \in 1..Len(scheduled) : scheduled'[i] = scheduled[i]
         /\ scheduled'[Len(scheduled) + 1] = t
         /\ stage' = [stage EXCEPT ![t] = "scheduled"] /\ stage' \in [TaskIds -> Stages]
<1>1. scheduled \in Seq(TaskIds) /\ IsInjective(scheduled) /\ stage \in [TaskIds -> Stages]
      /\ t \notin ToSet(scheduled)
  BY DEF Base, TypeOK, Queued
<1>2. scheduled' = Append(scheduled, t) /\ stage' = [stage EXCEPT ![t] = "scheduled"]
  BY DEF Schedule
<1>3. stage' \in [TaskIds -> Stages]
  BY <1>1, <1>2 DEF Stages, InFlight
<1> QED
  BY <1>1, <1>2, <1>3, Added

\* A ledger without a task.
LEMMA WithoutOne ==
  ASSUME TypeOK, NEW t
  PROVE  /\ Without(ledger, t) \in Seq(TaskIds) /\ IsInjective(Without(ledger, t))
         /\ ToSet(Without(ledger, t)) = ToSet(ledger) \ {t}
         /\ Follows(Without(ledger, t), ledger)
<1>1. ledger \in Seq(TaskIds) /\ IsInjective(ledger) /\ ToSet(ledger) \subseteq TaskIds
  BY Members DEF TypeOK
<1>2. ToSet(ledger) \intersect (TaskIds \ {t}) = ToSet(ledger) \ {t}
  BY <1>1
<1> QED
  BY <1>1, <1>2, Filtered DEF Without

\* PersistTask takes the first task that waits.
LEMMA Persisting ==
  ASSUME Base, PersistTask
  PROVE  \E t \in TaskIds :
           /\ t = scheduled[1] /\ stage[t] = "scheduled" /\ t \in ToSet(scheduled)
           /\ scheduled' \in Seq(TaskIds) /\ IsInjective(scheduled')
           /\ ToSet(scheduled') = ToSet(scheduled) \ {t}
           /\ Len(scheduled) \in Nat \ {0}
           /\ \A i \in 1..Len(scheduled') : scheduled'[i] = scheduled[i + 1] /\ i + 1 \in 1..Len(scheduled)
           /\ ledger' = Append(Without(ledger, t), t)
           /\ ledger' \in Seq(TaskIds) /\ IsInjective(ledger')
           /\ ToSet(ledger') = ToSet(ledger) \union {t}
           /\ stage' = [stage EXCEPT ![t] = "persisted"] /\ stage' \in [TaskIds -> Stages]
           /\ recorded' = recorded \union {t}
<1> DEFINE t == Head(scheduled)
<1>1. scheduled \in Seq(TaskIds) /\ IsInjective(scheduled) /\ scheduled # <<>> /\ TypeOK
  BY DEF Base, TypeOK, PersistTask
<1>2. /\ Tail(scheduled) \in Seq(TaskIds) /\ t \in TaskIds /\ t = scheduled[1]
      /\ Len(scheduled) \in Nat \ {0}
      /\ \A i \in 1..Len(Tail(scheduled)) : Tail(scheduled)[i] = scheduled[i + 1] /\ i + 1 \in 1..Len(scheduled)
      /\ ToSet(scheduled) = ToSet(Tail(scheduled)) \union {t}
      /\ IsInjective(Tail(scheduled)) /\ t \notin ToSet(Tail(scheduled))
  BY <1>1, Taken
<1>3. /\ scheduled' = Tail(scheduled) /\ ledger' = Append(Without(ledger, t), t)
      /\ stage' = [stage EXCEPT ![t] = "persisted"] /\ recorded' = recorded \union {t}
  BY DEF PersistTask
<1> HIDE DEF t
<1>4. /\ Without(ledger, t) \in Seq(TaskIds) /\ IsInjective(Without(ledger, t))
      /\ ToSet(Without(ledger, t)) = ToSet(ledger) \ {t}
  BY <1>1, WithoutOne
<1>5. ledger' \in Seq(TaskIds) /\ IsInjective(ledger') /\ ToSet(ledger') = ToSet(ledger) \union {t}
  BY <1>2, <1>3, <1>4, Added
<1>6. stage[t] = "scheduled"
  BY <1>2 DEF Base, Queued
<1>7. stage' \in [TaskIds -> Stages]
  BY <1>1, <1>3 DEF TypeOK, Stages, InFlight
<1>8. ToSet(scheduled') = ToSet(scheduled) \ {t} /\ t \in ToSet(scheduled)
  BY <1>2, <1>3
<1> QED
  BY <1>2, <1>3, <1>5, <1>6, <1>7, <1>8

\* The start drops from the ledger what is superseded.
LEMMA Restarting ==
  ASSUME Base, Restart
  PROVE  /\ ledger' \in Seq(TaskIds) /\ IsInjective(ledger') /\ survivors' = ledger'
         /\ ToSet(ledger') = {t \in ToSet(ledger) : IsNewest(t)}
         /\ Follows(ledger', ledger)
<1> DEFINE T == {t \in TaskIds : IsNewest(t)}
<1>1. ledger \in Seq(TaskIds) /\ IsInjective(ledger) /\ ToSet(ledger) \subseteq TaskIds
  BY Members DEF Base, TypeOK
<1>2. ledger' = Kept(ledger, T) /\ survivors' = Kept(ledger, T)
  BY DEF Restart
<1>3. ToSet(ledger) \intersect T = {t \in ToSet(ledger) : IsNewest(t)}
  BY <1>1
<1> HIDE DEF T
<1> QED
  BY <1>1, <1>2, <1>3, Filtered

\* Recovery schedules the survivors whose version is current and drops the others.
LEMMA Requeueing ==
  ASSUME Base, RequeueSurvivors
  PROVE  \E r \in Seq(TaskIds) :
           /\ ToSet(r) = {t \in ToSet(survivors) : VersionIsCurrent(t)}
           /\ Follows(r, survivors)
           /\ scheduled' = scheduled \o r
           /\ scheduled' \in Seq(TaskIds) /\ IsInjective(scheduled')
           /\ ToSet(scheduled') = ToSet(scheduled) \union ToSet(r)
           /\ stage' = [t \in TaskIds |-> IF t \in ToSet(r) THEN "scheduled" ELSE stage[t]]
           /\ stage' \in [TaskIds -> Stages]
           /\ ledger' \in Seq(TaskIds) /\ IsInjective(ledger')
           /\ ToSet(ledger') = {t \in ToSet(ledger) : t \in ToSet(survivors) => VersionIsCurrent(t)}
           /\ Follows(ledger', ledger)
           /\ survivors' = <<>>
<1> DEFINE r == Kept(survivors, {t \in ToSet(survivors) : VersionIsCurrent(t)})
           T == {t \in TaskIds : t \in ToSet(survivors) => t \in ToSet(r)}
<1>1. /\ ledger \in Seq(TaskIds) /\ IsInjective(ledger) /\ ToSet(ledger) \subseteq TaskIds
      /\ survivors \in Seq(TaskIds) /\ IsInjective(survivors)
      /\ scheduled \in Seq(TaskIds) /\ IsInjective(scheduled) /\ stage \in [TaskIds -> Stages]
  BY Members DEF Base, TypeOK, Queued
<1>2. /\ scheduled' = scheduled \o r /\ ledger' = Kept(ledger, T) /\ survivors' = <<>>
      /\ stage' = [t \in TaskIds |-> IF t \in ToSet(r) THEN "scheduled" ELSE stage[t]]
  BY DEF RequeueSurvivors
<1>3. /\ r \in Seq(TaskIds) /\ IsInjective(r)
      /\ ToSet(r) = ToSet(survivors) \intersect {t \in ToSet(survivors) : VersionIsCurrent(t)}
      /\ Follows(r, survivors)
  BY <1>1, Filtered
<1> HIDE DEF r
<1>4. ToSet(r) = {t \in ToSet(survivors) : VersionIsCurrent(t)}
  BY <1>3
<1>5. ToSet(scheduled) \intersect ToSet(r) = {}
  BY <1>4 DEF Base, Queued
<1>6. /\ scheduled' \in Seq(TaskIds) /\ IsInjective(scheduled')
      /\ ToSet(scheduled') = ToSet(scheduled) \union ToSet(r)
  BY <1>1, <1>2, <1>3, <1>5, Joined
<1>7. ToSet(ledger) \intersect T = {t \in ToSet(ledger) : t \in ToSet(survivors) => VersionIsCurrent(t)}
  BY <1>1, <1>4
<1> HIDE DEF T
<1>8. /\ ledger' \in Seq(TaskIds) /\ IsInjective(ledger')
      /\ ToSet(ledger') = ToSet(ledger) \intersect T
      /\ Follows(ledger', ledger)
  BY <1>1, <1>2, Filtered
<1>9. stage' \in [TaskIds -> Stages]
  BY <1>1, <1>2 DEF Stages, InFlight
<1> QED
  BY <1>2, <1>3, <1>4, <1>6, <1>7, <1>8, <1>9

----------------------------------------------------------------------------
\* What the steps do to the rows.

\* Only rows of task t change, and only rows of t are added.
OnlyRowsOf(t) ==
  /\ rows' \in Seq(Rows) /\ Len(rows) \in Nat /\ Len(rows') \in Nat /\ Len(rows) <= Len(rows')
  /\ \A i \in 1..Len(rows) :
       rows'[i].task = rows[i].task /\ (rows[i].task # t => rows'[i] = rows[i])
  /\ \A i \in 1..Len(rows') : i \in 1..Len(rows) \/ rows'[i].task = t

\* The rows of the others say what they said.
LEMMA OthersRows ==
  ASSUME rows \in Seq(Rows), NEW t, OnlyRowsOf(t), NEW u, u # t
  PROVE  RowOf(u)' = RowOf(u) /\ (RowFailed(u) => RowFailed(u)')
<1>1. RowOf(u)' = RowOf(u)
  <2>1. \A i \in 1..Len(rows) : i \in 1..Len(rows')
    BY DEF OnlyRowsOf
  <2>2. \A i \in 1..Len(rows') : rows'[i].task = u => i \in 1..Len(rows)
    BY DEF OnlyRowsOf
  <2>3. rows' \in Seq(Rows) /\ \A i \in 1..Len(rows) : rows'[i].task = rows[i].task
    BY DEF OnlyRowsOf
  <2> QED
    BY <2>1, <2>2, <2>3, SameRow
<1>2. IsLastRow(rows, u, RowOf(u))
  BY RowIs
<1>3. RowOf(u) # 0 => RowOf(u) \in 1..Len(rows) /\ rows[RowOf(u)].task = u
  BY <1>2 DEF IsLastRow
<1>4. RowOf(u) # 0 => rows'[RowOf(u)] = rows[RowOf(u)]
  BY <1>3 DEF OnlyRowsOf
<1> QED
  BY <1>1, <1>4 DEF RowFailed

\* record_queued leaves the task a row.
LEMMA Recording ==
  ASSUME rows \in Seq(Rows), NEW t \in TaskIds, RecordQueued(t)
  PROVE  OnlyRowsOf(t) /\ RowOf(t)' # 0
<1>1. IsLastRow(rows, t, RowOf(t)) /\ Len(rows) \in Nat
  BY RowIs
<1>2. CASE RowOf(t) = 0
  <2> DEFINE row == [task |-> t, status |-> "open"]
  <2>1. rows' = Append(rows, row) /\ row \in Rows /\ row.task = t
    BY <1>2 DEF RecordQueued, Rows, RowStates
  <2> HIDE DEF row
  <2>2. /\ rows' \in Seq(Rows) /\ Len(rows') = Len(rows) + 1 /\ Len(rows) \in Nat
        /\ \A i \in 1..Len(rows) : rows'[i] = rows[i]
        /\ rows'[Len(rows) + 1] = row
    BY <2>1, Added
  <2>3. \A i \in 1..Len(rows') : i \in 1..Len(rows) \/ i = Len(rows) + 1
    BY <2>2
  <2>4. OnlyRowsOf(t)
    <3>1. Len(rows') \in Nat /\ Len(rows) <= Len(rows')
      BY <2>2
    <3> QED
      BY <2>1, <2>2, <2>3, <3>1 DEF OnlyRowsOf
  <2>5. IsLastRow(rows', t, RowOf(t)')
    BY <2>2, RowIsNext
  <2>6. Len(rows) + 1 \in 1..Len(rows') /\ rows'[Len(rows) + 1].task = t
    BY <2>1, <2>2
  <2> QED
    BY <2>4, <2>5, <2>6 DEF IsLastRow
<1>3. CASE RowOf(t) # 0
  <2> DEFINE n == RowOf(t)
  <2>1. n \in 1..Len(rows) /\ rows[n].task = t
    BY <1>1, <1>3 DEF IsLastRow
  <2>2. rows' = SetRow(n, "open") /\ "open" \in RowStates
    BY <1>3 DEF RecordQueued, RowStates
  <2> HIDE DEF n
  <2>3. /\ rows' \in Seq(Rows) /\ Len(rows') = Len(rows)
        /\ rows'[n] = [task |-> rows[n].task, status |-> "open"]
        /\ \A i \in 1..Len(rows) : i # n => rows'[i] = rows[i]
    BY <2>1, <2>2, RowSet
  <2>4. \A i \in 1..Len(rows) :
          rows'[i].task = rows[i].task /\ (rows[i].task # t => rows'[i] = rows[i])
    BY <2>1, <2>3
  <2>5. OnlyRowsOf(t)
    BY <1>1, <2>3, <2>4 DEF OnlyRowsOf
  <2>6. RowOf(t)' = RowOf(t)
    BY <2>3, <2>4, SameRow
  <2> QED
    BY <1>3, <2>5, <2>6
<1> QED
  BY <1>2, <1>3

\* mark_success and mark_failed set the status of the row there is.
LEMMA Marking ==
  ASSUME rows \in Seq(Rows), NEW t \in TaskIds, NEW s \in RowStates, MarkRow(t, s)
  PROVE  /\ OnlyRowsOf(t)
         /\ RowOf(t) # 0 => RowOf(t)' = RowOf(t) /\ rows'[RowOf(t)].status = s
<1>1. IsLastRow(rows, t, RowOf(t)) /\ Len(rows) \in Nat
  BY RowIs
<1>2. CASE RowOf(t) = 0
  <2>1. rows' = rows
    BY <1>2 DEF MarkRow
  <2> QED
    BY <1>1, <1>2, <2>1 DEF OnlyRowsOf
<1>3. CASE RowOf(t) # 0
  <2> DEFINE n == RowOf(t)
  <2>1. n \in 1..Len(rows) /\ rows[n].task = t
    BY <1>1, <1>3 DEF IsLastRow
  <2>2. rows' = SetRow(n, s)
    BY <1>3 DEF MarkRow
  <2>7. n = RowOf(t)
    OBVIOUS
  <2> HIDE DEF n
  <2>3. /\ rows' \in Seq(Rows) /\ Len(rows') = Len(rows)
        /\ rows'[n] = [task |-> rows[n].task, status |-> s]
        /\ \A i \in 1..Len(rows) : i # n => rows'[i] = rows[i]
    BY <2>1, <2>2, RowSet
  <2>4. \A i \in 1..Len(rows) :
          rows'[i].task = rows[i].task /\ (rows[i].task # t => rows'[i] = rows[i])
    BY <2>1, <2>3
  <2>5. OnlyRowsOf(t)
    BY <1>1, <2>3, <2>4 DEF OnlyRowsOf
  <2>6. RowOf(t)' = RowOf(t)
    BY <2>3, <2>4, SameRow
  <2> QED
    BY <2>3, <2>5, <2>6, <2>7
<1> QED
  BY <1>2, <1>3

\* mark_interrupted changes no task and no failed row.
LEMMA Interrupting ==
  ASSUME rows \in Seq(Rows), MarkInterrupted
  PROVE  /\ rows' \in Seq(Rows) /\ Len(rows') = Len(rows) /\ Len(rows) \in Nat
         /\ \A i \in 1..Len(rows) : rows'[i].task = rows[i].task
         /\ \A i \in 1..Len(rows) : rows[i].status = "failed" => rows'[i] = rows[i]
         /\ \A u : RowOf(u)' = RowOf(u) /\ (RowFailed(u) => RowFailed(u)')
<1>1. Len(rows) \in Nat /\ DOMAIN rows = 1..Len(rows) /\ \A i \in 1..Len(rows) : rows[i] \in Rows
  OBVIOUS
<1>2. \A i \in 1..Len(rows) :
        /\ [rows[i] EXCEPT !.status = "failed"] \in Rows
        /\ [rows[i] EXCEPT !.status = "failed"].task = rows[i].task
  BY <1>1 DEF Rows, RowStates
<1>3. rows' = [i \in 1..Len(rows) |->
                IF rows[i].status \in {"success", "failed"} \/ rows[i].task \in ToSet(ledger)
                THEN rows[i]
                ELSE [rows[i] EXCEPT !.status = "failed"]]
  BY <1>1 DEF MarkInterrupted
<1>4. \A i \in 1..Len(rows) : rows'[i] \in Rows /\ rows'[i].task = rows[i].task
  BY <1>1, <1>2, <1>3
<1>5. rows' \in Seq(Rows) /\ Len(rows') = Len(rows)
  <2>1. rows' = [i \in 1..Len(rows) |-> rows'[i]]
    BY <1>3
  <2> QED
    BY <1>1, <1>4, <2>1
<1>6. \A i \in 1..Len(rows) : rows[i].status = "failed" => rows'[i] = rows[i]
  BY <1>3
<1>7. ASSUME NEW u
      PROVE  RowOf(u)' = RowOf(u) /\ (RowFailed(u) => RowFailed(u)')
  <2>1. RowOf(u)' = RowOf(u)
    BY <1>4, <1>5, SameRow
  <2>2. IsLastRow(rows, u, RowOf(u))
    BY RowIs
  <2>3. RowOf(u) # 0 => RowOf(u) \in 1..Len(rows)
    BY <1>1, <2>2 DEF IsLastRow
  <2> QED
    BY <1>6, <2>1, <2>3 DEF RowFailed
<1> QED
  BY <1>1, <1>4, <1>5, <1>6, <1>7

----------------------------------------------------------------------------
\* The base is kept.

\* Calls are counted.
LEMMA Counting ==
  ASSUME TypeOK, NEW k \in CallKinds, calls' = [calls EXCEPT ![k] = @ + 1]
  PROVE  calls' \in [CallKinds -> Nat]
<1>1. calls \in [CallKinds -> Nat] /\ calls[k] + 1 \in Nat
  BY DEF TypeOK
<1> QED
  BY <1>1

\* What a unit of work does.
LEMMA Working ==
  ASSUME Base, NEW t \in TaskIds, WorkOn(t)
  PROVE  /\ UNCHANGED <<cur, draft, scheduled, rekey, survivors, work, up, calls, recorded, excused>>
         /\ stage[t] \in Running /\ OnlyRowsOf(t)
         /\ \E s \in Running \union {"COMPLETED", "FAILED"} :
              /\ stage' = [stage EXCEPT ![t] = s]
              /\ s \in Running => ledger' = ledger
              /\ s \notin Running => ledger' = Without(ledger, t)
         /\ indexed \subseteq indexed' /\ indexed' \subseteq Files \X (1..MaxTasks)
<1>1. /\ stage \in [TaskIds -> Stages] /\ rows \in Seq(Rows) /\ indexed \subseteq Files \X (1..MaxTasks)
      /\ Len(rows) \in Nat
  BY DEF Base, TypeOK, Rows
<1>2. rows' = rows => OnlyRowsOf(t)
  BY <1>1 DEF OnlyRowsOf
<1>3. CASE QueueTask(t)
  <2>1. OnlyRowsOf(t)
    BY <1>1, <1>3, Recording DEF QueueTask
  <2> QED
    BY <1>1, <1>3, <2>1 DEF QueueTask, history, Running
<1>4. CASE StoreChunks(t)
  <2>1. FileOf(t) \in Files /\ work[t].ver \in 1..MaxTasks
    <3>1. FileOf(t) \in Files
      BY <1>4 DEF StoreChunks, Base, Born, FilesOfKnown
    <3>2. work[t].ver # 0 /\ work[t].ver \in 0..MaxTasks /\ MaxTasks \in Nat
      BY <1>4, BoundsAssumption DEF StoreChunks, Base, Born, FilesOfKnown, TypeOK
    <3> QED
      BY <3>1, <3>2
  <2> QED
    BY <1>1, <1>2, <1>4, <2>1 DEF StoreChunks, history, Running
<1>5. CASE RecordSuccess(t)
  <2>1. OnlyRowsOf(t)
    BY <1>1, <1>5, Marking DEF RecordSuccess, RowStates
  <2> QED
    BY <1>1, <1>5, <2>1 DEF RecordSuccess, history, Running
<1>6. CASE RecordFailure(t)
  <2>1. OnlyRowsOf(t)
    BY <1>1, <1>6, Marking DEF RecordFailure, RowStates
  <2> QED
    BY <1>1, <1>6, <2>1 DEF RecordFailure, history, Running
<1>7. CASE FinishUpload(t)
  <2> DEFINE s == IF stage[t] = "succeeded" THEN "COMPLETED" ELSE "FAILED"
  <2>1. /\ stage' = [stage EXCEPT ![t] = s] /\ s \in {"COMPLETED", "FAILED"}
        /\ s \notin Running /\ ledger' = Without(ledger, t)
    BY <1>1, <1>7 DEF FinishUpload, Running
  <2> HIDE DEF s
  <2> QED
    BY <1>1, <1>2, <1>7, <2>1 DEF FinishUpload, history, Running
<1> QED
  BY <1>3, <1>4, <1>5, <1>6, <1>7 DEF WorkOn

\* What is known stays known, and keeps its file and version.
Keeps ==
  \A t \in TaskIds : stage[t] # "unborn" => stage'[t] # "unborn" /\ work'[t] = work[t]

\* A step that makes no task keeps the order of ids.
LEMMA NoneMade ==
  ASSUME Base, work' = work, \A t \in TaskIds : stage'[t] = "unborn" <=> stage[t] = "unborn"
  PROVE  Keeps /\ IdsInOrder' /\ FilesOfKnown'
BY DEF Base, Born, Keeps, IdsInOrder, FilesOfKnown, FileOf

\* Work on a task keeps the base.
LEMMA WorkBase ==
  ASSUME Base, NEW t \in TaskIds, WorkOn(t)
  PROVE  Base'
<1>1. /\ UNCHANGED <<cur, draft, scheduled, rekey, survivors, work, up, calls, recorded, excused>>
      /\ stage[t] \in Running /\ OnlyRowsOf(t)
      /\ indexed' \subseteq Files \X (1..MaxTasks)
  BY Working
<1>2. PICK s \in Running \union {"COMPLETED", "FAILED"} :
        /\ stage' = [stage EXCEPT ![t] = s]
        /\ s \in Running => ledger' = ledger
        /\ s \notin Running => ledger' = Without(ledger, t)
  BY Working
<1>3. TypeOK /\ Asleep /\ Born /\ Queued /\ OnRecord
  BY DEF Base
<1>4. /\ stage \in [TaskIds -> Stages] /\ stage[t] \notin {"unborn", "gone", "scheduled"}
      /\ s \notin {"unborn", "gone", "scheduled"} /\ s \in Stages
  BY <1>1, <1>2, <1>3 DEF TypeOK, Running, Stages, InFlight
<1>5. /\ ledger' \in Seq(TaskIds) /\ IsInjective(ledger')
      /\ ToSet(ledger') \subseteq ToSet(ledger) /\ (ToSet(ledger) \ {t}) \subseteq ToSet(ledger')
      /\ s \in Running => ToSet(ledger') = ToSet(ledger)
  BY <1>2, <1>3, WithoutOne DEF TypeOK
<1>6. /\ stage' \in [TaskIds -> Stages] /\ stage'[t] = s
      /\ \A u \in TaskIds : u # t => stage'[u] = stage[u]
  BY <1>2, <1>4
<1>7. t \notin ToSet(survivors) /\ t \notin ToSet(scheduled)
  BY <1>3, <1>4 DEF Queued
<1>8. TypeOK'
  <2>1. rows' \in Seq([task : TaskIds, status : RowStates])
    BY <1>1 DEF OnlyRowsOf, Rows
  <2>2. rekey' \in {<<>>} \union ((DOMAIN rows') \X TaskIds)
    <3>1. DOMAIN rows = 1..Len(rows) /\ DOMAIN rows' = 1..Len(rows')
      BY <1>3, <2>1 DEF TypeOK
    <3>2. DOMAIN rows \subseteq DOMAIN rows'
      BY <1>1, <3>1 DEF OnlyRowsOf
    <3> QED
      BY <1>1, <1>3, <3>2 DEF TypeOK
  <2>3. ToSet(survivors') \subseteq ToSet(ledger')
    BY <1>1, <1>3, <1>5, <1>7 DEF TypeOK
  <2> QED
    BY <1>1, <1>3, <1>5, <1>6, <2>1, <2>2, <2>3 DEF TypeOK
<1>9. Asleep'
  BY <1>1, <1>3, <1>4 DEF Asleep
<1>10. Born'
  <2>1. IdsInOrder' /\ FilesOfKnown'
    BY <1>1, <1>4, <1>6, NoneMade
  <2>2. \A u : Known(u) => Known(u)'
    BY <1>4, <1>6 DEF Known
  <2>3. NothingUnknown'
    <3>1. Known(t)
      BY <1>4 DEF Known
    <3>2. \A i \in 1..Len(rows') : Known(rows'[i].task)
      BY <1>1, <1>3, <3>1 DEF OnlyRowsOf, Born, NothingUnknown
    <3>3. \A i \in 1..Len(rows') : Known(rows[i].task)'
      BY <1>4, <1>6, <3>2 DEF Known
    <3> QED
      BY <1>1, <1>3, <1>5, <2>2, <3>3 DEF Born, NothingUnknown
  <2>4. DraftIsNewer'
    BY <1>1, <1>3, <2>2 DEF Born, DraftIsNewer, FileOf
  <2> QED
    BY <2>1, <2>3, <2>4 DEF Born
<1>11. Queued'
  BY <1>1, <1>3, <1>6, <1>7, Members, SMTT(30) DEF Queued, TypeOK
<1>12. OnRecord'
  <2>1. \A u \in TaskIds : u # t /\ stage'[u] \in Running => u \in ToSet(ledger')
    BY <1>3, <1>5, <1>6 DEF OnRecord
  <2>2. s \in Running => t \in ToSet(ledger')
    BY <1>1, <1>3, <1>5 DEF OnRecord
  <2> QED
    BY <1>6, <2>1, <2>2 DEF OnRecord
<1> QED
  BY <1>8, <1>9, <1>10, <1>11, <1>12 DEF Base

\* A new id follows all the others, and nothing speaks of it.
LEMMA Fresh ==
  ASSUME Base, NEW t \in TaskIds, IsFresh(t)
  PROVE  /\ stage[t] = "unborn" /\ \A u : Known(u) => u < t /\ u \in Nat
         /\ t \notin recorded /\ t \notin ToSet(ledger) /\ t \notin ToSet(scheduled)
         /\ t \notin ToSet(survivors)
<1>1. stage[t] = "unborn" /\ \A u \in TaskIds : u < t => stage[u] # "unborn"
  BY DEF IsFresh
<1>2. \A u : Known(u) => u < t /\ u \in Nat
  <2>1. ASSUME NEW u, Known(u) PROVE u < t /\ u \in Nat
    <3>1. u \in TaskIds /\ stage[u] # "unborn"
      BY <2>1 DEF Known
    <3>2. u # t /\ u \in Nat /\ t \in Nat
      BY <1>1, <3>1 DEF TaskIds
    <3>3. ~ (t < u)
      BY <1>1, <3>1 DEF Base, Born, IdsInOrder
    <3> QED
      BY <3>2, <3>3
  <2> QED
    BY <2>1
<1>3. ~ Known(t)
  BY <1>1 DEF Known
<1> QED
  BY <1>1, <1>2, <1>3 DEF Base, Born, NothingUnknown, Queued

\* A new task is added to what is known.
LEMMA OneMade ==
  ASSUME Base, NEW t \in TaskIds, IsFresh(t), Schedule(t),
         NEW w \in [file : Files, ver : 1..MaxTasks], work' = [work EXCEPT ![t] = w]
  PROVE  /\ Keeps /\ IdsInOrder' /\ FilesOfKnown' /\ Known(t)'
         /\ work'[t] = w /\ \A u \in TaskIds : u # t => work'[u] = work[u] /\ stage'[u] = stage[u]
         /\ stage'[t] = "scheduled"
         /\ work' \in [TaskIds -> [file : Files \union {NoFile}, ver : 0..MaxTasks]]
<1>1. /\ stage[t] = "unborn" /\ \A u : Known(u) => u < t /\ u \in Nat
  BY Fresh
<1>2. /\ stage \in [TaskIds -> Stages] /\ IdsInOrder /\ FilesOfKnown
      /\ work \in [TaskIds -> [file : Files \union {NoFile}, ver : 0..MaxTasks]]
  BY DEF Base, TypeOK, Born
<1>3. stage' = [stage EXCEPT ![t] = "scheduled"]
  BY DEF Schedule
<1>4. /\ stage'[t] = "scheduled" /\ work'[t] = w
      /\ \A u \in TaskIds : u # t => work'[u] = work[u] /\ stage'[u] = stage[u]
  BY <1>2, <1>3
<1>5. Keeps
  BY <1>1, <1>4 DEF Keeps
<1>6. IdsInOrder'
  <2>1. ASSUME NEW a \in TaskIds, NEW u \in TaskIds, u < a, stage'[a] # "unborn"
        PROVE  stage'[u] # "unborn"
    <3>1. CASE a = t
      <4>1. stage[u] # "unborn"
        BY <2>1, <3>1 DEF IsFresh
      <4> QED
        BY <1>1, <1>4, <4>1
    <3>2. CASE a # t
      BY <1>1, <1>2, <1>4, <2>1, <3>2 DEF IdsInOrder
    <3> QED
      BY <3>1, <3>2
  <2> QED
    BY <2>1 DEF IdsInOrder
<1>7. FilesOfKnown'
  <2>1. w.file \in Files /\ w.ver # 0
    OBVIOUS
  <2> QED
    BY <1>2, <1>4, <2>1 DEF FilesOfKnown, FileOf
<1>8. work' \in [TaskIds -> [file : Files \union {NoFile}, ver : 0..MaxTasks]]
  <2>1. w \in [file : Files \union {NoFile}, ver : 0..MaxTasks]
    BY BoundsAssumption
  <2> QED
    BY <1>2, <2>1
<1> QED
  BY <1>4, <1>5, <1>6, <1>7, <1>8 DEF Known

\* What was known is known after the step.
LEMMA StillKnown ==
  ASSUME Keeps
  PROVE  \A u : Known(u) => Known(u)' /\ FileOf(u)' = FileOf(u)
BY DEF Keeps, Known, FileOf

\* Beginning an upload keeps the base.
LEMMA BeginBase ==
  ASSUME Base, NEW f \in Files, NEW t \in TaskIds, BeginUpload(f, t)
  PROVE  Base'
<1>1. /\ up /\ draft = <<>> /\ IsFresh(t) /\ draft' = <<f, t>> /\ Schedule(t)
      /\ work' = [work EXCEPT ![t] = [file |-> f, ver |-> t]]
      /\ UNCHANGED <<cur, ledger, rows, indexed, rekey, survivors, up, calls, recorded, excused>>
  BY DEF BeginUpload, diskVars, history
<1>2. TypeOK /\ Asleep /\ Born /\ Queued /\ OnRecord
  BY DEF Base
<1>3. /\ stage[t] = "unborn" /\ \A u : Known(u) => u < t /\ u \in Nat
      /\ t \notin ToSet(survivors)
  BY <1>1, Fresh
<1>4. /\ Keeps /\ IdsInOrder' /\ FilesOfKnown' /\ Known(t)'
      /\ work'[t] = [file |-> f, ver |-> t]
      /\ \A u \in TaskIds : u # t => work'[u] = work[u] /\ stage'[u] = stage[u]
      /\ stage'[t] = "scheduled"
      /\ work' \in [TaskIds -> [file : Files \union {NoFile}, ver : 0..MaxTasks]]
  <2>1. [file |-> f, ver |-> t] \in [file : Files, ver : 1..MaxTasks]
    BY DEF TaskIds
  <2> QED
    BY <1>1, <2>1, OneMade
<1>5. /\ scheduled' \in Seq(TaskIds) /\ IsInjective(scheduled')
      /\ ToSet(scheduled') = ToSet(scheduled) \union {t} /\ stage' \in [TaskIds -> Stages]
  BY <1>1, <1>3, Scheduling
<1>6. TypeOK'
  BY <1>1, <1>2, <1>4, <1>5 DEF TypeOK
<1>7. Asleep'
  BY <1>1 DEF Asleep
<1>8. Born'
  <2>1. \A u : Known(u) => Known(u)'
    BY <1>4, StillKnown
  <2>2. NothingUnknown'
    BY <1>1, <1>2, <2>1 DEF Born, NothingUnknown
  <2>3. DraftIsNewer'
    <3>1. \A g \in Files : cur[g] < t
      <4>1. ASSUME NEW g \in Files PROVE cur[g] < t
        <5>1. CASE cur[g] = 0
          BY <5>1 DEF TaskIds
        <5>2. CASE cur[g] # 0
          BY <1>2, <1>3, <5>2 DEF Born, NothingUnknown
        <5> QED
          BY <5>1, <5>2
      <4> QED
        BY <4>1
    <3>2. draft'[1] = f /\ draft'[2] = t /\ FileOf(t)' = f
      BY <1>1, <1>4 DEF FileOf
    <3>3. Known(draft[2])' /\ FileOf(draft[2])' = draft'[1]
      BY <1>4, <3>2 DEF Known, FileOf
    <3> QED
      BY <1>1, <3>1, <3>2, <3>3 DEF DraftIsNewer
  <2> QED
    BY <1>4, <2>2, <2>3 DEF Born
<1>9. Queued'
  <2>1. ToSet(survivors) \subseteq TaskIds /\ ToSet(scheduled) \subseteq TaskIds
    BY <1>2, Members DEF TypeOK
  <2> QED
    BY <1>1, <1>2, <1>3, <1>4, <1>5, <2>1 DEF Queued
<1>10. OnRecord'
  BY <1>1, <1>2, <1>4 DEF OnRecord, Running
<1> QED
  BY <1>6, <1>7, <1>8, <1>9, <1>10 DEF Base

\* Retrying from the history keeps the base.
LEMMA HistoryBase ==
  ASSUME Base, NEW i \in DOMAIN rows, NEW t \in TaskIds, HistoryRetry(i, t)
  PROVE  Base'
<1> DEFINE w == work[rows[i].task]
           c == draft
<1>1. /\ up /\ IsFresh(t) /\ rekey' = <<i, t>> /\ Schedule(t)
      /\ work' = [work EXCEPT ![t] = w] /\ excused' = excused \union {FileOf(rows[i].task)}
      /\ calls["historyRetry"] < MaxHistoryRetries
      /\ calls' = [calls EXCEPT !["historyRetry"] = @ + 1]
      /\ indexed' \subseteq indexed
      /\ UNCHANGED <<cur, ledger, rows, draft, survivors, up, recorded>>
  BY DEF HistoryRetry, CountCall
<1>2. TypeOK /\ Asleep /\ Born /\ Queued /\ OnRecord
  BY DEF Base
<1>3. /\ stage[t] = "unborn" /\ t \notin ToSet(survivors)
  BY <1>1, Fresh
<1>4. w \in [file : Files, ver : 1..MaxTasks]
  <2>1. i \in 1..Len(rows)
    BY <1>2 DEF TypeOK
  <2>2. Known(rows[i].task)
    BY <1>2, <2>1 DEF Born, NothingUnknown
  <2>3. w \in [file : Files \union {NoFile}, ver : 0..MaxTasks] /\ w.file \in Files /\ w.ver # 0
    BY <1>2, <2>2 DEF Known, Born, FilesOfKnown, TypeOK, FileOf
  <2> HIDE DEF w
  <2> QED
    BY <2>3, BoundsAssumption
<1>5. FileOf(rows[i].task) \in Files
  BY <1>4 DEF FileOf
<1> HIDE DEF w
<1>6. /\ Keeps /\ IdsInOrder' /\ FilesOfKnown' /\ Known(t)'
      /\ \A u \in TaskIds : u # t => work'[u] = work[u] /\ stage'[u] = stage[u]
      /\ stage'[t] = "scheduled"
      /\ work' \in [TaskIds -> [file : Files \union {NoFile}, ver : 0..MaxTasks]]
  BY <1>1, <1>4, OneMade
<1>7. /\ scheduled' \in Seq(TaskIds) /\ IsInjective(scheduled')
      /\ ToSet(scheduled') = ToSet(scheduled) \union {t} /\ stage' \in [TaskIds -> Stages]
  BY <1>1, <1>3, Scheduling
<1>8. TypeOK'
  <2>1. calls' \in [CallKinds -> Nat]
    BY <1>1, <1>2, Counting DEF CallKinds
  <2>2. rekey' \in {<<>>} \union ((DOMAIN rows') \X TaskIds) /\ excused' \subseteq Files
    BY <1>1, <1>2, <1>5 DEF TypeOK
  <2>3. indexed' \subseteq Files \X (1..MaxTasks)
    BY <1>1, <1>2 DEF TypeOK
  <2> QED
    BY <1>1, <1>2, <1>6, <1>7, <2>1, <2>2, <2>3 DEF TypeOK
<1>9. Asleep'
  BY <1>1 DEF Asleep
<1>10. Born'
  <2>1. \A u : Known(u) => Known(u)' /\ FileOf(u)' = FileOf(u)
    BY <1>6, StillKnown
  <2>2. NothingUnknown'
    <3>1. rekey'[2] = t
      BY <1>1
    <3>2. Known(rekey[2])'
      BY <1>6, <3>1 DEF Known
    <3> QED
      BY <1>1, <1>2, <2>1, <3>2 DEF Born, NothingUnknown
  <2>3. DraftIsNewer'
    BY <1>1, <1>2, <2>1 DEF Born, DraftIsNewer, FileOf, Known
  <2> QED
    BY <1>6, <2>2, <2>3 DEF Born
<1>11. Queued'
  <2>1. ToSet(survivors) \subseteq TaskIds /\ ToSet(scheduled) \subseteq TaskIds
    BY <1>2, Members DEF TypeOK
  <2> QED
    BY <1>1, <1>2, <1>3, <1>6, <1>7, <2>1 DEF Queued
<1>12. OnRecord'
  BY <1>1, <1>2, <1>6 DEF OnRecord, Running
<1> QED
  BY <1>8, <1>9, <1>10, <1>11, <1>12 DEF Base

\* Committing an upload keeps the base.
LEMMA CommitBase ==
  ASSUME Base, CommitUpload
  PROVE  Base'
<1>1. TypeOK /\ Asleep /\ Born /\ Queued /\ OnRecord
  BY DEF Base
<1>2. /\ draft # <<>> /\ cur' = [cur EXCEPT ![draft[1]] = draft[2]] /\ draft' = <<>>
      /\ UNCHANGED <<ledger, rows, indexed, stage, scheduled, rekey, survivors, work,
                     up, calls, recorded, excused>>
  BY DEF CommitUpload, history
<1>3. draft[1] \in Files /\ draft[2] \in TaskIds /\ draft[2] \in 0..MaxTasks
  BY <1>1, <1>2 DEF TypeOK, TaskIds
<1>4. /\ cur' \in [Files -> 0..MaxTasks] /\ cur'[draft[1]] = draft[2]
      /\ \A g \in Files : g # draft[1] => cur'[g] = cur[g]
  BY <1>1, <1>2, <1>3 DEF TypeOK
<1>5. TypeOK'
  BY <1>1, <1>2, <1>4 DEF TypeOK
<1>6. Asleep'
  BY <1>1, <1>2 DEF Asleep
<1>7. Born'
  <2>1. IdsInOrder' /\ FilesOfKnown'
    BY <1>1, <1>2 DEF Born, IdsInOrder, FilesOfKnown, FileOf
  <2>2. \A f \in Files : cur'[f] # 0 => Known(cur'[f])
    BY <1>1, <1>2, <1>4 DEF Born, NothingUnknown, DraftIsNewer
  <2>3. \A u : Known(u) => Known(u)'
    BY <1>2 DEF Known
  <2>4. \A f \in Files : cur'[f] # 0 => Known(cur[f])'
    BY <1>2, <2>2 DEF Known
  <2>5. NothingUnknown'
    BY <1>1, <1>2, <2>3, <2>4 DEF Born, NothingUnknown
  <2> QED
    BY <1>2, <2>1, <2>5 DEF Born, DraftIsNewer
<1>8. Queued' /\ OnRecord'
  BY <1>1, <1>2 DEF Queued, OnRecord
<1> QED
  BY <1>5, <1>6, <1>7, <1>8 DEF Base

\* Writing the ledger row keeps the base.
LEMMA PersistBase ==
  ASSUME Base, PersistTask
  PROVE  Base'
<1>1. TypeOK /\ Asleep /\ Born /\ Queued /\ OnRecord
  BY DEF Base
<1>2. PICK t \in TaskIds :
        /\ stage[t] = "scheduled" /\ t \in ToSet(scheduled)
        /\ scheduled' \in Seq(TaskIds) /\ IsInjective(scheduled')
        /\ ToSet(scheduled') = ToSet(scheduled) \ {t}
        /\ ledger' \in Seq(TaskIds) /\ IsInjective(ledger')
        /\ ToSet(ledger') = ToSet(ledger) \union {t}
        /\ stage' = [stage EXCEPT ![t] = "persisted"] /\ stage' \in [TaskIds -> Stages]
        /\ recorded' = recorded \union {t}
  BY Persisting
<1>3. UNCHANGED <<cur, rows, indexed, draft, rekey, survivors, work, up, calls, excused>>
  BY DEF PersistTask
<1>4. stage'[t] = "persisted" /\ \A u \in TaskIds : u # t => stage'[u] = stage[u]
  BY <1>1, <1>2 DEF TypeOK
<1>5. TypeOK'
  BY <1>1, <1>2, <1>3 DEF TypeOK
<1>6. up /\ Asleep'
  <2>1. up
    BY <1>1, <1>2 DEF Asleep
  <2> QED
    BY <1>3, <2>1 DEF Asleep
<1>7. Born'
  <2>1. Keeps /\ IdsInOrder' /\ FilesOfKnown'
    BY <1>2, <1>3, <1>4, NoneMade
  <2>2. \A u : Known(u) => Known(u)' /\ FileOf(u)' = FileOf(u)
    BY <2>1, StillKnown
  <2>3. Known(t)
    BY <1>2 DEF Known
  <2>4. NothingUnknown'
    BY <1>1, <1>2, <1>3, <2>2, <2>3 DEF Born, NothingUnknown
  <2>5. DraftIsNewer'
    BY <1>1, <1>3, <2>2 DEF Born, DraftIsNewer, FileOf, Known
  <2> QED
    BY <2>1, <2>4, <2>5 DEF Born
<1>8. Queued'
  <2>1. ToSet(survivors) \subseteq TaskIds /\ ToSet(scheduled) \subseteq TaskIds
    BY <1>1, Members DEF TypeOK
  <2> QED
    BY <1>1, <1>2, <1>3, <1>4, <2>1 DEF Queued
<1>9. OnRecord'
  BY <1>1, <1>2, <1>4 DEF OnRecord
<1> QED
  BY <1>5, <1>6, <1>7, <1>8, <1>9 DEF Base

\* Retrying a task keeps the base.
LEMMA RetryBase ==
  ASSUME Base, NEW t \in TaskIds, RetryTask(t)
  PROVE  Base'
<1>1. TypeOK /\ Asleep /\ Born /\ Queued /\ OnRecord
  BY DEF Base
<1>2. /\ stage[t] = "FAILED" /\ Schedule(t) /\ excused' = excused \union {FileOf(t)}
      /\ calls' = [calls EXCEPT !["retry"] = @ + 1]
      /\ UNCHANGED <<cur, ledger, rows, indexed, draft, rekey, survivors, work, up, recorded>>
  BY DEF RetryTask, CountCall, diskVars
<1>3. /\ scheduled' \in Seq(TaskIds) /\ IsInjective(scheduled')
      /\ ToSet(scheduled') = ToSet(scheduled) \union {t}
      /\ stage' = [stage EXCEPT ![t] = "scheduled"] /\ stage' \in [TaskIds -> Stages]
  BY <1>2, Scheduling
<1>4. stage'[t] = "scheduled" /\ \A u \in TaskIds : u # t => stage'[u] = stage[u]
  BY <1>1, <1>3 DEF TypeOK
<1>5. FileOf(t) \in Files
  BY <1>1, <1>2 DEF Born, FilesOfKnown
<1>6. TypeOK'
  <2>1. calls' \in [CallKinds -> Nat]
    BY <1>1, <1>2, Counting DEF CallKinds
  <2> QED
    BY <1>1, <1>2, <1>3, <1>5, <2>1 DEF TypeOK
<1>7. Asleep'
  BY <1>1, <1>2 DEF Asleep
<1>8. Born'
  <2>1. Keeps /\ IdsInOrder' /\ FilesOfKnown'
    BY <1>2, <1>4, NoneMade
  <2>2. \A u : Known(u) => Known(u)' /\ FileOf(u)' = FileOf(u)
    BY <2>1, StillKnown
  <2>3. NothingUnknown'
    BY <1>1, <1>2, <2>2 DEF Born, NothingUnknown
  <2>4. DraftIsNewer'
    BY <1>1, <1>2, <2>2 DEF Born, DraftIsNewer, FileOf, Known
  <2> QED
    BY <2>1, <2>3, <2>4 DEF Born
<1>9. Queued'
  <2>1. ToSet(survivors) \subseteq TaskIds /\ ToSet(scheduled) \subseteq TaskIds
    BY <1>1, Members DEF TypeOK
  <2> QED
    BY <1>1, <1>2, <1>3, <1>4, <2>1 DEF Queued
<1>10. OnRecord'
  BY <1>1, <1>2, <1>4 DEF OnRecord, Running
<1> QED
  BY <1>6, <1>7, <1>8, <1>9, <1>10 DEF Base

\* The row that changes hands, and the others.
LEMMA Rekeying ==
  ASSUME Base, RekeyRow
  PROVE  /\ rekey # <<>> /\ rekey[1] \in 1..Len(rows) /\ rekey[2] \in TaskIds /\ Known(rekey[2])
         /\ rows' \in Seq(Rows) /\ Len(rows') = Len(rows) /\ Len(rows) \in Nat
         /\ \A i \in 1..Len(rows) : i # rekey[1] => rows'[i] = rows[i]
         /\ rows'[rekey[1]] = rows[rekey[1]] \/ rows'[rekey[1]].task = rekey[2]
<1> DEFINE row == [task |-> rekey[2], status |-> "open"]
<1>1. rekey # <<>> /\ rows \in Seq(Rows) /\ DOMAIN rows = 1..Len(rows) /\ Len(rows) \in Nat
  BY DEF RekeyRow, Base, TypeOK, Rows
<1>2. rekey[1] \in 1..Len(rows) /\ rekey[2] \in TaskIds /\ Known(rekey[2])
  BY <1>1 DEF Base, TypeOK, Born, NothingUnknown
<1>3. row \in Rows /\ row.task = rekey[2]
  BY <1>2 DEF Rows, RowStates
<1>4. rows' = rows \/ rows' = [rows EXCEPT ![rekey[1]] = row]
  BY DEF RekeyRow
<1> HIDE DEF row
<1> QED
  BY <1>1, <1>2, <1>3, <1>4

\* Handing a row over keeps the base.
LEMMA RekeyBase ==
  ASSUME Base, RekeyRow
  PROVE  Base'
<1>1. TypeOK /\ Asleep /\ Born /\ Queued /\ OnRecord
  BY DEF Base
<1>2. /\ rekey' = <<>>
      /\ UNCHANGED <<cur, ledger, indexed, draft, stage, scheduled, survivors, work,
                     up, calls, recorded, excused>>
  BY DEF RekeyRow, history
<1>3. /\ rekey[1] \in 1..Len(rows) /\ Known(rekey[2])
      /\ rows' \in Seq(Rows) /\ Len(rows') = Len(rows)
      /\ \A i \in 1..Len(rows) : i # rekey[1] => rows'[i] = rows[i]
      /\ rows'[rekey[1]] = rows[rekey[1]] \/ rows'[rekey[1]].task = rekey[2]
  BY Rekeying
<1>4. TypeOK'
  <2>1. rows' \in Seq([task : TaskIds, status : RowStates])
    BY <1>3 DEF Rows
  <2> QED
    BY <1>1, <1>2, <2>1 DEF TypeOK
<1>5. Asleep'
  BY <1>1, <1>2 DEF Asleep
<1>6. Born'
  <2>1. \A u : Known(u) => Known(u)'
    BY <1>2 DEF Known
  <2>2. \A i \in 1..Len(rows') : Known(rows'[i].task)
    BY <1>1, <1>3 DEF Born, NothingUnknown
  <2>3. \A i \in 1..Len(rows') : Known(rows[i].task)'
    BY <1>2, <2>2 DEF Known
  <2>4. NothingUnknown'
    BY <1>1, <1>2, <2>1, <2>3 DEF Born, NothingUnknown
  <2> QED
    BY <1>1, <1>2, <2>1, <2>4 DEF Born, IdsInOrder, FilesOfKnown, DraftIsNewer, FileOf
<1>7. Queued' /\ OnRecord'
  BY <1>1, <1>2 DEF Queued, OnRecord
<1> QED
  BY <1>4, <1>5, <1>6, <1>7 DEF Base

\* A crash keeps the base.
LEMMA CrashBase ==
  ASSUME Base, Crash
  PROVE  Base'
<1>1. TypeOK /\ Asleep /\ Born /\ Queued /\ OnRecord
  BY DEF Base
<1>2. /\ up' = FALSE /\ draft' = <<>> /\ scheduled' = <<>> /\ rekey' = <<>> /\ survivors' = <<>>
      /\ stage' = [t \in TaskIds |-> IF stage[t] = "unborn" THEN "unborn" ELSE "gone"]
      /\ excused' = excused \union TornFiles /\ calls' = [calls EXCEPT !["crash"] = @ + 1]
      /\ UNCHANGED <<cur, ledger, rows, indexed, work, recorded>>
  BY DEF Crash, CountCall, diskVars
<1>3. \A t \in TaskIds : stage'[t] \in {"unborn", "gone"} /\ (stage'[t] = "unborn" <=> stage[t] = "unborn")
  BY <1>2
<1>4. TypeOK'
  <2>1. calls' \in [CallKinds -> Nat]
    BY <1>1, <1>2, Counting DEF CallKinds
  <2>2. stage' \in [TaskIds -> Stages]
    BY <1>2, <1>3 DEF Stages
  <2>3. excused' \subseteq Files
    BY <1>1, <1>2 DEF TypeOK, TornFiles
  <2> QED
    BY <1>1, <1>2, <2>1, <2>2, <2>3, Nobody DEF TypeOK
<1>5. Asleep'
  BY <1>2, <1>3 DEF Asleep
<1>6. Born'
  <2>1. Keeps /\ IdsInOrder' /\ FilesOfKnown'
    BY <1>2, <1>3, NoneMade
  <2>2. \A u : Known(u) => Known(u)'
    BY <2>1, StillKnown
  <2>3. NothingUnknown'
    BY <1>1, <1>2, <2>2 DEF Born, NothingUnknown
  <2>4. DraftIsNewer'
    BY <1>2 DEF DraftIsNewer
  <2> QED
    BY <2>1, <2>3, <2>4 DEF Born
<1>7. Queued' /\ OnRecord'
  BY <1>2, <1>3, Nobody DEF Queued, OnRecord, Running
<1> QED
  BY <1>4, <1>5, <1>6, <1>7 DEF Base

\* A start keeps the base.
LEMMA RestartBase ==
  ASSUME Base, Restart
  PROVE  Base'
<1>1. TypeOK /\ Asleep /\ Born /\ Queued /\ OnRecord /\ rows \in Seq(Rows)
  BY DEF Base, TypeOK, Rows
<1>2. /\ ~ up /\ up' = TRUE /\ MarkInterrupted
      /\ UNCHANGED <<cur, indexed, draft, stage, scheduled, rekey, work, calls, recorded, excused>>
  BY DEF Restart, history
<1>3. /\ ledger' \in Seq(TaskIds) /\ IsInjective(ledger') /\ survivors' = ledger'
      /\ ToSet(ledger') \subseteq ToSet(ledger)
  BY Restarting
<1>4. /\ rows' \in Seq(Rows) /\ Len(rows') = Len(rows)
      /\ \A i \in 1..Len(rows) : rows'[i].task = rows[i].task
  BY <1>1, <1>2, Interrupting
<1>5. draft = <<>> /\ scheduled = <<>> /\ rekey = <<>> /\ \A t \in TaskIds : stage[t] \in {"unborn", "gone"}
  BY <1>1, <1>2 DEF Asleep
<1>6. TypeOK'
  <2>1. rows' \in Seq([task : TaskIds, status : RowStates])
    BY <1>4 DEF Rows
  <2> QED
    BY <1>1, <1>2, <1>3, <1>5, <2>1 DEF TypeOK
<1>7. Asleep'
  BY <1>2 DEF Asleep
<1>8. Born'
  <2>1. \A u : Known(u) => Known(u)'
    BY <1>2 DEF Known
  <2>2. \A i \in 1..Len(rows') : Known(rows'[i].task)
    BY <1>1, <1>4 DEF Born, NothingUnknown
  <2>3. \A i \in 1..Len(rows') : Known(rows[i].task)'
    BY <1>2, <2>2 DEF Known
  <2>4. NothingUnknown'
    BY <1>1, <1>2, <1>3, <2>1, <2>3 DEF Born, NothingUnknown
  <2> QED
    BY <1>1, <1>2, <2>1, <2>4 DEF Born, IdsInOrder, FilesOfKnown, DraftIsNewer, FileOf
<1>9. Queued' /\ OnRecord'
  <2>1. \A t \in ToSet(ledger') : stage[t] = "gone"
    BY <1>1, <1>3, <1>5 DEF Born, NothingUnknown, Known
  <2> QED
    BY <1>2, <1>3, <1>5, <2>1, Nobody DEF Queued, OnRecord, Running
<1> QED
  BY <1>6, <1>7, <1>8, <1>9 DEF Base

\* Recovery keeps the base.
LEMMA RequeueBase ==
  ASSUME Base, RequeueSurvivors
  PROVE  Base'
<1>1. TypeOK /\ Asleep /\ Born /\ Queued /\ OnRecord
  BY DEF Base
<1>2. /\ survivors # <<>>
      /\ excused' = excused \union (IF draft = <<>> THEN {} ELSE {draft[1]})
      /\ UNCHANGED <<cur, rows, indexed, draft, rekey, work, up, calls, recorded>>
  BY DEF RequeueSurvivors
<1>3. PICK r \in Seq(TaskIds) :
        /\ ToSet(r) = {t \in ToSet(survivors) : VersionIsCurrent(t)}
        /\ scheduled' \in Seq(TaskIds) /\ IsInjective(scheduled')
        /\ ToSet(scheduled') = ToSet(scheduled) \union ToSet(r)
        /\ stage' = [t \in TaskIds |-> IF t \in ToSet(r) THEN "scheduled" ELSE stage[t]]
        /\ stage' \in [TaskIds -> Stages]
        /\ ledger' \in Seq(TaskIds) /\ IsInjective(ledger')
        /\ ToSet(ledger') = {t \in ToSet(ledger) : t \in ToSet(survivors) => VersionIsCurrent(t)}
        /\ survivors' = <<>>
  BY Requeueing
<1>4. \A t \in ToSet(r) : t \in TaskIds /\ stage[t] = "gone" /\ stage'[t] = "scheduled"
  BY <1>1, <1>3, Members DEF Queued, TypeOK
<1>5. \A t \in TaskIds : stage'[t] # "scheduled" => stage'[t] = stage[t]
  BY <1>3
<1>6. \A t \in TaskIds : t \notin ToSet(r) => stage'[t] = stage[t]
  BY <1>3
<1>7. TypeOK'
  <2>1. excused' \subseteq Files
    BY <1>1, <1>2 DEF TypeOK
  <2> QED
    BY <1>1, <1>2, <1>3, <2>1, Nobody DEF TypeOK
<1>8. up /\ Asleep'
  <2>1. up
    BY <1>1, <1>2 DEF Asleep
  <2> QED
    BY <1>2, <2>1 DEF Asleep
<1>9. Born'
  <2>1. Keeps /\ IdsInOrder' /\ FilesOfKnown'
    BY <1>2, <1>4, <1>6, NoneMade
  <2>2. \A u : Known(u) => Known(u)' /\ FileOf(u)' = FileOf(u)
    BY <2>1, StillKnown
  <2>3. NothingUnknown'
    BY <1>1, <1>2, <1>3, <2>2 DEF Born, NothingUnknown
  <2>4. DraftIsNewer'
    BY <1>1, <1>2, <2>2 DEF Born, DraftIsNewer, FileOf, Known
  <2> QED
    BY <2>1, <2>3, <2>4 DEF Born
<1>10. Queued'
  <2>1. ToSet(scheduled) \subseteq TaskIds
    BY <1>1, Members DEF TypeOK
  <2> QED
    BY <1>1, <1>3, <1>4, <1>6, <2>1, Nobody DEF Queued
<1>11. OnRecord'
  <2>1. ASSUME NEW t \in TaskIds, stage'[t] \in Running
        PROVE  t \in ToSet(ledger')
    <3>1. stage'[t] = stage[t]
      BY <1>5, <2>1 DEF Running
    <3>2. t \in ToSet(ledger) /\ t \notin ToSet(survivors)
      BY <1>1, <2>1, <3>1 DEF OnRecord, Queued, Running
    <3> QED
      BY <1>3, <3>2
  <2> QED
    BY <2>1 DEF OnRecord
<1> QED
  BY <1>7, <1>8, <1>9, <1>10, <1>11 DEF Base

\* Every step keeps the base.
LEMMA StepBase ==
  ASSUME Base, [Next]_vars
  PROVE  Base'
<1>1. CASE UNCHANGED vars
  <2>1. UNCHANGED <<cur, draft, work, stage, scheduled, ledger, rows, rekey, survivors, indexed,
                    up, calls, recorded, excused>>
    BY <1>1 DEF vars, diskVars, memoryVars, history
  <2>2. TypeOK' /\ Asleep' /\ Queued' /\ OnRecord'
    BY <2>1 DEF Base, TypeOK, Asleep, Queued, OnRecord
  <2>3. Born'
    BY <2>1 DEF Base, Born, IdsInOrder, FilesOfKnown, NothingUnknown, DraftIsNewer, Known, FileOf
  <2> QED
    BY <2>2, <2>3 DEF Base
<1>2. CASE Next
  <2>1. CASE \E f \in Files, t \in TaskIds : BeginUpload(f, t)
    BY <2>1, BeginBase
  <2>2. CASE \E t \in TaskIds : WorkOn(t) \/ RetryTask(t)
    BY <2>2, WorkBase, RetryBase
  <2>3. CASE \E i \in DOMAIN rows, t \in TaskIds : HistoryRetry(i, t)
    BY <2>3, HistoryBase
  <2>4. CASE CommitUpload \/ PersistTask \/ RekeyRow
    BY <2>4, CommitBase, PersistBase, RekeyBase
  <2>5. CASE Crash \/ Restart \/ RequeueSurvivors
    BY <2>5, CrashBase, RestartBase, RequeueBase
  <2> QED
    BY <1>2, <2>1, <2>2, <2>3, <2>4, <2>5 DEF Next
<1> QED
  BY <1>1, <1>2

----------------------------------------------------------------------------
\* A row of the ledger has an execution ahead of it.

\* A step keeps this.
LEMMA ServedStep ==
  ASSUME Base, LedgerRowHasWork, [Next]_vars
  PROVE  LedgerRowHasWork'
<1>1. stage \in [TaskIds -> Stages] /\ ToSet(ledger) \subseteq TaskIds /\ TypeOK
  BY Members DEF Base, TypeOK
<1>2. CASE UNCHANGED vars \/ CommitUpload \/ RekeyRow
  BY <1>2 DEF LedgerRowHasWork, CommitUpload, RekeyRow, vars, diskVars, memoryVars
<1>3. ASSUME NEW t \in TaskIds, Schedule(t), ledger' = ledger, survivors' = survivors, up' = up
      PROVE  LedgerRowHasWork'
  <2>1. stage' = [stage EXCEPT ![t] = "scheduled"]
    BY <1>3 DEF Schedule
  <2> QED
    BY <1>1, <1>3, <2>1 DEF LedgerRowHasWork, InFlight
<1>4. CASE \E f \in Files, t \in TaskIds : BeginUpload(f, t)
  BY <1>3, <1>4 DEF BeginUpload, diskVars
<1>5. CASE \E t \in TaskIds : RetryTask(t)
  BY <1>3, <1>5 DEF RetryTask, diskVars
<1>6. CASE \E i \in DOMAIN rows, t \in TaskIds : HistoryRetry(i, t)
  BY <1>3, <1>6 DEF HistoryRetry
<1>7. CASE PersistTask
  <2>1. PICK t \in TaskIds : /\ ToSet(ledger') = ToSet(ledger) \union {t}
                             /\ stage' = [stage EXCEPT ![t] = "persisted"]
    BY <1>7, Persisting
  <2>2. UNCHANGED <<survivors, up>>
    BY <1>7 DEF PersistTask
  <2> QED
    BY <1>1, <2>1, <2>2 DEF LedgerRowHasWork, InFlight
<1>8. ASSUME NEW t \in TaskIds, WorkOn(t)
      PROVE  LedgerRowHasWork'
  <2>1. PICK s \in Running \union {"COMPLETED", "FAILED"} :
          /\ stage' = [stage EXCEPT ![t] = s]
          /\ s \in Running => ledger' = ledger
          /\ s \notin Running => ledger' = Without(ledger, t)
    BY <1>8, Working
  <2>2. UNCHANGED <<survivors, up>>
    BY <1>8, Working
  <2>3. ToSet(ledger') \subseteq ToSet(ledger) /\ (s \notin Running => t \notin ToSet(ledger'))
    BY <1>1, <2>1, WithoutOne
  <2>4. s \in Running => s \in InFlight
    BY DEF Running, InFlight
  <2> QED
    BY <1>1, <2>1, <2>2, <2>3, <2>4 DEF LedgerRowHasWork
<1>9. CASE Crash
  BY <1>9 DEF Crash, LedgerRowHasWork
<1>10. CASE Restart
  BY <1>10, Restarting DEF LedgerRowHasWork
<1>11. CASE RequeueSurvivors
  <2>1. PICK r \in Seq(TaskIds) :
          /\ ToSet(r) = {t \in ToSet(survivors) : VersionIsCurrent(t)}
          /\ stage' = [t \in TaskIds |-> IF t \in ToSet(r) THEN "scheduled" ELSE stage[t]]
          /\ ToSet(ledger') = {t \in ToSet(ledger) : t \in ToSet(survivors) => VersionIsCurrent(t)}
    BY <1>11, Requeueing
  <2>2. up' = up
    BY <1>11 DEF RequeueSurvivors
  <2>3. ASSUME up, NEW t \in ToSet(ledger')
        PROVE  stage'[t] \in InFlight
    <3>1. t \in ToSet(ledger) /\ t \in TaskIds /\ (t \in ToSet(survivors) => VersionIsCurrent(t))
      BY <1>1, <2>1
    <3>2. CASE t \in ToSet(survivors)
      BY <2>1, <3>1, <3>2 DEF InFlight
    <3>3. CASE t \notin ToSet(survivors)
      <4>1. stage[t] \in InFlight /\ stage'[t] = stage[t]
        BY <2>1, <2>3, <3>1, <3>3 DEF LedgerRowHasWork
      <4> QED
        BY <4>1
    <3> QED
      BY <3>2, <3>3
  <2> QED
    BY <2>2, <2>3 DEF LedgerRowHasWork
<1> QED
  BY <1>2, <1>4, <1>5, <1>6, <1>7, <1>8, <1>9, <1>10, <1>11 DEF Next

----------------------------------------------------------------------------
\* Files that nobody retried and no crash tore.

\* A new task is made by an upload or by a retry from the history.
LEMMA OldAndNew ==
  ASSUME Base, [Next]_vars
  PROVE  /\ Keeps /\ excused \subseteq excused'
         /\ \A t \in TaskIds : stage[t] = "unborn" /\ stage'[t] # "unborn" =>
              \/ \E f \in Files : BeginUpload(f, t)
              \/ \E i \in DOMAIN rows : HistoryRetry(i, t)
<1>1. stage \in [TaskIds -> Stages]
      /\ work \in [TaskIds -> [file : Files \union {NoFile}, ver : 0..MaxTasks]]
  BY DEF Base, TypeOK
<1>2. ASSUME work' = work, \A t \in TaskIds : stage'[t] = "unborn" <=> stage[t] = "unborn"
      PROVE  Keeps /\ \A t \in TaskIds : ~ (stage[t] = "unborn" /\ stage'[t] # "unborn")
  BY <1>2 DEF Keeps
<1>3. CASE UNCHANGED vars \/ CommitUpload \/ RekeyRow \/ Restart
  <2>1. work' = work /\ stage' = stage /\ excused' = excused
    BY <1>3 DEF CommitUpload, RekeyRow, Restart, vars, memoryVars, history
  <2> QED
    BY <1>2, <2>1
<1>4. ASSUME NEW f \in Files, NEW t \in TaskIds, BeginUpload(f, t)
      PROVE  /\ Keeps /\ excused' = excused
             /\ \A u \in TaskIds : stage[u] = "unborn" /\ stage'[u] # "unborn" => u = t
  BY <1>1, <1>4 DEF BeginUpload, Schedule, IsFresh, Keeps, history
<1>5. ASSUME NEW i \in DOMAIN rows, NEW t \in TaskIds, HistoryRetry(i, t)
      PROVE  /\ Keeps /\ excused \subseteq excused'
             /\ \A u \in TaskIds : stage[u] = "unborn" /\ stage'[u] # "unborn" => u = t
  BY <1>1, <1>5 DEF HistoryRetry, Schedule, IsFresh, Keeps
<1>6. CASE \E t \in TaskIds : RetryTask(t)
  <2>1. work' = work /\ excused \subseteq excused'
        /\ \A t \in TaskIds : stage'[t] = "unborn" <=> stage[t] = "unborn"
    BY <1>1, <1>6 DEF RetryTask, Schedule
  <2> QED
    BY <1>2, <2>1
<1>7. CASE PersistTask
  <2>1. PICK t \in TaskIds : stage[t] = "scheduled" /\ stage' = [stage EXCEPT ![t] = "persisted"]
    BY <1>7, Persisting
  <2>2. work' = work /\ excused' = excused
    BY <1>7 DEF PersistTask
  <2> QED
    BY <1>1, <1>2, <2>1, <2>2
<1>8. ASSUME NEW t \in TaskIds, WorkOn(t)
      PROVE  /\ Keeps /\ excused' = excused
             /\ \A u \in TaskIds : ~ (stage[u] = "unborn" /\ stage'[u] # "unborn")
  <2>1. PICK s \in Running \union {"COMPLETED", "FAILED"} : stage' = [stage EXCEPT ![t] = s]
    BY <1>8, Working
  <2>2. work' = work /\ excused' = excused /\ stage[t] \in Running
    BY <1>8, Working
  <2>3. s # "unborn" /\ stage[t] # "unborn"
    BY <2>2 DEF Running
  <2> QED
    BY <1>1, <1>2, <2>1, <2>2, <2>3
<1>9. CASE Crash
  <2>1. work' = work /\ excused \subseteq excused'
        /\ \A t \in TaskIds : stage'[t] = "unborn" <=> stage[t] = "unborn"
    BY <1>9 DEF Crash
  <2> QED
    BY <1>2, <2>1
<1>10. CASE RequeueSurvivors
  <2>1. PICK r \in Seq(TaskIds) :
          /\ ToSet(r) = {t \in ToSet(survivors) : VersionIsCurrent(t)}
          /\ stage' = [t \in TaskIds |-> IF t \in ToSet(r) THEN "scheduled" ELSE stage[t]]
    BY <1>10, Requeueing
  <2>2. work' = work /\ excused \subseteq excused'
    BY <1>10 DEF RequeueSurvivors
  <2>3. \A t \in ToSet(r) : stage[t] = "gone"
    BY <2>1 DEF Base, Queued
  <2> QED
    BY <1>2, <2>1, <2>2, <2>3
<1>11. CASE \E f \in Files, t \in TaskIds : BeginUpload(f, t)
  BY <1>4, <1>11
<1>12. CASE \E i \in DOMAIN rows, t \in TaskIds : HistoryRetry(i, t)
  BY <1>5, <1>12
<1>13. CASE \E t \in TaskIds : WorkOn(t)
  BY <1>8, <1>13
<1> QED
  BY <1>3, <1>6, <1>7, <1>9, <1>10, <1>11, <1>12, <1>13 DEF Next

\* A plain task that is not new was plain.
LEMMA WasPlain ==
  ASSUME Keeps, excused \subseteq excused', NEW t, Known(t), Plain(t)'
  PROVE  Plain(t) /\ FileOf(t)' = FileOf(t) /\ work'[t] = work[t] /\ FileOf(t) \notin excused'
BY DEF Keeps, Known, Plain, FileOf

\* The task that a retry from the history makes is of an excused file, as is the
\* task whose row it takes.
LEMMA RetriedFile ==
  ASSUME Base, NEW i \in DOMAIN rows, NEW t \in TaskIds, HistoryRetry(i, t)
  PROVE  /\ FileOf(t)' = FileOf(rows[i].task) /\ FileOf(rows[i].task) \in excused'
         /\ Known(rows[i].task) /\ rows[i].task # t
         /\ indexed' = {p \in indexed : p[1] # FileOf(rows[i].task)}
<1>1. i \in 1..Len(rows) /\ work \in [TaskIds -> [file : Files \union {NoFile}, ver : 0..MaxTasks]]
  BY DEF Base, TypeOK
<1>2. Known(rows[i].task) /\ rows[i].task # t
  BY <1>1 DEF Base, Born, NothingUnknown, HistoryRetry, IsFresh, Known
<1>3. work' = [work EXCEPT ![t] = work[rows[i].task]]
      /\ indexed' = {p \in indexed : p[1] # FileOf(rows[i].task)}
      /\ FileOf(rows[i].task) \in excused'
  BY DEF HistoryRetry
<1>4. FileOf(t)' = FileOf(rows[i].task)
  BY <1>1, <1>3 DEF FileOf
<1> QED
  BY <1>2, <1>3, <1>4

\* A step keeps each plain task at its own version.
LEMMA OwnStep ==
  ASSUME Base, OwnVersion, [Next]_vars
  PROVE  OwnVersion'
<1>1. Keeps /\ excused \subseteq excused'
  BY OldAndNew
<1>2. ASSUME NEW t \in TaskIds, Plain(t)'
      PROVE  work'[t].ver = t
  <2>1. CASE stage[t] # "unborn"
    <3>1. Known(t)
      BY <2>1 DEF Known
    <3> QED
      BY <1>1, <1>2, <3>1, WasPlain DEF OwnVersion
  <2>2. CASE stage[t] = "unborn"
    <3>1. stage'[t] # "unborn"
      BY <1>2 DEF Plain
    <3>2. ASSUME NEW f \in Files, BeginUpload(f, t)
          PROVE  work'[t].ver = t
      BY <3>2 DEF BeginUpload, Base, TypeOK
    <3>3. ASSUME NEW i \in DOMAIN rows, HistoryRetry(i, t)
          PROVE  FALSE
      BY <1>2, <3>3, RetriedFile DEF Plain
    <3> QED
      BY <2>2, <3>1, <3>2, <3>3, OldAndNew
  <2> QED
    BY <2>1, <2>2
<1> QED
  BY <1>2 DEF OwnVersion

\* A step leaves the row that is about to change hands with excused files.
LEMMA RekeyStep ==
  ASSUME Base, RekeyExcused, [Next]_vars
  PROVE  RekeyExcused'
<1>1. Keeps /\ excused \subseteq excused' /\ \A u : Known(u) => FileOf(u)' = FileOf(u)
  BY OldAndNew, StillKnown
<1>2. /\ rows \in Seq(Rows) /\ Len(rows) \in Nat /\ DOMAIN rows = 1..Len(rows)
      /\ \A i \in 1..Len(rows) : Known(rows[i].task)
      /\ rekey # <<>> => rekey[1] \in 1..Len(rows) /\ Known(rekey[2])
  BY DEF Base, TypeOK, Rows, Born, NothingUnknown
<1>3. ASSUME rekey' = rekey, \A i \in 1..Len(rows) : rows'[i].task = rows[i].task
      PROVE  RekeyExcused'
  <2>1. CASE rekey = <<>>
    BY <1>3, <2>1 DEF RekeyExcused
  <2>2. CASE rekey # <<>>
    <3>1. /\ rows'[rekey'[1]].task = rows[rekey[1]].task /\ rekey'[2] = rekey[2]
          /\ Known(rows[rekey[1]].task) /\ Known(rekey[2])
      BY <1>2, <1>3, <2>2
    <3>2. /\ FileOf(rows[rekey[1]].task)' = FileOf(rows[rekey[1]].task)
          /\ FileOf(rekey[2])' = FileOf(rekey[2])
      BY <1>1, <3>1 DEF FileOf
    <3> QED
      BY <1>1, <2>2, <3>2 DEF RekeyExcused
  <2> QED
    BY <2>1, <2>2
<1>4. CASE \/ UNCHANGED vars \/ CommitUpload \/ PersistTask \/ RequeueSurvivors
           \/ (\E f \in Files, t \in TaskIds : BeginUpload(f, t))
           \/ (\E t \in TaskIds : RetryTask(t))
  <2>1. rekey' = rekey /\ rows' = rows
    BY <1>4 DEF CommitUpload, PersistTask, RequeueSurvivors, BeginUpload, RetryTask, vars,
                memoryVars, diskVars
  <2> QED
    BY <1>3, <2>1
<1>5. CASE RekeyRow \/ Crash
  BY <1>5 DEF RekeyRow, Crash, RekeyExcused
<1>6. CASE Restart
  BY <1>6 DEF Restart, RekeyExcused, Base, Asleep
<1>7. ASSUME NEW t \in TaskIds, WorkOn(t)
      PROVE  RekeyExcused'
  <2>1. rekey' = rekey /\ OnlyRowsOf(t)
    BY <1>7, Working
  <2> QED
    BY <1>3, <2>1 DEF OnlyRowsOf
<1>8. ASSUME NEW i \in DOMAIN rows, NEW t \in TaskIds, HistoryRetry(i, t)
      PROVE  RekeyExcused'
  <2>1. /\ FileOf(t)' = FileOf(rows[i].task) /\ FileOf(rows[i].task) \in excused'
        /\ Known(rows[i].task)
    BY <1>8, RetriedFile
  <2>2. rekey' = <<i, t>> /\ rows' = rows
    BY <1>8 DEF HistoryRetry
  <2>3. rekey'[1] = i /\ rekey'[2] = t
    BY <2>2
  <2>4. FileOf(rows[i].task)' = FileOf(rows[i].task)
    BY <1>1, <2>1, <2>2 DEF FileOf
  <2> QED
    BY <2>1, <2>2, <2>3, <2>4 DEF RekeyExcused, FileOf
<1> QED
  BY <1>4, <1>5, <1>6, <1>7, <1>8 DEF Next

----------------------------------------------------------------------------
\* Versions and the order of tasks.

\* Who is scheduled, recorded or on the ledger is known, and its id is a number.
LEMMA AllKnown ==
  ASSUME Base
  PROVE  /\ \A t \in recorded \union ToSet(scheduled) \union ToSet(ledger) \union ToSet(survivors) :
              Known(t) /\ t \in Nat
         /\ ToSet(survivors) \subseteq ToSet(ledger) /\ ToSet(ledger) \subseteq recorded
<1>1. /\ ToSet(scheduled) \subseteq TaskIds /\ ToSet(survivors) \subseteq ToSet(ledger)
      /\ ToSet(ledger) \subseteq recorded /\ recorded \subseteq TaskIds
  BY Members DEF Base, TypeOK, Born, NothingUnknown
<1>2. \A t \in recorded : Known(t)
  BY DEF Base, Born, NothingUnknown
<1>3. \A t \in ToSet(scheduled) : Known(t)
  BY <1>1 DEF Base, Queued, Known
<1>4. TaskIds \subseteq Nat
  BY DEF TaskIds
<1> QED
  BY <1>1, <1>2, <1>3, <1>4

\* The versions of the files, and the upload that is open.
LEMMA Versions ==
  ASSUME Base
  PROVE  /\ \A f \in Files : cur[f] \in Nat
         /\ \A t : Known(t) => FileOf(t) \in Files
         /\ draft # <<>> => /\ draft = <<draft[1], draft[2]>> /\ draft[1] \in Files
                            /\ draft[2] \in TaskIds /\ draft[2] \in Nat
                            /\ Known(draft[2]) /\ FileOf(draft[2]) = draft[1]
                            /\ \A f \in Files : cur[f] < draft[2]
<1>1. cur \in [Files -> 0..MaxTasks] /\ draft \in {<<>>} \union (Files \X TaskIds)
      /\ TaskIds \subseteq Nat /\ 0..MaxTasks \subseteq Nat
  BY BoundsAssumption DEF Base, TypeOK, TaskIds
<1>2. \A t : Known(t) => FileOf(t) \in Files
  BY DEF Base, Born, FilesOfKnown, Known
<1>3. draft # <<>> => /\ Known(draft[2]) /\ FileOf(draft[2]) = draft[1]
                      /\ \A f \in Files : cur[f] < draft[2]
  BY DEF Base, Born, DraftIsNewer
<1>4. \A f \in Files : cur[f] \in Nat
  BY <1>1
<1>5. draft # <<>> => /\ draft = <<draft[1], draft[2]>> /\ draft[1] \in Files
                      /\ draft[2] \in TaskIds /\ draft[2] \in Nat
  <2>1. draft # <<>> => draft \in Files \X TaskIds
    BY <1>1
  <2>2. draft \in Files \X TaskIds =>
          draft = <<draft[1], draft[2]>> /\ draft[1] \in Files /\ draft[2] \in TaskIds
    OBVIOUS
  <2> QED
    BY <1>1, <2>1, <2>2
<1> QED
  BY <1>2, <1>3, <1>4, <1>5

\* A step keeps recorded tasks behind their file's version.
LEMMA LatestStep ==
  ASSUME Base, Latest, [Next]_vars
  PROVE  Latest'
<1>1. Keeps /\ excused \subseteq excused'
  BY OldAndNew
<1>2. \A t \in recorded \union ToSet(scheduled) : Known(t) /\ t \in Nat /\ t \in TaskIds
  BY AllKnown DEF Known
<1>3. ASSUME NEW t \in recorded \union ToSet(scheduled), Plain(t)'
      PROVE  /\ Plain(t) /\ FileOf(t)' = FileOf(t) /\ FileOf(t) \notin excused'
             /\ t <= cur[FileOf(t)] \/ draft = <<FileOf(t), t>>
  BY <1>1, <1>2, <1>3, WasPlain DEF Latest
<1>4. ASSUME cur' = cur, draft' = draft,
             \A t \in recorded' \union ToSet(scheduled') :
               t \in recorded \union ToSet(scheduled) \/ ~ Plain(t)'
      PROVE  Latest'
  BY <1>3, <1>4 DEF Latest, FileOf
<1>5. CASE UNCHANGED vars \/ RekeyRow
  <2>1. /\ cur' = cur /\ draft' = draft /\ recorded' = recorded /\ scheduled' = scheduled
    BY <1>5 DEF RekeyRow, vars, diskVars, memoryVars, history
  <2> QED
    BY <1>4, <2>1
<1>6. CASE Restart
  <2>1. /\ cur' = cur /\ draft' = draft /\ recorded' = recorded /\ scheduled' = scheduled
    BY <1>6 DEF Restart, history
  <2> QED
    BY <1>4, <2>1
<1>7. ASSUME NEW t \in TaskIds, WorkOn(t)
      PROVE  Latest'
  <2>1. /\ cur' = cur /\ draft' = draft /\ recorded' = recorded /\ scheduled' = scheduled
    BY <1>7, Working
  <2> QED
    BY <1>4, <2>1
<1>8. CASE PersistTask
  <2>1. PICK t \in TaskIds : /\ t \in ToSet(scheduled) /\ ToSet(scheduled') = ToSet(scheduled) \ {t}
                             /\ recorded' = recorded \union {t}
    BY <1>8, Persisting
  <2>2. cur' = cur /\ draft' = draft
    BY <1>8 DEF PersistTask
  <2> QED
    BY <1>4, <2>1, <2>2
<1>9. ASSUME NEW f \in Files, NEW t \in TaskIds, BeginUpload(f, t)
      PROVE  Latest'
  <2>1. /\ draft = <<>> /\ draft' = <<f, t>> /\ cur' = cur /\ recorded' = recorded
        /\ work' = [work EXCEPT ![t] = [file |-> f, ver |-> t]]
        /\ IsFresh(t) /\ Schedule(t)
    BY <1>9 DEF BeginUpload, diskVars, history
  <2>2. FileOf(t)' = f
    BY <2>1 DEF FileOf, Base, TypeOK
  <2>3. ToSet(scheduled') = ToSet(scheduled) \union {t}
    BY <2>1, Fresh, Scheduling
  <2>4. \A u \in recorded \union ToSet(scheduled) : Plain(u)' =>
          FileOf(u)' = FileOf(u) /\ u <= cur[FileOf(u)]
    BY <1>3, <2>1
  <2> QED
    BY <2>1, <2>2, <2>3, <2>4 DEF Latest, FileOf
<1>10. CASE CommitUpload
  <2>1. /\ draft # <<>> /\ cur' = [cur EXCEPT ![draft[1]] = draft[2]]
        /\ recorded' = recorded /\ scheduled' = scheduled
    BY <1>10 DEF CommitUpload, history
  <2>2. /\ draft = <<draft[1], draft[2]>> /\ draft[1] \in Files /\ draft[2] \in Nat
        /\ \A f \in Files : cur[f] < draft[2] /\ cur[f] \in Nat
    BY <2>1, Versions
  <2>3. cur'[draft[1]] = draft[2] /\ \A f \in Files : f # draft[1] => cur'[f] = cur[f]
    BY <2>1, <2>2 DEF Base, TypeOK
  <2>4. ASSUME NEW t \in recorded \union ToSet(scheduled), Plain(t)'
        PROVE  FileOf(t)' = FileOf(t) /\ t <= cur'[FileOf(t)]
    <3>1. /\ FileOf(t)' = FileOf(t) /\ FileOf(t) \in Files /\ t \in Nat
          /\ t <= cur[FileOf(t)] \/ draft = <<FileOf(t), t>>
      BY <1>2, <1>3, <2>4, Versions
    <3>2. CASE t <= cur[FileOf(t)]
      BY <2>2, <2>3, <3>1, <3>2
    <3>3. CASE draft = <<FileOf(t), t>>
      BY <2>3, <3>1, <3>3
    <3> QED
      BY <3>1, <3>2, <3>3
  <2> QED
    BY <2>1, <2>4 DEF Latest, FileOf
<1>11. ASSUME NEW t \in TaskIds, RetryTask(t)
       PROVE  Latest'
  <2>1. /\ cur' = cur /\ draft' = draft /\ recorded' = recorded /\ stage[t] = "FAILED"
        /\ FileOf(t) \in excused' /\ work' = work /\ Schedule(t)
    BY <1>11 DEF RetryTask, diskVars
  <2>2. ToSet(scheduled') = ToSet(scheduled) \union {t}
    BY <2>1, Scheduling
  <2>3. ~ Plain(t)'
    BY <2>1 DEF Plain, FileOf
  <2> QED
    BY <1>4, <2>1, <2>2, <2>3
<1>12. ASSUME NEW i \in DOMAIN rows, NEW t \in TaskIds, HistoryRetry(i, t)
       PROVE  Latest'
  <2>1. /\ cur' = cur /\ draft' = draft /\ recorded' = recorded /\ IsFresh(t) /\ Schedule(t)
    BY <1>12 DEF HistoryRetry
  <2>2. ToSet(scheduled') = ToSet(scheduled) \union {t}
    BY <2>1, Fresh, Scheduling
  <2>3. ~ Plain(t)'
    BY <1>12, RetriedFile DEF Plain
  <2> QED
    BY <1>4, <2>1, <2>2, <2>3
<1>13. CASE Crash
  <2>1. /\ cur' = cur /\ draft' = <<>> /\ recorded' = recorded /\ scheduled' = <<>>
        /\ excused' = excused \union TornFiles
    BY <1>13 DEF Crash, diskVars
  <2>2. ASSUME NEW t \in recorded, Plain(t)'
        PROVE  FileOf(t)' = FileOf(t) /\ t <= cur[FileOf(t)]
    <3>1. draft = <<FileOf(t), t>> => FileOf(t) \in excused'
      BY <2>1 DEF TornFiles
    <3> QED
      BY <1>3, <2>2, <3>1
  <2> QED
    BY <2>1, <2>2, Nobody DEF Latest, FileOf
<1>14. CASE RequeueSurvivors
  <2>1. PICK r \in Seq(TaskIds) :
          /\ ToSet(r) = {t \in ToSet(survivors) : VersionIsCurrent(t)}
          /\ ToSet(scheduled') = ToSet(scheduled) \union ToSet(r)
    BY <1>14, Requeueing
  <2>2. cur' = cur /\ draft' = draft /\ recorded' = recorded
    BY <1>14 DEF RequeueSurvivors
  <2>3. ToSet(r) \subseteq recorded
    BY <2>1, AllKnown
  <2> QED
    BY <1>4, <2>1, <2>2, <2>3
<1> QED
  BY <1>5, <1>6, <1>7, <1>8, <1>9, <1>10, <1>11, <1>12, <1>13, <1>14 DEF Next

\* A sequence follows itself, and the empty one follows every sequence.
LEMMA FollowsItself ==
  ASSUME NEW s
  PROVE  Follows(s, s) /\ Follows(<<>>, s)
<1>1. Follows(s, s)
  BY DEF Follows
<1>2. Len(<<>>) = 0
  BY Nobody
<1> QED
  BY <1>1, <1>2 DEF Follows

\* A step that adds to no sequence keeps the order.
LEMMA OrderKept ==
  ASSUME Base, InOrder, Keeps, excused \subseteq excused',
         Follows(ledger', ledger), ToSet(ledger') \subseteq ToSet(ledger), ledger' \in Seq(TaskIds),
         Follows(scheduled', scheduled), ToSet(scheduled') \subseteq ToSet(scheduled),
         scheduled' \in Seq(TaskIds)
  PROVE  InOrder'
<1>1. /\ ledger \in Seq(TaskIds) /\ scheduled \in Seq(TaskIds)
      /\ \A t \in ToSet(ledger) \union ToSet(scheduled) : Known(t)
  BY AllKnown DEF Base, TypeOK
<1>2. ASSUME NEW s \in Seq(TaskIds), Sorted(s), \A t \in ToSet(s) : Known(t),
             NEW q \in Seq(TaskIds), Follows(q, s)
      PROVE  \A i, j \in 1..Len(q) :
               i < j /\ Plain(q[i])' /\ FileOf(q[i])' = FileOf(q[j])' => q[i] < q[j]
  <2>1. ASSUME NEW i \in 1..Len(q), NEW j \in 1..Len(q), i < j,
               Plain(q[i])', FileOf(q[i])' = FileOf(q[j])'
        PROVE  q[i] < q[j]
    <3>1. PICK k \in 1..Len(s), l \in 1..Len(s) : k < l /\ q[i] = s[k] /\ q[j] = s[l]
      BY <1>2, <2>1 DEF Follows
    <3>2. s[k] \in ToSet(s) /\ s[l] \in ToSet(s)
      BY Members
    <3>3. PICK a, b : a = s[k] /\ b = s[l]
      OBVIOUS
    <3>4. Known(a) /\ Known(b) /\ Plain(a)' /\ FileOf(a)' = FileOf(b)'
      BY <1>2, <2>1, <3>1, <3>2, <3>3
    <3>5. Plain(a) /\ FileOf(a) = FileOf(b)
      BY <3>4, WasPlain, StillKnown
    <3> QED
      BY <1>2, <3>1, <3>3, <3>5 DEF Sorted
  <2> QED
    BY <2>1
<1>3. Sorted(ledger)'
  <2>1. PICK q \in Seq(TaskIds) : q = ledger'
    OBVIOUS
  <2>2. \A i, j \in 1..Len(q) :
          i < j /\ Plain(q[i])' /\ FileOf(q[i])' = FileOf(q[j])' => q[i] < q[j]
    BY <1>1, <1>2, <2>1 DEF InOrder
  <2> QED
    BY <2>1, <2>2 DEF Sorted, Plain, FileOf
<1>4. Sorted(scheduled)'
  <2>1. PICK q \in Seq(TaskIds) : q = scheduled'
    OBVIOUS
  <2>2. \A i, j \in 1..Len(q) :
          i < j /\ Plain(q[i])' /\ FileOf(q[i])' = FileOf(q[j])' => q[i] < q[j]
    BY <1>1, <1>2, <2>1 DEF InOrder
  <2> QED
    BY <2>1, <2>2 DEF Sorted, Plain, FileOf
<1>5. ASSUME NEW t \in ToSet(ledger'), NEW u \in ToSet(scheduled'), Plain(t)', FileOf(t)' = FileOf(u)'
      PROVE  t <= u
  <2>1. Known(t) /\ Known(u) /\ t \in ToSet(ledger) /\ u \in ToSet(scheduled)
    BY <1>1
  <2>2. Plain(t) /\ FileOf(t) = FileOf(u)
    BY <1>5, <2>1, WasPlain, StillKnown
  <2> QED
    BY <2>1, <2>2 DEF InOrder
<1> QED
  BY <1>3, <1>4, <1>5 DEF InOrder

\* A step that schedules one more task keeps the order, when that task is the newest
\* of its file.
LEMMA OrderExtended ==
  ASSUME Base, InOrder, Keeps, excused \subseteq excused', ledger' = ledger,
         NEW t \in TaskIds, stage[t] # "scheduled", Schedule(t),
         \A u : Known(u) /\ Plain(u)' /\ FileOf(u)' = FileOf(t)' => u < t
  PROVE  InOrder'
<1>1. /\ ledger \in Seq(TaskIds) /\ scheduled \in Seq(TaskIds)
      /\ \A u \in ToSet(ledger) \union ToSet(scheduled) : Known(u) /\ u \in Nat
      /\ \A i \in 1..Len(scheduled) : scheduled[i] \in ToSet(scheduled)
      /\ \A i \in 1..Len(ledger) : ledger[i] \in ToSet(ledger)
  BY AllKnown, Members DEF Base, TypeOK
<1>2. \A u, v : Known(u) /\ Known(v) /\ Plain(u)' /\ FileOf(u)' = FileOf(v)' =>
        Plain(u) /\ FileOf(u) = FileOf(v)
  BY WasPlain, StillKnown
<1>3. /\ ToSet(scheduled') = ToSet(scheduled) \union {t}
      /\ Len(scheduled) \in Nat /\ Len(scheduled') = Len(scheduled) + 1
      /\ \A i \in 1..Len(scheduled) : scheduled'[i] = scheduled[i]
      /\ scheduled'[Len(scheduled) + 1] = t
  BY Scheduling
<1>4. Sorted(ledger)'
  <2>1. ASSUME NEW i \in 1..Len(ledger), NEW j \in 1..Len(ledger), i < j,
               Plain(ledger[i])', FileOf(ledger[i])' = FileOf(ledger[j])'
        PROVE  ledger[i] < ledger[j]
    <3>1. PICK a, b : a = ledger[i] /\ b = ledger[j]
      OBVIOUS
    <3>2. Plain(a)' /\ FileOf(a)' = FileOf(b)' /\ Known(a) /\ Known(b)
      BY <1>1, <2>1, <3>1 DEF Plain, FileOf
    <3>3. Plain(a) /\ FileOf(a) = FileOf(b)
      BY <1>2, <3>2
    <3> QED
      BY <2>1, <3>1, <3>3 DEF InOrder, Sorted
  <2> QED
    BY <2>1 DEF Sorted, Plain, FileOf
<1>5. Sorted(scheduled)'
  <2>1. ASSUME NEW i \in 1..Len(scheduled'), NEW j \in 1..Len(scheduled'), i < j,
               NEW a, NEW b, a = scheduled'[i], b = scheduled'[j],
               Plain(a)', FileOf(a)' = FileOf(b)'
        PROVE  a < b
    <3>1. i \in 1..Len(scheduled) /\ (j \in 1..Len(scheduled) \/ j = Len(scheduled) + 1)
      BY <1>3, <2>1
    <3>2. a = scheduled[i] /\ Known(a)
      BY <1>1, <1>3, <2>1, <3>1
    <3>3. CASE j = Len(scheduled) + 1
      BY <1>3, <2>1, <3>2, <3>3
    <3>4. CASE j \in 1..Len(scheduled)
      <4>1. b = scheduled[j] /\ Known(b)
        BY <1>1, <1>3, <2>1, <3>4
      <4>2. Plain(a) /\ FileOf(a) = FileOf(b)
        BY <1>2, <2>1, <3>2, <4>1
      <4> QED
        BY <2>1, <3>1, <3>2, <3>4, <4>1, <4>2 DEF InOrder, Sorted
    <3> QED
      BY <3>1, <3>3, <3>4
  <2> QED
    BY <2>1 DEF Sorted, Plain, FileOf
<1>6. ASSUME NEW u \in ToSet(ledger'), NEW v \in ToSet(scheduled'), Plain(u)', FileOf(u)' = FileOf(v)'
      PROVE  u <= v
  <2>1. Known(u) /\ u \in Nat /\ t \in Nat
    BY <1>1 DEF TaskIds
  <2>2. CASE v = t
    <3>1. u < t
      BY <1>6, <2>1, <2>2
    <3> QED
      BY <2>1, <2>2, <3>1
  <2>3. CASE v # t
    <3>1. v \in ToSet(scheduled) /\ Known(v) /\ u \in ToSet(ledger)
      BY <1>1, <1>3, <2>3
    <3>2. Plain(u) /\ FileOf(u) = FileOf(v)
      BY <1>2, <1>6, <2>1, <3>1
    <3> QED
      BY <3>1, <3>2 DEF InOrder
  <2> QED
    BY <2>2, <2>3
<1> QED
  BY <1>4, <1>5, <1>6 DEF InOrder

\* A step keeps the tasks of a file in order.
LEMMA OrderStep ==
  ASSUME Base, OwnVersion, Latest, InOrder, [Next]_vars
  PROVE  InOrder'
<1>1. Keeps /\ excused \subseteq excused'
  BY OldAndNew
<1>2. /\ ledger \in Seq(TaskIds) /\ scheduled \in Seq(TaskIds) /\ TypeOK
      /\ IsInjective(ledger) /\ IsInjective(scheduled)
  BY DEF Base, TypeOK
<1>3. ASSUME ledger' = ledger, scheduled' = scheduled
      PROVE  InOrder'
  BY <1>1, <1>2, <1>3, FollowsItself, OrderKept
<1>4. CASE UNCHANGED vars \/ CommitUpload \/ RekeyRow
  <2>1. ledger' = ledger /\ scheduled' = scheduled
    BY <1>4 DEF CommitUpload, RekeyRow, vars, diskVars, memoryVars
  <2> QED
    BY <1>3, <2>1
<1>5. CASE Crash
  <2>1. ledger' = ledger /\ scheduled' = <<>>
    BY <1>5 DEF Crash, diskVars
  <2> QED
    BY <1>1, <1>2, <2>1, FollowsItself, Nobody, OrderKept
<1>6. CASE Restart
  <2>1. /\ ledger' \in Seq(TaskIds) /\ ToSet(ledger') \subseteq ToSet(ledger)
        /\ Follows(ledger', ledger)
    BY <1>6, Restarting
  <2>2. scheduled' = scheduled
    BY <1>6 DEF Restart
  <2> QED
    BY <1>1, <1>2, <2>1, <2>2, FollowsItself, OrderKept
<1>7. ASSUME NEW t \in TaskIds, WorkOn(t)
      PROVE  InOrder'
  <2>1. scheduled' = scheduled /\ (ledger' = ledger \/ ledger' = Without(ledger, t))
    BY <1>7, Working
  <2>2. CASE ledger' = ledger
    BY <1>3, <2>1, <2>2
  <2>3. CASE ledger' = Without(ledger, t)
    <3>1. /\ ledger' \in Seq(TaskIds) /\ ToSet(ledger') \subseteq ToSet(ledger)
          /\ Follows(ledger', ledger)
      BY <1>2, <2>3, WithoutOne
    <3> QED
      BY <1>1, <1>2, <2>1, <3>1, FollowsItself, OrderKept
  <2> QED
    BY <2>1, <2>2, <2>3
<1>8. ASSUME NEW f \in Files, NEW t \in TaskIds, BeginUpload(f, t)
      PROVE  InOrder'
  <2>1. ledger' = ledger /\ IsFresh(t) /\ Schedule(t)
    BY <1>8 DEF BeginUpload, diskVars
  <2>2. stage[t] # "scheduled" /\ \A u : Known(u) => u < t
    BY <2>1, Fresh
  <2> QED
    BY <1>1, <2>1, <2>2, OrderExtended
<1>9. ASSUME NEW i \in DOMAIN rows, NEW t \in TaskIds, HistoryRetry(i, t)
      PROVE  InOrder'
  <2>1. ledger' = ledger /\ IsFresh(t) /\ Schedule(t)
    BY <1>9 DEF HistoryRetry
  <2>2. stage[t] # "scheduled" /\ \A u : Known(u) => u < t
    BY <2>1, Fresh
  <2> QED
    BY <1>1, <2>1, <2>2, OrderExtended
<1>10. ASSUME NEW t \in TaskIds, RetryTask(t)
       PROVE  InOrder'
  <2>1. /\ ledger' = ledger /\ stage[t] = "FAILED" /\ Schedule(t) /\ work' = work
        /\ FileOf(t) \in excused'
    BY <1>10 DEF RetryTask, diskVars
  <2>2. \A u : Plain(u)' => FileOf(u)' # FileOf(t)'
    BY <2>1 DEF Plain, FileOf
  <2> QED
    BY <1>1, <2>1, <2>2, OrderExtended
<1>11. CASE PersistTask
  <2>1. PICK t \in TaskIds :
          /\ t = scheduled[1] /\ t \in ToSet(scheduled)
          /\ scheduled' \in Seq(TaskIds) /\ ToSet(scheduled') = ToSet(scheduled) \ {t}
          /\ Len(scheduled) \in Nat \ {0}
          /\ \A i \in 1..Len(scheduled') :
               scheduled'[i] = scheduled[i + 1] /\ i + 1 \in 1..Len(scheduled)
          /\ ledger' = Append(Without(ledger, t), t)
          /\ ledger' \in Seq(TaskIds)
          /\ ToSet(ledger') = ToSet(ledger) \union {t}
    BY <1>11, Persisting
  <2>2. excused' = excused
    BY <1>11 DEF PersistTask
  <2>3. \A u, v : Known(u) /\ Known(v) /\ Plain(u)' /\ FileOf(u)' = FileOf(v)' =>
          Plain(u) /\ FileOf(u) = FileOf(v)
    BY <1>1, WasPlain, StillKnown
  <2>4. /\ Without(ledger, t) \in Seq(TaskIds)
        /\ ToSet(Without(ledger, t)) = ToSet(ledger) \ {t}
        /\ Follows(Without(ledger, t), ledger)
    BY <1>2, WithoutOne
  <2>5. \A u \in ToSet(ledger) \union ToSet(scheduled) : Known(u) /\ u \in Nat
    BY AllKnown
  <2>6. Sorted(scheduled)'
    <3>1. ASSUME NEW i \in 1..Len(scheduled'), NEW j \in 1..Len(scheduled'), i < j,
                 NEW a, NEW b, a = scheduled'[i], b = scheduled'[j],
                 Plain(a)', FileOf(a)' = FileOf(b)'
          PROVE  a < b
      <4>1. /\ a = scheduled[i + 1] /\ b = scheduled[j + 1]
            /\ i + 1 \in 1..Len(scheduled) /\ j + 1 \in 1..Len(scheduled) /\ i + 1 < j + 1
        BY <2>1, <3>1
      <4>2. Known(a) /\ Known(b)
        BY <1>2, <2>5, <4>1, Members
      <4>3. Plain(a) /\ FileOf(a) = FileOf(b)
        BY <2>3, <3>1, <4>2
      <4> QED
        BY <4>1, <4>3 DEF InOrder, Sorted
    <3> QED
      BY <3>1 DEF Sorted, Plain, FileOf
  <2>7. Sorted(ledger)'
    <3>1. PICK w \in Seq(TaskIds) : w = Without(ledger, t)
      BY <2>4
    <3>2. /\ Len(w) \in Nat /\ Len(ledger') = Len(w) + 1 /\ ledger'[Len(w) + 1] = t
          /\ \A i \in 1..Len(w) : ledger'[i] = w[i]
      BY <2>1, <3>1, Added
    <3>3. ASSUME NEW i \in 1..Len(ledger'), NEW j \in 1..Len(ledger'), i < j,
                 NEW a, NEW b, a = ledger'[i], b = ledger'[j],
                 Plain(a)', FileOf(a)' = FileOf(b)'
          PROVE  a < b
      <4>1. i \in 1..Len(w) /\ (j \in 1..Len(w) \/ j = Len(w) + 1)
        BY <3>2, <3>3
      <4>2. a = w[i] /\ a \in ToSet(ledger) /\ a # t /\ Known(a)
        BY <2>4, <2>5, <3>1, <3>2, <3>3, <4>1, Members
      <4>3. CASE j = Len(w) + 1
        <5>1. b = t /\ Known(t)
          BY <2>1, <2>5, <3>2, <3>3, <4>3
        <5>2. Plain(a) /\ FileOf(a) = FileOf(t)
          BY <2>3, <3>3, <4>2, <5>1
        <5>3. a <= t
          BY <2>1, <4>2, <5>2 DEF InOrder
        <5> QED
          BY <2>1, <2>5, <4>2, <5>1, <5>3
      <4>4. CASE j \in 1..Len(w)
        <5>1. b = w[j] /\ Known(b)
          BY <2>4, <2>5, <3>1, <3>2, <3>3, <4>4, Members
        <5>2. Plain(a) /\ FileOf(a) = FileOf(b)
          BY <2>3, <3>3, <4>2, <5>1
        <5>3. PICK k \in 1..Len(ledger), l \in 1..Len(ledger) : k < l /\ w[i] = ledger[k] /\ w[j] = ledger[l]
          BY <2>4, <3>1, <3>3, <4>1, <4>4 DEF Follows
        <5> QED
          BY <4>2, <5>1, <5>2, <5>3 DEF InOrder, Sorted
      <4> QED
        BY <4>1, <4>3, <4>4
    <3> QED
      BY <3>3 DEF Sorted, Plain, FileOf
  <2>8. ASSUME NEW a \in ToSet(ledger'), NEW b \in ToSet(scheduled'), Plain(a)', FileOf(a)' = FileOf(b)'
        PROVE  a <= b
    <3>1. Known(a) /\ Known(b) /\ a \in Nat /\ b \in Nat /\ b \in ToSet(scheduled)
      BY <2>1, <2>5
    <3>2. Plain(a) /\ FileOf(a) = FileOf(b)
      BY <2>3, <2>8, <3>1
    <3>3. CASE a \in ToSet(ledger)
      BY <3>1, <3>2, <3>3 DEF InOrder
    <3>4. CASE a = t
      <4>1. PICK j \in 1..Len(scheduled') : scheduled'[j] = b
        BY <2>1, Members
      <4>2. j + 1 \in 1..Len(scheduled) /\ scheduled[j + 1] = b /\ 1 < j + 1 /\ 1 \in 1..Len(scheduled)
        BY <2>1, <4>1
      <4>3. a < b
        BY <2>1, <3>2, <3>4, <4>2 DEF InOrder, Sorted
      <4> QED
        BY <3>1, <4>3
    <3> QED
      BY <2>1, <3>3, <3>4
  <2> QED
    BY <2>6, <2>7, <2>8 DEF InOrder
<1>12. CASE RequeueSurvivors
  <2>1. PICK r \in Seq(TaskIds) :
          /\ ToSet(r) = {t \in ToSet(survivors) : VersionIsCurrent(t)}
          /\ scheduled' = scheduled \o r
          /\ scheduled' \in Seq(TaskIds) /\ IsInjective(scheduled')
          /\ ToSet(scheduled') = ToSet(scheduled) \union ToSet(r)
          /\ ledger' \in Seq(TaskIds)
          /\ ToSet(ledger') \subseteq ToSet(ledger)
          /\ Follows(ledger', ledger)
    BY <1>12, Requeueing
  <2>2. /\ excused' = excused \union (IF draft = <<>> THEN {} ELSE {draft[1]})
        /\ cur' = cur /\ draft' = draft /\ work' = work
    BY <1>12 DEF RequeueSurvivors
  <2>3. /\ \A u \in recorded \union ToSet(scheduled) \union ToSet(ledger) \union ToSet(survivors) :
             Known(u) /\ u \in Nat
        /\ ToSet(survivors) \subseteq ToSet(ledger) /\ ToSet(ledger) \subseteq recorded
    BY AllKnown
  <2>4. \A u, v : Known(u) /\ Known(v) /\ Plain(u)' /\ FileOf(u)' = FileOf(v)' =>
          Plain(u) /\ FileOf(u) = FileOf(v) /\ FileOf(u) \notin excused'
    BY <1>1, WasPlain, StillKnown
  <2>5. ASSUME NEW u \in recorded \union ToSet(scheduled), NEW v \in ToSet(r),
               Plain(u)', FileOf(u)' = FileOf(v)'
        PROVE  u <= v
    <3>1. Known(u) /\ Known(v) /\ u \in Nat /\ v \in Nat /\ v \in TaskIds /\ VersionIsCurrent(v)
      BY <2>1, <2>3 DEF Known
    <3>2. Plain(u) /\ FileOf(u) = FileOf(v) /\ FileOf(u) \notin excused'
      BY <2>4, <2>5, <3>1
    <3>3. Plain(v)
      BY <3>1, <3>2 DEF Plain, Known
    <3>4. v = cur[FileOf(v)]
      BY <3>1, <3>3 DEF OwnVersion, VersionIsCurrent
    <3>5. draft # <<FileOf(u), u>>
      BY <2>2, <3>2
    <3>6. u <= cur[FileOf(u)]
      BY <3>2, <3>5 DEF Latest
    <3> QED
      BY <3>2, <3>4, <3>6
  <2>6. Sorted(ledger)'
    <3>1. ASSUME NEW i \in 1..Len(ledger'), NEW j \in 1..Len(ledger'), i < j,
                 NEW a, NEW b, a = ledger'[i], b = ledger'[j],
                 Plain(a)', FileOf(a)' = FileOf(b)'
          PROVE  a < b
      <4>1. Known(a) /\ Known(b)
        BY <2>1, <2>3, <3>1, Members
      <4>2. Plain(a) /\ FileOf(a) = FileOf(b)
        BY <2>4, <3>1, <4>1
      <4>3. PICK k \in 1..Len(ledger), l \in 1..Len(ledger) : k < l /\ a = ledger[k] /\ b = ledger[l]
        BY <2>1, <3>1 DEF Follows
      <4> QED
        BY <4>2, <4>3 DEF InOrder, Sorted
    <3> QED
      BY <3>1 DEF Sorted, Plain, FileOf
  <2>7. Sorted(scheduled)'
    <3>1. /\ Len(scheduled) \in Nat
          /\ \A i \in 1..Len(scheduled) : scheduled'[i] = scheduled[i]
          /\ \A i \in 1..Len(scheduled') :
               i \in 1..Len(scheduled) \/ (i - Len(scheduled) \in 1..Len(r) /\ scheduled'[i] = r[i - Len(scheduled)])
          /\ Len(scheduled') \in Nat
      BY <1>2, <2>1, Joined
    <3>2. ASSUME NEW i \in 1..Len(scheduled'), NEW j \in 1..Len(scheduled'), i < j,
                 NEW a, NEW b, a = scheduled'[i], b = scheduled'[j],
                 Plain(a)', FileOf(a)' = FileOf(b)'
          PROVE  a < b
      <4>1. /\ a \in ToSet(scheduled') /\ b \in ToSet(scheduled')
            /\ a # b
        <5>1. PICK q \in Seq(TaskIds) : q = scheduled' /\ IsInjective(q)
          BY <2>1
        <5>2. /\ \A x : x \in ToSet(q) <=> \E k \in 1..Len(q) : q[k] = x
              /\ IsInjective(q) <=> \A k, l \in 1..Len(q) : q[k] = q[l] => k = l
          BY Members
        <5>3. i \in 1..Len(q) /\ j \in 1..Len(q) /\ a = q[i] /\ b = q[j] /\ i # j
          BY <3>2, <5>1
        <5> QED
          BY <5>1, <5>2, <5>3
      <4>2. a \in recorded \union ToSet(scheduled) /\ Known(a) /\ Known(b) /\ a \in Nat /\ b \in Nat
        BY <2>1, <2>3, <4>1
      <4>3. CASE j \in 1..Len(scheduled)
        <5>1. i \in 1..Len(scheduled) /\ a = scheduled[i] /\ b = scheduled[j]
          BY <3>1, <3>2, <4>3
        <5>2. Plain(a) /\ FileOf(a) = FileOf(b)
          BY <2>4, <3>2, <4>2
        <5> QED
          BY <3>2, <4>3, <5>1, <5>2 DEF InOrder, Sorted
      <4>4. CASE j \notin 1..Len(scheduled)
        <5>1. b \in ToSet(r)
          <6>1. j - Len(scheduled) \in 1..Len(r) /\ b = r[j - Len(scheduled)]
            BY <3>1, <3>2, <4>4
          <6> QED
            BY <6>1, Members
        <5>2. a <= b
          BY <2>5, <3>2, <4>2, <5>1
        <5> QED
          BY <4>1, <4>2, <5>2
      <4> QED
        BY <4>3, <4>4
    <3> QED
      BY <3>2 DEF Sorted, Plain, FileOf
  <2>8. ASSUME NEW a \in ToSet(ledger'), NEW b \in ToSet(scheduled'), Plain(a)', FileOf(a)' = FileOf(b)'
        PROVE  a <= b
    <3>1. a \in ToSet(ledger) /\ a \in recorded
      BY <2>1, <2>3
    <3>2. CASE b \in ToSet(r)
      BY <2>5, <2>8, <3>1, <3>2
    <3>3. CASE b \in ToSet(scheduled)
      <4>1. Plain(a) /\ FileOf(a) = FileOf(b)
        BY <2>3, <2>4, <2>8, <3>1, <3>3
      <4> QED
        BY <3>1, <3>3, <4>1 DEF InOrder
    <3> QED
      BY <2>1, <3>2, <3>3
  <2> QED
    BY <2>6, <2>7, <2>8 DEF InOrder
<1> QED
  BY <1>4, <1>5, <1>6, <1>7, <1>8, <1>9, <1>10, <1>11, <1>12 DEF Next

----------------------------------------------------------------------------
\* Stages, rows and chunks.

\* Rows that do not change.
LEMMA RowsStay ==
  ASSUME rows \in Seq(Rows), rows' = rows, NEW u
  PROVE  RowOf(u)' = RowOf(u) /\ (RowFailed(u) => RowFailed(u)')
<1>1. RowOf(u)' = RowOf(u)
  BY SameRow
<1> QED
  BY <1>1 DEF RowFailed

\* The row that changes hands is not one of a plain task.
LEMMA RekeyedRows ==
  ASSUME Base, RekeyExcused, RekeyRow, NEW u, Plain(u)
  PROVE  RowOf(u)' = RowOf(u) /\ (RowFailed(u) => RowFailed(u)')
<1>1. rows \in Seq(Rows)
  BY DEF Base, TypeOK, Rows
<1>2. /\ rekey[1] \in 1..Len(rows)
      /\ rows' \in Seq(Rows) /\ Len(rows') = Len(rows) /\ Len(rows) \in Nat
      /\ \A i \in 1..Len(rows) : i # rekey[1] => rows'[i] = rows[i]
      /\ rows'[rekey[1]] = rows[rekey[1]] \/ rows'[rekey[1]].task = rekey[2]
  BY Rekeying
<1>3. rows[rekey[1]].task # u /\ rekey[2] # u
  BY DEF RekeyExcused, RekeyRow, Plain
<1>4. \A i \in 1..Len(rows) : rows'[i].task = u <=> rows[i].task = u
  BY <1>2, <1>3
<1>5. RowOf(u)' = RowOf(u)
  BY <1>1, <1>2, <1>4, SameRow
<1>6. IsLastRow(rows, u, RowOf(u))
  BY <1>1, RowIs
<1>7. RowOf(u) # 0 => RowOf(u) \in 1..Len(rows) /\ rows[RowOf(u)].task = u
  BY <1>6 DEF IsLastRow
<1>8. RowOf(u) # 0 => rows'[RowOf(u)] = rows[RowOf(u)]
  BY <1>2, <1>3, <1>7
<1> QED
  BY <1>5, <1>8 DEF RowFailed

\* What plain tasks other than o have in the stores, a step leaves there.
LeftToOthers(o) ==
  \A u : Known(u) /\ Plain(u)' /\ u # o =>
    /\ <<FileOf(u), u>> \in indexed => <<FileOf(u), u>> \in indexed'
    /\ RowOf(u)' = RowOf(u) /\ (RowFailed(u) => RowFailed(u)')

\* Work on a task leaves the others what they have.
LEMMA WorkLeaves ==
  ASSUME Base, NEW t \in TaskIds, WorkOn(t)
  PROVE  LeftToOthers(t)
<1>1. rows \in Seq(Rows) /\ OnlyRowsOf(t) /\ indexed \subseteq indexed'
  BY Working DEF Base, TypeOK, Rows
<1> QED
  BY <1>1, OthersRows DEF LeftToOthers

\* No other step takes from a plain task.
LEMMA StepLeaves ==
  ASSUME Base, RekeyExcused, [Next]_vars, ~ \E t \in TaskIds : WorkOn(t), NEW o
  PROVE  LeftToOthers(o)
<1>1. rows \in Seq(Rows) /\ Keeps /\ excused \subseteq excused'
  BY OldAndNew DEF Base, TypeOK, Rows
<1>2. ASSUME rows' = rows,
             \A u : Known(u) /\ Plain(u)' /\ <<FileOf(u), u>> \in indexed => <<FileOf(u), u>> \in indexed'
      PROVE  LeftToOthers(o)
  BY <1>1, <1>2, RowsStay DEF LeftToOthers
<1>3. CASE UNCHANGED vars \/ CommitUpload \/ PersistTask \/ RequeueSurvivors
  <2>1. rows' = rows /\ indexed' = indexed
    BY <1>3 DEF CommitUpload, PersistTask, RequeueSurvivors, vars, diskVars
  <2> QED
    BY <1>2, <2>1
<1>4. CASE \/ Crash \/ (\E f \in Files, t \in TaskIds : BeginUpload(f, t))
           \/ (\E t \in TaskIds : RetryTask(t))
  <2>1. rows' = rows /\ indexed' = indexed
    BY <1>4 DEF Crash, BeginUpload, RetryTask, diskVars
  <2> QED
    BY <1>2, <2>1
<1>5. CASE RekeyRow
  <2>1. indexed' = indexed
    BY <1>5 DEF RekeyRow
  <2> QED
    BY <1>1, <1>5, <2>1, WasPlain, RekeyedRows DEF LeftToOthers
<1>6. CASE Restart
  <2>1. indexed' = indexed /\ MarkInterrupted
    BY <1>6 DEF Restart
  <2>2. \A u : RowOf(u)' = RowOf(u) /\ (RowFailed(u) => RowFailed(u)')
    BY <1>1, <2>1, Interrupting
  <2> QED
    BY <2>1, <2>2 DEF LeftToOthers
<1>7. ASSUME NEW i \in DOMAIN rows, NEW t \in TaskIds, HistoryRetry(i, t)
      PROVE  LeftToOthers(o)
  <2>1. /\ FileOf(rows[i].task) \in excused'
        /\ indexed' = {p \in indexed : p[1] # FileOf(rows[i].task)}
    BY <1>7, RetriedFile
  <2>2. rows' = rows
    BY <1>7 DEF HistoryRetry
  <2>3. ASSUME NEW u, Known(u), Plain(u)', <<FileOf(u), u>> \in indexed
        PROVE  <<FileOf(u), u>> \in indexed'
    <3>1. FileOf(u) # FileOf(rows[i].task)
      BY <1>1, <2>1, <2>3, WasPlain
    <3> QED
      BY <2>1, <2>3, <3>1
  <2> QED
    BY <1>2, <2>2, <2>3
<1> QED
  BY <1>3, <1>4, <1>5, <1>6, <1>7 DEF Next

\* What the stage of one task says.
Told(t) ==
  /\ stage[t] \in {"stored", "succeeded", "COMPLETED"} => <<FileOf(t), t>> \in indexed
  /\ stage[t] \in {"queued", "stored"} => RowOf(t) # 0
  /\ stage[t] \in {"failing", "FAILED"} => RowFailed(t)

\* A unit of work leaves the stores as the new stage says.
LEMMA WorkTold ==
  ASSUME Base, OwnVersion, Outcome, NEW t \in TaskIds, WorkOn(t), Plain(t)
  PROVE  Told(t)'
<1>1. /\ stage \in [TaskIds -> Stages] /\ rows \in Seq(Rows) /\ Told(t)
      /\ work[t].ver = t /\ work' = work
  BY Working DEF Base, TypeOK, Rows, Outcome, Told, OwnVersion
<1>2. FileOf(t)' = FileOf(t)
  BY <1>1 DEF FileOf
<1>3. CASE QueueTask(t)
  <2>1. stage'[t] = "queued" /\ RecordQueued(t)
    BY <1>1, <1>3 DEF QueueTask
  <2>2. RowOf(t)' # 0
    BY <1>1, <2>1, Recording
  <2> QED
    BY <2>1, <2>2 DEF Told
<1>4. CASE StoreChunks(t)
  <2>1. /\ stage[t] = "queued" /\ stage'[t] = "stored" /\ <<FileOf(t), t>> \in indexed'
        /\ rows' = rows
    BY <1>1, <1>4 DEF StoreChunks
  <2>2. RowOf(t)' # 0
    BY <1>1, <2>1, RowsStay DEF Told
  <2> QED
    BY <1>2, <2>1, <2>2 DEF Told
<1>5. CASE RecordSuccess(t)
  <2>1. stage[t] = "stored" /\ stage'[t] = "succeeded" /\ indexed' = indexed
    BY <1>1, <1>5 DEF RecordSuccess
  <2> QED
    BY <1>1, <1>2, <2>1 DEF Told
<1>6. CASE RecordFailure(t)
  <2>1. /\ stage[t] \in {"queued", "stored"} /\ stage'[t] = "failing" /\ MarkRow(t, "failed")
    BY <1>1, <1>6 DEF RecordFailure
  <2>2. RowOf(t) # 0
    BY <1>1, <2>1 DEF Told
  <2>3. RowOf(t)' = RowOf(t) /\ rows'[RowOf(t)].status = "failed"
    BY <1>1, <2>1, <2>2, Marking DEF RowStates
  <2>4. RowFailed(t)'
    BY <2>2, <2>3 DEF RowFailed
  <2> QED
    BY <2>1, <2>4 DEF Told
<1>7. CASE FinishUpload(t)
  <2>1. /\ stage[t] \in {"succeeded", "failing"} /\ indexed' = indexed /\ rows' = rows
        /\ stage'[t] = IF stage[t] = "succeeded" THEN "COMPLETED" ELSE "FAILED"
    BY <1>1, <1>7 DEF FinishUpload
  <2>2. RowFailed(t) => RowFailed(t)'
    BY <1>1, <2>1, RowsStay
  <2> QED
    BY <1>1, <1>2, <2>1, <2>2 DEF Told
<1> QED
  BY <1>3, <1>4, <1>5, <1>6, <1>7 DEF WorkOn

\* A step keeps what the stages say.
LEMMA OutcomeStep ==
  ASSUME Base, OwnVersion, RekeyExcused, Outcome, [Next]_vars
  PROVE  Outcome'
<1>1. Keeps /\ excused \subseteq excused' /\ stage \in [TaskIds -> Stages]
  BY OldAndNew DEF Base, TypeOK
<1>2. ASSUME NEW u \in TaskIds, Plain(u)', stage'[u] = stage[u], NEW o, u # o, LeftToOthers(o)
      PROVE  Told(u)'
  <2>1. Known(u)
    BY <1>2 DEF Plain, Known
  <2>2. Plain(u) /\ FileOf(u)' = FileOf(u)
    BY <1>1, <1>2, <2>1, WasPlain
  <2>3. Told(u)
    BY <2>2 DEF Outcome, Told
  <2>4. /\ <<FileOf(u), u>> \in indexed => <<FileOf(u), u>> \in indexed'
        /\ RowOf(u)' = RowOf(u) /\ (RowFailed(u) => RowFailed(u)')
    BY <1>2, <2>1 DEF LeftToOthers
  <2> QED
    BY <1>2, <2>2, <2>3, <2>4 DEF Told
<1>3. CASE \E t \in TaskIds : WorkOn(t)
  <2>1. PICK t \in TaskIds : WorkOn(t)
    BY <1>3
  <2>2. LeftToOthers(t) /\ \A u \in TaskIds : u # t => stage'[u] = stage[u]
    BY <1>1, <2>1, Working, WorkLeaves
  <2>3. Known(t)
    BY <2>1, Working DEF Known, Running
  <2>4. Plain(t)' => Told(t)'
    BY <1>1, <2>1, <2>3, WasPlain, WorkTold
  <2>5. \A u \in TaskIds : u # t /\ Plain(u)' => Told(u)'
    BY <1>2, <2>2
  <2>6. \A u \in TaskIds : Plain(u)' => Told(u)'
    BY <2>4, <2>5
  <2> QED
    BY <2>6 DEF Outcome, Told
<1>4. CASE ~ \E t \in TaskIds : WorkOn(t)
  <2>1. \A o : LeftToOthers(o)
    BY <1>4, StepLeaves
  <2>2. ASSUME NEW u \in TaskIds
        PROVE  stage'[u] = stage[u] \/ stage'[u] \in {"unborn", "gone", "scheduled", "persisted"}
    <3>1. CASE UNCHANGED vars \/ CommitUpload \/ RekeyRow \/ Restart
      BY <3>1 DEF CommitUpload, RekeyRow, Restart, vars, memoryVars
    <3>2. CASE \E t \in TaskIds : Schedule(t)
      BY <1>1, <3>2 DEF Schedule
    <3>3. CASE PersistTask
      BY <1>1, <3>3 DEF PersistTask
    <3>4. CASE Crash
      BY <1>1, <3>4 DEF Crash
    <3>5. CASE RequeueSurvivors
      BY <3>5, Requeueing
    <3>6. CASE \E f \in Files, t \in TaskIds : BeginUpload(f, t)
      BY <3>2, <3>6 DEF BeginUpload
    <3>7. CASE \E t \in TaskIds : RetryTask(t)
      BY <3>2, <3>7 DEF RetryTask
    <3>8. CASE \E i \in DOMAIN rows, t \in TaskIds : HistoryRetry(i, t)
      BY <3>2, <3>8 DEF HistoryRetry
    <3> QED
      BY <1>4, <3>1, <3>3, <3>4, <3>5, <3>6, <3>7, <3>8 DEF Next
  <2>3. ASSUME NEW u \in TaskIds, Plain(u)'
        PROVE  Told(u)'
    <3>1. CASE stage'[u] = stage[u]
      <4>1. PICK o : o # u
        <5>1. u \in Nat /\ u + 1 # u
          BY DEF TaskIds
        <5> QED
          BY <5>1
      <4> QED
        BY <1>2, <2>1, <2>3, <3>1, <4>1
    <3>2. CASE stage'[u] \in {"unborn", "gone", "scheduled", "persisted"}
      BY <3>2 DEF Told
    <3> QED
      BY <2>2, <3>1, <3>2
  <2> QED
    BY <2>3 DEF Outcome, Told
<1> QED
  BY <1>3, <1>4

----------------------------------------------------------------------------
\* Uploads that nothing tore.

\* A step keeps on the ledger what is neither ingested nor shown as failed.
LEMMA HeldStep ==
  ASSUME Base, OwnVersion, RekeyExcused, Latest, InOrder, Outcome, Held, [Next]_vars
  PROVE  Held'
<1>1. Keeps /\ excused \subseteq excused'
  BY OldAndNew
<1>2. \A t \in recorded : Known(t) /\ t \in Nat /\ t \in TaskIds
  BY AllKnown DEF Known
<1>3. ASSUME NEW t \in recorded, Plain(t)', NEW o, t # o, LeftToOthers(o), Top(t),
             t \in ToSet(ledger) => t \in ToSet(ledger')
      PROVE  t \in ToSet(ledger') \/ <<FileOf(t)', t>> \in indexed' \/ RowFailed(t)'
  <2>1. Known(t) /\ Plain(t) /\ FileOf(t)' = FileOf(t)
    BY <1>1, <1>2, <1>3, WasPlain
  <2>2. t \in ToSet(ledger) \/ <<FileOf(t), t>> \in indexed \/ RowFailed(t)
    BY <1>3, <2>1 DEF Held
  <2> QED
    BY <1>3, <2>1, <2>2 DEF LeftToOthers
<1>4. ASSUME ~ \E t \in TaskIds : WorkOn(t),
             \A t \in recorded' : t \in recorded \/ t \in ToSet(ledger'),
             \A t \in recorded : Plain(t)' /\ Top(t)' =>
               Top(t) /\ (t \in ToSet(ledger) => t \in ToSet(ledger'))
      PROVE  Held'
  <2>1. ASSUME NEW t \in recorded', Plain(t)', Top(t)'
        PROVE  t \in ToSet(ledger') \/ <<FileOf(t)', t>> \in indexed' \/ RowFailed(t)'
    <3>1. CASE t \in ToSet(ledger')
      BY <3>1
    <3>2. CASE t \notin ToSet(ledger')
      <4>1. t \in recorded /\ Top(t) /\ (t \in ToSet(ledger) => t \in ToSet(ledger'))
        BY <1>4, <2>1, <3>2
      <4>2. t + 1 # t /\ LeftToOthers(t + 1)
        BY <1>2, <1>4, <4>1, StepLeaves
      <4> QED
        BY <1>3, <2>1, <4>1, <4>2
    <3> QED
      BY <3>1, <3>2
  <2> QED
    BY <2>1 DEF Held, FileOf
<1>5. ASSUME NEW t \in recorded, cur' = cur, draft' = draft \/ draft' = <<>>, Top(t)'
      PROVE  Top(t)
  BY <1>1, <1>2, <1>5, StillKnown DEF Top, FileOf
<1>6. ASSUME NEW t \in TaskIds, WorkOn(t)
      PROVE  Held'
  <2>1. /\ UNCHANGED <<cur, draft, work, recorded, excused>>
        /\ stage[t] \in Running /\ LeftToOthers(t)
    BY <1>6, Working, WorkLeaves
  <2>2. PICK s \in Running \union {"COMPLETED", "FAILED"} :
          /\ stage' = [stage EXCEPT ![t] = s]
          /\ s \in Running => ledger' = ledger
          /\ s \notin Running => ledger' = Without(ledger, t)
    BY <1>6, Working
  <2>3. ToSet(ledger) \ {t} \subseteq ToSet(ledger') /\ t \in ToSet(ledger)
    BY <2>1, <2>2, WithoutOne DEF Base, OnRecord
  <2>4. stage'[t] = s /\ Known(t)
    BY <2>1, <2>2 DEF Base, TypeOK, Known, Running
  <2>5. ASSUME NEW u \in recorded', Plain(u)', Top(u)'
        PROVE  u \in ToSet(ledger') \/ <<FileOf(u)', u>> \in indexed' \/ RowFailed(u)'
    <3>1. CASE u # t
      <4>1. u \in recorded /\ Top(u)
        BY <1>5, <2>1, <2>5
      <4>2. u \in ToSet(ledger) => u \in ToSet(ledger')
        BY <2>3, <3>1
      <4> QED
        BY <1>3, <2>1, <2>5, <3>1, <4>1, <4>2
    <3>2. CASE u = t
      <4>1. Plain(t)
        BY <1>1, <2>4, <2>5, <3>2, WasPlain
      <4>2. Told(t)'
        BY <1>6, <4>1, WorkTold
      <4>3. CASE s \in Running
        BY <2>2, <2>3, <3>2, <4>3
      <4>4. CASE s \notin Running
        <5>1. s = "COMPLETED" \/ s = "FAILED"
          BY <2>2, <4>4
        <5>2. s = "COMPLETED" => <<FileOf(t)', t>> \in indexed'
          BY <2>4, <4>2 DEF Told, FileOf
        <5>3. s = "FAILED" => RowFailed(t)'
          BY <2>4, <4>2 DEF Told
        <5> QED
          BY <3>2, <5>1, <5>2, <5>3 DEF FileOf
      <4> QED
        BY <4>3, <4>4
    <3> QED
      BY <3>1, <3>2
  <2> QED
    BY <2>5 DEF Held, FileOf
<1>7. CASE ~ \E t \in TaskIds : WorkOn(t)
  <2>1. CASE \/ UNCHANGED vars \/ RekeyRow \/ Crash
             \/ \E t \in TaskIds : RetryTask(t)
             \/ \E i \in DOMAIN rows, t \in TaskIds : HistoryRetry(i, t)
    <3>1. /\ cur' = cur /\ (draft' = draft \/ draft' = <<>>) /\ recorded' = recorded
          /\ ledger' = ledger
      BY <2>1 DEF RekeyRow, Crash, RetryTask, HistoryRetry, vars, diskVars, memoryVars, history
    <3> QED
      BY <1>4, <1>5, <1>7, <3>1
  <2>2. CASE \E f \in Files, t \in TaskIds : BeginUpload(f, t)
    <3>1. PICK f \in Files, t \in TaskIds : BeginUpload(f, t)
      BY <2>2
    <3>2. cur' = cur /\ draft' = <<f, t>> /\ recorded' = recorded /\ ledger' = ledger /\ IsFresh(t)
      BY <3>1 DEF BeginUpload, diskVars, history
    <3>3. t \notin recorded
      BY <3>2, Fresh
    <3>4. \A u \in recorded : Top(u)' => Top(u)
      BY <1>1, <1>2, <3>2, <3>3, StillKnown DEF Top, FileOf
    <3> QED
      BY <1>4, <1>7, <3>2, <3>4
  <2>3. CASE CommitUpload
    <3>1. /\ draft # <<>> /\ cur' = [cur EXCEPT ![draft[1]] = draft[2]] /\ draft' = <<>>
          /\ recorded' = recorded /\ ledger' = ledger
      BY <2>3 DEF CommitUpload, history
    <3>2. draft = <<draft[1], draft[2]>> /\ draft[1] \in Files /\ FileOf(draft[2]) = draft[1]
      BY <3>1, Versions
    <3>3. cur'[draft[1]] = draft[2] /\ \A f \in Files : f # draft[1] => cur'[f] = cur[f]
      BY <3>1, <3>2 DEF Base, TypeOK
    <3>4. ASSUME NEW u \in recorded, Top(u)'
          PROVE  Top(u)
      <4>1. FileOf(u)' = FileOf(u) /\ FileOf(u) \in Files /\ u = cur'[FileOf(u)]
        BY <1>1, <1>2, <3>1, <3>4, StillKnown, Versions DEF Top, FileOf
      <4> QED
        BY <3>2, <3>3, <4>1 DEF Top
    <3> QED
      BY <1>4, <1>7, <3>1, <3>4
  <2>4. CASE PersistTask
    <3>1. PICK t \in TaskIds : /\ ToSet(ledger') = ToSet(ledger) \union {t}
                               /\ recorded' = recorded \union {t}
      BY <2>4, Persisting
    <3>2. cur' = cur /\ draft' = draft
      BY <2>4 DEF PersistTask
    <3> QED
      BY <1>4, <1>5, <1>7, <3>1, <3>2
  <2>5. CASE Restart
    <3>1. cur' = cur /\ draft' = draft /\ recorded' = recorded /\ draft = <<>>
      BY <2>5 DEF Restart, history, Base, Asleep
    <3>2. ToSet(ledger') = {t \in ToSet(ledger) : IsNewest(t)}
      BY <2>5, Restarting
    <3>3. ASSUME NEW t \in recorded, Plain(t)', Top(t)', t \in ToSet(ledger)
          PROVE  IsNewest(t)
      <4>1. Plain(t) /\ Top(t) /\ Known(t) /\ t \in Nat
        BY <1>1, <1>2, <1>5, <3>1, <3>3, WasPlain
      <4>2. t = cur[FileOf(t)]
        BY <3>1, <4>1 DEF Top
      <4>3. ASSUME NEW i \in DOMAIN ledger, NEW j \in DOMAIN ledger, ledger[i] = t, j > i,
                   FileOf(ledger[j]) = FileOf(t)
            PROVE  FALSE
        <5>1. i \in 1..Len(ledger) /\ j \in 1..Len(ledger) /\ ledger \in Seq(TaskIds) /\ Len(ledger) \in Nat
          BY <4>3 DEF Base, TypeOK
        <5>2. PICK u : u = ledger[j]
          OBVIOUS
        <5>3. u \in ToSet(ledger)
          BY <5>1, <5>2, Members
        <5>4. u \in recorded /\ Known(u) /\ u \in Nat
          BY <5>3, AllKnown
        <5>5. Plain(u) /\ FileOf(u) = FileOf(t)
          BY <4>1, <4>3, <5>2, <5>4 DEF Plain, Known
        <5>6. t < u
          BY <4>1, <4>3, <5>1, <5>2, <5>5 DEF InOrder, Sorted
        <5>7. u <= cur[FileOf(u)]
          BY <3>1, <5>4, <5>5 DEF Latest
        <5> QED
          BY <4>1, <4>2, <5>4, <5>5, <5>6, <5>7
      <4> QED
        BY <4>3 DEF IsNewest
    <3> QED
      BY <1>4, <1>5, <1>7, <3>1, <3>2, <3>3
  <2>6. CASE RequeueSurvivors
    <3>1. PICK r \in Seq(TaskIds) :
            ToSet(ledger') = {t \in ToSet(ledger) : t \in ToSet(survivors) => VersionIsCurrent(t)}
      BY <2>6, Requeueing
    <3>2. /\ excused' = excused \union (IF draft = <<>> THEN {} ELSE {draft[1]})
          /\ cur' = cur /\ draft' = draft /\ recorded' = recorded
      BY <2>6 DEF RequeueSurvivors
    <3>3. ASSUME NEW t \in recorded, Plain(t)', Top(t)'
          PROVE  VersionIsCurrent(t)
      <4>1. Plain(t) /\ Top(t) /\ t \in TaskIds /\ FileOf(t) \notin excused'
        BY <1>1, <1>2, <1>5, <3>2, <3>3, WasPlain
      <4>2. draft # <<FileOf(t), t>>
        BY <3>2, <4>1
      <4>3. t = cur[FileOf(t)] /\ work[t].ver = t
        BY <4>1, <4>2 DEF Top, OwnVersion
      <4> QED
        BY <4>3 DEF VersionIsCurrent
    <3> QED
      BY <1>4, <1>5, <1>7, <3>1, <3>2, <3>3
  <2> QED
    BY <1>7, <2>1, <2>2, <2>3, <2>4, <2>5, <2>6 DEF Next
<1> QED
  BY <1>6, <1>7

----------------------------------------------------------------------------
\* The theorems.

UploadInv ==
  /\ Base /\ LedgerRowHasWork
  /\ OwnVersion /\ RekeyExcused /\ Latest /\ InOrder /\ Outcome /\ Held

\* It holds at the start.
LEMMA UploadInit == ASSUME Init PROVE UploadInv
<1>1. Base
  BY InitBase
<1>2. LedgerRowHasWork /\ OwnVersion /\ RekeyExcused /\ Latest /\ Outcome /\ Held
  BY Nobody DEF Init, LedgerRowHasWork, OwnVersion, RekeyExcused, Latest, Outcome, Held, Plain
<1>3. InOrder
  BY Nobody DEF Init, InOrder, Sorted
<1> QED
  BY <1>1, <1>2, <1>3 DEF UploadInv

\* Every step keeps it.
LEMMA UploadStep == ASSUME UploadInv, [Next]_vars PROVE UploadInv'
BY StepBase, ServedStep, OwnStep, RekeyStep, LatestStep, OrderStep, OutcomeStep, HeldStep
   DEF UploadInv

\* It is an invariant.
LEMMA UploadInvariant == Spec => []UploadInv
<1>1. Init => UploadInv
  BY UploadInit
<1>2. UploadInv /\ [Next]_vars => UploadInv'
  BY UploadStep
<1> QED
  BY <1>1, <1>2, PTL DEF Spec

\* The state of the ledger, the history and recovery has its types.
THEOREM RecoveryTypes == Spec => []TypeOK
<1>1. UploadInv => TypeOK
  BY DEF UploadInv, Base
<1> QED
  BY <1>1, UploadInvariant, PTL

\* A ledger row always has an execution ahead of it, or recovery holds it.
THEOREM LedgerIsServed == Spec => []LedgerRowHasWork
<1>1. UploadInv => LedgerRowHasWork
  BY DEF UploadInv
<1> QED
  BY <1>1, UploadInvariant, PTL

\* An accepted upload that nobody retried and nothing tore is ingested, shown as
\* failed, or has an ingest coming.
LEMMA NothingIsLost ==
  ASSUME UploadInv
  PROVE  UntornUploadsSurvive
<1>1. ASSUME NEW f \in Files \ excused, Accepted(f)
      PROVE  Ingested(f) \/ ShownFailed(f) \/ Owed(f)
  <2>1. PICK t \in TaskIds : t \in recorded /\ t \in TasksFor(f) /\ work[t] = [file |-> f, ver |-> cur[f]]
    BY <1>1 DEF Accepted, TasksFor
  <2>2. FileOf(t) = f /\ work[t].ver = cur[f]
    BY <2>1 DEF FileOf
  <2>3. Plain(t)
    BY <1>1, <2>1, <2>2, AllKnown DEF UploadInv, Known, Plain
  <2>4. t = cur[f]
    BY <2>2, <2>3 DEF UploadInv, OwnVersion
  <2>5. t \in ToSet(ledger) \/ <<FileOf(t), t>> \in indexed \/ RowFailed(t)
    BY <2>1, <2>2, <2>3, <2>4 DEF UploadInv, Held, Top
  <2> QED
    BY <2>1, <2>2, <2>4, <2>5 DEF Ingested, ShownFailed, Owed, RowFailed
<1> QED
  BY <1>1 DEF UntornUploadsSurvive

\* The same in every state.
THEOREM UploadsAreOwed == Spec => []UntornUploadsSurvive
<1>1. UploadInv => UntornUploadsSurvive
  BY NothingIsLost
<1> QED
  BY <1>1, UploadInvariant, PTL

\* Once a start has queued what it recovered and no execution is under way, every
\* accepted upload that nobody retried and nothing tore has its answer: the file
\* is ingested or its failure is on show. What UploadsSettle says must come is
\* never missing where the system comes to rest.
UploadsAreAnswered ==
  up /\ survivors = <<>> /\ (\A t \in TaskIds : stage[t] \notin InFlight) =>
    \A f \in Files \ excused : Accepted(f) => Ingested(f) \/ ShownFailed(f)

\* At rest nothing is owed: a ledger row has work ahead of it, and there is none.
LEMMA RestSettles ==
  ASSUME UploadInv
  PROVE  UploadsAreAnswered
<1> SUFFICES ASSUME up, survivors = <<>>, \A t \in TaskIds : stage[t] \notin InFlight,
                    NEW f \in Files \ excused, Accepted(f)
             PROVE  Ingested(f) \/ ShownFailed(f)
  BY DEF UploadsAreAnswered
<1>1. Ingested(f) \/ ShownFailed(f) \/ Owed(f)
  BY NothingIsLost DEF UntornUploadsSurvive
<1>2. ToSet(survivors) = {}
  BY DEF ToSet
<1>3. \A t \in TaskIds : t \notin ToSet(ledger)
  BY <1>2 DEF UploadInv, LedgerRowHasWork
<1>4. ~ Owed(f)
  BY <1>3 DEF Owed, TasksFor
<1> QED
  BY <1>1, <1>4

\* The same in every state.
THEOREM EveryUploadIsAnswered == Spec => []UploadsAreAnswered
<1>1. UploadInv => UploadsAreAnswered
  BY RestSettles
<1> QED
  BY <1>1, UploadInvariant, PTL
=============================================================================
