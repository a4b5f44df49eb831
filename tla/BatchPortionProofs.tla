------------------------ MODULE BatchPortionProofs ------------------------
(***************************************************************************)
(* Proofs about BatchPortion, for any number of operations, any limits and *)
(* any finite set of completions.                                          *)
(*                                                                         *)
(* BookInv is the inductive invariant of the books.  A job's record is     *)
(* tied to where the job is in the batch and in its settlement (Staged),   *)
(* the class counts its records (ClassOK), the ledger counts the jobs      *)
(* (Ledgered), and the batch holds consecutive stretches of the input      *)
(* (Ordered, Phased, Ranged).  A step that writes the class state does so  *)
(* through Activated and Promoted, one job or a whole range or portion at  *)
(* a time: the folds are followed with a table of the values they pass     *)
(* through (TableOfSteps, TableReaches).                                   *)
(***************************************************************************)
EXTENDS BatchPortion, FiniteSetTheorems, SequenceTheorems, WellFoundedInduction, TLAPS

\* Every nonempty set of natural numbers has a least element.
LEMMA LeastNumber ==
  ASSUME NEW T \in SUBSET Nat, T # {}
  PROVE  \E m \in T : \A k \in T : m <= k
<1> DEFINE R == OpToRel(<, Nat)
<1>1. ASSUME NEW k \in Nat, NEW m \in Nat, k < m PROVE <<k, m>> \in R
  <2> DEFINE p == <<k, m>>
  <2>1. p \in Nat \X Nat /\ p[1] < p[2]
    BY <1>1
  <2> HIDE DEF p
  <2>2. p \in R
    BY <2>1 DEF OpToRel
  <2> QED
    BY <2>2 DEF p
<1>2. IsWellFoundedOn(R, Nat)
  BY NatLessThanWellFounded
<1> HIDE DEF R
<1>3. \E m \in T : \A k \in T : ~(<<k, m>> \in R)
  BY <1>2, WFMin
<1>4. PICK m \in T : \A k \in T : ~(<<k, m>> \in R)
  BY <1>3
<1>5. ASSUME NEW k \in T PROVE ~(k < m)
  BY <1>1, <1>4, <1>5
<1>6. \A k \in T : m <= k
  BY <1>5
<1> QED
  BY <1>6

\* The minimum of a nonempty set of numbers is one of them.
LEMMA MinIn ==
  ASSUME NEW S \in SUBSET Nat, S # {}
  PROVE  Min(S) \in S /\ \A x \in S : Min(S) <= x
<1>1. \E x \in S : \A y \in S : x =< y
  BY LeastNumber
<1> QED
  BY <1>1 DEF Min

\* The maximum of a nonempty set of numbers up to a bound is one of them.
LEMMA MaxIn ==
  ASSUME NEW k \in Int, NEW S \in SUBSET (1 .. k), S # {}
  PROVE  Max(S) \in S
<1> DEFINE gaps == {k - x : x \in S}
<1>0. ASSUME NEW x \in S PROVE k - x \in Nat
  <2>1. x \in 1 .. k
    OBVIOUS
  <2> QED
    BY <2>1
<1>1. gaps \in SUBSET Nat /\ gaps # {}
  BY <1>0
<1>2. PICK m \in gaps : \A y \in gaps : m <= y
  <2> HIDE DEF gaps
  <2> QED
    BY <1>1, LeastNumber
<1>3. PICK x \in S : m = k - x
  BY <1>2
<1>4. ASSUME NEW y \in S PROVE x >= y
  <2>1. k - x <= k - y
    BY <1>2, <1>3
  <2> QED
    BY <2>1
<1> QED
  BY <1>4 DEF Max

\* What a fold over the numbers 1 .. n is taken from: the value for a set of them
\* is a step, which may depend on the largest, from the value without it.
IsStepTable(h, step, V, g0, n) ==
  /\ h \in [SUBSET (1 .. n) -> V]
  /\ \A s \in SUBSET (1 .. n) : h[s] = IF s = {} THEN g0 ELSE step[Max(s)][h[s \ {Max(s)}]]

\* A set of numbers up to j + 1 holds j + 1, its maximum, or is a set up to j.
LEMMA LargestFirst ==
  ASSUME NEW j \in Nat, NEW s \in SUBSET (1 .. j + 1)
  PROVE  /\ j + 1 \in s => Max(s) = j + 1 /\ s \ {Max(s)} \in SUBSET (1 .. j)
         /\ j + 1 \notin s => s \in SUBSET (1 .. j)
         /\ s # {} => Max(s) \in s
<1>1. \A x \in s : x \in Int /\ x <= j + 1 /\ (x = j + 1 \/ x \in 1 .. j)
  OBVIOUS
<1>2. s # {} => Max(s) \in s
  <2> DEFINE k == j + 1
  <2>1. k \in Int /\ s \in SUBSET (1 .. k)
    OBVIOUS
  <2> HIDE DEF k
  <2> QED
    BY <2>1, MaxIn
<1>3. ASSUME j + 1 \in s PROVE Max(s) = j + 1
  <2>1. ASSUME NEW y \in s PROVE j + 1 >= y
    BY <1>1
  <2> DEFINE P(x) == x \in s /\ \A y \in s : x >= y
  <2>2. P(Max(s))
    <3>1. Max(s) = CHOOSE x : P(x)
      BY DEF Max
    <3>2. P(j + 1)
      BY <2>1, <1>3
    <3> HIDE DEF P
    <3> QED
      BY <3>1, <3>2
  <2>3. Max(s) \in s /\ Max(s) >= j + 1
    BY <2>2, <1>3
  <2>4. Max(s) \in Int /\ Max(s) <= j + 1
    BY <2>3, <1>1
  <2> QED
    BY <2>3, <2>4
<1> QED
  BY <1>1, <1>2, <1>3

\* There is such a table, whatever the steps and the first value are.
LEMMA TableOfSteps ==
  ASSUME NEW V, NEW g0 \in V, NEW n \in Nat, NEW step \in [1 .. n -> [V -> V]]
  PROVE  \E h : IsStepTable(h, step, V, g0, n)
<1> DEFINE Has(j) == \E h : IsStepTable(h, step, V, g0, j)
           Bad == {j \in 0 .. n : ~Has(j)}
<1>1. Has(0)
  <2> DEFINE h == [s \in SUBSET (1 .. 0) |-> g0]
  <2>1. \A s \in SUBSET (1 .. 0) : s = {}
    OBVIOUS
  <2>2. IsStepTable(h, step, V, g0, 0)
    BY <2>1 DEF IsStepTable
  <2> QED
    BY <2>2
<1>2. ASSUME NEW j \in 0 .. n - 1, Has(j) PROVE Has(j + 1)
  <2>1. PICK g : IsStepTable(g, step, V, g0, j)
    BY <1>2
  <2>2. /\ g \in [SUBSET (1 .. j) -> V] /\ step[j + 1] \in [V -> V] /\ j \in Nat
        /\ \A s \in SUBSET (1 .. j) : g[s] = IF s = {} THEN g0 ELSE step[Max(s)][g[s \ {Max(s)}]]
    <3>1. j + 1 \in 1 .. n /\ j \in Nat
      OBVIOUS
    <3> QED
      BY <2>1, <3>1 DEF IsStepTable
  <2> DEFINE h == [s \in SUBSET (1 .. j + 1) |->
                     IF j + 1 \in s THEN step[j + 1][g[s \ {j + 1}]] ELSE g[s]]
  <2>3. ASSUME NEW s \in SUBSET (1 .. j + 1)
        PROVE  h[s] \in V /\ h[s] = IF s = {} THEN g0 ELSE step[Max(s)][h[s \ {Max(s)}]]
    <3>1. CASE j + 1 \in s
      <4> DEFINE u == s \ {j + 1}
      <4>1. Max(s) = j + 1 /\ u \in SUBSET (1 .. j) /\ s # {}
        BY <3>1, <2>2, LargestFirst
      <4>2. g[u] \in V /\ h[s] = step[j + 1][g[u]]
        BY <3>1, <4>1, <2>2
      <4>3. u \in SUBSET (1 .. j + 1) /\ j + 1 \notin u
        BY <4>1
      <4>4. h[u] = g[u]
        BY <4>3
      <4> QED
        BY <4>1, <4>2, <4>4, <2>2
    <3>2. CASE j + 1 \notin s
      <4>1. s \in SUBSET (1 .. j)
        BY <3>2, <2>2, LargestFirst
      <4>2. h[s] = g[s] /\ g[s] \in V
        BY <3>2, <4>1, <2>2
      <4>3. CASE s = {}
        BY <4>2, <4>3, <4>1, <2>2
      <4>4. CASE s # {}
        <5> DEFINE u == s \ {Max(s)}
        <5>1. u \in SUBSET (1 .. j) /\ j + 1 \notin u /\ u \in SUBSET (1 .. j + 1)
          BY <4>1, <3>2
        <5>2. h[u] = g[u]
          BY <5>1
        <5>3. g[s] = step[Max(s)][g[u]]
          BY <4>1, <4>4, <2>2
        <5> QED
          BY <4>2, <4>4, <5>2, <5>3
      <4> QED
        BY <4>3, <4>4
    <3> QED
      BY <3>1, <3>2
  <2>4. h \in [SUBSET (1 .. j + 1) -> V]
    BY <2>3
  <2> HIDE DEF h
  <2>5. IsStepTable(h, step, V, g0, j + 1)
    BY <2>3, <2>4 DEF IsStepTable
  <2> QED
    BY <2>5
<1> HIDE DEF Has
<1>3. ASSUME Bad # {} PROVE FALSE
  <2>1. PICK m \in Bad : \A j \in Bad : m <= j
    <3>1. Bad \in SUBSET Nat
      OBVIOUS
    <3> HIDE DEF Bad
    <3> QED
      BY <1>3, <3>1, LeastNumber
  <2>2. m # 0
    BY <1>1
  <2>3. m - 1 \in 0 .. n - 1 /\ m - 1 \in 0 .. n /\ ~(m <= m - 1) /\ (m - 1) + 1 = m
    BY <2>2
  <2>4. Has(m - 1)
    BY <2>1, <2>3
  <2>5. Has(m)
    BY <2>3, <2>4, <1>2
  <2> QED
    BY <2>5
<1>4. Has(n)
  BY <1>3
<1> QED
  BY <1>4 DEF Has

\* What is true of the base, and of the value for 1 .. i if it was for 1 .. i - 1,
\* is true of the fold.
LEMMA TableReaches ==
  ASSUME NEW n \in Nat, NEW h, NEW good, h[{}] \in good[0],
         \A i \in 1 .. n : h[1 .. i - 1] \in good[i - 1] => h[1 .. i] \in good[i]
  PROVE  h[1 .. n] \in good[n]
<1> DEFINE Bad == {i \in 0 .. n : h[1 .. i] \notin good[i]}
<1>1. ASSUME Bad # {} PROVE FALSE
  <2>1. PICK m \in Bad : \A j \in Bad : m <= j
    <3>1. Bad \in SUBSET Nat
      OBVIOUS
    <3> HIDE DEF Bad
    <3> QED
      BY <1>1, <3>1, LeastNumber
  <2>2. 1 .. 0 = {}
    OBVIOUS
  <2>3. m # 0
    BY <2>2
  <2>4. m - 1 \in 0 .. n /\ m \in 1 .. n /\ ~(m <= m - 1)
    BY <2>3
  <2>5. h[1 .. m - 1] \in good[m - 1]
    BY <2>1, <2>4
  <2> QED
    BY <2>4, <2>5
<1> QED
  BY <1>1

\* The value for 1 .. i is a step from the one for 1 .. i - 1.
LEMMA PrefixStep ==
  ASSUME NEW i \in Nat, i # 0
  PROVE  1 .. i # {} /\ Max(1 .. i) = i /\ (1 .. i) \ {Max(1 .. i)} = 1 .. i - 1
<1> DEFINE j == i - 1
           s == 1 .. i
<1>1. j \in Nat /\ j + 1 = i /\ i \in 1 .. i
  OBVIOUS
<1>2. Max(s) = i
  <2>1. s \in SUBSET (1 .. j + 1) /\ j + 1 \in s
    BY <1>1
  <2> HIDE DEF s, j
  <2> QED
    BY <1>1, <2>1, LargestFirst
<1> QED
  BY <1>1, <1>2

-----------------------------------------------------------------------------
(* Sequences without repetition *)

\* The elements of a sequence, and when none is repeated.
LEMMA Elements ==
  ASSUME NEW A, NEW s \in Seq(A)
  PROVE  /\ Len(s) \in Nat /\ DOMAIN s = 1 .. Len(s)
         /\ ToSet(s) \subseteq A /\ (s = <<>> <=> ToSet(s) = {})
         /\ \A i \in 1 .. Len(s) : s[i] \in ToSet(s) /\ s[i] \in A
         /\ \A x \in ToSet(s) : \E i \in 1 .. Len(s) : s[i] = x
         /\ IsInjective(s) <=> \A i, j \in 1 .. Len(s) : s[i] = s[j] => i = j
<1>1. Len(s) \in Nat /\ s \in [1 .. Len(s) -> A] /\ DOMAIN s = 1 .. Len(s)
  BY LenProperties
<1>2. s = <<>> <=> Len(s) = 0
  BY <1>1, EmptySeq
<1>3. s = <<>> <=> ToSet(s) = {}
  <2>1. CASE Len(s) = 0
    BY <2>1, <1>1, <1>2 DEF ToSet
  <2>2. CASE Len(s) # 0
    <3>1. 1 \in DOMAIN s
      BY <2>2, <1>1
    <3>2. s[1] \in ToSet(s)
      BY <3>1 DEF ToSet
    <3> QED
      BY <3>2, <2>2, <1>2
  <2> QED
    BY <2>1, <2>2
<1>4. ToSet(s) \subseteq A
  BY <1>1 DEF ToSet
<1>5. IsInjective(s) <=> \A i, j \in 1 .. Len(s) : s[i] = s[j] => i = j
  BY <1>1 DEF IsInjective
<1> QED
  BY <1>1, <1>3, <1>4, <1>5 DEF ToSet

\* The empty sequence has no element.
LEMMA EmptyElements ==
  ToSet(<<>>) = {} /\ IsInjective(<<>>) /\ \A A : <<>> \in Seq(A)
<1>1. ToSet(<<>>) = {}
  BY EmptySeq, Elements
<1>2. IsInjective(<<>>)
  BY DEF IsInjective
<1> QED
  BY <1>1, <1>2

\* Append adds its element at the end.
LEMMA AppendElements ==
  ASSUME NEW A, NEW s \in Seq(A), NEW x \in A
  PROVE  /\ Append(s, x) \in Seq(A) /\ Append(s, x) # <<>>
         /\ Len(Append(s, x)) = Len(s) + 1
         /\ DOMAIN Append(s, x) = DOMAIN s \cup {Len(s) + 1}
         /\ \A i \in DOMAIN s : Append(s, x)[i] = s[i]
         /\ Append(s, x)[Len(s) + 1] = x
         /\ ToSet(Append(s, x)) = ToSet(s) \cup {x}
         /\ IsInjective(s) /\ x \notin ToSet(s) => IsInjective(Append(s, x))
<1> DEFINE t == Append(s, x)
<1>1. /\ t \in Seq(A) /\ t # <<>> /\ Len(t) = Len(s) + 1 /\ \A i \in 1 .. Len(s) : t[i] = s[i]
      /\ t[Len(s) + 1] = x
  BY AppendProperties
<1>2. Len(s) \in Nat /\ DOMAIN s = 1 .. Len(s) /\ DOMAIN t = 1 .. Len(s) + 1
  BY <1>1, LenProperties
<1>3. DOMAIN t = DOMAIN s \cup {Len(s) + 1} /\ Len(s) + 1 \notin DOMAIN s
  BY <1>2
<1> HIDE DEF t
<1>4. ToSet(t) = ToSet(s) \cup {x}
  BY <1>1, <1>2, <1>3 DEF ToSet
<1>5. ASSUME IsInjective(s), x \notin ToSet(s) PROVE IsInjective(t)
  <2> SUFFICES ASSUME NEW i \in DOMAIN t, NEW j \in DOMAIN t, t[i] = t[j], i # j PROVE FALSE
    BY DEF IsInjective
  <2>1. \A k \in DOMAIN s : t[k] = s[k] /\ s[k] # x
    BY <1>1, <1>2, <1>5 DEF ToSet
  <2>2. i \in DOMAIN s /\ j \in DOMAIN s
    BY <2>1, <1>1, <1>3
  <2> QED
    BY <2>1, <2>2, <1>5 DEF IsInjective
<1> QED
  BY <1>1, <1>2, <1>3, <1>4, <1>5 DEF t

\* A concatenation has the elements of both.
LEMMA ConcatElements ==
  ASSUME NEW A, NEW s \in Seq(A), NEW t \in Seq(A)
  PROVE  /\ s \o t \in Seq(A) /\ ToSet(s \o t) = ToSet(s) \cup ToSet(t)
         /\ IsInjective(s) /\ IsInjective(t) /\ ToSet(s) \cap ToSet(t) = {} => IsInjective(s \o t)
<1> DEFINE u == s \o t
<1>1. /\ u \in Seq(A) /\ Len(u) = Len(s) + Len(t)
      /\ \A i \in 1 .. Len(s) + Len(t) : u[i] = IF i <= Len(s) THEN s[i] ELSE t[i - Len(s)]
  BY ConcatProperties
<1>2. /\ Len(s) \in Nat /\ Len(t) \in Nat /\ DOMAIN s = 1 .. Len(s) /\ DOMAIN t = 1 .. Len(t)
      /\ DOMAIN u = 1 .. Len(s) + Len(t)
  BY <1>1, LenProperties
<1> HIDE DEF u
<1>3. \A i \in DOMAIN s : i \in DOMAIN u /\ u[i] = s[i]
  BY <1>1, <1>2
<1>4. ASSUME NEW i \in DOMAIN t PROVE Len(s) + i \in DOMAIN u /\ u[Len(s) + i] = t[i]
  <2>1. Len(s) + i \in 1 .. Len(s) + Len(t) /\ ~(Len(s) + i <= Len(s)) /\ (Len(s) + i) - Len(s) = i
    BY <1>2
  <2> QED
    BY <2>1, <1>1, <1>2
<1>5. ASSUME NEW i \in DOMAIN u
      PROVE  \/ i \in DOMAIN s /\ u[i] = s[i]
             \/ i - Len(s) \in DOMAIN t /\ u[i] = t[i - Len(s)] /\ i \in Int
  <2>1. CASE i <= Len(s)
    BY <2>1, <1>1, <1>2
  <2>2. CASE ~(i <= Len(s))
    BY <2>2, <1>1, <1>2
  <2> QED
    BY <2>1, <2>2
<1>6. ToSet(u) = ToSet(s) \cup ToSet(t)
  <2>1. ToSet(u) \subseteq ToSet(s) \cup ToSet(t)
    BY <1>5 DEF ToSet
  <2>2. ToSet(s) \subseteq ToSet(u)
    BY <1>3 DEF ToSet
  <2>3. ToSet(t) \subseteq ToSet(u)
    BY <1>4 DEF ToSet
  <2> QED
    BY <2>1, <2>2, <2>3
<1>7. ASSUME IsInjective(s), IsInjective(t), ToSet(s) \cap ToSet(t) = {} PROVE IsInjective(u)
  <2> SUFFICES ASSUME NEW i \in DOMAIN u, NEW j \in DOMAIN u, u[i] = u[j] PROVE i = j
    BY DEF IsInjective
  <2>1. \A k \in DOMAIN s, l \in DOMAIN t : s[k] # t[l]
    BY <1>7 DEF ToSet
  <2>2. CASE i \in DOMAIN s /\ u[i] = s[i]
    <3>1. j \in DOMAIN s /\ u[j] = s[j]
      BY <2>1, <2>2, <1>5
    <3> QED
      BY <2>2, <3>1, <1>7 DEF IsInjective
  <2>3. CASE i - Len(s) \in DOMAIN t /\ u[i] = t[i - Len(s)] /\ i \in Int
    <3>1. j - Len(s) \in DOMAIN t /\ u[j] = t[j - Len(s)] /\ j \in Int
      BY <2>1, <2>3, <1>5
    <3>2. i - Len(s) = j - Len(s)
      BY <2>3, <3>1, <1>7 DEF IsInjective
    <3> QED
      BY <2>3, <3>1, <3>2, <1>2
  <2> QED
    BY <2>2, <2>3, <1>5
<1> QED
  BY <1>1, <1>6, <1>7 DEF u

\* RemoveFirst takes an element out of a sequence without repetition.
LEMMA RemovedElements ==
  ASSUME NEW A, NEW s \in Seq(A), IsInjective(s), NEW x
  PROVE  /\ RemoveFirst(s, x) \in Seq(A) /\ IsInjective(RemoveFirst(s, x))
         /\ ToSet(RemoveFirst(s, x)) = ToSet(s) \ {x}
<1>0. /\ Len(s) \in Nat /\ DOMAIN s = 1 .. Len(s) /\ \A i, j \in 1 .. Len(s) : s[i] = s[j] => i = j
      /\ \A i \in 1 .. Len(s) : s[i] \in A
  BY Elements
<1>1. CASE ~\E i \in 1 .. Len(s) : s[i] = x
  <2>1. RemoveFirst(s, x) = s
    BY <1>1 DEF RemoveFirst
  <2>2. x \notin ToSet(s)
    BY <1>0, <1>1 DEF ToSet
  <2> QED
    BY <2>1, <2>2
<1>2. CASE \E i \in 1 .. Len(s) : s[i] = x
  <2> DEFINE I == {i \in 1 .. Len(s) : s[i] = x}
             p == Min(I)
             a == SubSeq(s, 1, p - 1)
             b == SubSeq(s, p + 1, Len(s))
  <2>1. RemoveFirst(s, x) = a \o b
    BY <1>2 DEF RemoveFirst, RemoveAt, SelectInSeq
  <2>2. p \in 1 .. Len(s) /\ s[p] = x
    <3>1. I \in SUBSET Nat /\ I # {}
      BY <1>2
    <3>2. p \in I
      BY <3>1, MinIn
    <3> QED
      BY <3>2
  <2> HIDE DEF p
  <2>3. p - 1 \in Nat /\ p + 1 \in Nat /\ p \in Nat /\ p <= Len(s)
    BY <2>2, <1>0
  <2>4. a \in Seq(A) /\ Len(a) = p - 1 /\ \A i \in 1 .. p - 1 : a[i] = s[i]
    BY <2>3, <1>0
  <2>5. b \in Seq(A) /\ Len(b) = Len(s) - p /\ \A i \in 1 .. Len(s) - p : b[i] = s[p + i]
    <3>1. p + 1 \in 1 .. Len(s) + 1 /\ Len(s) \in p .. Len(s)
      BY <2>3, <1>0
    <3> DEFINE m == p + 1
    <3>3. m \in Int /\ Len(s) \in Int /\ \A i \in m .. Len(s) : s[i] \in A
      BY <2>3, <1>0
    <3> HIDE DEF m
    <3>4. /\ SubSeq(s, m, Len(s)) \in Seq(A)
          /\ Len(SubSeq(s, m, Len(s))) = IF m <= Len(s) THEN Len(s) - m + 1 ELSE 0
          /\ \A i \in 1 .. Len(s) - m + 1 : SubSeq(s, m, Len(s))[i] = s[m + i - 1]
      BY <3>3, SubSeqProperties
    <3>5. b = SubSeq(s, m, Len(s))
      BY DEF m
    <3> HIDE DEF b
    <3>6. m = p + 1
      BY DEF m
    <3>7. Len(b) = Len(s) - p
      <4>1. CASE m <= Len(s)
        BY <4>1, <3>4, <3>5, <3>6, <2>3, <1>0
      <4>2. CASE ~(m <= Len(s))
        <5>1. Len(b) = 0
          BY <4>2, <3>4, <3>5
        <5>2. p = Len(s)
          <6>1. Len(s) \in Nat /\ p \in Nat /\ p <= Len(s) /\ ~(p + 1 <= Len(s))
            BY <4>2, <3>6, <2>3, <1>0
          <6> QED
            BY <6>1
        <5> QED
          BY <5>1, <5>2, <1>0
      <4> QED
        BY <4>1, <4>2
    <3>8. ASSUME NEW i \in 1 .. Len(s) - p PROVE b[i] = s[p + i]
      <4>1. i \in 1 .. Len(s) - m + 1 /\ m + i - 1 = p + i
        BY <3>6, <2>3, <1>0
      <4> QED
        BY <4>1, <3>4, <3>5
    <3> QED
      BY <3>4, <3>5, <3>7, <3>8
  <2>6. DOMAIN a = 1 .. p - 1 /\ DOMAIN b = 1 .. Len(s) - p
    BY <2>4, <2>5, LenProperties
  <2> HIDE DEF a, b
  <2>7. \A i \in DOMAIN a : i \in DOMAIN s /\ i # p /\ i < p /\ a[i] = s[i]
    BY <2>3, <2>4, <2>6, <1>0
  <2>8. \A i \in DOMAIN b : p + i \in DOMAIN s /\ p + i # p /\ p < p + i /\ i \in Nat /\ b[i] = s[p + i]
    BY <2>3, <2>5, <2>6, <1>0
  <2>9. IsInjective(a)
    BY <2>7, <1>0 DEF IsInjective
  <2>10. IsInjective(b)
    <3> SUFFICES ASSUME NEW i \in DOMAIN b, NEW j \in DOMAIN b, b[i] = b[j] PROVE i = j
      BY DEF IsInjective
    <3>1. p + i = p + j
      BY <2>8, <1>0
    <3> QED
      BY <3>1, <2>8, <2>3
  <2>11. ToSet(a) \cap ToSet(b) = {}
    <3> SUFFICES ASSUME NEW i \in DOMAIN a, NEW j \in DOMAIN b, a[i] = b[j] PROVE FALSE
      BY DEF ToSet
    <3>1. i = p + j
      BY <2>7, <2>8, <1>0
    <3> QED
      BY <3>1, <2>7, <2>8, <2>3
  <2>12. ToSet(a) \cup ToSet(b) = ToSet(s) \ {x}
    <3>1. ASSUME NEW i \in DOMAIN a PROVE a[i] \in ToSet(s) \ {x}
      BY <2>2, <2>7, <1>0 DEF ToSet
    <3>2. ASSUME NEW i \in DOMAIN b PROVE b[i] \in ToSet(s) \ {x}
      BY <2>2, <2>8, <1>0 DEF ToSet
    <3>3. ASSUME NEW i \in DOMAIN s, s[i] # x PROVE s[i] \in ToSet(a) \cup ToSet(b)
      <4>1. CASE i < p
        <5>1. i \in DOMAIN a /\ a[i] = s[i]
          BY <4>1, <2>3, <2>4, <2>6, <1>0
        <5> QED
          BY <5>1 DEF ToSet
      <4>2. CASE i > p
        <5>1. i - p \in DOMAIN b /\ p + (i - p) = i
          BY <4>2, <2>3, <2>6, <1>0
        <5>2. b[i - p] = s[i]
          BY <5>1, <2>8
        <5> QED
          BY <5>1, <5>2 DEF ToSet
      <4>3. i # p
        BY <3>3, <2>2
      <4> QED
        BY <4>1, <4>2, <4>3, <2>3, <1>0
    <3> QED
      BY <3>1, <3>2, <3>3 DEF ToSet
  <2>13. /\ a \o b \in Seq(A) /\ ToSet(a \o b) = ToSet(a) \cup ToSet(b) /\ IsInjective(a \o b)
    BY <2>4, <2>5, <2>9, <2>10, <2>11, ConcatElements
  <2> QED
    BY <2>1, <2>12, <2>13
<1> QED
  BY <1>1, <1>2
-----------------------------------------------------------------------------
(* The jobs in order, and stretches of them *)

From(b, n) == [i \in 1 .. n |-> b + i]

\* A stretch has the elements its bounds say, in order.
LEMMA FromElements ==
  ASSUME NEW b \in Nat, NEW n \in Nat
  PROVE  /\ From(b, n) \in Seq(Nat) /\ Len(From(b, n)) = n /\ DOMAIN From(b, n) = 1 .. n
         /\ ToSet(From(b, n)) = b + 1 .. b + n
         /\ From(b, n) = <<>> <=> n = 0
         /\ n > 0 => Head(From(b, n)) = b + 1
<1>1. From(b, n) \in [1 .. n -> Nat]
  BY DEF From
<1>2. From(b, n) \in Seq(Nat) /\ Len(From(b, n)) = n /\ DOMAIN From(b, n) = 1 .. n
  BY <1>1
<1>3. ToSet(From(b, n)) = b + 1 .. b + n
  <2>1. ASSUME NEW x \in b + 1 .. b + n PROVE \E i \in 1 .. n : x = b + i
    <3>1. x - b \in 1 .. n /\ x = b + (x - b)
      OBVIOUS
    <3> QED
      BY <3>1
  <2> QED
    BY <2>1, <1>2 DEF ToSet, From
<1>4. From(b, n) = <<>> <=> n = 0
  BY <1>2, EmptySeq
<1>5. n > 0 => Head(From(b, n)) = b + 1
  BY <1>2 DEF From
<1> QED
  BY <1>2, <1>3, <1>4, <1>5

\* A stretch is cut into two stretches.
LEMMA FromSplit ==
  ASSUME NEW b \in Nat, NEW n \in Nat, NEW k \in 0 .. n
  PROVE  /\ SubSeq(From(b, n), 1, k) = From(b, k)
         /\ SubSeq(From(b, n), k + 1, n) = From(b + k, n - k)
<1>1. /\ From(b, n) \in Seq(Nat) /\ Len(From(b, n)) = n
      /\ \A i \in 1 .. n : From(b, n)[i] = b + i
  BY FromElements DEF From
<1> DEFINE s == From(b, n)
<1> HIDE DEF s
<1>2. SubSeq(s, 1, k) = [i \in 1 .. k |-> s[i]]
  <2>1. SubSeq(s, 1, k) = [i \in 1 .. (1 + k - 1) |-> s[i + 1 - 1]]
    OBVIOUS
  <2> QED
    BY <2>1
<1>3. SubSeq(s, k + 1, n) = [i \in 1 .. n - k |-> s[k + i]]
  <2>1. SubSeq(s, k + 1, n) = [i \in 1 .. (1 + n - (k + 1)) |-> s[i + (k + 1) - 1]]
    OBVIOUS
  <2>2. 1 + n - (k + 1) = n - k /\ \A i \in 1 .. n - k : i + (k + 1) - 1 = k + i
    OBVIOUS
  <2> QED
    BY <2>1, <2>2
<1>4. \A i \in 1 .. k : s[i] = b + i
  BY <1>1 DEF s
<1>5. \A i \in 1 .. n - k : k + i \in 1 .. n /\ s[k + i] = (b + k) + i
  BY <1>1 DEF s
<1>6. [i \in 1 .. k |-> s[i]] = From(b, k)
  BY <1>4 DEF From
<1>7. [i \in 1 .. n - k |-> s[k + i]] = From(b + k, n - k)
  BY <1>5 DEF From
<1> QED
  BY <1>2, <1>3, <1>6, <1>7 DEF s

\* Two adjacent stretches make one.
LEMMA FromJoin ==
  ASSUME NEW b \in Nat, NEW n \in Nat, NEW k \in Nat
  PROVE  From(b, n) \o From(b + n, k) = From(b, n + k)
<1> DEFINE s == From(b, n)
           t == From(b + n, k)
           u == From(b, n + k)
<1>1. /\ s \in Seq(Nat) /\ Len(s) = n /\ \A i \in 1 .. n : s[i] = b + i
      /\ t \in Seq(Nat) /\ Len(t) = k /\ \A i \in 1 .. k : t[i] = b + n + i
      /\ u \in Seq(Nat) /\ Len(u) = n + k /\ \A i \in 1 .. n + k : u[i] = b + i
  <2>1. b + n \in Nat /\ n + k \in Nat
    OBVIOUS
  <2> QED
    BY <2>1, FromElements DEF From
<1> HIDE DEF s, t, u
<1>2. s \o t \in Seq(Nat) /\ Len(s \o t) = n + k
  BY <1>1, ConcatProperties
<1>3. ASSUME NEW i \in 1 .. n + k PROVE (s \o t)[i] = u[i]
  <2>1. (s \o t)[i] = IF i <= n THEN s[i] ELSE t[i - n]
    BY <1>1, ConcatProperties
  <2>2. CASE i <= n
    BY <2>1, <2>2, <1>1
  <2>3. CASE ~(i <= n)
    <3>1. i - n \in 1 .. k /\ b + n + (i - n) = b + i
      BY <2>3
    <3> QED
      BY <2>1, <2>3, <3>1, <1>1
  <2> QED
    BY <2>2, <2>3
<1>4. s \o t = u
  BY <1>1, <1>2, <1>3, SeqEqual
<1> QED
  BY <1>4 DEF s, t, u

-----------------------------------------------------------------------------
(* Types *)

Stages == {"Out", "Prepared", "Waiting", "Deferred", "Ready", "Running", "Finalizing", "Gone"}
LiveStages == {"Waiting", "Deferred", "Ready", "Running", "Finalizing"}
Statuses == {"Pending", "Succeeded", "Failed"}
Steps == {"idle", "deliver", "take", "activate", "detach", "single", "ready", "dispatch", "stop"}

\* Places of submit_batch: with nothing in hand, between commit and the keys of
\* the members, and while the portion is being attached.
Before == {"enter", "next", "charge", "done"}
Early == {"recover", "register"}
Attaching == {"tokens", "range", "install", "unused", "subscribe", "publish", "dispatch"}
Places == Before \cup Early \cup Attaching \cup {"commit"}

Record == [stage : Stages, pending : Int, failed : BOOLEAN, attaching : BOOLEAN,
           reserved : BOOLEAN, deferred : BOOLEAN, token : BOOLEAN, member : BOOLEAN,
           subs : SUBSET Signals]
Window == [deferred : Seq(Jobs), runnable : Int, attaching : Int]
Batch == [pc : Places, remaining : Seq(Jobs), prepared : Seq(Jobs), accepted : Seq(Jobs),
          portion : Seq(Jobs), todo : SUBSET (Jobs \cup Jobs \X Signals), reserve : Int,
          failure : {"None", "TooLarge", "Closed", "InvalidGroup", "Full"}]
Ledger == [records : Int, edges : Int, admissions : Int, slots : Int, members : Int]
Registration == [jobs : SUBSET Jobs, members : SUBSET Jobs, active : Int, delivered : BOOLEAN,
          installing : BOOLEAN, handle : BOOLEAN]
Activity == [step : Steps \ {"idle"}, id : Jobs, status : Statuses, jobs : SUBSET Jobs]
ClassRecord == [rec : [Jobs -> Record], window : Window, doomed : SUBSET Jobs]

TypeOK ==
  /\ options \in [prereqs : SUBSET Signals, successOnly : BOOLEAN]
  /\ phase \in {"Running", "Closed"} /\ abandoned \in BOOLEAN /\ sealed \in BOOLEAN
  /\ signal \in [Signals -> Statuses]
  /\ batch \in Batch
  /\ ledger \in Ledger
  /\ rec \in [Jobs -> Record]
  /\ window \in Window
  /\ range \in [Jobs -> Registration]
  /\ stored \subseteq Jobs \X Signals /\ owed \subseteq Jobs \X Signals
  /\ act \in [Threads -> {Idle} \cup Activity]
  /\ doomed \subseteq Jobs
  /\ settling \in [Jobs -> {"none", "token", "finish", "finalize", "dispatch"}]

-----------------------------------------------------------------------------
(* The books *)

\* The input in order: accepted, then prepared, then remaining; the portion is
\* what was accepted last.
Ordered ==
  LET a == Len(batch.accepted)
      p == Len(batch.prepared)
      m == Len(batch.portion)
  IN  /\ a + p <= N /\ m <= a
      /\ batch.accepted = From(0, a) /\ batch.prepared = From(a, p)
      /\ batch.remaining = From(a + p, N - (a + p)) /\ batch.portion = From(a - m, m)

\* What submit_batch has in hand where.
Phased ==
  LET p == Len(batch.prepared)
      m == Len(batch.portion)
  IN  /\ At("commit") => m = 0 /\ p > 0 /\ batch.reserve = p
      /\ At("recover") => batch.reserve = m + p /\ (m = 0 <=> batch.failure # "None")
      /\ At("register") => p = 0 /\ m > 0 /\ batch.reserve >= m
      /\ batch.pc \in Attaching => p = 0 /\ m > 0 /\ batch.reserve = 0
      /\ batch.pc \in Before => p = 0 /\ m = 0 /\ batch.reserve = 0

\* Where a job stands, according to its place in the batch and its settlement.
JobStaged(j) ==
  /\ j \notin Accepted \cup Prepared => rec[j] = NoRecord
  /\ j \in Prepared => rec[j] = [NewRecord EXCEPT !.stage = "Prepared"]
  /\ j \notin Accepted => settling[j] = "none"
  /\ j \in Accepted => Live(j) \/ rec[j].stage = "Gone"
  /\ rec[j].attaching <=> j \in Prepared \/ (j \in Portion /\ ~At("dispatch"))
  /\ rec[j].attaching => rec[j].stage \in {"Prepared", "Waiting", "Finalizing"}
  /\ rec[j].reserved <=> rec[j].attaching /\ Prereqs = {}
  /\ rec[j].member <=> Live(j) /\ ~(j \in Portion /\ batch.pc \in Early)
  /\ rec[j].deferred => rec[j].attaching /\ rec[j].stage = "Finalizing" /\ settling[j] = "none"
  /\ settling[j] \in {"token", "finish", "finalize"} => rec[j].stage = "Finalizing"
  /\ settling[j] = "finalize" => ~rec[j].attaching
  /\ settling[j] = "dispatch" => rec[j].stage = "Gone"
  /\ rec[j].stage = "Finalizing" => rec[j].deferred \/ settling[j] # "none"

Staged == \A j \in Jobs : JobStaged(j)

Readied(r) == {j \in Jobs : r[j].stage = "Ready"}
Backlog(r) == {j \in Jobs : r[j].stage = "Deferred"}
Placed(r) == {j \in Jobs : r[j].stage # "Prepared" /\ r[j].reserved}

\* The class state counts the records.
ClassOK(k) ==
  /\ k.window.runnable = Cardinality(Readied(k.rec))
  /\ k.window.attaching = Cardinality(Placed(k.rec))
  /\ ToSet(k.window.deferred) = Backlog(k.rec) /\ IsInjective(k.window.deferred)
  /\ k.window.runnable + k.window.attaching <= RunnableLimit

Members == {j \in Jobs : rec[j].member}

Ledgered ==
  /\ ledger.records = Cardinality(Prepared \cup Alive)
  /\ ledger.edges = ledger.records * Fanin
  /\ ledger.admissions = ledger.records + (IF At("charge") THEN Maximum ELSE 0)
  /\ ledger.members = Cardinality(Alive)
  /\ ledger.slots = Cardinality(Members) + batch.reserve
  /\ ledger.records <= RecordLimit /\ ledger.edges <= EdgeLimit

-----------------------------------------------------------------------------
\* What the sizes are.
LEMMA Constants ==
  /\ N \in Nat /\ N >= 2 /\ Quantum \in Nat \ {0} /\ RecordLimit \in Nat \ {0}
  /\ RunnableLimit \in Nat \ {0} /\ EdgeLimit \in Nat
  /\ IsFiniteSet(Signals) /\ Submitter \notin Signals /\ IsFiniteSet(Jobs)
<1>1. IsFiniteSet(1 .. N)
  <2>1. 1 \in Int /\ N \in Int
    BY Sizes
  <2> QED
    BY <2>1, FS_Interval
<1> QED
  BY <1>1, Sizes DEF Jobs

\* A set of jobs can be counted.
LEMMA FewJobs ==
  ASSUME NEW S \in SUBSET Jobs
  PROVE  IsFiniteSet(S) /\ Cardinality(S) \in Nat
BY Constants, FS_Subset, FS_CardinalityType

-----------------------------------------------------------------------------
(* Records, and the class state around them *)

\* All but the stage is the same.
Kept(x, y) ==
  /\ y.pending = x.pending /\ y.failed = x.failed /\ y.attaching = x.attaching
  /\ y.reserved = x.reserved /\ y.deferred = x.deferred /\ y.token = x.token
  /\ y.member = x.member /\ y.subs = x.subs

\* Setting the stage leaves the rest of a record.
LEMMA StageSet ==
  ASSUME NEW x \in Record, NEW st \in Stages
  PROVE  LET y == [x EXCEPT !.stage = st] IN y \in Record /\ y.stage = st /\ Kept(x, y)
BY DEF Record, Kept

\* The types of a record's fields.
LEMMA RecordFields ==
  ASSUME NEW x \in Record
  PROVE  /\ x.stage \in Stages /\ x.pending \in Int /\ x.failed \in BOOLEAN /\ x.attaching \in BOOLEAN
         /\ x.reserved \in BOOLEAN /\ x.deferred \in BOOLEAN /\ x.token \in BOOLEAN
         /\ x.member \in BOOLEAN /\ x.subs \in SUBSET Signals
BY DEF Record

\* The types of the class state's fields.
LEMMA ClassFields ==
  ASSUME NEW k \in ClassRecord
  PROVE  /\ k.rec \in [Jobs -> Record] /\ k.doomed \in SUBSET Jobs
         /\ k.window.deferred \in Seq(Jobs) /\ k.window.runnable \in Int /\ k.window.attaching \in Int
BY DEF ClassRecord, Window

\* Nobody starts after the cut, or against the policy of the batch.
Barred(x) == abandoned \/ (x.failed /\ options.successOnly)

ActivatedAs(k, j, q) ==
  /\ q \in ClassRecord
  /\ q.rec[j].stage # k.rec[j].stage => ~Barred(k.rec[j])
  /\ \A i \in Jobs \ {j} : q.rec[i] = k.rec[i]
  /\ Kept(k.rec[j], q.rec[j])
  /\ q.window.attaching = k.window.attaching
  /\ \/ /\ q.rec[j].stage = k.rec[j].stage /\ q.doomed = k.doomed \cup {j}
        /\ q.window.runnable = k.window.runnable /\ q.window.deferred = k.window.deferred
     \/ /\ q.rec[j].stage = "Ready" /\ q.doomed = k.doomed /\ HasRoom(k.window)
        /\ q.window.runnable = k.window.runnable + 1 /\ q.window.deferred = k.window.deferred
     \/ /\ q.rec[j].stage = "Deferred" /\ q.doomed = k.doomed /\ ~HasRoom(k.window)
        /\ q.window.runnable = k.window.runnable
        /\ q.window.deferred = Append(k.window.deferred, j)

\* Activated dooms the job, readies it or defers it.
LEMMA ActivatedForm ==
  ASSUME NEW k \in ClassRecord, NEW j \in Jobs
  PROVE  ActivatedAs(k, j, Activated(k, j))
<1> DEFINE q == Activated(k, j)
<1>0. /\ k.rec \in [Jobs -> Record] /\ k.doomed \in SUBSET Jobs /\ k.rec[j] \in Record
      /\ k.window.deferred \in Seq(Jobs) /\ k.window.runnable \in Int /\ k.window.attaching \in Int
      /\ k.window \in Window
  BY ClassFields DEF ClassRecord
<1>1. CASE abandoned \/ (k.rec[j].failed /\ options.successOnly)
  <2>1. q = [k EXCEPT !.doomed = @ \cup {j}]
    BY <1>1 DEF Activated
  <2>2. q.rec = k.rec /\ q.window = k.window /\ q.doomed = k.doomed \cup {j} /\ q \in ClassRecord
    BY <2>1, <1>0 DEF ClassRecord
  <2> QED
    BY <2>2 DEF ActivatedAs, Kept
<1>2. CASE ~(abandoned \/ (k.rec[j].failed /\ options.successOnly)) /\ HasRoom(k.window)
  <2>1. q = [k EXCEPT !.rec[j].stage = "Ready", !.window.runnable = @ + 1]
    BY <1>2 DEF Activated
  <2> DEFINE x == [k.rec[j] EXCEPT !.stage = "Ready"]
  <2>2. q.rec = [k.rec EXCEPT ![j] = x] /\ q.window = [k.window EXCEPT !.runnable = @ + 1] /\ q.doomed = k.doomed
        /\ q = [rec |-> q.rec, window |-> q.window, doomed |-> q.doomed]
    BY <2>1, <1>0 DEF ClassRecord
  <2>3. x \in Record /\ x.stage = "Ready" /\ Kept(k.rec[j], x)
    BY <1>0, StageSet DEF Stages
  <2> HIDE DEF x, q
  <2>4. q.rec \in [Jobs -> Record] /\ q.rec[j] = x /\ \A i \in Jobs \ {j} : q.rec[i] = k.rec[i]
    BY <2>2, <2>3, <1>0
  <2>5. q.window \in Window /\ q.window.runnable = k.window.runnable + 1
        /\ q.window.attaching = k.window.attaching /\ q.window.deferred = k.window.deferred
    BY <2>2, <1>0 DEF Window
  <2>6. q \in ClassRecord
    BY <2>2, <2>4, <2>5, <1>0 DEF ClassRecord
  <2>7. ActivatedAs(k, j, q)
    BY <1>2, <2>2, <2>3, <2>4, <2>5, <2>6 DEF ActivatedAs, Barred
  <2> QED
    BY <2>7 DEF q
<1>3. CASE ~(abandoned \/ (k.rec[j].failed /\ options.successOnly)) /\ ~HasRoom(k.window)
  <2>1. q = [k EXCEPT !.rec[j].stage = "Deferred", !.window.deferred = Append(@, j)]
    BY <1>3 DEF Activated
  <2> DEFINE x == [k.rec[j] EXCEPT !.stage = "Deferred"]
  <2>2. q.rec = [k.rec EXCEPT ![j] = x] /\ q.window = [k.window EXCEPT !.deferred = Append(@, j)] /\ q.doomed = k.doomed
        /\ q = [rec |-> q.rec, window |-> q.window, doomed |-> q.doomed]
    BY <2>1, <1>0 DEF ClassRecord
  <2>3. x \in Record /\ x.stage = "Deferred" /\ Kept(k.rec[j], x)
    BY <1>0, StageSet DEF Stages
  <2> HIDE DEF x, q
  <2>4. q.rec \in [Jobs -> Record] /\ q.rec[j] = x /\ \A i \in Jobs \ {j} : q.rec[i] = k.rec[i]
    BY <2>2, <2>3, <1>0
  <2>5. q.window \in Window /\ q.window.runnable = k.window.runnable
        /\ q.window.attaching = k.window.attaching /\ q.window.deferred = Append(k.window.deferred, j)
    <3>1. Append(k.window.deferred, j) \in Seq(Jobs)
      BY <1>0, AppendElements
    <3> QED
      BY <2>2, <3>1, <1>0 DEF Window
  <2>6. q \in ClassRecord
    BY <2>2, <2>4, <2>5, <1>0 DEF ClassRecord
  <2>7. ActivatedAs(k, j, q)
    BY <1>3, <2>2, <2>3, <2>4, <2>5, <2>6 DEF ActivatedAs, Barred
  <2> QED
    BY <2>7 DEF q
<1> QED
  BY <1>1, <1>2, <1>3

\* A waiting member that is activated is counted where it goes.
LEMMA ActivatedOK ==
  ASSUME NEW k \in ClassRecord, NEW j \in Jobs, ClassOK(k), k.rec[j].stage = "Waiting",
         NEW q, ActivatedAs(k, j, q)
  PROVE  ClassOK(q)
<1>0. /\ k.rec \in [Jobs -> Record] /\ q.rec \in [Jobs -> Record] /\ q \in ClassRecord
      /\ k.window.deferred \in Seq(Jobs) /\ k.window.runnable \in Int /\ k.window.attaching \in Int
      /\ RunnableLimit \in Nat
  BY ClassFields, Constants DEF ActivatedAs
<1>1. \A i \in Jobs \ {j} : q.rec[i] = k.rec[i]
  BY DEF ActivatedAs
<1>2. q.rec[j].reserved = k.rec[j].reserved /\ q.rec[j].stage # "Prepared"
  BY DEF ActivatedAs, Kept
<1>3. Placed(q.rec) = Placed(k.rec) /\ q.window.attaching = k.window.attaching
  BY <1>1, <1>2 DEF Placed, ActivatedAs
<1>4. IsFiniteSet(Readied(k.rec))
  BY FewJobs DEF Readied
<1>5. CASE q.rec[j].stage = k.rec[j].stage /\ q.window.runnable = k.window.runnable
           /\ q.window.deferred = k.window.deferred
  <2>1. Readied(q.rec) = Readied(k.rec) /\ Backlog(q.rec) = Backlog(k.rec)
    BY <1>1, <1>5 DEF Readied, Backlog
  <2> QED
    BY <1>3, <1>5, <2>1 DEF ClassOK
<1>6. CASE /\ q.rec[j].stage = "Ready" /\ HasRoom(k.window)
           /\ q.window.runnable = k.window.runnable + 1 /\ q.window.deferred = k.window.deferred
  <2>1. /\ Readied(q.rec) = Readied(k.rec) \cup {j} /\ j \notin Readied(k.rec)
        /\ Backlog(q.rec) = Backlog(k.rec)
    BY <1>1, <1>6 DEF Readied, Backlog
  <2>2. Cardinality(Readied(q.rec)) = k.window.runnable + 1
    BY <1>4, <2>1, FS_AddElement DEF ClassOK
  <2>3. q.window.runnable + q.window.attaching <= RunnableLimit
    BY <1>0, <1>3, <1>6 DEF HasRoom
  <2> QED
    BY <1>3, <1>6, <2>1, <2>2, <2>3 DEF ClassOK
<1>7. CASE /\ q.rec[j].stage = "Deferred" /\ q.window.runnable = k.window.runnable
           /\ q.window.deferred = Append(k.window.deferred, j)
  <2>1. /\ Readied(q.rec) = Readied(k.rec) /\ Backlog(q.rec) = Backlog(k.rec) \cup {j}
        /\ j \notin Backlog(k.rec)
    BY <1>1, <1>7 DEF Readied, Backlog
  <2>2. ToSet(q.window.deferred) = Backlog(q.rec) /\ IsInjective(q.window.deferred)
    BY <1>0, <1>7, <2>1, AppendElements DEF ClassOK
  <2> QED
    BY <1>3, <1>7, <2>1, <2>2 DEF ClassOK
<1> QED
  BY <1>5, <1>6, <1>7 DEF ActivatedAs

\* Promotion takes jobs from the head of the backlog to the ready ones.
PromotedAs(k, q) ==
  /\ q \in ClassRecord
  /\ \A i \in Jobs : Kept(k.rec[i], q.rec[i])
  /\ \A i \in Jobs : \/ q.rec[i].stage = k.rec[i].stage
                     \/ k.rec[i].stage = "Deferred" /\ q.rec[i].stage = "Ready"
  /\ q.window.attaching = k.window.attaching /\ q.doomed = k.doomed

\* Promoted moves jobs from the backlog to the room there is, keeps the
\* counts, and leaves room only when the backlog is empty.
LEMMA PromotedForm ==
  ASSUME NEW k \in ClassRecord, ClassOK(k)
  PROVE  /\ PromotedAs(k, Promoted(k)) /\ ClassOK(Promoted(k))
         /\ Promoted(k).window.deferred = <<>> \/ ~HasRoom(Promoted(k).window)
<1> DEFINE q == Promoted(k)
           d == k.window.deferred
           room == RunnableLimit - k.window.runnable - k.window.attaching
           n == IF room <= 0 THEN 0 ELSE Lesser(room, Len(d))
           head == SubSeq(d, 1, n)
           tail == SubSeq(d, n + 1, Len(d))
           chosen == ToSet(head)
<1>0. /\ k.rec \in [Jobs -> Record] /\ k.doomed \in SUBSET Jobs /\ k.window \in Window
      /\ d \in Seq(Jobs) /\ k.window.runnable \in Int /\ k.window.attaching \in Int
      /\ RunnableLimit \in Nat
  BY ClassFields, Constants DEF ClassRecord
<1>1. q = [k EXCEPT !.rec = [j \in Jobs |-> IF j \in chosen THEN [k.rec[j] EXCEPT !.stage = "Ready"]
                                                       ELSE k.rec[j]],
                    !.window.deferred = SubSeq(@, n + 1, Len(@)),
                    !.window.runnable = @ + n]
  BY DEF Promoted
<1>2. n \in Nat /\ n <= Len(d) /\ Len(d) \in Nat /\ room \in Int /\ (n = Len(d) \/ n >= room)
      /\ (n > 0 => n <= room)
  <2>1. Len(d) \in Nat /\ room \in Int
    BY <1>0, LenProperties
  <2> HIDE DEF d, room
  <2>2. CASE room <= 0
    BY <2>1, <2>2
  <2>3. CASE ~(room <= 0)
    BY <2>1, <2>3 DEF Lesser
  <2> QED
    BY <2>2, <2>3
<1>3. /\ q.rec = [j \in Jobs |-> IF j \in chosen THEN [k.rec[j] EXCEPT !.stage = "Ready"] ELSE k.rec[j]]
      /\ q.window = [k.window EXCEPT !.deferred = tail, !.runnable = @ + n] /\ q.doomed = k.doomed
      /\ q = [rec |-> q.rec, window |-> q.window, doomed |-> q.doomed]
  <2> HIDE DEF n, room, chosen
  <2> QED
    BY <1>1, <1>0 DEF ClassRecord, Window
<1> HIDE DEF q, n
<1>4. /\ Len(head) = n /\ head \in Seq(Jobs) /\ \A i \in 1 .. n : head[i] = d[i]
      /\ Len(tail) = Len(d) - n /\ tail \in Seq(Jobs) /\ \A i \in 1 .. Len(d) - n : tail[i] = d[n + i]
  <2> HIDE DEF d
  <2>1. n \in 0 .. Len(d) /\ \A i \in 1 .. Len(d) : d[i] \in Jobs
    BY <1>0, <1>2, Elements
  <2>2. head = [i \in 1 .. n |-> d[i]]
    BY <2>1, <1>2, <1>0
  <2>3. tail = [i \in 1 .. Len(d) - n |-> d[n + i]]
    <3>1. tail = [i \in 1 .. (1 + Len(d) - (n + 1)) |-> d[i + (n + 1) - 1]]
      BY <2>1, <1>2, <1>0
    <3>2. 1 + Len(d) - (n + 1) = Len(d) - n /\ \A i \in 1 .. Len(d) - n : i + (n + 1) - 1 = n + i
      BY <1>2
    <3> QED
      BY <3>1, <3>2
  <2> HIDE DEF head, tail
  <2>4. \A i \in 1 .. n : d[i] \in Jobs
    BY <2>1, <1>2
  <2>5. \A i \in 1 .. Len(d) - n : d[n + i] \in Jobs
    BY <2>1, <1>2
  <2>6. Len(d) - n \in Nat
    BY <1>2
  <2> QED
    BY <2>2, <2>3, <2>4, <2>5, <2>6, <1>2
<1>5. /\ DOMAIN head = 1 .. n /\ DOMAIN tail = 1 .. Len(d) - n /\ DOMAIN d = 1 .. Len(d)
      /\ \A i, j \in 1 .. Len(d) : d[i] = d[j] => i = j
  <2> HIDE DEF head, tail, d
  <2>1. IsInjective(d)
    BY DEF ClassOK, d
  <2> QED
    BY <1>0, <1>4, <2>1, Elements
<1> HIDE DEF head, tail, d
<1>6. chosen \subseteq ToSet(d) /\ ToSet(tail) = ToSet(d) \ chosen /\ IsInjective(tail) /\ IsInjective(head)
  <2>1. \A i \in 1 .. n : i \in 1 .. Len(d)
    BY <1>2
  <2>2. \A i \in 1 .. Len(d) - n : n + i \in 1 .. Len(d) /\ n + i \notin 1 .. n
    BY <1>2
  <2>3. \A i \in 1 .. Len(d) : i \in 1 .. n \/ (i - n \in 1 .. Len(d) - n /\ n + (i - n) = i)
    BY <1>2
  <2>4. chosen \subseteq ToSet(d)
    BY <1>4, <1>5, <2>1 DEF ToSet
  <2>5. ToSet(tail) \subseteq ToSet(d) \ chosen
    <3>1. ASSUME NEW i \in 1 .. Len(d) - n PROVE tail[i] \in ToSet(d) /\ tail[i] \notin chosen
      BY <1>4, <1>5, <2>1, <2>2 DEF ToSet
    <3> QED
      BY <3>1, <1>5 DEF ToSet
  <2>6. ToSet(d) \ chosen \subseteq ToSet(tail)
    <3>1. ASSUME NEW i \in 1 .. Len(d), d[i] \notin chosen PROVE d[i] \in ToSet(tail)
      <4>1. i \notin 1 .. n
        BY <1>4, <1>5, <3>1 DEF ToSet
      <4>2. i - n \in DOMAIN tail /\ tail[i - n] = d[i]
        BY <4>1, <2>3, <1>4, <1>5
      <4> QED
        BY <4>2 DEF ToSet
    <3> QED
      BY <3>1, <1>5 DEF ToSet
  <2>7. IsInjective(tail)
    <3>1. ASSUME NEW i \in 1 .. Len(d) - n, NEW j \in 1 .. Len(d) - n, tail[i] = tail[j] PROVE i = j
      <4>1. n + i = n + j
        BY <1>4, <1>5, <2>2, <3>1
      <4> QED
        BY <4>1, <1>2
    <3> QED
      BY <3>1, <1>5 DEF IsInjective
  <2>8. IsInjective(head)
    BY <1>4, <1>5, <2>1 DEF IsInjective
  <2> QED
    BY <2>4, <2>5, <2>6, <2>7, <2>8
<1>7. ToSet(d) = Backlog(k.rec)
  BY DEF ClassOK, d
<1>8. Cardinality(chosen) = n /\ IsFiniteSet(chosen)
  <2>1. head \in [1 .. n -> chosen]
    BY <1>4, <1>5 DEF ToSet
  <2>2. head \in Injection(1 .. n, chosen)
    BY <2>1, <1>6 DEF Injection
  <2>3. head \in Surjection(1 .. n, chosen)
    BY <2>1, <1>5 DEF Surjection, ToSet
  <2>4. head \in Bijection(1 .. n, chosen)
    BY <2>2, <2>3 DEF Bijection
  <2>5. IsFiniteSet(1 .. n) /\ Cardinality(1 .. n) = n
    <3>1. 1 \in Int /\ n \in Int
      BY <1>2
    <3>2. IsFiniteSet(1 .. n) /\ Cardinality(1 .. n) = IF 1 > n THEN 0 ELSE n - 1 + 1
      BY <3>1, FS_Interval
    <3> QED
      BY <3>2, <1>2
  <2>6. ExistsBijection(1 .. n, chosen)
    BY <2>4 DEF ExistsBijection
  <2> HIDE DEF chosen
  <2> QED
    BY <2>5, <2>6, FS_Bijection
<1> HIDE DEF chosen
<1>9. ASSUME NEW i \in Jobs
      PROVE  /\ q.rec[i] \in Record /\ Kept(k.rec[i], q.rec[i])
             /\ i \in chosen => q.rec[i].stage = "Ready" /\ k.rec[i].stage = "Deferred"
             /\ i \notin chosen => q.rec[i] = k.rec[i]
  <2>1. CASE i \in chosen
    <3> DEFINE x == k.rec[i]
               y == [x EXCEPT !.stage = "Ready"]
    <3>1. q.rec[i] = y
      BY <2>1, <1>3
    <3>2. x.stage = "Deferred"
      BY <2>1, <1>6, <1>7 DEF Backlog
    <3>3. x \in Record /\ "Ready" \in Stages
      BY <1>0 DEF Stages
    <3> HIDE DEF x
    <3>4. y \in Record /\ y.stage = "Ready" /\ Kept(x, y)
      BY <3>3, StageSet
    <3> QED
      BY <2>1, <3>1, <3>2, <3>4 DEF x
  <2>2. CASE i \notin chosen
    <3>1. q.rec[i] = k.rec[i]
      BY <2>2, <1>3
    <3> QED
      BY <2>2, <3>1, <1>0 DEF Kept
  <2> QED
    BY <2>1, <2>2
<1>10. /\ q.window \in Window /\ q.window.deferred = tail /\ q.window.runnable = k.window.runnable + n
       /\ q.window.attaching = k.window.attaching
  <2>1. k.window.runnable + n \in Int
    BY <1>0, <1>2
  <2> QED
    BY <1>0, <1>3, <1>4, <2>1 DEF Window
<1>11. q.rec \in [Jobs -> Record]
  BY <1>3, <1>9
<1>12. PromotedAs(k, q)
  BY <1>0, <1>3, <1>9, <1>10, <1>11 DEF PromotedAs, ClassRecord
<1>13. ClassOK(q)
  <2>1. Readied(q.rec) = Readied(k.rec) \cup chosen /\ Readied(k.rec) \cap chosen = {}
    <3>1. chosen \subseteq Jobs
      BY <1>6, <1>7 DEF Backlog
    <3> QED
      BY <1>9, <3>1 DEF Readied
  <2>2. Backlog(q.rec) = Backlog(k.rec) \ chosen
    BY <1>9 DEF Backlog
  <2>3. Placed(q.rec) = Placed(k.rec)
    BY <1>9 DEF Placed, Kept
  <2>4. Cardinality(Readied(q.rec)) = k.window.runnable + n
    <3>1. IsFiniteSet(Readied(k.rec)) /\ Cardinality(Readied(k.rec)) = k.window.runnable
      BY FewJobs DEF Readied, ClassOK
    <3>2. Cardinality(Readied(k.rec) \cap chosen) = 0
      BY <2>1, FS_EmptySet
    <3>3. Cardinality(Readied(k.rec) \cup chosen)
            = Cardinality(Readied(k.rec)) + Cardinality(chosen) - Cardinality(Readied(k.rec) \cap chosen)
      BY <1>8, <3>1, FS_Union
    <3> QED
      BY <1>0, <1>2, <1>8, <2>1, <3>1, <3>2, <3>3
  <2>5. q.window.runnable + q.window.attaching <= RunnableLimit
    <3>1. k.window.runnable + k.window.attaching <= RunnableLimit
      BY DEF ClassOK
    <3> QED
      BY <3>1, <1>0, <1>2, <1>10
  <2> QED
    BY <1>6, <1>7, <1>10, <2>2, <2>3, <2>4, <2>5 DEF ClassOK
<1>14. q.window.deferred = <<>> \/ ~HasRoom(q.window)
  <2>1. CASE n = Len(d)
    <3>1. Len(tail) = 0 /\ tail \in Seq(Jobs)
      BY <1>2, <1>4, <2>1
    <3> QED
      BY <3>1, <1>10, EmptySeq
  <2>2. CASE n >= room
    BY <2>2, <1>0, <1>2, <1>10 DEF HasRoom
  <2> QED
    BY <1>2, <2>1, <2>2
<1> QED
  BY <1>12, <1>13, <1>14 DEF q

-----------------------------------------------------------------------------
(* Folds over the class state *)

\* One delivery at a member: the record, and nothing else.
CountedAs(x, y, status) ==
  /\ y.pending = x.pending - 1 /\ y.failed = (x.failed \/ status = "Failed")
  /\ y.attaching = x.attaching /\ y.reserved = x.reserved /\ y.deferred = x.deferred
  /\ y.member = x.member /\ y.subs = x.subs

\* A delivery counts one prerequisite down.
LEMMA DeliveredForm ==
  ASSUME NEW x \in Record, NEW status
  PROVE  /\ Delivered(x, status) \in Record /\ Delivered(x, status).stage = x.stage
         /\ Delivered(x, status).token = x.token /\ CountedAs(x, Delivered(x, status), status)
<1> DEFINE y == Delivered(x, status)
<1>1. y = [x EXCEPT !.pending = @ - 1, !.failed = @ \/ status = "Failed"]
  BY DEF Delivered
<1>2. /\ x.pending - 1 \in Int /\ (x.failed \/ status = "Failed") \in BOOLEAN
  BY RecordFields
<1>3. y = [stage |-> x.stage, pending |-> x.pending - 1, failed |-> (x.failed \/ status = "Failed"),
           attaching |-> x.attaching, reserved |-> x.reserved, deferred |-> x.deferred,
           token |-> x.token, member |-> x.member, subs |-> x.subs]
  BY <1>1 DEF Record
<1> HIDE DEF y
<1>4. y \in Record
  BY <1>2, <1>3, RecordFields DEF Record
<1>5. y.stage = x.stage /\ y.token = x.token /\ CountedAs(x, y, status)
  BY <1>3 DEF CountedAs
<1> QED
  BY <1>4, <1>5 DEF y

\* The delivery of a range takes the member's token too.
Reaching(x, status) == [Delivered(x, status) EXCEPT !.token = FALSE]

DeliveredAs(x, y, status) == CountedAs(x, y, status) /\ y.token = FALSE

\* A delivery through the range takes the token as well.
LEMMA ReachingForm ==
  ASSUME NEW x \in Record, NEW status
  PROVE  /\ Reaching(x, status) \in Record /\ Reaching(x, status).stage = x.stage
         /\ DeliveredAs(x, Reaching(x, status), status)
<1> DEFINE z == Delivered(x, status)
           y == Reaching(x, status)
<1>1. z \in Record /\ z.stage = x.stage /\ CountedAs(x, z, status)
  BY DeliveredForm
<1>2. y = [z EXCEPT !.token = FALSE]
  BY DEF Reaching
<1> HIDE DEF y, z
<1>3. y \in Record /\ y.token = FALSE /\ y.stage = z.stage
  BY <1>1, <1>2 DEF Record
<1>4. CountedAs(x, y, status)
  BY <1>1, <1>2 DEF CountedAs, Record
<1> QED
  BY <1>1, <1>3, <1>4 DEF y, DeliveredAs

\* A class state with another record of one job.
WithRecord(k, j, y) == [k EXCEPT !.rec[j] = y]

ChangedAs(k, j, y, q) ==
  /\ q \in ClassRecord /\ q.window = k.window /\ q.doomed = k.doomed
  /\ q.rec[j] = y /\ \A i \in Jobs \ {j} : q.rec[i] = k.rec[i]

\* Writing one record of the class state.
LEMMA WithRecordForm ==
  ASSUME NEW k \in ClassRecord, NEW j \in Jobs, NEW y \in Record
  PROVE  ChangedAs(k, j, y, WithRecord(k, j, y))
<1> DEFINE q == WithRecord(k, j, y)
<1>1. q.window = k.window /\ q.doomed = k.doomed /\ q.rec = [k.rec EXCEPT ![j] = y]
      /\ q = [rec |-> q.rec, window |-> q.window, doomed |-> q.doomed]
  BY DEF WithRecord, ClassRecord
<1> HIDE DEF q
<1>2. k.rec \in [Jobs -> Record] /\ k.window \in Window /\ k.doomed \in SUBSET Jobs
  BY DEF ClassRecord
<1>3. q.rec \in [Jobs -> Record] /\ q.rec[j] = y /\ \A i \in Jobs \ {j} : q.rec[i] = k.rec[i]
  BY <1>1, <1>2
<1>4. q \in ClassRecord
  BY <1>1, <1>2, <1>3 DEF ClassRecord
<1> QED
  BY <1>1, <1>3, <1>4 DEF q, ChangedAs

\* The counts do not see a change of other fields than the stage and the place.
LEMMA UncountedOK ==
  ASSUME NEW k \in ClassRecord, NEW q \in ClassRecord, ClassOK(k), q.window = k.window,
         \A i \in Jobs : q.rec[i].stage = k.rec[i].stage /\ q.rec[i].reserved = k.rec[i].reserved
  PROVE  ClassOK(q)
<1>1. Readied(q.rec) = Readied(k.rec) /\ Backlog(q.rec) = Backlog(k.rec) /\ Placed(q.rec) = Placed(k.rec)
  BY DEF Readied, Backlog, Placed
<1> QED
  BY <1>1 DEF ClassOK

\* A member of a range that is reached by its delivery.
ReachOne(reached, status, k, j) ==
  LET next == [k EXCEPT !.rec[j] = [Delivered(@, status) EXCEPT !.token = FALSE]]
  IN  IF j \notin reached THEN k
      ELSE IF k.rec[j].attaching THEN next ELSE Activated(next, j)

\* What a reached member becomes: x before, y after.
ReachedAs(x, y, status, dooms) ==
  /\ DeliveredAs(x, y, status)
  /\ y.stage \in {"Waiting", "Ready", "Deferred"}
  /\ x.attaching => y.stage = "Waiting"
  /\ y.stage = "Waiting" /\ ~x.attaching => dooms
  /\ y.stage # "Waiting" => ~Barred(y)

\* The class state k after the deliveries at the members up to i.
ReachedUpTo(k0, reached, status, i) ==
  {k \in ClassRecord :
     /\ ClassOK(k)
     /\ \A j \in Jobs : j \notin reached \/ j > i => k.rec[j] = k0.rec[j]
     /\ \A j \in reached : j <= i => ReachedAs(k0.rec[j], k.rec[j], status, j \in k.doomed)}

\* One step of the activation of a range extends what was reached so far.
LEMMA ReachOneForm ==
  ASSUME NEW k0 \in ClassRecord, NEW reached \in SUBSET Jobs, NEW status, NEW i \in Jobs,
         \A j \in reached : k0.rec[j].stage = "Waiting",
         NEW k \in ReachedUpTo(k0, reached, status, i - 1)
  PROVE  ReachOne(reached, status, k, i) \in ReachedUpTo(k0, reached, status, i)
<1> DEFINE q == ReachOne(reached, status, k, i)
<1>0. /\ k \in ClassRecord /\ ClassOK(k)
      /\ \A j \in Jobs : j \notin reached \/ j > i - 1 => k.rec[j] = k0.rec[j]
      /\ \A j \in reached : j <= i - 1 => ReachedAs(k0.rec[j], k.rec[j], status, j \in k.doomed)
      /\ i \in Nat /\ \A j \in Jobs : j \in Nat
  BY DEF ReachedUpTo, Jobs
<1>1. CASE i \notin reached
  <2>1. q = k
    BY <1>1 DEF ReachOne
  <2>2. ASSUME NEW j \in Jobs, j > i PROVE j > i - 1
    BY <2>2 DEF Jobs
  <2>3. ASSUME NEW j \in reached, j <= i PROVE j <= i - 1
    <3>1. j # i /\ j \in Jobs
      BY <1>1
    <3>2. j \in Nat /\ i \in Nat
      BY <3>1 DEF Jobs
    <3> QED
      BY <2>3, <3>1, <3>2
  <2> QED
    BY <2>1, <2>2, <2>3, <1>0 DEF ReachedUpTo
<1>2. CASE i \in reached
  <2> DEFINE x == k0.rec[i]
             y == Reaching(x, status)
             next == WithRecord(k, i, y)
  <2>1. k.rec[i] = x /\ x \in Record /\ x.stage = "Waiting"
    BY <1>0, <1>2, ClassFields
  <2>2. q = IF x.attaching THEN next ELSE Activated(next, i)
    BY <1>2, <2>1, <1>0 DEF ReachOne, WithRecord, ClassRecord, Reaching
  <2>3. y \in Record /\ y.stage = "Waiting" /\ DeliveredAs(x, y, status)
    BY <2>1, ReachingForm
  <2> HIDE DEF y, x
  <2>4. /\ next \in ClassRecord /\ next.window = k.window /\ next.doomed = k.doomed
        /\ next.rec[i] = y /\ \A j \in Jobs \ {i} : next.rec[j] = k.rec[j]
    <3>1. k \in ClassRecord /\ y \in Record /\ i \in Jobs
      BY <1>0, <2>3
    <3>2. ChangedAs(k, i, y, next)
      BY <3>1, WithRecordForm
    <3> QED
      BY <3>2 DEF ChangedAs
  <2>5. y.reserved = x.reserved
    BY <2>3 DEF DeliveredAs, CountedAs
  <2>6. ClassOK(next)
    <3>1. \A j \in Jobs : next.rec[j].stage = k.rec[j].stage /\ next.rec[j].reserved = k.rec[j].reserved
      BY <2>1, <2>3, <2>4, <2>5
    <3> QED
      BY <1>0, <2>4, <3>1, UncountedOK
  <2> HIDE DEF next
  <2>7. /\ q \in ClassRecord /\ ClassOK(q) /\ k.doomed \subseteq q.doomed
        /\ \A j \in Jobs \ {i} : q.rec[j] = k.rec[j]
        /\ ReachedAs(x, q.rec[i], status, i \in q.doomed)
    <3>1. CASE x.attaching
      BY <3>1, <2>2, <2>3, <2>4, <2>6 DEF ReachedAs
    <3>2. CASE ~x.attaching
      <4>1. q = Activated(next, i)
        BY <2>2, <3>2
      <4>2. ActivatedAs(next, i, q)
        BY <4>1, <2>4, ActivatedForm
      <4>3. next.rec[i].stage = "Waiting"
        BY <2>3, <2>4
      <4> HIDE DEF q
      <4>4. ClassOK(q)
        BY <4>2, <4>3, <2>4, <2>6, ActivatedOK
      <4>5. DeliveredAs(x, q.rec[i], status)
        BY <4>2, <2>3, <2>4 DEF ActivatedAs, Kept, DeliveredAs, CountedAs
      <4>6. q \in ClassRecord /\ k.doomed \subseteq q.doomed /\ \A j \in Jobs \ {i} : q.rec[j] = k.rec[j]
        BY <4>2, <2>4 DEF ActivatedAs
      <4>7. /\ q.rec[i].stage \in {"Waiting", "Ready", "Deferred"}
            /\ q.rec[i].stage = "Waiting" => i \in q.doomed
        BY <4>2, <4>3 DEF ActivatedAs
      <4>8. q.rec[i].stage # "Waiting" => ~Barred(q.rec[i])
        BY <4>2, <4>3 DEF ActivatedAs, Kept, Barred
      <4> QED
        BY <3>2, <4>4, <4>5, <4>6, <4>7, <4>8 DEF ReachedAs
    <3> QED
      BY <3>1, <3>2
  <2> HIDE DEF q
  <2>8. ASSUME NEW j \in Jobs, j \notin reached \/ j > i PROVE q.rec[j] = k0.rec[j]
    <3>1. j # i /\ (j \notin reached \/ j > i - 1)
      BY <2>8, <1>0, <1>2
    <3> QED
      BY <3>1, <2>7, <1>0
  <2>9. ASSUME NEW j \in reached, j <= i PROVE ReachedAs(k0.rec[j], q.rec[j], status, j \in q.doomed)
    <3>1. CASE j = i
      BY <3>1, <2>7 DEF x
    <3>2. CASE j # i
      <4>1. j \in Jobs /\ j \in Nat /\ i \in Nat
        BY DEF Jobs
      <4>3. j <= i - 1
        BY <3>2, <2>9, <4>1
      <4>2. ReachedAs(k0.rec[j], k.rec[j], status, j \in k.doomed) /\ q.rec[j] = k.rec[j]
        BY <4>1, <4>3, <3>2, <2>7, <1>0
      <4> QED
        BY <4>2, <2>7 DEF ReachedAs
    <3> QED
      BY <3>1, <3>2
  <2>10. q \in ReachedUpTo(k0, reached, status, i)
    BY <2>7, <2>8, <2>9 DEF ReachedUpTo
  <2> QED
    BY <2>10 DEF q
<1> QED
  BY <1>1, <1>2

ReachTable(k, reached, status) ==
  CHOOSE h : h = [s \in SUBSET (DOMAIN [i \in Jobs |-> i]) |->
                    IF s = {} THEN k
                    ELSE ReachOne(reached, status, h[s \ {Max(s)}], [i \in Jobs |-> i][Max(s)])]

ReachFold(k, reached, status) == ReachTable(k, reached, status)[DOMAIN [i \in Jobs |-> i]]

\* ActivateRange writes what the fold over the jobs computes.
LEMMA ReachUnfold ==
  ASSUME NEW t, ActivateRange(t)
  PROVE  SetClass(ReachFold(Class, {j \in act[t].jobs : Reached(j)}, act[t].status))
BY DEF ActivateRange, FoldLeft, MapThenFoldSet, ReachTable, ReachOne, ReachFold

\* The fold reaches every job of the set, and keeps the counts.
LEMMA ReachFoldForm ==
  ASSUME NEW k0 \in ClassRecord, ClassOK(k0), NEW reached \in SUBSET Jobs, NEW status,
         \A j \in reached : k0.rec[j].stage = "Waiting"
  PROVE  ReachFold(k0, reached, status) \in ReachedUpTo(k0, reached, status, N)
<1> DEFINE V == ClassRecord
           D == DOMAIN [i \in Jobs |-> i]
           E(i) == [i_1 \in Jobs |-> i_1][i]
           Op(k, i) == ReachOne(reached, status, k, i)
           step == [i \in 1 .. N |-> [g \in V |-> Op(g, i)]]
           good == [i \in 0 .. N |-> ReachedUpTo(k0, reached, status, i)]
           T == ReachTable(k0, reached, status)
           F(h) == [s \in SUBSET D |-> IF s = {} THEN k0 ELSE Op(h[s \ {Max(s)}], E(Max(s)))]
<1>0. N \in Nat /\ Jobs = 1 .. N /\ D = 1 .. N
  BY Constants DEF Jobs
<1>1. T = CHOOSE h : h = F(h)
  BY DEF ReachTable
<1>2. ASSUME NEW i \in 1 .. N PROVE E(i) = i
  BY <1>0
<1>3. ASSUME NEW i \in 1 .. N, NEW g \in V PROVE Op(g, i) \in V
  <2>1. CASE i \notin reached
    BY <2>1 DEF ReachOne
  <2>2. CASE i \in reached
    <3> DEFINE y == Reaching(g.rec[i], status)
               next == WithRecord(g, i, y)
    <3>1. i \in Jobs /\ g.rec[i] \in Record
      BY <1>0, ClassFields
    <3>2. y \in Record
      BY <3>1, ReachingForm
    <3>3. Op(g, i) = IF g.rec[i].attaching THEN next ELSE Activated(next, i)
      BY <2>2, <3>1 DEF ReachOne, WithRecord, ClassRecord, Reaching
    <3> HIDE DEF y
    <3>4. next \in V
      BY <3>1, <3>2, WithRecordForm DEF ChangedAs
    <3> HIDE DEF next
    <3>5. Activated(next, i) \in V
      BY <3>1, <3>4, ActivatedForm DEF ActivatedAs
    <3> QED
      BY <3>3, <3>4, <3>5
  <2> QED
    BY <2>1, <2>2
<1>4. k0 \in V
  OBVIOUS
<1>5. step \in [1 .. N -> [V -> V]]
  BY <1>3
<1>6. ASSUME NEW i \in 1 .. N, NEW g \in good[i - 1] PROVE Op(g, i) \in good[i] /\ g \in V
  <2>1. i - 1 \in 0 .. N /\ i \in 0 .. N /\ i \in Jobs
    BY <1>0
  <2>2. g \in ReachedUpTo(k0, reached, status, i - 1)
    BY <2>1
  <2>3. Op(g, i) \in ReachedUpTo(k0, reached, status, i)
    BY <2>1, <2>2, ReachOneForm
  <2> QED
    BY <2>1, <2>2, <2>3 DEF ReachedUpTo
<1>7. k0 \in good[0]
  <2>1. \A j \in Jobs : ~(j <= 0)
    BY DEF Jobs
  <2>2. k0 \in ReachedUpTo(k0, reached, status, 0)
    BY <2>1 DEF ReachedUpTo
  <2> QED
    BY <2>2, <1>0
<1>8. good[N] = ReachedUpTo(k0, reached, status, N)
  BY <1>0
<1> HIDE DEF V, Op, E, good
<1>9. PICK h : IsStepTable(h, step, V, k0, N)
  <2> HIDE DEF step
  <2> QED
    BY <1>0, <1>4, <1>5, TableOfSteps
<1>10. h = F(h)
  <2>1. ASSUME NEW s \in SUBSET (1 .. N)
        PROVE  h[s] = IF s = {} THEN k0 ELSE Op(h[s \ {Max(s)}], E(Max(s)))
    <3>1. h \in [SUBSET (1 .. N) -> V] /\ h[s] = IF s = {} THEN k0 ELSE step[Max(s)][h[s \ {Max(s)}]]
      BY <1>9 DEF IsStepTable
    <3>2. CASE s = {}
      BY <3>1, <3>2
    <3>3. CASE s # {}
      <4>1. Max(s) \in 1 .. N
        <5>1. N \in Int /\ s \in SUBSET (1 .. N)
          BY <1>0
        <5>2. Max(s) \in s
          BY <3>3, <5>1, MaxIn
        <5> QED
          BY <5>1, <5>2
      <4>2. h[s \ {Max(s)}] \in V
        BY <3>1
      <4> QED
        BY <3>1, <3>3, <4>1, <4>2, <1>2
    <3> QED
      BY <3>2, <3>3
  <2> QED
    BY <2>1, <1>0, <1>9 DEF IsStepTable
<1>11. T = F(T)
  <2> HIDE DEF F, T
  <2> QED
    BY <1>1, <1>10
<1>12. T[{}] \in good[0]
  BY <1>7, <1>11
<1>13. ASSUME NEW i \in 1 .. N, T[1 .. i - 1] \in good[i - 1] PROVE T[1 .. i] \in good[i]
  <2>1. 1 .. i \in SUBSET D /\ i \in Nat /\ i # 0
    BY <1>0
  <2>2. 1 .. i # {} /\ Max(1 .. i) = i /\ (1 .. i) \ {Max(1 .. i)} = 1 .. i - 1
    BY <2>1, PrefixStep
  <2>3. T[1 .. i] = Op(T[1 .. i - 1], E(i))
    <3> HIDE DEF T, D
    <3> QED
      BY <2>1, <2>2, <1>11
  <2> QED
    BY <2>3, <1>2, <1>6, <1>13
<1>14. T[1 .. N] \in good[N]
  <2> HIDE DEF T
  <2> QED
    BY <1>0, <1>12, <1>13, TableReaches
<1> QED
  BY <1>0, <1>8, <1>14 DEF ReachFold

\* The record of a member whose attachment has ended.
Opened(x) == [x EXCEPT !.attaching = FALSE, !.reserved = FALSE, !.deferred = FALSE]

OpenedAs(x, y) ==
  /\ ~y.attaching /\ ~y.reserved /\ ~y.deferred
  /\ y.pending = x.pending /\ y.failed = x.failed /\ y.token = x.token
  /\ y.member = x.member /\ y.subs = x.subs

\* Publication clears the marks of the attachment.
LEMMA OpenedForm ==
  ASSUME NEW x \in Record
  PROVE  Opened(x) \in Record /\ Opened(x).stage = x.stage /\ OpenedAs(x, Opened(x))
BY DEF Record, Opened, OpenedAs

\* The class state after the attachment of j has ended: its place is free.
OpenedClass(k, j) ==
  [k EXCEPT !.rec[j].attaching = FALSE, !.rec[j].reserved = FALSE, !.rec[j].deferred = FALSE,
            !.window.attaching = IF k.rec[j].reserved THEN @ - 1 ELSE @]

OpenedClassAs(k, j, q) ==
  /\ q \in ClassRecord /\ q.doomed = k.doomed
  /\ q.window.runnable = k.window.runnable /\ q.window.deferred = k.window.deferred
  /\ q.window.attaching = IF k.rec[j].reserved THEN k.window.attaching - 1 ELSE k.window.attaching
  /\ q.rec[j] = Opened(k.rec[j]) /\ \A i \in Jobs \ {j} : q.rec[i] = k.rec[i]

\* Clearing them gives back the place that was held.
LEMMA OpenedClassForm ==
  ASSUME NEW k \in ClassRecord, NEW j \in Jobs
  PROVE  OpenedClassAs(k, j, OpenedClass(k, j))
<1> DEFINE q == OpenedClass(k, j)
           n == IF k.rec[j].reserved THEN k.window.attaching - 1 ELSE k.window.attaching
<1>0. /\ k.rec \in [Jobs -> Record] /\ k.window \in Window /\ k.doomed \in SUBSET Jobs
      /\ k.window.attaching \in Int
  BY ClassFields DEF ClassRecord
<1>1. n \in Int
  BY <1>0
<1>2. /\ q.rec = [k.rec EXCEPT ![j] = Opened(k.rec[j])]
      /\ q.window = [k.window EXCEPT !.attaching = n] /\ q.doomed = k.doomed
      /\ q = [rec |-> q.rec, window |-> q.window, doomed |-> q.doomed]
  <2> DEFINE x == k.rec[j]
             x1 == [x EXCEPT !.attaching = FALSE]
             x2 == [x1 EXCEPT !.reserved = FALSE]
             x3 == [x2 EXCEPT !.deferred = FALSE]
             r1 == [k.rec EXCEPT ![j] = x1]
             r2 == [r1 EXCEPT ![j] = x2]
             r3 == [r2 EXCEPT ![j] = x3]
             w == [k.window EXCEPT !.attaching = n]
  <2>1. x \in Record
    BY <1>0
  <2>2. q = [k EXCEPT !.rec = r3, !.window = w]
    <3>1. r1[j] = x1 /\ r2[j] = x2 /\ x = k.rec[j]
      BY <1>0
    <3>2. q = [[[[k EXCEPT !.rec[j].attaching = FALSE] EXCEPT !.rec[j].reserved = FALSE]
                 EXCEPT !.rec[j].deferred = FALSE] EXCEPT !.window.attaching = n]
      BY DEF OpenedClass, ClassRecord
    <3>3. [k EXCEPT !.rec[j].attaching = FALSE] = [k EXCEPT !.rec = r1]
      BY <1>0 DEF ClassRecord
    <3>4. [[k EXCEPT !.rec = r1] EXCEPT !.rec[j].reserved = FALSE] = [k EXCEPT !.rec = r2]
      BY <1>0, <3>1 DEF ClassRecord
    <3>5. [[k EXCEPT !.rec = r2] EXCEPT !.rec[j].deferred = FALSE] = [k EXCEPT !.rec = r3]
      BY <1>0, <3>1 DEF ClassRecord
    <3>6. [[k EXCEPT !.rec = r3] EXCEPT !.window.attaching = n] = [k EXCEPT !.rec = r3, !.window = w]
      BY <1>0 DEF ClassRecord
    <3> QED
      BY <3>2, <3>3, <3>4, <3>5, <3>6
  <2>3. x3 = Opened(x)
    BY <2>1 DEF Opened
  <2>4. r3 = [k.rec EXCEPT ![j] = x3]
    BY <1>0
  <2> HIDE DEF r3, w, q, x3
  <2>5. q.rec = r3 /\ q.window = w /\ q.doomed = k.doomed
        /\ q = [rec |-> q.rec, window |-> q.window, doomed |-> q.doomed]
    BY <2>2 DEF ClassRecord
  <2> QED
    BY <2>3, <2>4, <2>5 DEF w
<1> HIDE DEF q, n
<1>3. k.rec[j] \in Record
  BY <1>0
<1>4. Opened(k.rec[j]) \in Record
  BY <1>3, OpenedForm
<1>5. /\ q.rec \in [Jobs -> Record] /\ q.rec[j] = Opened(k.rec[j])
      /\ \A i \in Jobs \ {j} : q.rec[i] = k.rec[i]
  BY <1>0, <1>2, <1>4
<1>6. /\ q.window \in Window /\ q.window.attaching = n
      /\ q.window.runnable = k.window.runnable /\ q.window.deferred = k.window.deferred
  BY <1>0, <1>1, <1>2 DEF Window
<1>7. q \in ClassRecord
  BY <1>0, <1>2, <1>5, <1>6 DEF ClassRecord
<1> QED
  BY <1>2, <1>5, <1>6, <1>7 DEF OpenedClassAs, q, n

\* The counts agree with the records after that.
LEMMA OpenedClassOK ==
  ASSUME NEW k \in ClassRecord, NEW j \in Jobs, ClassOK(k), k.rec[j].stage # "Prepared",
         NEW q, OpenedClassAs(k, j, q)
  PROVE  ClassOK(q)
<1>0. /\ k.window.runnable \in Int /\ k.window.attaching \in Int /\ RunnableLimit \in Nat
      /\ k.rec[j] \in Record
  BY ClassFields, Constants
<1>1. /\ q.rec[j].stage = k.rec[j].stage /\ q.rec[j].reserved = FALSE
      /\ \A i \in Jobs \ {j} : q.rec[i] = k.rec[i]
  BY <1>0, OpenedForm DEF OpenedClassAs, OpenedAs
<1>2. Readied(q.rec) = Readied(k.rec) /\ Backlog(q.rec) = Backlog(k.rec)
  BY <1>1 DEF Readied, Backlog
<1>3. Placed(q.rec) = Placed(k.rec) \ {j}
  BY <1>1 DEF Placed
<1>4. IsFiniteSet(Placed(k.rec)) /\ Cardinality(Placed(k.rec)) \in Nat
  BY FewJobs DEF Placed
<1>5. k.rec[j].reserved <=> j \in Placed(k.rec)
  BY DEF Placed
<1>6. Cardinality(Placed(q.rec)) = q.window.attaching /\ q.window.attaching <= k.window.attaching
  <2>1. k.window.attaching = Cardinality(Placed(k.rec))
    BY DEF ClassOK
  <2>2. CASE j \in Placed(k.rec)
    <3>1. Cardinality(Placed(k.rec) \ {j}) = Cardinality(Placed(k.rec)) - 1
      BY <1>4, <2>2, FS_RemoveElement
    <3> QED
      BY <1>0, <1>3, <1>5, <2>1, <2>2, <3>1 DEF OpenedClassAs
  <2>3. CASE j \notin Placed(k.rec)
    <3>1. Placed(q.rec) = Placed(k.rec)
      BY <1>3, <2>3
    <3> QED
      BY <1>0, <1>5, <2>1, <2>3, <3>1 DEF OpenedClassAs
  <2> QED
    BY <2>2, <2>3
<1>7. q.window.runnable + q.window.attaching <= RunnableLimit
  <2>1. k.window.runnable + k.window.attaching <= RunnableLimit
    BY DEF ClassOK
  <2>2. q.window.attaching \in Int /\ q.window.runnable = k.window.runnable
    BY ClassFields DEF OpenedClassAs
  <2> QED
    BY <1>0, <1>6, <2>1, <2>2
<1> QED
  BY <1>2, <1>6, <1>7 DEF ClassOK, OpenedClassAs

\* Published opens a record, and activates it when nothing is left to wait for.
LEMMA PublishedForm ==
  ASSUME NEW k \in ClassRecord, NEW j \in Jobs
  PROVE  Published(k, j) = IF k.rec[j].deferred \/ k.rec[j].stage # "Waiting" \/ k.rec[j].pending # 0
                             THEN OpenedClass(k, j) ELSE Activated(OpenedClass(k, j), j)
BY DEF Published, OpenedClass

Completed(x) == x.stage = "Waiting" /\ x.pending = 0 /\ ~x.deferred

\* What a member becomes when it is published: x before, y after.
PublishedAs(x, y, dooms) ==
  /\ OpenedAs(x, y)
  /\ ~Completed(x) => y.stage = x.stage
  /\ Completed(x) => y.stage \in {"Waiting", "Ready", "Deferred"} /\ (y.stage = "Waiting" => dooms)
  /\ y.stage # x.stage => ~Barred(x)

\* The class state k after the first i members from b + 1 on are published.
PublishedUpTo(k0, b, i) ==
  {k \in ClassRecord :
     /\ ClassOK(k)
     /\ \A j \in Jobs : j <= b \/ j > b + i => k.rec[j] = k0.rec[j]
     /\ \A j \in Jobs : b < j /\ j <= b + i => PublishedAs(k0.rec[j], k.rec[j], j \in k.doomed)}

\* Published keeps the types of the class state.
LEMMA PublishedType ==
  ASSUME NEW k \in ClassRecord, NEW j \in Jobs
  PROVE  Published(k, j) \in ClassRecord
<1>1. OpenedClass(k, j) \in ClassRecord
  BY OpenedClassForm DEF OpenedClassAs
<1>2. Activated(OpenedClass(k, j), j) \in ClassRecord
  BY <1>1, ActivatedForm DEF ActivatedAs
<1> QED
  BY <1>1, <1>2, PublishedForm

\* One step of the publication of a portion extends what was published so far.
LEMMA PublishOneForm ==
  ASSUME NEW k0 \in ClassRecord, NEW b \in Nat, NEW i \in Nat, i # 0, b + i \in Jobs,
         k0.rec[b + i].stage # "Prepared",
         NEW k \in PublishedUpTo(k0, b, i - 1)
  PROVE  Published(k, b + i) \in PublishedUpTo(k0, b, i)
<1> DEFINE j == b + i
           x == k0.rec[j]
           next == OpenedClass(k, j)
           q == Published(k, j)
<1>0. /\ k \in ClassRecord /\ ClassOK(k)
      /\ \A l \in Jobs : l <= b \/ l > b + (i - 1) => k.rec[l] = k0.rec[l]
      /\ \A l \in Jobs : b < l /\ l <= b + (i - 1) => PublishedAs(k0.rec[l], k.rec[l], l \in k.doomed)
  BY DEF PublishedUpTo
<1>1. \A l \in Jobs : l \in Nat
  BY DEF Jobs
<1>2. j \in Jobs /\ j \in Nat /\ j > b + (i - 1)
  BY <1>1
<1>3. k.rec[j] = x /\ x \in Record /\ x.stage # "Prepared"
  BY <1>0, <1>2, ClassFields
<1>4. q = IF ~Completed(x) THEN next ELSE Activated(next, j)
  BY <1>0, <1>2, <1>3, PublishedForm DEF Completed
<1>5. j = b + i
  OBVIOUS
<1> HIDE DEF j, x
<1>6. OpenedClassAs(k, j, next)
  BY <1>0, <1>2, OpenedClassForm
<1>7. ClassOK(next)
  <2> HIDE DEF next
  <2> QED
    BY <1>0, <1>2, <1>3, <1>6, OpenedClassOK
<1> HIDE DEF next, q
<1>8. /\ next \in ClassRecord /\ next.doomed = k.doomed
      /\ \A l \in Jobs \ {j} : next.rec[l] = k.rec[l]
      /\ next.rec[j].stage = x.stage /\ OpenedAs(x, next.rec[j])
  BY <1>3, <1>6, OpenedForm DEF OpenedClassAs
<1>9. /\ q \in ClassRecord /\ ClassOK(q) /\ k.doomed \subseteq q.doomed
      /\ \A l \in Jobs \ {j} : q.rec[l] = k.rec[l]
      /\ PublishedAs(x, q.rec[j], j \in q.doomed)
  <2>1. CASE ~Completed(x)
    BY <2>1, <1>4, <1>7, <1>8 DEF PublishedAs
  <2>2. CASE Completed(x)
    <3>1. ActivatedAs(next, j, q)
      BY <2>2, <1>2, <1>4, <1>8, ActivatedForm
    <3>2. next.rec[j].stage = "Waiting"
      BY <2>2, <1>8 DEF Completed
    <3>3. ClassOK(q)
      BY <3>1, <3>2, <1>2, <1>7, <1>8, ActivatedOK
    <3>4. OpenedAs(x, q.rec[j])
      BY <3>1, <1>8 DEF ActivatedAs, Kept, OpenedAs
    <3>5. q \in ClassRecord /\ k.doomed \subseteq q.doomed /\ \A l \in Jobs \ {j} : q.rec[l] = k.rec[l]
      BY <3>1, <1>8 DEF ActivatedAs
    <3>6. /\ q.rec[j].stage \in {"Waiting", "Ready", "Deferred"}
          /\ q.rec[j].stage = "Waiting" => j \in q.doomed
      BY <3>1, <3>2 DEF ActivatedAs
    <3>7. q.rec[j].stage # x.stage => ~Barred(x)
      BY <3>1, <1>8 DEF ActivatedAs, OpenedAs, Barred
    <3> QED
      BY <2>2, <3>3, <3>4, <3>5, <3>6, <3>7 DEF PublishedAs
  <2> QED
    BY <2>1, <2>2
<1>10. ASSUME NEW l \in Jobs, l <= b \/ l > b + i PROVE q.rec[l] = k0.rec[l]
  <2>1. l \in Nat
    BY <1>1
  <2>2. l # j /\ (l <= b \/ l > b + (i - 1))
    BY <2>1, <1>5, <1>10
  <2> QED
    BY <2>2, <1>0, <1>9
<1>11. ASSUME NEW l \in Jobs, b < l, l <= b + i PROVE PublishedAs(k0.rec[l], q.rec[l], l \in q.doomed)
  <2>1. CASE l = j
    BY <2>1, <1>9 DEF x
  <2>2. CASE l # j
    <3>1. l \in Nat
      BY <1>1
    <3>2. l <= b + (i - 1)
      BY <3>1, <2>2, <1>5, <1>11
    <3>3. PublishedAs(k0.rec[l], k.rec[l], l \in k.doomed) /\ q.rec[l] = k.rec[l]
      BY <3>2, <2>2, <1>0, <1>9, <1>11
    <3> QED
      BY <3>3, <1>9 DEF PublishedAs
  <2> QED
    BY <2>1, <2>2
<1>12. q \in PublishedUpTo(k0, b, i)
  BY <1>9, <1>10, <1>11 DEF PublishedUpTo
<1> QED
  BY <1>12 DEF q, j

PublishTable(k, seq) ==
  CHOOSE h : h = [s \in SUBSET (DOMAIN seq) |->
                    IF s = {} THEN k ELSE Published(h[s \ {Max(s)}], seq[Max(s)])]

PublishFold(k, seq) == PublishTable(k, seq)[DOMAIN seq]

\* PublishPortion writes what the fold over the portion computes.
LEMMA PublishUnfold ==
  PublishPortion => SetClass(PublishFold(Class, batch.portion))
BY DEF PublishPortion, FoldLeft, MapThenFoldSet, PublishTable, PublishFold

\* The fold publishes every member of the portion, and keeps the counts.
LEMMA PublishFoldForm ==
  ASSUME NEW k0 \in ClassRecord, ClassOK(k0), NEW b \in Nat, NEW m \in Nat, b + m <= N,
         \A j \in Jobs : b < j /\ j <= b + m => k0.rec[j].stage # "Prepared"
  PROVE  PublishFold(k0, From(b, m)) \in PublishedUpTo(k0, b, m)
<1> DEFINE V == ClassRecord
           seq == From(b, m)
           D == DOMAIN seq
           Op(k, j) == Published(k, j)
           step == [i \in 1 .. m |-> [g \in V |-> Op(g, b + i)]]
           good == [i \in 0 .. m |-> PublishedUpTo(k0, b, i)]
           T == PublishTable(k0, seq)
           F(h) == [s \in SUBSET D |-> IF s = {} THEN k0 ELSE Op(h[s \ {Max(s)}], seq[Max(s)])]
<1>0. N \in Nat /\ D = 1 .. m
  BY Constants, FromElements
<1>1. T = CHOOSE h : h = F(h)
  BY DEF PublishTable
<1>2. ASSUME NEW i \in 1 .. m PROVE seq[i] = b + i /\ b + i \in Jobs
  <2>1. seq[i] = b + i
    BY DEF From
  <2>2. b + i \in 1 .. N
    BY <1>0
  <2> QED
    BY <2>1, <2>2 DEF Jobs
<1>3. ASSUME NEW i \in 1 .. m, NEW g \in V PROVE Op(g, b + i) \in V
  BY <1>2, PublishedType
<1>4. k0 \in V
  OBVIOUS
<1>5. step \in [1 .. m -> [V -> V]]
  BY <1>3
<1>6. ASSUME NEW i \in 1 .. m, NEW g \in good[i - 1] PROVE Op(g, b + i) \in good[i] /\ g \in V
  <2>1. i - 1 \in 0 .. m /\ i \in 0 .. m /\ i \in Nat /\ i # 0 /\ b < b + i /\ b + i <= b + m
    OBVIOUS
  <2>2. g \in PublishedUpTo(k0, b, i - 1)
    BY <2>1
  <2>3. k0.rec[b + i].stage # "Prepared" /\ b + i \in Jobs
    BY <2>1, <1>2
  <2>4. Op(g, b + i) \in PublishedUpTo(k0, b, i)
    BY <2>1, <2>2, <2>3, PublishOneForm
  <2> QED
    BY <2>1, <2>2, <2>4 DEF PublishedUpTo
<1>7. k0 \in good[0]
  <2>1. ASSUME NEW j \in Jobs PROVE ~(b < j /\ j <= b + 0)
    BY DEF Jobs
  <2>2. k0 \in PublishedUpTo(k0, b, 0)
    BY <2>1 DEF PublishedUpTo
  <2> QED
    BY <2>2
<1>8. good[m] = PublishedUpTo(k0, b, m)
  OBVIOUS
<1> HIDE DEF V, Op, seq, good
<1>9. PICK h : IsStepTable(h, step, V, k0, m)
  <2> HIDE DEF step
  <2> QED
    BY <1>4, <1>5, TableOfSteps
<1>10. h = F(h)
  <2>1. ASSUME NEW s \in SUBSET (1 .. m)
        PROVE  h[s] = IF s = {} THEN k0 ELSE Op(h[s \ {Max(s)}], seq[Max(s)])
    <3>1. h \in [SUBSET (1 .. m) -> V] /\ h[s] = IF s = {} THEN k0 ELSE step[Max(s)][h[s \ {Max(s)}]]
      BY <1>9 DEF IsStepTable
    <3>2. CASE s = {}
      BY <3>1, <3>2
    <3>3. CASE s # {}
      <4>1. Max(s) \in 1 .. m
        <5>1. m \in Int /\ s \in SUBSET (1 .. m)
          OBVIOUS
        <5>2. Max(s) \in s
          BY <3>3, <5>1, MaxIn
        <5> QED
          BY <5>1, <5>2
      <4>2. h[s \ {Max(s)}] \in V
        BY <3>1
      <4> QED
        BY <3>1, <3>3, <4>1, <4>2, <1>2
    <3> QED
      BY <3>2, <3>3
  <2> QED
    BY <2>1, <1>0, <1>9 DEF IsStepTable
<1>11. T = F(T)
  <2> HIDE DEF F, T
  <2> QED
    BY <1>1, <1>10
<1>12. T[{}] \in good[0]
  BY <1>7, <1>11
<1>13. ASSUME NEW i \in 1 .. m, T[1 .. i - 1] \in good[i - 1] PROVE T[1 .. i] \in good[i]
  <2>1. 1 .. i \in SUBSET D /\ i \in Nat /\ i # 0
    BY <1>0
  <2>2. 1 .. i # {} /\ Max(1 .. i) = i /\ (1 .. i) \ {Max(1 .. i)} = 1 .. i - 1
    BY <2>1, PrefixStep
  <2>3. T[1 .. i] = Op(T[1 .. i - 1], seq[i])
    <3> HIDE DEF T, D
    <3> QED
      BY <2>1, <2>2, <1>11
  <2> QED
    BY <2>3, <1>2, <1>6, <1>13
<1>14. T[1 .. m] \in good[m]
  <2> HIDE DEF T
  <2> QED
    BY <1>12, <1>13, TableReaches
<1> QED
  BY <1>0, <1>8, <1>14 DEF PublishFold, seq

-----------------------------------------------------------------------------
(* What the steps that write the class state do to it *)

\* The class state of a typed state.
LEMMA ClassTyped ==
  ASSUME TypeOK
  PROVE  /\ Class \in ClassRecord /\ Class.rec = rec /\ Class.window = window /\ Class.doomed = {}
         /\ rec \in [Jobs -> Record] /\ doomed \in SUBSET Jobs
BY DEF TypeOK, Class, ClassRecord

\* What the counts say of a class state they say of its records and window.
LEMMA ClassOf ==
  ASSUME NEW k, NEW q, ClassOK(k), q.rec = k.rec, q.window = k.window
  PROVE  ClassOK(q)
BY DEF ClassOK

\* What SetClass writes.
LEMMA SetClassOK ==
  ASSUME TypeOK, NEW k \in ClassRecord, SetClass(k)
  PROVE  /\ rec' = k.rec /\ window' = k.window /\ doomed' = doomed \cup k.doomed
         /\ rec' \in [Jobs -> Record] /\ window' \in Window /\ doomed' \in SUBSET Jobs
         /\ ClassOK(k) => ClassOK(Class')
<1>1. rec' = k.rec /\ window' = k.window /\ doomed' = doomed \cup k.doomed
  BY DEF SetClass
<1>2. rec' \in [Jobs -> Record] /\ window' \in Window /\ doomed' \in SUBSET Jobs
  BY <1>1, ClassTyped DEF ClassRecord
<1>3. Class'.rec = k.rec /\ Class'.window = k.window
  BY <1>1 DEF Class
<1> QED
  BY <1>1, <1>2, <1>3, ClassOf

\* The same job, or one promoted from the backlog.
Moved(x, y) ==
  Kept(x, y) /\ (y.stage = x.stage \/ (x.stage = "Deferred" /\ y.stage = "Ready"))

\* Rooms are filled: the backlog is empty or the window full.
Filled(w) == w.deferred = <<>> \/ ~HasRoom(w)

WrittenOK ==
  /\ rec' \in [Jobs -> Record] /\ window' \in Window /\ doomed' \in SUBSET Jobs
  /\ ClassOK(Class')

\* A dispatch promotes, and touches nothing else.
LEMMA DispatchEffect ==
  ASSUME TypeOK, ClassOK(Class), SetClass(Dispatched)
  PROVE  /\ WrittenOK /\ doomed' = doomed /\ \A i \in Jobs : Moved(rec[i], rec'[i])
         /\ abandoned \/ Filled(window')
<1>0. /\ Class \in ClassRecord /\ Class.rec = rec /\ Class.window = window /\ Class.doomed = {}
      /\ doomed \in SUBSET Jobs
  BY ClassTyped
<1>1. CASE abandoned
  <2>1. SetClass(Class)
    BY <1>1 DEF Dispatched
  <2>2. WrittenOK /\ rec' = rec /\ doomed' = doomed
    BY <1>0, <2>1, SetClassOK DEF WrittenOK
  <2> QED
    BY <1>1, <2>2 DEF Moved, Kept
<1>2. CASE ~abandoned
  <2> DEFINE q == Promoted(Class)
  <2>1. SetClass(q)
    BY <1>2 DEF Dispatched
  <2>2. PromotedAs(Class, q) /\ ClassOK(q) /\ (q.window.deferred = <<>> \/ ~HasRoom(q.window))
    BY <1>0, PromotedForm
  <2> HIDE DEF q
  <2>3. q \in ClassRecord /\ q.doomed = {}
    BY <1>0, <2>2 DEF PromotedAs
  <2>4. WrittenOK /\ rec' = q.rec /\ window' = q.window /\ doomed' = doomed
    BY <1>0, <2>1, <2>2, <2>3, SetClassOK DEF WrittenOK
  <2> QED
    BY <1>0, <2>2, <2>4 DEF PromotedAs, Moved, Filled
<1> QED
  BY <1>1, <1>2

\* One job leaves the waiting, the backlog or the ready ones.
Left(k, j, st) ==
  [k EXCEPT !.rec[j].stage = st, !.window.runnable = @ - 1]

\* A ready job that leaves gives its place to the backlog.
LEMMA LeftForm ==
  ASSUME NEW k \in ClassRecord, ClassOK(k), NEW j \in Jobs, k.rec[j].stage = "Ready",
         NEW st \in {"Running", "Finalizing"}
  PROVE  /\ Left(k, j, st) \in ClassRecord /\ ClassOK(Left(k, j, st))
         /\ Left(k, j, st).doomed = k.doomed
         /\ Left(k, j, st).rec[j].stage = st /\ Kept(k.rec[j], Left(k, j, st).rec[j])
         /\ \A i \in Jobs \ {j} : Left(k, j, st).rec[i] = k.rec[i]
<1> DEFINE q == Left(k, j, st)
           y == [k.rec[j] EXCEPT !.stage = st]
<1>0. /\ k.rec \in [Jobs -> Record] /\ k.window \in Window /\ k.doomed \in SUBSET Jobs
      /\ k.window.runnable \in Int /\ k.window.attaching \in Int /\ RunnableLimit \in Nat
      /\ k.rec[j] \in Record
  BY ClassFields, Constants DEF ClassRecord
<1>1. /\ q.rec = [k.rec EXCEPT ![j] = y] /\ q.window = [k.window EXCEPT !.runnable = @ - 1]
      /\ q.doomed = k.doomed /\ q = [rec |-> q.rec, window |-> q.window, doomed |-> q.doomed]
  <2> DEFINE r == [k.rec EXCEPT ![j] = y]
             w == [k.window EXCEPT !.runnable = @ - 1]
  <2>1. q = [[k EXCEPT !.rec[j].stage = st] EXCEPT !.window.runnable = @ - 1]
    BY DEF Left, ClassRecord
  <2>2. [k EXCEPT !.rec[j].stage = st] = [k EXCEPT !.rec = r]
    BY <1>0 DEF ClassRecord
  <2> HIDE DEF r, q
  <2>3. [[k EXCEPT !.rec = r] EXCEPT !.window.runnable = @ - 1]
          = [rec |-> r, window |-> w, doomed |-> k.doomed]
    <3> DEFINE g == [k EXCEPT !.rec = r]
    <3>1. g = [rec |-> r, window |-> k.window, doomed |-> k.doomed]
      BY DEF ClassRecord
    <3> HIDE DEF g
    <3>2. [g EXCEPT !.window.runnable = @ - 1] = [rec |-> r, window |-> w, doomed |-> k.doomed]
      BY <3>1
    <3> QED
      BY <3>2 DEF g
  <2> HIDE DEF w
  <2>4. q = [rec |-> r, window |-> w, doomed |-> k.doomed]
    BY <2>1, <2>2, <2>3
  <2>5. q.rec = r /\ q.window = w /\ q.doomed = k.doomed
    BY <2>4
  <2> QED
    BY <2>4, <2>5 DEF r, w
<1>2. y \in Record /\ y.stage = st /\ Kept(k.rec[j], y)
  <2>1. st \in Stages
    BY DEF Stages
  <2> QED
    BY <1>0, <2>1, StageSet
<1> HIDE DEF q, y
<1>3. /\ q.rec \in [Jobs -> Record] /\ q.rec[j] = y /\ \A i \in Jobs \ {j} : q.rec[i] = k.rec[i]
  BY <1>0, <1>1, <1>2
<1>4. /\ q.window \in Window /\ q.window.runnable = k.window.runnable - 1
      /\ q.window.attaching = k.window.attaching /\ q.window.deferred = k.window.deferred
  BY <1>0, <1>1 DEF Window
<1>5. q \in ClassRecord
  BY <1>0, <1>1, <1>3, <1>4 DEF ClassRecord
<1>6. ClassOK(q)
  <2>1. Readied(q.rec) = Readied(k.rec) \ {j} /\ j \in Readied(k.rec) /\ Backlog(q.rec) = Backlog(k.rec)
    BY <1>2, <1>3 DEF Readied, Backlog
  <2>2. Placed(q.rec) = Placed(k.rec)
    BY <1>2, <1>3 DEF Placed, Kept
  <2>3. IsFiniteSet(Readied(k.rec)) /\ Cardinality(Readied(k.rec)) = k.window.runnable
    BY FewJobs DEF Readied, ClassOK
  <2>4. Cardinality(Readied(q.rec)) = k.window.runnable - 1
    BY <2>1, <2>3, FS_RemoveElement
  <2>5. k.window.runnable + k.window.attaching <= RunnableLimit
    BY DEF ClassOK
  <2>6. q.window.runnable + q.window.attaching <= RunnableLimit
    BY <2>5, <1>0, <1>4
  <2> QED
    BY <2>1, <2>2, <2>4, <2>6, <1>4 DEF ClassOK
<1> QED
  BY <1>1, <1>2, <1>3, <1>5, <1>6 DEF q

\* Claim starts one job and promotes others.
LEMMA ClaimEffect ==
  ASSUME TypeOK, ClassOK(Class), NEW j \in Jobs, Claim(j)
  PROVE  /\ WrittenOK /\ doomed' = doomed /\ Filled(window')
         /\ rec[j].stage = "Ready" /\ rec'[j].stage = "Running" /\ Kept(rec[j], rec'[j])
         /\ \A i \in Jobs \ {j} : Moved(rec[i], rec'[i])
<1> DEFINE l == Left(Class, j, "Running")
           q == Promoted(l)
<1>0. /\ Class \in ClassRecord /\ Class.rec = rec /\ Class.window = window /\ Class.doomed = {}
      /\ doomed \in SUBSET Jobs
  BY ClassTyped
<1>1. rec[j].stage = "Ready" /\ SetClass(q)
  BY DEF Claim, Left
<1>2. /\ l \in ClassRecord /\ ClassOK(l) /\ l.doomed = {} /\ l.rec[j].stage = "Running"
      /\ Kept(rec[j], l.rec[j]) /\ \A i \in Jobs \ {j} : l.rec[i] = rec[i]
  BY <1>0, <1>1, LeftForm
<1> HIDE DEF l
<1>3. PromotedAs(l, q) /\ ClassOK(q) /\ (q.window.deferred = <<>> \/ ~HasRoom(q.window))
  BY <1>2, PromotedForm
<1> HIDE DEF q
<1>4. q \in ClassRecord /\ q.doomed = {}
  BY <1>2, <1>3 DEF PromotedAs
<1>5. WrittenOK /\ rec' = q.rec /\ window' = q.window /\ doomed' = doomed
  BY <1>0, <1>1, <1>3, <1>4, SetClassOK DEF WrittenOK
<1>6. Kept(rec[j], rec'[j]) /\ rec'[j].stage = "Running"
  BY <1>2, <1>3, <1>5 DEF PromotedAs, Kept
<1>7. \A i \in Jobs \ {j} : Moved(rec[i], rec'[i])
  BY <1>2, <1>3, <1>5 DEF PromotedAs, Moved
<1> QED
  BY <1>1, <1>3, <1>5, <1>6, <1>7 DEF Filled

\* A suppressed job's record: its token is taken and it is being settled.
SuppressedAs(x, y) ==
  /\ y.stage = "Finalizing" /\ y.token = FALSE
  /\ y.pending = x.pending /\ y.failed = x.failed /\ y.attaching = x.attaching
  /\ y.reserved = x.reserved /\ y.deferred = x.deferred /\ y.member = x.member /\ y.subs = x.subs

GoneFrom(k, j) ==
  [k EXCEPT !.rec[j].stage = "Finalizing", !.rec[j].token = FALSE,
            !.window.deferred = RemoveFirst(@, j)]

\* A suppressed job leaves the window and the backlog.
LEMMA GoneForm ==
  ASSUME NEW k \in ClassRecord, ClassOK(k), NEW j \in Jobs,
         k.rec[j].stage \in {"Waiting", "Deferred", "Ready"}
  PROVE  LET q == IF k.rec[j].stage = "Ready"
                    THEN [GoneFrom(k, j) EXCEPT !.window.runnable = @ - 1] ELSE GoneFrom(k, j)
         IN  /\ q \in ClassRecord /\ ClassOK(q) /\ q.doomed = k.doomed
             /\ SuppressedAs(k.rec[j], q.rec[j]) /\ \A i \in Jobs \ {j} : q.rec[i] = k.rec[i]
             /\ q.window.attaching = k.window.attaching
             /\ k.rec[j].stage # "Ready" => q.window.runnable = k.window.runnable
             /\ k.window.deferred = <<>> => q.window.deferred = <<>>
<1> DEFINE x == k.rec[j]
           y == [[x EXCEPT !.stage = "Finalizing"] EXCEPT !.token = FALSE]
           d == RemoveFirst(k.window.deferred, j)
           n == IF x.stage = "Ready" THEN k.window.runnable - 1 ELSE k.window.runnable
           w == [[k.window EXCEPT !.deferred = d] EXCEPT !.runnable = n]
           q == IF x.stage = "Ready"
                  THEN [GoneFrom(k, j) EXCEPT !.window.runnable = @ - 1] ELSE GoneFrom(k, j)
<1>0. /\ k.rec \in [Jobs -> Record] /\ k.window \in Window /\ k.doomed \in SUBSET Jobs
      /\ k.window.runnable \in Int /\ k.window.attaching \in Int /\ RunnableLimit \in Nat
      /\ k.window.deferred \in Seq(Jobs) /\ x \in Record
  BY ClassFields, Constants DEF ClassRecord
<1>1. GoneFrom(k, j) = [rec |-> [k.rec EXCEPT ![j] = y],
                        window |-> [k.window EXCEPT !.deferred = d], doomed |-> k.doomed]
  <2> DEFINE r1 == [k.rec EXCEPT ![j] = [x EXCEPT !.stage = "Finalizing"]]
             r2 == [r1 EXCEPT ![j] = y]
  <2>1. r1[j] = [x EXCEPT !.stage = "Finalizing"]
    BY <1>0
  <2>2. GoneFrom(k, j) = [[[k EXCEPT !.rec[j].stage = "Finalizing"] EXCEPT !.rec[j].token = FALSE]
                             EXCEPT !.window.deferred = d]
    BY DEF GoneFrom, ClassRecord
  <2>3. [k EXCEPT !.rec[j].stage = "Finalizing"] = [k EXCEPT !.rec = r1]
    BY <1>0 DEF ClassRecord
  <2>4. [[k EXCEPT !.rec = r1] EXCEPT !.rec[j].token = FALSE] = [k EXCEPT !.rec = r2]
    BY <1>0, <2>1 DEF ClassRecord
  <2>6. r2 = [k.rec EXCEPT ![j] = y]
    BY <1>0
  <2> HIDE DEF r2, d
  <2>5. [[k EXCEPT !.rec = r2] EXCEPT !.window.deferred = d]
          = [rec |-> r2, window |-> [k.window EXCEPT !.deferred = d], doomed |-> k.doomed]
    <3> DEFINE g == [k EXCEPT !.rec = r2]
    <3>1. g = [rec |-> r2, window |-> k.window, doomed |-> k.doomed]
      BY DEF ClassRecord
    <3> HIDE DEF g
    <3>2. [g EXCEPT !.window.deferred = d]
            = [rec |-> r2, window |-> [k.window EXCEPT !.deferred = d], doomed |-> k.doomed]
      BY <3>1
    <3> QED
      BY <3>2 DEF g
  <2> QED
    BY <2>2, <2>3, <2>4, <2>5, <2>6
<1>2. q = [rec |-> [k.rec EXCEPT ![j] = y], window |-> w, doomed |-> k.doomed]
  <2>1. CASE x.stage = "Ready"
    <3>1. q = [GoneFrom(k, j) EXCEPT !.window.runnable = @ - 1]
      BY <2>1
    <3>2. w = [[k.window EXCEPT !.deferred = d] EXCEPT !.runnable = @ - 1]
      BY <2>1, <1>0 DEF Window
    <3> DEFINE r == [k.rec EXCEPT ![j] = y]
               v == [k.window EXCEPT !.deferred = d]
               g == GoneFrom(k, j)
    <3> HIDE DEF r, v, g
    <3>3. g = [rec |-> r, window |-> v, doomed |-> k.doomed]
      BY <1>1 DEF r, v, g
    <3>4. [g EXCEPT !.window.runnable = @ - 1]
            = [rec |-> r, window |-> [v EXCEPT !.runnable = @ - 1], doomed |-> k.doomed]
      BY <3>3
    <3> HIDE DEF q, w
    <3> QED
      BY <3>1, <3>2, <3>4 DEF r, v, g
  <2>2. CASE x.stage # "Ready"
    <3>1. w = [k.window EXCEPT !.deferred = d]
      BY <2>2, <1>0 DEF Window
    <3> QED
      BY <2>2, <3>1, <1>1
  <2> QED
    BY <2>1, <2>2
<1>3. y \in Record /\ SuppressedAs(x, y)
  <2> HIDE DEF x
  <2> QED
    BY <1>0 DEF Record, Stages, SuppressedAs
<1>4. /\ d \in Seq(Jobs) /\ IsInjective(d) /\ ToSet(d) = ToSet(k.window.deferred) \ {j}
  BY <1>0, RemovedElements DEF ClassOK
<1>5. n \in Int
  BY <1>0
<1>6. w \in Window /\ w.deferred = d /\ w.runnable = n /\ w.attaching = k.window.attaching
  <2> HIDE DEF d, n
  <2> QED
    BY <1>0, <1>4, <1>5 DEF Window
<1> HIDE DEF q, y, w, d
<1>7. /\ q.window = w /\ q.doomed = k.doomed /\ q.rec = [k.rec EXCEPT ![j] = y]
  BY <1>2
<1>8. q.rec \in [Jobs -> Record] /\ q.rec[j] = y /\ \A i \in Jobs \ {j} : q.rec[i] = k.rec[i]
  BY <1>0, <1>3, <1>7
<1>9. q \in ClassRecord
  BY <1>0, <1>2, <1>6, <1>7, <1>8 DEF ClassRecord
<1>10. ClassOK(q)
  <2>1. Readied(q.rec) = Readied(k.rec) \ {j} /\ Backlog(q.rec) = Backlog(k.rec) \ {j}
    BY <1>3, <1>8 DEF Readied, Backlog, SuppressedAs
  <2>2. Placed(q.rec) = Placed(k.rec)
    BY <1>3, <1>8 DEF Placed, SuppressedAs
  <2>3. IsFiniteSet(Readied(k.rec)) /\ Cardinality(Readied(k.rec)) = k.window.runnable
    BY FewJobs DEF Readied, ClassOK
  <2>4. Cardinality(Readied(q.rec)) = n /\ n <= k.window.runnable
    <3>1. CASE x.stage = "Ready"
      <4>1. j \in Readied(k.rec)
        BY <3>1 DEF Readied
      <4> QED
        <5>1. Cardinality(Readied(k.rec) \ {j}) = Cardinality(Readied(k.rec)) - 1
          BY <2>3, <4>1, FS_RemoveElement
        <5>2. n = k.window.runnable - 1
          BY <3>1
        <5> HIDE DEF n
        <5> QED
          BY <2>1, <2>3, <5>1, <5>2, <1>0
    <3>2. CASE x.stage # "Ready"
      <4>1. Readied(q.rec) = Readied(k.rec)
        BY <2>1, <3>2 DEF Readied
      <4> QED
        BY <2>3, <3>2, <4>1, <1>0
    <3> QED
      BY <3>1, <3>2
  <2>5. k.window.runnable + k.window.attaching <= RunnableLimit
    BY DEF ClassOK
  <2>6. q.window.runnable + q.window.attaching <= RunnableLimit
    <3> HIDE DEF n
    <3> QED
      BY <2>4, <2>5, <1>0, <1>5, <1>6, <1>7
  <2>7. ToSet(k.window.deferred) = Backlog(k.rec) /\ k.window.attaching = Cardinality(Placed(k.rec))
    BY DEF ClassOK
  <2> QED
    BY <2>1, <2>2, <2>4, <2>6, <2>7, <1>4, <1>6, <1>7 DEF ClassOK
<1>11. k.window.deferred = <<>> => q.window.deferred = <<>>
  <2>1. k.window.deferred = <<>> => ToSet(d) = {}
    BY <1>4, EmptyElements
  <2> QED
    BY <2>1, <1>4, <1>6, <1>7, Elements
<1> QED
  BY <1>3, <1>6, <1>7, <1>8, <1>9, <1>10, <1>11 DEF q

Wins(j) == rec[j].stage \in {"Waiting", "Deferred", "Ready"}

\* Suppress settles the job, or finds it started or settled.
LEMMA SuppressEffect ==
  ASSUME TypeOK, ClassOK(Class), NEW j \in Jobs, Suppress(j)
  PROVE  /\ WrittenOK /\ doomed' = doomed \ {j}
         /\ Wins(j) => /\ SuppressedAs(rec[j], rec'[j])
                       /\ \A i \in Jobs \ {j} : Moved(rec[i], rec'[i])
                       /\ settling' = [settling EXCEPT ![j] = IF rec[j].token THEN "token" ELSE "finish"]
         /\ ~Wins(j) => rec' = rec /\ window' = window /\ settling' = settling
         /\ HasRoom(window') /\ window'.deferred # <<>> => HasRoom(window) /\ window.deferred # <<>>
<1>0. /\ Class \in ClassRecord /\ Class.rec = rec /\ Class.window = window /\ Class.doomed = {}
      /\ doomed \in SUBSET Jobs /\ rec \in [Jobs -> Record] /\ window \in Window
  BY ClassTyped DEF TypeOK
<1> DEFINE gone == GoneFrom(Class, j)
           left == IF rec[j].stage = "Ready" THEN [gone EXCEPT !.window.runnable = @ - 1] ELSE gone
           q == IF rec[j].stage = "Ready" THEN Promoted(left) ELSE left
<1>1. doomed' = doomed \ {j}
  BY DEF Suppress
<1>2. CASE ~Wins(j)
  <2>1. rec' = rec /\ window' = window /\ settling' = settling
    BY <1>2 DEF Suppress, Wins
  <2>2. ClassOK(Class')
    <3>1. Class'.rec = Class.rec /\ Class'.window = Class.window
      BY <2>1 DEF Class
    <3> QED
      BY <3>1, ClassOf
  <2> QED
    BY <1>0, <1>1, <1>2, <2>1, <2>2 DEF WrittenOK
<1>3. CASE Wins(j)
  <2>1. /\ rec' = q.rec /\ window' = q.window
        /\ settling' = [settling EXCEPT ![j] = IF rec[j].token THEN "token" ELSE "finish"]
    BY <1>3 DEF Suppress, Wins, GoneFrom
  <2>2. /\ left \in ClassRecord /\ ClassOK(left) /\ left.doomed = {}
        /\ SuppressedAs(rec[j], left.rec[j]) /\ \A i \in Jobs \ {j} : left.rec[i] = rec[i]
        /\ left.window.attaching = window.attaching
        /\ rec[j].stage # "Ready" => left.window.runnable = window.runnable
        /\ window.deferred = <<>> => left.window.deferred = <<>>
    <3> DEFINE k == Class
    <3>1. k \in ClassRecord /\ ClassOK(k) /\ k.rec[j].stage \in {"Waiting", "Deferred", "Ready"}
      BY <1>0, <1>3 DEF Wins
    <3>2. left = IF k.rec[j].stage = "Ready"
                   THEN [GoneFrom(k, j) EXCEPT !.window.runnable = @ - 1] ELSE GoneFrom(k, j)
      BY <1>0
    <3>3. k.rec = rec /\ k.window = window /\ k.doomed = {}
      BY <1>0
    <3> HIDE DEF k, left
    <3> DEFINE g == IF k.rec[j].stage = "Ready"
                      THEN [GoneFrom(k, j) EXCEPT !.window.runnable = @ - 1] ELSE GoneFrom(k, j)
    <3>4. /\ g \in ClassRecord /\ ClassOK(g) /\ g.doomed = k.doomed
          /\ SuppressedAs(k.rec[j], g.rec[j]) /\ \A i \in Jobs \ {j} : g.rec[i] = k.rec[i]
          /\ g.window.attaching = k.window.attaching
          /\ k.rec[j].stage # "Ready" => g.window.runnable = k.window.runnable
          /\ k.window.deferred = <<>> => g.window.deferred = <<>>
      BY <3>1, GoneForm
    <3> QED
      BY <3>2, <3>3, <3>4
  <2> HIDE DEF left
  <2>3. /\ q \in ClassRecord /\ ClassOK(q)
        /\ SuppressedAs(rec[j], q.rec[j]) /\ \A i \in Jobs \ {j} : Moved(rec[i], q.rec[i])
        /\ HasRoom(q.window) /\ q.window.deferred # <<>> => HasRoom(window) /\ window.deferred # <<>>
    <3>1. CASE rec[j].stage = "Ready"
      <4>1. q = Promoted(left)
        BY <3>1
      <4>2. PromotedAs(left, q) /\ ClassOK(q) /\ (q.window.deferred = <<>> \/ ~HasRoom(q.window))
        BY <2>2, <4>1, PromotedForm
      <4> HIDE DEF q
      <4>3. SuppressedAs(rec[j], q.rec[j])
        BY <2>2, <4>2 DEF PromotedAs, SuppressedAs, Kept
      <4>4. \A i \in Jobs \ {j} : Moved(rec[i], q.rec[i])
        BY <2>2, <4>2 DEF PromotedAs, Moved
      <4> QED
        BY <4>2, <4>3, <4>4 DEF PromotedAs
    <3>2. CASE rec[j].stage # "Ready"
      <4>1. q = left
        BY <3>2
      <4>2. \A i \in Jobs \ {j} : Moved(rec[i], left.rec[i])
        BY <2>2 DEF Moved, Kept
      <4>3. HasRoom(left.window) <=> HasRoom(window)
        BY <2>2, <3>2 DEF HasRoom
      <4> QED
        BY <2>2, <4>1, <4>2, <4>3
    <3> QED
      BY <3>1, <3>2
  <2> HIDE DEF q
  <2>4. WrittenOK
    <3>1. Class'.rec = q.rec /\ Class'.window = q.window
      BY <2>1 DEF Class
    <3>2. ClassOK(Class')
      BY <2>3, <3>1, ClassOf
    <3> QED
      BY <1>0, <1>1, <2>1, <2>3, <3>2 DEF WrittenOK, ClassRecord
  <2> QED
    BY <1>1, <1>3, <2>1, <2>3, <2>4
<1> QED
  BY <1>2, <1>3

\* ActivateReady decides about one job when its last prerequisite came.
LEMMA ReadyEffect ==
  ASSUME TypeOK, ClassOK(Class), NEW t \in Threads, act[t].id \in Jobs, ActivateReady(t)
  PROVE  LET j == act[t].id
             due == rec[j].stage = "Waiting" /\ rec[j].pending = 0 /\ ~rec[j].attaching
         IN  /\ WrittenOK /\ doomed \subseteq doomed'
             /\ \A i \in Jobs \ {j} : rec'[i] = rec[i]
             /\ Kept(rec[j], rec'[j])
             /\ ~due => rec' = rec /\ window' = window
             /\ due => /\ rec'[j].stage \in {"Waiting", "Ready", "Deferred"}
                       /\ rec'[j].stage = "Waiting" => j \in doomed'
                       /\ rec'[j].stage # "Waiting" => ~Barred(rec[j])
<1> DEFINE j == act[t].id
           due == rec[j].stage = "Waiting" /\ rec[j].pending = 0 /\ ~rec[j].attaching
           q == Activated(Class, j)
<1>0. /\ Class \in ClassRecord /\ Class.rec = rec /\ Class.window = window /\ Class.doomed = {}
      /\ doomed \in SUBSET Jobs
  BY ClassTyped
<1>1. CASE ~due
  <2>1. SetClass(Class)
    BY <1>1 DEF ActivateReady
  <2>2. WrittenOK /\ rec' = rec /\ window' = window /\ doomed' = doomed
    BY <1>0, <2>1, SetClassOK DEF WrittenOK
  <2> QED
    BY <1>1, <2>2 DEF Kept
<1>2. CASE due
  <2>1. SetClass(q)
    BY <1>2 DEF ActivateReady
  <2>2. ActivatedAs(Class, j, q)
    BY <1>0, ActivatedForm
  <2> HIDE DEF q
  <2>3. q \in ClassRecord
    BY <2>2 DEF ActivatedAs
  <2>4. ClassOK(q)
    BY <1>0, <1>2, <2>2, ActivatedOK
  <2>5. WrittenOK /\ rec' = q.rec /\ doomed' = doomed \cup q.doomed
    BY <2>1, <2>3, <2>4, SetClassOK DEF WrittenOK
  <2>6. /\ \A i \in Jobs \ {j} : rec'[i] = rec[i]
        /\ Kept(rec[j], rec'[j])
    BY <1>0, <2>2, <2>5 DEF ActivatedAs
  <2>7. /\ rec'[j].stage \in {"Waiting", "Ready", "Deferred"}
        /\ rec'[j].stage = "Waiting" => j \in doomed'
    BY <1>0, <1>2, <2>2, <2>5 DEF ActivatedAs
  <2>8. rec'[j].stage # "Waiting" => ~Barred(rec[j])
    BY <1>0, <1>2, <2>2, <2>5 DEF ActivatedAs
  <2> QED
    BY <1>2, <2>5, <2>6, <2>7, <2>8
<1> QED
  BY <1>1, <1>2

\* ActivateRange changes the jobs it reaches and no other.
LEMMA RangeEffect ==
  ASSUME TypeOK, ClassOK(Class), NEW t, act[t].jobs \in SUBSET Jobs, ActivateRange(t)
  PROVE  LET reached == {j \in act[t].jobs : Reached(j)}
         IN  /\ WrittenOK /\ doomed \subseteq doomed'
             /\ \A i \in Jobs \ reached : rec'[i] = rec[i]
             /\ \A i \in reached : ReachedAs(rec[i], rec'[i], act[t].status, i \in doomed')
<1> DEFINE reached == {j \in act[t].jobs : Reached(j)}
           status == act[t].status
           q == ReachFold(Class, reached, status)
<1>0. /\ Class \in ClassRecord /\ Class.rec = rec /\ Class.doomed = {}
  BY ClassTyped
<1>1. SetClass(q)
  BY ReachUnfold
<1>2. reached \in SUBSET Jobs /\ \A j \in reached : Class.rec[j].stage = "Waiting"
  BY <1>0 DEF Reached
<1> HIDE DEF reached, status
<1>3. q \in ReachedUpTo(Class, reached, status, N)
  BY <1>0, <1>2, ReachFoldForm
<1> HIDE DEF q
<1>4. \A j \in Jobs : j <= N
  BY Constants DEF Jobs
<1>5. /\ q \in ClassRecord /\ ClassOK(q)
      /\ \A j \in Jobs \ reached : q.rec[j] = rec[j]
      /\ \A j \in reached : ReachedAs(rec[j], q.rec[j], status, j \in q.doomed)
  BY <1>0, <1>2, <1>3, <1>4 DEF ReachedUpTo
<1>6. WrittenOK /\ rec' = q.rec /\ doomed' = doomed \cup q.doomed
  BY <1>1, <1>5, SetClassOK DEF WrittenOK
<1>7. \A j \in reached : ReachedAs(rec[j], rec'[j], status, j \in doomed')
  BY <1>5, <1>6 DEF ReachedAs
<1> QED
  BY <1>5, <1>6, <1>7 DEF reached, status

\* PublishPortion changes the members of the portion and no other.
LEMMA PublishEffect ==
  ASSUME TypeOK, ClassOK(Class), NEW b \in Nat, NEW m \in Nat, b + m <= N,
         batch.portion = From(b, m), \A j \in Portion : rec[j].stage # "Prepared",
         PublishPortion
  PROVE  /\ WrittenOK /\ doomed \subseteq doomed'
         /\ \A j \in Jobs \ Portion : rec'[j] = rec[j]
         /\ \A j \in Portion : PublishedAs(rec[j], rec'[j], j \in doomed')
<1> DEFINE q == PublishFold(Class, From(b, m))
<1>0. /\ Class \in ClassRecord /\ Class.rec = rec /\ Class.doomed = {}
  BY ClassTyped
<1>1. SetClass(q)
  BY PublishUnfold
<1>2. Portion = b + 1 .. b + m
  <2>1. ToSet(From(b, m)) = b + 1 .. b + m
    BY FromElements
  <2> QED
    BY <2>1 DEF Portion
<1>3. \A j \in Jobs : j \in Int
  BY DEF Jobs
<1>4. \A j \in Jobs : b < j /\ j <= b + m <=> j \in Portion
  BY <1>2, <1>3
<1>5. \A j \in Jobs : b < j /\ j <= b + m => Class.rec[j].stage # "Prepared"
  BY <1>0, <1>4
<1>6. q \in PublishedUpTo(Class, b, m)
  BY <1>0, <1>5, PublishFoldForm
<1> HIDE DEF q
<1>7. \A j \in Jobs : j \notin Portion => j <= b \/ j > b + m
  BY <1>2, <1>3
<1>8. Portion \subseteq Jobs
  BY <1>2, Constants DEF Jobs
<1>9. /\ q \in ClassRecord /\ ClassOK(q)
      /\ \A j \in Jobs \ Portion : q.rec[j] = rec[j]
      /\ \A j \in Portion : PublishedAs(rec[j], q.rec[j], j \in q.doomed)
  BY <1>0, <1>4, <1>6, <1>7, <1>8 DEF PublishedUpTo
<1>10. WrittenOK /\ rec' = q.rec /\ doomed' = doomed \cup q.doomed
  BY <1>1, <1>9, SetClassOK DEF WrittenOK
<1>11. \A j \in Portion : PublishedAs(rec[j], rec'[j], j \in doomed')
  BY <1>9, <1>10 DEF PublishedAs
<1> QED
  BY <1>9, <1>10, <1>11

-----------------------------------------------------------------------------
(* Places in the batch *)

\* The places of the input, of what is prepared and of what is accepted.
LEMMA Stretches ==
  TypeOK /\ Ordered =>
    /\ Len(batch.accepted) \in Nat /\ Len(batch.prepared) \in Nat /\ Len(batch.portion) \in Nat
    /\ Accepted = 1 .. Len(batch.accepted)
    /\ Prepared = Len(batch.accepted) + 1 .. Len(batch.accepted) + Len(batch.prepared)
    /\ Portion = Len(batch.accepted) - Len(batch.portion) + 1 .. Len(batch.accepted)
    /\ Len(batch.remaining) = N - (Len(batch.accepted) + Len(batch.prepared))
<1> SUFFICES ASSUME TypeOK, Ordered
             PROVE  /\ Len(batch.accepted) \in Nat /\ Len(batch.prepared) \in Nat
                    /\ Len(batch.portion) \in Nat
                    /\ Accepted = 1 .. Len(batch.accepted)
                    /\ Prepared = Len(batch.accepted) + 1 .. Len(batch.accepted) + Len(batch.prepared)
                    /\ Portion = Len(batch.accepted) - Len(batch.portion) + 1 .. Len(batch.accepted)
                    /\ Len(batch.remaining) = N - (Len(batch.accepted) + Len(batch.prepared))
  OBVIOUS
<1> DEFINE a == Len(batch.accepted)
           p == Len(batch.prepared)
           m == Len(batch.portion)
<1>1. a \in Nat /\ p \in Nat /\ m \in Nat /\ N \in Nat
  <2>1. batch.accepted \in Seq(Jobs) /\ batch.prepared \in Seq(Jobs) /\ batch.portion \in Seq(Jobs)
    BY DEF TypeOK, Batch
  <2> QED
    BY <2>1, Constants, LenProperties
<1>2. /\ a + p <= N /\ m <= a
      /\ batch.accepted = From(0, a) /\ batch.prepared = From(a, p)
      /\ batch.remaining = From(a + p, N - (a + p)) /\ batch.portion = From(a - m, m)
  BY DEF Ordered
<1> HIDE DEF a, p, m
<1>3. a - m \in Nat /\ a + p \in Nat /\ N - (a + p) \in Nat /\ 0 \in Nat
  BY <1>1, <1>2
<1>4. Accepted = 1 .. a
  <2>1. ToSet(From(0, a)) = 0 + 1 .. 0 + a
    BY <1>1, <1>3, FromElements
  <2>2. 0 + 1 .. 0 + a = 1 .. a
    BY <1>1
  <2> QED
    BY <2>1, <2>2, <1>2 DEF Accepted
<1>5. Prepared = a + 1 .. a + p
  BY <1>1, <1>2, FromElements DEF Prepared
<1>6. Portion = a - m + 1 .. a
  <2>1. ToSet(From(a - m, m)) = a - m + 1 .. a - m + m
    BY <1>1, <1>3, FromElements
  <2>2. a - m + m = a
    BY <1>1
  <2> QED
    BY <2>1, <2>2, <1>2 DEF Portion
<1>7. Len(batch.remaining) = N - (a + p)
  BY <1>2, <1>3, FromElements
<1> QED
  BY <1>1, <1>4, <1>5, <1>6, <1>7 DEF a, p, m

\* The three stretches of the input do not overlap.
LEMMA Disjoint ==
  TypeOK /\ Ordered =>
    /\ Accepted \subseteq Jobs /\ Prepared \subseteq Jobs /\ Portion \subseteq Accepted
    /\ Accepted \cap Prepared = {}
    /\ Cardinality(Accepted) = Len(batch.accepted) /\ Cardinality(Prepared) = Len(batch.prepared)
    /\ Cardinality(Portion) = Len(batch.portion)
<1> SUFFICES ASSUME TypeOK, Ordered
             PROVE  /\ Accepted \subseteq Jobs /\ Prepared \subseteq Jobs /\ Portion \subseteq Accepted
                    /\ Accepted \cap Prepared = {}
                    /\ Cardinality(Accepted) = Len(batch.accepted)
                    /\ Cardinality(Prepared) = Len(batch.prepared)
                    /\ Cardinality(Portion) = Len(batch.portion)
  OBVIOUS
<1> DEFINE a == Len(batch.accepted)
           p == Len(batch.prepared)
           m == Len(batch.portion)
<1>1. /\ a \in Nat /\ p \in Nat /\ m \in Nat /\ Accepted = 1 .. a /\ Prepared = a + 1 .. a + p
      /\ Portion = a - m + 1 .. a
  BY Stretches
<1>2. a + p <= N /\ m <= a /\ N \in Nat
  BY Constants DEF Ordered
<1> HIDE DEF a, p, m
<1>3. /\ Accepted \subseteq Jobs /\ Prepared \subseteq Jobs /\ Portion \subseteq Accepted
      /\ Accepted \cap Prepared = {}
  BY <1>1, <1>2 DEF Jobs
<1>4. ASSUME NEW x \in Int, NEW n \in Nat PROVE Cardinality(x + 1 .. x + n) = n
  <2> DEFINE u == x + 1
             v == x + n
  <2>1. u \in Int /\ v \in Int /\ (u > v => n = 0) /\ v - u + 1 = n
    BY <1>4
  <2> HIDE DEF u, v
  <2>2. Cardinality(u .. v) = IF u > v THEN 0 ELSE v - u + 1
    BY <2>1, FS_Interval
  <2>3. Cardinality(u .. v) = n
    BY <2>1, <2>2
  <2> QED
    BY <2>3 DEF u, v
<1>5. Cardinality(Accepted) = a
  <2>1. 1 .. a = 0 + 1 .. 0 + a
    BY <1>1
  <2>2. 0 \in Int /\ a \in Nat
    BY <1>1
  <2>3. Cardinality(0 + 1 .. 0 + a) = a
    BY <2>2, <1>4
  <2> QED
    BY <1>1, <2>1, <2>3
<1>6. Cardinality(Prepared) = p
  <2>1. a \in Int /\ p \in Nat
    BY <1>1
  <2>2. Cardinality(a + 1 .. a + p) = p
    BY <2>1, <1>4
  <2> QED
    BY <1>1, <2>2
<1>7. Cardinality(Portion) = m
  <2> DEFINE x == a - m
  <2>1. x \in Int /\ x + m = a
    BY <1>1
  <2> HIDE DEF x
  <2>2. Cardinality(x + 1 .. x + m) = m
    BY <2>1, <1>1, <1>4
  <2> QED
    BY <2>1, <2>2, <1>1 DEF x
<1> QED
  BY <1>3, <1>5, <1>6, <1>7 DEF a, p, m

-----------------------------------------------------------------------------
(* The invariant of the books *)

\* What the submitter has in hand in the places of a portion with a range and
\* of one without.
Ranging == {"tokens", "range", "install", "unused"}

Ranged ==
  /\ batch.pc \in Ranging => Fanin = 1 /\ range[Head(batch.portion)].jobs = Portion
  /\ At("tokens") => batch.todo \subseteq Portion /\ batch.todo # {}
  /\ At("subscribe") => batch.todo \subseteq Portion \X Prereqs

BookInv == TypeOK /\ Ordered /\ Phased /\ Ranged /\ Staged /\ ClassOK(Class) /\ Ledgered

-----------------------------------------------------------------------------
(* Arithmetic *)

\* A product of natural numbers is one.
LEMMA ProductIn ==
  ASSUME NEW a \in Nat, NEW b \in Nat PROVE a * b \in Nat
OBVIOUS

\* Multiplication is monotone.
LEMMA ProductUpTo ==
  ASSUME NEW a \in Nat, NEW b \in Nat, NEW c \in Nat, a <= b
  PROVE  a * c <= b * c
OBVIOUS

\* Multiplication distributes.
LEMMA ProductOfSum ==
  ASSUME NEW a \in Int, NEW b \in Int, NEW c \in Int
  PROVE  (a + b) * c = a * c + b * c /\ (a - b) * c = a * c - b * c
OBVIOUS

\* The quotient fits in what was divided.
LEMMA QuotientIn ==
  ASSUME NEW x \in Nat, NEW c \in Nat, c > 0
  PROVE  x \div c \in Nat /\ (x \div c) * c <= x
OBVIOUS

\* The fan-in counts the prerequisites.
LEMMA FaninIn ==
  ASSUME TypeOK
  PROVE  /\ Prereqs \subseteq Signals /\ IsFiniteSet(Prereqs) /\ Fanin \in Nat
         /\ Fanin = 0 <=> Prereqs = {}
<1>1. Prereqs \subseteq Signals
  BY DEF TypeOK, Prereqs
<1>2. IsFiniteSet(Prereqs)
  BY <1>1, Constants, FS_Subset
<1> QED
  BY <1>1, <1>2, FS_CardinalityType, FS_EmptySet DEF Fanin

\* The types of the batch's fields.
LEMMA BatchFields ==
  ASSUME TypeOK
  PROVE  /\ batch.pc \in Places /\ batch.remaining \in Seq(Jobs) /\ batch.prepared \in Seq(Jobs)
         /\ batch.accepted \in Seq(Jobs) /\ batch.portion \in Seq(Jobs)
         /\ batch.todo \in SUBSET (Jobs \cup Jobs \X Signals) /\ batch.reserve \in Int
         /\ batch.failure \in {"None", "TooLarge", "Closed", "InvalidGroup", "Full"}
BY DEF TypeOK, Batch

\* The types of the ledger's fields.
LEMMA LedgerFields ==
  ASSUME TypeOK
  PROVE  /\ ledger.records \in Int /\ ledger.edges \in Int /\ ledger.admissions \in Int
         /\ ledger.slots \in Int /\ ledger.members \in Int
BY DEF TypeOK, Ledger

\* What a batch may take is not negative and respects every limit.
LEMMA FittingIn ==
  ASSUME TypeOK, Ledgered
  PROVE  /\ Maximum \in Nat /\ Maximum <= Len(batch.remaining) /\ Maximum <= Quantum
         /\ Fitting \in Nat /\ Fitting <= Maximum
         /\ ledger.records + Fitting <= RecordLimit
         /\ ledger.edges + Fitting * Fanin <= EdgeLimit
<1>1. Len(batch.remaining) \in Nat
  BY BatchFields, LenProperties
<1>2. Maximum \in Nat /\ Maximum <= Len(batch.remaining) /\ Maximum <= Quantum
  BY <1>1, Constants DEF Maximum, Lesser
<1> DEFINE room == RecordLimit - ledger.records
           reserved == Lesser(Maximum, room)
           left == EdgeLimit - ledger.edges
<1>3. room \in Nat /\ left \in Nat
  BY Constants, LedgerFields DEF Ledgered
<1>4. reserved \in Nat /\ reserved <= Maximum /\ reserved <= room
  <2> HIDE DEF room
  <2> QED
    BY <1>2, <1>3 DEF Lesser
<1>5. Fitting = IF Fanin = 0 THEN reserved ELSE Lesser(reserved, left \div Fanin)
  BY DEF Fitting
<1>6. Fanin \in Nat
  BY FaninIn
<1>7. Fitting \in Nat /\ Fitting <= reserved /\ Fitting * Fanin <= left
  <2> HIDE DEF reserved, left
  <2>1. CASE Fanin = 0
    <3>1. Fitting = reserved /\ Fitting * Fanin = 0
      BY <1>4, <1>5, <2>1
    <3> QED
      BY <1>3, <1>4, <3>1
  <2>2. CASE Fanin # 0
    <3> DEFINE quotient == left \div Fanin
    <3>1. quotient \in Nat /\ quotient * Fanin <= left
      BY <1>3, <1>6, <2>2, QuotientIn
    <3>2. Fitting = Lesser(reserved, quotient)
      BY <1>5, <2>2
    <3> HIDE DEF quotient
    <3>3. Fitting \in Nat /\ Fitting <= reserved /\ Fitting <= quotient
      BY <1>4, <3>1, <3>2 DEF Lesser
    <3>4. Fitting * Fanin <= quotient * Fanin
      BY <1>6, <3>1, <3>3, ProductUpTo
    <3>5. Fitting * Fanin \in Nat /\ quotient * Fanin \in Nat
      BY <1>6, <3>1, <3>3, ProductIn
    <3> QED
      BY <1>3, <3>1, <3>3, <3>4, <3>5
  <2> QED
    BY <2>1, <2>2
<1>8. Fitting * Fanin \in Nat
  BY <1>6, <1>7, ProductIn
<1> HIDE DEF reserved
<1>9. Fitting <= Maximum /\ Fitting <= room
  <2> HIDE DEF room
  <2> QED
    BY <1>2, <1>3, <1>4, <1>7
<1>10. ledger.records + Fitting <= RecordLimit /\ ledger.edges + Fitting * Fanin <= EdgeLimit
  BY <1>7, <1>8, <1>9, Constants, LedgerFields
<1> QED
  BY <1>2, <1>7, <1>9, <1>10

\* A prefix may be selected, of what is prepared.
LEMMA SelectedIn ==
  ASSUME TypeOK, ClassOK(Class)
  PROVE  /\ Selected \in Nat /\ Selected <= Len(batch.prepared)
         /\ Prereqs = {} => window.runnable + window.attaching + Selected <= RunnableLimit
<1>1. Len(batch.prepared) \in Nat
  BY BatchFields, LenProperties
<1>2. /\ window.runnable \in Int /\ window.attaching \in Int /\ RunnableLimit \in Nat
      /\ window.runnable + window.attaching <= RunnableLimit
  <2>1. Class.window = window
    BY ClassTyped
  <2> QED
    BY <2>1, Constants DEF TypeOK, Window, ClassOK
<1> DEFINE room == RunnableLimit - window.runnable - window.attaching
<1>3. room \in Int
  BY <1>2
<1>4. CASE Prereqs = {}
  <2>1. Selected = IF room <= 0 THEN 0 ELSE Lesser(Len(batch.prepared), room)
    BY <1>4 DEF Selected
  <2>2. Selected \in Nat /\ Selected <= Len(batch.prepared) /\ (Selected = 0 \/ Selected <= room)
    <3> HIDE DEF room
    <3> QED
      BY <2>1, <1>1, <1>3 DEF Lesser
  <2> QED
    BY <2>2, <1>2
<1>5. CASE Prereqs # {}
  BY <1>1, <1>5 DEF Selected
<1> QED
  BY <1>4, <1>5

-----------------------------------------------------------------------------
(* The order of the batch, step by step *)

Portioned(accepted, prepared, remaining, portion) ==
  LET a == Len(accepted)
      p == Len(prepared)
      m == Len(portion)
  IN  /\ a + p <= N /\ m <= a
      /\ accepted = From(0, a) /\ prepared = From(a, p)
      /\ remaining = From(a + p, N - (a + p)) /\ portion = From(a - m, m)

\* Four stretches with matching bounds are in order.
LEMMA PortionedIn ==
  ASSUME NEW a \in Nat, NEW p \in Nat, NEW m \in Nat, a + p <= N, m <= a
  PROVE  Portioned(From(0, a), From(a, p), From(a + p, N - (a + p)), From(a - m, m))
<1>1. Len(From(0, a)) = a /\ Len(From(a, p)) = p
  BY FromElements
<1>2. Len(From(a - m, m)) = m
  <2>1. a - m \in Nat
    OBVIOUS
  <2> QED
    BY <2>1, FromElements
<1> QED
  BY <1>1, <1>2 DEF Portioned

\* Charge prepares the next stretch of the input.
LEMMA ChargeEffect ==
  ASSUME BookInv, Charge, ~sealed, Fitting # 0
  PROVE  LET a == Len(batch.accepted)
             n == Fitting
         IN  /\ a \in Nat /\ n \in Nat /\ n > 0 /\ a + n <= N /\ n <= Maximum
             /\ Len(batch.prepared) = 0 /\ Len(batch.portion) = 0 /\ batch.reserve = 0
             /\ batch' = [batch EXCEPT !.pc = "commit", !.reserve = n, !.prepared = From(a, n),
                                       !.remaining = From(a + n, N - (a + n))]
             /\ ToSet(SubSeq(batch.remaining, 1, n)) = a + 1 .. a + n
<1> DEFINE a == Len(batch.accepted)
           n == Fitting
<1>0. TypeOK /\ Ordered /\ Phased /\ Ledgered /\ At("charge")
  BY DEF BookInv, Charge
<1>1. Len(batch.prepared) = 0 /\ Len(batch.portion) = 0 /\ batch.reserve = 0
  <2>1. batch.pc \in Before
    BY <1>0 DEF At, Before
  <2> QED
    BY <1>0, <2>1 DEF Phased
<1>2. a \in Nat /\ N \in Nat /\ a <= N /\ batch.remaining = From(a, N - a)
  <2>1. a \in Nat /\ a + 0 = a
    BY <1>0, Stretches
  <2> QED
    BY <2>1, <1>0, <1>1, Constants DEF Ordered
<1>3. n \in Nat /\ n > 0 /\ n <= N - a /\ N - a \in Nat /\ n <= Maximum
  <2>1. n \in Nat /\ n <= Maximum /\ Maximum <= Len(batch.remaining) /\ Maximum \in Nat
    BY <1>0, FittingIn
  <2>2. Len(batch.remaining) = N - a /\ N - a \in Nat
    <3> HIDE DEF a
    <3>1. N - a \in Nat
      BY <1>2
    <3> QED
      BY <3>1, <1>2, FromElements
  <2> QED
    BY <2>1, <2>2
<1> HIDE DEF a, n
<1>4. /\ SubSeq(batch.remaining, 1, n) = From(a, n) /\ Len(batch.remaining) = N - a
      /\ SubSeq(batch.remaining, n + 1, Len(batch.remaining)) = From(a + n, N - (a + n))
  <2> DEFINE k == N - a
  <2>1. k \in Nat /\ n \in 0 .. k /\ k - n = N - (a + n)
    BY <1>2, <1>3
  <2>2. batch.remaining = From(a, k)
    BY <1>2
  <2> HIDE DEF k
  <2>3. Len(From(a, k)) = k
    BY <1>2, <2>1, FromElements
  <2>4. SubSeq(From(a, k), 1, n) = From(a, n) /\ SubSeq(From(a, k), n + 1, k) = From(a + n, k - n)
    BY <1>2, <2>1, FromSplit
  <2> QED
    BY <2>1, <2>2, <2>3, <2>4 DEF k
<1>5. batch' = [batch EXCEPT !.pc = "commit", !.reserve = n,
                             !.prepared = SubSeq(batch.remaining, 1, n),
                             !.remaining = SubSeq(@, n + 1, Len(@))]
  BY DEF Charge, n
<1>6. ToSet(From(a, n)) = a + 1 .. a + n
  BY <1>2, <1>3, FromElements
<1>7. a + n <= N
  BY <1>2, <1>3
<1> QED
  BY <1>1, <1>2, <1>3, <1>4, <1>5, <1>6, <1>7 DEF a, n

\* Commit accepts a prefix of what was prepared, or nothing.
LEMMA CommitEffect ==
  ASSUME BookInv, Commit
  PROVE  LET a == Len(batch.accepted)
             p == Len(batch.prepared)
             n == IF CommitFailure = "None" THEN Selected ELSE 0
         IN  /\ a \in Nat /\ p \in Nat /\ n \in Nat /\ n <= p /\ a + p <= N
             /\ p > 0 /\ batch.reserve = p /\ (n = 0 <=> CommitFailure # "None")
             /\ batch' = [batch EXCEPT !.pc = "recover", !.failure = CommitFailure,
                                       !.prepared = From(a + n, p - n), !.portion = From(a, n),
                                       !.accepted = From(0, a + n)]
             /\ ToSet(SubSeq(batch.prepared, 1, n)) = a + 1 .. a + n
             /\ Prereqs = {} => window.runnable + window.attaching + n <= RunnableLimit
<1> DEFINE a == Len(batch.accepted)
           p == Len(batch.prepared)
           n == IF CommitFailure = "None" THEN Selected ELSE 0
<1>0. TypeOK /\ Ordered /\ Phased /\ ClassOK(Class) /\ At("commit")
  BY DEF BookInv, Commit
<1>1. p > 0 /\ batch.reserve = p
  BY <1>0 DEF Phased
<1>2. /\ a \in Nat /\ p \in Nat /\ a + p <= N /\ N \in Nat
      /\ batch.accepted = From(0, a) /\ batch.prepared = From(a, p)
  BY <1>0, Stretches, Constants DEF Ordered
<1>3. /\ n \in Nat /\ n <= p
      /\ Prereqs = {} => window.runnable + window.attaching + n <= RunnableLimit
  <2>1. /\ Selected \in Nat /\ Selected <= p
        /\ Prereqs = {} => window.runnable + window.attaching + Selected <= RunnableLimit
    BY <1>0, SelectedIn
  <2>2. window.runnable \in Int /\ window.attaching \in Int
        /\ window.runnable + window.attaching <= RunnableLimit
    <3>1. Class.window = window
      BY <1>0, ClassTyped
    <3> QED
      BY <1>0, <3>1 DEF TypeOK, Window, ClassOK
  <2> HIDE DEF p
  <2>3. CASE CommitFailure = "None"
    <3>1. n = Selected
      BY <2>3
    <3> HIDE DEF n
    <3> QED
      BY <2>1, <3>1
  <2>4. CASE CommitFailure # "None"
    <3>1. n = 0
      BY <2>4
    <3> HIDE DEF n
    <3> QED
      BY <2>2, <3>1, <1>2
  <2> QED
    BY <2>3, <2>4
<1>4. n = 0 <=> CommitFailure # "None"
  <2>1. CommitFailure = "None" => Selected # 0
    BY DEF CommitFailure
  <2> QED
    BY <2>1
<1>5. batch' = [batch EXCEPT !.pc = "recover", !.failure = CommitFailure,
                             !.prepared = SubSeq(@, n + 1, Len(@)),
                             !.portion = SubSeq(batch.prepared, 1, n),
                             !.accepted = @ \o SubSeq(batch.prepared, 1, n)]
  BY DEF Commit
<1> HIDE DEF a, p, n
<1>6. /\ SubSeq(batch.prepared, 1, n) = From(a, n)
      /\ SubSeq(batch.prepared, n + 1, Len(batch.prepared)) = From(a + n, p - n)
  <2>1. n \in 0 .. p
    BY <1>2, <1>3
  <2>2. SubSeq(From(a, p), 1, n) = From(a, n) /\ SubSeq(From(a, p), n + 1, p) = From(a + n, p - n)
    BY <1>2, <2>1, FromSplit
  <2> QED
    BY <1>2, <2>2 DEF p
<1>7. batch.accepted \o From(a, n) = From(0, a + n)
  <2>1. 0 \in Nat /\ 0 + a = a
    BY <1>2
  <2>2. From(0, a) \o From(0 + a, n) = From(0, a + n)
    BY <2>1, <1>2, <1>3, FromJoin
  <2> QED
    BY <2>1, <2>2, <1>2
<1>8. ToSet(From(a, n)) = a + 1 .. a + n
  BY <1>2, <1>3, FromElements
<1>9. batch' = [batch EXCEPT !.pc = "recover", !.failure = CommitFailure,
                             !.prepared = From(a + n, p - n), !.portion = From(a, n),
                             !.accepted = From(0, a + n)]
  BY <1>5, <1>6, <1>7
<1> QED
  BY <1>1, <1>2, <1>3, <1>4, <1>6, <1>8, <1>9 DEF a, p, n

\* Recover puts the rest back at the head of the input.
LEMMA RecoverEffect ==
  ASSUME BookInv, Recover
  PROVE  LET a == Len(batch.accepted)
             p == Len(batch.prepared)
             m == Len(batch.portion)
         IN  /\ a \in Nat /\ p \in Nat /\ m \in Nat /\ a + p <= N /\ m <= a
             /\ batch.reserve = m + p /\ (m = 0 <=> batch.failure # "None")
             /\ batch' = [batch EXCEPT !.pc = IF batch.failure = "None" THEN "register" ELSE "done",
                                       !.prepared = From(a, 0), !.remaining = From(a, N - a),
                                       !.reserve = IF batch.failure = "None" THEN @ ELSE 0]
<1> DEFINE a == Len(batch.accepted)
           p == Len(batch.prepared)
           m == Len(batch.portion)
<1>0. TypeOK /\ Ordered /\ Phased /\ At("recover")
  BY DEF BookInv, Recover
<1>1. batch.reserve = m + p /\ (m = 0 <=> batch.failure # "None")
  BY <1>0 DEF Phased
<1>2. /\ a \in Nat /\ p \in Nat /\ m \in Nat /\ a + p <= N /\ m <= a /\ N \in Nat
      /\ batch.prepared = From(a, p) /\ batch.remaining = From(a + p, N - (a + p))
  BY <1>0, Stretches, Constants DEF Ordered
<1>3. batch' = [batch EXCEPT !.pc = IF batch.failure = "None" THEN "register" ELSE "done",
                             !.prepared = <<>>, !.remaining = batch.prepared \o @,
                             !.reserve = IF batch.failure = "None" THEN @ ELSE 0]
  BY DEF Recover
<1> HIDE DEF a, p, m
<1>4. batch.prepared \o batch.remaining = From(a, N - a)
  <2> DEFINE k == N - (a + p)
  <2>1. k \in Nat /\ p + k = N - a
    BY <1>2
  <2>2. batch.remaining = From(a + p, k)
    BY <1>2
  <2> HIDE DEF k
  <2>3. From(a, p) \o From(a + p, k) = From(a, p + k)
    BY <1>2, <2>1, FromJoin
  <2> QED
    BY <1>2, <2>1, <2>2, <2>3
<1>5. <<>> = From(a, 0)
  <2>1. 0 \in Nat
    OBVIOUS
  <2> QED
    BY <1>2, <2>1, FromElements
<1> QED
  BY <1>1, <1>2, <1>3, <1>4, <1>5 DEF a, p, m

-----------------------------------------------------------------------------
\* The sequences of the batch are what they were.
SameOrder ==
  /\ batch'.accepted = batch.accepted /\ batch'.prepared = batch.prepared
  /\ batch'.remaining = batch.remaining /\ batch'.portion = batch.portion

\* Steps that leave the batch alone.
Outside ==
  \/ \E s \in Signals : Call(s) \/ \E status \in {"Succeeded", "Failed"} : Complete(s, status)
  \/ \E t \in Threads : Activation(t)
  \/ \E j \in Jobs : Settlement(j) \/ Claim(j) \/ EndBody(j) \/ Cancel(j)
  \/ Seal \/ Close \/ Abandon \/ UNCHANGED vars

\* Only the submitter's steps touch the batch.
LEMMA OutsideSteps ==
  ([Next]_vars => Submission \/ Outside) /\ (Outside => UNCHANGED batch)
<1>1. [Next]_vars => Submission \/ Outside
  BY DEF Next, Outside
<1>2. ASSUME NEW s \in Signals, Call(s) \/ \E status \in {"Succeeded", "Failed"} : Complete(s, status)
      PROVE  UNCHANGED batch
  BY <1>2 DEF Call, Complete
<1>3. ASSUME NEW t \in Threads, Activation(t) PROVE UNCHANGED batch
  BY <1>3 DEF Activation, Deliver, TakeMembers, ActivateRange, DetachNext, ActivateOne,
       ActivateReady, DispatchActivation, Return
<1>4. ASSUME NEW j \in Jobs, Settlement(j) \/ Claim(j) \/ EndBody(j) \/ Cancel(j) PROVE UNCHANGED batch
  BY <1>4 DEF Settlement, Suppress, DropToken, FinishRecord, FinalizeRecord, DispatchFinal, Claim,
       EndBody, Cancel
<1>5. ASSUME Seal \/ Close \/ Abandon \/ UNCHANGED vars PROVE UNCHANGED batch
  BY <1>5 DEF Seal, Close, Abandon, vars
<1> QED
  BY <1>1, <1>2, <1>3, <1>4, <1>5 DEF Outside

\* Outside a submission only the last step of a record touches the ledger.
LEMMA LedgerSteps ==
  ASSUME \/ \E s \in Signals : Call(s) \/ \E status \in {"Succeeded", "Failed"} : Complete(s, status)
         \/ \E t \in Threads : Activation(t)
         \/ \E j \in Jobs : \/ Suppress(j) \/ DropToken(j) \/ FinishRecord(j) \/ DispatchFinal(j)
                            \/ Claim(j) \/ EndBody(j) \/ Cancel(j)
         \/ Seal \/ Close \/ Abandon \/ UNCHANGED vars
  PROVE  UNCHANGED ledger
<1>1. ASSUME NEW s \in Signals, Call(s) \/ \E status \in {"Succeeded", "Failed"} : Complete(s, status)
      PROVE  UNCHANGED ledger
  BY <1>1 DEF Call, Complete
<1>2. ASSUME NEW t \in Threads, Activation(t) PROVE UNCHANGED ledger
  BY <1>2 DEF Activation, Deliver, TakeMembers, ActivateRange, DetachNext, ActivateOne,
     ActivateReady, DispatchActivation, Return
<1>3. ASSUME NEW j \in Jobs, Suppress(j) \/ DropToken(j) \/ FinishRecord(j) \/ DispatchFinal(j)
      PROVE  UNCHANGED ledger
  BY <1>3 DEF Suppress, DropToken, FinishRecord, DispatchFinal
<1>4. ASSUME NEW j \in Jobs, Claim(j) \/ EndBody(j) \/ Cancel(j) PROVE UNCHANGED ledger
  BY <1>4 DEF Claim, EndBody, Cancel
<1>5. ASSUME Seal \/ Close \/ Abandon \/ UNCHANGED vars PROVE UNCHANGED ledger
  BY <1>5 DEF Seal, Close, Abandon, vars
<1> QED
  BY <1>1, <1>2, <1>3, <1>4, <1>5

\* Steps of the submitter that move no operation.
LEMMA SubmissionSteps ==
  ASSUME Enter \/ Admit \/ Register \/ Token \/ SubscribeRange \/ Install \/ DropUnused \/ Subscribe
           \/ PublishPortion, TypeOK
  PROVE  SameOrder
<1>1. batch = [pc |-> batch.pc, remaining |-> batch.remaining, prepared |-> batch.prepared,
               accepted |-> batch.accepted, portion |-> batch.portion, todo |-> batch.todo,
               reserve |-> batch.reserve, failure |-> batch.failure]
  BY DEF TypeOK, Batch
<1>2. ASSUME Enter \/ Admit \/ SubscribeRange \/ Install \/ DropUnused \/ PublishPortion PROVE SameOrder
  BY <1>1, <1>2 DEF Enter, Admit, SubscribeRange, Install, DropUnused, PublishPortion, SameOrder, Go, Refuse
<1>3. ASSUME Register \/ Token PROVE SameOrder
  BY <1>1, <1>3 DEF Register, Token, SameOrder
<1>4. ASSUME Subscribe PROVE SameOrder
  BY <1>1, <1>4 DEF Subscribe, SameOrder, Go
<1> QED
  BY <1>2, <1>3, <1>4

\* No step puts the input out of order.
LEMMA OrderedStep ==
  ASSUME BookInv, [Next]_vars
  PROVE  Ordered'
<1>0. TypeOK /\ Ordered
  BY DEF BookInv
<1>1. ASSUME SameOrder PROVE Ordered'
  BY <1>0, <1>1 DEF SameOrder, Ordered
<1>2. batch = [pc |-> batch.pc, remaining |-> batch.remaining, prepared |-> batch.prepared,
               accepted |-> batch.accepted, portion |-> batch.portion, todo |-> batch.todo,
               reserve |-> batch.reserve, failure |-> batch.failure]
  BY <1>0 DEF TypeOK, Batch
<1>3. CASE Outside
  <2>1. SameOrder
    BY <1>3, OutsideSteps DEF SameOrder
  <2> QED
    BY <1>1, <2>1
<1>4. CASE Enter \/ Admit \/ Register \/ Token \/ SubscribeRange \/ Install \/ DropUnused \/ Subscribe
             \/ PublishPortion
  BY <1>0, <1>1, <1>4, SubmissionSteps
<1>5. CASE Charge
  <2>1. CASE sealed \/ Fitting = 0
    <3>1. SameOrder
      BY <1>2, <1>5, <2>1 DEF Charge, Refuse, SameOrder
    <3> QED
      BY <1>1, <3>1
  <2>2. CASE ~sealed /\ Fitting # 0
    <3> DEFINE a == Len(batch.accepted)
               n == Fitting
    <3>1. /\ a \in Nat /\ n \in Nat /\ a + n <= N /\ Len(batch.portion) = 0
          /\ batch' = [batch EXCEPT !.pc = "commit", !.reserve = n, !.prepared = From(a, n),
                                    !.remaining = From(a + n, N - (a + n))]
      BY <1>5, <2>2, ChargeEffect
    <3>2. batch.accepted = From(0, a) /\ batch.portion = From(a - 0, 0)
      BY <1>0, <3>1 DEF Ordered
    <3> HIDE DEF n, a
    <3>3. /\ batch'.accepted = From(0, a) /\ batch'.prepared = From(a, n)
          /\ batch'.remaining = From(a + n, N - (a + n)) /\ batch'.portion = From(a - 0, 0)
      BY <1>2, <3>1, <3>2
    <3>4. 0 \in Nat /\ 0 <= a
      BY <3>1
    <3>5. Portioned(batch'.accepted, batch'.prepared, batch'.remaining, batch'.portion)
      BY <3>1, <3>3, <3>4, PortionedIn
    <3> QED
      BY <3>5 DEF Portioned, Ordered
  <2> QED
    BY <2>1, <2>2
<1>6. CASE Commit
  <2> DEFINE a == Len(batch.accepted)
             p == Len(batch.prepared)
             n == IF CommitFailure = "None" THEN Selected ELSE 0
  <2>1. /\ a \in Nat /\ p \in Nat /\ n \in Nat /\ n <= p /\ a + p <= N
        /\ batch' = [batch EXCEPT !.pc = "recover", !.failure = CommitFailure,
                                  !.prepared = From(a + n, p - n), !.portion = From(a, n),
                                  !.accepted = From(0, a + n)]
    BY <1>6, CommitEffect
  <2>2. batch.remaining = From(a + p, N - (a + p)) /\ N \in Nat
    BY <1>0, Constants DEF Ordered
  <2> HIDE DEF a, p, n
  <2> DEFINE b == a + n
             q == p - n
  <2>3. b \in Nat /\ q \in Nat /\ b + q = a + p /\ b - n = a /\ n <= b
    BY <2>1
  <2>4. /\ batch'.accepted = From(0, b) /\ batch'.prepared = From(b, q)
        /\ batch'.remaining = From(b + q, N - (b + q)) /\ batch'.portion = From(b - n, n)
    BY <1>2, <2>1, <2>2, <2>3
  <2> HIDE DEF b, q
  <2>5. Portioned(batch'.accepted, batch'.prepared, batch'.remaining, batch'.portion)
    BY <2>1, <2>3, <2>4, PortionedIn
  <2> QED
    BY <2>5 DEF Portioned, Ordered
<1>7. CASE Recover
  <2> DEFINE a == Len(batch.accepted)
             m == Len(batch.portion)
  <2>1. /\ a \in Nat /\ m \in Nat /\ a <= N /\ m <= a
        /\ batch' = [batch EXCEPT !.pc = IF batch.failure = "None" THEN "register" ELSE "done",
                                  !.prepared = From(a, 0), !.remaining = From(a, N - a),
                                  !.reserve = IF batch.failure = "None" THEN @ ELSE 0]
    <3> DEFINE p == Len(batch.prepared)
    <3>1. /\ a \in Nat /\ p \in Nat /\ m \in Nat /\ a + p <= N /\ m <= a
          /\ batch' = [batch EXCEPT !.pc = IF batch.failure = "None" THEN "register" ELSE "done",
                                    !.prepared = From(a, 0), !.remaining = From(a, N - a),
                                    !.reserve = IF batch.failure = "None" THEN @ ELSE 0]
      BY <1>7, RecoverEffect
    <3> HIDE DEF a, p, m
    <3>2. a <= N
      BY <3>1, Constants
    <3> QED
      BY <3>1, <3>2
  <2>2. batch.accepted = From(0, a) /\ batch.portion = From(a - m, m) /\ N \in Nat
    BY <1>0, Constants DEF Ordered
  <2> HIDE DEF a, m
  <2>3. a + 0 = a /\ 0 \in Nat
    BY <2>1
  <2>4. /\ batch'.accepted = From(0, a) /\ batch'.prepared = From(a, 0)
        /\ batch'.remaining = From(a + 0, N - (a + 0)) /\ batch'.portion = From(a - m, m)
    BY <1>2, <2>1, <2>2, <2>3
  <2>5. Portioned(batch'.accepted, batch'.prepared, batch'.remaining, batch'.portion)
    BY <2>1, <2>3, <2>4, PortionedIn
  <2> QED
    BY <2>5 DEF Portioned, Ordered
<1>8. CASE DispatchPortion
  <2> DEFINE a == Len(batch.accepted)
             p == Len(batch.prepared)
  <2>1. /\ a \in Nat /\ p \in Nat /\ a + p <= N /\ batch.accepted = From(0, a)
        /\ batch.prepared = From(a, p) /\ batch.remaining = From(a + p, N - (a + p))
    BY <1>0, Stretches DEF Ordered
  <2> HIDE DEF a, p
  <2>2. <<>> = From(a - 0, 0) /\ 0 \in Nat /\ 0 <= a
    <3>1. a - 0 \in Nat /\ 0 \in Nat
      BY <2>1
    <3> QED
      BY <2>1, <3>1, FromElements
  <2>3. /\ batch'.accepted = From(0, a) /\ batch'.prepared = From(a, p)
        /\ batch'.remaining = From(a + p, N - (a + p)) /\ batch'.portion = From(a - 0, 0)
    BY <1>2, <1>8, <2>1, <2>2 DEF DispatchPortion
  <2>4. Portioned(batch'.accepted, batch'.prepared, batch'.remaining, batch'.portion)
    BY <2>1, <2>2, <2>3, PortionedIn
  <2> QED
    BY <2>4 DEF Portioned, Ordered
<1> QED
  BY <1>3, <1>4, <1>5, <1>6, <1>7, <1>8, OutsideSteps DEF Submission

\* Every step leaves in hand what its place allows.
LEMMA PhasedStep ==
  ASSUME BookInv, [Next]_vars
  PROVE  Phased'
<1>0. TypeOK /\ Ordered /\ Phased
  BY DEF BookInv
<1>2. batch = [pc |-> batch.pc, remaining |-> batch.remaining, prepared |-> batch.prepared,
               accepted |-> batch.accepted, portion |-> batch.portion, todo |-> batch.todo,
               reserve |-> batch.reserve, failure |-> batch.failure]
  BY <1>0 DEF TypeOK, Batch
<1>3. CASE Outside
  BY <1>0, <1>3, OutsideSteps DEF Phased, At
<1>4. CASE Enter \/ Admit
  <2>0. SameOrder
    BY <1>0, <1>4, SubmissionSteps
  <2>1. At("enter") \/ At("next")
    BY <1>4 DEF Enter, Admit
  <2>2. batch'.pc \in Before /\ batch'.reserve = batch.reserve
    BY <1>2, <1>4 DEF Enter, Admit, Go, Refuse, Before
  <2>3. Len(batch.prepared) = 0 /\ Len(batch.portion) = 0 /\ batch.reserve = 0
    BY <1>0, <2>1 DEF Phased, At, Before
  <2>4. batch'.prepared = batch.prepared /\ batch'.portion = batch.portion
    BY <2>0 DEF SameOrder
  <2> QED
    BY <2>2, <2>3, <2>4 DEF Phased, At, Before, Attaching
<1>5. CASE Charge
  <2>1. CASE sealed \/ Fitting = 0
    <3>1. /\ batch'.pc = "done" /\ batch'.reserve = batch.reserve /\ batch'.prepared = batch.prepared
          /\ batch'.portion = batch.portion
      BY <1>2, <1>5, <2>1 DEF Charge, Refuse
    <3>2. Len(batch.prepared) = 0 /\ Len(batch.portion) = 0 /\ batch.reserve = 0
      BY <1>0, <1>5 DEF Phased, At, Before, Charge
    <3> QED
      BY <3>1, <3>2 DEF Phased, At, Before, Attaching
  <2>2. CASE ~sealed /\ Fitting # 0
    <3> DEFINE a == Len(batch.accepted)
               n == Fitting
    <3>1. /\ a \in Nat /\ n \in Nat /\ n > 0 /\ Len(batch.portion) = 0
          /\ batch' = [batch EXCEPT !.pc = "commit", !.reserve = n, !.prepared = From(a, n),
                                    !.remaining = From(a + n, N - (a + n))]
      BY <1>5, <2>2, ChargeEffect
    <3> HIDE DEF n, a
    <3>2. /\ batch'.pc = "commit" /\ batch'.reserve = n /\ batch'.prepared = From(a, n)
          /\ batch'.portion = batch.portion
      BY <1>2, <3>1
    <3>3. Len(batch'.prepared) = n
      BY <3>1, <3>2, FromElements
    <3> QED
      BY <3>1, <3>2, <3>3 DEF Phased, At, Before, Attaching
  <2> QED
    BY <2>1, <2>2
<1>6. CASE Commit
  <2> DEFINE a == Len(batch.accepted)
             p == Len(batch.prepared)
             n == IF CommitFailure = "None" THEN Selected ELSE 0
  <2>1. /\ a \in Nat /\ p \in Nat /\ n \in Nat /\ n <= p /\ batch.reserve = p
        /\ n = 0 <=> CommitFailure # "None"
        /\ batch' = [batch EXCEPT !.pc = "recover", !.failure = CommitFailure,
                                  !.prepared = From(a + n, p - n), !.portion = From(a, n),
                                  !.accepted = From(0, a + n)]
    BY <1>6, CommitEffect
  <2> HIDE DEF a, p, n
  <2>2. /\ batch'.pc = "recover" /\ batch'.reserve = p /\ batch'.prepared = From(a + n, p - n)
        /\ batch'.portion = From(a, n) /\ batch'.failure = CommitFailure
    BY <1>2, <2>1
  <2>3. Len(batch'.portion) = n /\ Len(batch'.prepared) = p - n
    <3>1. a + n \in Nat /\ p - n \in Nat /\ a \in Nat /\ n \in Nat
      BY <2>1
    <3>2. Len(From(a, n)) = n
      BY <3>1, FromElements
    <3>3. Len(From(a + n, p - n)) = p - n
      BY <3>1, FromElements
    <3> QED
      BY <2>2, <3>2, <3>3
  <2>4. p = n + (p - n)
    BY <2>1
  <2> QED
    BY <2>1, <2>2, <2>3, <2>4 DEF Phased, At, Before, Attaching
<1>7. CASE Recover
  <2> DEFINE a == Len(batch.accepted)
             p == Len(batch.prepared)
             m == Len(batch.portion)
             ok == batch.failure = "None"
  <2>1. /\ a \in Nat /\ p \in Nat /\ m \in Nat /\ batch.reserve = m + p /\ (m = 0 <=> ~ok)
        /\ batch' = [batch EXCEPT !.pc = IF ok THEN "register" ELSE "done",
                                  !.prepared = From(a, 0), !.remaining = From(a, N - a),
                                  !.reserve = IF ok THEN @ ELSE 0]
    BY <1>7, RecoverEffect
  <2> HIDE DEF a, p, ok
  <2>2. /\ batch'.pc = IF ok THEN "register" ELSE "done"
        /\ batch'.reserve = IF ok THEN m + p ELSE 0
        /\ batch'.prepared = From(a, 0) /\ Len(batch'.portion) = m
    BY <1>2, <2>1
  <2>3. Len(batch'.prepared) = 0
    <3>1. 0 \in Nat /\ a \in Nat /\ batch'.prepared = From(a, 0)
      BY <2>1, <2>2
    <3>2. Len(From(a, 0)) = 0
      BY <3>1, FromElements
    <3> QED
      BY <3>1, <3>2
  <2> HIDE DEF m
  <2>4. CASE ok
    <3>1. batch'.pc = "register" /\ batch'.reserve >= m /\ m > 0
      BY <2>1, <2>2, <2>4
    <3> QED
      BY <2>2, <2>3, <3>1 DEF Phased, At, Before, Attaching
  <2>5. CASE ~ok
    <3>1. batch'.pc = "done" /\ batch'.reserve = 0 /\ m = 0
      BY <2>1, <2>2, <2>5
    <3> QED
      BY <2>2, <2>3, <3>1 DEF Phased, At, Before, Attaching
  <2> QED
    BY <2>4, <2>5
<1>8. CASE Register
  <2>1. batch'.pc \in {"tokens", "subscribe"} /\ batch'.reserve = 0 /\ SameOrder
    BY <1>0, <1>2, <1>8, SubmissionSteps DEF Register
  <2>2. Len(batch.prepared) = 0 /\ Len(batch.portion) > 0
    BY <1>0, <1>8 DEF Phased, At, Register
  <2> QED
    BY <2>1, <2>2 DEF Phased, SameOrder, At, Before, Attaching
<1>9. CASE Token \/ SubscribeRange \/ Install \/ DropUnused \/ Subscribe \/ PublishPortion
  <2>1. batch.pc \in Attaching
    BY <1>9 DEF Token, SubscribeRange, Install, DropUnused, Subscribe, PublishPortion, At, Attaching
  <2>2. batch'.pc \in Attaching /\ batch'.reserve = batch.reserve
    <3>1. CASE Token
      BY <1>2, <3>1 DEF Token, Attaching
    <3>2. CASE Subscribe
      BY <1>2, <2>1, <3>2 DEF Subscribe, Go, Attaching
    <3>3. CASE SubscribeRange \/ Install \/ DropUnused \/ PublishPortion
      BY <1>2, <3>3 DEF SubscribeRange, Install, DropUnused, PublishPortion, Go, Attaching
    <3> QED
      BY <1>9, <3>1, <3>2, <3>3
  <2>3. SameOrder
    BY <1>0, <1>9, SubmissionSteps
  <2>4. Len(batch.prepared) = 0 /\ Len(batch.portion) > 0 /\ batch.reserve = 0
    BY <1>0, <2>1 DEF Phased
  <2> QED
    BY <2>2, <2>3, <2>4 DEF Phased, SameOrder, At, Before, Attaching
<1>10. CASE DispatchPortion
  <2>1. /\ batch'.pc = "next" /\ batch'.portion = <<>> /\ batch'.prepared = batch.prepared
        /\ batch'.reserve = batch.reserve
    BY <1>2, <1>10 DEF DispatchPortion
  <2>2. Len(batch.prepared) = 0 /\ batch.reserve = 0
    BY <1>0, <1>10 DEF Phased, DispatchPortion, At, Attaching
  <2>3. Len(batch'.portion) = 0
    BY <2>1
  <2> QED
    BY <2>1, <2>2, <2>3 DEF Phased, At, Before, Attaching
<1> QED
  BY <1>3, <1>4, <1>5, <1>6, <1>7, <1>8, <1>9, <1>10, OutsideSteps DEF Submission

-----------------------------------------------------------------------------
(* Types, step by step *)

\* The least of some jobs is one of them.
LEMMA LeastIn ==
  ASSUME NEW S \in SUBSET Jobs, S # {}
  PROVE  Least(S) \in S
<1>1. S \in SUBSET Nat
  BY DEF Jobs
<1>2. \E i \in S : \A k \in S : i <= k
  BY <1>1, LeastNumber
<1> QED
  BY <1>2 DEF Least

\* The types of what a thread is doing.
LEMMA ActFields ==
  ASSUME TypeOK, NEW t \in Threads
  PROVE  /\ act[t] = Idle \/ act[t] \in Activity
         /\ act[t].step # "idle" =>
              /\ act[t] \in Activity /\ act[t].id \in Jobs /\ act[t].jobs \in SUBSET Jobs
              /\ act[t].status \in Statuses
BY DEF TypeOK, Activity, Idle

\* A detachment keeps what a range is of.
LEMMA DetachType ==
  ASSUME TypeOK, NEW r, NEW j, Detach(r, j)
  PROVE  /\ range' \in [Jobs -> Registration] /\ \A q \in Jobs : range'[q].jobs = range[q].jobs
         /\ stored' \subseteq stored
<1>1. range \in [Jobs -> Registration]
  BY DEF TypeOK
<1>2. range' = [range EXCEPT ![r] = Detached(r, j)] /\ stored' \subseteq stored
  BY DEF Detach
<1>3. CASE r \notin Jobs
  BY <1>1, <1>2, <1>3
<1>4. CASE r \in Jobs
  <2>1. range[r] \in Registration
    BY <1>1, <1>4
  <2>2. Detached(r, j) \in Registration /\ Detached(r, j).jobs = range[r].jobs
    <3> DEFINE x == range[r]
               h == x.handle /\ x.active > 1
    <3>1. x \in Registration /\ x.active \in Int /\ x.members \in SUBSET Jobs
      BY <2>1 DEF Registration
    <3>2. Detached(r, j) = [x EXCEPT !.active = @ - 1, !.members = @ \ {j}, !.handle = h]
      BY DEF Detached
    <3>3. h \in BOOLEAN /\ x.active - 1 \in Int /\ x.members \ {j} \in SUBSET Jobs
      BY <3>1
    <3> HIDE DEF x, h
    <3>4. [x EXCEPT !.active = @ - 1, !.members = @ \ {j}, !.handle = h] \in Registration
      BY <3>1, <3>3 DEF Registration
    <3>5. [x EXCEPT !.active = @ - 1, !.members = @ \ {j}, !.handle = h].jobs = x.jobs
      BY <3>1 DEF Registration
    <3> QED
      BY <3>2, <3>4, <3>5 DEF x
  <2> HIDE DEF Detached
  <2> QED
    BY <1>1, <1>2, <2>2
<1> QED
  BY <1>3, <1>4

\* A subscription keeps the types.
LEMMA SubscribedType ==
  ASSUME TypeOK, NEW id \in Jobs, NEW s \in Signals, NEW step \in {"deliver", "single"},
         Subscribed(id, s, step)
  PROVE  /\ stored' \subseteq Jobs \X Signals /\ act' \in [Threads -> {Idle} \cup Activity]
<1>1. stored \subseteq Jobs \X Signals /\ act \in [Threads -> {Idle} \cup Activity]
      /\ signal[s] \in Statuses
  BY DEF TypeOK
<1>2. CASE signal[s] = "Pending"
  BY <1>1, <1>2 DEF Subscribed
<1>3. CASE signal[s] # "Pending"
  <2> DEFINE x == [step |-> step, id |-> id, status |-> signal[s], jobs |-> {}]
  <2>1. x \in Activity
    BY <1>1 DEF Activity, Steps
  <2>2. act' = [act EXCEPT ![Submitter] = x] /\ stored' = stored
    BY <1>3 DEF Subscribed
  <2> HIDE DEF x
  <2> QED
    BY <1>1, <2>1, <2>2
<1> QED
  BY <1>2, <1>3

\* A portion in hand has a head, and a range when it is ranged.
LEMMA HeadIn ==
  ASSUME TypeOK, Ordered, Phased, Ranged, batch.pc \in Attaching \cup {"register"}
  PROVE  /\ Head(batch.portion) \in Jobs /\ Head(batch.portion) \in Portion
         /\ Portion # {} /\ batch.portion # <<>>
         /\ batch.pc \in Ranging => /\ RangeOf(Head(batch.portion)) \in Jobs
                                    /\ Only \in Prereqs /\ Only \in Signals
<1>1. batch.portion \in Seq(Jobs) /\ Len(batch.portion) > 0
  BY BatchFields DEF Phased, At
<1>2. Len(batch.portion) \in Nat /\ 1 \in 1 .. Len(batch.portion)
  BY <1>1, LenProperties
<1>3. batch.portion[1] \in ToSet(batch.portion) /\ batch.portion[1] \in Jobs
  BY <1>1, <1>2, Elements
<1>4. Head(batch.portion) = batch.portion[1] /\ batch.portion # <<>>
  BY <1>1, <1>2
<1>5. ASSUME batch.pc \in Ranging
      PROVE  /\ RangeOf(Head(batch.portion)) \in Jobs /\ Only \in Prereqs /\ Only \in Signals
  <2>1. Fanin = 1 /\ range[Head(batch.portion)].jobs = Portion
    BY <1>5 DEF Ranged
  <2>2. \E r \in Jobs : Head(batch.portion) \in range[r].jobs
    BY <1>3, <1>4, <2>1 DEF Portion
  <2>3. RangeOf(Head(batch.portion)) \in Jobs
    BY <2>2 DEF RangeOf
  <2>4. Prereqs # {} /\ Prereqs \subseteq Signals
    BY <2>1, FaninIn
  <2>5. Only \in Prereqs
    BY <2>4 DEF Only
  <2> QED
    BY <2>3, <2>4, <2>5
<1> QED
  BY <1>3, <1>4, <1>5 DEF Portion

\* Types of what no step of the class writes.
Surroundings ==
  /\ options \in [prereqs : SUBSET Signals, successOnly : BOOLEAN]
  /\ phase \in {"Running", "Closed"} /\ abandoned \in BOOLEAN /\ sealed \in BOOLEAN
  /\ signal \in [Signals -> Statuses]
ClassTypes == rec \in [Jobs -> Record] /\ window \in Window /\ doomed \subseteq Jobs
RangeTypes ==
  /\ range \in [Jobs -> Registration]
  /\ stored \subseteq Jobs \X Signals /\ owed \subseteq Jobs \X Signals
  /\ act \in [Threads -> {Idle} \cup Activity]
BatchTypes == batch \in Batch /\ ledger \in Ledger
Settlements == settling \in [Jobs -> {"none", "token", "finish", "finalize", "dispatch"}]

\* The parts of the type invariant.
LEMMA TypeParts ==
  TypeOK <=> Surroundings /\ ClassTypes /\ RangeTypes /\ BatchTypes /\ Settlements
BY DEF TypeOK, Surroundings, ClassTypes, RangeTypes, BatchTypes, Settlements

\* The surroundings keep their types.
LEMMA SurroundingsStep ==
  ASSUME TypeOK, [Next]_vars
  PROVE  Surroundings'
<1>0. Surroundings
  BY TypeParts
<1>1. CASE Submission
  <2>1. UNCHANGED <<options, phase, abandoned, sealed, signal>>
    BY <1>1 DEF Submission, Enter, Admit, Charge, Commit, Recover, Register, Token, SubscribeRange,
         Install, DropUnused, Subscribe, PublishPortion, DispatchPortion
  <2> QED
    BY <1>0, <2>1 DEF Surroundings
<1>2. ASSUME NEW t \in Threads, Activation(t) PROVE Surroundings'
  <2>1. UNCHANGED <<options, phase, abandoned, sealed, signal>>
    BY <1>2 DEF Activation, Deliver, TakeMembers, ActivateRange, DetachNext, ActivateOne,
         ActivateReady, DispatchActivation, Return
  <2> QED
    BY <1>0, <2>1 DEF Surroundings
<1>3. ASSUME NEW j \in Jobs, Settlement(j) \/ Claim(j) \/ EndBody(j) \/ Cancel(j) PROVE Surroundings'
  <2>1. UNCHANGED <<options, phase, abandoned, sealed, signal>>
    BY <1>3 DEF Settlement, Suppress, DropToken, FinishRecord, FinalizeRecord, DispatchFinal, Claim,
         EndBody, Cancel
  <2> QED
    BY <1>0, <2>1 DEF Surroundings
<1>4. ASSUME NEW s \in Signals, Call(s) PROVE Surroundings'
  BY <1>0, <1>4 DEF Call, Surroundings
<1>5. ASSUME NEW s \in Signals, NEW status \in {"Succeeded", "Failed"}, Complete(s, status)
      PROVE  Surroundings'
  BY <1>0, <1>5 DEF Complete, Surroundings, Statuses
<1>6. CASE Seal \/ Close \/ Abandon \/ UNCHANGED vars
  BY <1>0, <1>6 DEF Seal, Close, Abandon, vars, Surroundings
<1> QED
  BY <1>1, <1>2, <1>3, <1>4, <1>5, <1>6 DEF Next

\* Setting one field of a record keeps its type.
LEMMA RecordSet ==
  ASSUME NEW x \in Record
  PROVE  /\ \A b \in BOOLEAN : [x EXCEPT !.token = b] \in Record
         /\ \A b \in BOOLEAN : [x EXCEPT !.member = b] \in Record
         /\ \A b \in BOOLEAN : [x EXCEPT !.deferred = b] \in Record
         /\ \A s \in SUBSET Signals : [x EXCEPT !.subs = s] \in Record
         /\ \A st \in Stages : [x EXCEPT !.stage = st] \in Record
BY DEF Record

\* The records written as constants are records.
LEMMA RecordsIn ==
  ASSUME TypeOK
  PROVE  /\ NoRecord \in Record /\ NewRecord \in Record
         /\ [NewRecord EXCEPT !.stage = "Prepared"] \in Record
         /\ [NoRecord EXCEPT !.stage = "Gone"] \in Record
<1>1. NoRecord \in Record
  BY DEF NoRecord, Record, Stages
<1> DEFINE b == Prereqs = {}
           x == [NoRecord EXCEPT !.stage = "Waiting", !.pending = Fanin, !.attaching = TRUE,
                                 !.reserved = b]
<1>2. b \in BOOLEAN /\ Fanin \in Int
  BY FaninIn
<1> HIDE DEF b
<1>3. x \in Record
  BY <1>1, <1>2 DEF Record, Stages
<1>4. NewRecord = x
  BY DEF NewRecord, b
<1> HIDE DEF x
<1> QED
  BY <1>1, <1>3, <1>4, RecordSet DEF Stages

\* The class state keeps its type.
LEMMA ClassTypesStep ==
  ASSUME BookInv, [Next]_vars
  PROVE  ClassTypes'
<1>0. TypeOK /\ Ordered /\ Phased /\ Ranged /\ ClassOK(Class) /\ ClassTypes /\ Ledgered
  BY TypeParts DEF BookInv
<1>1. ASSUME WrittenOK PROVE ClassTypes'
  BY <1>1 DEF WrittenOK, ClassTypes
<1>2. ASSUME rec' \in [Jobs -> Record], UNCHANGED <<window, doomed>> PROVE ClassTypes'
  BY <1>0, <1>2 DEF ClassTypes
<1>3. CASE Enter \/ Admit \/ SubscribeRange \/ Install \/ DropUnused
  BY <1>0, <1>3 DEF ClassTypes, Enter, Admit, SubscribeRange, Install, DropUnused
<1>4. CASE Charge
  <2>1. CASE sealed \/ Fitting = 0
    BY <1>0, <1>4, <2>1 DEF Charge, ClassTypes
  <2>2. CASE ~sealed /\ Fitting # 0
    <3> DEFINE taken == ToSet(SubSeq(batch.remaining, 1, Fitting))
               x == [NewRecord EXCEPT !.stage = "Prepared"]
    <3>1. rec' = [j \in Jobs |-> IF j \in taken THEN x ELSE rec[j]]
      BY <1>4, <2>2 DEF Charge
    <3>2. x \in Record /\ rec \in [Jobs -> Record]
      BY <1>0, RecordsIn DEF ClassTypes
    <3>3. UNCHANGED <<window, doomed>>
      BY <1>4 DEF Charge
    <3> HIDE DEF taken, x
    <3>4. rec' \in [Jobs -> Record]
      BY <3>1, <3>2
    <3> QED
      BY <1>2, <3>3, <3>4
  <2> QED
    BY <2>1, <2>2
<1>5. CASE Commit
  <2> DEFINE n == IF CommitFailure = "None" THEN Selected ELSE 0
             taken == ToSet(SubSeq(batch.prepared, 1, n))
             w == [window EXCEPT !.attaching = IF Prereqs = {} THEN @ + n ELSE @]
  <2>1. rec' = [j \in Jobs |-> IF j \in taken THEN [rec[j] EXCEPT !.stage = "Waiting"] ELSE rec[j]]
    BY <1>5 DEF Commit
  <2>2. window' = w /\ doomed' = doomed
    BY <1>5 DEF Commit
  <2>3. n \in Nat
    BY <1>0, SelectedIn
  <2> HIDE DEF n
  <2>4. w \in Window
    BY <1>0, <2>3 DEF ClassTypes, Window
  <2> HIDE DEF w, taken
  <2>5. \A j \in Jobs : [rec[j] EXCEPT !.stage = "Waiting"] \in Record
    BY <1>0, RecordSet DEF ClassTypes, Stages
  <2>6. rec' \in [Jobs -> Record]
    BY <1>0, <2>1, <2>5 DEF ClassTypes
  <2> QED
    BY <1>0, <2>2, <2>4, <2>6 DEF ClassTypes
<1>6. CASE Recover
  <2> DEFINE left == ToSet(batch.prepared)
  <2>1. rec' = [j \in Jobs |-> IF j \in left THEN NoRecord ELSE rec[j]] /\ UNCHANGED <<window, doomed>>
    BY <1>6 DEF Recover
  <2> HIDE DEF left
  <2>2. rec' \in [Jobs -> Record]
    BY <1>0, <2>1, RecordsIn DEF ClassTypes
  <2> QED
    BY <1>2, <2>1, <2>2
<1>7. CASE Register
  <2>1. rec' = [j \in Jobs |-> IF j \in Portion THEN [rec[j] EXCEPT !.member = TRUE] ELSE rec[j]]
        /\ UNCHANGED <<window, doomed>>
    BY <1>7 DEF Register
  <2>2. \A j \in Jobs : [rec[j] EXCEPT !.member = TRUE] \in Record
    BY <1>0, RecordSet DEF ClassTypes
  <2>3. rec' \in [Jobs -> Record]
    BY <1>0, <2>1, <2>2 DEF ClassTypes
  <2> QED
    BY <1>2, <2>1, <2>3
<1>8. CASE Token
  <2> DEFINE j == Least(batch.todo)
  <2>1. UNCHANGED <<window, doomed>> /\ (rec' = rec \/ rec' = [rec EXCEPT ![j].token = TRUE])
    BY <1>8 DEF Token
  <2> HIDE DEF j
  <2>2. rec' \in [Jobs -> Record]
    BY <1>0, <2>1, RecordSet DEF ClassTypes
  <2> QED
    BY <1>2, <2>1, <2>2
<1>9. CASE Subscribe
  <2>1. UNCHANGED <<window, doomed>>
    BY <1>9 DEF Subscribe
  <2>2. CASE batch.todo = {}
    <3>1. rec' = rec
      BY <1>9, <2>2 DEF Subscribe
    <3> QED
      BY <1>0, <1>2, <2>1, <3>1 DEF ClassTypes
  <2>3. CASE batch.todo # {}
    <3>1. PICK e \in batch.todo : rec' = [rec EXCEPT ![e[1]].subs = @ \cup {e[2]}]
      BY <1>9, <2>3 DEF Subscribe
    <3>2. e \in Portion \X Prereqs
      BY <1>0, <1>9, <3>1 DEF Ranged, Subscribe
    <3> DEFINE j == e[1]
               p == e[2]
    <3>3. j \in Jobs /\ p \in Signals
      BY <1>0, <3>2, Disjoint, FaninIn
    <3>4. rec' = [rec EXCEPT ![j].subs = @ \cup {p}]
      BY <3>1
    <3> HIDE DEF j, p
    <3>5. rec[j].subs \cup {p} \in SUBSET Signals /\ rec[j] \in Record
      BY <1>0, <3>3, RecordFields DEF ClassTypes
    <3>6. [rec[j] EXCEPT !.subs = @ \cup {p}] \in Record
      BY <3>5, RecordSet
    <3>7. rec' \in [Jobs -> Record]
      BY <1>0, <3>4, <3>6 DEF ClassTypes
    <3> QED
      BY <1>2, <2>1, <3>7
  <2> QED
    BY <2>2, <2>3
<1>10. CASE PublishPortion
  <2> DEFINE k == PublishFold(Class, batch.portion)
             a == Len(batch.accepted)
             m == Len(batch.portion)
             b == a - m
  <2>1. a \in Nat /\ m \in Nat /\ b \in Nat /\ b + m <= N /\ batch.portion = From(b, m)
    <3>1. a \in Nat /\ m \in Nat /\ Len(batch.prepared) \in Nat
      BY <1>0, Stretches
    <3>2. a + Len(batch.prepared) <= N /\ m <= a /\ batch.portion = From(b, m)
      BY <1>0 DEF Ordered
    <3>3. N \in Nat
      BY Constants
    <3> HIDE DEF a, m
    <3> QED
      BY <3>1, <3>2, <3>3
  <2>2. \A j \in Portion : rec[j].stage # "Prepared"
    <3>1. Staged /\ Portion \subseteq Accepted /\ Accepted \subseteq Jobs
      BY <1>0, Disjoint DEF BookInv
    <3> QED
      BY <3>1 DEF Staged, JobStaged, Live
  <2> HIDE DEF a, m, b
  <2>3. WrittenOK
    BY <1>0, <1>10, <2>1, <2>2, PublishEffect
  <2> QED
    BY <1>1, <2>3
<1>11. CASE DispatchPortion
  <2>1. WrittenOK
    BY <1>0, <1>11, DispatchEffect DEF DispatchPortion
  <2> QED
    BY <1>1, <2>1
<1>12. ASSUME NEW s \in Signals, Call(s) \/ \E status \in {"Succeeded", "Failed"} : Complete(s, status)
       PROVE  ClassTypes'
  BY <1>0, <1>12 DEF Call, Complete, ClassTypes
<1>13. ASSUME NEW t \in Threads, Deliver(t) \/ TakeMembers(t) \/ DetachNext(t) \/ Return(t)
       PROVE  ClassTypes'
  BY <1>0, <1>13 DEF Deliver, TakeMembers, DetachNext, Return, ClassTypes
<1>14. ASSUME NEW t \in Threads, ActivateRange(t) PROVE ClassTypes'
  <2>1. act[t].jobs \in SUBSET Jobs
    BY <1>0, <1>14, ActFields DEF ActivateRange, Doing
  <2> QED
    BY <1>0, <1>1, <1>14, <2>1, RangeEffect
<1>15. ASSUME NEW t \in Threads, ActivateOne(t) PROVE ClassTypes'
  <2> DEFINE j == act[t].id
             x == Delivered(rec[j], act[t].status)
  <2>0. UNCHANGED <<window, doomed>>
    BY <1>15 DEF ActivateOne
  <2>1. rec' = rec \/ rec' = [rec EXCEPT ![j] = x]
    <3>1. CASE ~Reached(j)
      BY <1>15, <3>1 DEF ActivateOne
    <3>2. CASE Reached(j)
      BY <1>15, <3>2 DEF ActivateOne
    <3> QED
      BY <3>1, <3>2
  <2>2. j \in Jobs
    BY <1>0, <1>15, ActFields DEF ActivateOne, Doing
  <2>4. x \in Record
    BY <1>0, <2>2, DeliveredForm DEF ClassTypes
  <2> HIDE DEF x
  <2> HIDE DEF j
  <2>5. rec' \in [Jobs -> Record]
    BY <1>0, <2>1, <2>4 DEF ClassTypes
  <2> QED
    BY <1>2, <2>0, <2>5
<1>16. ASSUME NEW t \in Threads, ActivateReady(t) PROVE ClassTypes'
  <2>1. act[t].id \in Jobs
    BY <1>0, <1>16, ActFields DEF ActivateReady, Doing
  <2> QED
    BY <1>0, <1>1, <1>16, <2>1, ReadyEffect
<1>17. ASSUME NEW t \in Threads, DispatchActivation(t) PROVE ClassTypes'
  <2>1. WrittenOK
    BY <1>0, <1>17, DispatchEffect DEF DispatchActivation
  <2> QED
    BY <1>1, <2>1
<1>18. ASSUME NEW j \in Jobs, Suppress(j) PROVE ClassTypes'
  BY <1>0, <1>1, <1>18, SuppressEffect
<1>19. ASSUME NEW j \in Jobs, DropToken(j) PROVE ClassTypes'
  BY <1>0, <1>19 DEF DropToken, ClassTypes
<1>20. ASSUME NEW j \in Jobs, FinishRecord(j) PROVE ClassTypes'
  <2>1. UNCHANGED <<window, doomed>>
        /\ (rec' = [rec EXCEPT ![j].deferred = TRUE] \/ rec' = [rec EXCEPT ![j].subs = {}])
    BY <1>20 DEF FinishRecord
  <2>2. [rec[j] EXCEPT !.deferred = TRUE] \in Record /\ [rec[j] EXCEPT !.subs = {}] \in Record
    BY <1>0, RecordSet DEF ClassTypes
  <2>3. rec' \in [Jobs -> Record]
    BY <1>0, <2>1, <2>2 DEF ClassTypes
  <2> QED
    BY <1>2, <2>1, <2>3
<1>21. ASSUME NEW j \in Jobs, FinalizeRecord(j) PROVE ClassTypes'
  <2> DEFINE x == [NoRecord EXCEPT !.stage = "Gone"]
  <2>1. UNCHANGED <<window, doomed>> /\ rec' = [rec EXCEPT ![j] = x]
    BY <1>21 DEF FinalizeRecord
  <2>2. x \in Record
    BY <1>0, RecordsIn
  <2> HIDE DEF x
  <2>3. rec' \in [Jobs -> Record]
    BY <1>0, <2>1, <2>2 DEF ClassTypes
  <2> QED
    BY <1>2, <2>1, <2>3
<1>22. ASSUME NEW j \in Jobs, DispatchFinal(j) PROVE ClassTypes'
  <2>1. WrittenOK
    BY <1>0, <1>22, DispatchEffect DEF DispatchFinal
  <2> QED
    BY <1>1, <2>1
<1>23. ASSUME NEW j \in Jobs, Claim(j) PROVE ClassTypes'
  BY <1>0, <1>1, <1>23, ClaimEffect
<1>24. ASSUME NEW j \in Jobs, EndBody(j) PROVE ClassTypes'
  <2>1. UNCHANGED <<window, doomed>> /\ rec' = [rec EXCEPT ![j].stage = "Finalizing"]
    BY <1>24 DEF EndBody
  <2>2. [rec[j] EXCEPT !.stage = "Finalizing"] \in Record
    BY <1>0, RecordSet DEF ClassTypes, Stages
  <2>3. rec' \in [Jobs -> Record]
    BY <1>0, <2>1, <2>2 DEF ClassTypes
  <2> QED
    BY <1>2, <2>1, <2>3
<1>25. ASSUME NEW j \in Jobs, Cancel(j) PROVE ClassTypes'
  BY <1>0, <1>25 DEF Cancel, ClassTypes
<1>26. CASE Seal \/ Close \/ Abandon \/ UNCHANGED vars
  BY <1>0, <1>26 DEF Seal, Close, Abandon, vars, ClassTypes
<1> QED
  BY <1>3, <1>4, <1>5, <1>6, <1>7, <1>8, <1>9, <1>10, <1>11, <1>12, <1>13, <1>14, <1>15, <1>16,
     <1>17, <1>18, <1>19, <1>20, <1>21, <1>22, <1>23, <1>24, <1>25, <1>26
  DEF Next, Submission, Activation, Settlement

\* A range keeps its members' names; only Register gives names to one.
LEMMA RangeTypesStep ==
  ASSUME BookInv, [Next]_vars
  PROVE  /\ RangeTypes'
         /\ Register \/ \A q \in Jobs : range'[q].jobs = range[q].jobs
<1> DEFINE SameJobs == \A q \in Jobs : range'[q].jobs = range[q].jobs
<1>0. TypeOK /\ Ordered /\ Phased /\ Ranged /\ RangeTypes
  BY TypeParts DEF BookInv
<1>1. range \in [Jobs -> Registration] /\ act \in [Threads -> {Idle} \cup Activity]
      /\ stored \subseteq Jobs \X Signals /\ owed \subseteq Jobs \X Signals
  BY <1>0 DEF RangeTypes
<1>2. ASSUME range' = range PROVE SameJobs
  BY <1>2
<1>3. CASE UNCHANGED <<range, stored, owed, act>>
  BY <1>0, <1>3 DEF RangeTypes
<1>4. CASE Enter \/ Admit \/ Charge \/ Commit \/ Recover \/ PublishPortion \/ DispatchPortion
  <2>1. UNCHANGED <<range, stored, owed, act>>
    BY <1>4 DEF Enter, Admit, Charge, Commit, Recover, PublishPortion, DispatchPortion
  <2> QED
    BY <1>3, <2>1
<1>5. CASE Register
  <2> DEFINE x == [jobs |-> Portion, members |-> Portion, active |-> Len(batch.portion),
                   delivered |-> FALSE, installing |-> TRUE, handle |-> FALSE]
             h == Head(batch.portion)
  <2>1. UNCHANGED <<stored, owed, act>> /\ (range' = range \/ range' = [range EXCEPT ![h] = x])
    BY <1>5 DEF Register
  <2>20. Portion \subseteq Accepted /\ Accepted \subseteq Jobs
    BY <1>0, Disjoint
  <2>21. Len(batch.portion) \in Nat
    BY <1>0, Stretches
  <2>2. Portion \subseteq Jobs /\ Len(batch.portion) \in Int
    BY <2>20, <2>21
  <2>3. x \in Registration
    BY <2>2 DEF Registration
  <2> HIDE DEF x, h
  <2>4. range' \in [Jobs -> Registration]
    BY <1>1, <2>1, <2>3
  <2> QED
    BY <1>1, <1>5, <2>1, <2>4 DEF RangeTypes
<1>6. CASE Token
  <2>1. UNCHANGED <<owed, act>>
    BY <1>6 DEF Token
  <2> DEFINE j == Least(batch.todo)
  <2>2. CASE rec[j].stage = "Finalizing"
    <3>1. Detach(RangeOf(j), j)
      BY <1>6, <2>2 DEF Token
    <3> HIDE DEF j
    <3>2. range' \in [Jobs -> Registration] /\ SameJobs /\ stored' \subseteq stored
      BY <1>0, <3>1, DetachType
    <3> HIDE DEF SameJobs
    <3> QED
      BY <1>1, <2>1, <3>2 DEF RangeTypes, SameJobs
  <2>3. CASE rec[j].stage # "Finalizing"
    <3>1. UNCHANGED <<range, stored>>
      BY <1>6, <2>3 DEF Token
    <3> QED
      BY <1>3, <2>1, <3>1
  <2> QED
    BY <2>2, <2>3
<1>7. CASE SubscribeRange
  <2>1. UNCHANGED <<range, owed>> /\ Subscribed(RangeOf(Head(batch.portion)), Only, "deliver")
        /\ batch.pc \in Attaching \cup {"register"} /\ batch.pc \in Ranging
    BY <1>7 DEF SubscribeRange, At, Attaching, Ranging
  <2>2. RangeOf(Head(batch.portion)) \in Jobs /\ Only \in Signals
    BY <1>0, <2>1, HeadIn
  <2>3. stored' \subseteq Jobs \X Signals /\ act' \in [Threads -> {Idle} \cup Activity]
    BY <1>0, <2>1, <2>2, SubscribedType
  <2> QED
    BY <1>1, <2>1, <2>3 DEF RangeTypes
<1>8. CASE Install
  <2> DEFINE r == RangeOf(Head(batch.portion))
             h == ~(range[r].delivered \/ range[r].active = 0)
             x == [[range[r] EXCEPT !.installing = FALSE] EXCEPT !.handle = h]
  <2>1. UNCHANGED <<stored, owed, act>>
    BY <1>8 DEF Install
  <2>2. range' = [range EXCEPT ![r].installing = FALSE, ![r].handle = h]
    BY <1>8 DEF Install
  <2>3. r \in Jobs
    BY <1>0, <1>8, HeadIn DEF Install, At, Attaching, Ranging
  <2>4. h \in BOOLEAN /\ range[r] \in Registration
    BY <1>1, <2>3
  <2> HIDE DEF h, r
  <2>5. x \in Registration /\ x.jobs = range[r].jobs
    BY <2>4 DEF Registration
  <2>6. range' = [range EXCEPT ![r] = x]
    BY <1>1, <2>2, <2>3
  <2> HIDE DEF x
  <2>7. range' \in [Jobs -> Registration] /\ SameJobs
    BY <1>1, <2>3, <2>5, <2>6
  <2> HIDE DEF SameJobs
  <2> QED
    BY <1>1, <2>1, <2>7 DEF RangeTypes, SameJobs
<1>9. CASE DropUnused
  <2>1. UNCHANGED <<range, owed, act>> /\ stored' \subseteq stored
    BY <1>9 DEF DropUnused
  <2> QED
    BY <1>1, <2>1 DEF RangeTypes
<1>10. CASE Subscribe
  <2>1. UNCHANGED <<range, owed>>
    BY <1>10 DEF Subscribe
  <2>2. CASE batch.todo = {}
    <3>1. UNCHANGED <<stored, act>>
      BY <1>10, <2>2 DEF Subscribe
    <3> QED
      BY <1>3, <2>1, <3>1
  <2>3. CASE batch.todo # {}
    <3>1. PICK e \in batch.todo : Subscribed(e[1], e[2], "single")
      BY <1>10, <2>3 DEF Subscribe
    <3>2. e \in Portion \X Prereqs
      BY <1>0, <1>10, <3>1 DEF Ranged, Subscribe
    <3>3. e[1] \in Jobs /\ e[2] \in Signals
      BY <1>0, <3>2, Disjoint, FaninIn
    <3>4. stored' \subseteq Jobs \X Signals /\ act' \in [Threads -> {Idle} \cup Activity]
      BY <1>0, <3>1, <3>3, SubscribedType
    <3> QED
      BY <1>1, <2>1, <3>4 DEF RangeTypes
  <2> QED
    BY <2>2, <2>3
<1>11. ASSUME NEW s \in Signals, Call(s) PROVE RangeTypes' /\ SameJobs
  <2>1. UNCHANGED <<range, stored>>
    BY <1>11 DEF Call
  <2>2. PICK c \in owed : /\ owed' = owed \ {c}
                          /\ act' = [act EXCEPT ![s] = [step |-> IF range[c[1]] # NoRange THEN "deliver" ELSE "single",
                                        id |-> c[1], status |-> signal[s], jobs |-> {}]]
    BY <1>11 DEF Call
  <2> DEFINE st == IF range[c[1]] # NoRange THEN "deliver" ELSE "single"
             id == c[1]
             x == [step |-> st, id |-> id, status |-> signal[s], jobs |-> {}]
  <2>3. st \in Steps \ {"idle"}
    BY DEF Steps
  <2>4. id \in Jobs /\ signal[s] \in Statuses
    BY <1>0, <1>1, <2>2 DEF TypeOK
  <2>5. act' = [act EXCEPT ![s] = x] /\ owed' \subseteq owed
    BY <2>2
  <2> HIDE DEF st, id
  <2>6. x \in Activity
    BY <2>3, <2>4 DEF Activity
  <2> HIDE DEF x
  <2>7. act' \in [Threads -> {Idle} \cup Activity]
    BY <1>1, <2>5, <2>6
  <2> QED
    BY <1>1, <2>1, <2>5, <2>7 DEF RangeTypes
<1>12. ASSUME NEW s \in Signals, NEW status \in {"Succeeded", "Failed"}, Complete(s, status)
       PROVE  RangeTypes' /\ SameJobs
  BY <1>1, <1>12 DEF Complete, RangeTypes
<1>13. ASSUME NEW t \in Threads, NEW st \in Steps \ {"idle"}, act[t].step # "idle", Then(t, st)
       PROVE  act' \in [Threads -> {Idle} \cup Activity]
  <2>1. act[t] \in Activity
    BY <1>0, <1>13, ActFields
  <2>2. [act[t] EXCEPT !.step = st] \in Activity
    BY <2>1, <1>13 DEF Activity
  <2> QED
    BY <1>1, <1>13, <2>2 DEF Then
<1>14. ASSUME NEW t \in Threads, Deliver(t) PROVE RangeTypes' /\ SameJobs
  <2> DEFINE r == act[t].id
  <2>1. UNCHANGED owed /\ r \in Jobs /\ act[t].step # "idle" /\ "take" \in Steps \ {"idle"}
    BY <1>0, <1>14, ActFields DEF Deliver, Doing, Steps
  <2>2. CASE range[r].delivered
    <3>1. act' = [act EXCEPT ![t] = Idle] /\ UNCHANGED <<range, stored>>
      BY <1>14, <2>2 DEF Deliver
    <3> QED
      BY <1>1, <2>1, <3>1 DEF RangeTypes
  <2>3. CASE ~range[r].delivered
    <3> DEFINE x == [[range[r] EXCEPT !.delivered = TRUE] EXCEPT !.handle = FALSE]
    <3>1. Then(t, "take") /\ range' = [range EXCEPT ![r].delivered = TRUE, ![r].handle = FALSE]
      BY <1>14, <2>3 DEF Deliver
    <3>6. stored' \subseteq stored
      BY <1>14, <2>3 DEF Deliver
    <3>2. range[r] \in Registration
      BY <1>1, <2>1
    <3> HIDE DEF r
    <3>3. x \in Registration /\ x.jobs = range[r].jobs
      BY <3>2 DEF Registration
    <3>4. range' = [range EXCEPT ![r] = x]
      BY <1>1, <2>1, <3>1
    <3> HIDE DEF x
    <3>5. range' \in [Jobs -> Registration] /\ SameJobs
      BY <1>1, <2>1, <3>3, <3>4
    <3>7. act' \in [Threads -> {Idle} \cup Activity]
      BY <1>13, <2>1, <3>1
    <3> HIDE DEF SameJobs
    <3> QED
      BY <1>1, <2>1, <3>5, <3>6, <3>7 DEF RangeTypes
  <2> QED
    BY <2>2, <2>3
<1>15. ASSUME NEW t \in Threads, TakeMembers(t) PROVE RangeTypes' /\ SameJobs
  <2> DEFINE r == act[t].id
             st == IF range[r].members = {} THEN "stop" ELSE "activate"
             y == [[act[t] EXCEPT !.jobs = range[r].members] EXCEPT !.step = st]
             x == [range[r] EXCEPT !.members = {}]
  <2>1. UNCHANGED <<owed, stored>> /\ r \in Jobs /\ act[t] \in Activity
    BY <1>0, <1>15, ActFields DEF TakeMembers, Doing
  <2>2. range' = [range EXCEPT ![r].members = {}]
        /\ act' = [act EXCEPT ![t].jobs = range[r].members, ![t].step = st]
    BY <1>15 DEF TakeMembers
  <2>3. st \in Steps \ {"idle"} /\ range[r] \in Registration
    BY <1>1, <2>1 DEF Steps
  <2> HIDE DEF st, r
  <2>4. range[r].members \in SUBSET Jobs
    BY <2>3 DEF Registration
  <2>5. y \in Activity
    BY <2>1, <2>3, <2>4 DEF Activity
  <2>6. x \in Registration /\ x.jobs = range[r].jobs
    BY <2>3 DEF Registration
  <2>7. range' = [range EXCEPT ![r] = x] /\ act' = [act EXCEPT ![t] = y]
    BY <1>1, <2>1, <2>2
  <2> HIDE DEF x, y
  <2>8. range' \in [Jobs -> Registration] /\ SameJobs
    BY <1>1, <2>1, <2>6, <2>7
  <2>9. act' \in [Threads -> {Idle} \cup Activity]
    BY <1>1, <2>5, <2>7
  <2> HIDE DEF SameJobs
  <2> QED
    BY <1>1, <2>1, <2>8, <2>9 DEF RangeTypes
<1>16. ASSUME NEW t \in Threads, ActivateRange(t) PROVE RangeTypes' /\ SameJobs
  <2> DEFINE u == {j \in {i \in act[t].jobs : Reached(i)} : rec[j].token}
             y == [[act[t] EXCEPT !.step = "detach"] EXCEPT !.jobs = u]
  <2>1. UNCHANGED <<range, stored, owed>> /\ act[t] \in Activity /\ act[t].jobs \in SUBSET Jobs
    BY <1>0, <1>16, ActFields DEF ActivateRange, Doing
  <2>2. act' = [act EXCEPT ![t].step = "detach", ![t].jobs = u]
    BY <1>16 DEF ActivateRange
  <2>3. u \in SUBSET Jobs /\ "detach" \in Steps \ {"idle"}
    BY <2>1 DEF Steps
  <2> HIDE DEF u
  <2>4. y \in Activity
    BY <2>1, <2>3 DEF Activity
  <2>5. act' = [act EXCEPT ![t] = y]
    BY <1>1, <2>2
  <2> HIDE DEF y
  <2>6. act' \in [Threads -> {Idle} \cup Activity]
    BY <1>1, <2>4, <2>5
  <2> QED
    BY <1>1, <2>1, <2>6 DEF RangeTypes
<1>17. ASSUME NEW t \in Threads, DetachNext(t) PROVE RangeTypes' /\ SameJobs
  <2>1. UNCHANGED owed /\ act[t] \in Activity /\ act[t].step # "idle" /\ "dispatch" \in Steps \ {"idle"}
    BY <1>0, <1>17, ActFields DEF DetachNext, Doing, Steps
  <2>2. CASE act[t].jobs = {}
    <3>1. Then(t, "dispatch") /\ UNCHANGED <<range, stored>>
      BY <1>17, <2>2 DEF DetachNext
    <3>2. act' \in [Threads -> {Idle} \cup Activity]
      BY <1>13, <2>1, <3>1
    <3> QED
      BY <1>1, <2>1, <3>1, <3>2 DEF RangeTypes
  <2>3. CASE act[t].jobs # {}
    <3> DEFINE j == Least(act[t].jobs)
               y == [act[t] EXCEPT !.jobs = @ \ {j}]
    <3>1. Detach(act[t].id, j) /\ act' = [act EXCEPT ![t].jobs = @ \ {j}]
      BY <1>17, <2>3 DEF DetachNext
    <3> HIDE DEF j
    <3>2. range' \in [Jobs -> Registration] /\ SameJobs /\ stored' \subseteq stored
      BY <1>0, <3>1, DetachType
    <3> HIDE DEF SameJobs
    <3>3. y \in Activity
      BY <2>1 DEF Activity
    <3>4. act' \in [Threads -> {Idle} \cup Activity]
      BY <1>1, <3>1, <3>3
    <3> QED
      BY <1>1, <2>1, <3>2, <3>4 DEF RangeTypes, SameJobs
  <2> QED
    BY <2>2, <2>3
<1>18. ASSUME NEW t \in Threads, ActivateOne(t) \/ ActivateReady(t) \/ DispatchActivation(t)
       PROVE  RangeTypes' /\ SameJobs
  <2>1. UNCHANGED <<range, stored, owed>> /\ act[t].step # "idle"
    BY <1>18 DEF ActivateOne, ActivateReady, DispatchActivation, Doing
  <2>2. Then(t, "stop") \/ Then(t, "ready") \/ Then(t, "dispatch")
    BY <1>18 DEF ActivateOne, ActivateReady, DispatchActivation
  <2>3. {"stop", "ready", "dispatch"} \subseteq Steps \ {"idle"}
    BY DEF Steps
  <2>4. act' \in [Threads -> {Idle} \cup Activity]
    BY <1>13, <2>1, <2>2, <2>3
  <2> QED
    BY <1>1, <2>1, <2>4 DEF RangeTypes
<1>19. ASSUME NEW t \in Threads, Return(t) PROVE RangeTypes' /\ SameJobs
  BY <1>1, <1>19 DEF Return, RangeTypes
<1>20. ASSUME NEW j \in Jobs, DropToken(j) PROVE RangeTypes' /\ SameJobs
  <2>1. UNCHANGED <<owed, act>> /\ Detach(RangeOf(j), j)
    BY <1>20 DEF DropToken
  <2>2. range' \in [Jobs -> Registration] /\ SameJobs /\ stored' \subseteq stored
    BY <1>0, <2>1, DetachType
  <2> HIDE DEF SameJobs
  <2> QED
    BY <1>1, <2>1, <2>2 DEF RangeTypes
<1>21. ASSUME NEW j \in Jobs, FinishRecord(j) PROVE RangeTypes' /\ SameJobs
  <2>1. UNCHANGED <<range, owed, act>> /\ stored' \subseteq stored
    BY <1>21 DEF FinishRecord
  <2> QED
    BY <1>1, <2>1 DEF RangeTypes
<1>22. ASSUME NEW j \in Jobs,
              Suppress(j) \/ FinalizeRecord(j) \/ DispatchFinal(j) \/ Claim(j) \/ EndBody(j) \/ Cancel(j)
       PROVE  RangeTypes' /\ SameJobs
  <2>1. UNCHANGED <<range, stored, owed, act>>
    BY <1>22 DEF Suppress, FinalizeRecord, DispatchFinal, Claim, EndBody, Cancel
  <2> QED
    BY <1>0, <2>1 DEF RangeTypes
<1>23. CASE Seal \/ Close \/ Abandon \/ UNCHANGED vars
  <2>1. UNCHANGED <<range, stored, owed, act>>
    BY <1>23 DEF Seal, Close, Abandon, vars
  <2> QED
    BY <1>3, <2>1
<1> QED
  BY <1>4, <1>5, <1>6, <1>7, <1>8, <1>9, <1>10, <1>11, <1>12, <1>14, <1>15, <1>16,
     <1>17, <1>18, <1>19, <1>20, <1>21, <1>22, <1>23
  DEF Next, Submission, Activation, Settlement

\* A stretch up to N is a sequence of jobs.
LEMMA FromJobs ==
  ASSUME NEW b \in Nat, NEW n \in Nat, b + n <= N
  PROVE  From(b, n) \in Seq(Jobs)
<1>1. \A i \in 1 .. n : b + i \in Jobs
  BY Constants DEF Jobs
<1>2. From(b, n) \in [1 .. n -> Jobs]
  BY <1>1 DEF From
<1> QED
  BY <1>2

\* What a refund of n charges leaves.
LEMMA RefundIn ==
  ASSUME TypeOK, NEW n \in Nat
  PROVE  /\ Refund(n) \in Ledger
         /\ Refund(n).records = ledger.records - n /\ Refund(n).edges = ledger.edges - n * Fanin
         /\ Refund(n).admissions = ledger.admissions - n
         /\ Refund(n).slots = ledger.slots /\ Refund(n).members = ledger.members
<1> DEFINE x == n * Fanin
<1>1. x \in Int
  BY FaninIn, ProductIn
<1>2. Refund(n) = [ledger EXCEPT !.records = @ - n, !.edges = @ - x, !.admissions = @ - n]
  BY DEF Refund
<1>3. ledger \in Ledger
  BY DEF TypeOK
<1> HIDE DEF x
<1> DEFINE u == ledger.records - n
           v == ledger.edges - x
           w == ledger.admissions - n
<1>4. u \in Int /\ v \in Int /\ w \in Int
  BY <1>1, LedgerFields
<1>5. Refund(n) = [ledger EXCEPT !.records = u, !.edges = v, !.admissions = w]
  BY <1>2, <1>3 DEF Ledger
<1> HIDE DEF u, v, w
<1>6. /\ Refund(n) \in Ledger
      /\ Refund(n).records = u /\ Refund(n).edges = v /\ Refund(n).admissions = w
      /\ Refund(n).slots = ledger.slots /\ Refund(n).members = ledger.members
  BY <1>3, <1>4, <1>5 DEF Ledger
<1> QED
  BY <1>6 DEF u, v, w, x

\* The batch and its ledger keep their types.
LEMMA BatchTypesStep ==
  ASSUME BookInv, [Next]_vars
  PROVE  BatchTypes'
<1>0. TypeOK /\ Ordered /\ Phased /\ Ranged /\ Ledgered /\ ClassOK(Class)
  BY DEF BookInv
<1>1. batch \in Batch /\ ledger \in Ledger /\ Fanin \in Nat
  BY <1>0, FaninIn DEF TypeOK
<1>2. /\ \A pc \in Places : [batch EXCEPT !.pc = pc] \in Batch
      /\ \A pc \in Places : \A f \in {"None", "TooLarge", "Closed", "InvalidGroup", "Full"} : [batch EXCEPT !.pc = pc, !.failure = f] \in Batch
  BY <1>1 DEF Batch
<1>3. /\ {"next", "charge", "done", "commit", "recover", "register", "tokens", "range", "install",
          "unused", "subscribe", "publish", "dispatch"} \subseteq Places
  BY DEF Places, Before, Early, Attaching
<1>4. CommitFailure \in {"None", "TooLarge", "Closed", "InvalidGroup", "Full"}
  BY DEF CommitFailure
<1>5. \A pc \in Places : Go(pc) => batch' \in Batch
  BY <1>2 DEF Go
<1>6. \A f \in {"TooLarge", "Closed", "InvalidGroup", "Full"} : Refuse(f) => batch' \in Batch
  <2> TAKE f \in {"TooLarge", "Closed", "InvalidGroup", "Full"}
  <2>1. [batch EXCEPT !.pc = "done", !.failure = f] \in Batch
    BY <1>2, <1>3
  <2> QED
    BY <2>1 DEF Refuse
<1>7. Maximum \in Nat /\ Fitting \in Nat
  BY <1>0, FittingIn
<1>8. batch.reserve \in Int /\ Len(batch.portion) \in Nat /\ Len(batch.prepared) \in Nat
  BY <1>0, BatchFields, Stretches
<1>9. CASE Enter
  <2>1. ledger' = ledger /\ (Refuse("TooLarge") \/ Go("next"))
    BY <1>9 DEF Enter
  <2> QED
    BY <1>1, <1>3, <1>5, <1>6, <2>1 DEF BatchTypes
<1>10. CASE Admit
  <2>1. /\ ledger' = ledger \/ ledger' = [ledger EXCEPT !.admissions = @ + Maximum]
        /\ Refuse("Closed") \/ Go("done") \/ Go("charge")
    BY <1>10 DEF Admit
  <2> HIDE DEF Maximum
  <2>2. ledger' \in Ledger
    BY <1>1, <1>7, <2>1 DEF Ledger
  <2> QED
    BY <1>3, <1>5, <1>6, <2>1, <2>2 DEF BatchTypes
<1>11. CASE Charge
  <2>1. CASE sealed \/ Fitting = 0
    <3>1. /\ ledger' = [ledger EXCEPT !.admissions = @ - Maximum]
          /\ Refuse("InvalidGroup") \/ Refuse("Full")
      BY <1>11, <2>1 DEF Charge
    <3>2. ledger' \in Ledger
      BY <1>1, <1>7, <3>1 DEF Ledger
    <3> QED
      BY <1>6, <3>1, <3>2 DEF BatchTypes
  <2>2. CASE ~(sealed \/ Fitting = 0)
    <3> DEFINE a == Len(batch.accepted)
               n == Fitting
    <3>1. ledger' = [records |-> ledger.records + n, edges |-> ledger.edges + n * Fanin,
                     admissions |-> ledger.admissions - Maximum + n,
                     slots |-> ledger.slots + n, members |-> ledger.members]
      BY <1>11, <2>2 DEF Charge
    <3>2. /\ a \in Nat /\ n \in Nat /\ a + n <= N
          /\ batch' = [batch EXCEPT !.pc = "commit", !.reserve = n, !.prepared = From(a, n),
                                    !.remaining = From(a + n, N - (a + n))]
      BY <1>11, <2>2, ChargeEffect
    <3> HIDE DEF n, a
    <3>3. n * Fanin \in Nat
      BY <3>2, <1>1, ProductIn
    <3>4. ledger' \in Ledger
      BY <1>1, <1>7, <3>1, <3>2, <3>3 DEF Ledger
    <3>5. a + n \in Nat /\ N - (a + n) \in Nat /\ (a + n) + (N - (a + n)) <= N
      BY <3>2, Constants
    <3>6. From(a, n) \in Seq(Jobs) /\ From(a + n, N - (a + n)) \in Seq(Jobs)
      BY <3>2, <3>5, FromJobs
    <3> DEFINE x == From(a, n)
               y == From(a + n, N - (a + n))
    <3>8. x \in Seq(Jobs) /\ y \in Seq(Jobs) /\ n \in Int /\ "commit" \in Places
          /\ batch' = [batch EXCEPT !.pc = "commit", !.reserve = n, !.prepared = x, !.remaining = y]
      BY <1>3, <3>2, <3>6
    <3> HIDE DEF x, y
    <3>7. batch' \in Batch
      BY <1>1, <3>8 DEF Batch
    <3> QED
      BY <3>4, <3>7 DEF BatchTypes
  <2> QED
    BY <2>1, <2>2
<1>12. CASE Commit
  <2> DEFINE a == Len(batch.accepted)
             p == Len(batch.prepared)
             n == IF CommitFailure = "None" THEN Selected ELSE 0
  <2>1. /\ a \in Nat /\ p \in Nat /\ n \in Nat /\ n <= p /\ a + p <= N
        /\ batch' = [batch EXCEPT !.pc = "recover", !.failure = CommitFailure,
                                  !.prepared = From(a + n, p - n), !.portion = From(a, n),
                                  !.accepted = From(0, a + n)]
    BY <1>12, CommitEffect
  <2>2. ledger' = [ledger EXCEPT !.members = @ + n]
    BY <1>12 DEF Commit
  <2> HIDE DEF a, p, n
  <2>3. ledger' \in Ledger
    BY <1>1, <2>1, <2>2 DEF Ledger
  <2>4. /\ a + n \in Nat /\ p - n \in Nat /\ (a + n) + (p - n) <= N /\ 0 \in Nat
        /\ 0 + (a + n) <= N /\ a + n <= N
    BY <2>1, Constants
  <2>5. From(a, n) \in Seq(Jobs) /\ From(a + n, p - n) \in Seq(Jobs) /\ From(0, a + n) \in Seq(Jobs)
    BY <2>1, <2>4, FromJobs
  <2>6. batch' \in Batch
    BY <1>1, <1>3, <1>4, <2>1, <2>5 DEF Batch
  <2> QED
    BY <2>3, <2>6 DEF BatchTypes
<1>13. CASE Recover
  <2> DEFINE a == Len(batch.accepted)
             x == IF batch.failure = "None" THEN batch.reserve ELSE 0
             y == Len(batch.prepared)
             pc == IF batch.failure = "None" THEN "register" ELSE "done"
  <2>1. /\ a \in Nat /\ a <= N
        /\ batch' = [batch EXCEPT !.pc = pc, !.prepared = From(a, 0), !.remaining = From(a, N - a),
                                  !.reserve = IF batch.failure = "None" THEN @ ELSE 0]
    <3> DEFINE p == Len(batch.prepared)
    <3>1. /\ a \in Nat /\ p \in Nat /\ a + p <= N
          /\ batch' = [batch EXCEPT !.pc = pc, !.prepared = From(a, 0), !.remaining = From(a, N - a),
                                    !.reserve = IF batch.failure = "None" THEN @ ELSE 0]
      BY <1>13, RecoverEffect
    <3> HIDE DEF a, p, pc
    <3>2. a <= N
      BY <3>1, Constants
    <3> QED
      BY <3>1, <3>2
  <2>2. ledger' = [Refund(y) EXCEPT !.slots = IF batch.failure = "None" THEN @ ELSE @ - batch.reserve]
    BY <1>13 DEF Recover
  <2>3. x \in Int /\ y \in Nat /\ pc \in Places
    BY <1>3, <1>8
  <2> HIDE DEF a, y
  <2>5. Refund(y) \in Ledger
    BY <1>0, <2>3, RefundIn
  <2> DEFINE g == Refund(y)
  <2>4. g \in Ledger /\ ledger' = [g EXCEPT !.slots = IF batch.failure = "None" THEN @ ELSE @ - batch.reserve]
    BY <2>2, <2>5
  <2> HIDE DEF g
  <2>6. ledger' \in Ledger
    BY <1>8, <2>4 DEF Ledger
  <2>7. a + 0 <= N /\ 0 \in Nat /\ N - a \in Nat /\ a + (N - a) <= N
    BY <2>1, Constants
  <2>8. From(a, 0) \in Seq(Jobs) /\ From(a, N - a) \in Seq(Jobs)
    BY <2>1, <2>7, FromJobs
  <2>9. batch' = [batch EXCEPT !.pc = pc, !.prepared = From(a, 0), !.remaining = From(a, N - a),
                               !.reserve = x]
    BY <1>1, <2>1 DEF Batch
  <2> HIDE DEF x, pc
  <2>10. batch' \in Batch
    BY <1>1, <2>3, <2>8, <2>9 DEF Batch
  <2> QED
    BY <2>6, <2>10 DEF BatchTypes
<1>14. CASE Register
  <2> DEFINE td == IF batch.reserve >= 2 /\ Fanin = 1 THEN Portion ELSE Portion \X Prereqs
             pc == IF batch.reserve >= 2 /\ Fanin = 1 THEN "tokens" ELSE "subscribe"
  <2>1. /\ ledger' = [ledger EXCEPT !.slots = @ - batch.reserve + Len(batch.portion)]
        /\ batch' = [batch EXCEPT !.pc = pc, !.reserve = 0, !.todo = td]
    BY <1>14 DEF Register
  <2>2. ledger' \in Ledger
    BY <1>1, <1>8, <2>1 DEF Ledger
  <2>3. Portion \subseteq Jobs /\ Prereqs \subseteq Signals
    BY <1>0, Disjoint, FaninIn
  <2>4. td \in SUBSET (Jobs \cup Jobs \X Signals) /\ pc \in Places /\ 0 \in Int
    BY <1>3, <2>3
  <2> HIDE DEF td, pc
  <2>5. batch' \in Batch
    BY <1>1, <2>1, <2>4 DEF Batch
  <2> QED
    BY <2>2, <2>5 DEF BatchTypes
<1>15. CASE Token
  <2> DEFINE j == Least(batch.todo)
             pc == IF batch.todo = {j} THEN "range" ELSE "tokens"
  <2>1. ledger' = ledger /\ batch' = [batch EXCEPT !.todo = @ \ {j}, !.pc = pc]
    BY <1>15 DEF Token
  <2>2. pc \in Places
    BY <1>3
  <2> HIDE DEF j, pc
  <2>3. batch' \in Batch
    BY <1>1, <2>1, <2>2 DEF Batch
  <2> QED
    BY <1>1, <2>1, <2>3 DEF BatchTypes
<1>16. CASE SubscribeRange \/ Install \/ DropUnused \/ PublishPortion
  <2>1. ledger' = ledger /\ (Go("install") \/ Go("unused") \/ Go("publish") \/ Go("dispatch"))
    BY <1>16 DEF SubscribeRange, Install, DropUnused, PublishPortion
  <2> QED
    BY <1>1, <1>3, <1>5, <2>1 DEF BatchTypes
<1>17. CASE Subscribe
  <2>1. ledger' = ledger
    BY <1>17 DEF Subscribe
  <2>2. Go("publish") \/ \E e \in batch.todo : batch' = [batch EXCEPT !.todo = @ \ {e}]
    BY <1>17 DEF Subscribe
  <2>3. ASSUME NEW e, batch' = [batch EXCEPT !.todo = @ \ {e}] PROVE batch' \in Batch
    BY <1>1, <2>3 DEF Batch
  <2> QED
    BY <1>1, <1>3, <1>5, <2>1, <2>2, <2>3 DEF BatchTypes
<1>18. CASE DispatchPortion
  <2>1. ledger' = ledger /\ batch' = [batch EXCEPT !.pc = "next", !.portion = <<>>]
    BY <1>18 DEF DispatchPortion
  <2>2. batch' \in Batch
    BY <1>1, <1>3, <2>1, EmptyElements DEF Batch
  <2> QED
    BY <1>1, <2>1, <2>2 DEF BatchTypes
<1>19. CASE Outside
  <2>1. batch' = batch
    BY <1>19, OutsideSteps
  <2>2. ledger' = ledger \/ \E j \in Jobs : FinalizeRecord(j)
    BY <1>19, LedgerSteps DEF Outside, Settlement
  <2>3. ASSUME NEW j \in Jobs, FinalizeRecord(j) PROVE ledger' \in Ledger
    <3>1. ledger' = [Refund(1) EXCEPT !.slots = @ - 1, !.members = @ - 1]
      BY <2>3 DEF FinalizeRecord
    <3> DEFINE g == Refund(1)
    <3>2. g \in Ledger /\ ledger' = [g EXCEPT !.slots = @ - 1, !.members = @ - 1]
      BY <1>0, <3>1, RefundIn
    <3> HIDE DEF g
    <3> DEFINE u == g.slots - 1
               v == g.members - 1
    <3>3. u \in Int /\ v \in Int /\ ledger' = [g EXCEPT !.slots = u, !.members = v]
      BY <3>2 DEF Ledger
    <3> HIDE DEF u, v
    <3> QED
      BY <3>2, <3>3 DEF Ledger
  <2> QED
    BY <1>1, <2>1, <2>2, <2>3 DEF BatchTypes
<1> QED
  BY <1>9, <1>10, <1>11, <1>12, <1>13, <1>14, <1>15, <1>16, <1>17, <1>18, <1>19, OutsideSteps
  DEF Submission

\* The settlements keep their types.
LEMMA SettlementsStep ==
  ASSUME TypeOK, [Next]_vars
  PROVE  Settlements'
<1> DEFINE Marks == {"none", "token", "finish", "finalize", "dispatch"}
<1>1. settling \in [Jobs -> Marks]
  BY DEF TypeOK
<1>2. ASSUME NEW j \in Jobs, NEW x \in Marks, settling' = [settling EXCEPT ![j] = x] PROVE Settlements'
  BY <1>1, <1>2 DEF Settlements
<1>3. CASE PublishPortion
  <2>1. settling' = [j \in Jobs |-> IF j \in Portion /\ rec[j].deferred THEN "finish" ELSE settling[j]]
    BY <1>3 DEF PublishPortion
  <2> QED
    BY <1>1, <2>1 DEF Settlements
<1>4. ASSUME NEW j \in Jobs, Suppress(j) PROVE Settlements'
  <2> DEFINE x == IF rec[j].token THEN "token" ELSE "finish"
  <2>1. settling' = settling \/ settling' = [settling EXCEPT ![j] = x]
    BY <1>4 DEF Suppress
  <2>2. x \in Marks
    OBVIOUS
  <2> HIDE DEF x
  <2> QED
    BY <1>1, <1>2, <2>1, <2>2 DEF Settlements
<1>5. ASSUME NEW j \in Jobs, DropToken(j) \/ FinishRecord(j) \/ FinalizeRecord(j) \/ DispatchFinal(j) \/ EndBody(j)
      PROVE  Settlements'
  <2>1. \E x \in Marks : settling' = [settling EXCEPT ![j] = x]
    BY <1>5 DEF DropToken, FinishRecord, FinalizeRecord, DispatchFinal, EndBody
  <2> QED
    BY <1>2, <2>1
<1>6. ASSUME UNCHANGED settling PROVE Settlements'
  BY <1>1, <1>6 DEF Settlements
<1>7. [Next]_vars => \/ PublishPortion \/ UNCHANGED settling
                     \/ \E j \in Jobs : Suppress(j) \/ DropToken(j) \/ FinishRecord(j) \/ FinalizeRecord(j)
                                          \/ DispatchFinal(j) \/ EndBody(j)
  <2>1. Submission => PublishPortion \/ UNCHANGED settling
    BY DEF Submission, Enter, Admit, Charge, Commit, Recover, Register, Token, SubscribeRange,
      Install, DropUnused, Subscribe, DispatchPortion
  <2>2. ASSUME NEW s \in Signals, Call(s) \/ \E status \in {"Succeeded", "Failed"} : Complete(s, status)
        PROVE  UNCHANGED settling
    BY <2>2 DEF Call, Complete
  <2>3. ASSUME NEW t \in Threads, Activation(t) PROVE UNCHANGED settling
    BY <2>3 DEF Activation, Deliver, TakeMembers, ActivateRange, DetachNext, ActivateOne,
         ActivateReady, DispatchActivation, Return
  <2>4. ASSUME NEW j \in Jobs, Claim(j) \/ Cancel(j) PROVE UNCHANGED settling
    BY <2>4 DEF Claim, Cancel
  <2>5. Seal \/ Close \/ Abandon \/ UNCHANGED vars => UNCHANGED settling
    BY DEF Seal, Close, Abandon, vars
  <2> QED
    BY <2>1, <2>2, <2>3, <2>4, <2>5 DEF Next, Settlement
<1> QED
  BY <1>3, <1>4, <1>5, <1>6, <1>7

\* Every step keeps every type.
LEMMA TypeStep ==
  ASSUME BookInv, [Next]_vars
  PROVE  TypeOK'
<1>1. TypeOK
  BY DEF BookInv
<1>2. Surroundings' /\ ClassTypes' /\ RangeTypes' /\ BatchTypes' /\ Settlements'
  BY <1>1, SurroundingsStep, ClassTypesStep, RangeTypesStep, BatchTypesStep, SettlementsStep
<1>3. TypeOK' <=> (Surroundings /\ ClassTypes /\ RangeTypes /\ BatchTypes /\ Settlements)'
  BY TypeParts, PTL
<1> QED
  BY <1>2, <1>3

\* The options are fixed.
LEMMA OptionsStep ==
  ASSUME [Next]_vars
  PROVE  options' = options /\ Prereqs' = Prereqs /\ Fanin' = Fanin
<1>1. options' = options
  <2>1. Submission => options' = options
    BY DEF Submission, Enter, Admit, Charge, Commit, Recover, Register, Token, SubscribeRange,
      Install, DropUnused, Subscribe, PublishPortion, DispatchPortion
  <2>2. ASSUME NEW s \in Signals, Call(s) \/ \E status \in {"Succeeded", "Failed"} : Complete(s, status)
        PROVE  options' = options
    BY <2>2 DEF Call, Complete
  <2>3. ASSUME NEW t \in Threads, Activation(t) PROVE options' = options
    BY <2>3 DEF Activation, Deliver, TakeMembers, ActivateRange, DetachNext, ActivateOne,
         ActivateReady, DispatchActivation, Return
  <2>4. ASSUME NEW j \in Jobs, Settlement(j) \/ Claim(j) \/ EndBody(j) \/ Cancel(j) PROVE options' = options
    BY <2>4 DEF Settlement, Suppress, DropToken, FinishRecord, FinalizeRecord, DispatchFinal, Claim,
         EndBody, Cancel
  <2>5. Seal \/ Close \/ Abandon \/ UNCHANGED vars => options' = options
    BY DEF Seal, Close, Abandon, vars
  <2> QED
    BY <2>1, <2>2, <2>3, <2>4, <2>5 DEF Next
<1> QED
  BY <1>1 DEF Prereqs, Fanin

\* Every step keeps what is in hand for a range.
LEMMA RangedStep ==
  ASSUME BookInv, [Next]_vars
  PROVE  Ranged'
<1>0. TypeOK /\ Ordered /\ Phased /\ Ranged /\ batch \in Batch
  BY DEF BookInv, TypeOK
<1>1. Prereqs' = Prereqs /\ Fanin' = Fanin
  BY OptionsStep
<1>2. ASSUME ~At("register") PROVE \A q \in Jobs : range'[q].jobs = range[q].jobs
  BY <1>2, RangeTypesStep DEF Register
<1>3. ASSUME batch'.pc \notin Ranging, ~At("subscribe")' PROVE Ranged'
  BY <1>3 DEF Ranged, At, Ranging
<1>4. CASE Outside
  <2>1. batch' = batch
    BY <1>4, OutsideSteps
  <2>2. CASE At("register")
    BY <1>3, <2>1, <2>2 DEF At, Ranging
  <2>3. CASE ~At("register")
    <3>1. batch.pc \in Ranging => Head(batch.portion) \in Jobs
      BY <1>0, HeadIn DEF Ranging, Attaching
    <3> QED
      BY <1>0, <1>1, <1>2, <2>1, <2>3, <3>1 DEF Ranged, Portion, At
  <2> QED
    BY <2>2, <2>3
<1>5. CASE Enter \/ Admit \/ Charge \/ Commit \/ Recover \/ DropUnused \/ PublishPortion \/ DispatchPortion
  <2>1. batch'.pc \in {"done", "next", "charge", "commit", "recover", "register", "publish", "dispatch"}
    BY <1>0, <1>5 DEF Enter, Admit, Charge, Commit, Recover, DropUnused, PublishPortion, DispatchPortion,
      Refuse, Go, Batch
  <2> QED
    BY <1>3, <2>1 DEF At, Ranging
<1>6. CASE Register
  <2>1. SameOrder
    BY <1>0, <1>6, SubmissionSteps
  <2>2. /\ Head(batch.portion) \in Jobs /\ Portion # {}
        /\ range \in [Jobs -> Registration]
    BY <1>0, <1>6, HeadIn DEF Register, At, TypeOK
  <2>3. Portion' = Portion /\ Head(batch'.portion) = Head(batch.portion)
    BY <2>1 DEF SameOrder, Portion
  <2>4. CASE batch.reserve >= 2 /\ Fanin = 1
    <3> DEFINE h == Head(batch.portion)
               x == [jobs |-> Portion, members |-> Portion, active |-> Len(batch.portion),
                     delivered |-> FALSE, installing |-> TRUE, handle |-> FALSE]
    <3>1. batch'.pc = "tokens" /\ batch'.todo = Portion /\ range' = [range EXCEPT ![h] = x]
      BY <1>0, <1>6, <2>4 DEF Register, Batch
    <3>2. range'[h].jobs = Portion
      BY <2>2, <3>1
    <3> QED
      BY <1>1, <2>2, <2>3, <2>4, <3>1, <3>2 DEF Ranged, At, Ranging
  <2>5. CASE ~(batch.reserve >= 2 /\ Fanin = 1)
    <3>1. batch'.pc = "subscribe" /\ batch'.todo = Portion \X Prereqs
      BY <1>0, <1>6, <2>5 DEF Register, Batch
    <3> QED
      BY <1>1, <2>3, <3>1 DEF Ranged, At, Ranging
  <2> QED
    BY <2>4, <2>5
<1>7. CASE Token \/ SubscribeRange \/ Install
  <2>1. /\ batch.pc \in Ranging /\ ~At("register") /\ SameOrder /\ Head(batch.portion) \in Jobs
    <3>1. batch.pc \in {"tokens", "range", "install"}
      BY <1>7 DEF Token, SubscribeRange, Install, At
    <3>2. SameOrder
      BY <1>0, <1>7, SubmissionSteps
    <3> QED
      BY <1>0, <3>1, <3>2, HeadIn DEF Ranging, Attaching, At
  <2>2. Portion' = Portion /\ Head(batch'.portion) = Head(batch.portion)
    BY <2>1 DEF SameOrder, Portion
  <2>3. Fanin' = 1 /\ range'[Head(batch'.portion)].jobs = Portion'
    BY <1>0, <1>1, <1>2, <2>1, <2>2 DEF Ranged
  <2>4. CASE Token
    <3> DEFINE j == Least(batch.todo)
    <3>1. batch'.todo = batch.todo \ {j} /\ (batch'.pc = "tokens" => batch.todo # {j})
          /\ batch'.pc \in {"tokens", "range"} /\ batch.todo \subseteq Portion /\ batch.todo # {}
      BY <1>0, <2>4 DEF Token, Batch, Ranged
    <3> HIDE DEF j
    <3>2. batch'.pc = "tokens" => batch'.todo \subseteq Portion /\ batch'.todo # {}
      BY <3>1
    <3> QED
      BY <2>2, <2>3, <3>1, <3>2 DEF Ranged, At
  <2>5. CASE SubscribeRange \/ Install
    <3>1. batch'.pc \in {"install", "unused", "publish"}
      BY <1>0, <2>5 DEF SubscribeRange, Install, Go, Batch
    <3> QED
      BY <2>3, <3>1 DEF Ranged, At
  <2> QED
    BY <1>7, <2>4, <2>5
<1>8. CASE Subscribe
  <2>1. SameOrder /\ Portion' = Portion
    BY <1>0, <1>8, SubmissionSteps DEF SameOrder, Portion
  <2>2. CASE batch.todo = {}
    <3>1. batch'.pc = "publish"
      BY <1>0, <1>8, <2>2 DEF Subscribe, Go, Batch
    <3> QED
      BY <1>3, <3>1 DEF At, Ranging
  <2>3. CASE batch.todo # {}
    <3>1. batch'.pc = "subscribe" /\ batch'.todo \subseteq batch.todo /\ batch.todo \subseteq Portion \X Prereqs
      BY <1>0, <1>8, <2>3 DEF Subscribe, Batch, Ranged, At
    <3> QED
      BY <1>1, <2>1, <3>1 DEF Ranged, At, Ranging
  <2> QED
    BY <2>2, <2>3
<1> QED
  BY <1>4, <1>5, <1>6, <1>7, <1>8, OutsideSteps DEF Submission

-----------------------------------------------------------------------------
(* The stages of the jobs, step by step *)

Marks == {"none", "token", "finish", "finalize", "dispatch"}
LivesIn(x) == x.stage \in LiveStages

\* JobStaged, of a record and a settlement at a spot of the batch: accepted,
\* prepared, being attached, or accepted and not yet registered.
JobFits(x, s, acc, prep, att, early) ==
  /\ ~acc /\ ~prep => x = NoRecord
  /\ prep => x = [NewRecord EXCEPT !.stage = "Prepared"]
  /\ ~acc => s = "none"
  /\ acc => LivesIn(x) \/ x.stage = "Gone"
  /\ x.attaching <=> prep \/ att
  /\ x.attaching => x.stage \in {"Prepared", "Waiting", "Finalizing"}
  /\ x.reserved <=> x.attaching /\ Prereqs = {}
  /\ x.member <=> LivesIn(x) /\ ~early
  /\ x.deferred => x.attaching /\ x.stage = "Finalizing" /\ s = "none"
  /\ s \in {"token", "finish", "finalize"} => x.stage = "Finalizing"
  /\ s = "finalize" => ~x.attaching
  /\ s = "dispatch" => x.stage = "Gone"
  /\ x.stage = "Finalizing" => x.deferred \/ s # "none"

Fits(j) ==
  JobFits(rec[j], settling[j], j \in Accepted, j \in Prepared, j \in Portion /\ ~At("dispatch"),
          j \in Portion /\ batch.pc \in Early)

\* JobFits, at the spot where the job is, is JobStaged.
LEMMA FitsIsStaged == \A j : Fits(j) <=> JobStaged(j)
BY DEF Fits, JobFits, JobStaged, LivesIn, LiveStages, Live

\* Every job fits where it is.
LEMMA StagedFits ==
  ASSUME BookInv, NEW j \in Jobs
  PROVE  /\ Fits(j) /\ rec[j] \in Record /\ settling[j] \in Marks
         /\ (j \in Accepted) \in BOOLEAN /\ (j \in Prepared) \in BOOLEAN
BY FitsIsStaged DEF BookInv, Staged, TypeOK, Marks

\* A job that was alive still is, and a member still is one.
Lived(x, y) == (LivesIn(y) <=> LivesIn(x)) /\ y.member = x.member

\* Two records with the same stage and the same rest are one.
LEMMA Unmoved ==
  ASSUME NEW x \in Record, NEW y \in Record, Kept(x, y), y.stage = x.stage
  PROVE  y = x
BY DEF Record, Kept

\* What is prepared or outside has no other stage.
LEMMA FitStage ==
  ASSUME NEW x, NEW s, NEW acc \in BOOLEAN, NEW prep \in BOOLEAN, NEW att \in BOOLEAN,
         NEW early \in BOOLEAN, JobFits(x, s, acc, prep, att, early)
  PROVE  /\ x.stage \notin {"Out", "Prepared"} => acc /\ ~prep
         /\ prep => x.stage = "Prepared"
         /\ ~acc /\ ~prep => x.stage = "Out"
<1>1. NoRecord.stage = "Out" /\ [NewRecord EXCEPT !.stage = "Prepared"].stage = "Prepared"
  BY DEF NewRecord, NoRecord
<1>2. prep => x.stage = "Prepared"
  BY <1>1 DEF JobFits
<1>3. ~acc /\ ~prep => x.stage = "Out"
  BY <1>1 DEF JobFits
<1> QED
  BY <1>2, <1>3

\* A job promoted from the backlog fits where it was.
LEMMA FitMoved ==
  ASSUME NEW x \in Record, NEW y \in Record, Moved(x, y), NEW s, NEW acc \in BOOLEAN,
         NEW prep \in BOOLEAN, NEW att \in BOOLEAN, NEW early \in BOOLEAN,
         JobFits(x, s, acc, prep, att, early)
  PROVE  JobFits(y, s, acc, prep, att, early) /\ Lived(x, y)
<1>1. CASE y.stage = x.stage
  BY <1>1, Unmoved DEF Moved, Lived
<1>2. CASE y.stage # x.stage
  <2>1. Kept(x, y) /\ x.stage = "Deferred" /\ y.stage = "Ready"
    BY <1>2 DEF Moved
  <2>2. acc /\ ~prep
    BY <2>1, FitStage
  <2> QED
    BY <2>1, <2>2 DEF JobFits, Kept, Lived, LivesIn, LiveStages
<1> QED
  BY <1>1, <1>2

\* A job reached by a delivery fits where it was.
LEMMA FitWaiting ==
  ASSUME NEW x \in Record, NEW y \in Record, NEW s \in Marks, NEW acc \in BOOLEAN,
         NEW prep \in BOOLEAN, NEW att \in BOOLEAN, NEW early \in BOOLEAN,
         JobFits(x, s, acc, prep, att, early), x.stage = "Waiting",
         y.stage \in {"Waiting", "Ready", "Deferred"}, x.attaching => y.stage = "Waiting",
         y.attaching = x.attaching, y.reserved = x.reserved, y.deferred = x.deferred,
         y.member = x.member
  PROVE  JobFits(y, s, acc, prep, att, early) /\ Lived(x, y)
<1>1. acc /\ ~prep
  BY FitStage
<1>2. s = "none" /\ ~x.deferred
  BY DEF JobFits, Marks
<1> QED
  BY <1>1, <1>2 DEF JobFits, Lived, LivesIn, LiveStages

\* A job suppressed fits where it was.
LEMMA FitSuppressed ==
  ASSUME NEW x \in Record, NEW y \in Record, NEW s \in Marks, NEW acc \in BOOLEAN,
         NEW prep \in BOOLEAN, NEW att \in BOOLEAN, NEW early \in BOOLEAN,
         JobFits(x, s, acc, prep, att, early), x.stage \in {"Waiting", "Deferred", "Ready"},
         SuppressedAs(x, y), NEW u \in {"token", "finish"}
  PROVE  JobFits(y, u, acc, prep, att, early) /\ Lived(x, y)
<1>1. acc /\ ~prep
  BY FitStage
<1>2. ~x.deferred
  BY DEF JobFits
<1> QED
  BY <1>1, <1>2 DEF JobFits, Lived, LivesIn, LiveStages, SuppressedAs

\* The publication of a member that is being attached.
LEMMA FitPublished ==
  ASSUME NEW x \in Record, NEW y \in Record, NEW s \in Marks,
         JobFits(x, s, TRUE, FALSE, TRUE, FALSE), NEW dooms, PublishedAs(x, y, dooms)
  PROVE  /\ JobFits(y, IF x.deferred THEN "finish" ELSE s, TRUE, FALSE, FALSE, FALSE)
         /\ Lived(x, y)
<1>1. /\ ~y.attaching /\ ~y.reserved /\ ~y.deferred /\ y.member = x.member
      /\ y.stage = x.stage \/ (x.stage = "Waiting" /\ y.stage \in {"Waiting", "Ready", "Deferred"})
  BY DEF PublishedAs, OpenedAs, Completed
<1>2. x.stage \in {"Waiting", "Finalizing"} /\ LivesIn(y) /\ LivesIn(x) /\ x.attaching
  BY <1>1 DEF JobFits, LivesIn, LiveStages
<1>3. x.stage = "Waiting" => s = "none" /\ ~x.deferred
  BY <1>2 DEF JobFits, Marks
<1>4. x.stage = "Finalizing" => y.stage = "Finalizing" /\ (x.deferred \/ s \in {"token", "finish"})
  BY <1>1, <1>2 DEF JobFits, Marks
<1> QED
  BY <1>1, <1>2, <1>3, <1>4 DEF JobFits, Lived

-----------------------------------------------------------------------------
\* Every job is at the spot of the batch where it was.
SameSpots ==
  \A j \in Jobs :
    /\ j \in Accepted' <=> j \in Accepted
    /\ j \in Prepared' <=> j \in Prepared
    /\ j \in Portion' /\ batch'.pc # "dispatch" <=> j \in Portion /\ ~At("dispatch")
    /\ j \in Portion' /\ batch'.pc \in Early <=> j \in Portion /\ batch.pc \in Early

\* Steps of the submitter that leave every job at its spot.
LEMMA SpotsOfSubmission ==
  ASSUME TypeOK, Phased,
         Enter \/ Admit \/ Token \/ SubscribeRange \/ Install \/ DropUnused \/ Subscribe \/ DispatchPortion
  PROVE  SameSpots
<1>1. batch \in Batch
  BY DEF TypeOK
<1>2. CASE Enter \/ Admit
  <2>1. batch.pc \in Before /\ SameOrder
    BY <1>2, SubmissionSteps DEF Enter, Admit, At, Before
  <2>2. Len(batch.portion) = 0
    BY <2>1 DEF Phased
  <2>3. Portion = {}
    BY <1>1, <2>2, Elements DEF Batch, Portion
  <2> QED
    BY <2>1, <2>3 DEF SameOrder, SameSpots, Accepted, Prepared, Portion
<1>3. CASE Token \/ SubscribeRange \/ Install \/ DropUnused \/ Subscribe
  <2>1. SameOrder
    BY <1>3, SubmissionSteps
  <2>2. batch.pc \in Attaching \ {"dispatch"}
    BY <1>3 DEF Token, SubscribeRange, Install, DropUnused, Subscribe, At, Attaching
  <2>3. batch'.pc \in Attaching \ {"dispatch"}
    BY <1>1, <1>3 DEF Token, SubscribeRange, Install, DropUnused, Subscribe, At, Attaching, Go, Batch
  <2>4. batch.pc \notin Early /\ batch'.pc \notin Early
    BY <2>2, <2>3 DEF Attaching, Early
  <2> QED
    BY <2>1, <2>2, <2>3, <2>4 DEF SameOrder, SameSpots, Accepted, Prepared, Portion, At
<1>4. CASE DispatchPortion
  <2>1. batch.pc = "dispatch" /\ batch' = [batch EXCEPT !.pc = "next", !.portion = <<>>]
    BY <1>4 DEF DispatchPortion, At
  <2>2. /\ batch'.accepted = batch.accepted /\ batch'.prepared = batch.prepared
        /\ batch'.portion = <<>> /\ batch'.pc = "next"
    BY <1>1, <2>1 DEF Batch
  <2>3. Portion' = {}
    BY <2>2, EmptyElements DEF Portion
  <2> QED
    BY <2>1, <2>2, <2>3 DEF SameSpots, Accepted, Prepared, At, Early
<1> QED
  BY <1>2, <1>3, <1>4

\* So do the steps of everybody else.
LEMMA SpotsOutside ==
  ASSUME UNCHANGED batch
  PROVE  SameSpots
BY DEF SameSpots, Accepted, Prepared, Portion, At

\* A job that fits at its next spot is staged in the next state.
LEMMA FitsNext ==
  ASSUME [Next]_vars, NEW j \in Jobs,
         JobFits(rec'[j], settling'[j], j \in Accepted', j \in Prepared',
                 j \in Portion' /\ batch'.pc # "dispatch", j \in Portion' /\ batch'.pc \in Early)
  PROVE  JobStaged(j)'
<1>1. Prereqs' = Prereqs /\ Fanin' = Fanin
  BY OptionsStep
<1>2. NewRecord' = NewRecord
  BY <1>1 DEF NewRecord
<1> QED
  BY <1>1, <1>2 DEF JobFits, JobStaged, LivesIn, LiveStages, Live, At

\* At the same spot, what fits by itself is staged.
LEMMA FitsThere ==
  ASSUME BookInv, [Next]_vars, SameSpots, NEW j \in Jobs,
         \A acc, prep, att, early \in BOOLEAN :
           JobFits(rec[j], settling[j], acc, prep, att, early)
             => JobFits(rec'[j], settling'[j], acc, prep, att, early) /\ Lived(rec[j], rec'[j])
  PROVE  JobStaged(j)' /\ Lived(rec[j], rec'[j])
<1> DEFINE acc == j \in Accepted
           prep == j \in Prepared
           att == j \in Portion /\ ~At("dispatch")
           early == j \in Portion /\ batch.pc \in Early
<1>1. JobFits(rec[j], settling[j], acc, prep, att, early)
  BY StagedFits DEF Fits
<1>2. acc \in BOOLEAN /\ prep \in BOOLEAN /\ att \in BOOLEAN /\ early \in BOOLEAN
  OBVIOUS
<1>3. /\ acc <=> j \in Accepted'
      /\ prep <=> j \in Prepared'
      /\ att <=> j \in Portion' /\ batch'.pc # "dispatch"
      /\ early <=> j \in Portion' /\ batch'.pc \in Early
  BY DEF SameSpots
<1> HIDE DEF acc, prep, att, early
<1>4. JobFits(rec'[j], settling'[j], acc, prep, att, early) /\ Lived(rec[j], rec'[j])
  BY <1>1, <1>2
<1>5. JobFits(rec'[j], settling'[j], j \in Accepted', j \in Prepared',
              j \in Portion' /\ batch'.pc # "dispatch", j \in Portion' /\ batch'.pc \in Early)
  BY <1>3, <1>4 DEF JobFits
<1> QED
  BY <1>4, <1>5, FitsNext

\* A change of the other fields leaves a job where it fits.
LEMMA FitSame ==
  ASSUME NEW x \in Record, NEW y \in Record, NEW s \in Marks, NEW acc \in BOOLEAN,
         NEW prep \in BOOLEAN, NEW att \in BOOLEAN, NEW early \in BOOLEAN,
         JobFits(x, s, acc, prep, att, early), x.stage \notin {"Out", "Prepared"},
         y.stage = x.stage, y.attaching = x.attaching, y.reserved = x.reserved,
         y.deferred = x.deferred, y.member = x.member
  PROVE  JobFits(y, s, acc, prep, att, early) /\ Lived(x, y)
<1>1. acc /\ ~prep
  BY FitStage
<1> QED
  BY <1>1 DEF JobFits, Lived, LivesIn, LiveStages

\* A running job: claimed, and then to be settled.
LEMMA FitClaimed ==
  ASSUME NEW x \in Record, NEW y \in Record, NEW s \in Marks, NEW acc \in BOOLEAN,
         NEW prep \in BOOLEAN, NEW att \in BOOLEAN, NEW early \in BOOLEAN,
         JobFits(x, s, acc, prep, att, early), Kept(x, y)
  PROVE  /\ x.stage = "Ready" /\ y.stage = "Running"
              => JobFits(y, s, acc, prep, att, early) /\ Lived(x, y)
         /\ x.stage = "Running" /\ y.stage = "Finalizing"
              => JobFits(y, "finish", acc, prep, att, early) /\ Lived(x, y)
<1>1. x.stage \in {"Ready", "Running"} => acc /\ ~prep
  BY FitStage
<1>2. CASE x.stage = "Ready" /\ y.stage = "Running"
  BY <1>1, <1>2 DEF JobFits, Kept, Lived, LivesIn, LiveStages
<1>3. CASE x.stage = "Running" /\ y.stage = "Finalizing"
  BY <1>1, <1>3 DEF JobFits, Kept, Lived, LivesIn, LiveStages
<1> QED
  BY <1>2, <1>3

\* The settlement goes on: the token, the result held back, the registrations,
\* the dispatch after the end.
LEMMA FitSettled ==
  ASSUME NEW x \in Record, NEW acc \in BOOLEAN, NEW prep \in BOOLEAN, NEW att \in BOOLEAN,
         NEW early \in BOOLEAN
  PROVE  /\ JobFits(x, "token", acc, prep, att, early) => JobFits(x, "finish", acc, prep, att, early)
         /\ JobFits(x, "dispatch", acc, prep, att, early) => JobFits(x, "none", acc, prep, att, early)
<1>1. ASSUME JobFits(x, "token", acc, prep, att, early) PROVE JobFits(x, "finish", acc, prep, att, early)
  BY <1>1 DEF JobFits
<1>2. ASSUME JobFits(x, "dispatch", acc, prep, att, early) PROVE JobFits(x, "none", acc, prep, att, early)
  BY <1>2 DEF JobFits
<1> QED
  BY <1>1, <1>2

\* A result held back for the publication.
HeldBack(x, y) ==
  /\ y.stage = x.stage /\ y.attaching = x.attaching /\ y.reserved = x.reserved /\ y.member = x.member
  /\ x.attaching = TRUE /\ y.deferred = TRUE
LEMMA FitHeld ==
  ASSUME NEW x \in Record, NEW y \in Record, NEW acc \in BOOLEAN, NEW prep \in BOOLEAN,
         NEW att \in BOOLEAN, NEW early \in BOOLEAN, JobFits(x, "finish", acc, prep, att, early),
         HeldBack(x, y)
  PROVE  JobFits(y, "none", acc, prep, att, early) /\ Lived(x, y)
<1>1. x.stage = "Finalizing"
  BY DEF JobFits
<1>2. acc /\ ~prep
  BY <1>1, FitStage
<1> QED
  BY <1>1, <1>2 DEF HeldBack, JobFits, Lived, LivesIn, LiveStages

\* A result that need not wait for the publication.
LEMMA FitFinished ==
  ASSUME NEW x \in Record, NEW y \in Record, NEW acc \in BOOLEAN, NEW prep \in BOOLEAN,
         NEW att \in BOOLEAN, NEW early \in BOOLEAN, JobFits(x, "finish", acc, prep, att, early),
         y.stage = x.stage, y.attaching = x.attaching, y.reserved = x.reserved, y.member = x.member,
         ~x.attaching, y.deferred = x.deferred
  PROVE  JobFits(y, "finalize", acc, prep, att, early) /\ Lived(x, y)
<1>1. x.stage = "Finalizing"
  BY DEF JobFits
<1>2. acc /\ ~prep
  BY <1>1, FitStage
<1> QED
  BY <1>1, <1>2 DEF JobFits, Lived, LivesIn, LiveStages

\* The members of the portion are accepted, those prepared are not.
LEMMA SpotsIn ==
  ASSUME BookInv
  PROVE  /\ \A j \in Portion : j \in Accepted /\ j \in Jobs /\ rec[j].stage \notin {"Out", "Prepared"}
         /\ \A j \in Prepared : j \notin Accepted /\ j \in Jobs
         /\ \A j \in Accepted : j \in Jobs
<1>1. TypeOK /\ Ordered /\ Staged
  BY DEF BookInv
<1>2. /\ Accepted \subseteq Jobs /\ Prepared \subseteq Jobs /\ Portion \subseteq Accepted
      /\ Accepted \cap Prepared = {}
  BY <1>1, Disjoint
<1> QED
  BY <1>1, <1>2 DEF Staged, JobStaged, Live

\* The steps that move no job in the batch and end none.
PlainSubmission ==
  Enter \/ Admit \/ Token \/ SubscribeRange \/ Install \/ DropUnused \/ Subscribe \/ DispatchPortion
Plain ==
  \/ PlainSubmission
  \/ \E s \in Signals : Call(s) \/ \E status \in {"Succeeded", "Failed"} : Complete(s, status)
  \/ \E t \in Threads : Activation(t)
  \/ \E j \in Jobs : \/ Suppress(j) \/ DropToken(j) \/ FinishRecord(j) \/ DispatchFinal(j)
                     \/ Claim(j) \/ EndBody(j) \/ Cancel(j)
  \/ Seal \/ Close \/ Abandon \/ UNCHANGED vars

\* Whatever spot of the batch a job fits, it fits after the step.
StillFits(j) ==
  \A acc, prep, att, early \in BOOLEAN :
    JobFits(rec[j], settling[j], acc, prep, att, early)
      => JobFits(rec'[j], settling'[j], acc, prep, att, early) /\ Lived(rec[j], rec'[j])

\* A job that was promoted still fits.
LEMMA StillMoved ==
  ASSUME TypeOK, NEW j \in Jobs, rec' \in [Jobs -> Record], Moved(rec[j], rec'[j]),
         settling'[j] = settling[j] \/ (settling[j] = "dispatch" /\ settling'[j] = "none")
  PROVE  StillFits(j)
<1> SUFFICES ASSUME NEW acc \in BOOLEAN, NEW prep \in BOOLEAN, NEW att \in BOOLEAN, NEW early \in BOOLEAN,
                    JobFits(rec[j], settling[j], acc, prep, att, early)
             PROVE  JobFits(rec'[j], settling'[j], acc, prep, att, early) /\ Lived(rec[j], rec'[j])
  BY DEF StillFits
<1>1. rec[j] \in Record /\ rec'[j] \in Record
  BY DEF TypeOK
<1>2. JobFits(rec[j], settling'[j], acc, prep, att, early)
  BY <1>1, FitSettled
<1> QED
  BY <1>1, <1>2, FitMoved

\* A job with the same stage and marks still fits.
LEMMA StillSame ==
  ASSUME TypeOK, NEW j \in Jobs, rec' \in [Jobs -> Record], rec[j].stage \notin {"Out", "Prepared"},
         rec'[j].stage = rec[j].stage, rec'[j].attaching = rec[j].attaching,
         rec'[j].reserved = rec[j].reserved, rec'[j].deferred = rec[j].deferred,
         rec'[j].member = rec[j].member, settling'[j] = settling[j]
  PROVE  StillFits(j)
<1>1. rec[j] \in Record /\ rec'[j] \in Record /\ settling[j] \in Marks
  BY DEF TypeOK, Marks
<1> QED
  BY <1>1, FitSame DEF StillFits

\* A job reached by a delivery still fits.
LEMMA StillWaiting ==
  ASSUME TypeOK, NEW j \in Jobs, rec' \in [Jobs -> Record], rec[j].stage = "Waiting",
         rec'[j].stage \in {"Waiting", "Ready", "Deferred"}, rec[j].attaching => rec'[j].stage = "Waiting",
         rec'[j].attaching = rec[j].attaching,
         rec'[j].reserved = rec[j].reserved, rec'[j].deferred = rec[j].deferred,
         rec'[j].member = rec[j].member, settling'[j] = settling[j]
  PROVE  StillFits(j)
<1>1. rec[j] \in Record /\ rec'[j] \in Record /\ settling[j] \in Marks
  BY DEF TypeOK, Marks
<1> QED
  BY <1>1, FitWaiting DEF StillFits

\* A job not touched still fits.
LEMMA StillThere ==
  ASSUME TypeOK, NEW j \in Jobs, rec' \in [Jobs -> Record], rec'[j] = rec[j], settling'[j] = settling[j]
  PROVE  StillFits(j)
<1>1. Moved(rec[j], rec'[j])
  BY DEF Moved, Kept
<1> QED
  BY <1>1, StillMoved

\* Every job still fits after a plain step.
LEMMA PlainKeeps ==
  ASSUME BookInv, [Next]_vars, Plain, rec' \in [Jobs -> Record]
  PROVE  \A j \in Jobs : StillFits(j)
<1> DEFINE Keep == \A j \in Jobs : StillFits(j)
<1>0. TypeOK /\ Ordered /\ Phased /\ Ranged /\ ClassOK(Class) /\ rec \in [Jobs -> Record]
      /\ settling \in [Jobs -> Marks]
  BY DEF BookInv, TypeOK, Marks
<1>1. ASSUME rec' = rec, settling' = settling PROVE Keep
  BY <1>0, <1>1, StillThere
<1>2. ASSUME \A i \in Jobs : Moved(rec[i], rec'[i]), settling' = settling PROVE Keep
  BY <1>0, <1>2, StillMoved
<1>3. ASSUME NEW j \in Jobs, \A i \in Jobs \ {j} : rec'[i] = rec[i], StillFits(j),
             \A i \in Jobs \ {j} : settling'[i] = settling[i]
      PROVE  Keep
  <2>1. ASSUME NEW i \in Jobs \ {j} PROVE StillFits(i)
    BY <1>0, <1>3, <2>1, StillThere
  <2> QED
    BY <1>3, <2>1
<1>30. ASSUME NEW j \in Jobs, rec[j].stage \notin {"Out", "Prepared"}, settling' = settling,
              \E b \in BOOLEAN : rec' = [rec EXCEPT ![j].token = b]
       PROVE  Keep
  <2>1. PICK b \in BOOLEAN : rec' = [rec EXCEPT ![j].token = b]
    BY <1>30
  <2>2. rec[j] \in Record
    BY <1>0
  <2> DEFINE x == [rec[j] EXCEPT !.token = b]
  <2>3. /\ x.stage = rec[j].stage /\ x.attaching = rec[j].attaching /\ x.reserved = rec[j].reserved
        /\ x.deferred = rec[j].deferred /\ x.member = rec[j].member
    BY <2>2 DEF Record
  <2>4. rec' = [rec EXCEPT ![j] = x]
    BY <1>0, <2>1
  <2> HIDE DEF x
  <2>5. rec'[j] = x /\ \A i \in Jobs \ {j} : rec'[i] = rec[i]
    BY <1>0, <2>4
  <2>6. StillFits(j)
    BY <1>0, <1>30, <2>3, <2>5, StillSame
  <2> QED
    BY <1>3, <1>30, <2>5, <2>6
<1>4. CASE Enter \/ Admit \/ SubscribeRange \/ Install \/ DropUnused
  <2>1. rec' = rec /\ settling' = settling
    BY <1>4 DEF Enter, Admit, SubscribeRange, Install, DropUnused
  <2> QED
    BY <1>1, <2>1
<1>5. CASE Token
  <2> DEFINE j == Least(batch.todo)
  <2>1. settling' = settling /\ (rec' = rec \/ rec' = [rec EXCEPT ![j].token = TRUE])
    BY <1>5 DEF Token
  <2>2. batch.todo \subseteq Portion /\ batch.todo # {} /\ Portion \subseteq Jobs
    BY <1>0, <1>5, Disjoint DEF Token, Ranged
  <2>3. j \in Portion
    BY <2>2, LeastIn
  <2>4. j \in Jobs /\ rec[j].stage \notin {"Out", "Prepared"}
    BY <2>3, SpotsIn
  <2> HIDE DEF j
  <2>5. TRUE \in BOOLEAN
    OBVIOUS
  <2> QED
    BY <1>1, <1>30, <2>1, <2>4, <2>5
<1>6. CASE Subscribe
  <2>0. settling' = settling
    BY <1>6 DEF Subscribe
  <2>1. CASE batch.todo = {}
    BY <1>1, <1>6, <2>0, <2>1 DEF Subscribe
  <2>2. CASE batch.todo # {}
    <3>1. PICK e \in batch.todo : rec' = [rec EXCEPT ![e[1]].subs = @ \cup {e[2]}]
      BY <1>6, <2>2 DEF Subscribe
    <3>2. e \in Portion \X Prereqs
      BY <1>0, <1>6, <3>1 DEF Ranged, Subscribe
    <3> DEFINE j == e[1]
               p == e[2]
               x == [rec[j] EXCEPT !.subs = @ \cup {p}]
    <3>3. j \in Jobs /\ rec[j].stage \notin {"Out", "Prepared"}
      BY <3>2, SpotsIn
    <3>4. rec' = [rec EXCEPT ![j].subs = @ \cup {p}]
      BY <3>1
    <3> HIDE DEF j, p
    <3>5. rec[j] \in Record /\ rec' = [rec EXCEPT ![j] = x]
      BY <1>0, <3>3, <3>4
    <3>6. /\ x.stage = rec[j].stage /\ x.attaching = rec[j].attaching /\ x.reserved = rec[j].reserved
          /\ x.deferred = rec[j].deferred /\ x.member = rec[j].member
      BY <3>5 DEF Record
    <3> HIDE DEF x
    <3>7. rec'[j] = x /\ \A i \in Jobs \ {j} : rec'[i] = rec[i]
      BY <1>0, <3>5
    <3>8. StillFits(j)
      BY <1>0, <2>0, <3>3, <3>6, <3>7, StillSame
    <3> QED
      BY <1>3, <2>0, <3>3, <3>7, <3>8
  <2> QED
    BY <2>1, <2>2
<1>7. CASE DispatchPortion
  <2>1. \A i \in Jobs : Moved(rec[i], rec'[i])
    BY <1>0, <1>7, DispatchEffect DEF DispatchPortion
  <2>2. settling' = settling
    BY <1>7 DEF DispatchPortion
  <2> QED
    BY <1>2, <2>1, <2>2
<1>8. ASSUME NEW s \in Signals, Call(s) \/ \E status \in {"Succeeded", "Failed"} : Complete(s, status)
      PROVE  Keep
  <2>1. rec' = rec /\ settling' = settling
    BY <1>8 DEF Call, Complete
  <2> QED
    BY <1>1, <2>1
<1>9. ASSUME NEW t \in Threads, Deliver(t) \/ TakeMembers(t) \/ DetachNext(t) \/ Return(t)
      PROVE  Keep
  <2>1. rec' = rec /\ settling' = settling
    BY <1>9 DEF Deliver, TakeMembers, DetachNext, Return
  <2> QED
    BY <1>1, <2>1
<1>10. ASSUME NEW t \in Threads, ActivateRange(t) PROVE Keep
  <2> DEFINE reached == {j \in act[t].jobs : Reached(j)}
  <2>1. act[t].jobs \in SUBSET Jobs
    BY <1>0, <1>10, ActFields DEF ActivateRange, Doing
  <2>2. /\ \A i \in Jobs \ reached : rec'[i] = rec[i]
        /\ \A i \in reached : ReachedAs(rec[i], rec'[i], act[t].status, i \in doomed')
    BY <1>0, <1>10, <2>1, RangeEffect
  <2>3. settling' = settling
    BY <1>10 DEF ActivateRange
  <2>4. \A i \in reached : i \in Jobs /\ rec[i].stage = "Waiting"
    BY <2>1 DEF Reached
  <2> HIDE DEF reached
  <2>5. ASSUME NEW i \in reached PROVE StillFits(i)
    BY <1>0, <2>2, <2>3, <2>4, <2>5, StillWaiting DEF ReachedAs, DeliveredAs, CountedAs
  <2>6. ASSUME NEW i \in Jobs \ reached PROVE StillFits(i)
    BY <1>0, <2>2, <2>3, <2>6, StillThere
  <2> QED
    BY <2>5, <2>6
<1>11. ASSUME NEW t \in Threads, ActivateOne(t) PROVE Keep
  <2> DEFINE j == act[t].id
             x == Delivered(rec[j], act[t].status)
  <2>1. settling' = settling
    BY <1>11 DEF ActivateOne
  <2>2. CASE ~Reached(j)
    BY <1>1, <1>11, <2>1, <2>2 DEF ActivateOne
  <2>3. CASE Reached(j)
    <3>1. rec' = [rec EXCEPT ![j] = x]
      BY <1>11, <2>3 DEF ActivateOne
    <3>2. j \in Jobs /\ rec[j].stage = "Waiting"
      BY <1>0, <1>11, <2>3, ActFields DEF ActivateOne, Doing, Reached
    <3>3. x.stage = rec[j].stage /\ CountedAs(rec[j], x, act[t].status)
      BY <1>0, <3>2, DeliveredForm
    <3> HIDE DEF x, j
    <3>4. rec'[j] = x /\ \A i \in Jobs \ {j} : rec'[i] = rec[i]
      BY <1>0, <3>1, <3>2
    <3>5. StillFits(j)
      BY <1>0, <2>1, <3>2, <3>3, <3>4, StillSame DEF CountedAs
    <3> QED
      BY <1>3, <2>1, <3>2, <3>4, <3>5
  <2> QED
    BY <2>2, <2>3
<1>12. ASSUME NEW t \in Threads, ActivateReady(t) PROVE Keep
  <2> DEFINE j == act[t].id
             due == rec[j].stage = "Waiting" /\ rec[j].pending = 0 /\ ~rec[j].attaching
  <2>1. settling' = settling /\ j \in Jobs
    BY <1>0, <1>12, ActFields DEF ActivateReady, Doing
  <2>2. /\ \A i \in Jobs \ {j} : rec'[i] = rec[i]
        /\ Kept(rec[j], rec'[j])
        /\ ~due => rec' = rec
        /\ due => rec'[j].stage \in {"Waiting", "Ready", "Deferred"}
    BY <1>0, <1>12, <2>1, ReadyEffect
  <2> HIDE DEF j
  <2>3. CASE ~due
    BY <1>1, <2>1, <2>2, <2>3
  <2>4. CASE due
    <3>1. StillFits(j)
      BY <1>0, <2>1, <2>2, <2>4, StillWaiting DEF Kept
    <3> QED
      BY <1>3, <2>1, <2>2, <3>1
  <2> QED
    BY <2>3, <2>4
<1>13. ASSUME NEW t \in Threads, DispatchActivation(t) PROVE Keep
  <2>1. \A i \in Jobs : Moved(rec[i], rec'[i])
    BY <1>0, <1>13, DispatchEffect DEF DispatchActivation
  <2>2. settling' = settling
    BY <1>13 DEF DispatchActivation
  <2> QED
    BY <1>2, <2>1, <2>2
<1>14. ASSUME NEW j \in Jobs, Suppress(j) PROVE Keep
  <2>1. CASE ~Wins(j)
    BY <1>0, <1>1, <1>14, <2>1, SuppressEffect
  <2>2. CASE Wins(j)
    <3> DEFINE u == IF rec[j].token THEN "token" ELSE "finish"
    <3>1. /\ SuppressedAs(rec[j], rec'[j])
          /\ \A i \in Jobs \ {j} : Moved(rec[i], rec'[i])
          /\ settling' = [settling EXCEPT ![j] = u]
      BY <1>0, <1>14, <2>2, SuppressEffect
    <3>2. u \in {"token", "finish"}
      OBVIOUS
    <3> HIDE DEF u
    <3>3. settling'[j] = u /\ \A i \in Jobs \ {j} : settling'[i] = settling[i]
      BY <1>0, <3>1
    <3>4. rec[j] \in Record /\ rec'[j] \in Record /\ settling[j] \in Marks
      BY <1>0
    <3>5. StillFits(j)
      BY <2>2, <3>1, <3>2, <3>3, <3>4, FitSuppressed DEF StillFits, Wins
    <3>6. ASSUME NEW i \in Jobs \ {j} PROVE StillFits(i)
      BY <1>0, <3>1, <3>3, <3>6, StillMoved
    <3> QED
      BY <3>5, <3>6
  <2> QED
    BY <2>1, <2>2
<1>15. ASSUME NEW j \in Jobs, DropToken(j) PROVE Keep
  <2>1. settling[j] = "token" /\ rec' = rec /\ settling' = [settling EXCEPT ![j] = "finish"]
    BY <1>15 DEF DropToken
  <2>2. settling'[j] = "finish" /\ \A i \in Jobs \ {j} : settling'[i] = settling[i]
    BY <1>0, <2>1
  <2>3. rec[j] \in Record
    BY <1>0
  <2>4. StillFits(j)
    BY <2>1, <2>2, <2>3, FitSettled DEF StillFits, Lived
  <2> QED
    BY <1>3, <2>1, <2>2, <2>4
<1>16. ASSUME NEW j \in Jobs, FinishRecord(j) PROVE Keep
  <2>0. settling[j] = "finish" /\ rec[j] \in Record /\ rec[j].attaching \in BOOLEAN
    BY <1>0, <1>16, RecordFields DEF FinishRecord
  <2>1. CASE rec[j].attaching
    <3> DEFINE x == [rec[j] EXCEPT !.deferred = TRUE]
    <3>1. rec' = [rec EXCEPT ![j].deferred = TRUE] /\ settling' = [settling EXCEPT ![j] = "none"]
      BY <1>16, <2>1 DEF FinishRecord
    <3>2. x.stage = rec[j].stage /\ x.attaching = rec[j].attaching /\ x.reserved = rec[j].reserved
          /\ x.member = rec[j].member /\ x.deferred = TRUE
      BY <2>0 DEF Record
    <3>3. rec' = [rec EXCEPT ![j] = x]
      BY <1>0, <3>1
    <3> HIDE DEF x
    <3>4. /\ rec'[j] = x /\ settling'[j] = "none" /\ rec'[j] \in Record
          /\ \A i \in Jobs \ {j} : rec'[i] = rec[i] /\ settling'[i] = settling[i]
      BY <1>0, <3>1, <3>3
    <3>5. StillFits(j)
      <4> SUFFICES ASSUME NEW acc \in BOOLEAN, NEW prep \in BOOLEAN, NEW att \in BOOLEAN,
                          NEW early \in BOOLEAN, JobFits(rec[j], settling[j], acc, prep, att, early)
                   PROVE  JobFits(rec'[j], settling'[j], acc, prep, att, early) /\ Lived(rec[j], rec'[j])
        BY DEF StillFits
      <4>1. /\ rec'[j].stage = rec[j].stage /\ rec'[j].attaching = rec[j].attaching
            /\ rec'[j].reserved = rec[j].reserved /\ rec'[j].member = rec[j].member
        BY <3>2, <3>4
      <4>2. JobFits(rec'[j], "none", acc, prep, att, early) /\ Lived(rec[j], rec'[j])
        <5>1. JobFits(rec[j], "finish", acc, prep, att, early)
          BY <2>0
        <5>2. rec'[j] \in Record
          BY <3>4
        <5>3. rec[j].attaching = TRUE /\ rec'[j].deferred = TRUE
          BY <2>0, <2>1, <3>2, <3>4
        <5> DEFINE u == rec[j]
                   v == rec'[j]
        <5>4. u \in Record /\ v \in Record /\ JobFits(u, "finish", acc, prep, att, early)
              /\ HeldBack(u, v)
          BY <2>0, <4>1, <5>1, <5>2, <5>3 DEF HeldBack
        <5> HIDE DEF u, v
        <5>5. JobFits(v, "none", acc, prep, att, early) /\ Lived(u, v)
          BY <5>4, FitHeld
        <5> QED
          BY <5>5 DEF u, v
      <4> QED
        BY <3>4, <4>2
    <3> QED
      BY <1>3, <3>4, <3>5
  <2>2. CASE ~rec[j].attaching
    <3> DEFINE x == [rec[j] EXCEPT !.subs = {}]
    <3>1. rec' = [rec EXCEPT ![j].subs = {}] /\ settling' = [settling EXCEPT ![j] = "finalize"]
      BY <1>16, <2>2 DEF FinishRecord
    <3>2. x.stage = rec[j].stage /\ x.attaching = rec[j].attaching /\ x.reserved = rec[j].reserved
          /\ x.member = rec[j].member /\ x.deferred = rec[j].deferred
      BY <2>0 DEF Record
    <3>3. rec' = [rec EXCEPT ![j] = x]
      BY <1>0, <3>1
    <3> HIDE DEF x
    <3>4. /\ rec'[j] = x /\ settling'[j] = "finalize" /\ rec'[j] \in Record
          /\ \A i \in Jobs \ {j} : rec'[i] = rec[i] /\ settling'[i] = settling[i]
      BY <1>0, <3>1, <3>3
    <3>5. StillFits(j)
      BY <2>0, <2>2, <3>2, <3>4, FitFinished DEF StillFits
    <3> QED
      BY <1>3, <3>4, <3>5
  <2> QED
    BY <2>1, <2>2
<1>17. ASSUME NEW j \in Jobs, DispatchFinal(j) PROVE Keep
  <2>1. settling[j] = "dispatch" /\ settling' = [settling EXCEPT ![j] = "none"]
    BY <1>17 DEF DispatchFinal
  <2>2. \A i \in Jobs : Moved(rec[i], rec'[i])
    BY <1>0, <1>17, DispatchEffect DEF DispatchFinal
  <2>3. settling'[j] = "none" /\ \A i \in Jobs \ {j} : settling'[i] = settling[i]
    BY <1>0, <2>1
  <2> QED
    BY <1>0, <2>1, <2>2, <2>3, StillMoved
<1>18. ASSUME NEW j \in Jobs, Claim(j) PROVE Keep
  <2>1. settling' = settling
    BY <1>18 DEF Claim
  <2>2. /\ rec[j].stage = "Ready" /\ rec'[j].stage = "Running" /\ Kept(rec[j], rec'[j])
        /\ \A i \in Jobs \ {j} : Moved(rec[i], rec'[i])
    BY <1>0, <1>18, ClaimEffect
  <2>3. rec[j] \in Record /\ rec'[j] \in Record /\ settling[j] \in Marks
    BY <1>0
  <2>4. StillFits(j)
    BY <2>1, <2>2, <2>3, FitClaimed DEF StillFits
  <2>5. ASSUME NEW i \in Jobs \ {j} PROVE StillFits(i)
    BY <1>0, <2>1, <2>2, <2>5, StillMoved
  <2> QED
    BY <2>4, <2>5
<1>19. ASSUME NEW j \in Jobs, EndBody(j) PROVE Keep
  <2> DEFINE x == [rec[j] EXCEPT !.stage = "Finalizing"]
  <2>1. /\ rec[j].stage = "Running" /\ rec' = [rec EXCEPT ![j].stage = "Finalizing"]
        /\ settling' = [settling EXCEPT ![j] = "finish"]
    BY <1>19 DEF EndBody
  <2>2. rec[j] \in Record /\ "Finalizing" \in Stages
    BY <1>0 DEF Stages
  <2>3. x.stage = "Finalizing" /\ Kept(rec[j], x)
    BY <2>2, StageSet
  <2>4. rec' = [rec EXCEPT ![j] = x]
    BY <1>0, <2>1
  <2> HIDE DEF x
  <2>5. /\ rec'[j] = x /\ settling'[j] = "finish" /\ rec'[j] \in Record /\ settling[j] \in Marks
        /\ \A i \in Jobs \ {j} : rec'[i] = rec[i] /\ settling'[i] = settling[i]
    BY <1>0, <2>1, <2>4
  <2>6. StillFits(j)
    BY <2>1, <2>2, <2>3, <2>5, FitClaimed DEF StillFits
  <2> QED
    BY <1>3, <2>5, <2>6
<1>20. ASSUME NEW j \in Jobs, Cancel(j) PROVE Keep
  <2>1. rec' = rec /\ settling' = settling
    BY <1>20 DEF Cancel
  <2> QED
    BY <1>1, <2>1
<1>21. ASSUME Seal \/ Close \/ Abandon \/ UNCHANGED vars PROVE Keep
  <2>1. rec' = rec /\ settling' = settling
    BY <1>21 DEF Seal, Close, Abandon, vars
  <2> QED
    BY <1>1, <2>1
<1>22. ASSUME PlainSubmission PROVE Keep
  BY <1>4, <1>5, <1>6, <1>7, <1>22 DEF PlainSubmission
<1> HIDE DEF Keep
<1>23. ASSUME NEW t \in Threads, Activation(t) PROVE Keep
  BY <1>9, <1>10, <1>11, <1>12, <1>13, <1>23 DEF Activation
<1>25. ASSUME NEW j \in Jobs, \/ Suppress(j) \/ DropToken(j) \/ FinishRecord(j) \/ DispatchFinal(j)
                               \/ Claim(j) \/ EndBody(j) \/ Cancel(j)
       PROVE  Keep
  BY <1>14, <1>15, <1>16, <1>17, <1>18, <1>19, <1>20, <1>25
<1>26. ASSUME NEW s \in Signals, NEW status \in {"Succeeded", "Failed"}, Complete(s, status) PROVE Keep
  BY <1>8, <1>26
<1>27. ASSUME NEW s \in Signals, Call(s) PROVE Keep
  BY <1>8, <1>27
<1>24. Keep
  BY <1>21, <1>22, <1>23, <1>25, <1>26, <1>27 DEF Plain
<1> QED
  BY <1>24 DEF Keep

\* A plain step leaves every job at its spot.
LEMMA SpotsPlain ==
  ASSUME BookInv, [Next]_vars, Plain
  PROVE  SameSpots
<1>0. TypeOK /\ Phased
  BY DEF BookInv
<1>1. CASE PlainSubmission
  BY <1>0, <1>1, SpotsOfSubmission DEF PlainSubmission
<1>2. CASE ~PlainSubmission
  <2>1. Outside
    BY <1>2 DEF Plain, Outside, Settlement
  <2> QED
    BY <2>1, OutsideSteps, SpotsOutside
<1> QED
  BY <1>1, <1>2

\* A plain step leaves every job staged.
LEMMA StagedPlain ==
  ASSUME BookInv, [Next]_vars, Plain
  PROVE  Staged' /\ \A j \in Jobs : Lived(rec[j], rec'[j])
<1>1. SameSpots /\ rec' \in [Jobs -> Record]
  BY SpotsPlain, ClassTypesStep DEF ClassTypes
<1>2. ASSUME NEW j \in Jobs PROVE JobStaged(j)' /\ Lived(rec[j], rec'[j])
  <2>1. StillFits(j)
    BY <1>1, PlainKeeps
  <2> QED
    BY <1>1, <2>1, FitsThere DEF StillFits
<1> QED
  BY <1>2 DEF Staged

\* What fits where nothing has been decided yet, and at the end.
LEMMA FitEnds ==
  /\ JobFits(NoRecord, "none", FALSE, FALSE, FALSE, FALSE)
  /\ JobFits([NewRecord EXCEPT !.stage = "Prepared"], "none", FALSE, TRUE, FALSE, FALSE)
  /\ JobFits([[NewRecord EXCEPT !.stage = "Prepared"] EXCEPT !.stage = "Waiting"],
             "none", TRUE, FALSE, TRUE, TRUE)
  /\ JobFits([NoRecord EXCEPT !.stage = "Gone"], "dispatch", TRUE, FALSE, FALSE, FALSE)
<1>1. JobFits(NoRecord, "none", FALSE, FALSE, FALSE, FALSE)
  BY DEF JobFits, NoRecord, LivesIn, LiveStages
<1>2. JobFits([NewRecord EXCEPT !.stage = "Prepared"], "none", FALSE, TRUE, FALSE, FALSE)
  BY DEF JobFits, NewRecord, NoRecord, LivesIn, LiveStages
<1>3. JobFits([[NewRecord EXCEPT !.stage = "Prepared"] EXCEPT !.stage = "Waiting"],
              "none", TRUE, FALSE, TRUE, TRUE)
  BY DEF JobFits, NewRecord, NoRecord, LivesIn, LiveStages
<1>4. JobFits([NoRecord EXCEPT !.stage = "Gone"], "dispatch", TRUE, FALSE, FALSE, FALSE)
  BY DEF JobFits, NoRecord, LivesIn, LiveStages
<1> QED
  BY <1>1, <1>2, <1>3, <1>4

\* At other spots, the same but for the truth of the same statements.
LEMMA FitsAt ==
  ASSUME [Next]_vars, NEW j \in Jobs, NEW acc \in BOOLEAN, NEW prep \in BOOLEAN,
         NEW att \in BOOLEAN, NEW early \in BOOLEAN,
         JobFits(rec'[j], settling'[j], acc, prep, att, early),
         acc <=> j \in Accepted', prep <=> j \in Prepared',
         att <=> j \in Portion' /\ batch'.pc # "dispatch",
         early <=> j \in Portion' /\ batch'.pc \in Early
  PROVE  JobStaged(j)'
<1>1. JobFits(rec'[j], settling'[j], j \in Accepted', j \in Prepared',
              j \in Portion' /\ batch'.pc # "dispatch", j \in Portion' /\ batch'.pc \in Early)
  BY DEF JobFits
<1> QED
  BY <1>1, FitsNext

\* A job fits its spot, however the spot is written.
LEMMA FitsNow ==
  ASSUME BookInv, NEW j \in Jobs, NEW acc \in BOOLEAN, NEW prep \in BOOLEAN,
         NEW att \in BOOLEAN, NEW early \in BOOLEAN,
         acc <=> j \in Accepted, prep <=> j \in Prepared,
         att <=> j \in Portion /\ ~At("dispatch"),
         early <=> j \in Portion /\ batch.pc \in Early
  PROVE  JobFits(rec[j], settling[j], acc, prep, att, early)
<1>1. Fits(j)
  BY StagedFits
<1> QED
  BY <1>1 DEF Fits, JobFits

\* Charge stages the jobs it prepares.
LEMMA ChargeStaged ==
  ASSUME BookInv, [Next]_vars, Charge
  PROVE  /\ Staged' /\ \A j \in Jobs : Lived(rec[j], rec'[j])
         /\ ~sealed /\ Fitting # 0 =>
              /\ Prepared = {}
              /\ Prepared' = Len(batch.accepted) + 1 .. Len(batch.accepted) + Fitting
              /\ \A j \in Prepared' : rec[j] = NoRecord /\ rec'[j] = [NewRecord EXCEPT !.stage = "Prepared"]
              /\ \A j \in Jobs \ Prepared' : rec'[j] = rec[j]
         /\ sealed \/ Fitting = 0 => rec' = rec /\ Prepared' = Prepared
<1>0. TypeOK /\ Ordered /\ Phased /\ Staged /\ batch.pc = "charge" /\ settling' = settling
      /\ batch \in Batch /\ rec \in [Jobs -> Record]
  BY DEF BookInv, TypeOK, Charge, At
<1>1. ASSUME NEW j \in Jobs, rec'[j] = rec[j] PROVE Lived(rec[j], rec'[j])
  BY <1>1 DEF Lived
<1>2. CASE sealed \/ Fitting = 0
  <2>1. rec' = rec /\ (Refuse("InvalidGroup") \/ Refuse("Full"))
    BY <1>2 DEF Charge
  <2>2. SameOrder /\ batch'.pc = "done"
    BY <1>0, <2>1 DEF Refuse, Batch, SameOrder
  <2>3. Len(batch.portion) = 0
    BY <1>0 DEF Phased, Before
  <2>4. Portion = {}
    BY <1>0, <2>3, Elements DEF Batch, Portion
  <2>5. SameSpots /\ Prepared' = Prepared
    BY <2>2, <2>4 DEF SameOrder, SameSpots, Accepted, Prepared, Portion
  <2>6. ASSUME NEW j \in Jobs PROVE JobStaged(j)'
    <3>1. StillFits(j)
      BY <1>0, <2>1, StillThere
    <3> QED
      BY <2>5, <3>1, FitsThere DEF StillFits
  <2> QED
    BY <1>1, <1>2, <2>1, <2>5, <2>6 DEF Staged
<1>3. CASE ~(sealed \/ Fitting = 0)
  <2> DEFINE a == Len(batch.accepted)
             n == Fitting
             x == [NewRecord EXCEPT !.stage = "Prepared"]
             taken == a + 1 .. a + n
  <2>1. /\ a \in Nat /\ n \in Nat /\ n > 0 /\ a + n <= N
        /\ Len(batch.prepared) = 0 /\ Len(batch.portion) = 0
        /\ batch' = [batch EXCEPT !.pc = "commit", !.reserve = n, !.prepared = From(a, n),
                                  !.remaining = From(a + n, N - (a + n))]
        /\ ToSet(SubSeq(batch.remaining, 1, n)) = taken
    BY <1>3, ChargeEffect
  <2>2. rec' = [j \in Jobs |-> IF j \in ToSet(SubSeq(batch.remaining, 1, n)) THEN x ELSE rec[j]]
    BY <1>3 DEF Charge
  <2>3. Accepted = 1 .. a
    BY <1>0, Stretches
  <2>4. Prepared = {} /\ Portion = {}
    BY <1>0, <2>1, Elements DEF Batch, Portion, Prepared
  <2> HIDE DEF a, n, x
  <2>5. taken \subseteq Jobs /\ taken \cap Accepted = {}
    BY <2>1, <2>3, Constants DEF Jobs
  <2>6. \A j \in Jobs : rec'[j] = IF j \in taken THEN x ELSE rec[j]
    BY <2>1, <2>2
  <2>7. /\ batch'.accepted = batch.accepted /\ batch'.portion = batch.portion /\ batch'.pc = "commit"
        /\ batch'.prepared = From(a, n)
    BY <1>0, <2>1 DEF Batch
  <2>8. Accepted' = Accepted /\ Portion' = {} /\ Prepared' = taken
    BY <2>1, <2>4, <2>7, FromElements DEF Accepted, Portion, Prepared
  <2> HIDE DEF taken
  <2>9. ASSUME NEW j \in taken PROVE JobStaged(j)' /\ rec[j] = NoRecord /\ rec'[j] = x
    <3>1. j \in Jobs /\ j \notin Accepted /\ j \notin Prepared
      BY <2>4, <2>5, <2>9
    <3>2. rec[j] = NoRecord /\ settling[j] = "none"
      BY <1>0, <3>1 DEF Staged, JobStaged
    <3>3. rec'[j] = x /\ settling'[j] = "none"
      BY <1>0, <2>6, <2>9, <3>1, <3>2
    <3>4. JobFits(rec'[j], settling'[j], FALSE, TRUE, FALSE, FALSE)
      BY <3>3, FitEnds DEF x
    <3> QED
      BY <2>8, <2>9, <3>1, <3>2, <3>3, <3>4, FitsAt
  <2>10. ASSUME NEW j \in Jobs \ taken PROVE JobStaged(j)' /\ rec'[j] = rec[j]
    <3>1. rec'[j] = rec[j] /\ settling'[j] = settling[j]
      BY <1>0, <2>6, <2>10
    <3> DEFINE acc == j \in Accepted
    <3>2. acc \in BOOLEAN
      OBVIOUS
    <3>3. /\ j \in Prepared <=> FALSE
          /\ j \in Portion /\ ~At("dispatch") <=> FALSE
          /\ j \in Portion /\ batch.pc \in Early <=> FALSE
      BY <2>4
    <3>4. acc <=> j \in Accepted
      OBVIOUS
    <3> HIDE DEF acc
    <3>5. JobFits(rec[j], settling[j], acc, FALSE, FALSE, FALSE)
      BY <2>10, <3>2, <3>3, <3>4, FitsNow
    <3>6. JobFits(rec'[j], settling'[j], acc, FALSE, FALSE, FALSE)
      BY <3>1, <3>5
    <3> QED
      BY <2>8, <2>10, <3>1, <3>2, <3>4, <3>6, FitsAt
  <2>11. Lived(NoRecord, x)
    BY DEF Lived, NoRecord, NewRecord, x, LivesIn, LiveStages
  <2>12. \A j \in Jobs : JobStaged(j)' /\ Lived(rec[j], rec'[j])
    BY <1>1, <2>9, <2>10, <2>11
  <2> QED
    BY <1>3, <2>4, <2>8, <2>9, <2>10, <2>12 DEF Staged, a, n, x, taken
<1> QED
  BY <1>2, <1>3

\* Commit stages the jobs it takes.
LEMMA CommitStaged ==
  ASSUME BookInv, [Next]_vars, Commit
  PROVE  LET n == IF CommitFailure = "None" THEN Selected ELSE 0
             a == Len(batch.accepted)
             taken == a + 1 .. a + n
             prepared == [NewRecord EXCEPT !.stage = "Prepared"]
         IN  /\ Staged'
             /\ taken \subseteq Prepared /\ Prepared' = Prepared \ taken
             /\ \A j \in taken : rec[j] = prepared /\ rec'[j] = [prepared EXCEPT !.stage = "Waiting"]
             /\ \A j \in Jobs \ taken : rec'[j] = rec[j]
<1> DEFINE a == Len(batch.accepted)
           p == Len(batch.prepared)
           n == IF CommitFailure = "None" THEN Selected ELSE 0
           x == [NewRecord EXCEPT !.stage = "Prepared"]
           taken == a + 1 .. a + n
<1>0. TypeOK /\ Ordered /\ Phased /\ Staged /\ batch.pc = "commit" /\ settling' = settling
      /\ batch \in Batch /\ rec \in [Jobs -> Record]
  BY DEF BookInv, TypeOK, Commit, At
<1>1. /\ a \in Nat /\ p \in Nat /\ n \in Nat /\ n <= p /\ a + p <= N
      /\ batch' = [batch EXCEPT !.pc = "recover", !.failure = CommitFailure,
                                !.prepared = From(a + n, p - n), !.portion = From(a, n),
                                !.accepted = From(0, a + n)]
      /\ ToSet(SubSeq(batch.prepared, 1, n)) = taken
  BY CommitEffect
<1>2. rec' = [j \in Jobs |-> IF j \in ToSet(SubSeq(batch.prepared, 1, n))
                               THEN [rec[j] EXCEPT !.stage = "Waiting"] ELSE rec[j]]
  BY DEF Commit
<1>3. Accepted = 1 .. a /\ Prepared = a + 1 .. a + p
  BY <1>0, Stretches
<1>4. Portion = {}
  <2>1. Len(batch.portion) = 0
    BY <1>0 DEF Phased, At
  <2> QED
    BY <1>0, <2>1, Elements DEF Batch, Portion
<1> HIDE DEF a, p, n, x
<1>5. taken \subseteq Jobs /\ taken \cap Accepted = {} /\ taken \subseteq Prepared
  BY <1>1, <1>3, Constants DEF Jobs
<1>6. \A j \in Jobs : rec'[j] = IF j \in taken THEN [rec[j] EXCEPT !.stage = "Waiting"] ELSE rec[j]
  BY <1>1, <1>2
<1>7. /\ batch'.accepted = From(0, a + n) /\ batch'.portion = From(a, n) /\ batch'.pc = "recover"
      /\ batch'.prepared = From(a + n, p - n)
  BY <1>0, <1>1 DEF Batch
<1>8. Accepted' = Accepted \cup taken /\ Portion' = taken /\ Prepared' = Prepared \ taken
  <2>1. a + n \in Nat /\ p - n \in Nat /\ 0 \in Nat
    BY <1>1
  <2>2. /\ Accepted' = 0 + 1 .. 0 + (a + n) /\ Portion' = a + 1 .. a + n
        /\ Prepared' = (a + n) + 1 .. (a + n) + (p - n)
    <3>1. ToSet(From(0, a + n)) = 0 + 1 .. 0 + (a + n)
      BY <2>1, FromElements
    <3>2. ToSet(From(a, n)) = a + 1 .. a + n
      BY <1>1, FromElements
    <3>3. ToSet(From(a + n, p - n)) = (a + n) + 1 .. (a + n) + (p - n)
      BY <2>1, FromElements
    <3> QED
      BY <1>7, <3>1, <3>2, <3>3 DEF Accepted, Portion, Prepared
  <2> QED
    BY <1>1, <1>3, <2>2
<1> HIDE DEF taken
<1>9. ASSUME NEW j \in taken PROVE JobStaged(j)' /\ rec[j] = x /\ rec'[j] = [x EXCEPT !.stage = "Waiting"]
  <2>1. j \in Jobs /\ j \notin Accepted /\ j \in Prepared
    BY <1>5, <1>9
  <2>2. rec[j] = x /\ settling[j] = "none"
    BY <1>0, <2>1 DEF Staged, JobStaged, x
  <2>3. rec'[j] = [x EXCEPT !.stage = "Waiting"] /\ settling'[j] = "none"
    BY <1>0, <1>6, <1>9, <2>1, <2>2
  <2>4. JobFits(rec'[j], settling'[j], TRUE, FALSE, TRUE, TRUE)
    BY <2>3, FitEnds DEF x
  <2>5. "recover" \in Early /\ "recover" # "dispatch"
    BY DEF Early
  <2> QED
    BY <1>7, <1>8, <1>9, <2>1, <2>2, <2>3, <2>4, <2>5, FitsAt
<1>10. ASSUME NEW j \in Jobs \ taken PROVE JobStaged(j)' /\ rec'[j] = rec[j]
  <2>1. rec'[j] = rec[j] /\ settling'[j] = settling[j]
    BY <1>0, <1>6, <1>10
  <2> DEFINE acc == j \in Accepted
             prep == j \in Prepared
  <2>2. acc \in BOOLEAN /\ prep \in BOOLEAN
    OBVIOUS
  <2>3. /\ j \in Portion /\ ~At("dispatch") <=> FALSE
        /\ j \in Portion /\ batch.pc \in Early <=> FALSE
    BY <1>4
  <2>4. (acc <=> j \in Accepted) /\ (prep <=> j \in Prepared)
    OBVIOUS
  <2>5. (acc <=> j \in Accepted') /\ (prep <=> j \in Prepared') /\ j \notin Portion'
    BY <1>8, <1>10
  <2> HIDE DEF acc, prep
  <2>6. JobFits(rec[j], settling[j], acc, prep, FALSE, FALSE)
    BY <1>10, <2>2, <2>3, <2>4, FitsNow
  <2>7. JobFits(rec'[j], settling'[j], acc, prep, FALSE, FALSE)
    BY <2>1, <2>6
  <2> QED
    BY <1>10, <2>1, <2>2, <2>5, <2>7, FitsAt
<1>11. Staged'
  BY <1>9, <1>10 DEF Staged
<1> QED
  BY <1>5, <1>8, <1>9, <1>10, <1>11 DEF a, n, x, taken

\* Recover takes back the jobs left over.
LEMMA RecoverStaged ==
  ASSUME BookInv, [Next]_vars, Recover
  PROVE  /\ Staged' /\ \A j \in Jobs : Lived(rec[j], rec'[j])
         /\ Prepared' = {}
         /\ \A j \in Prepared : rec[j] = [NewRecord EXCEPT !.stage = "Prepared"] /\ rec'[j] = NoRecord
         /\ \A j \in Jobs \ Prepared : rec'[j] = rec[j]
<1> DEFINE a == Len(batch.accepted)
           m == Len(batch.portion)
           x == [NewRecord EXCEPT !.stage = "Prepared"]
           pc == IF batch.failure = "None" THEN "register" ELSE "done"
<1>0. TypeOK /\ Ordered /\ Phased /\ Staged /\ batch.pc = "recover" /\ settling' = settling
      /\ batch \in Batch /\ rec \in [Jobs -> Record]
  BY DEF BookInv, TypeOK, Recover, At
<1>1. /\ a \in Nat /\ m \in Nat /\ (m = 0 <=> batch.failure # "None")
      /\ batch' = [batch EXCEPT !.pc = pc, !.prepared = From(a, 0), !.remaining = From(a, N - a),
                                !.reserve = IF batch.failure = "None" THEN @ ELSE 0]
  BY RecoverEffect
<1>2. rec' = [j \in Jobs |-> IF j \in Prepared THEN NoRecord ELSE rec[j]]
  BY DEF Recover, Prepared
<1>3. m = 0 => Portion = {}
  BY <1>0, Elements DEF Batch, Portion
<1>4. Prepared \subseteq Jobs /\ Accepted \cap Prepared = {} /\ Portion \subseteq Accepted
  BY <1>0, Disjoint
<1> HIDE DEF a, m, x
<1>5. /\ batch'.accepted = batch.accepted /\ batch'.portion = batch.portion /\ batch'.pc = pc
      /\ batch'.prepared = From(a, 0)
  BY <1>0, <1>1 DEF Batch
<1>6. Accepted' = Accepted /\ Portion' = Portion /\ Prepared' = {}
  <2>1. Prepared' = a + 1 .. a + 0
    BY <1>1, <1>5, FromElements DEF Prepared
  <2> QED
    BY <1>1, <1>5, <2>1 DEF Accepted, Portion
<1>7. pc \notin {"dispatch"} /\ (pc \in Early \/ Portion = {})
  BY <1>1, <1>3 DEF Early
<1> HIDE DEF pc
<1>8. ASSUME NEW j \in Prepared PROVE JobStaged(j)' /\ rec[j] = x /\ rec'[j] = NoRecord
  <2>1. j \in Jobs /\ j \notin Accepted /\ j \notin Portion
    BY <1>4, <1>8
  <2>2. rec[j] = x /\ settling[j] = "none"
    BY <1>0, <1>8, <2>1 DEF Staged, JobStaged, x
  <2>3. rec'[j] = NoRecord /\ settling'[j] = "none"
    BY <1>0, <1>2, <1>8, <2>1, <2>2
  <2>4. JobFits(rec'[j], settling'[j], FALSE, FALSE, FALSE, FALSE)
    BY <2>3, FitEnds
  <2> QED
    BY <1>6, <2>1, <2>2, <2>3, <2>4, FitsAt
<1>9. ASSUME NEW j \in Jobs \ Prepared PROVE JobStaged(j)' /\ rec'[j] = rec[j]
  <2>1. rec'[j] = rec[j] /\ settling'[j] = settling[j]
    BY <1>0, <1>2, <1>9
  <2> DEFINE acc == j \in Accepted
             here == j \in Portion
  <2>2. acc \in BOOLEAN /\ here \in BOOLEAN
    OBVIOUS
  <2>3. /\ acc <=> j \in Accepted
        /\ here <=> j \in Portion /\ ~At("dispatch")
        /\ here <=> j \in Portion /\ batch.pc \in Early
    BY <1>0 DEF At, Early
  <2>4. /\ acc <=> j \in Accepted'
        /\ here <=> j \in Portion' /\ batch'.pc # "dispatch"
        /\ here <=> j \in Portion' /\ batch'.pc \in Early
    BY <1>5, <1>6, <1>7
  <2> HIDE DEF acc, here
  <2>5. JobFits(rec[j], settling[j], acc, FALSE, here, here)
    BY <1>9, <2>2, <2>3, FitsNow
  <2>6. JobFits(rec'[j], settling'[j], acc, FALSE, here, here)
    BY <2>1, <2>5
  <2> QED
    BY <1>6, <1>9, <2>1, <2>2, <2>4, <2>6, FitsAt
<1>10. Lived(x, NoRecord)
  BY DEF Lived, NoRecord, NewRecord, x, LivesIn, LiveStages
<1>11. \A j \in Jobs : JobStaged(j)' /\ Lived(rec[j], rec'[j])
  <2>1. ASSUME NEW j \in Jobs, rec'[j] = rec[j] PROVE Lived(rec[j], rec'[j])
    BY <2>1 DEF Lived
  <2> QED
    BY <1>8, <1>9, <1>10, <2>1
<1> QED
  BY <1>6, <1>8, <1>9, <1>11 DEF Staged, x

\* Register makes the portion members of the group.
LEMMA RegisterStaged ==
  ASSUME BookInv, [Next]_vars, Register
  PROVE  /\ Staged' /\ SameOrder
         /\ \A j \in Portion : /\ LivesIn(rec[j]) /\ ~rec[j].member
                               /\ rec'[j] = [rec[j] EXCEPT !.member = TRUE]
         /\ \A j \in Jobs \ Portion : rec'[j] = rec[j]
<1>0. TypeOK /\ Ordered /\ Phased /\ Staged /\ batch.pc = "register" /\ settling' = settling
      /\ batch \in Batch /\ rec \in [Jobs -> Record] /\ settling \in [Jobs -> Marks]
  BY DEF BookInv, TypeOK, Register, At, Marks
<1>1. rec' = [j \in Jobs |-> IF j \in Portion THEN [rec[j] EXCEPT !.member = TRUE] ELSE rec[j]]
  BY DEF Register
<1>2. SameOrder
  BY <1>0, SubmissionSteps
<1>3. Accepted' = Accepted /\ Portion' = Portion /\ Prepared' = Prepared
  BY <1>2 DEF SameOrder, Accepted, Portion, Prepared
<1>4. batch'.pc \in {"tokens", "subscribe"}
  BY <1>0 DEF Register, Batch
<1>5. batch'.pc # "dispatch" /\ batch'.pc \notin Early
  BY <1>4 DEF Early
<1>6. Portion \subseteq Jobs /\ Portion \subseteq Accepted /\ Portion \cap Prepared = {}
  BY <1>0, Disjoint
<1>7. ASSUME NEW j \in Portion
      PROVE  /\ JobStaged(j)' /\ LivesIn(rec[j]) /\ ~rec[j].member
             /\ rec'[j] = [rec[j] EXCEPT !.member = TRUE]
  <2>1. j \in Jobs /\ j \in Accepted /\ j \notin Prepared /\ rec[j] \in Record /\ settling[j] \in Marks
    BY <1>0, <1>6, <1>7
  <2>2. "register" \in Early /\ ~At("dispatch")
    BY <1>0 DEF Early, At
  <2>3. JobFits(rec[j], settling[j], TRUE, FALSE, TRUE, TRUE)
    BY <1>0, <1>7, <2>1, <2>2, FitsNow
  <2> DEFINE x == rec[j]
             y == [x EXCEPT !.member = TRUE]
  <2>4. /\ y.stage = x.stage /\ y.attaching = x.attaching /\ y.reserved = x.reserved
        /\ y.deferred = x.deferred /\ y.member = TRUE
    BY <2>1 DEF Record
  <2>5. LivesIn(x) /\ ~x.member
    BY <2>3 DEF JobFits, LivesIn, LiveStages
  <2>6. rec'[j] = y /\ settling'[j] = settling[j]
    BY <1>0, <1>1, <1>7, <2>1
  <2> HIDE DEF y
  <2>7. JobFits(y, settling[j], TRUE, FALSE, TRUE, FALSE)
    BY <2>3, <2>4, <2>5 DEF JobFits, LivesIn
  <2>8. JobStaged(j)'
    BY <1>3, <1>5, <1>7, <2>1, <2>6, <2>7, FitsAt
  <2> QED
    BY <2>5, <2>6, <2>8 DEF y
<1>8. ASSUME NEW j \in Jobs \ Portion PROVE JobStaged(j)' /\ rec'[j] = rec[j]
  <2>1. rec'[j] = rec[j] /\ settling'[j] = settling[j]
    BY <1>0, <1>1, <1>8
  <2> DEFINE acc == j \in Accepted
             prep == j \in Prepared
  <2>2. acc \in BOOLEAN /\ prep \in BOOLEAN
    OBVIOUS
  <2>3. /\ (acc <=> j \in Accepted) /\ (prep <=> j \in Prepared)
        /\ j \in Portion /\ ~At("dispatch") <=> FALSE
        /\ j \in Portion /\ batch.pc \in Early <=> FALSE
    BY <1>8
  <2>4. (acc <=> j \in Accepted') /\ (prep <=> j \in Prepared') /\ j \notin Portion'
    BY <1>3, <1>8
  <2> HIDE DEF acc, prep
  <2>5. JobFits(rec[j], settling[j], acc, prep, FALSE, FALSE)
    BY <1>8, <2>2, <2>3, FitsNow
  <2>6. JobFits(rec'[j], settling'[j], acc, prep, FALSE, FALSE)
    BY <2>1, <2>5
  <2> QED
    BY <1>8, <2>1, <2>2, <2>4, <2>6, FitsAt
<1> QED
  BY <1>2, <1>7, <1>8 DEF Staged

\* The portion as a stretch of the input, none of it merely prepared.
LEMMA PortionFrom ==
  ASSUME BookInv
  PROVE  /\ \E b, m \in Nat : b + m <= N /\ batch.portion = From(b, m)
         /\ \A j \in Portion : rec[j].stage # "Prepared"
<1>0. TypeOK /\ Ordered
  BY DEF BookInv
<1> DEFINE a == Len(batch.accepted)
           m == Len(batch.portion)
<1>1. a \in Nat /\ m \in Nat /\ Len(batch.prepared) \in Nat
  BY <1>0, Stretches
<1>2. a + Len(batch.prepared) <= N /\ m <= a /\ batch.portion = From(a - m, m)
  BY <1>0 DEF Ordered
<1> HIDE DEF a, m
<1>3. a - m \in Nat /\ (a - m) + m <= N
  BY <1>1, <1>2, Constants
<1> QED
  BY <1>1, <1>2, <1>3, SpotsIn

\* The publication leaves every job staged.
LEMMA PublishStaged ==
  ASSUME BookInv, [Next]_vars, PublishPortion
  PROVE  Staged' /\ \A j \in Jobs : Lived(rec[j], rec'[j])
<1>0. TypeOK /\ Ordered /\ Phased /\ Staged /\ batch.pc = "publish" /\ ClassOK(Class)
      /\ batch \in Batch /\ rec \in [Jobs -> Record] /\ settling \in [Jobs -> Marks]
  BY DEF BookInv, TypeOK, PublishPortion, At, Marks
<1>1. settling' = [j \in Jobs |-> IF j \in Portion /\ rec[j].deferred THEN "finish" ELSE settling[j]]
  BY DEF PublishPortion
<1>2. /\ rec' \in [Jobs -> Record]
      /\ \A j \in Jobs \ Portion : rec'[j] = rec[j]
      /\ \A j \in Portion : PublishedAs(rec[j], rec'[j], j \in doomed')
  <2>1. PICK b, m \in Nat : b + m <= N /\ batch.portion = From(b, m)
    BY PortionFrom
  <2>2. \A j \in Portion : rec[j].stage # "Prepared"
    BY PortionFrom
  <2> QED
    BY <1>0, <2>1, <2>2, PublishEffect DEF WrittenOK
<1>3. SameOrder /\ batch'.pc = "dispatch"
  BY <1>0, SubmissionSteps DEF PublishPortion, Go, Batch
<1>4. Accepted' = Accepted /\ Portion' = Portion /\ Prepared' = Prepared
  BY <1>3 DEF SameOrder, Accepted, Portion, Prepared
<1>5. Portion \subseteq Jobs /\ Portion \subseteq Accepted /\ Portion \cap Prepared = {}
  BY <1>0, Disjoint
<1>6. "dispatch" \notin Early /\ "publish" \notin Early
  BY DEF Early
<1>7. ASSUME NEW j \in Portion PROVE JobStaged(j)' /\ Lived(rec[j], rec'[j])
  <2>1. /\ j \in Jobs /\ j \in Accepted /\ j \notin Prepared /\ rec[j] \in Record
        /\ rec'[j] \in Record /\ settling[j] \in Marks
    BY <1>0, <1>2, <1>5, <1>7
  <2>2. ~At("dispatch") /\ batch.pc \notin Early
    BY <1>0, <1>6 DEF At
  <2>3. JobFits(rec[j], settling[j], TRUE, FALSE, TRUE, FALSE)
    BY <1>7, <2>1, <2>2, FitsNow
  <2> DEFINE u == IF rec[j].deferred THEN "finish" ELSE settling[j]
  <2>4. JobFits(rec'[j], u, TRUE, FALSE, FALSE, FALSE) /\ Lived(rec[j], rec'[j])
    BY <1>2, <1>7, <2>1, <2>3, FitPublished
  <2>5. settling'[j] = u
    BY <1>1, <1>7, <2>1
  <2> HIDE DEF u
  <2>6. JobFits(rec'[j], settling'[j], TRUE, FALSE, FALSE, FALSE)
    BY <2>4, <2>5
  <2>7. JobStaged(j)'
    BY <1>3, <1>4, <1>6, <2>1, <2>6, FitsAt
  <2> QED
    BY <2>4, <2>7
<1>8. ASSUME NEW j \in Jobs \ Portion PROVE JobStaged(j)' /\ Lived(rec[j], rec'[j])
  <2>1. rec'[j] = rec[j] /\ settling'[j] = settling[j]
    BY <1>0, <1>1, <1>2, <1>8
  <2> DEFINE acc == j \in Accepted
             prep == j \in Prepared
  <2>2. acc \in BOOLEAN /\ prep \in BOOLEAN
    OBVIOUS
  <2>3. /\ (acc <=> j \in Accepted) /\ (prep <=> j \in Prepared)
        /\ j \in Portion /\ ~At("dispatch") <=> FALSE
        /\ j \in Portion /\ batch.pc \in Early <=> FALSE
    BY <1>8
  <2>4. (acc <=> j \in Accepted') /\ (prep <=> j \in Prepared') /\ j \notin Portion'
    BY <1>4, <1>8
  <2> HIDE DEF acc, prep
  <2>5. JobFits(rec[j], settling[j], acc, prep, FALSE, FALSE)
    BY <1>8, <2>2, <2>3, FitsNow
  <2>6. JobFits(rec'[j], settling'[j], acc, prep, FALSE, FALSE)
    BY <2>1, <2>5
  <2>7. JobStaged(j)'
    BY <1>8, <2>2, <2>4, <2>6, FitsAt
  <2> QED
    BY <2>1, <2>7 DEF Lived
<1> QED
  BY <1>7, <1>8 DEF Staged

\* FinalizeRecord ends one job that was still a member.
LEMMA FinalizeStaged ==
  ASSUME BookInv, [Next]_vars, NEW j \in Jobs, FinalizeRecord(j)
  PROVE  /\ Staged' /\ batch' = batch
         /\ rec[j].stage = "Finalizing" /\ rec[j].member = TRUE /\ ~rec[j].reserved
         /\ rec'[j] = [NoRecord EXCEPT !.stage = "Gone"]
         /\ \A i \in Jobs \ {j} : rec'[i] = rec[i]
<1> DEFINE x == [NoRecord EXCEPT !.stage = "Gone"]
<1>0. TypeOK /\ Ordered /\ Staged /\ settling[j] = "finalize"
      /\ rec \in [Jobs -> Record] /\ settling \in [Jobs -> Marks]
  BY DEF BookInv, TypeOK, FinalizeRecord, Marks
<1>1. rec' = [rec EXCEPT ![j] = x] /\ settling' = [settling EXCEPT ![j] = "dispatch"] /\ batch' = batch
  BY DEF FinalizeRecord
<1>2. SameSpots
  BY <1>1, SpotsOutside
<1> HIDE DEF x
<1>3. /\ rec'[j] = x /\ settling'[j] = "dispatch"
      /\ \A i \in Jobs \ {j} : rec'[i] = rec[i] /\ settling'[i] = settling[i]
  BY <1>0, <1>1
<1>4. rec[j].stage = "Finalizing" /\ ~rec[j].attaching /\ rec[j] \in Record
  BY <1>0 DEF Staged, JobStaged
<1>5. j \in Accepted /\ j \notin Prepared /\ ~(j \in Portion /\ ~At("dispatch"))
  <2>1. NoRecord.stage = "Out" /\ NewRecord.attaching = TRUE
    BY DEF NoRecord, NewRecord
  <2>2. JobStaged(j)
    BY <1>0 DEF Staged
  <2>3. j \notin Prepared /\ ~(j \in Portion /\ ~At("dispatch"))
    BY <1>4, <2>2 DEF JobStaged
  <2> QED
    BY <1>4, <2>1, <2>2, <2>3 DEF JobStaged
<1>6. ~(j \in Portion /\ batch.pc \in Early)
  BY <1>5 DEF Early, At
<1>7. rec[j].member = TRUE /\ ~rec[j].reserved
  <2>1. rec[j].member \in BOOLEAN
    BY <1>4, RecordFields
  <2>2. JobStaged(j) /\ Live(j)
    BY <1>0, <1>4 DEF Staged, Live
  <2> QED
    BY <1>4, <1>6, <2>1, <2>2 DEF JobStaged
<1>8. JobStaged(j)'
  <2>1. JobFits(rec'[j], settling'[j], TRUE, FALSE, FALSE, FALSE)
    BY <1>3, FitEnds DEF x
  <2>2. /\ j \in Accepted' /\ j \notin Prepared' /\ ~(j \in Portion' /\ batch'.pc # "dispatch")
        /\ ~(j \in Portion' /\ batch'.pc \in Early)
    BY <1>1, <1>5, <1>6 DEF Accepted, Prepared, Portion, At
  <2> QED
    BY <2>1, <2>2, FitsAt
<1>9. ASSUME NEW i \in Jobs \ {j} PROVE JobStaged(i)'
  <2>1. i \in Jobs /\ rec' \in [Jobs -> Record] /\ rec'[i] = rec[i] /\ settling'[i] = settling[i]
    BY <1>3, <1>9, ClassTypesStep DEF ClassTypes
  <2>2. StillFits(i)
    BY <1>0, <2>1, StillThere
  <2> QED
    BY <1>2, <2>1, <2>2, FitsThere DEF StillFits
<1> QED
  BY <1>1, <1>3, <1>4, <1>7, <1>8, <1>9 DEF Staged, x

\* What the steps are.
LEMMA StepKinds ==
  [Next]_vars => \/ Plain \/ Charge \/ Commit \/ Recover \/ Register \/ PublishPortion
                 \/ \E j \in Jobs : FinalizeRecord(j)
<1>1. Submission => PlainSubmission \/ Charge \/ Commit \/ Recover \/ Register \/ PublishPortion
  BY DEF Submission, PlainSubmission
<1>2. Outside => Plain \/ \E j \in Jobs : FinalizeRecord(j)
  BY DEF Outside, Plain, Settlement
<1> QED
  BY <1>1, <1>2, OutsideSteps DEF Plain

\* Every step leaves every job staged.
LEMMA StagedStep ==
  ASSUME BookInv, [Next]_vars
  PROVE  Staged'
BY StepKinds, StagedPlain, ChargeStaged, CommitStaged, RecoverStaged, RegisterStaged, PublishStaged,
   FinalizeStaged

-----------------------------------------------------------------------------
(* The counts of the class, step by step *)

\* A record that is counted where it was.
Counted(x, y) ==
  /\ y.stage = "Ready" <=> x.stage = "Ready"
  /\ y.stage = "Deferred" <=> x.stage = "Deferred"
  /\ y.stage # "Prepared" /\ y.reserved <=> x.stage # "Prepared" /\ x.reserved

\* Records counted where they were leave the counts right.
LEMMA CountsKept ==
  ASSUME ClassOK(Class), window' = window, \A j \in Jobs : Counted(rec[j], rec'[j])
  PROVE  ClassOK(Class')
<1>1. Readied(rec') = Readied(rec) /\ Backlog(rec') = Backlog(rec) /\ Placed(rec') = Placed(rec)
  BY DEF Counted, Readied, Backlog, Placed
<1>2. Class'.rec = rec' /\ Class'.window = window /\ Class.rec = rec /\ Class.window = window
  BY DEF Class
<1> QED
  BY <1>1, <1>2 DEF ClassOK

\* A step that changes one record, and not what is counted.
LEMMA OneCounted ==
  ASSUME ClassOK(Class), window' = window, NEW j, rec \in [Jobs -> Record],
         NEW x, rec' = [rec EXCEPT ![j] = x], Counted(rec[j], x)
  PROVE  ClassOK(Class')
<1>1. \A i \in Jobs : Counted(rec[i], rec'[i])
  BY DEF Counted
<1> QED
  BY <1>1, CountsKept

\* A plain step leaves the counts right.
LEMMA ClassPlain ==
  ASSUME BookInv, [Next]_vars, Plain
  PROVE  ClassOK(Class')
<1>0. TypeOK /\ Ordered /\ Phased /\ Ranged /\ Staged /\ ClassOK(Class) /\ rec \in [Jobs -> Record]
      /\ settling \in [Jobs -> Marks]
  BY DEF BookInv, TypeOK, Marks
<1>1. ASSUME UNCHANGED <<rec, window>> PROVE ClassOK(Class')
  BY <1>0, <1>1, CountsKept DEF Counted
<1>2. CASE Enter \/ Admit \/ SubscribeRange \/ Install \/ DropUnused
  <2>1. UNCHANGED <<rec, window>>
    BY <1>2 DEF Enter, Admit, SubscribeRange, Install, DropUnused
  <2> QED
    BY <1>1, <2>1
<1>3. CASE Token
  <2> DEFINE j == Least(batch.todo)
             x == [rec[j] EXCEPT !.token = TRUE]
  <2>1. window' = window /\ (rec' = rec \/ rec' = [rec EXCEPT ![j].token = TRUE])
    BY <1>3 DEF Token
  <2>2. batch.todo \subseteq Portion /\ batch.todo # {} /\ Portion \subseteq Jobs
    BY <1>0, <1>3, SpotsIn DEF Token, Ranged
  <2>3. j \in Jobs /\ rec[j] \in Record
    BY <1>0, <2>2, LeastIn
  <2> HIDE DEF j
  <2>4. Counted(rec[j], x)
    BY <2>3 DEF Record, Counted
  <2>5. rec' = rec \/ rec' = [rec EXCEPT ![j] = x]
    BY <1>0, <2>1
  <2> HIDE DEF x
  <2> QED
    BY <1>0, <1>1, <2>1, <2>4, <2>5, OneCounted
<1>4. CASE Subscribe
  <2>0. window' = window
    BY <1>4 DEF Subscribe
  <2>1. CASE batch.todo = {}
    BY <1>1, <1>4, <2>0, <2>1 DEF Subscribe
  <2>2. CASE batch.todo # {}
    <3>1. PICK e \in batch.todo : rec' = [rec EXCEPT ![e[1]].subs = @ \cup {e[2]}]
      BY <1>4, <2>2 DEF Subscribe
    <3>2. e \in Portion \X Prereqs
      BY <1>0, <1>4, <3>1 DEF Ranged, Subscribe
    <3> DEFINE j == e[1]
               p == e[2]
               x == [rec[j] EXCEPT !.subs = @ \cup {p}]
    <3>3. j \in Jobs
      BY <3>2, SpotsIn
    <3>4. rec' = [rec EXCEPT ![j].subs = @ \cup {p}]
      BY <3>1
    <3> HIDE DEF j, p
    <3>5. rec[j] \in Record /\ rec' = [rec EXCEPT ![j] = x]
      BY <1>0, <3>3, <3>4
    <3>6. Counted(rec[j], x)
      BY <3>5 DEF Record, Counted
    <3> HIDE DEF x
    <3> QED
      BY <1>0, <2>0, <3>5, <3>6, OneCounted
  <2> QED
    BY <2>1, <2>2
<1>5. CASE DispatchPortion
  BY <1>0, <1>5, DispatchEffect DEF DispatchPortion, WrittenOK
<1>6. ASSUME NEW s \in Signals, Call(s) \/ \E status \in {"Succeeded", "Failed"} : Complete(s, status)
      PROVE  ClassOK(Class')
  BY <1>1, <1>6 DEF Call, Complete
<1>7. ASSUME NEW t \in Threads, Deliver(t) \/ TakeMembers(t) \/ DetachNext(t) \/ Return(t)
      PROVE  ClassOK(Class')
  BY <1>1, <1>7 DEF Deliver, TakeMembers, DetachNext, Return
<1>8. ASSUME NEW t \in Threads, ActivateRange(t) PROVE ClassOK(Class')
  <2>1. act[t].jobs \in SUBSET Jobs
    BY <1>0, <1>8, ActFields DEF ActivateRange, Doing
  <2>2. WrittenOK
    BY <1>0, <1>8, <2>1, RangeEffect
  <2> QED
    BY <2>2 DEF WrittenOK
<1>9. ASSUME NEW t \in Threads, ActivateOne(t) PROVE ClassOK(Class')
  <2> DEFINE j == act[t].id
             x == Delivered(rec[j], act[t].status)
  <2>1. window' = window
    BY <1>9 DEF ActivateOne
  <2>2. CASE ~Reached(j)
    BY <1>1, <1>9, <2>1, <2>2 DEF ActivateOne
  <2>3. CASE Reached(j)
    <3>1. rec' = [rec EXCEPT ![j] = x]
      BY <1>9, <2>3 DEF ActivateOne
    <3>2. j \in Jobs
      BY <1>0, <1>9, ActFields DEF ActivateOne, Doing
    <3>3. x.stage = rec[j].stage /\ CountedAs(rec[j], x, act[t].status)
      BY <1>0, <3>2, DeliveredForm
    <3>4. Counted(rec[j], x)
      BY <3>3 DEF Counted, CountedAs
    <3> HIDE DEF x, j
    <3> QED
      BY <1>0, <2>1, <3>1, <3>4, OneCounted
  <2> QED
    BY <2>2, <2>3
<1>10. ASSUME NEW t \in Threads, ActivateReady(t) PROVE ClassOK(Class')
  <2>1. act[t].id \in Jobs
    BY <1>0, <1>10, ActFields DEF ActivateReady, Doing
  <2>2. WrittenOK
    BY <1>0, <1>10, <2>1, ReadyEffect
  <2> QED
    BY <2>2 DEF WrittenOK
<1>11. ASSUME NEW t \in Threads, DispatchActivation(t) PROVE ClassOK(Class')
  BY <1>0, <1>11, DispatchEffect DEF DispatchActivation, WrittenOK
<1>12. ASSUME NEW j \in Jobs, Suppress(j) PROVE ClassOK(Class')
  <2>1. WrittenOK
    BY <1>0, <1>12, SuppressEffect
  <2> QED
    BY <2>1 DEF WrittenOK
<1>13. ASSUME NEW j \in Jobs, DropToken(j) \/ Cancel(j) PROVE ClassOK(Class')
  BY <1>1, <1>13 DEF DropToken, Cancel
<1>14. ASSUME NEW j \in Jobs, FinishRecord(j) PROVE ClassOK(Class')
  <2> DEFINE x == [rec[j] EXCEPT !.deferred = TRUE]
             y == [rec[j] EXCEPT !.subs = {}]
  <2>1. window' = window
        /\ (rec' = [rec EXCEPT ![j].deferred = TRUE] \/ rec' = [rec EXCEPT ![j].subs = {}])
    BY <1>14 DEF FinishRecord
  <2>2. rec[j] \in Record
    BY <1>0
  <2>3. Counted(rec[j], x) /\ Counted(rec[j], y)
    BY <2>2 DEF Record, Counted
  <2>4. rec' = [rec EXCEPT ![j] = x] \/ rec' = [rec EXCEPT ![j] = y]
    BY <1>0, <2>1
  <2> HIDE DEF x, y
  <2> QED
    BY <1>0, <2>1, <2>3, <2>4, OneCounted
<1>15. ASSUME NEW j \in Jobs, DispatchFinal(j) PROVE ClassOK(Class')
  BY <1>0, <1>15, DispatchEffect DEF DispatchFinal, WrittenOK
<1>16. ASSUME NEW j \in Jobs, Claim(j) PROVE ClassOK(Class')
  <2>1. WrittenOK
    BY <1>0, <1>16, ClaimEffect
  <2> QED
    BY <2>1 DEF WrittenOK
<1>17. ASSUME NEW j \in Jobs, EndBody(j) PROVE ClassOK(Class')
  <2> DEFINE x == [rec[j] EXCEPT !.stage = "Finalizing"]
  <2>1. window' = window /\ rec[j].stage = "Running" /\ rec' = [rec EXCEPT ![j].stage = "Finalizing"]
    BY <1>17 DEF EndBody
  <2>2. rec[j] \in Record
    BY <1>0
  <2>3. Counted(rec[j], x)
    BY <2>1, <2>2 DEF Record, Counted
  <2>4. rec' = [rec EXCEPT ![j] = x]
    BY <1>0, <2>1
  <2> HIDE DEF x
  <2> QED
    BY <1>0, <2>1, <2>3, <2>4, OneCounted
<1>18. CASE Seal \/ Close \/ Abandon \/ UNCHANGED vars
  BY <1>1, <1>18 DEF Seal, Close, Abandon, vars
<1>19. CASE PlainSubmission
  BY <1>2, <1>3, <1>4, <1>5, <1>19 DEF PlainSubmission
<1>20. ASSUME NEW t \in Threads, Activation(t) PROVE ClassOK(Class')
  BY <1>7, <1>8, <1>9, <1>10, <1>11, <1>20 DEF Activation
<1>21. ASSUME NEW j \in Jobs, \/ Suppress(j) \/ DropToken(j) \/ FinishRecord(j) \/ DispatchFinal(j)
                               \/ Claim(j) \/ EndBody(j) \/ Cancel(j)
       PROVE  ClassOK(Class')
  BY <1>12, <1>13, <1>14, <1>15, <1>16, <1>17, <1>21
<1> QED
  BY <1>6, <1>18, <1>19, <1>20, <1>21 DEF Plain

\* Every step leaves the counts right.
LEMMA ClassStep ==
  ASSUME BookInv, [Next]_vars
  PROVE  ClassOK(Class')
<1>0. TypeOK /\ ClassOK(Class) /\ Staged /\ rec \in [Jobs -> Record] /\ rec' \in [Jobs -> Record]
  BY ClassTypesStep DEF BookInv, TypeOK, ClassTypes
<1> DEFINE new == [NewRecord EXCEPT !.stage = "Prepared"]
           accepted == [new EXCEPT !.stage = "Waiting"]
           gone == [NoRecord EXCEPT !.stage = "Gone"]
<1>1. /\ new.stage = "Prepared" /\ accepted.stage = "Waiting" /\ gone.stage = "Gone"
      /\ NoRecord.stage = "Out" /\ ~NoRecord.reserved /\ ~gone.reserved
      /\ new.reserved <=> Prereqs = {}
      /\ accepted.reserved <=> Prereqs = {}
  BY DEF NewRecord, NoRecord
<1> HIDE DEF new, accepted, gone
<1>2. \A x, y \in Record : y.stage = x.stage /\ y.reserved = x.reserved => Counted(x, y)
  BY DEF Counted
<1>3. CASE Charge
  <2>1. window' = window
    BY <1>3 DEF Charge
  <2>2. \A j \in Jobs : rec'[j] = rec[j] \/ (rec[j] = NoRecord /\ rec'[j] = new)
    BY <1>3, ChargeStaged DEF new
  <2>3. \A j \in Jobs : Counted(rec[j], rec'[j])
    BY <1>1, <2>2 DEF Counted
  <2> QED
    BY <1>0, <2>1, <2>3, CountsKept
<1>4. CASE Recover
  <2>1. window' = window
    BY <1>4 DEF Recover
  <2>2. \A j \in Jobs : rec'[j] = rec[j] \/ (rec[j] = new /\ rec'[j] = NoRecord)
    BY <1>4, RecoverStaged DEF new
  <2>3. \A j \in Jobs : Counted(rec[j], rec'[j])
    BY <1>1, <2>2 DEF Counted
  <2> QED
    BY <1>0, <2>1, <2>3, CountsKept
<1>5. CASE Register
  <2>1. window' = window
    BY <1>5 DEF Register
  <2>2. \A j \in Jobs : rec'[j] = rec[j] \/ rec'[j] = [rec[j] EXCEPT !.member = TRUE]
    BY <1>5, RegisterStaged
  <2>3. ASSUME NEW j \in Jobs PROVE Counted(rec[j], rec'[j])
    <3>1. rec[j] \in Record
      BY <1>0
    <3>2. rec'[j].stage = rec[j].stage /\ rec'[j].reserved = rec[j].reserved
      BY <2>2, <3>1 DEF Record
    <3> QED
      BY <3>2 DEF Counted
  <2> QED
    BY <1>0, <2>1, <2>3, CountsKept
<1>6. ASSUME NEW j \in Jobs, FinalizeRecord(j) PROVE ClassOK(Class')
  <2>1. window' = window
    BY <1>6 DEF FinalizeRecord
  <2>2. /\ rec[j].stage = "Finalizing" /\ ~rec[j].reserved /\ rec'[j] = gone
        /\ \A i \in Jobs \ {j} : rec'[i] = rec[i]
    BY <1>6, FinalizeStaged DEF gone
  <2>3. \A i \in Jobs : Counted(rec[i], rec'[i])
    BY <1>1, <2>2 DEF Counted
  <2> QED
    BY <1>0, <2>1, <2>3, CountsKept
<1>7. CASE PublishPortion
  <2>1. PICK b, m \in Nat : b + m <= N /\ batch.portion = From(b, m)
    BY PortionFrom
  <2>2. \A j \in Portion : rec[j].stage # "Prepared"
    BY PortionFrom
  <2> QED
    BY <1>0, <1>7, <2>1, <2>2, PublishEffect DEF WrittenOK
<1>8. CASE Commit
  <2> DEFINE n == IF CommitFailure = "None" THEN Selected ELSE 0
             a == Len(batch.accepted)
             taken == a + 1 .. a + n
  <2>1. /\ a \in Nat /\ n \in Nat /\ a + n <= N
        /\ Prereqs = {} => window.runnable + window.attaching + n <= RunnableLimit
    <3> DEFINE p == Len(batch.prepared)
    <3>1. /\ a \in Nat /\ p \in Nat /\ n \in Nat /\ n <= p /\ a + p <= N
          /\ Prereqs = {} => window.runnable + window.attaching + n <= RunnableLimit
      BY <1>8, CommitEffect
    <3> HIDE DEF a, p, n
    <3> QED
      BY <3>1, Constants
  <2>2. /\ \A j \in taken : rec[j] = new /\ rec'[j] = accepted
        /\ \A j \in Jobs \ taken : rec'[j] = rec[j]
    BY <1>8, CommitStaged DEF new, accepted
  <2>3. window' = [window EXCEPT !.attaching = IF Prereqs = {} THEN @ + n ELSE @]
    BY <1>8 DEF Commit
  <2>4. window \in Window /\ window.runnable \in Int /\ window.attaching \in Int
    BY <1>0 DEF TypeOK, Window
  <2> HIDE DEF n, a
  <2>5. /\ window'.deferred = window.deferred /\ window'.runnable = window.runnable
        /\ Prereqs = {} => window'.attaching = window.attaching + n
        /\ Prereqs # {} => window'.attaching = window.attaching
    BY <2>3, <2>4 DEF Window
  <2>6. taken \subseteq Jobs /\ Cardinality(taken) = n /\ IsFiniteSet(taken)
    <3>1. taken \subseteq Jobs
      BY <2>1, Constants DEF Jobs
    <3>2. Cardinality(a + 1 .. a + n) = n /\ IsFiniteSet(a + 1 .. a + n)
      BY <2>1, FS_Interval
    <3> QED
      BY <3>1, <3>2
  <2> HIDE DEF taken
  <2>7. Readied(rec') = Readied(rec) /\ Backlog(rec') = Backlog(rec)
    BY <1>1, <2>2 DEF Readied, Backlog
  <2>8. CASE Prereqs # {}
    <3>1. \A j \in Jobs : Counted(rec[j], rec'[j])
      BY <1>1, <2>2, <2>8 DEF Counted
    <3>2. Placed(rec') = Placed(rec)
      BY <3>1 DEF Counted, Placed
    <3>3. Class'.rec = rec' /\ Class'.window = window' /\ Class.rec = rec /\ Class.window = window
      BY DEF Class
    <3> QED
      BY <1>0, <2>5, <2>7, <2>8, <3>2, <3>3 DEF ClassOK
  <2>9. CASE Prereqs = {}
    <3>1. Placed(rec') = Placed(rec) \cup taken /\ Placed(rec) \cap taken = {}
      BY <1>1, <2>2, <2>6, <2>9 DEF Placed
    <3>2. Placed(rec) \in SUBSET Jobs
      BY DEF Placed
    <3>3. Cardinality(Placed(rec')) = Cardinality(Placed(rec)) + n
      <4>1. IsFiniteSet(Placed(rec)) /\ Cardinality(Placed(rec)) \in Nat
        BY <3>2, FewJobs
      <4>2. Cardinality(Placed(rec) \cup taken)
              = Cardinality(Placed(rec)) + Cardinality(taken) - Cardinality(Placed(rec) \cap taken)
        BY <2>6, <4>1, FS_Union
      <4>3. Cardinality(Placed(rec) \cap taken) = 0
        BY <3>1, FS_EmptySet
      <4> QED
        BY <2>1, <2>6, <3>1, <4>1, <4>2, <4>3
    <3>4. Class'.rec = rec' /\ Class'.window = window' /\ Class.rec = rec /\ Class.window = window
      BY DEF Class
    <3>5. window.runnable + (window.attaching + n) <= RunnableLimit
      BY <2>1, <2>4, <2>9, Constants
    <3> QED
      BY <1>0, <2>5, <2>7, <2>9, <3>3, <3>4, <3>5 DEF ClassOK
  <2> QED
    BY <2>8, <2>9
<1>9. CASE Plain
  BY <1>9, ClassPlain
<1> QED
  BY <1>3, <1>4, <1>5, <1>6, <1>7, <1>8, <1>9, StepKinds

-----------------------------------------------------------------------------
(* The ledger, step by step *)

\* A stretch has as many jobs as its length.
LEMMA StretchSize ==
  ASSUME NEW a \in Nat, NEW n \in Nat
  PROVE  IsFiniteSet(a + 1 .. a + n) /\ Cardinality(a + 1 .. a + n) = n
BY FS_Interval

\* Who is alive, from the records.
LEMMA AliveIs == Alive = {j \in Jobs : LivesIn(rec[j])} /\ Alive \subseteq Jobs /\ Members \subseteq Jobs
BY DEF Alive, Live, LivesIn, LiveStages, Members

\* A step after which everybody lives as before.
LEMMA AliveNext ==
  ASSUME \A j \in Jobs : Lived(rec[j], rec'[j])
  PROVE  Alive' = Alive /\ Members' = Members
BY DEF Alive, Live, LivesIn, LiveStages, Members, Lived

\* The parts of the ledger's invariant, of a next state.
LEMMA LedgeredNext ==
  ASSUME [Next]_vars,
         ledger'.records = Cardinality(Prepared' \cup Alive'), ledger'.edges = ledger'.records * Fanin,
         ledger'.admissions = ledger'.records + (IF batch'.pc = "charge" THEN Maximum' ELSE 0),
         ledger'.members = Cardinality(Alive'),
         ledger'.slots = Cardinality(Members') + batch'.reserve,
         ledger'.records <= RecordLimit, ledger'.edges <= EdgeLimit
  PROVE  Ledgered'
<1>1. Fanin' = Fanin
  BY OptionsStep
<1> QED
  BY <1>1 DEF Ledgered, At

\* A step that charges nothing and ends nothing.
LEMMA LedgeredSame ==
  ASSUME TypeOK, Ledgered, [Next]_vars, Prepared' = Prepared, \A j \in Jobs : Lived(rec[j], rec'[j]),
         batch'.reserve = batch.reserve, UNCHANGED ledger,
         batch'.pc = "charge" <=> batch.pc = "charge", Maximum' = Maximum
  PROVE  Ledgered'
<1>1. Alive' = Alive /\ Members' = Members
  BY AliveNext
<1> HIDE DEF Maximum
<1> QED
  BY <1>1, LedgeredNext DEF Ledgered, At

\* A plain step leaves the ledger right.
LEMMA LedgeredPlain ==
  ASSUME BookInv, [Next]_vars, Plain
  PROVE  Ledgered'
<1>0. TypeOK /\ Ledgered /\ Phased /\ batch \in Batch /\ ledger \in Ledger
  BY DEF BookInv, TypeOK
<1>1. Alive' = Alive /\ Members' = Members /\ \A j \in Jobs : Lived(rec[j], rec'[j])
  BY StagedPlain, AliveNext
<1>2. CASE Admit
  <2>1. SameOrder
    BY <1>0, <1>2, SubmissionSteps
  <2>2. Prepared' = Prepared /\ Maximum' = Maximum
    BY <2>1 DEF SameOrder, Prepared, Maximum
  <2>3. Maximum \in Nat
    BY <1>0, FittingIn
  <2>4. batch.pc = "next" /\ batch'.reserve = batch.reserve
        /\ \/ batch'.pc = "done" /\ ledger' = ledger
           \/ batch'.pc = "charge" /\ ledger' = [ledger EXCEPT !.admissions = @ + Maximum]
    BY <1>0, <1>2 DEF Admit, At, Go, Refuse, Batch
  <2> HIDE DEF Maximum
  <2>5. CASE batch'.pc = "done"
    BY <1>0, <1>1, <2>2, <2>4, <2>5, LedgeredNext DEF Ledgered, At
  <2>6. CASE batch'.pc = "charge"
    <3>1. /\ ledger'.records = ledger.records /\ ledger'.edges = ledger.edges
          /\ ledger'.members = ledger.members /\ ledger'.slots = ledger.slots
          /\ ledger'.admissions = ledger.admissions + Maximum
      BY <1>0, <2>4, <2>6 DEF Ledger
    <3>2. ledger.admissions = ledger.records + 0 /\ ledger.records \in Int
      BY <1>0, <2>4, LedgerFields DEF Ledgered, At
    <3>3. ledger'.admissions = ledger'.records + (IF batch'.pc = "charge" THEN Maximum' ELSE 0)
      BY <2>2, <2>3, <2>6, <3>1, <3>2
    <3> QED
      BY <1>0, <1>1, <2>2, <2>4, <3>1, <3>3, LedgeredNext DEF Ledgered
  <2> QED
    BY <2>4, <2>5, <2>6
<1>3. CASE Enter \/ Token \/ SubscribeRange \/ Install \/ DropUnused \/ Subscribe
  <2>1. SameOrder
    BY <1>0, <1>3, SubmissionSteps
  <2>2. Prepared' = Prepared /\ Maximum' = Maximum
    BY <2>1 DEF SameOrder, Prepared, Maximum
  <2>3. UNCHANGED ledger
    BY <1>3 DEF Enter, Token, SubscribeRange, Install, DropUnused, Subscribe
  <2>4. batch.pc # "charge" /\ batch'.pc # "charge" /\ batch'.reserve = batch.reserve
    <3>1. ASSUME Enter \/ SubscribeRange \/ Install \/ DropUnused
          PROVE  batch.pc # "charge" /\ batch'.pc # "charge" /\ batch'.reserve = batch.reserve
      BY <1>0, <3>1 DEF Enter, SubscribeRange, Install, DropUnused, At, Go, Refuse, Batch
    <3>2. ASSUME Token \/ Subscribe
          PROVE  batch.pc # "charge" /\ batch'.pc # "charge" /\ batch'.reserve = batch.reserve
      BY <1>0, <3>2 DEF Token, Subscribe, At, Go, Batch
    <3> QED
      BY <1>3, <3>1, <3>2
  <2> QED
    BY <1>0, <1>1, <2>2, <2>3, <2>4, LedgeredSame
<1>4. CASE DispatchPortion
  <2>1. UNCHANGED ledger /\ batch.pc = "dispatch" /\ batch' = [batch EXCEPT !.pc = "next", !.portion = <<>>]
    BY <1>4 DEF DispatchPortion, At
  <2>2. /\ batch'.prepared = batch.prepared /\ batch'.remaining = batch.remaining
        /\ batch'.reserve = batch.reserve /\ batch'.pc = "next"
    BY <1>0, <2>1 DEF Batch
  <2>3. Prepared' = Prepared /\ Maximum' = Maximum
    BY <2>2 DEF Prepared, Maximum
  <2> QED
    BY <1>0, <1>1, <2>1, <2>2, <2>3, LedgeredSame
<1>5. CASE ~PlainSubmission
  <2>1. batch' = batch
    <3>1. Outside
      BY <1>5 DEF Plain, Outside, Settlement
    <3> QED
      BY <3>1, OutsideSteps
  <2>2. UNCHANGED ledger
    BY <1>5, LedgerSteps DEF Plain
  <2>3. Prepared' = Prepared /\ Maximum' = Maximum
    BY <2>1 DEF Prepared, Maximum
  <2> QED
    BY <1>0, <1>1, <2>1, <2>2, <2>3, LedgeredSame
<1> QED
  BY <1>2, <1>3, <1>4, <1>5 DEF PlainSubmission

\* Charge takes from the ledger what it prepares.
LEMMA LedgeredCharge ==
  ASSUME BookInv, [Next]_vars, Charge
  PROVE  Ledgered'
<1>0. TypeOK /\ Ordered /\ Ledgered /\ batch.pc = "charge" /\ batch \in Batch /\ ledger \in Ledger
  BY DEF BookInv, TypeOK, Charge, At
<1>1. Alive' = Alive /\ Members' = Members
  BY ChargeStaged, AliveNext
<1>2. /\ Maximum \in Nat /\ Fitting \in Nat /\ ledger.records + Fitting <= RecordLimit
      /\ ledger.edges + Fitting * Fanin <= EdgeLimit
  BY <1>0, FittingIn
<1>3. ledger.admissions = ledger.records + Maximum /\ ledger.records \in Int /\ Fanin \in Nat
      /\ ledger.edges \in Int /\ ledger.slots \in Int
  BY <1>0, LedgerFields, FaninIn DEF Ledgered, At
<1>4. CASE sealed \/ Fitting = 0
  <2>1. /\ ledger' = [ledger EXCEPT !.admissions = @ - Maximum]
        /\ Refuse("InvalidGroup") \/ Refuse("Full")
    BY <1>4 DEF Charge
  <2>2. batch'.pc = "done" /\ batch'.reserve = batch.reserve
    BY <1>0, <2>1 DEF Refuse, Batch
  <2>3. Prepared' = Prepared
    BY <1>4, ChargeStaged
  <2> HIDE DEF Maximum
  <2>4. /\ ledger'.records = ledger.records /\ ledger'.edges = ledger.edges
        /\ ledger'.members = ledger.members /\ ledger'.slots = ledger.slots
        /\ ledger'.admissions = ledger.admissions - Maximum
    BY <1>0, <2>1 DEF Ledger
  <2>5. ledger'.admissions = ledger'.records + 0
    BY <1>2, <1>3, <2>4
  <2> QED
    BY <1>0, <1>1, <2>2, <2>3, <2>4, <2>5, LedgeredNext DEF Ledgered
<1>5. CASE ~(sealed \/ Fitting = 0)
  <2> DEFINE a == Len(batch.accepted)
             n == Fitting
             taken == a + 1 .. a + n
  <2>1. ledger' = [records |-> ledger.records + n, edges |-> ledger.edges + n * Fanin,
                   admissions |-> ledger.admissions - Maximum + n,
                   slots |-> ledger.slots + n, members |-> ledger.members]
    BY <1>5 DEF Charge
  <2>2. /\ a \in Nat /\ n \in Nat /\ a + n <= N /\ batch.reserve = 0
        /\ batch' = [batch EXCEPT !.pc = "commit", !.reserve = n, !.prepared = From(a, n),
                                  !.remaining = From(a + n, N - (a + n))]
    BY <1>5, ChargeEffect
  <2>3. /\ Prepared = {} /\ Prepared' = taken
        /\ \A j \in taken : rec[j] = NoRecord
    BY <1>5, ChargeStaged
  <2> HIDE DEF a, n, Maximum
  <2>4. batch'.pc = "commit" /\ batch'.reserve = n
    BY <1>0, <2>2 DEF Batch
  <2>5. taken \subseteq Jobs /\ taken \cap Alive = {} /\ IsFiniteSet(taken) /\ Cardinality(taken) = n
    <3>1. taken \subseteq Jobs
      BY <2>2, Constants DEF Jobs
    <3>2. Cardinality(a + 1 .. a + n) = n /\ IsFiniteSet(a + 1 .. a + n)
      BY <2>2, StretchSize
    <3>3. NoRecord.stage = "Out"
      BY DEF NoRecord
    <3>4. taken \cap Alive = {}
      BY <2>3, <3>3 DEF Alive, Live
    <3> QED
      BY <3>1, <3>2, <3>4
  <2> HIDE DEF taken
  <2>6. Cardinality(taken \cup Alive) = n + Cardinality(Alive) /\ Cardinality(Alive) \in Nat
    <3>1. IsFiniteSet(Alive) /\ Cardinality(Alive) \in Nat
      BY AliveIs, FewJobs
    <3>2. Cardinality(taken \cup Alive)
            = Cardinality(taken) + Cardinality(Alive) - Cardinality(taken \cap Alive)
      BY <2>5, <3>1, FS_Union
    <3>3. Cardinality(taken \cap Alive) = 0
      BY <2>5, FS_EmptySet
    <3> QED
      BY <2>2, <2>5, <3>1, <3>2, <3>3
  <2>7. ledger.records = Cardinality(Alive)
    <3>1. {} \cup Alive = Alive
      OBVIOUS
    <3> QED
      BY <1>0, <2>3, <3>1 DEF Ledgered
  <2>8. /\ ledger'.records = ledger.records + n /\ ledger'.edges = ledger.edges + n * Fanin
        /\ ledger'.admissions = ledger.admissions - Maximum + n
        /\ ledger'.slots = ledger.slots + n /\ ledger'.members = ledger.members
    BY <2>1
  <2>9. ledger'.edges = ledger'.records * Fanin
    <3>1. (ledger.records + n) * Fanin = ledger.records * Fanin + n * Fanin
      BY <1>3, <2>2, ProductOfSum
    <3> QED
      BY <1>0, <2>8, <3>1 DEF Ledgered
  <2>10. ledger'.records = Cardinality(Prepared' \cup Alive')
    BY <1>1, <2>2, <2>3, <2>6, <2>7, <2>8
  <2>11. ledger'.admissions = ledger'.records + 0
    BY <1>2, <1>3, <2>2, <2>8
  <2>12. ledger'.slots = Cardinality(Members') + batch'.reserve
    <3>1. Cardinality(Members) \in Nat /\ ledger.slots = Cardinality(Members) + 0
      BY <1>0, <2>2, AliveIs, FewJobs DEF Ledgered
    <3> QED
      BY <1>1, <2>2, <2>4, <2>8, <3>1
  <2>13. ledger'.records <= RecordLimit /\ ledger'.edges <= EdgeLimit
    BY <1>2, <2>8 DEF n
  <2> QED
    BY <1>0, <1>1, <2>4, <2>8, <2>9, <2>10, <2>11, <2>12, <2>13, LedgeredNext DEF Ledgered
<1> QED
  BY <1>4, <1>5

\* Commit charges the group for the members it accepts, and moves nothing else.
LEMMA LedgeredCommit ==
  ASSUME BookInv, [Next]_vars, Commit
  PROVE  Ledgered'
<1> DEFINE n == IF CommitFailure = "None" THEN Selected ELSE 0
           a == Len(batch.accepted)
           taken == a + 1 .. a + n
           new == [NewRecord EXCEPT !.stage = "Prepared"]
           accepted == [new EXCEPT !.stage = "Waiting"]
<1>0. TypeOK /\ Ordered /\ Ledgered /\ batch.pc = "commit" /\ batch \in Batch /\ ledger \in Ledger
      /\ ledger' = [ledger EXCEPT !.members = @ + n]
  BY DEF BookInv, TypeOK, Commit, At
<1>1. /\ a \in Nat /\ n \in Nat
      /\ batch'.pc = "recover" /\ batch'.reserve = batch.reserve
  <2>1. a \in Nat /\ n \in Nat
    BY CommitEffect
  <2>2. batch'.pc = "recover" /\ batch'.reserve = batch.reserve
    BY <1>0 DEF Commit, Batch
  <2> QED
    BY <2>1, <2>2
<1>2. /\ taken \subseteq Prepared /\ Prepared' = Prepared \ taken
      /\ \A j \in taken : rec[j] = new /\ rec'[j] = accepted
      /\ \A j \in Jobs \ taken : rec'[j] = rec[j]
  BY CommitStaged
<1>3. /\ new.stage = "Prepared" /\ accepted.stage = "Waiting"
      /\ new.member = FALSE /\ accepted.member = FALSE
  BY DEF NewRecord, NoRecord
<1> HIDE DEF n, a, new, accepted
<1>4. IsFiniteSet(taken) /\ Cardinality(taken) = n
  <2>1. Cardinality(a + 1 .. a + n) = n /\ IsFiniteSet(a + 1 .. a + n)
    BY <1>1, FS_Interval
  <2> QED
    BY <2>1
<1> HIDE DEF taken
<1>5. taken \subseteq Jobs /\ Prepared \subseteq Jobs
  BY <1>0, <1>2, Disjoint
<1>6. Alive' = Alive \cup taken /\ Alive \cap taken = {}
  BY <1>2, <1>3, <1>5 DEF Alive, Live
<1>7. Members' = Members
  BY <1>2, <1>3, <1>5 DEF Members
<1>8. Prepared' \cup Alive' = Prepared \cup Alive
  BY <1>2, <1>6
<1>9. Cardinality(Alive') = Cardinality(Alive) + n /\ Cardinality(Alive) \in Nat
  <2>1. IsFiniteSet(Alive) /\ Cardinality(Alive) \in Nat
    BY AliveIs, FewJobs
  <2>2. Cardinality(Alive \cup taken)
          = Cardinality(Alive) + Cardinality(taken) - Cardinality(Alive \cap taken)
    BY <1>4, <2>1, FS_Union
  <2>3. Cardinality(Alive \cap taken) = 0
    BY <1>6, FS_EmptySet
  <2> QED
    BY <1>1, <1>4, <1>6, <2>1, <2>2, <2>3
<1>10. /\ ledger'.records = ledger.records /\ ledger'.edges = ledger.edges
       /\ ledger'.admissions = ledger.admissions /\ ledger'.slots = ledger.slots
       /\ ledger'.members = ledger.members + n
  BY <1>0 DEF Ledger
<1> QED
  BY <1>0, <1>1, <1>7, <1>8, <1>9, <1>10, LedgeredNext DEF Ledgered, At

\* Recover gives back what is charged for the jobs left over, and on a refusal
\* the slots.
LEMMA LedgeredRecover ==
  ASSUME BookInv, [Next]_vars, Recover
  PROVE  Ledgered'
<1> DEFINE a == Len(batch.accepted)
           p == Len(batch.prepared)
           back == batch.failure # "None"
<1>0. TypeOK /\ Ordered /\ Ledgered /\ Staged /\ batch.pc = "recover" /\ batch \in Batch /\ ledger \in Ledger
      /\ ledger' = [Refund(p) EXCEPT !.slots = IF batch.failure = "None" THEN @ ELSE @ - batch.reserve]
  BY DEF BookInv, TypeOK, Recover, At
<1>1. /\ p \in Nat /\ p = Cardinality(Prepared) /\ IsFiniteSet(Prepared) /\ Prepared \subseteq Jobs
      /\ batch.reserve \in Int
  BY <1>0, Stretches, Disjoint, FewJobs, BatchFields
<1>2. /\ batch'.pc # "charge"
      /\ batch'.reserve = IF batch.failure = "None" THEN batch.reserve ELSE 0
  BY <1>0, RecoverEffect DEF Batch
<1>3. Prepared' = {} /\ Alive' = Alive /\ Members' = Members
  BY RecoverStaged, AliveNext
<1>4. Prepared \cap Alive = {}
  <2>1. \A j \in Prepared : rec[j] = [NewRecord EXCEPT !.stage = "Prepared"]
    BY RecoverStaged
  <2>2. [NewRecord EXCEPT !.stage = "Prepared"].stage = "Prepared"
    BY DEF NewRecord, NoRecord
  <2> QED
    BY <2>1, <2>2 DEF Alive, Live
<1> HIDE DEF a, p
<1>5. /\ Refund(p) \in Ledger
      /\ Refund(p).records = ledger.records - p /\ Refund(p).edges = ledger.edges - p * Fanin
      /\ Refund(p).admissions = ledger.admissions - p
      /\ Refund(p).slots = ledger.slots /\ Refund(p).members = ledger.members
  BY <1>0, <1>1, RefundIn
<1>6. /\ ledger'.records = ledger.records - p /\ ledger'.edges = ledger.edges - p * Fanin
      /\ ledger'.admissions = ledger.admissions - p /\ ledger'.members = ledger.members
      /\ ledger'.slots = IF batch.failure = "None" THEN ledger.slots ELSE ledger.slots - batch.reserve
  <2> DEFINE g == Refund(p)
  <2>1. g \in Ledger /\ ledger' = [g EXCEPT !.slots = IF batch.failure = "None" THEN @ ELSE @ - batch.reserve]
    BY <1>0, <1>5
  <2>2. g.records = ledger.records - p /\ g.edges = ledger.edges - p * Fanin
        /\ g.admissions = ledger.admissions - p
        /\ g.slots = ledger.slots /\ g.members = ledger.members
    BY <1>5
  <2> HIDE DEF g
  <2> QED
    BY <2>1, <2>2 DEF Ledger
<1>7. /\ Cardinality(Alive) \in Nat /\ Cardinality(Members) \in Nat
      /\ Cardinality(Prepared \cup Alive) = p + Cardinality(Alive)
  <2>1. IsFiniteSet(Alive) /\ Cardinality(Alive) \in Nat /\ Cardinality(Members) \in Nat
    BY AliveIs, FewJobs
  <2>2. Cardinality(Prepared \cup Alive)
          = Cardinality(Prepared) + Cardinality(Alive) - Cardinality(Prepared \cap Alive)
    BY <1>1, <2>1, FS_Union
  <2>3. Cardinality(Prepared \cap Alive) = 0
    BY <1>4, FS_EmptySet
  <2> QED
    BY <1>1, <2>1, <2>2, <2>3
<1>8. /\ ledger.records \in Int /\ ledger.edges \in Int /\ ledger.admissions \in Int
      /\ ledger.slots \in Int /\ Fanin \in Nat
  BY <1>0, LedgerFields, FaninIn
<1>9. /\ ledger.records = Cardinality(Prepared \cup Alive) /\ ledger.edges = ledger.records * Fanin
      /\ ledger.admissions = ledger.records + 0 /\ ledger.members = Cardinality(Alive)
      /\ ledger.slots = Cardinality(Members) + batch.reserve
      /\ ledger.records <= RecordLimit /\ ledger.edges <= EdgeLimit
  BY <1>0 DEF Ledgered, At
<1>10. ledger'.records = Cardinality(Alive)
  BY <1>1, <1>6, <1>7, <1>9
<1>11. Prepared' \cup Alive' = Alive
  BY <1>3
<1>12. ledger'.edges = ledger'.records * Fanin
  <2>1. (ledger.records - p) * Fanin = ledger.records * Fanin - p * Fanin
    BY <1>1, <1>8, ProductOfSum
  <2> QED
    BY <1>6, <1>9, <2>1
<1>13. ledger'.admissions = ledger'.records + 0
  BY <1>1, <1>6, <1>8, <1>9
<1>14. ledger'.slots = Cardinality(Members') + batch'.reserve
  BY <1>1, <1>2, <1>3, <1>6, <1>7, <1>8, <1>9
<1>15. ledger'.records <= RecordLimit /\ ledger'.edges <= EdgeLimit
  <2>1. p * Fanin \in Nat
    BY <1>1, <1>8, ProductIn
  <2> QED
    BY <1>1, <1>6, <1>8, <1>9, <2>1, Constants
<1> QED
  BY <1>2, <1>3, <1>6, <1>9, <1>10, <1>11, <1>12, <1>13, <1>14, <1>15, LedgeredNext

\* Register turns reserved slots into members.
LEMMA LedgeredRegister ==
  ASSUME BookInv, [Next]_vars, Register
  PROVE  Ledgered'
<1> DEFINE m == Len(batch.portion)
<1>0. TypeOK /\ Ordered /\ Ledgered /\ batch.pc = "register" /\ batch \in Batch /\ ledger \in Ledger
      /\ ledger' = [ledger EXCEPT !.slots = @ - batch.reserve + m]
  BY DEF BookInv, TypeOK, Register, At
<1>1. batch'.pc # "charge" /\ batch'.reserve = 0
  BY <1>0 DEF Register, Batch
<1>2. m \in Nat /\ Cardinality(Portion) = m /\ Portion \subseteq Jobs /\ batch.reserve \in Int
      /\ ledger.slots \in Int
  BY <1>0, Stretches, Disjoint, BatchFields, LedgerFields
<1>3. /\ SameOrder
      /\ \A j \in Portion : /\ LivesIn(rec[j]) /\ ~rec[j].member
                            /\ rec'[j] = [rec[j] EXCEPT !.member = TRUE]
      /\ \A j \in Jobs \ Portion : rec'[j] = rec[j]
  BY RegisterStaged
<1> HIDE DEF m
<1>4. \A j \in Portion : rec'[j].stage = rec[j].stage /\ rec'[j].member = TRUE
  <2>1. \A j \in Portion : rec[j] \in Record
    BY <1>0, <1>2 DEF TypeOK
  <2> QED
    BY <1>3, <2>1 DEF Record
<1>5. Alive' = Alive
  BY <1>3, <1>4 DEF Alive, Live
<1>6. Members' = Members \cup Portion /\ Members \cap Portion = {}
  BY <1>2, <1>3, <1>4 DEF Members
<1>7. Cardinality(Members') = Cardinality(Members) + m /\ Cardinality(Members) \in Nat
  <2>1. IsFiniteSet(Members) /\ Cardinality(Members) \in Nat /\ IsFiniteSet(Portion)
    BY <1>2, AliveIs, FewJobs
  <2>2. Cardinality(Members \cup Portion)
          = Cardinality(Members) + Cardinality(Portion) - Cardinality(Members \cap Portion)
    BY <2>1, FS_Union
  <2>3. Cardinality(Members \cap Portion) = 0
    BY <1>6, FS_EmptySet
  <2> QED
    BY <1>2, <1>6, <2>1, <2>2, <2>3
<1>8. Prepared' = Prepared
  BY <1>3 DEF SameOrder, Prepared
<1>9. /\ ledger'.records = ledger.records /\ ledger'.edges = ledger.edges
      /\ ledger'.admissions = ledger.admissions /\ ledger'.members = ledger.members
      /\ ledger'.slots = ledger.slots - batch.reserve + m
  BY <1>0 DEF Ledger
<1>10. ledger'.slots = Cardinality(Members') + batch'.reserve
  <2>1. ledger.slots = Cardinality(Members) + batch.reserve
    BY <1>0 DEF Ledgered
  <2> QED
    BY <1>1, <1>2, <1>7, <1>9, <2>1
<1> QED
  BY <1>0, <1>1, <1>5, <1>8, <1>9, <1>10, LedgeredNext DEF Ledgered, At

\* FinalizeRecord gives back what one job was charged.
LEMMA LedgeredFinalize ==
  ASSUME BookInv, [Next]_vars, NEW j \in Jobs, FinalizeRecord(j)
  PROVE  Ledgered'
<1> DEFINE gone == [NoRecord EXCEPT !.stage = "Gone"]
           g == Refund(1)
<1>0. TypeOK /\ Ordered /\ Staged /\ Ledgered /\ ledger \in Ledger
      /\ ledger' = [g EXCEPT !.slots = @ - 1, !.members = @ - 1]
  BY DEF BookInv, TypeOK, FinalizeRecord
<1>1. /\ batch' = batch
      /\ rec[j].stage = "Finalizing" /\ rec[j].member = TRUE /\ rec'[j] = gone
      /\ \A i \in Jobs \ {j} : rec'[i] = rec[i]
  BY FinalizeStaged
<1>2. gone.stage = "Gone" /\ gone.member = FALSE
  BY DEF NoRecord
<1>3. /\ g \in Ledger /\ g.records = ledger.records - 1 /\ g.edges = ledger.edges - 1 * Fanin
      /\ g.admissions = ledger.admissions - 1
      /\ g.slots = ledger.slots /\ g.members = ledger.members
  <2>1. 1 \in Nat
    OBVIOUS
  <2> QED
    BY <1>0, <2>1, RefundIn
<1> HIDE DEF gone, g
<1>4. /\ ledger'.records = ledger.records - 1 /\ ledger'.edges = ledger.edges - 1 * Fanin
      /\ ledger'.admissions = ledger.admissions - 1
      /\ ledger'.slots = ledger.slots - 1 /\ ledger'.members = ledger.members - 1
  BY <1>0, <1>3 DEF Ledger
<1>5. Alive' = Alive \ {j} /\ j \in Alive
  BY <1>1, <1>2 DEF Alive, Live
<1>6. Members' = Members \ {j} /\ j \in Members
  BY <1>1, <1>2 DEF Members
<1>7. j \notin Prepared
  <2>1. [NewRecord EXCEPT !.stage = "Prepared"].stage = "Prepared"
    BY DEF NewRecord, NoRecord
  <2> QED
    BY <1>0, <1>1, <2>1 DEF Staged, JobStaged
<1>8. Prepared' = Prepared /\ Maximum' = Maximum
  BY <1>1 DEF Prepared, Maximum
<1>9. /\ Cardinality(Alive') = Cardinality(Alive) - 1 /\ Cardinality(Members') = Cardinality(Members) - 1
      /\ Cardinality(Prepared' \cup Alive') = Cardinality(Prepared \cup Alive) - 1
      /\ Cardinality(Alive) \in Nat /\ Cardinality(Members) \in Nat
      /\ Cardinality(Prepared \cup Alive) \in Nat
  <2>1. Prepared \subseteq Jobs
    BY <1>0, Disjoint
  <2>2. /\ IsFiniteSet(Alive) /\ IsFiniteSet(Members) /\ IsFiniteSet(Prepared \cup Alive)
        /\ Cardinality(Alive) \in Nat /\ Cardinality(Members) \in Nat
        /\ Cardinality(Prepared \cup Alive) \in Nat
    BY <2>1, AliveIs, FewJobs
  <2>3. Prepared' \cup Alive' = (Prepared \cup Alive) \ {j} /\ j \in Prepared \cup Alive
    BY <1>5, <1>7, <1>8
  <2>4. Cardinality(Alive \ {j}) = Cardinality(Alive) - 1
    BY <1>5, <2>2, FS_RemoveElement
  <2>5. Cardinality(Members \ {j}) = Cardinality(Members) - 1
    BY <1>6, <2>2, FS_RemoveElement
  <2>6. Cardinality((Prepared \cup Alive) \ {j}) = Cardinality(Prepared \cup Alive) - 1
    BY <2>2, <2>3, FS_RemoveElement
  <2> QED
    BY <1>5, <1>6, <2>2, <2>3, <2>4, <2>5, <2>6
<1>10. /\ ledger.records \in Int /\ ledger.edges \in Int /\ ledger.admissions \in Int
       /\ ledger.slots \in Int /\ Fanin \in Nat /\ batch.reserve \in Int /\ Maximum \in Nat
  BY <1>0, LedgerFields, FaninIn, BatchFields, FittingIn
<1>11. ledger'.edges = ledger'.records * Fanin
  <2>1. (ledger.records - 1) * Fanin = ledger.records * Fanin - 1 * Fanin
    BY <1>10, ProductOfSum
  <2> QED
    BY <1>0, <1>4, <2>1 DEF Ledgered
<1> HIDE DEF Maximum
<1>12. /\ ledger.records = Cardinality(Prepared \cup Alive)
       /\ ledger.members = Cardinality(Alive)
       /\ ledger.slots = Cardinality(Members) + batch.reserve
       /\ ledger.records <= RecordLimit /\ ledger.edges <= EdgeLimit
       /\ ledger.admissions = ledger.records + (IF batch.pc = "charge" THEN Maximum ELSE 0)
  BY <1>0 DEF Ledgered, At
<1>13. ledger'.records = Cardinality(Prepared' \cup Alive') /\ ledger'.members = Cardinality(Alive')
  BY <1>4, <1>9, <1>12
<1>14. ledger'.slots = Cardinality(Members') + batch'.reserve
  <2>1. ledger'.slots = (Cardinality(Members) + batch.reserve) - 1
    BY <1>4, <1>12
  <2> QED
    BY <1>1, <1>9, <1>10, <2>1
<1>15. ledger'.records <= RecordLimit /\ ledger'.edges <= EdgeLimit
  <2>1. 1 * Fanin = Fanin
    BY <1>10
  <2> QED
    BY <1>4, <1>10, <1>12, <2>1, Constants
<1>16. ledger'.admissions = ledger'.records + (IF batch'.pc = "charge" THEN Maximum' ELSE 0)
  <2> DEFINE x == IF batch.pc = "charge" THEN Maximum ELSE 0
  <2>1. x \in Nat /\ ledger.admissions = ledger.records + x
    BY <1>10, <1>12
  <2>2. (IF batch'.pc = "charge" THEN Maximum' ELSE 0) = x
    BY <1>1, <1>8
  <2> HIDE DEF x
  <2> QED
    BY <1>4, <1>10, <2>1, <2>2
<1> QED
  BY <1>11, <1>13, <1>14, <1>15, <1>16, LedgeredNext

\* Every step leaves the ledger right.
LEMMA LedgeredStep ==
  ASSUME BookInv, [Next]_vars
  PROVE  Ledgered'
<1>1. CASE PublishPortion
  <2>0. TypeOK /\ Ledgered /\ batch \in Batch
    BY DEF BookInv, TypeOK
  <2>1. SameOrder /\ UNCHANGED ledger /\ \A j \in Jobs : Lived(rec[j], rec'[j])
    BY <1>1, <2>0, SubmissionSteps, PublishStaged DEF PublishPortion
  <2>2. Prepared' = Prepared /\ Maximum' = Maximum
    BY <2>1 DEF SameOrder, Prepared, Maximum
  <2>3. batch.pc # "charge" /\ batch'.pc # "charge" /\ batch'.reserve = batch.reserve
    BY <1>1, <2>0 DEF PublishPortion, At, Go, Batch
  <2> QED
    BY <2>0, <2>1, <2>2, <2>3, LedgeredSame
<1> QED
  BY <1>1, StepKinds, LedgeredPlain, LedgeredCharge, LedgeredCommit, LedgeredRecover, LedgeredRegister,
     LedgeredFinalize

-----------------------------------------------------------------------------
(* The books are exact *)

\* Before the submitter calls, nothing is charged and every job is outside.
LEMMA BookInit ==
  ASSUME Init
  PROVE  BookInv
<1>0. /\ batch = [pc |-> "enter", remaining |-> [i \in Jobs |-> i], prepared |-> <<>>,
                  accepted |-> <<>>, portion |-> <<>>, todo |-> {}, reserve |-> 0, failure |-> "None"]
      /\ ledger = [records |-> 0, edges |-> 0, admissions |-> 0, slots |-> 0, members |-> 0]
      /\ rec = [j \in Jobs |-> NoRecord] /\ window = [deferred |-> <<>>, runnable |-> 0, attaching |-> 0]
      /\ options \in [prereqs : SUBSET Signals, successOnly : BOOLEAN]
      /\ settling = [j \in Jobs |-> "none"]
  BY DEF Init
<1>1. [i \in Jobs |-> i] = From(0, N) /\ From(0, 0) = <<>> /\ From(0, N) \in Seq(Jobs)
      /\ N \in Nat /\ Jobs = 1 .. N
  <2>1. N \in Nat /\ 0 \in Nat
    BY Constants
  <2>2. \A i \in Jobs : 0 + i = i
    BY <2>1 DEF Jobs
  <2>3. [i \in Jobs |-> i] = From(0, N)
    BY <2>2 DEF From, Jobs
  <2>4. From(0, 0) = <<>>
    BY <2>1, FromElements
  <2>5. From(0, N) \in Seq(Jobs)
    BY <2>1, FromJobs
  <2> QED
    BY <2>1, <2>3, <2>4, <2>5 DEF Jobs
<1>2. TypeOK
  <2>1. batch \in Batch
    BY <1>0, <1>1, EmptyElements DEF Batch, Places, Before
  <2>2. NoRecord \in Record
    BY DEF NoRecord, Record, Stages
  <2>3. window \in Window
    BY <1>0, EmptyElements DEF Window
  <2>4. NoRange \in Registration
    BY DEF NoRange, Registration
  <2>5. ledger \in Ledger
    BY <1>0 DEF Ledger
  <2> QED
    BY <2>1, <2>2, <2>3, <2>4, <2>5 DEF Init, TypeOK, Statuses
<1>3. Ordered
  <2>1. Len(<<>>) = 0 /\ 0 + 0 = 0 /\ 0 - 0 = 0 /\ N - (0 + 0) = N /\ 0 <= N /\ 0 <= 0
    BY <1>1
  <2> QED
    BY <1>0, <1>1, <2>1 DEF Ordered
<1>4. Phased /\ Ranged
  BY <1>0 DEF Phased, Ranged, Ranging, At, Before, Early, Attaching
<1>5. /\ Accepted = {} /\ Prepared = {} /\ Portion = {}
      /\ \A j \in Jobs : rec[j] = NoRecord /\ settling[j] = "none"
  BY <1>0, EmptyElements DEF Accepted, Prepared, Portion
<1>6. Staged
  <2> SUFFICES ASSUME NEW j \in Jobs PROVE JobStaged(j)
    BY DEF Staged
  <2>1. /\ rec[j].stage = "Out" /\ ~rec[j].attaching /\ ~rec[j].reserved /\ ~rec[j].member
        /\ ~rec[j].deferred
    BY <1>5 DEF NoRecord
  <2> QED
    BY <1>5, <2>1 DEF JobStaged, Live
<1>7. \A j \in Jobs : rec[j].stage = "Out" /\ ~rec[j].reserved /\ ~rec[j].member
  BY <1>5 DEF NoRecord
<1>8. ClassOK(Class)
  <2>1. Readied(rec) = {} /\ Backlog(rec) = {} /\ Placed(rec) = {}
    BY <1>7 DEF Readied, Backlog, Placed
  <2>2. Class.rec = rec /\ Class.window = window
    BY DEF Class
  <2>3. Cardinality({}) = 0 /\ 0 + 0 <= RunnableLimit
    BY FS_EmptySet, Constants
  <2>4. window.deferred = <<>> /\ window.runnable = 0 /\ window.attaching = 0
    BY <1>0
  <2> QED
    BY <2>1, <2>2, <2>3, <2>4, EmptyElements DEF ClassOK
<1>9. Ledgered
  <2>1. Alive = {} /\ Members = {} /\ Prepared \cup Alive = {}
    BY <1>5, <1>7 DEF Alive, Live, Members
  <2>2. Cardinality({}) = 0 /\ RecordLimit \in Nat /\ EdgeLimit \in Nat
    BY FS_EmptySet, Constants
  <2>3. 0 * Fanin = 0
    <3>1. Fanin \in Nat
      BY <1>2, FaninIn
    <3> QED
      BY <3>1
  <2>4. /\ ledger.records = 0 /\ ledger.edges = 0 /\ ledger.admissions = 0 /\ ledger.slots = 0
        /\ ledger.members = 0 /\ batch.reserve = 0 /\ batch.pc = "enter"
    BY <1>0
  <2> QED
    BY <2>1, <2>2, <2>3, <2>4 DEF Ledgered, At
<1> QED
  BY <1>2, <1>3, <1>4, <1>6, <1>8, <1>9 DEF BookInv

\* Every step keeps the books.
LEMMA BookStep ==
  ASSUME BookInv, [Next]_vars
  PROVE  BookInv'
BY TypeStep, OrderedStep, PhasedStep, RangedStep, StagedStep, ClassStep, LedgeredStep DEF BookInv

\* The places held for members being attached are the reservations of those
\* that are alive, and the three stretches of the input join up.
LEMMA BooksFollow ==
  ASSUME BookInv
  PROVE  BooksExact
<1>0. TypeOK /\ Ordered /\ Staged /\ ClassOK(Class) /\ Ledgered
  BY DEF BookInv
<1>1. Class.rec = rec /\ Class.window = window
  BY DEF Class
<1>2. Placed(rec) = {j \in Alive : rec[j].reserved}
  <2>1. ASSUME NEW j \in Jobs, rec[j].stage # "Prepared", rec[j].reserved PROVE Live(j)
    <3>1. JobStaged(j)
      BY <1>0 DEF Staged
    <3> QED
      BY <2>1, <3>1 DEF JobStaged, Live
  <2>2. ASSUME NEW j \in Alive PROVE j \in Jobs /\ Live(j) /\ rec[j].stage # "Prepared"
    BY <2>2 DEF Alive, Live
  <2> QED
    BY <2>1, <2>2 DEF Placed, Alive
<1>3. batch.accepted \o batch.prepared \o batch.remaining = [i \in Jobs |-> i]
  <2> DEFINE a == Len(batch.accepted)
             p == Len(batch.prepared)
  <2>1. a \in Nat /\ p \in Nat /\ N \in Nat
    BY <1>0, Stretches, Constants
  <2>2. /\ a + p <= N /\ batch.accepted = From(0, a) /\ batch.prepared = From(a, p)
        /\ batch.remaining = From(a + p, N - (a + p))
    BY <1>0 DEF Ordered
  <2> HIDE DEF a, p
  <2>3. 0 + a = a /\ 0 + (a + p) = a + p /\ (a + p) + (N - (a + p)) = N /\ N - (a + p) \in Nat /\ a + p \in Nat
    BY <2>1, <2>2
  <2>4. From(0, a) \o From(0 + a, p) = From(0, a + p)
    BY <2>1, FromJoin
  <2>5. From(0, a + p) \o From(0 + (a + p), N - (a + p)) = From(0, (a + p) + (N - (a + p)))
    BY <2>3, FromJoin
  <2>6. From(0, N) = [i \in Jobs |-> i]
    <3>1. \A i \in Jobs : 0 + i = i
      BY <2>1 DEF Jobs
    <3> QED
      BY <3>1 DEF From, Jobs
  <2> QED
    BY <2>2, <2>3, <2>4, <2>5, <2>6
<1>4. /\ window.runnable = Cardinality({j \in Jobs : rec[j].stage = "Ready"})
      /\ window.attaching = Cardinality({j \in Alive : rec[j].reserved})
      /\ ToSet(window.deferred) = {j \in Jobs : rec[j].stage = "Deferred"}
      /\ window.runnable + window.attaching <= RunnableLimit
  BY <1>0, <1>1, <1>2 DEF ClassOK, Readied, Backlog
<1>5. ledger.slots = Cardinality({j \in Jobs : rec[j].member}) + batch.reserve
  BY <1>0 DEF Ledgered, Members
<1> QED
  BY <1>0, <1>3, <1>4, <1>5 DEF BooksExact, Ledgered

\* The books hold in every reachable state.
THEOREM BooksKept == Spec => []BookInv
<1>1. Init => BookInv
  BY BookInit
<1>2. BookInv /\ [Next]_vars => BookInv'
  BY BookStep
<1> QED
  BY <1>1, <1>2, PTL DEF Spec

\* Every variable of a batch keeps its type (submit_batch and its surroundings).
THEOREM TypeCorrect == Spec => []TypeOK
<1>1. BookInv => TypeOK
  BY DEF BookInv
<1> QED
  BY <1>1, BooksKept, PTL

\* Every account of a batch is exact at every step, for any number of operations,
\* any limits and any prerequisites: Recover, Published, FinalizeRecord.
THEOREM ExactBooks == Spec => []BooksExact
<1>1. BookInv => BooksExact
  BY BooksFollow
<1> QED
  BY <1>1, BooksKept, PTL
=============================================================================
