---------------------------- MODULE DemandProofs ----------------------------
(* Proofs about Demand: no change of demand gets past the graph, the        *)
(* mailbox, the queues or the providers, and an ended consumer leaves       *)
(* nothing behind.                                                          *)
EXTENDS Demand, FiniteSetTheorems, SequenceTheorems, WellFoundedInduction, TLAPS

-----------------------------------------------------------------------------
(* Least elements, and folds over the numbers up to a bound.  The library's *)
(* induction theorems are about operators; a least counterexample does the  *)
(* same for sets of numbers.                                                *)

\* Every nonempty set of natural numbers has a least element.
LEMMA LeastNumber ==
  ASSUME NEW T \in SUBSET Nat, T # {}
  PROVE  \E m \in T : \A k \in T : m <= k
<1> DEFINE R == OpToRel(<, Nat)
<1>1. ASSUME NEW k \in Nat, NEW m \in Nat, k < m PROVE <<k, m>> \in R
  <2> DEFINE p == <<k, m>>
  <2>1. p \in Nat \X Nat /\ p[1] < p[2]
    BY <1>1
  <2> HIDE DEF p
  <2>2. p \in R
    BY <2>1 DEF OpToRel
  <2> QED
    BY <2>2 DEF p
<1>2. IsWellFoundedOn(R, Nat)
  BY NatLessThanWellFounded
<1> HIDE DEF R
<1>3. \E m \in T : \A k \in T : ~(<<k, m>> \in R)
  BY <1>2, WFMin
<1>4. PICK m \in T : \A k \in T : ~(<<k, m>> \in R)
  BY <1>3
<1>5. ASSUME NEW k \in T PROVE ~(k < m)
  BY <1>1, <1>4, <1>5
<1>6. \A k \in T : m <= k
  BY <1>5
<1> QED
  BY <1>6

\* The minimum of a nonempty set of numbers is one of them.
LEMMA MinIn ==
  ASSUME NEW S \in SUBSET Nat, S # {}
  PROVE  Min(S) \in S /\ \A x \in S : Min(S) <= x
<1>1. \E x \in S : \A y \in S : x =< y
  BY LeastNumber
<1> QED
  BY <1>1 DEF Min

\* The maximum of a nonempty set of numbers up to a bound is one of them.
LEMMA MaxIn ==
  ASSUME NEW k \in Int, NEW S \in SUBSET (1 .. k), S # {}
  PROVE  Max(S) \in S
<1> DEFINE N == {k - x : x \in S}
<1>0. ASSUME NEW x \in S PROVE k - x \in Nat
  <2>1. x \in 1 .. k
    OBVIOUS
  <2> QED
    BY <2>1
<1>1. N \in SUBSET Nat /\ N # {}
  BY <1>0
<1>2. PICK m \in N : \A y \in N : m <= y
  <2> HIDE DEF N
  <2> QED
    BY <1>1, LeastNumber
<1>3. PICK x \in S : m = k - x
  BY <1>2
<1>4. ASSUME NEW y \in S PROVE x >= y
  <2>1. k - x <= k - y
    BY <1>2, <1>3
  <2> QED
    BY <2>1
<1> QED
  BY <1>4 DEF Max

IsWalk(r, step, G, g0, k) ==
  r \in [0 .. k -> G] /\ r[0] = g0 /\ \A i \in 0 .. k - 1 : r[i + 1] = step[r[i]]

\* A step function can be repeated.
LEMMA Walk ==
  ASSUME NEW G, NEW step \in [G -> G], NEW g0 \in G, NEW k \in Nat
  PROVE  \E r : IsWalk(r, step, G, g0, k)
<1> DEFINE Walks(j) == \E r \in [0 .. j -> G] :
                         r[0] = g0 /\ \A i \in 0 .. j - 1 : r[i + 1] = step[r[i]]
           Bad == {j \in Nat : ~Walks(j)}
<1>1. Walks(0)
  <2> DEFINE q == [i \in 0 .. 0 |-> g0]
  <2>1. q \in [0 .. 0 -> G] /\ q[0] = g0
    OBVIOUS
  <2>2. \A i \in 0 .. 0 - 1 : q[i + 1] = step[q[i]]
    OBVIOUS
  <2> HIDE DEF q
  <2> QED
    BY <2>1, <2>2
<1>2. ASSUME NEW j \in Nat, Walks(j) PROVE Walks(j + 1)
  <2>1. PICK r \in [0 .. j -> G] : r[0] = g0 /\ \A i \in 0 .. j - 1 : r[i + 1] = step[r[i]]
    BY <1>2
  <2> DEFINE q == [i \in 0 .. j + 1 |-> IF i = j + 1 THEN step[r[j]] ELSE r[i]]
  <2>2. q \in [0 .. j + 1 -> G] /\ q[0] = g0
    BY <2>1
  <2>3. ASSUME NEW i \in 0 .. (j + 1) - 1 PROVE q[i + 1] = step[q[i]]
    <3>1. CASE i = j
      BY <3>1
    <3>2. CASE i # j
      BY <3>2, <2>1
    <3> QED
      BY <3>1, <3>2
  <2> QED
    BY <2>2, <2>3
<1>3. ASSUME Bad # {} PROVE FALSE
  <2> HIDE DEF Walks
  <2>1. PICK m \in Bad : \A j \in Bad : m <= j
    <3>1. Bad \in SUBSET Nat
      OBVIOUS
    <3> HIDE DEF Bad
    <3> QED
      BY <1>3, <3>1, LeastNumber
  <2>2. m # 0
    BY <1>1
  <2>3. m - 1 \in Nat /\ ~(m <= m - 1) /\ (m - 1) + 1 = m
    BY <2>2
  <2>4. Walks(m - 1)
    BY <2>1, <2>3
  <2>5. Walks(m)
    BY <2>3, <2>4, <1>2
  <2> QED
    BY <2>5
<1>4. Walks(k)
  <2> HIDE DEF Walks
  <2> QED
    BY <1>3
<1> QED
  BY <1>4 DEF IsWalk

LEMMA UpTo ==
  ASSUME NEW k \in Int, NEW s \in SUBSET (1 .. k)
  PROVE  /\ IsFiniteSet(s) /\ Cardinality(s) \in Nat /\ (Cardinality(s) = 0 <=> s = {})
         /\ Cardinality(s) <= IF k > 0 THEN k ELSE 0
         /\ s # {} => /\ Max(s) \in s /\ s \ {Max(s)} \in SUBSET (1 .. k)
                      /\ Cardinality(s \ {Max(s)}) = Cardinality(s) - 1
<1>1. IsFiniteSet(1 .. k) /\ Cardinality(1 .. k) = IF k > 0 THEN k ELSE 0
  <2>1. 1 \in Int /\ k \in Int
    OBVIOUS
  <2>2. IsFiniteSet(1 .. k) /\ Cardinality(1 .. k) = IF 1 > k THEN 0 ELSE k - 1 + 1
    BY <2>1, FS_Interval
  <2> QED
    BY <2>2
<1>2. /\ IsFiniteSet(s) /\ Cardinality(s) \in Nat /\ Cardinality(s) <= Cardinality(1 .. k)
      /\ (Cardinality(s) = 0 <=> s = {})
  BY <1>1, FS_Subset, FS_CardinalityType, FS_EmptySet
<1>3. ASSUME s # {} PROVE Max(s) \in s /\ Cardinality(s \ {Max(s)}) = Cardinality(s) - 1
  BY <1>2, <1>3, MaxIn, FS_RemoveElement
<1> QED
  BY <1>1, <1>2, <1>3

IsStepTable(h, step, G, g0, k) ==
  /\ h \in [SUBSET (1 .. k) -> G]
  /\ \A s \in SUBSET (1 .. k) : h[s] = IF s = {} THEN g0 ELSE step[h[s \ {Max(s)}]]

\* The table that a fold over the numbers 1 .. k is taken from.
LEMMA TableOfSteps ==
  ASSUME NEW G, NEW step \in [G -> G], NEW g0 \in G, NEW k \in Int
  PROVE  \E h : IsStepTable(h, step, G, g0, k)
<1> DEFINE top == IF k > 0 THEN k ELSE 0
<1>1. top \in Nat
  <2>1. CASE k > 0
    BY <2>1
  <2>2. CASE ~(k > 0)
    BY <2>2
  <2> QED
    BY <2>1, <2>2
<1>2. PICK r \in [0 .. top -> G] : r[0] = g0 /\ \A i \in 0 .. top - 1 : r[i + 1] = step[r[i]]
  <2> HIDE DEF top
  <2>1. \E r : IsWalk(r, step, G, g0, top)
    BY <1>1, Walk
  <2> QED
    BY <2>1 DEF IsWalk
<1> DEFINE h == [s \in SUBSET (1 .. k) |-> r[Cardinality(s)]]
<1>3. ASSUME NEW s \in SUBSET (1 .. k) PROVE Cardinality(s) \in 0 .. top
  <2>1. Cardinality(s) \in Nat /\ Cardinality(s) <= top
    BY UpTo
  <2> HIDE DEF top
  <2> QED
    BY <1>1, <2>1
<1>4. h \in [SUBSET (1 .. k) -> G]
  BY <1>2, <1>3
<1>5. ASSUME NEW s \in SUBSET (1 .. k)
      PROVE  h[s] = IF s = {} THEN g0 ELSE step[h[s \ {Max(s)}]]
  <2>1. CASE s = {}
    <3>1. Cardinality(s) = 0
      BY <2>1, UpTo
    <3> QED
      BY <2>1, <3>1, <1>2
  <2>2. CASE s # {}
    <3> DEFINE i == Cardinality(s \ {Max(s)})
    <3>1. s \ {Max(s)} \in SUBSET (1 .. k) /\ i = Cardinality(s) - 1
      BY <2>2, UpTo
    <3>2. i \in 0 .. top /\ Cardinality(s) \in 0 .. top
      BY <3>1, <1>3
    <3>3. i \in 0 .. top - 1 /\ Cardinality(s) = i + 1
      BY <1>1, <3>1, <3>2
    <3>4. r[Cardinality(s)] = step[r[i]]
      BY <1>2, <3>3
    <3>5. h[s \ {Max(s)}] = r[i]
      BY <3>1
    <3> QED
      BY <2>2, <3>4, <3>5
  <2> QED
    BY <2>1, <2>2
<1> QED
  BY <1>4, <1>5 DEF IsStepTable

\* What holds of the base, and of a value if it held of the one before, holds of the fold.
LEMMA TableStays ==
  ASSUME NEW G, NEW k \in Int, NEW h, h[{}] \in G,
         \A s \in SUBSET (1 .. k) : s # {} /\ h[s \ {Max(s)}] \in G => h[s] \in G
  PROVE  h[1 .. k] \in G
<1> DEFINE Bad == {s \in SUBSET (1 .. k) : h[s] \notin G}
           N == {Cardinality(s) : s \in Bad}
<1>1. N \in SUBSET Nat
  <2>1. \A s \in Bad : Cardinality(s) \in Nat
    BY UpTo
  <2> QED
    BY <2>1
<1>2. ASSUME Bad # {} PROVE FALSE
  <2>1. N # {}
    BY <1>2
  <2>2. PICK m \in N : \A j \in N : m <= j
    <3> HIDE DEF N
    <3> QED
      BY <1>1, <2>1, LeastNumber
  <2>3. PICK s \in Bad : m = Cardinality(s)
    BY <2>2
  <2>4. s # {}
    BY <2>3
  <2> DEFINE u == s \ {Max(s)}
  <2>5. u \in SUBSET (1 .. k) /\ Cardinality(u) = m - 1 /\ m \in Nat
    BY <2>3, <2>4, UpTo
  <2>6. u \notin Bad
    <3>1. ~(m <= m - 1)
      BY <2>5
    <3>2. ASSUME u \in Bad PROVE Cardinality(u) \in N
      BY <3>2
    <3> HIDE DEF Bad, N
    <3> QED
      BY <2>2, <2>5, <3>1, <3>2
  <2>7. h[u] \in G
    BY <2>5, <2>6
  <2> QED
    BY <2>3, <2>4, <2>7
<1> QED
  BY <1>2

-----------------------------------------------------------------------------
(* Sequences without repetition *)

LEMMA Elements ==
  ASSUME NEW A, NEW s \in Seq(A)
  PROVE  /\ Len(s) \in Nat /\ DOMAIN s = 1 .. Len(s)
         /\ ToSet(s) \subseteq A /\ (s = <<>> <=> ToSet(s) = {})
         /\ \A i \in 1 .. Len(s) : s[i] \in ToSet(s) /\ s[i] \in A
         /\ \A x \in ToSet(s) : \E i \in 1 .. Len(s) : s[i] = x
         /\ IsInjective(s) <=> \A i, j \in 1 .. Len(s) : s[i] = s[j] => i = j
<1>1. Len(s) \in Nat /\ s \in [1 .. Len(s) -> A] /\ DOMAIN s = 1 .. Len(s)
  BY LenProperties
<1>2. s = <<>> <=> Len(s) = 0
  BY <1>1, EmptySeq
<1>3. s = <<>> <=> ToSet(s) = {}
  <2>1. CASE Len(s) = 0
    BY <2>1, <1>1, <1>2 DEF ToSet
  <2>2. CASE Len(s) # 0
    <3>1. 1 \in DOMAIN s
      BY <2>2, <1>1
    <3>2. s[1] \in ToSet(s)
      BY <3>1 DEF ToSet
    <3> QED
      BY <3>2, <2>2, <1>2
  <2> QED
    BY <2>1, <2>2
<1>4. ToSet(s) \subseteq A
  BY <1>1 DEF ToSet
<1>5. IsInjective(s) <=> \A i, j \in 1 .. Len(s) : s[i] = s[j] => i = j
  BY <1>1 DEF IsInjective
<1> QED
  BY <1>1, <1>3, <1>4, <1>5 DEF ToSet

LEMMA EmptyElements ==
  ToSet(<<>>) = {} /\ IsInjective(<<>>) /\ \A A : <<>> \in Seq(A)
<1>1. ToSet(<<>>) = {}
  BY EmptySeq, Elements
<1>2. IsInjective(<<>>)
  BY DEF IsInjective
<1> QED
  BY <1>1, <1>2

LEMMA TailElements ==
  ASSUME NEW A, NEW s \in Seq(A), s # <<>>
  PROVE  /\ Head(s) \in A /\ Head(s) = s[1] /\ Tail(s) \in Seq(A) /\ Len(Tail(s)) = Len(s) - 1
         /\ \A i \in DOMAIN Tail(s) : i + 1 \in DOMAIN s /\ Tail(s)[i] = s[i + 1]
         /\ \A i \in DOMAIN s : i = 1 \/ (i - 1 \in DOMAIN Tail(s) /\ Tail(s)[i - 1] = s[i])
         /\ 1 \in DOMAIN s
         /\ Head(s) \in ToSet(s) /\ ToSet(Tail(s)) \subseteq ToSet(s)
         /\ ToSet(s) \subseteq ToSet(Tail(s)) \cup {Head(s)}
<1>1. /\ Head(s) \in A /\ Tail(s) \in Seq(A) /\ Len(Tail(s)) = Len(s) - 1
      /\ \A i \in 1 .. Len(Tail(s)) : Tail(s)[i] = s[i + 1]
  BY HeadTailProperties
<1>2. Len(s) \in Nat /\ Len(s) # 0 /\ DOMAIN s = 1 .. Len(s) /\ Len(Tail(s)) \in Nat
  BY <1>1, EmptySeq, LenProperties
<1>3. DOMAIN Tail(s) = 1 .. Len(s) - 1
  BY <1>1, LenProperties
<1>4. Head(s) = s[1] /\ 1 \in DOMAIN s
  BY <1>2
<1>5. \A i \in DOMAIN Tail(s) : i + 1 \in DOMAIN s /\ Tail(s)[i] = s[i + 1]
  BY <1>1, <1>2, <1>3
<1>6. \A i \in DOMAIN s : i = 1 \/ (i - 1 \in DOMAIN Tail(s) /\ Tail(s)[i - 1] = s[i])
  <2> SUFFICES ASSUME NEW i \in DOMAIN s, i # 1
               PROVE  i - 1 \in DOMAIN Tail(s) /\ Tail(s)[i - 1] = s[i]
    OBVIOUS
  <2>1. i - 1 \in 1 .. Len(s) - 1 /\ (i - 1) + 1 = i
    BY <1>2
  <2> QED
    BY <2>1, <1>3, <1>5
<1>7. Head(s) \in ToSet(s) /\ ToSet(Tail(s)) \subseteq ToSet(s)
  BY <1>4, <1>5 DEF ToSet
<1>8. ToSet(s) \subseteq ToSet(Tail(s)) \cup {Head(s)}
  BY <1>4, <1>6 DEF ToSet
<1> QED
  BY <1>1, <1>4, <1>5, <1>6, <1>7, <1>8

\* Without repetition the head is nowhere else.
LEMMA TailOnce ==
  ASSUME NEW A, NEW s \in Seq(A), s # <<>>, IsInjective(s)
  PROVE  IsInjective(Tail(s)) /\ ToSet(Tail(s)) = ToSet(s) \ {Head(s)}
<1>1. /\ Tail(s) \in Seq(A) /\ 1 \in DOMAIN s /\ Head(s) = s[1]
      /\ \A i \in DOMAIN Tail(s) : i + 1 \in DOMAIN s /\ Tail(s)[i] = s[i + 1]
  BY TailElements
<1>2. \A i \in DOMAIN Tail(s) : i \in Nat /\ i # 0
  BY <1>1, Elements
<1>3. \A i, j \in DOMAIN s : s[i] = s[j] => i = j
  BY DEF IsInjective
<1>4. IsInjective(Tail(s))
  <2> SUFFICES ASSUME NEW i \in DOMAIN Tail(s), NEW j \in DOMAIN Tail(s), Tail(s)[i] = Tail(s)[j]
               PROVE  i = j
    BY DEF IsInjective
  <2>1. i + 1 = j + 1
    BY <1>1, <1>3
  <2> QED
    BY <2>1, <1>2
<1>5. ASSUME NEW i \in DOMAIN Tail(s) PROVE Tail(s)[i] # Head(s)
  <2>1. Tail(s)[i] = s[i + 1] /\ i + 1 \in DOMAIN s /\ i + 1 # 1
    BY <1>1, <1>2
  <2> QED
    BY <2>1, <1>1, <1>3
<1>6. Head(s) \notin ToSet(Tail(s))
  BY <1>5 DEF ToSet
<1> QED
  BY <1>4, <1>6, TailElements

LEMMA AppendElements ==
  ASSUME NEW A, NEW s \in Seq(A), NEW x \in A
  PROVE  /\ Append(s, x) \in Seq(A) /\ Append(s, x) # <<>>
         /\ Len(Append(s, x)) = Len(s) + 1
         /\ DOMAIN Append(s, x) = DOMAIN s \cup {Len(s) + 1}
         /\ \A i \in DOMAIN s : Append(s, x)[i] = s[i]
         /\ Append(s, x)[Len(s) + 1] = x
         /\ ToSet(Append(s, x)) = ToSet(s) \cup {x}
         /\ IsInjective(s) /\ x \notin ToSet(s) => IsInjective(Append(s, x))
<1> DEFINE t == Append(s, x)
<1>1. /\ t \in Seq(A) /\ t # <<>> /\ Len(t) = Len(s) + 1 /\ \A i \in 1 .. Len(s) : t[i] = s[i]
      /\ t[Len(s) + 1] = x
  BY AppendProperties
<1>2. Len(s) \in Nat /\ DOMAIN s = 1 .. Len(s) /\ DOMAIN t = 1 .. Len(s) + 1
  BY <1>1, LenProperties
<1>3. DOMAIN t = DOMAIN s \cup {Len(s) + 1} /\ Len(s) + 1 \notin DOMAIN s
  BY <1>2
<1> HIDE DEF t
<1>4. ToSet(t) = ToSet(s) \cup {x}
  BY <1>1, <1>2, <1>3 DEF ToSet
<1>5. ASSUME IsInjective(s), x \notin ToSet(s) PROVE IsInjective(t)
  <2> SUFFICES ASSUME NEW i \in DOMAIN t, NEW j \in DOMAIN t, t[i] = t[j], i # j PROVE FALSE
    BY DEF IsInjective
  <2>1. \A k \in DOMAIN s : t[k] = s[k] /\ s[k] # x
    BY <1>1, <1>2, <1>5 DEF ToSet
  <2>2. i \in DOMAIN s /\ j \in DOMAIN s
    BY <2>1, <1>1, <1>3
  <2> QED
    BY <2>1, <2>2, <1>5 DEF IsInjective
<1> QED
  BY <1>1, <1>2, <1>3, <1>4, <1>5 DEF t

LEMMA ConcatElements ==
  ASSUME NEW A, NEW s \in Seq(A), NEW t \in Seq(A)
  PROVE  /\ s \o t \in Seq(A) /\ ToSet(s \o t) = ToSet(s) \cup ToSet(t)
         /\ IsInjective(s) /\ IsInjective(t) /\ ToSet(s) \cap ToSet(t) = {} => IsInjective(s \o t)
<1> DEFINE u == s \o t
<1>1. /\ u \in Seq(A) /\ Len(u) = Len(s) + Len(t)
      /\ \A i \in 1 .. Len(s) + Len(t) : u[i] = IF i <= Len(s) THEN s[i] ELSE t[i - Len(s)]
  BY ConcatProperties
<1>2. /\ Len(s) \in Nat /\ Len(t) \in Nat /\ DOMAIN s = 1 .. Len(s) /\ DOMAIN t = 1 .. Len(t)
      /\ DOMAIN u = 1 .. Len(s) + Len(t)
  BY <1>1, LenProperties
<1> HIDE DEF u
<1>3. \A i \in DOMAIN s : i \in DOMAIN u /\ u[i] = s[i]
  BY <1>1, <1>2
<1>4. ASSUME NEW i \in DOMAIN t PROVE Len(s) + i \in DOMAIN u /\ u[Len(s) + i] = t[i]
  <2>1. Len(s) + i \in 1 .. Len(s) + Len(t) /\ ~(Len(s) + i <= Len(s)) /\ (Len(s) + i) - Len(s) = i
    BY <1>2
  <2> QED
    BY <2>1, <1>1, <1>2
<1>5. ASSUME NEW i \in DOMAIN u
      PROVE  \/ i \in DOMAIN s /\ u[i] = s[i]
             \/ i - Len(s) \in DOMAIN t /\ u[i] = t[i - Len(s)] /\ i \in Int
  <2>1. CASE i <= Len(s)
    BY <2>1, <1>1, <1>2
  <2>2. CASE ~(i <= Len(s))
    BY <2>2, <1>1, <1>2
  <2> QED
    BY <2>1, <2>2
<1>6. ToSet(u) = ToSet(s) \cup ToSet(t)
  <2>1. ToSet(u) \subseteq ToSet(s) \cup ToSet(t)
    BY <1>5 DEF ToSet
  <2>2. ToSet(s) \subseteq ToSet(u)
    BY <1>3 DEF ToSet
  <2>3. ToSet(t) \subseteq ToSet(u)
    BY <1>4 DEF ToSet
  <2> QED
    BY <2>1, <2>2, <2>3
<1>7. ASSUME IsInjective(s), IsInjective(t), ToSet(s) \cap ToSet(t) = {} PROVE IsInjective(u)
  <2> SUFFICES ASSUME NEW i \in DOMAIN u, NEW j \in DOMAIN u, u[i] = u[j] PROVE i = j
    BY DEF IsInjective
  <2>1. \A k \in DOMAIN s, l \in DOMAIN t : s[k] # t[l]
    BY <1>7 DEF ToSet
  <2>2. CASE i \in DOMAIN s /\ u[i] = s[i]
    <3>1. j \in DOMAIN s /\ u[j] = s[j]
      BY <2>1, <2>2, <1>5
    <3> QED
      BY <2>2, <3>1, <1>7 DEF IsInjective
  <2>3. CASE i - Len(s) \in DOMAIN t /\ u[i] = t[i - Len(s)] /\ i \in Int
    <3>1. j - Len(s) \in DOMAIN t /\ u[j] = t[j - Len(s)] /\ j \in Int
      BY <2>1, <2>3, <1>5
    <3>2. i - Len(s) = j - Len(s)
      BY <2>3, <3>1, <1>7 DEF IsInjective
    <3> QED
      BY <2>3, <3>1, <3>2, <1>2
  <2> QED
    BY <2>2, <2>3, <1>5
<1> QED
  BY <1>1, <1>6, <1>7 DEF u

\* The library's sequence of a finite set has each of its members once.
LEMMA SeqOfSet ==
  ASSUME NEW S, IsFiniteSet(S)
  PROVE  SetToSeq(S) \in Seq(S) /\ ToSet(SetToSeq(S)) = S /\ IsInjective(SetToSeq(S))
<1> DEFINE n == Cardinality(S)
           s == SetToSeq(S)
<1>1. n \in Nat /\ \E f \in [1 .. n -> S] : IsInjective(f)
  <2>1. n \in Nat /\ ExistsBijection(1 .. n, S)
    BY FS_CardinalityType
  <2> QED
    BY <2>1 DEF ExistsBijection, Bijection, Injection
<1>2. s \in [1 .. n -> S] /\ IsInjective(s)
  BY <1>1 DEF SetToSeq
<1>3. s \in Injection(1 .. n, S)
  BY <1>2 DEF Injection
<1>4. s \in Surjection(1 .. n, S)
  <2>1. IsFiniteSet(1 .. n) /\ Cardinality(1 .. n) = n
    <3>1. 1 \in Int /\ n \in Int
      BY <1>1
    <3>2. IsFiniteSet(1 .. n) /\ Cardinality(1 .. n) = IF 1 > n THEN 0 ELSE n - 1 + 1
      BY <3>1, FS_Interval
    <3> QED
      BY <3>2, <1>1
  <2> HIDE DEF s
  <2> QED
    BY <2>1, <1>3, FS_Injection
<1> HIDE DEF s
<1>5. s \in Seq(S)
  BY <1>1, <1>2
<1>6. ToSet(s) = S
  BY <1>2, <1>4 DEF ToSet, Surjection
<1> QED
  BY <1>2, <1>5, <1>6 DEF s

LEMMA MarkedElements ==
  ASSUME NEW queue \in Seq(Nodes), IsInjective(queue), NEW S \in SUBSET Nodes
  PROVE  /\ Marked(queue, S) \in Seq(Nodes) /\ IsInjective(Marked(queue, S))
         /\ ToSet(Marked(queue, S)) = ToSet(queue) \cup S
<1> DEFINE T == S \ ToSet(queue)
<1>1. IsFiniteSet(T)
  BY DemandAssumption, FS_Subset DEF DemandAssumption
<1>2. SetToSeq(T) \in Seq(T) /\ ToSet(SetToSeq(T)) = T /\ IsInjective(SetToSeq(T))
  BY <1>1, SeqOfSet
<1>3. SetToSeq(T) \in Seq(Nodes)
  BY <1>2, SeqMonotonic
<1>4. ToSet(queue) \cap T = {}
  OBVIOUS
<1> HIDE DEF T
<1>5. /\ queue \o SetToSeq(T) \in Seq(Nodes) /\ IsInjective(queue \o SetToSeq(T))
      /\ ToSet(queue \o SetToSeq(T)) = ToSet(queue) \cup T
  BY <1>2, <1>3, <1>4, ConcatElements
<1> QED
  BY <1>5 DEF Marked, T

LEMMA RemovedElements ==
  ASSUME NEW A, NEW s \in Seq(A), IsInjective(s), NEW x
  PROVE  /\ RemoveFirst(s, x) \in Seq(A) /\ IsInjective(RemoveFirst(s, x))
         /\ ToSet(RemoveFirst(s, x)) = ToSet(s) \ {x}
<1>0. /\ Len(s) \in Nat /\ DOMAIN s = 1 .. Len(s) /\ \A i, j \in 1 .. Len(s) : s[i] = s[j] => i = j
      /\ \A i \in 1 .. Len(s) : s[i] \in A
  BY Elements
<1>1. CASE ~\E i \in 1 .. Len(s) : s[i] = x
  <2>1. RemoveFirst(s, x) = s
    BY <1>1 DEF RemoveFirst
  <2>2. x \notin ToSet(s)
    BY <1>0, <1>1 DEF ToSet
  <2> QED
    BY <2>1, <2>2
<1>2. CASE \E i \in 1 .. Len(s) : s[i] = x
  <2> DEFINE I == {i \in 1 .. Len(s) : s[i] = x}
             p == Min(I)
             a == SubSeq(s, 1, p - 1)
             b == SubSeq(s, p + 1, Len(s))
  <2>1. RemoveFirst(s, x) = a \o b
    BY <1>2 DEF RemoveFirst, RemoveAt, SelectInSeq
  <2>2. p \in 1 .. Len(s) /\ s[p] = x
    <3>1. I \in SUBSET Nat /\ I # {}
      BY <1>2
    <3>2. p \in I
      BY <3>1, MinIn
    <3> QED
      BY <3>2
  <2> HIDE DEF p
  <2>3. p - 1 \in Nat /\ p + 1 \in Nat /\ p \in Nat /\ p <= Len(s)
    BY <2>2, <1>0
  <2>4. a \in Seq(A) /\ Len(a) = p - 1 /\ \A i \in 1 .. p - 1 : a[i] = s[i]
    BY <2>3, <1>0
  <2>5. b \in Seq(A) /\ Len(b) = Len(s) - p /\ \A i \in 1 .. Len(s) - p : b[i] = s[p + i]
    <3>1. p + 1 \in 1 .. Len(s) + 1 /\ Len(s) \in p .. Len(s)
      BY <2>3, <1>0
    <3> DEFINE m == p + 1
    <3>3. m \in Int /\ Len(s) \in Int /\ \A i \in m .. Len(s) : s[i] \in A
      BY <2>3, <1>0
    <3> HIDE DEF m
    <3>4. /\ SubSeq(s, m, Len(s)) \in Seq(A)
          /\ Len(SubSeq(s, m, Len(s))) = IF m <= Len(s) THEN Len(s) - m + 1 ELSE 0
          /\ \A i \in 1 .. Len(s) - m + 1 : SubSeq(s, m, Len(s))[i] = s[m + i - 1]
      BY <3>3, SubSeqProperties
    <3>5. b = SubSeq(s, m, Len(s))
      BY DEF m
    <3> HIDE DEF b
    <3>6. m = p + 1
      BY DEF m
    <3>7. Len(b) = Len(s) - p
      <4>1. CASE m <= Len(s)
        BY <4>1, <3>4, <3>5, <3>6, <2>3, <1>0
      <4>2. CASE ~(m <= Len(s))
        <5>1. Len(b) = 0
          BY <4>2, <3>4, <3>5
        <5>2. p = Len(s)
          <6>1. Len(s) \in Nat /\ p \in Nat /\ p <= Len(s) /\ ~(p + 1 <= Len(s))
            BY <4>2, <3>6, <2>3, <1>0
          <6> QED
            BY <6>1
        <5> QED
          BY <5>1, <5>2, <1>0
      <4> QED
        BY <4>1, <4>2
    <3>8. ASSUME NEW i \in 1 .. Len(s) - p PROVE b[i] = s[p + i]
      <4>1. i \in 1 .. Len(s) - m + 1 /\ m + i - 1 = p + i
        BY <3>6, <2>3, <1>0
      <4> QED
        BY <4>1, <3>4, <3>5
    <3> QED
      BY <3>4, <3>5, <3>7, <3>8
  <2>6. DOMAIN a = 1 .. p - 1 /\ DOMAIN b = 1 .. Len(s) - p
    BY <2>4, <2>5, LenProperties
  <2> HIDE DEF a, b
  <2>7. \A i \in DOMAIN a : i \in DOMAIN s /\ i # p /\ i < p /\ a[i] = s[i]
    BY <2>3, <2>4, <2>6, <1>0
  <2>8. \A i \in DOMAIN b : p + i \in DOMAIN s /\ p + i # p /\ p < p + i /\ i \in Nat /\ b[i] = s[p + i]
    BY <2>3, <2>5, <2>6, <1>0
  <2>9. IsInjective(a)
    BY <2>7, <1>0 DEF IsInjective
  <2>10. IsInjective(b)
    <3> SUFFICES ASSUME NEW i \in DOMAIN b, NEW j \in DOMAIN b, b[i] = b[j] PROVE i = j
      BY DEF IsInjective
    <3>1. p + i = p + j
      BY <2>8, <1>0
    <3> QED
      BY <3>1, <2>8, <2>3
  <2>11. ToSet(a) \cap ToSet(b) = {}
    <3> SUFFICES ASSUME NEW i \in DOMAIN a, NEW j \in DOMAIN b, a[i] = b[j] PROVE FALSE
      BY DEF ToSet
    <3>1. i = p + j
      BY <2>7, <2>8, <1>0
    <3> QED
      BY <3>1, <2>7, <2>8, <2>3
  <2>12. ToSet(a) \cup ToSet(b) = ToSet(s) \ {x}
    <3>1. ASSUME NEW i \in DOMAIN a PROVE a[i] \in ToSet(s) \ {x}
      BY <2>2, <2>7, <1>0 DEF ToSet
    <3>2. ASSUME NEW i \in DOMAIN b PROVE b[i] \in ToSet(s) \ {x}
      BY <2>2, <2>8, <1>0 DEF ToSet
    <3>3. ASSUME NEW i \in DOMAIN s, s[i] # x PROVE s[i] \in ToSet(a) \cup ToSet(b)
      <4>1. CASE i < p
        <5>1. i \in DOMAIN a /\ a[i] = s[i]
          BY <4>1, <2>3, <2>4, <2>6, <1>0
        <5> QED
          BY <5>1 DEF ToSet
      <4>2. CASE i > p
        <5>1. i - p \in DOMAIN b /\ p + (i - p) = i
          BY <4>2, <2>3, <2>6, <1>0
        <5>2. b[i - p] = s[i]
          BY <5>1, <2>8
        <5> QED
          BY <5>1, <5>2 DEF ToSet
      <4>3. i # p
        BY <3>3, <2>2
      <4> QED
        BY <4>1, <4>2, <4>3, <2>3, <1>0
    <3> QED
      BY <3>1, <3>2, <3>3 DEF ToSet
  <2>13. /\ a \o b \in Seq(A) /\ ToSet(a \o b) = ToSet(a) \cup ToSet(b) /\ IsInjective(a \o b)
    BY <2>4, <2>5, <2>9, <2>10, <2>11, ConcatElements
  <2> QED
    BY <2>1, <2>12, <2>13
<1> QED
  BY <1>1, <1>2
-----------------------------------------------------------------------------
(* The invariant *)

Lives == {"none", "admitted", "registered", "waiting", "ready", "deferred", "handed", "claimed",
          "removing", "gone"}
Selection == [rank : Ranks \cup {NoRank}, active : BOOLEAN, tie : Int, version : Nat]
Change == [node : Nodes, selection : Selection]
PendingQueue == [ordinary : Seq(Nodes), resource : SUBSET Nodes]
Lease == {"active", "deferred"}

GraphType ==
  /\ nodes \subseteq Nodes /\ dirty \in Seq(Nodes) /\ IsInjective(dirty) /\ ToSet(dirty) \subseteq nodes
  /\ selection \in [Nodes -> Selection] /\ shown \in [Nodes -> Int]
  /\ interest \in [Consumers -> Lease \cup {"none", "gone"}]
  /\ rank \in [Consumers -> Ranks \cup {NoRank}]
  /\ front \in Int /\ back \in Int

StageType ==
  /\ demandPending \in BOOLEAN /\ updatesPending \in BOOLEAN
  /\ mailbox \in [Nodes -> Selection]
  /\ transfer \in Threads \cup {None} /\ changes \in [Threads -> Seq(Change)]
  /\ copy \in [Nodes -> Selection] /\ done \subseteq Nodes /\ handedOff \subseteq Nodes

HookType ==
  /\ hooks \in [Threads -> Seq(Change)] /\ counted \in [Threads -> Nat]
  /\ providerCallbacks \in Nat /\ seen \in [Nodes -> Selection]
  /\ reading \in {"open", "closed", "records", "pending", "updates", "quiescent"}

BindingType ==
  /\ binding \in [Consumers -> {"none", "hooked", "subscribed", "bound"}]
  /\ bound \subseteq Consumers /\ subscription \subseteq Consumers /\ ending \subseteq Consumers

\* What the class's gate guards.
ClassType(k) ==
  /\ k.ready \in PendingQueue /\ k.deferred \in PendingQueue
  /\ k.life \in [Nodes -> Lives] /\ k.applied \in [Nodes -> Selection]
  /\ k.entry \in [Nodes -> Selection] /\ k.rebalance \in BOOLEAN

\* A queue holds each of its jobs once, by its kind, and they are all in the state it stands for.
Lined(q, life_, state) ==
  /\ IsInjective(q.ordinary)
  /\ \A n \in ToSet(q.ordinary) : n \in Jobs /\ ~Resource(n) /\ life_[n] = state
  /\ \A n \in q.resource : Resource(n) /\ life_[n] = state

InQueue(k) == {n \in Nodes : k.life[n] \in {"ready", "deferred"}}

\* A queued job is queued by its record's selection, and no two by the same tie.
Keyed(k) ==
  /\ \A n \in InQueue(k) : k.entry[n] = k.applied[n]
  /\ \A n \in InQueue(k) : Resource(n) => k.applied[n].rank \in Ranks
  /\ \A n, m \in InQueue(k) : n # m => k.applied[n].tie # k.applied[m].tie

InOrder(k) ==
  ~k.rebalance => \A n \in k.ready.resource, m \in k.deferred.resource : Before(k.entry[n], k.entry[m])

ClassOK(k) ==
  /\ ClassType(k) /\ Lined(k.ready, k.life, "ready") /\ Lined(k.deferred, k.life, "deferred")
  /\ Keyed(k) /\ InOrder(k)

\* The graph.
Placed ==
  /\ \A c \in Consumers : interest[c] \in Lease => Wants[c] \in nodes /\ rank[c] \in Ranks
  /\ \A n \in Nodes : n \in nodes <=> life[n] \notin {"none", "admitted", "gone"}
  /\ \A n \in nodes : selection[n].version > 0 /\ (Resource(n) => selection[n].rank \in Ranks)
  /\ \A n \in Nodes \ nodes : selection[n] = NoSelection /\ shown[n] = 0

Flags ==
  /\ dirty # <<>> => demandPending
  /\ transfer = None => (demandPending => dirty # <<>>)
  /\ transfer # None => nodes # {}
  /\ HasMail(mailbox) => updatesPending
  /\ \A t \in Threads : transfer # t => changes[t] = <<>>

\* A selection o on its way is at most as new as s, and the same if as new.
Behind(o, s) ==
  /\ o.version <= s.version
  /\ o.version = s.version => o.rank = s.rank /\ o.active = s.active
  /\ o.version = 0 => o = NoSelection

Traced ==
  /\ \A n \in Nodes : \A o \in Known(n) :
       Behind(o, selection[n]) /\ (Resource(n) /\ o.version > 0 => o.rank \in Ranks)
  /\ \A t \in Threads : \A i \in DOMAIN changes[t] :
       changes[t][i].node \in nodes /\ Resource(changes[t][i].node)

All(n) == Known(n) \cup {selection[n]}

Ties ==
  /\ front < 0 /\ 0 < back
  /\ \A n \in Nodes : \A s \in All(n) : s.version > 0 => front < s.tie /\ s.tie < back /\ s.tie # 0
  /\ \A n, m \in Nodes : n # m =>
       \A s \in All(n), o \in All(m) : s.version > 0 /\ o.version > 0 => s.tie # o.tie

Stages ==
  /\ \A n \in Nodes : copy[n] # NoSelection => life[n] = "registered"
  /\ \A n \in Nodes : life[n] = "registered" => copy[n].version > 0
  /\ \A n \in Nodes : life[n] \in {"registered", "ready", "deferred", "handed"} => n \in Jobs
  /\ \A n \in Nodes : mailbox[n] # NoSelection => n \in nodes /\ Resource(n)
  /\ \A n \in Jobs : life[n] \in {"waiting", "ready", "deferred", "handed"} => applied[n].version > 0
  /\ \A n \in Nodes : life[n] \in {"none", "admitted", "removing", "gone"} => applied[n] = NoSelection

Newest ==
  \A n \in nodes :
    (Resource(n) /\ life[n] # "removing") => \E s \in Known(n) : s.version = selection[n].version

\* The providers' hooks.
Told(n) ==
  {seen[n]} \cup UNION {{hooks[t][i].selection : i \in {i \in DOMAIN hooks[t] : hooks[t][i].node = n}}
                          : t \in Threads}

Announced == {p \in Threads \X Nat : 1 <= p[2] /\ p[2] <= counted[p[1]]}

Informed ==
  /\ \A t \in Threads : \A i \in DOMAIN hooks[t] :
       hooks[t][i].node \in External /\ life[hooks[t][i].node] \notin {"none", "admitted"}
  /\ \A n \in External \cap nodes : \A o \in Told(n) :
       Behind(o, selection[n]) /\ (o.version = selection[n].version => o.tie = shown[n])
  /\ \A n \in External \cap nodes :
       shown[n] = 0 \/ \E o \in Told(n) : o.version = selection[n].version
  /\ \A n \in External \ nodes : seen[n] = NoSelection

Counted ==
  /\ IsFiniteSet(Announced) /\ providerCallbacks = Cardinality(Announced)
  /\ \A t \in Threads : Len(hooks[t]) <= counted[t] /\ (hooks[t] = <<>> => counted[t] = 0)

Quiet ==
  /\ reading # "open" => Charged = {}
  /\ reading \in {"pending", "updates", "quiescent"} => ~demandPending
  /\ reading = "quiescent" => providerCallbacks = 0

\* The consumers.
Held ==
  /\ bound \cap ending = {} /\ subscription \subseteq bound
  /\ \A c \in Consumers : c \in bound \cup ending => binding[c] # "none"
  /\ \A c \in Consumers : binding[c] # "none" /\ c \notin bound \cup ending => interest[c] = "gone"
  /\ \A c \in Consumers : interest[c] = "none" => binding[c] = "none"

-----------------------------------------------------------------------------
(* The consumers *)

\* What a step does to the leases while it leaves the bindings alone.
LeasesMove ==
  \A c \in Consumers :
    \/ interest'[c] = interest[c]
    \/ interest[c] = "none" /\ interest'[c] \in Lease
    \/ interest[c] # "none" /\ interest'[c] = "gone"
    \/ interest[c] \in Lease /\ interest'[c] \in Lease

LEMMA LeasesMoveHeld ==
  ASSUME Held, LeasesMove, UNCHANGED bindingVars
  PROVE  Held'
<1>1. UNCHANGED <<binding, bound, subscription, ending>>
  BY DEF bindingVars
<1>2. ASSUME NEW c \in Consumers, binding[c] # "none", c \notin bound \cup ending
      PROVE  interest'[c] = "gone"
  BY <1>2 DEF Held, LeasesMove, Lease
<1>3. ASSUME NEW c \in Consumers, interest'[c] = "none" PROVE binding[c] = "none"
  BY <1>3 DEF Held, LeasesMove, Lease
<1> QED
  BY <1>1, <1>2, <1>3 DEF Held

\* A lease that is detached, by its handle or by its binding's end.
LEMMA DetachMoves ==
  ASSUME GraphType, NEW c \in Consumers, DetachLease(c)
  PROVE  LeasesMove /\ (interest[c] # "none" => interest'[c] = "gone")
BY DEF DetachLease, LeasesMove, GraphType, Lease

LEMMA BindingSteps ==
  ASSUME GraphType, BindingType, Held, NEW c \in Consumers, BindingStep(c)
  PROVE  BindingType' /\ Held'
<1> USE DEF Lease
<1>1. CASE BindSet(c)
  BY <1>1 DEF BindSet, SetBinding, BindingType, Held, GraphType, graphVars
<1>2. CASE SetEnds(c)
  BY <1>2 DEF SetEnds, End, BindingType, Held, GraphType, graphVars
<1>3. CASE CompletionEnds(c)
  BY <1>3 DEF CompletionEnds, End, BindingType, Held, GraphType, graphVars
<1>4. CASE Subscribe(c)
  BY <1>4 DEF Subscribe, SetBinding, BindingType, Held, GraphType, graphVars
<1>5. CASE StoreSubscription(c)
  BY <1>5 DEF StoreSubscription, Stores, SetBinding, BindingType, Held, GraphType, graphVars
<1>6. CASE EndDetach(c)
  <2>1. /\ c \in ending /\ ending' = ending \ {c}
        /\ UNCHANGED <<binding, bound, subscription>> /\ LeasesMove
        /\ (interest[c] # "none" => interest'[c] = "gone")
    BY <1>6, DetachMoves DEF EndDetach
  <2>2. interest'[c] = "gone"
    BY <2>1 DEF Held
  <2>3. ASSUME NEW d \in Consumers, binding[d] # "none", d \notin bound \cup ending'
        PROVE  interest'[d] = "gone"
    BY <2>1, <2>2, <2>3 DEF Held, LeasesMove
  <2>4. ASSUME NEW d \in Consumers, interest'[d] = "none" PROVE binding[d] = "none"
    BY <2>1, <2>4 DEF Held, LeasesMove
  <2> QED
    BY <2>1, <2>3, <2>4 DEF Held, BindingType
<1> QED
  BY <1>1, <1>2, <1>3, <1>4, <1>5, <1>6 DEF BindingStep

\* A step that is not one of a binding leaves it alone, or drops a handle.
LEMMA OtherBindings ==
  ASSUME GraphType, Next, \A c \in Consumers : ~BindingStep(c) /\ ~DropHandle(c)
  PROVE  LeasesMove /\ UNCHANGED <<binding, bound, subscription, ending>>
<1> USE DEF Lease
<1>1. CASE UNCHANGED interest /\ UNCHANGED bindingVars
  BY <1>1 DEF LeasesMove, bindingVars
<1>2. ASSUME NEW n \in Nodes, Admit(n) \/ Suppress(n) \/ Claim(n) \/ Publish(n) PROVE UNCHANGED <<interest, bindingVars>>
  BY <1>2 DEF Admit, Suppress, Claim, Publish, graphVars
<1>3. ASSUME NEW c \in Consumers, Consume(c) PROVE LeasesMove /\ UNCHANGED bindingVars
  BY <1>3 DEF Consume, LeasesMove, GraphType
<1>4. ASSUME NEW c \in Consumers, Promote(c) PROVE UNCHANGED <<interest, bindingVars>>
  BY <1>4 DEF Promote, Commanded
<1>5. ASSUME NEW c \in Consumers, Defer(c) PROVE LeasesMove /\ UNCHANGED bindingVars
  BY <1>5 DEF Defer, Commanded, LeasesMove, GraphType
<1>6. ASSUME NEW c \in Consumers, NEW r \in Ranks, Refresh(c, r) PROVE LeasesMove /\ UNCHANGED bindingVars
  BY <1>6 DEF Refresh, Commanded, LeasesMove, GraphType
<1>7. ASSUME CancelSet PROVE UNCHANGED interest /\ UNCHANGED <<binding, bound, subscription, ending>>
  BY <1>7 DEF CancelSet, graphVars
<1>8. ASSUME Dispatch \/ Read PROVE UNCHANGED <<interest, bindingVars>>
  BY <1>8 DEF Dispatch, Read, graphVars
<1>9. ASSUME NEW t \in Threads, ThreadStep(t) PROVE UNCHANGED <<interest, bindingVars>>
  BY <1>9 DEF ThreadStep, Service, Transfer, EndTransfer, CallHook, graphVars
<1>10. ASSUME NEW n \in Nodes, Register(n) \/ Attach(n) \/ Activate(n) \/ EndWrapper(n) \/ Retire(n)
       PROVE  UNCHANGED <<interest, bindingVars>>
  BY <1>10 DEF Register, Attach, Activate, EndWrapper, Retire, graphVars
<1>11. ASSUME NEW n \in Nodes, RemoveNode(n) PROVE LeasesMove /\ UNCHANGED bindingVars
  BY <1>11 DEF RemoveNode, LeasesMove, GraphType
<1>12. ASSUME UNCHANGED interest /\ UNCHANGED <<binding, bound, subscription, ending>> PROVE LeasesMove
  BY <1>12 DEF LeasesMove
<1> QED
  BY <1>2, <1>3, <1>4, <1>5, <1>6, <1>7, <1>8, <1>9, <1>10, <1>11, <1>12
     DEF Next, Environment, NodeStep, bindingVars

LEMMA HeldSteps ==
  ASSUME GraphType, BindingType, Held, Next
  PROVE  BindingType' /\ Held'
<1>1. CASE \E c \in Consumers : BindingStep(c)
  BY <1>1, BindingSteps
<1>2. CASE \E c \in Consumers : DropHandle(c)
  <2>1. PICK c \in Consumers : DropHandle(c)
    BY <1>2
  <2>2. CASE c \in Bound
    BY <2>1, <2>2 DEF DropHandle, End, BindingType, Held, GraphType
  <2>3. CASE c \notin Bound
    <3>1. LeasesMove /\ UNCHANGED bindingVars
      BY <2>1, <2>3, DetachMoves DEF DropHandle, bindingVars
    <3> QED
      BY <3>1, LeasesMoveHeld DEF bindingVars, BindingType
  <2> QED
    BY <2>2, <2>3
<1>3. CASE \A c \in Consumers : ~BindingStep(c) /\ ~DropHandle(c)
  <2>1. LeasesMove /\ UNCHANGED <<binding, bound, subscription, ending>>
    BY <1>3, OtherBindings
  <2> QED
    BY <2>1 DEF BindingType, Held, LeasesMove, Lease
<1> QED
  BY <1>1, <1>2, <1>3

-----------------------------------------------------------------------------
(* What a node is wanted at *)

LEMMA MinRank ==
  ASSUME NEW S \in SUBSET Ranks, S # {}
  PROVE  Min(S) \in Ranks
BY MinIn, DemandAssumption DEF DemandAssumption

LEMMA WantedType ==
  ASSUME GraphType, Placed, NEW n \in Nodes, NEW sel \in [Nodes -> Selection], NEW a \in BOOLEAN
  PROVE  WantedAt(n, sel, a) \subseteq Ranks
<1>1. ASSUME NEW c \in Attached(n) PROVE rank[c] \in Ranks
  BY <1>1 DEF Attached, Placed, Lease
<1>2. ASSUME NEW m \in Children(n), sel[m].rank # NoRank PROVE sel[m].rank \in Ranks
  <2>1. m \in Nodes
    BY DEF Children, GraphType
  <2> QED
    BY <1>2, <2>1 DEF Selection
<1> QED
  BY <1>1, <1>2 DEF WantedAt

LEMMA AggregateType ==
  ASSUME GraphType, Placed, NEW n \in Nodes, NEW sel \in [Nodes -> Selection]
  PROVE  /\ Aggregate(n, sel) = [rank |-> Aggregate(n, sel).rank, active |-> Aggregate(n, sel).active]
         /\ Aggregate(n, sel).rank \in Ranks \cup {NoRank} /\ Aggregate(n, sel).active \in BOOLEAN
         /\ Baseline[n] # NoRank => Aggregate(n, sel).rank \in Ranks
<1> DEFINE active == WantedAt(n, sel, TRUE)
           idle == WantedAt(n, sel, FALSE)
<1>1. active \subseteq Ranks /\ idle \subseteq Ranks
  BY WantedType
<1>2. Baseline[n] \in Ranks \cup {NoRank} /\ Base(n) \subseteq Ranks
  BY DemandAssumption DEF DemandAssumption, Base
<1>3. Aggregate(n, sel) =
        IF active # {} THEN [rank |-> Min(active \cup Base(n)), active |-> TRUE]
        ELSE IF idle # {} THEN [rank |-> Min(idle), active |-> FALSE]
        ELSE [rank |-> Baseline[n], active |-> Baseline[n] # NoRank]
  BY DEF Aggregate
<1> HIDE DEF active, idle
<1>4. active # {} => Min(active \cup Base(n)) \in Ranks
  BY <1>1, <1>2, MinRank
<1>5. idle # {} => Min(idle) \in Ranks
  BY <1>1, MinRank
<1>6. CASE active # {}
  BY <1>3, <1>4, <1>6
<1>7. CASE active = {} /\ idle # {}
  BY <1>3, <1>5, <1>7
<1>8. CASE active = {} /\ idle = {}
  BY <1>2, <1>3, <1>8
<1> QED
  BY <1>6, <1>7, <1>8

\* What a node is wanted at is a matter of its children's ranks and activity.
LEMMA AggregateSame ==
  ASSUME NEW n, NEW sel, NEW new,
         \A m \in Children(n) : new[m].rank = sel[m].rank /\ new[m].active = sel[m].active
  PROVE  Aggregate(n, new) = Aggregate(n, sel)
<1>1. ASSUME NEW a PROVE WantedAt(n, new, a) = WantedAt(n, sel, a)
  BY DEF WantedAt
<1> QED
  BY <1>1 DEF Aggregate

\* Across a step, of its leases too.
LEMMA AggregateKept ==
  ASSUME NEW n,
         Children(n)' = Children(n), Attached(n)' = Attached(n),
         \A c \in Attached(n) : interest'[c] = interest[c] /\ rank'[c] = rank[c],
         \A m \in Children(n) : selection'[m].rank = selection[m].rank /\ selection'[m].active = selection[m].active
  PROVE  Aggregate(n, selection)' = Aggregate(n, selection)
<1>1. ASSUME NEW a PROVE WantedAt(n, selection, a)' = WantedAt(n, selection, a)
  BY DEF WantedAt
<1> QED
  BY <1>1 DEF Aggregate, Base

-----------------------------------------------------------------------------
(* A call of service: what a round of visits keeps true *)

Round == [dirty : Seq(Nodes), selection : [Nodes -> Selection], shown : [Nodes -> Int],
          changes : Seq(Change), hooks : Seq(Change)]

Carries(queue, change) == \E i \in DOMAIN queue : queue[i] = change

\* A node's last publication is what it is wanted at, with its present tie.
Current(n, sel, shown_) ==
  /\ shown_[n] = sel[n].tie
  /\ Aggregate(n, sel) = [rank |-> sel[n].rank, active |-> sel[n].active]

\* A change of the round is of a registered node, and newer than what there was.
NewChange(g, c) ==
  /\ c.node \in nodes /\ selection[c.node].version < c.selection.version
  /\ Behind(c.selection, g.selection[c.node]) /\ c.selection.tie = selection[c.node].tie
  /\ Resource(c.node) => c.selection.rank \in Ranks

\* A node is as it was, or has got a version that was sent on.
Progressed(g, n) ==
  /\ g.selection[n].tie = selection[n].tie
  /\ \/ g.selection[n] = selection[n] /\ g.shown[n] = shown[n]
     \/ /\ n \in nodes /\ selection[n].version < g.selection[n].version
        /\ g.shown[n] = selection[n].tie
        /\ Resource(n) => g.selection[n].rank \in Ranks
        /\ Resource(n) => Carries(g.changes, [node |-> n, selection |-> g.selection[n]])
        /\ n \in External => Carries(g.hooks, [node |-> n, selection |-> g.selection[n]])

Sound(g) ==
  /\ g \in Round /\ IsInjective(g.dirty) /\ ToSet(g.dirty) \subseteq nodes
  /\ \A n \in nodes \ ToSet(g.dirty) : Current(n, g.selection, g.shown)
  /\ \A n \in Nodes : Progressed(g, n)
  /\ \A i \in DOMAIN g.changes : NewChange(g, g.changes[i]) /\ Resource(g.changes[i].node)
  /\ \A i \in DOMAIN g.hooks : NewChange(g, g.hooks[i]) /\ g.hooks[i].node \in External

LEMMA SentElements ==
  ASSUME NEW queue \in Seq(Change), NEW c \in Change, NEW S
  PROVE  /\ Sent(queue, c, S) \in Seq(Change)
         /\ DOMAIN queue \subseteq DOMAIN Sent(queue, c, S)
         /\ \A i \in DOMAIN queue : Sent(queue, c, S)[i] = queue[i]
         /\ \A i \in DOMAIN Sent(queue, c, S) :
              \/ i \in DOMAIN queue /\ Sent(queue, c, S)[i] = queue[i]
              \/ Sent(queue, c, S)[i] = c /\ c.node \in S
BY AppendElements DEF Sent

LEMMA SentLast ==
  ASSUME NEW queue \in Seq(Change), NEW c \in Change, NEW S, c.node \in S
  PROVE  Carries(Sent(queue, c, S), c)
BY AppendElements DEF Sent, Carries

LEMMA VisitSound ==
  ASSUME GraphType, Placed, NEW g, Sound(g), g.dirty # <<>>
  PROVE  Sound(Visit(g))
<1> DEFINE n == Head(g.dirty)
           old == g.selection[n]
           agg == Aggregate(n, g.selection)
           new == [rank |-> agg.rank, active |-> agg.active, tie |-> old.tie,
                   version |-> old.version + 1]
           change == [node |-> n, selection |-> new]
           same == g.shown[n] = old.tie /\ old.rank = agg.rank /\ old.active = agg.active
           skipped == [g EXCEPT !.dirty = Tail(@)]
           sent == [dirty |-> Onward(Tail(g.dirty), n),
                    selection |-> [g.selection EXCEPT ![n] = new],
                    shown |-> [g.shown EXCEPT ![n] = old.tie],
                    changes |-> Sent(g.changes, change, ClassTargets),
                    hooks |-> Sent(g.hooks, change, External)]
<1>0. Visit(g) = IF same THEN skipped ELSE sent
  BY DEF Visit
<1>1. /\ g \in Round /\ g.dirty \in Seq(Nodes) /\ g.selection \in [Nodes -> Selection]
      /\ g.shown \in [Nodes -> Int] /\ g.changes \in Seq(Change) /\ g.hooks \in Seq(Change)
      /\ IsInjective(g.dirty) /\ ToSet(g.dirty) \subseteq nodes /\ nodes \subseteq Nodes
  BY DEF Sound, Round, GraphType
<1>2. /\ n \in ToSet(g.dirty) /\ Tail(g.dirty) \in Seq(Nodes) /\ IsInjective(Tail(g.dirty))
      /\ ToSet(Tail(g.dirty)) = ToSet(g.dirty) \ {n}
  BY <1>1, TailElements, TailOnce
<1>3. n \in nodes /\ n \in Nodes
  BY <1>1, <1>2
<1>4. /\ agg = [rank |-> agg.rank, active |-> agg.active]
      /\ agg.rank \in Ranks \cup {NoRank} /\ agg.active \in BOOLEAN
      /\ Resource(n) => agg.rank \in Ranks
  BY <1>1, <1>3, AggregateType DEF Resource
<1>5. /\ old \in Selection /\ old.tie \in Int /\ old.version \in Nat
  BY <1>1, <1>3 DEF Selection
<1> HIDE DEF n, agg, old
<1>6. CASE same
  <2>1. skipped \in Round /\ skipped.dirty = Tail(g.dirty)
    BY <1>1, <1>2 DEF Round
  <2>2. /\ skipped.selection = g.selection /\ skipped.shown = g.shown
        /\ skipped.changes = g.changes /\ skipped.hooks = g.hooks
    BY <1>1 DEF Round
  <2>3. Current(n, g.selection, g.shown)
    BY <1>4, <1>6 DEF Current, old, agg
  <2> HIDE DEF skipped
  <2>4. \A m \in nodes \ ToSet(skipped.dirty) : Current(m, g.selection, g.shown)
    BY <2>1, <2>3, <1>2 DEF Sound
  <2>5. \A m \in Nodes : Progressed(skipped, m)
    BY <2>2 DEF Sound, Progressed
  <2>6. \A c : NewChange(skipped, c) <=> NewChange(g, c)
    BY <2>2 DEF NewChange
  <2>7. ToSet(skipped.dirty) \subseteq nodes /\ IsInjective(skipped.dirty)
    BY <2>1, <1>1, <1>2
  <2>8. Sound(skipped)
    BY <2>1, <2>2, <2>4, <2>5, <2>6, <2>7 DEF Sound
  <2> QED
    BY <1>0, <1>6, <2>8
<1>7. CASE ~same
  <2>1. /\ new \in Selection /\ new.rank = agg.rank /\ new.active = agg.active /\ new.tie = old.tie
        /\ new.version = old.version + 1
    <3>1. old.version + 1 \in Nat
      BY <1>5
    <3> QED
      BY <3>1, <1>4, <1>5 DEF Selection
  <2> HIDE DEF new
  <2>2. change \in Change /\ change.node = n /\ change.selection = new
    BY <2>1, <1>3 DEF Change
  <2> HIDE DEF change
  <2>3. /\ Onward(Tail(g.dirty), n) \in Seq(Nodes) /\ IsInjective(Onward(Tail(g.dirty), n))
        /\ ToSet(Onward(Tail(g.dirty), n)) = (ToSet(g.dirty) \ {n}) \cup Parents(n)
    <3>1. Parents(n) \in SUBSET Nodes
      BY <1>1 DEF Parents
    <3> QED
      BY <3>1, <1>2, MarkedElements DEF Onward
  <2>4. /\ sent.dirty = Onward(Tail(g.dirty), n) /\ sent.selection = [g.selection EXCEPT ![n] = new]
        /\ sent.shown = [g.shown EXCEPT ![n] = old.tie]
        /\ sent.changes = Sent(g.changes, change, ClassTargets)
        /\ sent.hooks = Sent(g.hooks, change, External)
    OBVIOUS
  <2>5. sent.changes \in Seq(Change) /\ sent.hooks \in Seq(Change)
    BY <2>2, <2>4, <1>1, SentElements
  <2>6. sent \in Round
    BY <2>1, <2>3, <2>5, <1>1, <1>3, <1>5 DEF Round
  <2> HIDE DEF sent
  <2>7. /\ sent.selection[n] = new /\ \A m \in Nodes \ {n} : sent.selection[m] = g.selection[m]
        /\ sent.shown[n] = old.tie /\ \A m \in Nodes \ {n} : sent.shown[m] = g.shown[m]
    BY <2>4, <1>1, <1>3
  <2>8. ToSet(sent.dirty) \subseteq nodes /\ IsInjective(sent.dirty)
    BY <2>3, <2>4, <1>1 DEF Parents
  <2>9. ASSUME NEW m \in nodes \ ToSet(sent.dirty) PROVE Current(m, sent.selection, sent.shown)
    <3>1. m \in Nodes /\ m \notin Parents(n)
      BY <2>3, <2>4, <1>1
    <3>2. n \notin Children(m)
      BY <3>1, <2>9 DEF Children, Parents
    <3>3. Aggregate(m, sent.selection) = Aggregate(m, g.selection)
      <4>1. \A k \in Children(m) : k \in Nodes \ {n}
        BY <3>2, <1>1 DEF Children
      <4> QED
        BY <4>1, <2>7, AggregateSame
    <3>4. CASE m = n
      BY <3>3, <3>4, <2>1, <2>7, <1>4 DEF Current, agg
    <3>5. CASE m # n
      <4>1. Current(m, g.selection, g.shown)
        BY <3>5, <2>3, <2>4, <2>9 DEF Sound
      <4> QED
        BY <4>1, <3>1, <3>3, <3>5, <2>7 DEF Current
    <3> QED
      BY <3>4, <3>5
  <2>10. Progressed(g, n) /\ selection[n].version \in Nat
    BY <1>3 DEF Sound, GraphType, Selection
  <2>11. old.tie = selection[n].tie /\ selection[n].version < new.version
    BY <2>1, <2>10, <1>5 DEF Progressed, old
  <2>12. ASSUME NEW m \in Nodes PROVE Progressed(sent, m)
    <3>1. CASE m = n
      <4>1. Resource(n) => Carries(sent.changes, change)
        <5>1. Resource(n) => change.node \in ClassTargets
          BY <2>2, <1>3 DEF ClassTargets
        <5> QED
          BY <5>1, <2>2, <2>4, <1>1, SentLast
      <4>2. n \in External => Carries(sent.hooks, change)
        BY <2>2, <2>4, <1>1, SentLast
      <4>3. change = [node |-> n, selection |-> sent.selection[n]]
        BY <2>7 DEF change
      <4> QED
        BY <3>1, <4>1, <4>2, <4>3, <2>1, <2>7, <2>11, <1>3, <1>4 DEF Progressed
    <3>2. CASE m # n
      <4>1. Progressed(g, m) /\ sent.selection[m] = g.selection[m] /\ sent.shown[m] = g.shown[m]
        BY <3>2, <2>7 DEF Sound
      <4>2. \A i \in DOMAIN g.changes : i \in DOMAIN sent.changes /\ sent.changes[i] = g.changes[i]
        BY <2>2, <2>4, <1>1, SentElements
      <4>3. \A i \in DOMAIN g.hooks : i \in DOMAIN sent.hooks /\ sent.hooks[i] = g.hooks[i]
        BY <2>2, <2>4, <1>1, SentElements
      <4> QED
        BY <4>1, <4>2, <4>3 DEF Progressed, Carries
    <3> QED
      BY <3>1, <3>2
  <2>13. NewChange(sent, change)
    BY <2>1, <2>2, <2>7, <2>11, <1>3, <1>4, <1>5 DEF NewChange, Behind
  <2>14. ASSUME NEW c \in Change, NewChange(g, c) PROVE NewChange(sent, c)
    <3>1. CASE c.node = n
      <4>1. /\ c.selection.version <= old.version /\ c.selection.version \in Nat
            /\ (c.selection.version = 0 => c.selection = NoSelection)
        BY <2>14, <3>1 DEF NewChange, Behind, Change, Selection, old
      <4>2. Behind(c.selection, new)
        BY <4>1, <2>1, <1>5 DEF Behind
      <4> QED
        BY <4>2, <2>14, <3>1, <2>7 DEF NewChange
    <3>2. CASE c.node # n
      BY <3>2, <2>14, <2>7 DEF NewChange, Change
    <3> QED
      BY <3>1, <3>2
  <2>15. ASSUME NEW i \in DOMAIN sent.changes
         PROVE  NewChange(sent, sent.changes[i]) /\ Resource(sent.changes[i].node)
    <3>1. CASE i \in DOMAIN g.changes /\ sent.changes[i] = g.changes[i]
      <4>1. g.changes[i] \in Change
        BY <3>1, <1>1, Elements
      <4> QED
        BY <3>1, <4>1, <2>14 DEF Sound
    <3>2. CASE sent.changes[i] = change /\ change.node \in ClassTargets
      BY <3>2, <2>13 DEF ClassTargets
    <3> QED
      BY <3>1, <3>2, <2>2, <2>4, <1>1, SentElements
  <2>16. ASSUME NEW i \in DOMAIN sent.hooks
         PROVE  NewChange(sent, sent.hooks[i]) /\ sent.hooks[i].node \in External
    <3>1. CASE i \in DOMAIN g.hooks /\ sent.hooks[i] = g.hooks[i]
      <4>1. g.hooks[i] \in Change
        BY <3>1, <1>1, Elements
      <4> QED
        BY <3>1, <4>1, <2>14 DEF Sound
    <3>2. CASE sent.hooks[i] = change /\ change.node \in External
      BY <3>2, <2>13
    <3> QED
      BY <3>1, <3>2, <2>2, <2>4, <1>1, SentElements
  <2>17. Sound(sent)
    BY <2>6, <2>8, <2>9, <2>12, <2>15, <2>16 DEF Sound
  <2> QED
    BY <1>0, <1>7, <2>17
<1> QED
  BY <1>6, <1>7

Rounds == {g \in Round : Sound(g)}

FirstRound == [dirty |-> dirty, selection |-> selection, shown |-> shown, changes |-> <<>>, hooks |-> <<>>]

NextRound(g) == IF g.dirty = <<>> THEN g ELSE Visit(g)

ServiceTable ==
  CHOOSE h : h = [s \in SUBSET (DOMAIN [i \in 1 .. Budget |-> i]) |->
                    IF s = {} THEN FirstRound ELSE NextRound(h[s \ {Max(s)}])]

LEMMA ServicedUnfold ==
  Serviced = ServiceTable[DOMAIN [i \in 1 .. Budget |-> i]]
BY DEF Serviced, FoldLeft, MapThenFoldSet, ServiceTable, FirstRound, NextRound

LEMMA FirstRoundSound ==
  ASSUME GraphType, CleanIsCurrent
  PROVE  Sound(FirstRound)
<1>1. /\ FirstRound.dirty = dirty /\ FirstRound.selection = selection /\ FirstRound.shown = shown
      /\ FirstRound.changes = <<>> /\ FirstRound.hooks = <<>>
  BY DEF FirstRound
<1>2. FirstRound \in Round
  BY EmptyElements DEF FirstRound, Round, GraphType
<1>3. \A n \in nodes \ ToSet(dirty) : Current(n, selection, shown)
  BY DEF CleanIsCurrent, Current
<1>4. \A n \in Nodes : Progressed(FirstRound, n)
  BY <1>1 DEF Progressed
<1>5. DOMAIN FirstRound.changes = {} /\ DOMAIN FirstRound.hooks = {}
  BY <1>1
<1> HIDE DEF FirstRound
<1> QED
  BY <1>1, <1>2, <1>3, <1>4, <1>5 DEF Sound, GraphType

\* However many visits a call makes, their result is a sound round.
LEMMA ServicedSound ==
  ASSUME GraphType, Placed, CleanIsCurrent
  PROVE  Sound(Serviced)
<1> DEFINE step == [g \in Rounds |-> NextRound(g)]
           D == DOMAIN [i \in 1 .. Budget |-> i]
           F(h) == [s \in SUBSET D |-> IF s = {} THEN FirstRound ELSE NextRound(h[s \ {Max(s)}])]
<1>1. D = 1 .. Budget /\ Budget \in Int
  BY DemandAssumption DEF DemandAssumption
<1>2. FirstRound \in Rounds
  BY FirstRoundSound DEF Rounds, Sound
<1>3. \A g \in Rounds : NextRound(g) \in Rounds
  BY VisitSound DEF Rounds, NextRound, Sound
<1>4. step \in [Rounds -> Rounds]
  BY <1>3
<1> HIDE DEF D
<1>5. PICK h \in [SUBSET (1 .. Budget) -> Rounds] :
        \A s \in SUBSET (1 .. Budget) : h[s] = IF s = {} THEN FirstRound ELSE step[h[s \ {Max(s)}]]
  <2> HIDE DEF step
  <2>1. \E h : IsStepTable(h, step, Rounds, FirstRound, Budget)
    BY <1>1, <1>2, <1>4, TableOfSteps
  <2> QED
    BY <2>1 DEF IsStepTable
<1>6. h = F(h)
  <2>1. ASSUME NEW s \in SUBSET (1 .. Budget)
        PROVE  h[s] = IF s = {} THEN FirstRound ELSE NextRound(h[s \ {Max(s)}])
    <3>1. s # {} => h[s \ {Max(s)}] \in Rounds
      BY <1>5
    <3> QED
      BY <3>1, <1>5
  <2> QED
    BY <2>1, <1>1, <1>5
<1>7. ServiceTable = F(ServiceTable)
  <2>1. ServiceTable = CHOOSE g : g = F(g)
    BY DEF ServiceTable, D
  <2> HIDE DEF F
  <2> QED
    BY <1>6, <2>1
<1>8. ServiceTable[{}] \in Rounds
  BY <1>7, <1>2
<1>9. ASSUME NEW s \in SUBSET (1 .. Budget), s # {}, ServiceTable[s \ {Max(s)}] \in Rounds
      PROVE  ServiceTable[s] \in Rounds
  <2>1. ServiceTable[s] = NextRound(ServiceTable[s \ {Max(s)}])
    BY <1>1, <1>7, <1>9
  <2> QED
    BY <2>1, <1>3, <1>9
<1>10. ServiceTable[1 .. Budget] \in Rounds
  <2> DEFINE table == ServiceTable
             Goods == Rounds
  <2>1. table[{}] \in Goods
    BY <1>8
  <2>2. \A s \in SUBSET (1 .. Budget) : s # {} /\ table[s \ {Max(s)}] \in Goods => table[s] \in Goods
    BY <1>9
  <2> HIDE DEF table, Goods
  <2>3. table[1 .. Budget] \in Goods
    BY <2>1, <2>2, <1>1, TableStays
  <2> QED
    BY <2>3 DEF table, Goods
<1> QED
  BY <1>1, <1>10, ServicedUnfold DEF D, Rounds

-----------------------------------------------------------------------------
(* The queues *)

\* Keys of resource jobs: they have ranks, and no two have the same tie.
GoodKeys(R, keys) ==
  /\ \A n \in R : keys[n] \in Selection /\ keys[n].rank \in Ranks
  /\ \A n, m \in R : n # m => keys[n].tie # keys[m].tie

LEMMA BeforeOrder ==
  /\ \A a, b \in Selection :
       a.rank \in Ranks /\ b.rank \in Ranks /\ a.tie # b.tie => Before(a, b) \/ Before(b, a)
  /\ \A a, b, d \in Selection :
       /\ a.rank \in Ranks /\ b.rank \in Ranks /\ d.rank \in Ranks
       /\ Before(a, b) /\ Before(b, d)
       => Before(a, d)
<1>1. ASSUME NEW a \in Selection, NEW b \in Selection, a.rank \in Ranks, b.rank \in Ranks, a.tie # b.tie
      PROVE  Before(a, b) \/ Before(b, a)
  <2>1. a.rank \in Nat /\ b.rank \in Nat /\ a.tie \in Int /\ b.tie \in Int
    BY <1>1, DemandAssumption DEF DemandAssumption, Selection
  <2>2. a.active \in BOOLEAN /\ b.active \in BOOLEAN
    BY DEF Selection
  <2>3. CASE a.active = b.active
    BY <1>1, <2>1, <2>3 DEF Before
  <2>4. CASE a.active # b.active
    BY <2>2, <2>4 DEF Before
  <2> QED
    BY <2>3, <2>4
<1>2. ASSUME NEW a \in Selection, NEW b \in Selection, NEW d \in Selection,
             a.rank \in Ranks, b.rank \in Ranks, d.rank \in Ranks, Before(a, b), Before(b, d)
      PROVE  Before(a, d)
  <2>1. /\ a.rank \in Nat /\ b.rank \in Nat /\ d.rank \in Nat
        /\ a.tie \in Int /\ b.tie \in Int /\ d.tie \in Int
    BY <1>2, DemandAssumption DEF DemandAssumption, Selection
  <2>2. a.active \in BOOLEAN /\ b.active \in BOOLEAN /\ d.active \in BOOLEAN
    BY DEF Selection
  <2>3. CASE a.active = b.active /\ b.active = d.active
    BY <1>2, <2>1, <2>2, <2>3 DEF Before
  <2>4. CASE ~(a.active = b.active /\ b.active = d.active)
    BY <1>2, <2>2, <2>4 DEF Before
  <2> QED
    BY <2>3, <2>4
<1> QED
  BY <1>1, <1>2

\* The resource route has a head.
LEMMA LeastKey ==
  ASSUME NEW R, IsFiniteSet(R), R # {}, NEW keys, GoodKeys(R, keys)
  PROVE  \E n \in R : \A m \in R \ {n} : Before(keys[n], keys[m])
<1> DEFINE Least(T, n) == n \in T /\ \A m \in T \ {n} : Before(keys[n], keys[m])
           Bad == {T \in SUBSET R : T # {} /\ ~\E n \in T : Least(T, n)}
           N == {Cardinality(T) : T \in Bad}
<1>1. \A T \in SUBSET R : IsFiniteSet(T) /\ Cardinality(T) \in Nat
  BY FS_Subset, FS_CardinalityType
<1>2. N \in SUBSET Nat
  BY <1>1
<1>3. ASSUME Bad # {} PROVE FALSE
  <2>1. N # {}
    BY <1>3
  <2>2. PICK j \in N : \A i \in N : j <= i
    <3> HIDE DEF N
    <3> QED
      BY <1>2, <2>1, LeastNumber
  <2>3. PICK T \in Bad : j = Cardinality(T)
    BY <2>2
  <2>4. PICK x \in T : TRUE
    BY <2>3
  <2> DEFINE U == T \ {x}
  <2>5. U \in SUBSET R /\ Cardinality(U) = j - 1 /\ j \in Nat
    BY <1>1, <2>3, <2>4, FS_RemoveElement
  <2>6. U \notin Bad
    <3>1. ~(j <= j - 1)
      BY <2>5
    <3>2. U \in Bad => Cardinality(U) \in N
      OBVIOUS
    <3> HIDE DEF Bad, N, U
    <3> QED
      BY <2>2, <2>5, <3>1, <3>2
  <2>7. CASE U = {}
    <3>1. Least(T, x)
      BY <2>4, <2>7
    <3> QED
      BY <3>1, <2>3, <2>4
  <2>8. CASE U # {}
    <3>1. PICK y \in U : Least(U, y)
      BY <2>5, <2>6, <2>8
    <3>2. x \in R /\ y \in R /\ x # y /\ T \subseteq R
      BY <2>3, <2>4, <3>1
    <3>3. Before(keys[x], keys[y]) \/ Before(keys[y], keys[x])
      BY <3>2, BeforeOrder DEF GoodKeys
    <3>4. CASE Before(keys[y], keys[x])
      <4>1. Least(T, y)
        BY <3>1, <3>4
      <4> QED
        BY <4>1, <2>3, <3>1
    <3>5. CASE Before(keys[x], keys[y])
      <4>1. ASSUME NEW m \in T \ {x} PROVE Before(keys[x], keys[m])
        <5>1. CASE m = y
          BY <3>5, <5>1
        <5>2. CASE m # y
          <6>1. Before(keys[y], keys[m])
            BY <3>1, <5>2
          <6> QED
            BY <6>1, <3>2, <3>5, BeforeOrder DEF GoodKeys
        <5> QED
          BY <5>1, <5>2
      <4>2. Least(T, x)
        BY <4>1, <2>4
      <4> QED
        BY <4>2, <2>3, <2>4
    <3> QED
      BY <3>3, <3>4, <3>5
  <2> QED
    BY <2>7, <2>8
<1>4. R \notin Bad
  BY <1>3
<1>5. \E n \in R : Least(R, n)
  <2> HIDE DEF Least
  <2> QED
    BY <1>4
<1> QED
  BY <1>5

Members(q) == ToSet(q.ordinary) \cup q.resource

\* A queue that is not empty has a next job, the head of one of its routes.
LEMMA PeekIsHead ==
  ASSUME NEW q \in PendingQueue, Size(q) # 0, NEW keys, GoodKeys(q.resource, keys),
         ToSet(q.ordinary) \cap q.resource = {}
  PROVE  /\ Peek(q, keys) \in Members(q)
         /\ Peek(q, keys) \in q.resource =>
              \A m \in q.resource \ {Peek(q, keys)} : Before(keys[Peek(q, keys)], keys[m])
<1>1. q.ordinary \in Seq(Nodes) /\ q.resource \in SUBSET Nodes /\ IsFiniteSet(q.resource)
  BY DemandAssumption, FS_Subset DEF DemandAssumption, PendingQueue
<1>2. q.ordinary # <<>> \/ q.resource # {}
  <2>1. Len(<<>>) = 0 /\ Cardinality({}) = 0
    BY FS_EmptySet
  <2>2. ASSUME q.ordinary = <<>>, q.resource = {} PROVE FALSE
    <3>1. Size(q) = Len(<<>>) + Cardinality({})
      BY <2>2 DEF Size
    <3> QED
      BY <2>1, <3>1
  <2> QED
    BY <2>2
<1>3. Heads(q, keys) \subseteq Members(q)
  <2>1. q.ordinary # <<>> => Head(q.ordinary) \in ToSet(q.ordinary)
    BY <1>1, TailElements
  <2> QED
    BY <2>1 DEF Heads, Members
<1>4. Heads(q, keys) # {}
  <2>1. CASE q.ordinary # <<>>
    BY <2>1 DEF Heads
  <2>2. CASE q.resource # {}
    <3>1. PICK n \in q.resource : \A m \in q.resource \ {n} : Before(keys[n], keys[m])
      BY <1>1, <2>2, LeastKey
    <3> QED
      BY <3>1 DEF Heads
  <2> QED
    BY <1>2, <2>1, <2>2
<1>5. Members(q) \subseteq Nodes /\ Nodes \subseteq Nat
  BY <1>1, Elements, DemandAssumption DEF Members, DemandAssumption
<1>6. Peek(q, keys) \in Heads(q, keys)
  <2>1. Heads(q, keys) \in SUBSET Nat
    BY <1>3, <1>5
  <2> QED
    BY <2>1, <1>4, MinIn DEF Peek
<1>7. ASSUME Peek(q, keys) \in q.resource
      PROVE  \A m \in q.resource \ {Peek(q, keys)} : Before(keys[Peek(q, keys)], keys[m])
  <2>1. q.ordinary # <<>> => Head(q.ordinary) \notin q.resource
    BY <1>1, TailElements
  <2> QED
    BY <2>1, <1>6, <1>7 DEF Heads
<1> QED
  BY <1>3, <1>6, <1>7

LEMMA WithoutMembers ==
  ASSUME NEW q \in PendingQueue, IsInjective(q.ordinary), NEW n
  PROVE  /\ Without(q, n) \in PendingQueue /\ IsInjective(Without(q, n).ordinary)
         /\ ToSet(Without(q, n).ordinary) = ToSet(q.ordinary) \ {n}
         /\ Without(q, n).resource = q.resource \ {n}
<1>1. q.ordinary \in Seq(Nodes) /\ q.resource \in SUBSET Nodes
  BY DEF PendingQueue
<1>2. /\ RemoveFirst(q.ordinary, n) \in Seq(Nodes) /\ IsInjective(RemoveFirst(q.ordinary, n))
      /\ ToSet(RemoveFirst(q.ordinary, n)) = ToSet(q.ordinary) \ {n}
  BY <1>1, RemovedElements
<1> QED
  BY <1>1, <1>2 DEF Without, PendingQueue

LEMMA PushMembers ==
  ASSUME NEW q \in PendingQueue, IsInjective(q.ordinary), NEW n \in Nodes, n \notin Members(q)
  PROVE  /\ Push(q, n) \in PendingQueue /\ IsInjective(Push(q, n).ordinary)
         /\ Resource(n) => /\ Push(q, n).ordinary = q.ordinary
                           /\ Push(q, n).resource = q.resource \cup {n}
         /\ ~Resource(n) => /\ ToSet(Push(q, n).ordinary) = ToSet(q.ordinary) \cup {n}
                            /\ Push(q, n).resource = q.resource
<1>1. q.ordinary \in Seq(Nodes) /\ q.resource \in SUBSET Nodes
  BY DEF PendingQueue
<1>2. /\ Append(q.ordinary, n) \in Seq(Nodes) /\ IsInjective(Append(q.ordinary, n))
      /\ ToSet(Append(q.ordinary, n)) = ToSet(q.ordinary) \cup {n}
  BY <1>1, AppendElements DEF Members
<1>3. CASE Resource(n)
  BY <1>1, <1>3 DEF Push, PendingQueue
<1>4. CASE ~Resource(n)
  BY <1>1, <1>2, <1>4 DEF Push, PendingQueue
<1> QED
  BY <1>3, <1>4

\* Taking a job out of its queue, and giving it a new state.
LEMMA LinedWithout ==
  ASSUME NEW q \in PendingQueue, NEW old, NEW state, Lined(q, old, state),
         NEW new, NEW n, \A m \in Nodes \ {n} : new[m] = old[m]
  PROVE  Lined(Without(q, n), new, state)
<1>1. Members(q) \subseteq Nodes
  BY Elements DEF Members, PendingQueue
<1> QED
  BY <1>1, WithoutMembers DEF Lined, Members

LEMMA LinedPush ==
  ASSUME NEW q \in PendingQueue, NEW old, NEW state, Lined(q, old, state),
         NEW n \in Jobs, old[n] # state,
         NEW new, new[n] = state, \A m \in Nodes \ {n} : new[m] = old[m]
  PROVE  Lined(Push(q, n), new, state) /\ n \in Nodes
<1>1. Members(q) \subseteq Nodes
  BY Elements DEF Members, PendingQueue
<1>2. n \in Nodes /\ n \notin Members(q)
  BY DEF Members, Lined, Jobs
<1>3. CASE Resource(n)
  BY <1>1, <1>2, <1>3, PushMembers DEF Lined, Members
<1>4. CASE ~Resource(n)
  BY <1>1, <1>2, <1>4, PushMembers DEF Lined, Members
<1> QED
  BY <1>2, <1>3, <1>4

LEMMA LinedKept ==
  ASSUME NEW q \in PendingQueue, NEW old, NEW state, Lined(q, old, state),
         NEW new, \A m \in Nodes : old[m] = state => new[m] = state
  PROVE  Lined(q, new, state)
<1>1. Members(q) \subseteq Nodes
  BY Elements DEF Members, PendingQueue
<1> QED
  BY <1>1 DEF Lined, Members

-----------------------------------------------------------------------------
(* Steps inside the class *)

ClassRecord ==
  [ready : PendingQueue, deferred : PendingQueue, life : [Nodes -> Lives],
   applied : [Nodes -> Selection], entry : [Nodes -> Selection], rebalance : BOOLEAN]

\* Jobs only move within the queues and to the backend.
Rearranged(k0, k) ==
  /\ k.applied = k0.applied
  /\ \A n \in Nodes : \/ k.life[n] = k0.life[n]
                      \/ /\ k0.life[n] \in {"ready", "deferred"}
                         /\ k.life[n] \in {"ready", "deferred", "handed"}

LEMMA QueueKeys ==
  ASSUME NEW k, ClassOK(k)
  PROVE  /\ k.ready \in PendingQueue /\ k.deferred \in PendingQueue
         /\ Members(k.ready) \subseteq Nodes /\ Members(k.deferred) \subseteq Nodes
         /\ GoodKeys(k.ready.resource, k.entry) /\ GoodKeys(k.deferred.resource, k.entry)
         /\ ToSet(k.ready.ordinary) \cap k.ready.resource = {}
         /\ ToSet(k.deferred.ordinary) \cap k.deferred.resource = {}
         /\ \A n \in Members(k.ready) : n \in Jobs /\ n \in Nodes /\ k.life[n] = "ready"
         /\ \A n \in Members(k.deferred) : n \in Jobs /\ n \in Nodes /\ k.life[n] = "deferred"
<1>1. k.ready \in PendingQueue /\ k.deferred \in PendingQueue /\ k.entry \in [Nodes -> Selection]
  BY DEF ClassOK, ClassType
<1>2. Members(k.ready) \subseteq Nodes /\ Members(k.deferred) \subseteq Nodes
  BY <1>1, Elements DEF Members, PendingQueue
<1>3. /\ \A n \in Members(k.ready) : n \in Jobs /\ k.life[n] = "ready" /\ (n \in k.ready.resource <=> Resource(n))
      /\ \A n \in Members(k.deferred) : n \in Jobs /\ k.life[n] = "deferred" /\ (n \in k.deferred.resource <=> Resource(n))
  BY DEF ClassOK, Lined, Members, Resource
<1>4. /\ \A n \in Members(k.ready) \cup Members(k.deferred) : n \in InQueue(k)
  BY <1>2, <1>3 DEF InQueue
<1>5. \A R \in {k.ready.resource, k.deferred.resource} : GoodKeys(R, k.entry)
  BY <1>1, <1>2, <1>3, <1>4 DEF GoodKeys, ClassOK, Keyed, Members
<1>6. /\ ToSet(k.ready.ordinary) \cap k.ready.resource = {}
      /\ ToSet(k.deferred.ordinary) \cap k.deferred.resource = {}
  BY DEF ClassOK, Lined
<1> QED
  BY <1>1, <1>2, <1>3, <1>5, <1>6

\* One turn of the loops of Refilled and Handover.
RefillOne(g) ==
  IF RunnableIn(g) < Runnable /\ Size(g.deferred) # 0
    THEN LET n == Peek(g.deferred, g.entry) IN
         [g EXCEPT !.deferred = Without(@, n), !.ready = Push(@, n),
                   !.life[n] = "ready", !.entry[n] = g.applied[n]]
    ELSE g

HandOne(g) ==
  IF Size(g.ready) = 0 THEN g
  ELSE LET n == Peek(g.ready, g.entry) IN
       [g EXCEPT !.ready = Without(@, n), !.life[n] = "handed"]

LEMMA RefillOneOK ==
  ASSUME NEW k0, NEW g \in ClassRecord, ClassOK(g), Rearranged(k0, g)
  PROVE  RefillOne(g) \in ClassRecord /\ ClassOK(RefillOne(g)) /\ Rearranged(k0, RefillOne(g))
<1> DEFINE n == Peek(g.deferred, g.entry)
           r == [g EXCEPT !.deferred = Without(@, n), !.ready = Push(@, n),
                          !.life[n] = "ready", !.entry[n] = g.applied[n]]
<1>1. CASE ~(RunnableIn(g) < Runnable /\ Size(g.deferred) # 0)
  BY <1>1 DEF RefillOne
<1>2. CASE RunnableIn(g) < Runnable /\ Size(g.deferred) # 0
  <2>1. RefillOne(g) = r
    BY <1>2 DEF RefillOne
  <2>2. /\ n \in Members(g.deferred)
        /\ n \in g.deferred.resource => \A m \in g.deferred.resource \ {n} : Before(g.entry[n], g.entry[m])
    BY <1>2, QueueKeys, PeekIsHead
  <2> HIDE DEF n
  <2>3. n \in Nodes /\ n \in Jobs /\ g.life[n] = "deferred"
    BY <2>2, QueueKeys
  <2>4. /\ g.ready \in PendingQueue /\ g.deferred \in PendingQueue /\ g.life \in [Nodes -> Lives]
        /\ g.applied \in [Nodes -> Selection] /\ g.entry \in [Nodes -> Selection]
        /\ Lined(g.ready, g.life, "ready") /\ Lined(g.deferred, g.life, "deferred")
    BY DEF ClassOK, ClassType
  <2>5. /\ r.deferred = Without(g.deferred, n) /\ r.ready = Push(g.ready, n)
        /\ r.life = [g.life EXCEPT ![n] = "ready"] /\ r.entry = [g.entry EXCEPT ![n] = g.applied[n]]
        /\ r.applied = g.applied /\ r.rebalance = g.rebalance
    BY DEF ClassRecord
  <2>6. Lined(r.deferred, r.life, "deferred")
    <3>1. \A m \in Nodes \ {n} : r.life[m] = g.life[m]
      BY <2>4, <2>5
    <3> QED
      BY <3>1, <2>4, <2>5, LinedWithout
  <2>7. Lined(r.ready, r.life, "ready")
    <3>1. r.life[n] = "ready" /\ \A m \in Nodes \ {n} : r.life[m] = g.life[m]
      BY <2>3, <2>4, <2>5
    <3> QED
      BY <3>1, <2>3, <2>4, <2>5, LinedPush
  <2>8. n \notin Members(g.ready) /\ IsInjective(g.ready.ordinary) /\ IsInjective(g.deferred.ordinary)
    BY <2>3, <2>4 DEF Lined, Members
  <2>9. r.ready \in PendingQueue /\ r.deferred \in PendingQueue
    BY <2>3, <2>4, <2>5, <2>8, PushMembers, WithoutMembers
  <2>10. r \in ClassRecord
    <3>1. r.life \in [Nodes -> Lives] /\ r.entry \in [Nodes -> Selection]
      BY <2>3, <2>4, <2>5 DEF Lives
    <3> QED
      BY <3>1, <2>4, <2>5, <2>9 DEF ClassRecord
  <2>11. InQueue(r) = InQueue(g)
    BY <2>3, <2>4, <2>5 DEF InQueue
  <2>12. Keyed(r)
    <3>1. \A m \in InQueue(r) : r.entry[m] = r.applied[m]
      BY <2>3, <2>4, <2>5, <2>11 DEF ClassOK, Keyed, InQueue
    <3> QED
      BY <3>1, <2>5, <2>11 DEF ClassOK, Keyed
  <2>13. r.entry = g.entry
    <3>1. g.entry[n] = g.applied[n]
      BY <2>3 DEF ClassOK, Keyed, InQueue
    <3> QED
      BY <3>1, <2>4, <2>5
  <2>14. r.deferred.resource = g.deferred.resource \ {n}
    BY <2>4, <2>5, <2>8, WithoutMembers
  <2>15. /\ Resource(n) => r.ready.resource = g.ready.resource \cup {n}
         /\ ~Resource(n) => r.ready.resource = g.ready.resource
    BY <2>3, <2>4, <2>5, <2>8, PushMembers
  <2>16. Resource(n) => n \in g.deferred.resource
    BY <2>2, <2>4 DEF Lined, Members
  <2>17. InOrder(r)
    <3> SUFFICES ASSUME ~r.rebalance, NEW a \in r.ready.resource, NEW b \in r.deferred.resource
                 PROVE  Before(r.entry[a], r.entry[b])
      BY DEF InOrder
    <3>1. b \in g.deferred.resource /\ b # n
      BY <2>14
    <3>2. CASE a \in g.ready.resource
      BY <3>1, <3>2, <2>5, <2>13 DEF ClassOK, InOrder
    <3>3. CASE a = n /\ Resource(n)
      BY <3>1, <3>3, <2>2, <2>13, <2>16
    <3> QED
      BY <3>2, <3>3, <2>15
  <2>18. ClassOK(r)
    BY <2>6, <2>7, <2>10, <2>12, <2>17 DEF ClassOK, ClassType, ClassRecord
  <2>19. Rearranged(k0, r)
    <3>1. ASSUME NEW m \in Nodes
          PROVE  \/ r.life[m] = k0.life[m]
                 \/ k0.life[m] \in {"ready", "deferred"} /\ r.life[m] \in {"ready", "deferred", "handed"}
      BY <2>3, <2>4, <2>5 DEF Rearranged
    <3> QED
      BY <3>1, <2>5 DEF Rearranged
  <2> QED
    BY <2>1, <2>10, <2>18, <2>19
<1> QED
  BY <1>1, <1>2

LEMMA HandOneOK ==
  ASSUME NEW k0, NEW g \in ClassRecord, ClassOK(g), Rearranged(k0, g)
  PROVE  HandOne(g) \in ClassRecord /\ ClassOK(HandOne(g)) /\ Rearranged(k0, HandOne(g))
<1> DEFINE n == Peek(g.ready, g.entry)
           r == [g EXCEPT !.ready = Without(@, n), !.life[n] = "handed"]
<1>1. CASE Size(g.ready) = 0
  BY <1>1 DEF HandOne
<1>2. CASE Size(g.ready) # 0
  <2>1. HandOne(g) = r
    BY <1>2 DEF HandOne
  <2>2. n \in Members(g.ready)
    BY <1>2, QueueKeys, PeekIsHead
  <2> HIDE DEF n
  <2>3. n \in Nodes /\ g.life[n] = "ready"
    BY <2>2, QueueKeys
  <2>4. /\ g.ready \in PendingQueue /\ g.deferred \in PendingQueue /\ g.life \in [Nodes -> Lives]
        /\ g.applied \in [Nodes -> Selection] /\ g.entry \in [Nodes -> Selection]
        /\ Lined(g.ready, g.life, "ready") /\ Lined(g.deferred, g.life, "deferred")
    BY DEF ClassOK, ClassType
  <2>5. /\ r.ready = Without(g.ready, n) /\ r.deferred = g.deferred
        /\ r.life = [g.life EXCEPT ![n] = "handed"] /\ r.entry = g.entry
        /\ r.applied = g.applied /\ r.rebalance = g.rebalance
    BY DEF ClassRecord
  <2>6. Lined(r.ready, r.life, "ready")
    <3>1. \A m \in Nodes \ {n} : r.life[m] = g.life[m]
      BY <2>4, <2>5
    <3> QED
      BY <3>1, <2>4, <2>5, LinedWithout
  <2>7. Lined(r.deferred, r.life, "deferred")
    <3>1. \A m \in Nodes : g.life[m] = "deferred" => r.life[m] = "deferred"
      BY <2>3, <2>4, <2>5
    <3> QED
      BY <3>1, <2>4, <2>5, LinedKept
  <2>8. r.ready \in PendingQueue /\ r.ready.resource = g.ready.resource \ {n}
    BY <2>4, <2>5, WithoutMembers DEF Lined
  <2>9. r \in ClassRecord
    <3>1. r.life \in [Nodes -> Lives]
      BY <2>3, <2>4, <2>5 DEF Lives
    <3> QED
      BY <3>1, <2>4, <2>5, <2>8 DEF ClassRecord
  <2>10. InQueue(r) \subseteq InQueue(g)
    BY <2>3, <2>4, <2>5 DEF InQueue
  <2>11. Keyed(r)
    BY <2>5, <2>10 DEF ClassOK, Keyed
  <2>12. InOrder(r)
    BY <2>5, <2>8 DEF ClassOK, InOrder
  <2>13. ClassOK(r)
    BY <2>6, <2>7, <2>9, <2>11, <2>12 DEF ClassOK, ClassType, ClassRecord
  <2>14. Rearranged(k0, r)
    <3>1. ASSUME NEW m \in Nodes
          PROVE  \/ r.life[m] = k0.life[m]
                 \/ k0.life[m] \in {"ready", "deferred"} /\ r.life[m] \in {"ready", "deferred", "handed"}
      BY <2>3, <2>4, <2>5 DEF Rearranged
    <3> QED
      BY <3>1, <2>5 DEF Rearranged
  <2> QED
    BY <2>1, <2>9, <2>13, <2>14
<1> QED
  BY <1>1, <1>2

\* What a class with the queues in order becomes by such turns.
Goods(k) == {g \in ClassRecord : ClassOK(g) /\ Rearranged(k, g)}

RefillTable(k) ==
  CHOOSE h : h = [s \in SUBSET (DOMAIN [i \in 1 .. Runnable |-> i]) |->
                    IF s = {} THEN k ELSE RefillOne(h[s \ {Max(s)}])]

LEMMA RefilledUnfold ==
  ASSUME NEW k
  PROVE  Refilled(k) = RefillTable(k)[DOMAIN [i \in 1 .. Runnable |-> i]]
BY DEF Refilled, FoldLeft, MapThenFoldSet, RefillTable, RefillOne

\* However many jobs the window takes, the queues stay in order.
LEMMA RefilledOK ==
  ASSUME NEW k \in ClassRecord, ClassOK(k)
  PROVE  Refilled(k) \in Goods(k)
<1> DEFINE good == Goods(k)
           top == Runnable
           step == [g \in good |-> RefillOne(g)]
           D == DOMAIN [i \in 1 .. top |-> i]
           F(h) == [s \in SUBSET D |-> IF s = {} THEN k ELSE RefillOne(h[s \ {Max(s)}])]
<1>1. D = 1 .. top /\ top \in Int
  BY DemandAssumption DEF DemandAssumption
<1>2. k \in good
  BY DEF Goods, Rearranged
<1>3. \A g \in good : RefillOne(g) \in good
  BY RefillOneOK DEF Goods
<1>4. step \in [good -> good]
  BY <1>3
<1> HIDE DEF D, good
<1>5. PICK h \in [SUBSET (1 .. top) -> good] :
        \A s \in SUBSET (1 .. top) : h[s] = IF s = {} THEN k ELSE step[h[s \ {Max(s)}]]
  <2> HIDE DEF step, top
  <2>1. \E h : IsStepTable(h, step, good, k, top)
    BY <1>1, <1>2, <1>4, TableOfSteps
  <2> QED
    BY <2>1 DEF IsStepTable
<1> HIDE DEF top
<1>6. h = F(h)
  <2>1. ASSUME NEW s \in SUBSET (1 .. top)
        PROVE  h[s] = IF s = {} THEN k ELSE RefillOne(h[s \ {Max(s)}])
    <3>1. s # {} => h[s \ {Max(s)}] \in good
      BY <1>5
    <3> QED
      BY <3>1, <1>5
  <2> QED
    BY <2>1, <1>1, <1>5
<1>7. RefillTable(k) = F(RefillTable(k))
  <2>1. RefillTable(k) = CHOOSE g : g = F(g)
    BY DEF RefillTable, D, top
  <2> HIDE DEF F
  <2> QED
    BY <1>6, <2>1
<1>8. RefillTable(k)[{}] \in good
  BY <1>7, <1>2
<1>9. ASSUME NEW s \in SUBSET (1 .. top), s # {}, RefillTable(k)[s \ {Max(s)}] \in good
      PROVE  RefillTable(k)[s] \in good
  <2>1. RefillTable(k)[s] = RefillOne(RefillTable(k)[s \ {Max(s)}])
    BY <1>1, <1>7, <1>9
  <2> QED
    BY <2>1, <1>3, <1>9
<1>10. RefillTable(k)[1 .. top] \in good
  <2> DEFINE table == RefillTable(k)
  <2>1. table[{}] \in good
    BY <1>8
  <2>2. \A s \in SUBSET (1 .. top) : s # {} /\ table[s \ {Max(s)}] \in good => table[s] \in good
    BY <1>9
  <2> HIDE DEF table
  <2>3. table[1 .. top] \in good
    BY <2>1, <2>2, <1>1, TableStays
  <2> QED
    BY <2>3 DEF table
<1> QED
  BY <1>1, <1>10, RefilledUnfold DEF D, good, top

HandTable(k) ==
  CHOOSE h : h = [s \in SUBSET (DOMAIN [i \in 1 .. (HandoffLimit - Cardinality(handedOff)) |-> i]) |->
                    IF s = {} THEN k ELSE HandOne(h[s \ {Max(s)}])]

LEMMA HandoverUnfold ==
  ASSUME NEW k
  PROVE  Handover(k) = HandTable(k)[DOMAIN [i \in 1 .. (HandoffLimit - Cardinality(handedOff)) |-> i]]
BY DEF Handover, FoldLeft, MapThenFoldSet, HandTable, HandOne

\* However many jobs the backend takes, the queues stay in order.
LEMMA HandoverOK ==
  ASSUME NEW k \in ClassRecord, ClassOK(k), handedOff \subseteq Nodes
  PROVE  Handover(k) \in Goods(k)
<1> DEFINE good == Goods(k)
           top == (HandoffLimit - Cardinality(handedOff))
           step == [g \in good |-> HandOne(g)]
           D == DOMAIN [i \in 1 .. top |-> i]
           F(h) == [s \in SUBSET D |-> IF s = {} THEN k ELSE HandOne(h[s \ {Max(s)}])]
<1>0. top \in Int
  <2>1. IsFiniteSet(handedOff)
    BY DemandAssumption, FS_Subset DEF DemandAssumption
  <2>2. Cardinality(handedOff) \in Nat /\ HandoffLimit \in Nat
    BY <2>1, FS_CardinalityType, DemandAssumption DEF DemandAssumption
  <2> QED
    BY <2>2
<1>1. D = 1 .. top /\ top \in Int
  <2> HIDE DEF top
  <2> QED
    BY <1>0
<1>2. k \in good
  BY DEF Goods, Rearranged
<1>3. \A g \in good : HandOne(g) \in good
  BY HandOneOK DEF Goods
<1>4. step \in [good -> good]
  BY <1>3
<1> HIDE DEF D, good
<1>5. PICK h \in [SUBSET (1 .. top) -> good] :
        \A s \in SUBSET (1 .. top) : h[s] = IF s = {} THEN k ELSE step[h[s \ {Max(s)}]]
  <2> HIDE DEF step, top
  <2>1. \E h : IsStepTable(h, step, good, k, top)
    BY <1>1, <1>2, <1>4, TableOfSteps
  <2> QED
    BY <2>1 DEF IsStepTable
<1> HIDE DEF top
<1>6. h = F(h)
  <2>1. ASSUME NEW s \in SUBSET (1 .. top)
        PROVE  h[s] = IF s = {} THEN k ELSE HandOne(h[s \ {Max(s)}])
    <3>1. s # {} => h[s \ {Max(s)}] \in good
      BY <1>5
    <3> QED
      BY <3>1, <1>5
  <2> QED
    BY <2>1, <1>1, <1>5
<1>7. HandTable(k) = F(HandTable(k))
  <2>1. HandTable(k) = CHOOSE g : g = F(g)
    BY DEF HandTable, D, top
  <2> HIDE DEF F
  <2> QED
    BY <1>6, <2>1
<1>8. HandTable(k)[{}] \in good
  BY <1>7, <1>2
<1>9. ASSUME NEW s \in SUBSET (1 .. top), s # {}, HandTable(k)[s \ {Max(s)}] \in good
      PROVE  HandTable(k)[s] \in good
  <2>1. HandTable(k)[s] = HandOne(HandTable(k)[s \ {Max(s)}])
    BY <1>1, <1>7, <1>9
  <2> QED
    BY <2>1, <1>3, <1>9
<1>10. HandTable(k)[1 .. top] \in good
  <2> DEFINE table == HandTable(k)
  <2>1. table[{}] \in good
    BY <1>8
  <2>2. \A s \in SUBSET (1 .. top) : s # {} /\ table[s \ {Max(s)}] \in good => table[s] \in good
    BY <1>9
  <2> HIDE DEF table
  <2>3. table[1 .. top] \in good
    BY <2>1, <2>2, <1>1, TableStays
  <2> QED
    BY <2>3 DEF table
<1> QED
  BY <1>1, <1>10, HandoverUnfold DEF D, good, top

\* The window that goes back to the front of the backlog is in no order but the backlog's.
LEMMA UnwoundOK ==
  ASSUME NEW k \in ClassRecord, ClassOK(k)
  PROVE  Unwound(k) \in Goods(k)
<1>1. /\ k.ready \in PendingQueue /\ k.deferred \in PendingQueue /\ k.life \in [Nodes -> Lives]
      /\ k.applied \in [Nodes -> Selection] /\ k.entry \in [Nodes -> Selection]
      /\ Lined(k.ready, k.life, "ready") /\ Lined(k.deferred, k.life, "deferred")
  BY DEF ClassOK, ClassType
<1>2. CASE ~k.rebalance \/ Size(k.deferred) = 0
  <2> DEFINE r == [k EXCEPT !.rebalance = FALSE]
  <2>1. Unwound(k) = r
    BY <1>2 DEF Unwound
  <2>2. /\ r.ready = k.ready /\ r.deferred = k.deferred /\ r.life = k.life /\ r.applied = k.applied
        /\ r.entry = k.entry /\ r.rebalance = FALSE /\ r \in ClassRecord
    BY DEF ClassRecord
  <2> HIDE DEF r
  <2>3. Size(k.deferred) = 0 => k.deferred.resource = {}
    <3>1. k.deferred.ordinary \in Seq(Nodes) /\ k.deferred.resource \in SUBSET Nodes
      BY <1>1 DEF PendingQueue
    <3>2. IsFiniteSet(k.deferred.resource)
      BY <3>1, DemandAssumption, FS_Subset DEF DemandAssumption
    <3>3. Cardinality(k.deferred.resource) \in Nat /\ (Cardinality(k.deferred.resource) = 0 <=> k.deferred.resource = {})
      BY <3>2, FS_CardinalityType, FS_EmptySet
    <3>4. Len(k.deferred.ordinary) \in Nat
      BY <3>1, Elements
    <3> QED
      BY <3>3, <3>4 DEF Size
  <2>4. InOrder(r)
    BY <1>2, <2>2, <2>3 DEF InOrder, ClassOK
  <2>5. Keyed(r)
    BY <2>2 DEF ClassOK, Keyed, InQueue
  <2>6. ClassOK(r)
    BY <1>1, <2>2, <2>4, <2>5 DEF ClassOK, ClassType
  <2> QED
    BY <2>1, <2>2, <2>6 DEF Goods, Rearranged
<1>3. CASE k.rebalance /\ Size(k.deferred) # 0
  <2> DEFINE back_ == [ordinary |-> k.ready.ordinary \o k.deferred.ordinary,
                       resource |-> k.ready.resource \cup k.deferred.resource]
             r == [ready |-> EmptyQueue, deferred |-> back_,
                   life |-> [n \in Nodes |-> IF k.life[n] = "ready" THEN "deferred" ELSE k.life[n]],
                   applied |-> k.applied,
                   entry |-> [n \in Nodes |-> IF k.life[n] = "ready" THEN k.applied[n] ELSE k.entry[n]],
                   rebalance |-> FALSE]
  <2>1. Unwound(k) = r
    BY <1>3 DEF Unwound, ClassRecord
  <2>2. /\ r.ready = EmptyQueue /\ r.deferred = back_ /\ r.applied = k.applied /\ r.rebalance = FALSE
        /\ \A n \in Nodes : r.life[n] = IF k.life[n] = "ready" THEN "deferred" ELSE k.life[n]
        /\ \A n \in Nodes : r.entry[n] = IF k.life[n] = "ready" THEN k.applied[n] ELSE k.entry[n]
    OBVIOUS
  <2>3. r.life \in [Nodes -> Lives] /\ r.entry \in [Nodes -> Selection]
    BY <1>1 DEF Lives
  <2>4. /\ back_ \in PendingQueue /\ IsInjective(back_.ordinary)
        /\ ToSet(back_.ordinary) = ToSet(k.ready.ordinary) \cup ToSet(k.deferred.ordinary)
    <3>1. /\ k.ready.ordinary \in Seq(Nodes) /\ k.deferred.ordinary \in Seq(Nodes)
          /\ k.ready.resource \in SUBSET Nodes /\ k.deferred.resource \in SUBSET Nodes
      BY <1>1 DEF PendingQueue
    <3>2. ToSet(k.ready.ordinary) \cap ToSet(k.deferred.ordinary) = {}
      BY <1>1 DEF Lined
    <3>3. IsInjective(k.ready.ordinary) /\ IsInjective(k.deferred.ordinary)
      BY <1>1 DEF Lined
    <3> QED
      BY <3>1, <3>2, <3>3, ConcatElements DEF PendingQueue
  <2>5. back_.resource = k.ready.resource \cup k.deferred.resource
    OBVIOUS
  <2>6. EmptyQueue \in PendingQueue /\ EmptyQueue.ordinary = <<>> /\ EmptyQueue.resource = {}
    BY EmptyElements DEF EmptyQueue, PendingQueue
  <2>7. r \in ClassRecord
    BY <1>1, <2>3, <2>4, <2>6 DEF ClassRecord
  <2> HIDE DEF r, back_
  <2>8. \A n \in Nodes : k.life[n] \in {"ready", "deferred"} => r.life[n] = "deferred"
    BY <2>2
  <2>9. Members(k.ready) \subseteq Nodes /\ Members(k.deferred) \subseteq Nodes
    BY QueueKeys
  <2>10. Lined(r.deferred, r.life, "deferred")
    <3>1. ASSUME NEW n \in ToSet(r.deferred.ordinary)
          PROVE  n \in Jobs /\ ~Resource(n) /\ r.life[n] = "deferred"
      BY <1>1, <2>2, <2>4, <2>8, <2>9 DEF Lined, Members
    <3>2. ASSUME NEW n \in r.deferred.resource
          PROVE  Resource(n) /\ r.life[n] = "deferred"
      BY <1>1, <2>2, <2>5, <2>8, <2>9 DEF Lined, Members
    <3> QED
      BY <2>2, <2>4, <3>1, <3>2 DEF Lined
  <2>11. Lined(r.ready, r.life, "ready")
    BY <2>2, <2>6, EmptyElements DEF Lined
  <2>12. InQueue(r) = InQueue(k)
    BY <2>2 DEF InQueue
  <2>13. Keyed(r)
    <3>1. \A n \in InQueue(r) : r.entry[n] = k.applied[n]
      BY <2>2, <2>12 DEF ClassOK, Keyed, InQueue
    <3> QED
      BY <2>2, <2>12, <3>1 DEF ClassOK, Keyed
  <2>14. InOrder(r)
    BY <2>2, <2>6 DEF InOrder
  <2>15. ClassOK(r)
    BY <2>7, <2>10, <2>11, <2>13, <2>14 DEF ClassOK, ClassType, ClassRecord
  <2>16. Rearranged(k, r)
    BY <2>2 DEF Rearranged
  <2> QED
    BY <2>1, <2>7, <2>15, <2>16 DEF Goods
<1> QED
  BY <1>1, <1>2, <1>3 DEF ClassRecord

\* What a record's selection is once the mail has been applied.
After(n) == IF updatesPending /\ n \in Updated THEN mailbox[n] ELSE applied[n]

\* Mail that is applied moves the queued jobs it is for, and asks for a rebuild.
LEMMA ApplyOK ==
  ASSUME StageType, Traced, Ties, Stages, NEW k \in ClassRecord, ClassOK(k), k.applied = applied,
         InQueue(k) \subseteq InQueue(Class)
  PROVE  /\ Apply(k) \in ClassRecord /\ ClassOK(Apply(k)) /\ Apply(k).life = k.life
         /\ \A n \in Nodes : Apply(k).applied[n] = After(n)
<1>1. /\ k.ready \in PendingQueue /\ k.deferred \in PendingQueue /\ k.life \in [Nodes -> Lives]
      /\ applied \in [Nodes -> Selection] /\ k.entry \in [Nodes -> Selection] /\ k.rebalance \in BOOLEAN
      /\ Lined(k.ready, k.life, "ready") /\ Lined(k.deferred, k.life, "deferred")
  BY DEF ClassOK, ClassType
<1>2. CASE ~updatesPending
  BY <1>2 DEF Apply, After
<1>3. CASE updatesPending
  <2> DEFINE moved == {n \in Updated : Queued(k, n)}
             sel == [n \in Nodes |-> IF n \in Updated THEN mailbox[n] ELSE applied[n]]
             r == [ready |-> k.ready, deferred |-> k.deferred, life |-> k.life, applied |-> sel,
                   entry |-> [n \in Nodes |-> IF n \in moved THEN sel[n] ELSE k.entry[n]],
                   rebalance |-> k.rebalance \/ moved # {}]
  <2>1. Apply(k) = r
    BY <1>3 DEF Apply, Rekeyed, ClassRecord
  <2>2. \A n \in Nodes : sel[n] = After(n) /\ sel[n] \in {mailbox[n], applied[n]}
    BY <1>3 DEF After
  <2>3. sel \in [Nodes -> Selection]
    BY <1>1 DEF StageType
  <2>4. r \in ClassRecord
    BY <1>1, <2>3 DEF ClassRecord
  <2>5. /\ r.ready = k.ready /\ r.deferred = k.deferred /\ r.life = k.life /\ r.applied = sel
        /\ r.rebalance = (k.rebalance \/ moved # {})
        /\ \A n \in Nodes : r.entry[n] = IF n \in moved THEN sel[n] ELSE k.entry[n]
    OBVIOUS
  <2>6. InQueue(r) = InQueue(k)
    BY <2>5 DEF InQueue
  <2>7. ASSUME NEW n \in InQueue(k)
        PROVE  /\ n \in Nodes /\ sel[n] \in All(n) /\ sel[n].version > 0
               /\ Resource(n) => sel[n].rank \in Ranks
    <3>1. n \in Nodes /\ life[n] \in {"ready", "deferred"}
      BY <2>7 DEF InQueue, Class
    <3>2. n \in Jobs /\ applied[n].version > 0
      BY <3>1 DEF Stages
    <3>3. mailbox[n] \in Known(n) /\ applied[n] \in Known(n)
      BY DEF Known
    <3>4. applied[n] \in Selection /\ mailbox[n] \in Selection
      BY <1>1, <3>1 DEF StageType
    <3>5. sel[n].version > 0
      BY <3>1, <3>2, <3>4 DEF Updated, Newer, Selection
    <3> QED
      BY <2>2, <3>1, <3>3, <3>5 DEF All, Traced
  <2>8. \A n \in InQueue(k) : r.entry[n] = sel[n]
    <3> SUFFICES ASSUME NEW n \in InQueue(k) PROVE r.entry[n] = sel[n]
      OBVIOUS
    <3>1. n \in Nodes /\ k.entry[n] = applied[n] /\ Queued(k, n)
      BY DEF ClassOK, Keyed, InQueue, Queued
    <3> QED
      BY <2>5, <3>1
  <2>9. \A n, m \in InQueue(k) : n # m => sel[n].tie # sel[m].tie
    BY <2>7 DEF Ties
  <2> HIDE DEF sel
  <2>10. Keyed(r)
    BY <2>5, <2>6, <2>7, <2>8, <2>9 DEF Keyed
  <2>11. InOrder(r)
    <3> SUFFICES ASSUME ~r.rebalance PROVE \A n \in r.ready.resource, m \in r.deferred.resource : Before(r.entry[n], r.entry[m])
      BY DEF InOrder
    <3>1. \A n \in Nodes : r.entry[n] = k.entry[n]
      BY <2>5
    <3>2. ~k.rebalance
      BY <2>5
    <3>3. k.ready.resource \subseteq Nodes /\ k.deferred.resource \subseteq Nodes
      BY <1>1 DEF PendingQueue
    <3> QED
      BY <2>5, <3>1, <3>2, <3>3 DEF ClassOK, InOrder
  <2>12. ClassOK(r)
    BY <1>1, <2>4, <2>5, <2>10, <2>11 DEF ClassOK, ClassType, ClassRecord
  <2> QED
    BY <2>1, <2>2, <2>4, <2>5, <2>12
<1> QED
  BY <1>2, <1>3, <1>1 DEF StageType

LEMMA PromotedOK ==
  ASSUME StageType, Traced, Ties, Stages, NEW k \in ClassRecord, ClassOK(k), k.applied = applied,
         InQueue(k) \subseteq InQueue(Class)
  PROVE  /\ Promoted(k) \in ClassRecord /\ ClassOK(Promoted(k))
         /\ \A n \in Nodes : Promoted(k).applied[n] = After(n)
         /\ \A n \in Nodes : \/ Promoted(k).life[n] = k.life[n]
                             \/ /\ k.life[n] \in {"ready", "deferred"}
                                /\ Promoted(k).life[n] \in {"ready", "deferred", "handed"}
<1> DEFINE a == Apply(k)
           u == Unwound(a)
           p == Refilled(u)
<1>1. a \in ClassRecord /\ ClassOK(a) /\ a.life = k.life /\ \A n \in Nodes : a.applied[n] = After(n)
  BY ApplyOK
<1> HIDE DEF a
<1>2. u \in Goods(a)
  BY <1>1, UnwoundOK
<1> HIDE DEF u
<1>3. p \in Goods(u)
  BY <1>2, RefilledOK DEF Goods
<1> HIDE DEF p
<1>4. Promoted(k) = p
  BY DEF Promoted, a, u, p
<1>5. p \in ClassRecord /\ ClassOK(p) /\ Rearranged(u, p) /\ Rearranged(a, u)
  BY <1>2, <1>3 DEF Goods
<1>6. p.applied = a.applied
  BY <1>5 DEF Rearranged
<1>7. ASSUME NEW n \in Nodes
      PROVE  \/ p.life[n] = a.life[n]
             \/ a.life[n] \in {"ready", "deferred"} /\ p.life[n] \in {"ready", "deferred", "handed"}
  BY <1>5 DEF Rearranged
<1> QED
  BY <1>1, <1>4, <1>5, <1>6, <1>7

\* A job that is claimed or suppressed leaves its queue.
LEMMA LeavesOK ==
  ASSUME NEW k0 \in ClassRecord, ClassOK(k0), NEW n \in Nodes,
         NEW k \in ClassRecord, k.life = [k0.life EXCEPT ![n] = "claimed"],
         k.applied = k0.applied, k.entry = k0.entry,
         k.ready = Without(k0.ready, n) \/ (k.ready = k0.ready /\ k0.life[n] # "ready"),
         k.deferred = Without(k0.deferred, n) \/ (k.deferred = k0.deferred /\ k0.life[n] # "deferred"),
         ~k.rebalance => ~k0.rebalance
  PROVE  ClassOK(k)
<1>1. /\ k0.ready \in PendingQueue /\ k0.deferred \in PendingQueue /\ k0.life \in [Nodes -> Lives]
      /\ Lined(k0.ready, k0.life, "ready") /\ Lined(k0.deferred, k0.life, "deferred")
      /\ IsInjective(k0.ready.ordinary) /\ IsInjective(k0.deferred.ordinary)
  BY DEF ClassOK, ClassType, Lined
<1>2. /\ \A m \in Nodes \ {n} : k.life[m] = k0.life[m]
      /\ \A m \in Nodes : k.life[m] = k0.life[m] \/ (m = n /\ k.life[m] = "claimed")
  BY <1>1
<1>3. Lined(k.ready, k.life, "ready")
  <2>1. CASE k.ready = Without(k0.ready, n)
    BY <1>1, <1>2, <2>1, LinedWithout
  <2>2. CASE k.ready = k0.ready /\ k0.life[n] # "ready"
    <3>1. \A m \in Nodes : k0.life[m] = "ready" => k.life[m] = "ready"
      BY <1>2, <2>2
    <3> QED
      BY <1>1, <2>2, <3>1, LinedKept
  <2> QED
    BY <2>1, <2>2
<1>4. Lined(k.deferred, k.life, "deferred")
  <2>1. CASE k.deferred = Without(k0.deferred, n)
    BY <1>1, <1>2, <2>1, LinedWithout
  <2>2. CASE k.deferred = k0.deferred /\ k0.life[n] # "deferred"
    <3>1. \A m \in Nodes : k0.life[m] = "deferred" => k.life[m] = "deferred"
      BY <1>2, <2>2
    <3> QED
      BY <1>1, <2>2, <3>1, LinedKept
  <2> QED
    BY <2>1, <2>2
<1>5. k.ready.resource \subseteq k0.ready.resource /\ k.deferred.resource \subseteq k0.deferred.resource
  BY <1>1, WithoutMembers
<1>6. InQueue(k) \subseteq InQueue(k0)
  BY <1>2 DEF InQueue
<1>7. Keyed(k)
  BY <1>6 DEF ClassOK, Keyed
<1>8. InOrder(k)
  BY <1>5 DEF ClassOK, InOrder
<1> QED
  BY <1>3, <1>4, <1>7, <1>8 DEF ClassOK, ClassType, ClassRecord

\* A job whose prerequisites are done enters one of the queues.
LEMMA EntersOK ==
  ASSUME NEW k0 \in ClassRecord, ClassOK(k0), NEW n \in Jobs, k0.life[n] = "waiting",
         Resource(n) => k0.applied[n].rank \in Ranks,
         \A m \in InQueue(k0) : m # n => k0.applied[m].tie # k0.applied[n].tie,
         NEW k \in ClassRecord, NEW to \in {"ready", "deferred"}, k.life = [k0.life EXCEPT ![n] = to],
         k.applied = k0.applied, k.entry = [k0.entry EXCEPT ![n] = k0.applied[n]],
         to = "ready" => k.ready = Push(k0.ready, n) /\ k.deferred = k0.deferred,
         to = "deferred" => k.deferred = Push(k0.deferred, n) /\ k.ready = k0.ready,
         ~k.rebalance => ~k0.rebalance /\ to = "deferred" /\ ~Resource(n)
  PROVE  ClassOK(k)
<1>1. /\ k0.ready \in PendingQueue /\ k0.deferred \in PendingQueue /\ k0.life \in [Nodes -> Lives]
      /\ k0.entry \in [Nodes -> Selection]
      /\ Lined(k0.ready, k0.life, "ready") /\ Lined(k0.deferred, k0.life, "deferred")
      /\ IsInjective(k0.ready.ordinary) /\ IsInjective(k0.deferred.ordinary)
  BY DEF ClassOK, ClassType, Lined
<1>2. n \in Nodes
  BY DEF Jobs
<1>3. k.life[n] = to /\ \A m \in Nodes \ {n} : k.life[m] = k0.life[m]
  BY <1>1, <1>2
<1>4. \A s \in {"ready", "deferred"} : \A m \in Nodes : k0.life[m] = s => k.life[m] = s
  BY <1>1, <1>2
<1>5. Lined(k.ready, k.life, "ready")
  <2>1. CASE to = "ready"
    BY <1>1, <1>3, <2>1, LinedPush
  <2>2. CASE to = "deferred"
    BY <1>1, <1>4, <2>2, LinedKept
  <2> QED
    BY <2>1, <2>2
<1>6. Lined(k.deferred, k.life, "deferred")
  <2>1. CASE to = "ready"
    BY <1>1, <1>4, <2>1, LinedKept
  <2>2. CASE to = "deferred"
    BY <1>1, <1>3, <2>2, LinedPush
  <2> QED
    BY <2>1, <2>2
<1>7. /\ InQueue(k) = InQueue(k0) \cup {n} /\ n \notin InQueue(k0)
  BY <1>1, <1>2, <1>3 DEF InQueue
<1>8. /\ k.entry[n] = k0.applied[n] /\ \A m \in Nodes \ {n} : k.entry[m] = k0.entry[m]
  BY <1>1, <1>2
<1>9. InQueue(k0) \subseteq Nodes
  BY DEF InQueue
<1>10. Keyed(k)
  <2>1. \A m \in InQueue(k) : k.entry[m] = k.applied[m]
    BY <1>7, <1>8, <1>9 DEF ClassOK, Keyed
  <2>2. \A m \in InQueue(k) : Resource(m) => k.applied[m].rank \in Ranks
    BY <1>7 DEF ClassOK, Keyed
  <2>3. \A m, o \in InQueue(k) : m # o => k.applied[m].tie # k.applied[o].tie
    BY <1>7 DEF ClassOK, Keyed
  <2> QED
    BY <2>1, <2>2, <2>3 DEF Keyed
<1>11. InOrder(k)
  <2> SUFFICES ASSUME ~k.rebalance, NEW a \in k.ready.resource, NEW b \in k.deferred.resource
               PROVE  Before(k.entry[a], k.entry[b])
    BY DEF InOrder
  <2>1. n \notin Members(k0.deferred)
    BY <1>1 DEF Lined, Members
  <2>2. k.ready.resource = k0.ready.resource /\ k.deferred.resource = k0.deferred.resource
    BY <1>1, <1>2, <2>1, PushMembers
  <2>3. a \in Nodes \ {n} /\ b \in Nodes \ {n}
    BY <1>1, <2>2 DEF Lined, PendingQueue
  <2>4. Before(k0.entry[a], k0.entry[b])
    BY <2>2 DEF ClassOK, InOrder
  <2> QED
    BY <1>8, <2>3, <2>4
<1> QED
  BY <1>5, <1>6, <1>10, <1>11 DEF ClassOK, ClassType, ClassRecord

\* Entries of jobs that are not queued any more are dropped.
LEMMA SetClassOK ==
  ASSUME NEW k \in ClassRecord, ClassOK(k), SetClass(k)
  PROVE  ClassOK(Class)'
<1>1. /\ ready' = k.ready /\ deferred' = k.deferred /\ life' = k.life /\ applied' = k.applied
      /\ rebalance' = k.rebalance
      /\ entry' = [n \in Nodes |-> IF Queued(k, n) THEN k.entry[n] ELSE NoSelection]
  BY DEF SetClass
<1> DEFINE new == [ready |-> k.ready, deferred |-> k.deferred, life |-> k.life, applied |-> k.applied,
                   entry |-> entry', rebalance |-> k.rebalance]
<1>2. Class' = new
  BY <1>1 DEF Class
<1>3. new.ready = k.ready /\ new.deferred = k.deferred /\ new.life = k.life /\ new.applied = k.applied
      /\ new.entry = entry' /\ new.rebalance = k.rebalance
  OBVIOUS
<1>4. NoSelection \in Selection
  BY DEF NoSelection, Selection
<1>5. \A n \in Nodes : k.entry[n] \in Selection
  BY DEF ClassRecord
<1>6. entry' \in [Nodes -> Selection]
  BY <1>1, <1>4, <1>5
<1>7. new \in ClassRecord
  BY <1>6 DEF ClassRecord
<1> HIDE DEF new
<1>8. InQueue(new) = InQueue(k) /\ \A n \in InQueue(k) : n \in Nodes /\ new.entry[n] = k.entry[n]
  BY <1>1, <1>3 DEF InQueue, Queued
<1>9. Keyed(new)
  BY <1>3, <1>8 DEF ClassOK, Keyed
<1>10. /\ \A n \in k.ready.resource : n \in InQueue(k)
       /\ \A n \in k.deferred.resource : n \in InQueue(k)
  <2>1. Members(k.ready) \subseteq Nodes /\ Members(k.deferred) \subseteq Nodes
    BY QueueKeys
  <2> QED
    BY <2>1 DEF ClassOK, Lined, InQueue, Members
<1>11. InOrder(new)
  BY <1>3, <1>8, <1>10 DEF ClassOK, InOrder
<1>12. ClassOK(new)
  BY <1>3, <1>7, <1>9, <1>11 DEF ClassOK, ClassType, ClassRecord
<1> QED
  BY <1>2, <1>12

\* A step that leaves the queues and the queued jobs alone.
LEMMA ClassKept ==
  ASSUME ClassOK(Class), UNCHANGED <<ready, deferred, rebalance, entry>>,
         life' \in [Nodes -> Lives], applied' \in [Nodes -> Selection],
         \A n \in Nodes : life[n] \in {"ready", "deferred"} \/ life'[n] \in {"ready", "deferred"}
                            => life'[n] = life[n] /\ applied'[n] = applied[n]
  PROVE  ClassOK(Class)'
<1> DEFINE k == Class
           new == [ready |-> ready, deferred |-> deferred, life |-> life', applied |-> applied',
                   entry |-> entry, rebalance |-> rebalance]
<1>1. Class' = new
  BY DEF Class
<1>2. /\ new.ready = k.ready /\ new.deferred = k.deferred /\ new.entry = k.entry /\ new.rebalance = k.rebalance
      /\ new.life = life' /\ new.applied = applied' /\ k.life = life /\ k.applied = applied
  BY DEF Class
<1> HIDE DEF new, k
<1>3. ClassOK(k)
  BY DEF k
<1>4. InQueue(new) = InQueue(k) /\ \A n \in InQueue(k) : new.applied[n] = k.applied[n]
  BY <1>2 DEF InQueue
<1>5. Keyed(new)
  BY <1>2, <1>3, <1>4 DEF ClassOK, Keyed
<1>6. InOrder(new)
  BY <1>2, <1>3 DEF ClassOK, InOrder
<1>7. k.ready \in PendingQueue /\ k.deferred \in PendingQueue
  BY <1>3 DEF ClassOK, ClassType
<1>8. Lined(new.ready, new.life, "ready")
  BY <1>2, <1>3, <1>7, LinedKept DEF ClassOK
<1>9. Lined(new.deferred, new.life, "deferred")
  BY <1>2, <1>3, <1>7, LinedKept DEF ClassOK
<1>10. ClassType(new)
  BY <1>2, <1>3 DEF ClassOK, ClassType
<1> QED
  BY <1>1, <1>5, <1>6, <1>8, <1>9, <1>10 DEF ClassOK

\* What a step of the class does: jobs advance, and the mail is applied or left alone.
Advanced ==
  \A n \in Nodes : \/ life'[n] = life[n]
                   \/ /\ n \in Jobs /\ life[n] \in {"waiting", "ready", "deferred", "handed"}
                      /\ life'[n] \in {"ready", "deferred", "handed", "claimed"}

Fetched ==
  /\ mailbox' = IF updatesPending THEN [n \in Nodes |-> NoSelection] ELSE mailbox
  /\ updatesPending' = FALSE
  /\ \A n \in Nodes : applied'[n] = After(n)

ClassStep ==
  /\ Advanced /\ life' \in [Nodes -> Lives] /\ applied' \in [Nodes -> Selection]
  /\ Fetched \/ UNCHANGED <<mailbox, updatesPending, applied>>
  /\ UNCHANGED <<graphVars, demandPending, threadVars, done, copy, bindingVars, present, reading, commands>>

LEMMA ClassIsRecord ==
  ASSUME ClassOK(Class)
  PROVE  /\ Class \in ClassRecord /\ InQueue(Class) = {n \in Nodes : life[n] \in {"ready", "deferred"}}
         /\ Class.ready = ready /\ Class.deferred = deferred /\ Class.life = life /\ Class.applied = applied
         /\ Class.entry = entry /\ Class.rebalance = rebalance
         /\ life \in [Nodes -> Lives] /\ applied \in [Nodes -> Selection] /\ entry \in [Nodes -> Selection]
         /\ ready \in PendingQueue /\ deferred \in PendingQueue /\ rebalance \in BOOLEAN
BY DEF ClassOK, ClassType, Class, ClassRecord, InQueue

\* Promotion after a job has left its queue, or none has.
LEMMA PromotionStep ==
  ASSUME StageType, Traced, Ties, Stages, NEW k \in ClassRecord, ClassOK(k), k.applied = applied,
         \A n \in Nodes : \/ k.life[n] = life[n]
                          \/ /\ n \in Jobs /\ life[n] \in {"waiting", "ready", "deferred", "handed"}
                             /\ k.life[n] = "claimed",
         NEW p \in ClassRecord, p \in Goods(Promoted(k)), SetClass(p), FetchMail
  PROVE  /\ ClassOK(Class)' /\ Advanced /\ Fetched
         /\ life' \in [Nodes -> Lives] /\ applied' \in [Nodes -> Selection]
<1>1. InQueue(k) \subseteq InQueue(Class)
  BY DEF InQueue, Class
<1> DEFINE q == Promoted(k)
<1>2. /\ q \in ClassRecord /\ ClassOK(q)
      /\ \A n \in Nodes : q.applied[n] = After(n)
      /\ \A n \in Nodes : \/ q.life[n] = k.life[n]
                          \/ /\ k.life[n] \in {"ready", "deferred"}
                             /\ q.life[n] \in {"ready", "deferred", "handed"}
  BY <1>1, PromotedOK
<1>3. ClassOK(p) /\ Rearranged(q, p)
  BY DEF Goods
<1> HIDE DEF q
<1>4. ClassOK(Class)'
  BY <1>3, SetClassOK
<1>5. life' = p.life /\ applied' = p.applied
  BY DEF SetClass
<1>6. p.life \in [Nodes -> Lives] /\ p.applied \in [Nodes -> Selection]
  BY DEF ClassRecord
<1>7. \A n \in Nodes : p.applied[n] = After(n)
  BY <1>2, <1>3 DEF Rearranged
<1>8. ASSUME NEW n \in Nodes
      PROVE  \/ life'[n] = life[n]
             \/ /\ n \in Jobs /\ life[n] \in {"waiting", "ready", "deferred", "handed"}
                /\ life'[n] \in {"ready", "deferred", "handed", "claimed"}
  <2>1. \/ p.life[n] = q.life[n]
        \/ q.life[n] \in {"ready", "deferred"} /\ p.life[n] \in {"ready", "deferred", "handed"}
    BY <1>3 DEF Rearranged
  <2>2. \/ p.life[n] = k.life[n]
        \/ k.life[n] \in {"ready", "deferred"} /\ p.life[n] \in {"ready", "deferred", "handed"}
    BY <2>1, <1>2
  <2>3. k.life[n] \in {"ready", "deferred"} => k.life[n] = life[n] /\ n \in Jobs
    BY DEF Stages
  <2> QED
    BY <1>5, <2>2, <2>3
<1>9. Fetched
  BY <1>5, <1>7 DEF FetchMail, Fetched
<1> QED
  BY <1>4, <1>5, <1>6, <1>8, <1>9 DEF Advanced

\* A job that goes straight into a queue, or out of one without a promotion.
LEMMA PlainStep ==
  ASSUME NEW k \in ClassRecord, ClassOK(k), k.applied = applied, SetClass(k),
         \A n \in Nodes : \/ k.life[n] = life[n]
                          \/ /\ n \in Jobs /\ life[n] \in {"waiting", "ready", "deferred", "handed"}
                             /\ k.life[n] \in {"ready", "deferred", "claimed"}
  PROVE  /\ ClassOK(Class)' /\ Advanced /\ applied' = applied
         /\ life' \in [Nodes -> Lives] /\ applied' \in [Nodes -> Selection]
<1>1. ClassOK(Class)'
  BY SetClassOK
<1>2. life' = k.life /\ applied' = applied
  BY DEF SetClass
<1> QED
  BY <1>1, <1>2 DEF Advanced, ClassRecord

LEMMA ActivateStep ==
  ASSUME StageType, Traced, Ties, Stages, ClassOK(Class), NEW n \in Nodes, Activate(n)
  PROVE  ClassStep /\ ClassOK(Class)'
<1>1. n \in Jobs /\ life[n] = "waiting"
  BY DEF Activate
<1>2. applied[n] \in All(n) /\ \A m \in Nodes : applied[m] \in All(m) /\ applied[m] \in Known(m)
  BY DEF All, Known
<1>3. /\ Class \in ClassRecord /\ InQueue(Class) = {m \in Nodes : life[m] \in {"ready", "deferred"}}
      /\ Class.ready = ready /\ Class.deferred = deferred /\ Class.life = life /\ Class.applied = applied
      /\ Class.entry = entry /\ Class.rebalance = rebalance
      /\ life \in [Nodes -> Lives] /\ applied \in [Nodes -> Selection] /\ entry \in [Nodes -> Selection]
      /\ ready \in PendingQueue /\ deferred \in PendingQueue /\ rebalance \in BOOLEAN
  BY ClassIsRecord
<1>4. applied[n].version > 0 /\ \A m \in InQueue(Class) : applied[m].version > 0
  BY <1>1, <1>3 DEF Stages
<1>5. Resource(n) => applied[n].rank \in Ranks
  BY <1>2, <1>4 DEF Traced
<1>6. \A m \in InQueue(Class) : m # n => applied[m].tie # applied[n].tie
  BY <1>2, <1>3, <1>4 DEF Ties
<1>7. n \notin Members(ready) \cup Members(deferred) /\ IsInjective(ready.ordinary) /\ IsInjective(deferred.ordinary)
  BY <1>1, <1>3 DEF ClassOK, Lined, Members
<1>8. Push(ready, n) \in PendingQueue /\ Push(deferred, n) \in PendingQueue
  BY <1>3, <1>7, PushMembers
<1>9. UNCHANGED <<graphVars, flagVars, threadVars, done, copy, handedOff, bindingVars, reading, commands, present>>
  BY DEF Activate
<1>10. ASSUME NEW s \in {"ready", "deferred"}, NEW k \in ClassRecord,
              k.life = [life EXCEPT ![n] = s], k.applied = applied, k.entry = [entry EXCEPT ![n] = applied[n]],
              s = "ready" => k.ready = Push(ready, n) /\ k.deferred = deferred,
              s = "deferred" => k.deferred = Push(deferred, n) /\ k.ready = ready,
              ~k.rebalance => ~rebalance /\ s = "deferred" /\ ~Resource(n),
              SetClass(k)
       PROVE  ClassStep /\ ClassOK(Class)'
  <2>5. ClassOK(k)
    <3> DEFINE k0 == Class
    <3>1. k0 \in ClassRecord /\ ClassOK(k0) /\ k0.life[n] = "waiting"
      BY <1>1, <1>3
    <3>2. Resource(n) => k0.applied[n].rank \in Ranks
      BY <1>3, <1>5
    <3>3. \A m \in InQueue(k0) : m # n => k0.applied[m].tie # k0.applied[n].tie
      BY <1>3, <1>6
    <3>4. /\ k.life = [k0.life EXCEPT ![n] = s] /\ k.applied = k0.applied
          /\ k.entry = [k0.entry EXCEPT ![n] = k0.applied[n]]
      BY <1>3, <1>10
    <3>5. /\ s = "ready" => k.ready = Push(k0.ready, n) /\ k.deferred = k0.deferred
          /\ s = "deferred" => k.deferred = Push(k0.deferred, n) /\ k.ready = k0.ready
          /\ ~k.rebalance => ~k0.rebalance /\ s = "deferred" /\ ~Resource(n)
      BY <1>3, <1>10
    <3> HIDE DEF k0
    <3> QED
      <4>1. k0.life[n] = "waiting" /\ n \in Jobs
        BY <1>1, <3>1
      <4>2. k \in ClassRecord /\ s \in {"ready", "deferred"}
        BY <1>10
      <4> QED
        BY <3>1, <3>2, <3>3, <3>4, <3>5, <4>1, <4>2, EntersOK
  <2>6. \A m \in Nodes : \/ k.life[m] = life[m]
                         \/ /\ m \in Jobs /\ life[m] \in {"waiting", "ready", "deferred", "handed"}
                            /\ k.life[m] \in {"ready", "deferred", "claimed"}
    BY <1>1, <1>3, <1>10
  <2>7. /\ ClassOK(Class)' /\ Advanced /\ applied' = applied
        /\ life' \in [Nodes -> Lives] /\ applied' \in [Nodes -> Selection]
    BY <1>10, <2>5, <2>6, PlainStep
  <2> QED
    BY <1>9, <2>7 DEF ClassStep, flagVars
<1>11. CASE RunnableIn(Class) < Runnable
  <2> DEFINE k == [Class EXCEPT !.life[n] = "ready", !.ready = Push(@, n), !.entry[n] = applied[n],
                                !.rebalance = TRUE]
  <2>1. /\ k.life = [Class.life EXCEPT ![n] = "ready"] /\ k.applied = Class.applied
        /\ k.entry = [Class.entry EXCEPT ![n] = applied[n]]
        /\ k.ready = Push(Class.ready, n) /\ k.deferred = Class.deferred /\ k.rebalance = TRUE
    BY <1>3 DEF ClassRecord
  <2>2. k.life \in [Nodes -> Lives] /\ k.entry \in [Nodes -> Selection]
    BY <1>1, <1>3, <2>1 DEF Lives, Jobs
  <2>3. k \in ClassRecord
    BY <1>3, <1>8, <2>1, <2>2 DEF ClassRecord
  <2>4. SetClass(k)
    BY <1>11 DEF Activate
  <2> HIDE DEF k
  <2> QED
    BY <1>3, <1>10, <2>1, <2>3, <2>4
<1>12. CASE ~(RunnableIn(Class) < Runnable)
  <2> DEFINE k == [Class EXCEPT !.life[n] = "deferred", !.deferred = Push(@, n), !.entry[n] = applied[n],
                                !.rebalance = @ \/ Resource(n) \/ HasResources(ready) \/ HasResources(deferred)]
             b == rebalance \/ Resource(n) \/ HasResources(ready) \/ HasResources(deferred)
  <2>1. /\ k.life = [Class.life EXCEPT ![n] = "deferred"] /\ k.applied = Class.applied
        /\ k.entry = [Class.entry EXCEPT ![n] = applied[n]]
        /\ k.deferred = Push(Class.deferred, n) /\ k.ready = Class.ready
    BY <1>3 DEF ClassRecord
  <2>2. k.life \in [Nodes -> Lives] /\ k.entry \in [Nodes -> Selection]
    BY <1>1, <1>3, <2>1 DEF Lives, Jobs
  <2>3. k.rebalance = (Class.rebalance \/ Resource(n) \/ HasResources(ready) \/ HasResources(deferred))
    BY <1>3 DEF ClassRecord
  <2>4. b \in BOOLEAN /\ (~b => ~rebalance /\ ~Resource(n))
    OBVIOUS
  <2>5. k.rebalance = b
    BY <1>3, <2>3
  <2>6. k \in ClassRecord
    BY <1>3, <1>8, <2>1, <2>2, <2>4, <2>5 DEF ClassRecord
  <2>7. SetClass(k)
    BY <1>12 DEF Activate
  <2> HIDE DEF k, b
  <2> QED
    BY <1>3, <1>10, <2>1, <2>4, <2>5, <2>6, <2>7
<1> QED
  BY <1>11, <1>12

LEMMA DispatchStep ==
  ASSUME StageType, Traced, Ties, Stages, ClassOK(Class), Dispatch
  PROVE  ClassStep /\ ClassOK(Class)' /\ handedOff' \subseteq Nodes
<1> DEFINE k == Class
           q == Promoted(k)
           p == Handover(q)
<1>1. /\ SetClass(p) /\ FetchMail /\ handedOff' = handedOff \cup {n \in Nodes : p.life[n] = "handed"}
      /\ UNCHANGED <<graphVars, demandPending, threadVars, done, copy, bindingVars, reading, commands, present>>
  BY DEF Dispatch
<1>2. k \in ClassRecord /\ ClassOK(k) /\ k.applied = applied /\ k.life = life
  BY ClassIsRecord
<1> HIDE DEF k
<1>3. InQueue(k) \subseteq InQueue(Class)
  BY DEF k
<1>4. q \in ClassRecord /\ ClassOK(q)
  BY <1>2, <1>3, PromotedOK
<1>5. p \in Goods(q)
  <2> HIDE DEF q
  <2> QED
    BY <1>4, HandoverOK DEF StageType
<1>6. p \in ClassRecord
  BY <1>5 DEF Goods
<1> HIDE DEF p
<1>7. /\ ClassOK(Class)' /\ Advanced /\ Fetched
      /\ life' \in [Nodes -> Lives] /\ applied' \in [Nodes -> Selection]
  BY <1>1, <1>2, <1>5, <1>6, PromotionStep
<1> QED
  BY <1>1, <1>7 DEF ClassStep, StageType

\* A job is claimed or suppressed: k is the class without it.
LEMMA LeavingStep ==
  ASSUME StageType, Traced, Ties, Stages, ClassOK(Class), NEW n \in Jobs,
         life[n] \in {"waiting", "ready", "deferred", "handed"},
         NEW k \in ClassRecord, k.life = [life EXCEPT ![n] = "claimed"], k.applied = applied, k.entry = entry,
         k.ready = Without(ready, n) \/ (k.ready = ready /\ life[n] # "ready"),
         k.deferred = Without(deferred, n) \/ (k.deferred = deferred /\ life[n] # "deferred"),
         ~k.rebalance => ~rebalance,
         \/ SetClass(Promoted(k)) /\ FetchMail
         \/ SetClass(k) /\ UNCHANGED <<mailbox, updatesPending>>,
         UNCHANGED <<graphVars, demandPending, threadVars, done, copy, bindingVars, present, reading, commands>>
  PROVE  ClassStep /\ ClassOK(Class)'
<1>1. n \in Nodes
  BY DEF Jobs
<1>2. ClassOK(k)
  <2> DEFINE k0 == Class
  <2>1. /\ k0 \in ClassRecord /\ k0.ready = ready /\ k0.deferred = deferred /\ k0.life = life
        /\ k0.applied = applied /\ k0.entry = entry /\ k0.rebalance = rebalance /\ ClassOK(k0)
    BY ClassIsRecord
  <2> HIDE DEF k0
  <2>2. k.life = [k0.life EXCEPT ![n] = "claimed"] /\ k.applied = k0.applied /\ k.entry = k0.entry
    BY <2>1
  <2>3. k.ready = Without(k0.ready, n) \/ (k.ready = k0.ready /\ k0.life[n] # "ready")
    BY <2>1
  <2>4. k.deferred = Without(k0.deferred, n) \/ (k.deferred = k0.deferred /\ k0.life[n] # "deferred")
    BY <2>1
  <2>5. ~k.rebalance => ~k0.rebalance
    BY <2>1
  <2> QED
    BY <1>1, <2>1, <2>2, <2>3, <2>4, <2>5, LeavesOK
<1>3. life \in [Nodes -> Lives]
  BY ClassIsRecord
<1>4. \A m \in Nodes : \/ k.life[m] = life[m]
                       \/ /\ m \in Jobs /\ life[m] \in {"waiting", "ready", "deferred", "handed"}
                          /\ k.life[m] = "claimed"
  BY <1>1, <1>3
<1>5. CASE SetClass(Promoted(k)) /\ FetchMail
  <2> DEFINE p == Promoted(k)
  <2>1. InQueue(k) \subseteq InQueue(Class)
    BY <1>4 DEF InQueue, Class
  <2>2. p \in ClassRecord /\ ClassOK(p)
    BY <1>2, <2>1, PromotedOK
  <2>3. p \in Goods(p)
    <3> HIDE DEF p
    <3> QED
      BY <2>2 DEF Goods, Rearranged
  <2>4. /\ ClassOK(Class)' /\ Advanced /\ Fetched
        /\ life' \in [Nodes -> Lives] /\ applied' \in [Nodes -> Selection]
    BY <1>2, <1>4, <1>5, <2>2, <2>3, PromotionStep
  <2> QED
    BY <2>4 DEF ClassStep
<1>6. CASE SetClass(k) /\ UNCHANGED <<mailbox, updatesPending>>
  <2>1. /\ ClassOK(Class)' /\ Advanced /\ applied' = applied
        /\ life' \in [Nodes -> Lives] /\ applied' \in [Nodes -> Selection]
    BY <1>2, <1>4, <1>6, PlainStep
  <2> QED
    BY <1>6, <2>1 DEF ClassStep
<1> QED
  BY <1>5, <1>6

\* The class's view of a job that has been taken out of the ready window or of none.
LEMMA TakenRecord ==
  ASSUME ClassOK(Class), NEW n \in Jobs
  PROVE  /\ [Class EXCEPT !.life[n] = "claimed"] \in ClassRecord
         /\ OutOfReady([Class EXCEPT !.life[n] = "claimed"], n) \in ClassRecord
         /\ [OutOfReady(Class, n) EXCEPT !.life[n] = "claimed"] \in ClassRecord
<1> DEFINE k == [Class EXCEPT !.life[n] = "claimed"]
           o == OutOfReady(k, n)
           u == OutOfReady(Class, n)
           v == [u EXCEPT !.life[n] = "claimed"]
<1>1. /\ Class \in ClassRecord /\ Class.life = life /\ life \in [Nodes -> Lives] /\ n \in Nodes
  BY ClassIsRecord DEF Jobs
<1>2. IsInjective(Class.ready.ordinary) /\ Class.ready \in PendingQueue
  BY DEF ClassOK, Lined, ClassType
<1>3. Without(Class.ready, n) \in PendingQueue
  BY <1>2, WithoutMembers
<1>4. ASSUME NEW g \in ClassRecord PROVE [g EXCEPT !.life[n] = "claimed"] \in ClassRecord
  <2> DEFINE r == [g EXCEPT !.life[n] = "claimed"]
  <2>1. [g.life EXCEPT ![n] = "claimed"] \in [Nodes -> Lives]
    BY <1>1 DEF ClassRecord, Lives
  <2>2. r = [ready |-> g.ready, deferred |-> g.deferred, life |-> [g.life EXCEPT ![n] = "claimed"],
             applied |-> g.applied, entry |-> g.entry, rebalance |-> g.rebalance]
    BY DEF ClassRecord
  <2> HIDE DEF r
  <2> QED
    BY <2>1, <2>2 DEF r, ClassRecord
<1>5. ASSUME NEW g \in ClassRecord, g.ready = Class.ready PROVE OutOfReady(g, n) \in ClassRecord
  <2> DEFINE b == g.rebalance \/ (Peek(g.ready, g.entry) # n /\ (HasResources(g.ready) \/ HasResources(g.deferred)))
             r == [g EXCEPT !.ready = Without(@, n),
                     !.rebalance = @ \/ (Peek(g.ready, g.entry) # n
                                           /\ (HasResources(g.ready) \/ HasResources(g.deferred)))]
  <2>1. OutOfReady(g, n) = r
    BY DEF OutOfReady
  <2>2. /\ r.ready = Without(g.ready, n) /\ r.deferred = g.deferred /\ r.life = g.life
        /\ r.applied = g.applied /\ r.entry = g.entry
    BY DEF ClassRecord
  <2>3. r.rebalance = b
    BY DEF ClassRecord
  <2>4. b \in BOOLEAN
    OBVIOUS
  <2> HIDE DEF b
  <2>5. r \in ClassRecord
    BY <1>3, <1>5, <2>2, <2>3, <2>4 DEF ClassRecord
  <2> QED
    BY <2>1, <2>5
<1>6. k \in ClassRecord /\ k.ready = Class.ready
  <2>1. k \in ClassRecord
    BY <1>1, <1>4
  <2>2. k.ready = Class.ready
    BY <1>1 DEF ClassRecord
  <2> QED
    BY <2>1, <2>2
<1>7. o \in ClassRecord
  <2> HIDE DEF k
  <2> QED
    BY <1>5, <1>6
<1>8. u \in ClassRecord
  BY <1>1, <1>5
<1>9. v \in ClassRecord
  <2> HIDE DEF u
  <2> QED
    BY <1>4, <1>8
<1> QED
  BY <1>6, <1>7, <1>9

LEMMA ClaimStep ==
  ASSUME StageType, Traced, Ties, Stages, ClassOK(Class), NEW n \in Nodes, Claim(n)
  PROVE  ClassStep /\ ClassOK(Class)'
<1>1. life[n] \in {"ready", "handed"} /\ n \in Jobs
  BY DEF Claim, Stages
<1>2. /\ Class \in ClassRecord /\ Class.life = life /\ Class.ready = ready /\ Class.deferred = deferred
      /\ Class.applied = applied /\ Class.entry = entry /\ Class.rebalance = rebalance
  BY ClassIsRecord
<1>3. /\ FetchMail
      /\ UNCHANGED <<graphVars, demandPending, threadVars, done, copy, bindingVars, present, reading, commands>>
  BY DEF Claim
<1>4. CASE life[n] = "ready"
  <2> DEFINE u == OutOfReady(Class, n)
             k == [u EXCEPT !.life[n] = "claimed"]
  <2>1. SetClass(Promoted(k))
    BY <1>4 DEF Claim
  <2>2. k \in ClassRecord
    BY <1>1, TakenRecord
  <2>3. /\ u.life = life /\ u.ready = Without(ready, n) /\ u.deferred = deferred /\ u.applied = applied
        /\ u.entry = entry /\ (rebalance => u.rebalance)
    BY <1>2 DEF OutOfReady, ClassRecord
  <2>4. /\ k.life = [u.life EXCEPT ![n] = "claimed"] /\ k.ready = u.ready /\ k.deferred = u.deferred
        /\ k.applied = u.applied /\ k.entry = u.entry /\ k.rebalance = u.rebalance
    BY <1>2 DEF OutOfReady, ClassRecord
  <2> HIDE DEF k, u
  <2> QED
    BY <1>1, <1>3, <1>4, <2>1, <2>2, <2>3, <2>4, LeavingStep
<1>5. CASE life[n] = "handed"
  <2> DEFINE k == [Class EXCEPT !.life[n] = "claimed"]
  <2>1. SetClass(Promoted(k))
    BY <1>5 DEF Claim
  <2>2. k \in ClassRecord
    BY <1>1, TakenRecord
  <2>3. /\ k.life = [life EXCEPT ![n] = "claimed"] /\ k.ready = ready /\ k.deferred = deferred
        /\ k.applied = applied /\ k.entry = entry /\ k.rebalance = rebalance
    BY <1>2 DEF ClassRecord
  <2> HIDE DEF k
  <2> QED
    BY <1>1, <1>3, <1>5, <2>1, <2>2, <2>3, LeavingStep
<1> QED
  BY <1>1, <1>4, <1>5

LEMMA SuppressStep ==
  ASSUME StageType, Traced, Ties, Stages, ClassOK(Class), NEW n \in Nodes, Suppress(n)
  PROVE  ClassStep /\ ClassOK(Class)'
<1>1. life[n] \in {"waiting", "ready", "deferred", "handed"} /\ n \in Jobs
  BY DEF Suppress
<1>2. /\ Class \in ClassRecord /\ Class.life = life /\ Class.ready = ready /\ Class.deferred = deferred
      /\ Class.applied = applied /\ Class.entry = entry /\ Class.rebalance = rebalance
  BY ClassIsRecord
<1> DEFINE k == [Class EXCEPT !.life[n] = "claimed"]
<1>3. UNCHANGED <<graphVars, demandPending, threadVars, done, copy, bindingVars, present, reading, commands>>
  BY DEF Suppress
<1>4. k \in ClassRecord
  BY <1>1, TakenRecord
<1>5. /\ k.life = [life EXCEPT ![n] = "claimed"] /\ k.ready = ready /\ k.deferred = deferred
      /\ k.applied = applied /\ k.entry = entry /\ k.rebalance = rebalance
  BY <1>2 DEF ClassRecord
<1>6. CASE life[n] = "ready"
  <2> DEFINE o == OutOfReady(k, n)
  <2>1. SetClass(Promoted(o)) /\ FetchMail
    BY <1>6 DEF Suppress
  <2>2. o \in ClassRecord
    BY <1>1, TakenRecord
  <2> HIDE DEF k
  <2>3. /\ o.life = k.life /\ o.ready = Without(k.ready, n) /\ o.deferred = k.deferred /\ o.applied = k.applied
        /\ o.entry = k.entry /\ (k.rebalance => o.rebalance)
    BY <1>4 DEF OutOfReady, ClassRecord
  <2> HIDE DEF o
  <2> QED
    BY <1>1, <1>3, <1>5, <1>6, <2>1, <2>2, <2>3, LeavingStep
<1>7. CASE life[n] = "handed"
  <2>1. SetClass(Promoted(k)) /\ FetchMail
    BY <1>7 DEF Suppress
  <2> HIDE DEF k
  <2> QED
    BY <1>1, <1>3, <1>4, <1>5, <1>7, <2>1, LeavingStep
<1>8. CASE life[n] = "deferred"
  <2> DEFINE b == rebalance \/ Resource(n) \/ HasResources(ready) \/ HasResources(Without(deferred, n))
             d == [k EXCEPT !.deferred = Without(@, n),
                            !.rebalance = @ \/ Resource(n) \/ HasResources(ready)
                                            \/ HasResources(Without(deferred, n))]
  <2>1. SetClass(d) /\ UNCHANGED <<mailbox, updatesPending>>
    BY <1>8 DEF Suppress
  <2>2. Without(deferred, n) \in PendingQueue
    <3>1. IsInjective(deferred.ordinary) /\ deferred \in PendingQueue
      BY <1>2 DEF ClassOK, Lined, ClassType
    <3> QED
      BY <3>1, WithoutMembers
  <2> HIDE DEF k
  <2>3. /\ d.ready = k.ready /\ d.deferred = Without(k.deferred, n) /\ d.life = k.life
        /\ d.applied = k.applied /\ d.entry = k.entry
    BY <1>4, <1>5 DEF ClassRecord
  <2>4. d.rebalance = (k.rebalance \/ Resource(n) \/ HasResources(ready) \/ HasResources(Without(deferred, n)))
    BY <1>4 DEF ClassRecord
  <2>5. b \in BOOLEAN /\ (~b => ~rebalance)
    OBVIOUS
  <2>6. d.rebalance = b
    BY <1>5, <2>4
  <2> HIDE DEF b
  <2>7. d \in ClassRecord
    BY <1>4, <1>5, <2>2, <2>3, <2>5, <2>6 DEF ClassRecord
  <2> HIDE DEF d
  <2>8. /\ d.life = k.life /\ d.ready = ready /\ d.deferred = Without(deferred, n) /\ d.applied = applied
        /\ d.entry = entry
    BY <1>5, <2>3
  <2> QED
    BY <1>1, <1>3, <1>5, <1>8, <2>1, <2>5, <2>6, <2>7, <2>8, LeavingStep
<1>9. CASE life[n] = "waiting"
  <2>1. SetClass(k) /\ UNCHANGED <<mailbox, updatesPending>>
    BY <1>9 DEF Suppress
  <2> HIDE DEF k
  <2> QED
    BY <1>1, <1>3, <1>4, <1>5, <1>9, <2>1, LeavingStep
<1> QED
  BY <1>1, <1>6, <1>7, <1>8, <1>9

-----------------------------------------------------------------------------
(* The graph, step by step *)

GraphOK == GraphType /\ Placed /\ CleanIsCurrent

\* The prerequisites that are there are other nodes.
LEMMA ParentsAreOthers ==
  ASSUME NEW n \in Nodes
  PROVE  Parents(n) \subseteq nodes /\ n \notin Parents(n) /\ n \notin Prereqs[n] /\ Prereqs[n] \subseteq Nodes
<1>1. Prereqs[n] \subseteq Nodes /\ \A m \in Prereqs[n] : m < n
  BY DemandAssumption DEF DemandAssumption
<1>2. n \in Nat
  BY DemandAssumption DEF DemandAssumption
<1>3. ~(n < n)
  BY <1>2
<1> QED
  BY <1>1, <1>3 DEF Parents

LEMMA GraphKept ==
  ASSUME GraphOK, UNCHANGED graphVars,
         \A n \in Nodes : life'[n] \in {"none", "admitted", "gone"} <=> life[n] \in {"none", "admitted", "gone"}
  PROVE  GraphOK'
<1>1. UNCHANGED <<nodes, dirty, selection, shown, interest, rank, front, back>>
  BY DEF graphVars
<1>2. GraphType'
  BY <1>1 DEF GraphOK, GraphType
<1>3. Placed'
  <2>1. \A n \in Nodes : n \in nodes' <=> life'[n] \notin {"none", "admitted", "gone"}
    BY <1>1 DEF GraphOK, Placed
  <2> QED
    BY <1>1, <2>1 DEF GraphOK, Placed
<1>4. CleanIsCurrent'
  <2> SUFFICES ASSUME NEW n \in nodes, n \notin ToSet(dirty)
               PROVE  shown[n] = selection[n].tie
                      /\ Aggregate(n, selection)' = [rank |-> selection[n].rank, active |-> selection[n].active]
    BY <1>1 DEF CleanIsCurrent
  <2>1. Children(n)' = Children(n) /\ Attached(n)' = Attached(n)
    BY <1>1 DEF Children, Attached
  <2>2. Aggregate(n, selection)' = Aggregate(n, selection)
    BY <1>1, <2>1, AggregateKept
  <2> QED
    BY <2>2 DEF GraphOK, CleanIsCurrent
<1> QED
  BY <1>2, <1>3, <1>4 DEF GraphOK

\* A step with a lease: its node gets dirty, and maybe a new tie.
LeaseStep(c) ==
  /\ Wants[c] \in nodes /\ dirty' = Marked(dirty, {Wants[c]}) /\ demandPending' = TRUE
  /\ interest' \in [Consumers -> Lease \cup {"none", "gone"}] /\ rank' \in [Consumers -> Ranks \cup {NoRank}]
  /\ \A d \in Consumers \ {c} : interest'[d] = interest[d] /\ rank'[d] = rank[d]
  /\ interest'[c] \in Lease => rank'[c] \in Ranks
  /\ selection' \in [Nodes -> Selection]
  /\ \A n \in Nodes : /\ selection'[n].rank = selection[n].rank /\ selection'[n].active = selection[n].active
                      /\ selection'[n].version = selection[n].version
                      /\ n # Wants[c] => selection'[n] = selection[n]
  /\ \/ selection' = selection /\ front' = front /\ back' = back
     \/ selection'[Wants[c]].tie = front /\ front' = front - 1 /\ back' = back
     \/ selection'[Wants[c]].tie = back /\ back' = back + 1 /\ front' = front
  /\ UNCHANGED <<nodes, shown, updatesPending, mailbox, threadVars, jobVars, queueVars, present, reading>>

LEMMA LeaseGraph ==
  ASSUME GraphOK, NEW c \in Consumers, LeaseStep(c)
  PROVE  GraphOK' /\ dirty' # <<>>
<1>1. /\ nodes \subseteq Nodes /\ dirty \in Seq(Nodes) /\ IsInjective(dirty) /\ ToSet(dirty) \subseteq nodes
      /\ front \in Int /\ back \in Int
  BY DEF GraphOK, GraphType
<1>2. /\ Wants[c] \in nodes /\ Wants[c] \in Nodes /\ dirty' = Marked(dirty, {Wants[c]})
      /\ nodes' = nodes /\ shown' = shown /\ life' = life
  BY <1>1 DEF LeaseStep, jobVars
<1>3. /\ dirty' \in Seq(Nodes) /\ IsInjective(dirty') /\ ToSet(dirty') = ToSet(dirty) \cup {Wants[c]}
  BY <1>1, <1>2, MarkedElements
<1>4. GraphType'
  <2>1. /\ selection' \in [Nodes -> Selection] /\ interest' \in [Consumers -> Lease \cup {"none", "gone"}]
        /\ rank' \in [Consumers -> Ranks \cup {NoRank}]
    BY DEF LeaseStep
  <2>2. front' \in Int /\ back' \in Int
    BY <1>1 DEF LeaseStep
  <2>3. shown' \in [Nodes -> Int]
    BY <1>2 DEF GraphOK, GraphType
  <2>4. ToSet(dirty') \subseteq nodes
    BY <1>1, <1>2, <1>3
  <2> QED
    BY <1>1, <1>2, <1>3, <2>1, <2>2, <2>3, <2>4 DEF GraphType
<1>5. Placed'
  <2>1. \A d \in Consumers : interest'[d] \in Lease => Wants[d] \in nodes /\ rank'[d] \in Ranks
    BY <1>2 DEF LeaseStep, GraphOK, Placed
  <2>2. \A n \in Nodes : n \in nodes' <=> life'[n] \notin {"none", "admitted", "gone"}
    BY <1>2 DEF GraphOK, Placed
  <2>3. \A n \in nodes : selection'[n].version > 0 /\ (Resource(n) => selection'[n].rank \in Ranks)
    BY <1>1 DEF LeaseStep, GraphOK, Placed
  <2>4. \A n \in Nodes \ nodes : selection'[n] = NoSelection /\ shown[n] = 0
    BY <1>2 DEF LeaseStep, GraphOK, Placed
  <2> QED
    BY <1>2, <2>1, <2>2, <2>3, <2>4 DEF Placed
<1>6. CleanIsCurrent'
  <2> SUFFICES ASSUME NEW n \in nodes, n \notin ToSet(dirty')
               PROVE  shown[n] = selection'[n].tie
                      /\ Aggregate(n, selection)' = [rank |-> selection'[n].rank, active |-> selection'[n].active]
    BY <1>2 DEF CleanIsCurrent
  <2>1. n \in Nodes /\ n # Wants[c] /\ n \notin ToSet(dirty)
    BY <1>1, <1>3
  <2>2. Children(n)' = Children(n)
    BY <1>2 DEF Children
  <2>3. Attached(n)' = Attached(n) /\ \A d \in Attached(n) : interest'[d] = interest[d] /\ rank'[d] = rank[d]
    BY <2>1 DEF Attached, LeaseStep
  <2>4. \A m \in Children(n) : selection'[m].rank = selection[m].rank /\ selection'[m].active = selection[m].active
    BY <1>1 DEF Children, LeaseStep
  <2>5. Aggregate(n, selection)' = Aggregate(n, selection)
    BY <2>2, <2>3, <2>4, AggregateKept
  <2>6. selection'[n] = selection[n]
    BY <2>1 DEF LeaseStep
  <2> QED
    BY <2>1, <2>5, <2>6 DEF GraphOK, CleanIsCurrent
<1>7. dirty' # <<>>
  BY <1>3, Elements
<1> QED
  BY <1>4, <1>5, <1>6, <1>7 DEF GraphOK

\* A tie that is given anew.
LEMMA NewTie ==
  ASSUME GraphOK, NEW w \in Nodes, NEW x \in Int, selection' = [selection EXCEPT ![w].tie = x]
  PROVE  /\ selection' \in [Nodes -> Selection] /\ selection'[w].tie = x
         /\ \A n \in Nodes : /\ selection'[n].rank = selection[n].rank /\ selection'[n].active = selection[n].active
                             /\ selection'[n].version = selection[n].version
                             /\ n # w => selection'[n] = selection[n]
<1>1. selection \in [Nodes -> Selection]
  BY DEF GraphOK, GraphType
<1>2. \A n \in Nodes : selection[n] \in [rank : Ranks \cup {NoRank}, active : BOOLEAN, tie : Int, version : Nat]
  BY <1>1 DEF Selection
<1>3. \A n \in Nodes : n # w => selection'[n] = selection[n]
  BY <1>1
<1>4. selection'[w] = [selection[w] EXCEPT !.tie = x]
  BY <1>1
<1>5. /\ selection'[w].tie = x /\ selection'[w].rank = selection[w].rank
      /\ selection'[w].active = selection[w].active /\ selection'[w].version = selection[w].version
      /\ selection'[w] \in Selection
  BY <1>2, <1>4 DEF Selection
<1>6. selection' \in [Nodes -> Selection]
  BY <1>1, <1>5
<1> QED
  BY <1>3, <1>5, <1>6

LEMMA DetachIsLease ==
  ASSUME GraphOK, NEW c \in Consumers, interest[c] \in Lease, DetachLease(c),
         UNCHANGED <<nodes, selection, shown, front, back, updatesPending, mailbox, threadVars, jobVars,
                     queueVars, present, reading>>
  PROVE  LeaseStep(c)
BY DEF DetachLease, LeaseStep, GraphOK, GraphType, Placed, Lease

LEMMA DetachIsNothing ==
  ASSUME NEW c \in Consumers, interest[c] \notin Lease, DetachLease(c)
  PROVE  UNCHANGED <<interest, rank, dirty, demandPending>>
BY DEF DetachLease, Lease

LEMMA LeaseActions ==
  ASSUME GraphOK, NEW c \in Consumers, NEW r \in Ranks,
         Consume(c) \/ Promote(c) \/ Refresh(c, r) \/ Defer(c)
  PROVE  LeaseStep(c) /\ UNCHANGED bindingVars
<1>1. /\ interest \in [Consumers -> Lease \cup {"none", "gone"}] /\ rank \in [Consumers -> Ranks \cup {NoRank}]
      /\ selection \in [Nodes -> Selection] /\ front \in Int /\ back \in Int
  BY DEF GraphOK, GraphType
<1>2. Wants[c] \in Nodes /\ Asks[c] \in Ranks
  BY DemandAssumption DEF DemandAssumption
<1>3. interest[c] \in Lease => Wants[c] \in nodes /\ rank[c] \in Ranks
  BY DEF GraphOK, Placed
<1>4. CASE Consume(c)
  BY <1>1, <1>2, <1>4 DEF Consume, LeaseStep, Lease
<1>5. CASE Promote(c)
  <2>1. /\ interest[c] \in Lease /\ dirty' = Marked(dirty, {Wants[c]}) /\ demandPending' = TRUE
        /\ UNCHANGED <<nodes, shown, updatesPending, mailbox, threadVars, jobVars,
                       queueVars, bindingVars, present, reading, interest, rank, back>>
        /\ selection' = [selection EXCEPT ![Wants[c]].tie = front] /\ front' = front - 1
    BY <1>5 DEF Promote, Commanded, Lease
  <2>2. /\ selection' \in [Nodes -> Selection] /\ selection'[Wants[c]].tie = front
        /\ \A n \in Nodes : /\ selection'[n].rank = selection[n].rank /\ selection'[n].active = selection[n].active
                            /\ selection'[n].version = selection[n].version
                            /\ n # Wants[c] => selection'[n] = selection[n]
    BY <1>1, <1>2, <2>1, NewTie
  <2> QED
    BY <1>1, <1>3, <2>1, <2>2 DEF LeaseStep
<1>6. CASE Refresh(c, r)
  <2>1. /\ interest[c] \in Lease /\ dirty' = Marked(dirty, {Wants[c]}) /\ demandPending' = TRUE
        /\ UNCHANGED <<nodes, shown, updatesPending, mailbox, threadVars, jobVars,
                       queueVars, bindingVars, present, reading, front>>
    BY <1>6 DEF Refresh, Commanded, Lease
  <2>2. CASE UNCHANGED <<interest, rank, selection, back>>
    BY <1>1, <1>3, <2>1, <2>2 DEF LeaseStep
  <2>3. CASE /\ interest' = [interest EXCEPT ![c] = "active"] /\ rank' = [rank EXCEPT ![c] = r]
             /\ selection' = [selection EXCEPT ![Wants[c]].tie = back] /\ back' = back + 1
    <3>1. /\ selection' \in [Nodes -> Selection] /\ selection'[Wants[c]].tie = back
          /\ \A n \in Nodes : /\ selection'[n].rank = selection[n].rank /\ selection'[n].active = selection[n].active
                              /\ selection'[n].version = selection[n].version
                              /\ n # Wants[c] => selection'[n] = selection[n]
      BY <1>1, <1>2, <2>3, NewTie
    <3>2. /\ interest' \in [Consumers -> Lease \cup {"none", "gone"}] /\ rank' \in [Consumers -> Ranks \cup {NoRank}]
          /\ \A d \in Consumers \ {c} : interest'[d] = interest[d] /\ rank'[d] = rank[d]
          /\ rank'[c] \in Ranks
      BY <1>1, <2>3 DEF Lease
    <3> QED
      BY <1>1, <1>3, <2>1, <2>3, <3>1, <3>2 DEF LeaseStep
  <2> QED
    BY <1>6, <2>2, <2>3 DEF Refresh
<1>7. CASE Defer(c)
  <2>1. /\ interest[c] \in Lease /\ dirty' = Marked(dirty, {Wants[c]}) /\ demandPending' = TRUE
        /\ UNCHANGED <<nodes, shown, updatesPending, mailbox, threadVars, jobVars,
                       queueVars, bindingVars, present, reading, rank, selection, front, back>>
        /\ interest' = [interest EXCEPT ![c] = "deferred"]
    BY <1>7 DEF Defer, Commanded, Lease
  <2>2. /\ interest' \in [Consumers -> Lease \cup {"none", "gone"}]
        /\ \A d \in Consumers \ {c} : interest'[d] = interest[d]
    BY <1>1, <2>1 DEF Lease
  <2> QED
    BY <1>1, <1>3, <2>1, <2>2 DEF LeaseStep
<1> QED
  BY <1>4, <1>5, <1>6, <1>7

\* Registration: the new node and its prerequisites get dirty.
LEMMA RegisterGraph ==
  ASSUME GraphOK, life \in [Nodes -> Lives], NEW n \in Nodes, Register(n)
  PROVE  GraphOK' /\ dirty' # <<>>
<1>1. /\ nodes \subseteq Nodes /\ dirty \in Seq(Nodes) /\ IsInjective(dirty) /\ ToSet(dirty) \subseteq nodes
      /\ selection \in [Nodes -> Selection] /\ back \in Int
  BY DEF GraphOK, GraphType
<1> DEFINE new == [rank |-> Baseline[n], active |-> Baseline[n] # NoRank, tie |-> back, version |-> 1]
<1>2. /\ nodes' = nodes \cup {n} /\ selection' = [selection EXCEPT ![n] = new] /\ back' = back + 1
      /\ dirty' = Append(Marked(dirty, Parents(n)), n) /\ life[n] = "admitted"
      /\ UNCHANGED <<shown, interest, rank, front>>
  BY DEF Register, Fresh
<1>3. n \notin nodes
  BY <1>2 DEF GraphOK, Placed
<1>4. Parents(n) \subseteq nodes /\ n \notin Parents(n) /\ n \notin Prereqs[n]
  BY ParentsAreOthers
<1>5. /\ dirty' \in Seq(Nodes) /\ IsInjective(dirty') /\ dirty' # <<>>
      /\ ToSet(dirty') = ToSet(dirty) \cup Parents(n) \cup {n}
  <2> DEFINE q == Marked(dirty, Parents(n))
  <2>1. q \in Seq(Nodes) /\ IsInjective(q) /\ ToSet(q) = ToSet(dirty) \cup Parents(n)
    BY <1>1, <1>4, MarkedElements
  <2> HIDE DEF q
  <2>2. n \notin ToSet(q)
    BY <1>1, <1>3, <1>4, <2>1
  <2>3. dirty' = Append(q, n)
    BY <1>2 DEF q
  <2> QED
    BY <2>1, <2>2, <2>3, AppendElements
<1>6. Baseline[n] \in Ranks \cup {NoRank} /\ (Resource(n) => Baseline[n] \in Ranks)
  BY DemandAssumption DEF DemandAssumption, Resource
<1>7. new \in Selection /\ new.version = 1 /\ new.rank = Baseline[n]
  BY <1>1, <1>6 DEF Selection
<1> HIDE DEF new
<1>8. selection' \in [Nodes -> Selection] /\ selection'[n] = new /\ \A m \in Nodes \ {n} : selection'[m] = selection[m]
  BY <1>1, <1>2, <1>7
<1>9. GraphType'
  <2>1. ToSet(dirty') \subseteq nodes' /\ nodes' \subseteq Nodes /\ back' \in Int
    BY <1>1, <1>2, <1>4, <1>5
  <2>2. /\ shown' \in [Nodes -> Int] /\ interest' \in [Consumers -> Lease \cup {"none", "gone"}]
        /\ rank' \in [Consumers -> Ranks \cup {NoRank}] /\ front' \in Int
    BY <1>2 DEF GraphOK, GraphType
  <2> QED
    BY <1>5, <1>8, <2>1, <2>2 DEF GraphType
<1>10. Placed'
  <2>1. life' \in [Nodes -> Lives] /\ life'[n] \notin {"none", "admitted", "gone"} /\ \A m \in Nodes \ {n} : life'[m] = life[m]
    BY DEF Register, Lives
  <2>2. \A c \in Consumers : interest'[c] \in Lease => Wants[c] \in nodes' /\ rank'[c] \in Ranks
    BY <1>2 DEF GraphOK, Placed
  <2>3. \A m \in Nodes : m \in nodes' <=> life'[m] \notin {"none", "admitted", "gone"}
    BY <1>2, <2>1 DEF GraphOK, Placed
  <2>4. \A m \in nodes' : selection'[m].version > 0 /\ (Resource(m) => selection'[m].rank \in Ranks)
    <3>1. \A m \in nodes : m \in Nodes \ {n}
      BY <1>1, <1>3
    <3>2. selection'[n].version > 0 /\ (Resource(n) => selection'[n].rank \in Ranks)
      BY <1>6, <1>7, <1>8
    <3> QED
      BY <1>2, <1>8, <3>1, <3>2 DEF GraphOK, Placed
  <2>5. \A m \in Nodes \ nodes' : selection'[m] = NoSelection /\ shown'[m] = 0
    BY <1>2, <1>8 DEF GraphOK, Placed
  <2> QED
    BY <2>2, <2>3, <2>4, <2>5 DEF Placed
<1>11. CleanIsCurrent'
  <2> SUFFICES ASSUME NEW m \in nodes', m \notin ToSet(dirty')
               PROVE  shown'[m] = selection'[m].tie
                      /\ Aggregate(m, selection)' = [rank |-> selection'[m].rank, active |-> selection'[m].active]
    BY DEF CleanIsCurrent
  <2>1. m \in nodes /\ m # n /\ m \notin ToSet(dirty) /\ m \notin Prereqs[n] /\ m \in Nodes
    BY <1>1, <1>2, <1>5 DEF Parents
  <2>2. Children(m)' = Children(m) /\ n \notin Children(m)
    BY <1>2, <1>3, <2>1 DEF Children
  <2>3. Attached(m)' = Attached(m)
    BY <1>2 DEF Attached
  <2>4. \A o \in Children(m) : selection'[o].rank = selection[o].rank /\ selection'[o].active = selection[o].active
    BY <1>1, <1>8, <2>2 DEF Children
  <2>5. Aggregate(m, selection)' = Aggregate(m, selection)
    BY <1>2, <2>2, <2>3, <2>4, AggregateKept
  <2> QED
    BY <1>2, <1>8, <2>1, <2>5 DEF GraphOK, CleanIsCurrent
<1> QED
  BY <1>5, <1>9, <1>10, <1>11 DEF GraphOK

\* Removal takes the leases along, and makes the prerequisites dirty.
LEMMA RemoveGraph ==
  ASSUME GraphOK, life \in [Nodes -> Lives], NEW n \in Nodes, RemoveNode(n)
  PROVE  GraphOK' /\ dirty' \in Seq(Nodes)
<1>1. /\ nodes \subseteq Nodes /\ dirty \in Seq(Nodes) /\ IsInjective(dirty) /\ ToSet(dirty) \subseteq nodes
      /\ selection \in [Nodes -> Selection] /\ shown \in [Nodes -> Int]
      /\ interest \in [Consumers -> Lease \cup {"none", "gone"}] /\ rank \in [Consumers -> Ranks \cup {NoRank}]
  BY DEF GraphOK, GraphType
<1>2. /\ nodes' = nodes \ {n} /\ selection' = [selection EXCEPT ![n] = NoSelection]
      /\ dirty' = Marked(RemoveFirst(dirty, n), Parents(n)) /\ life[n] = "removing"
      /\ shown' = [shown EXCEPT ![n] = 0] /\ life' = [life EXCEPT ![n] = "gone"]
      /\ UNCHANGED <<front, back>>
  BY DEF RemoveNode
<1>3. /\ interest' = [c \in Consumers |-> IF Wants[c] = n /\ interest[c] # "none" THEN "gone" ELSE interest[c]]
      /\ rank' = [c \in Consumers |-> IF Wants[c] = n THEN NoRank ELSE rank[c]]
  BY DEF RemoveNode
<1>4. Parents(n) \subseteq nodes /\ n \notin Parents(n) /\ n \notin Prereqs[n]
  BY ParentsAreOthers
<1>5. /\ dirty' \in Seq(Nodes) /\ IsInjective(dirty')
      /\ ToSet(dirty') = (ToSet(dirty) \ {n}) \cup Parents(n)
  <2> DEFINE q == RemoveFirst(dirty, n)
  <2>1. q \in Seq(Nodes) /\ IsInjective(q) /\ ToSet(q) = ToSet(dirty) \ {n}
    BY <1>1, RemovedElements
  <2>2. dirty' = Marked(q, Parents(n))
    BY <1>2
  <2> HIDE DEF q
  <2> QED
    BY <1>1, <1>4, <2>1, <2>2, MarkedElements
<1>6. NoSelection \in Selection /\ NoSelection.version = 0
  BY DEF NoSelection, Selection
<1>7. selection' \in [Nodes -> Selection] /\ selection'[n] = NoSelection /\ \A m \in Nodes \ {n} : selection'[m] = selection[m]
  BY <1>1, <1>2, <1>6
<1>8. shown' \in [Nodes -> Int] /\ shown'[n] = 0 /\ \A m \in Nodes \ {n} : shown'[m] = shown[m]
  BY <1>1, <1>2
<1>9. /\ interest' \in [Consumers -> Lease \cup {"none", "gone"}] /\ rank' \in [Consumers -> Ranks \cup {NoRank}]
      /\ \A c \in Consumers : Wants[c] # n => interest'[c] = interest[c] /\ rank'[c] = rank[c]
      /\ \A c \in Consumers : Wants[c] = n => interest'[c] \in {"none", "gone"}
  BY <1>1, <1>3 DEF Lease
<1>10. GraphType'
  <2>1. ToSet(dirty') \subseteq nodes' /\ nodes' \subseteq Nodes
    BY <1>1, <1>2, <1>4, <1>5
  <2>2. front' \in Int /\ back' \in Int
    BY <1>2 DEF GraphOK, GraphType
  <2> QED
    BY <1>5, <1>7, <1>8, <1>9, <2>1, <2>2 DEF GraphType
<1>11. Placed'
  <2>2. \A c \in Consumers : interest'[c] \in Lease => Wants[c] \in nodes' /\ rank'[c] \in Ranks
    BY <1>2, <1>9 DEF GraphOK, Placed, Lease
  <2>3. \A m \in Nodes : m \in nodes' <=> life'[m] \notin {"none", "admitted", "gone"}
    BY <1>2 DEF GraphOK, Placed
  <2>4. \A m \in nodes' : selection'[m].version > 0 /\ (Resource(m) => selection'[m].rank \in Ranks)
    BY <1>1, <1>2, <1>7 DEF GraphOK, Placed
  <2>5. \A m \in Nodes \ nodes' : selection'[m] = NoSelection /\ shown'[m] = 0
    BY <1>2, <1>7, <1>8 DEF GraphOK, Placed
  <2> QED
    BY <2>2, <2>3, <2>4, <2>5 DEF Placed
<1>12. CleanIsCurrent'
  <2> SUFFICES ASSUME NEW m \in nodes', m \notin ToSet(dirty')
               PROVE  shown'[m] = selection'[m].tie
                      /\ Aggregate(m, selection)' = [rank |-> selection'[m].rank, active |-> selection'[m].active]
    BY DEF CleanIsCurrent
  <2>1. m \in nodes /\ m # n /\ m \notin ToSet(dirty) /\ m \notin Prereqs[n] /\ m \in Nodes
    BY <1>1, <1>2, <1>5 DEF Parents
  <2>2. Children(m)' = Children(m) /\ n \notin Children(m)
    BY <1>2, <2>1 DEF Children
  <2>3. Attached(m)' = Attached(m) /\ \A c \in Attached(m) : interest'[c] = interest[c] /\ rank'[c] = rank[c]
    BY <1>9, <2>1 DEF Attached
  <2>4. \A o \in Children(m) : selection'[o].rank = selection[o].rank /\ selection'[o].active = selection[o].active
    BY <1>1, <1>7, <2>2 DEF Children
  <2>5. Aggregate(m, selection)' = Aggregate(m, selection)
    BY <2>2, <2>3, <2>4, AggregateKept
  <2> QED
    BY <1>7, <1>8, <2>1, <2>5 DEF GraphOK, CleanIsCurrent
<1> QED
  BY <1>5, <1>10, <1>11, <1>12 DEF GraphOK

\* A call of service, as what its visits sent and left.
LEMMA ServiceGraph ==
  ASSUME GraphOK, NEW t \in Threads, Service(t)
  PROVE  /\ GraphOK' /\ Sound(Serviced)
         /\ dirty' = Serviced.dirty /\ selection' = Serviced.selection /\ shown' = Serviced.shown
<1> DEFINE g == Serviced
<1>1. Sound(g)
  BY ServicedSound DEF GraphOK
<1>2. /\ dirty' = g.dirty /\ selection' = g.selection /\ shown' = g.shown
      /\ UNCHANGED <<nodes, interest, rank, front, back, life>>
  BY DEF Service, jobVars
<1> HIDE DEF g
<1>3. /\ g.dirty \in Seq(Nodes) /\ g.selection \in [Nodes -> Selection] /\ g.shown \in [Nodes -> Int]
      /\ IsInjective(g.dirty) /\ ToSet(g.dirty) \subseteq nodes
  BY <1>1 DEF Sound, Round
<1>4. GraphType'
  BY <1>2, <1>3 DEF GraphOK, GraphType
<1>5. \A n \in Nodes : Progressed(g, n)
  BY <1>1 DEF Sound
<1>6. \A n \in Nodes : selection[n].version \in Nat /\ g.selection[n].version \in Nat
  BY <1>3 DEF GraphOK, GraphType, Selection
<1>7. Placed'
  <2>2. \A n \in nodes : g.selection[n].version > 0 /\ (Resource(n) => g.selection[n].rank \in Ranks)
    <3> SUFFICES ASSUME NEW n \in nodes
                 PROVE  g.selection[n].version > 0 /\ (Resource(n) => g.selection[n].rank \in Ranks)
      OBVIOUS
    <3>1. n \in Nodes
      BY DEF GraphOK, GraphType
    <3>2. selection[n].version > 0 /\ (Resource(n) => selection[n].rank \in Ranks)
      BY DEF GraphOK, Placed
    <3>3. Progressed(g, n)
      BY <1>5, <3>1
    <3> QED
      BY <1>6, <3>1, <3>2, <3>3 DEF Progressed
  <2>3. \A n \in Nodes \ nodes : g.selection[n] = NoSelection /\ g.shown[n] = 0
    BY <1>5 DEF GraphOK, Placed, Progressed
  <2> QED
    BY <1>2, <2>2, <2>3 DEF GraphOK, Placed
<1>8. CleanIsCurrent'
  <2> SUFFICES ASSUME NEW n \in nodes, n \notin ToSet(g.dirty)
               PROVE  g.shown[n] = g.selection[n].tie
                      /\ Aggregate(n, selection)' = [rank |-> g.selection[n].rank, active |-> g.selection[n].active]
    BY <1>2 DEF CleanIsCurrent
  <2>1. Current(n, g.selection, g.shown)
    BY <1>1 DEF Sound
  <2>2. WantedAt(n, selection, TRUE)' = WantedAt(n, g.selection, TRUE)
    BY <1>2 DEF WantedAt, Attached, Children
  <2>3. WantedAt(n, selection, FALSE)' = WantedAt(n, g.selection, FALSE)
    BY <1>2 DEF WantedAt, Attached, Children
  <2>4. Aggregate(n, selection)' = Aggregate(n, g.selection)
    BY <2>2, <2>3 DEF Aggregate, Base
  <2> QED
    BY <2>1, <2>4 DEF Current
<1> QED
  BY <1>1, <1>2, <1>4, <1>7, <1>8 DEF GraphOK, g

-----------------------------------------------------------------------------
(* What is known of a node, step by step *)

LEMMA KnownType ==
  ASSUME StageType, applied \in [Nodes -> Selection], NEW n \in Nodes
  PROVE  /\ Known(n) \subseteq Selection /\ copy[n] \in Known(n) /\ applied[n] \in Known(n) /\ mailbox[n] \in Known(n)
         /\ \A t \in Threads : \A i \in DOMAIN changes[t] : changes[t][i].node = n => changes[t][i].selection \in Known(n)
<1>1. ASSUME NEW t \in Threads, NEW i \in DOMAIN changes[t] PROVE changes[t][i].selection \in Selection
  <2>1. changes[t] \in Seq(Change)
    BY DEF StageType
  <2>2. changes[t][i] \in Change
    BY <2>1, Elements
  <2> QED
    BY <2>2 DEF Change
<1>2. copy[n] \in Selection /\ applied[n] \in Selection /\ mailbox[n] \in Selection
  BY DEF StageType
<1>3. Known(n) \subseteq Selection
  BY <1>1, <1>2 DEF Known
<1> QED
  BY <1>3 DEF Known

LEMMA KnownTypes ==
  (StageType /\ applied \in [Nodes -> Selection]) => \A n \in Nodes : Known(n) \subseteq Selection
BY KnownType

LEMMA KnownTypesNext ==
  (StageType' /\ applied' \in [Nodes -> Selection]) => \A n \in Nodes : Known(n)' \subseteq Selection
<1>1. (StageType /\ applied \in [Nodes -> Selection] => \A n \in Nodes : Known(n) \subseteq Selection)'
  BY KnownTypes, PTL
<1> QED
  BY <1>1

\* A selection is with the submitter, in the record, in the mailbox or with a thread.
LEMMA KnownFrom ==
  ASSUME NEW n, NEW o \in Known(n)
  PROVE  \/ o \in {copy[n], applied[n], mailbox[n]}
         \/ \E t \in Threads : \E i \in DOMAIN changes[t] : changes[t][i].node = n /\ o = changes[t][i].selection
BY DEF Known

LEMMA KnownSame ==
  ASSUME UNCHANGED <<copy, applied, mailbox, changes>>, NEW n
  PROVE  Known(n)' = Known(n)
BY DEF Known

\* Nothing is known that was not, and nothing newer is lost.
LEMMA FlowKept ==
  ASSUME GraphOK, StageType, applied \in [Nodes -> Selection], Traced, Ties, Newest,
         StageType', applied' \in [Nodes -> Selection],
         UNCHANGED <<nodes, selection, front, back>>,
         \A n \in Nodes : Known(n)' \subseteq Known(n) \cup {NoSelection},
         \A t \in Threads : \A i \in DOMAIN changes'[t] :
            changes'[t][i].node \in nodes /\ Resource(changes'[t][i].node),
         \A n \in nodes : Resource(n) /\ life'[n] # "removing" =>
            life[n] # "removing" /\ \A s \in Known(n) : \E o \in Known(n)' : s.version <= o.version
  PROVE  Traced' /\ Ties' /\ Newest'
<1>1. NoSelection.version = 0 /\ NoSelection \in Selection
  BY DEF NoSelection, Selection
<1>2. nodes \subseteq Nodes /\ selection \in [Nodes -> Selection]
  BY DEF GraphOK, GraphType
<1>3. ASSUME NEW n \in Nodes PROVE Behind(NoSelection, selection[n])
  <2>1. selection[n].version \in Nat
    BY <1>2 DEF Selection
  <2>2. n \notin nodes => selection[n] = NoSelection
    BY DEF GraphOK, Placed
  <2>3. n \in nodes => selection[n].version > 0
    BY DEF GraphOK, Placed
  <2> QED
    BY <1>1, <2>1, <2>2, <2>3 DEF Behind
<1>4. ASSUME NEW n \in Nodes, NEW o \in Known(n)'
      PROVE  Behind(o, selection[n]) /\ (Resource(n) /\ o.version > 0 => o.rank \in Ranks)
  <2>1. o \in Known(n) \/ o = NoSelection
    OBVIOUS
  <2> QED
    BY <1>1, <1>3, <2>1 DEF Traced
<1>5. Traced'
  BY <1>4 DEF Traced
<1>6. Ties'
  <2>1. \A n \in Nodes : All(n)' \subseteq All(n) \cup {NoSelection}
    BY DEF All
  <2>2. ASSUME NEW n \in Nodes, NEW s \in All(n)', s.version > 0 PROVE s \in All(n)
    BY <1>1, <2>1, <2>2
  <2>3. \A n \in Nodes : \A s \in All(n)' : s.version > 0 => front < s.tie /\ s.tie < back /\ s.tie # 0
    BY <2>2 DEF Ties
  <2>4. \A n, m \in Nodes : n # m => \A s \in All(n)', o \in All(m)' : s.version > 0 /\ o.version > 0 => s.tie # o.tie
    BY <2>2 DEF Ties
  <2> QED
    BY <2>3, <2>4 DEF Ties
<1>7. Newest'
  <2> SUFFICES ASSUME NEW n \in nodes, Resource(n), life'[n] # "removing"
               PROVE  \E s \in Known(n)' : s.version = selection[n].version
    BY DEF Newest
  <2>1. n \in Nodes
    BY <1>2
  <2>2. PICK s \in Known(n) : s.version = selection[n].version
    BY DEF Newest
  <2>3. PICK o \in Known(n)' : s.version <= o.version
    OBVIOUS
  <2>4. o.version <= selection[n].version
    BY <1>4, <2>1 DEF Behind
  <2>5. Known(n)' \subseteq Selection
    BY KnownTypesNext, <2>1
  <2>6. o.version \in Nat /\ selection[n].version \in Nat
    BY <1>2, <2>1, <2>5 DEF Selection
  <2> QED
    BY <2>2, <2>3, <2>4, <2>6
<1> QED
  BY <1>5, <1>6, <1>7

FlowOK == StageType /\ Traced /\ Ties /\ Stages /\ Newest /\ Flags

LEMMA ClassTypes ==
  ASSUME ClassOK(Class)
  PROVE  life \in [Nodes -> Lives] /\ applied \in [Nodes -> Selection]
BY ClassIsRecord

\* Steps that leave every stage alone.
LEMMA QuietFlow ==
  ASSUME GraphOK, FlowOK, ClassOK(Class),
         UNCHANGED <<nodes, selection, front, back, dirty, flagVars, transfer, changes, copy, applied>>,
         done' \subseteq Nodes, handedOff' \subseteq Nodes,
         \A n \in Nodes : \/ life'[n] = life[n]
                          \/ life[n] = "none" /\ life'[n] = "admitted"
                          \/ life[n] \in {"claimed", "waiting"} /\ life'[n] = "claimed"
  PROVE  FlowOK'
<1>1. UNCHANGED <<demandPending, updatesPending, mailbox>>
  BY DEF flagVars
<1>2. StageType'
  BY <1>1 DEF FlowOK, StageType
<1>3. \A n \in Nodes : Known(n)' = Known(n)
  BY <1>1, KnownSame
<1>4. Stages'
  <2>1. \A n \in Nodes : life'[n] = "registered" <=> life[n] = "registered"
    OBVIOUS
  <2>2. \A n \in Nodes : life'[n] \in {"ready", "deferred", "handed"} <=> life[n] \in {"ready", "deferred", "handed"}
    OBVIOUS
  <2>3. \A n \in Nodes : life'[n] = "waiting" => life[n] = "waiting"
    OBVIOUS
  <2>4. \A n \in Nodes : life'[n] \in {"none", "admitted", "removing", "gone"} => life[n] \in {"none", "admitted", "removing", "gone"}
    OBVIOUS
  <2>5. \A n \in Nodes : copy[n] # NoSelection => life'[n] = "registered"
    BY <2>1 DEF FlowOK, Stages
  <2>6. \A n \in Nodes : life'[n] = "registered" => copy[n].version > 0
    BY <2>1 DEF FlowOK, Stages
  <2>7. \A n \in Nodes : life'[n] \in {"registered", "ready", "deferred", "handed"} => n \in Jobs
    BY <2>1, <2>2 DEF FlowOK, Stages
  <2>8. \A n \in Jobs : life'[n] \in {"waiting", "ready", "deferred", "handed"} => applied[n].version > 0
    BY <2>2, <2>3 DEF FlowOK, Stages, Jobs
  <2>9. \A n \in Nodes : life'[n] \in {"none", "admitted", "removing", "gone"} => applied[n] = NoSelection
    BY <2>4 DEF FlowOK, Stages
  <2> QED
    BY <1>1, <2>5, <2>6, <2>7, <2>8, <2>9 DEF FlowOK, Stages
<1>5. Flags'
  <2>1. HasMail(mailbox)' = HasMail(mailbox)
    BY <1>1 DEF HasMail
  <2> QED
    BY <1>1, <2>1 DEF FlowOK, Flags
<1>6. \A n \in nodes : life'[n] # "removing" => life[n] # "removing"
  BY DEF GraphOK, GraphType
<1>7. Traced' /\ Ties' /\ Newest'
  <2>1. \A t \in Threads : \A i \in DOMAIN changes'[t] :
          changes'[t][i].node \in nodes /\ Resource(changes'[t][i].node)
    BY DEF FlowOK, Traced
  <2>2. \A n \in nodes : \A s \in Known(n) : \E o \in Known(n)' : s.version <= o.version
    <3> SUFFICES ASSUME NEW n \in nodes, NEW s \in Known(n) PROVE \E o \in Known(n)' : s.version <= o.version
      OBVIOUS
    <3>1. n \in Nodes
      BY DEF GraphOK, GraphType
    <3>2. s \in Selection
      BY <3>1, KnownType, ClassTypes DEF FlowOK
    <3>3. s.version <= s.version
      BY <3>2 DEF Selection
    <3> QED
      BY <1>3, <3>1, <3>3
  <2>3. applied \in [Nodes -> Selection] /\ applied' = applied
    BY ClassTypes
  <2> QED
    BY <1>2, <1>3, <1>6, <2>1, <2>2, <2>3, FlowKept DEF FlowOK
<1> QED
  BY <1>2, <1>4, <1>5, <1>7 DEF FlowOK

\* A new tie comes before all others, or behind them.
LEMMA LeaseFlow ==
  ASSUME GraphOK, FlowOK, ClassOK(Class), NEW c \in Consumers, LeaseStep(c)
  PROVE  FlowOK'
<1> DEFINE w == Wants[c]
<1>1. /\ UNCHANGED <<nodes, shown, updatesPending, mailbox, transfer, changes, life, done, copy, applied, handedOff>>
      /\ w \in nodes /\ demandPending' = TRUE
  BY DEF LeaseStep, threadVars, jobVars, queueVars
<1>2. /\ w \in Nodes /\ nodes \subseteq Nodes /\ selection \in [Nodes -> Selection] /\ front \in Int /\ back \in Int
  BY <1>1 DEF GraphOK, GraphType
<1>3. StageType'
  BY <1>1 DEF FlowOK, StageType
<1>4. \A n \in Nodes : Known(n)' = Known(n)
  BY <1>1, KnownSame
<1>5. Stages'
  BY <1>1 DEF FlowOK, Stages
<1>6. Flags'
  <2>1. HasMail(mailbox)' = HasMail(mailbox)
    BY <1>1 DEF HasMail
  <2>2. dirty' # <<>>
    BY LeaseGraph
  <2> QED
    BY <1>1, <2>1, <2>2 DEF FlowOK, Flags
<1>7. /\ \A n \in Nodes : /\ selection'[n].rank = selection[n].rank /\ selection'[n].active = selection[n].active
                          /\ selection'[n].version = selection[n].version
                          /\ n # w => selection'[n] = selection[n]
      /\ \/ selection' = selection /\ front' = front /\ back' = back
         \/ selection'[w].tie = front /\ front' = front - 1 /\ back' = back
         \/ selection'[w].tie = back /\ back' = back + 1 /\ front' = front
  BY DEF LeaseStep
<1>8. Traced'
  <2>1. \A n \in Nodes : \A o : Behind(o, selection'[n]) <=> Behind(o, selection[n])
    BY <1>7 DEF Behind
  <2>2. \A n \in Nodes : \A o \in Known(n)' :
          Behind(o, selection'[n]) /\ (Resource(n) /\ o.version > 0 => o.rank \in Ranks)
    BY <1>4, <2>1 DEF FlowOK, Traced
  <2>3. \A t \in Threads : \A i \in DOMAIN changes'[t] :
          changes'[t][i].node \in nodes' /\ Resource(changes'[t][i].node)
    BY <1>1 DEF FlowOK, Traced
  <2> QED
    BY <2>2, <2>3 DEF Traced
<1>9. Newest'
  <2>1. \A n \in nodes : n \in Nodes
    BY <1>2
  <2> QED
    BY <1>1, <1>4, <1>7, <2>1 DEF FlowOK, Newest
<1>10. Ties'
  <2>1. ASSUME NEW n \in Nodes PROVE All(n) \subseteq Selection
    BY <1>2, <2>1, KnownType, ClassTypes DEF All, FlowOK
  <2>2. ASSUME NEW n \in Nodes, NEW s \in All(n)' PROVE s \in All(n) \/ (n = w /\ s = selection'[w])
    BY <1>4, <1>7, <2>2 DEF All
  <2>3. ASSUME NEW n \in Nodes, NEW s \in All(n), s.version > 0
        PROVE  front < s.tie /\ s.tie < back /\ s.tie # 0 /\ s.tie \in Int
    BY <2>1, <2>3 DEF FlowOK, Ties, Selection
  <2>4. front < 0 /\ 0 < back
    BY DEF FlowOK, Ties
  <2>5. selection' = selection \/ selection'[w].tie \in {front, back}
    BY <1>7
  <2>6. /\ front' <= front /\ back <= back' /\ front' < 0 /\ 0 < back' /\ front' \in Int /\ back' \in Int
        /\ selection' = selection \/ (front' < selection'[w].tie /\ selection'[w].tie < back')
    BY <1>2, <1>7, <2>4
  <2>7. ASSUME NEW n \in Nodes, NEW s \in All(n)', s.version > 0
        PROVE  front' < s.tie /\ s.tie < back' /\ s.tie # 0
    <3>1. CASE s \in All(n)
      <4>1. front < s.tie /\ s.tie < back /\ s.tie # 0 /\ s.tie \in Int
        BY <2>3, <2>7, <3>1
      <4> QED
        BY <1>2, <2>6, <4>1
    <3>2. CASE n = w /\ s = selection'[w] /\ selection' # selection
      BY <1>2, <2>4, <2>5, <2>6, <3>2
    <3>3. selection[n] \in All(n)
      BY DEF All
    <3> QED
      BY <2>2, <2>7, <3>1, <3>2, <3>3
  <2>8. ASSUME NEW n \in Nodes, NEW m \in Nodes, n # m, NEW s \in All(n)', NEW o \in All(m)',
               s.version > 0, o.version > 0, s.tie = o.tie
        PROVE  FALSE
    <3>1. s \notin All(n) \/ o \notin All(m)
      BY <2>8 DEF FlowOK, Ties
    <3>2. selection[w] \in All(w)
      BY DEF All
    <3>3. selection' # selection
      BY <2>2, <2>8, <3>1, <3>2
    <3>4. CASE s \notin All(n)
      <4>1. n = w /\ s.tie \in {front, back} /\ o \in All(m)
        BY <2>2, <2>5, <2>8, <3>3, <3>4
      <4>2. front < o.tie /\ o.tie < back /\ o.tie \in Int
        BY <2>3, <2>8, <4>1
      <4> QED
        BY <1>2, <2>8, <4>1, <4>2
    <3>5. CASE o \notin All(m)
      <4>1. m = w /\ o.tie \in {front, back} /\ s \in All(n)
        BY <2>2, <2>5, <2>8, <3>3, <3>5
      <4>2. front < s.tie /\ s.tie < back /\ s.tie \in Int
        BY <2>3, <2>8, <4>1
      <4> QED
        BY <1>2, <2>8, <4>1, <4>2
    <3> QED
      BY <3>1, <3>4, <3>5
  <2> QED
    BY <2>6, <2>7, <2>8 DEF Ties
<1> QED
  BY <1>3, <1>5, <1>6, <1>8, <1>9, <1>10 DEF FlowOK

\* A record of the class keeps what it has, or takes the newer mail.
LEMMA ClassFlow ==
  ASSUME GraphOK, FlowOK, ClassOK(Class), ClassStep, handedOff' \subseteq Nodes
  PROVE  FlowOK'
<1>1. /\ Advanced /\ life' \in [Nodes -> Lives] /\ applied' \in [Nodes -> Selection]
      /\ Fetched \/ UNCHANGED <<mailbox, updatesPending, applied>>
      /\ UNCHANGED <<nodes, selection, front, back, dirty, demandPending, transfer, changes, done, copy>>
  BY DEF ClassStep, graphVars, threadVars
<1>2. /\ applied \in [Nodes -> Selection] /\ mailbox \in [Nodes -> Selection] /\ copy \in [Nodes -> Selection]
      /\ nodes \subseteq Nodes
  BY ClassTypes DEF FlowOK, StageType, GraphOK, GraphType
<1>3. NoSelection.version = 0 /\ NoSelection \in Selection
  BY DEF NoSelection, Selection
<1>4. \A n \in Nodes : applied'[n] = applied[n] \/ (applied'[n] = mailbox[n] /\ n \in Updated)
  BY <1>1 DEF Fetched, After
<1>5. \A n \in Nodes : mailbox'[n] = mailbox[n] \/ (mailbox'[n] = NoSelection /\ applied'[n] = After(n) /\ updatesPending)
  BY <1>1, <1>2 DEF Fetched
<1>6. StageType'
  <2>1. mailbox' \in [Nodes -> Selection] /\ updatesPending' \in BOOLEAN
    <3>1. CASE Fetched
      BY <1>2, <1>3, <3>1 DEF Fetched
    <3>2. CASE UNCHANGED <<mailbox, updatesPending, applied>>
      BY <1>2, <3>2 DEF FlowOK, StageType
    <3> QED
      BY <1>1, <3>1, <3>2
  <2> QED
    BY <1>1, <2>1 DEF FlowOK, StageType
<1>7. \A n \in Nodes : \/ life'[n] = life[n]
                       \/ /\ n \in Jobs /\ life[n] \in {"waiting", "ready", "deferred", "handed"}
                          /\ life'[n] \in {"ready", "deferred", "handed", "claimed"}
  BY <1>1 DEF Advanced
<1>8. Stages'
  <2>1. \A n \in Nodes : copy'[n] # NoSelection => life'[n] = "registered"
    BY <1>1, <1>7 DEF FlowOK, Stages
  <2>2. \A n \in Nodes : life'[n] = "registered" => copy'[n].version > 0
    BY <1>1, <1>7 DEF FlowOK, Stages
  <2>3. \A n \in Nodes : life'[n] \in {"registered", "ready", "deferred", "handed"} => n \in Jobs
    BY <1>7 DEF FlowOK, Stages
  <2>4. \A n \in Nodes : mailbox'[n] # NoSelection => n \in nodes' /\ Resource(n)
    BY <1>1, <1>5 DEF FlowOK, Stages
  <2>5. ASSUME NEW n \in Jobs, life'[n] \in {"waiting", "ready", "deferred", "handed"} PROVE applied'[n].version > 0
    <3>1. n \in Nodes /\ life[n] \in {"waiting", "ready", "deferred", "handed"}
      BY <1>7, <2>5 DEF Jobs
    <3>2. applied[n].version > 0
      BY <3>1 DEF FlowOK, Stages
    <3>3. n \in Updated => applied[n].version < mailbox[n].version
      BY DEF Updated, Newer
    <3>4. applied[n].version \in Nat /\ mailbox[n].version \in Nat
      BY <1>2, <3>1 DEF Selection
    <3> QED
      BY <1>4, <3>1, <3>2, <3>3, <3>4
  <2>6. ASSUME NEW n \in Nodes, life'[n] \in {"none", "admitted", "removing", "gone"} PROVE applied'[n] = NoSelection
    <3>1. life[n] \in {"none", "admitted", "removing", "gone"}
      BY <1>7, <2>6
    <3>2. applied[n] = NoSelection
      BY <3>1 DEF FlowOK, Stages
    <3>3. n \notin Updated
      <4>1. CASE life[n] = "admitted"
        <5>1. n \notin nodes
          BY <4>1 DEF GraphOK, Placed
        <5>2. mailbox[n] = NoSelection
          BY <5>1 DEF FlowOK, Stages
        <5> QED
          BY <1>3, <3>2, <5>2 DEF Updated, Newer
      <4>2. CASE life[n] # "admitted"
        BY <3>1, <4>2 DEF Updated
      <4> QED
        BY <4>1, <4>2
    <3> QED
      BY <1>4, <3>2, <3>3
  <2> QED
    BY <2>1, <2>2, <2>3, <2>4, <2>5, <2>6 DEF Stages
<1>9. Flags'
  <2>1. HasMail(mailbox') => updatesPending'
    <3>1. CASE Fetched
      <4>1. ~HasMail([n \in Nodes |-> NoSelection])
        BY <1>3 DEF HasMail
      <4>2. ~updatesPending => ~HasMail(mailbox)
        BY DEF FlowOK, Flags
      <4> QED
        BY <3>1, <4>1, <4>2 DEF Fetched
    <3>2. CASE UNCHANGED <<mailbox, updatesPending, applied>>
      BY <3>2 DEF FlowOK, Flags
    <3> QED
      BY <1>1, <3>1, <3>2
  <2> QED
    BY <1>1, <2>1 DEF FlowOK, Flags, HasMail
<1>10. Traced' /\ Ties' /\ Newest'
  <2>1. \A n \in Nodes : Known(n)' \subseteq Known(n) \cup {NoSelection}
    <3> SUFFICES ASSUME NEW n \in Nodes PROVE Known(n)' \subseteq Known(n) \cup {NoSelection}
      OBVIOUS
    <3>1. applied'[n] \in {applied[n], mailbox[n]} /\ mailbox'[n] \in {mailbox[n], NoSelection}
      BY <1>4, <1>5
    <3> QED
      BY <1>1, <3>1 DEF Known
  <2>2. \A t \in Threads : \A i \in DOMAIN changes'[t] :
          changes'[t][i].node \in nodes /\ Resource(changes'[t][i].node)
    BY <1>1 DEF FlowOK, Traced
  <2>3. ASSUME NEW n \in nodes, Resource(n), life'[n] # "removing"
        PROVE  life[n] # "removing" /\ \A s \in Known(n) : \E o \in Known(n)' : s.version <= o.version
    <3>1. n \in Nodes /\ n \in Jobs /\ life[n] # "removing" /\ life[n] \notin {"none", "admitted", "gone"}
      BY <1>2, <1>7, <2>3 DEF Resource, GraphOK, Placed
    <3>2. n \in Updated <=> applied[n].version < mailbox[n].version
      <4>1. life[n] \in Lives
        BY <3>1, ClassTypes
      <4> QED
        BY <3>1, <4>1 DEF Updated, Newer, Lives
    <3>3. applied[n].version \in Nat /\ mailbox[n].version \in Nat
      BY <1>2, <3>1 DEF Selection
    <3>4. ASSUME NEW s \in Known(n) PROVE \E o \in Known(n)' : s.version <= o.version
      <4>1. s \in Selection
        BY <1>2, <3>1, KnownType DEF FlowOK
      <4>2. s.version <= s.version
        BY <4>1 DEF Selection
      <4>3. applied'[n] \in Known(n)' /\ mailbox'[n] \in Known(n)'
        BY DEF Known
      <4>4. applied[n].version <= applied'[n].version
        BY <1>4, <3>1, <3>2, <3>3
      <4>5. mailbox'[n] = mailbox[n] \/ mailbox[n].version <= applied'[n].version
        BY <1>5, <3>1, <3>2, <3>3 DEF After
      <4>6. s = copy[n] \/ s = applied[n] \/ s = mailbox[n] \/ s \in Known(n)'
        BY <1>1 DEF Known
      <4>7. s = copy[n] => s \in Known(n)'
        BY <1>1 DEF Known
      <4> QED
        BY <4>2, <4>3, <4>4, <4>5, <4>6, <4>7
    <3> QED
      BY <3>1, <3>4
  <2> QED
    BY <1>1, <1>2, <1>6, <2>1, <2>2, <2>3, FlowKept DEF FlowOK
<1> QED
  BY <1>6, <1>8, <1>9, <1>10 DEF FlowOK

\* The submitter's copy goes into the record, unless that has something newer.
LEMMA AttachFlow ==
  ASSUME GraphOK, FlowOK, ClassOK(Class), NEW n \in Nodes, Attach(n)
  PROVE  /\ FlowOK' /\ life' \in [Nodes -> Lives] /\ applied' \in [Nodes -> Selection]
         /\ \A m \in Nodes : m # n => life'[m] = life[m] /\ applied'[m] = applied[m]
         /\ life[n] = "registered" /\ life'[n] = "waiting"
<1>1. /\ life[n] = "registered" /\ life' = [life EXCEPT ![n] = "waiting"] /\ copy' = [copy EXCEPT ![n] = NoSelection]
      /\ applied' = IF Newer(n, copy[n]) THEN [applied EXCEPT ![n] = copy[n]] ELSE applied
      /\ UNCHANGED <<nodes, selection, front, back, dirty, demandPending, updatesPending, mailbox, transfer, changes,
                     done, handedOff>>
  BY DEF Attach, graphVars, flagVars, threadVars, queueVars
<1>2. /\ applied \in [Nodes -> Selection] /\ mailbox \in [Nodes -> Selection] /\ copy \in [Nodes -> Selection]
      /\ nodes \subseteq Nodes /\ life \in [Nodes -> Lives]
  BY ClassTypes DEF FlowOK, StageType, GraphOK, GraphType
<1>3. NoSelection.version = 0 /\ NoSelection \in Selection
  BY DEF NoSelection, Selection
<1>4. /\ life' \in [Nodes -> Lives] /\ applied' \in [Nodes -> Selection] /\ copy' \in [Nodes -> Selection]
      /\ \A m \in Nodes : m # n => life'[m] = life[m] /\ applied'[m] = applied[m] /\ copy'[m] = copy[m]
      /\ copy'[n] = NoSelection /\ life'[n] = "waiting"
      /\ applied'[n] = IF applied[n].version < copy[n].version THEN copy[n] ELSE applied[n]
  BY <1>1, <1>2, <1>3 DEF Lives, Newer
<1>5. StageType'
  BY <1>1, <1>4 DEF FlowOK, StageType
<1>6. applied[n].version \in Nat /\ copy[n].version \in Nat /\ copy[n].version > 0 /\ n \in Jobs
  BY <1>1, <1>2 DEF Selection, FlowOK, Stages
<1>7. applied'[n].version > 0 /\ applied[n].version <= applied'[n].version /\ copy[n].version <= applied'[n].version
  BY <1>4, <1>6
<1>8. Stages'
  <2>1. \A m \in Nodes : copy'[m] # NoSelection => life'[m] = "registered"
    BY <1>4 DEF FlowOK, Stages
  <2>2. \A m \in Nodes : life'[m] = "registered" => copy'[m].version > 0
    BY <1>4 DEF FlowOK, Stages
  <2>3. \A m \in Nodes : life'[m] \in {"registered", "ready", "deferred", "handed"} => m \in Jobs
    BY <1>4 DEF FlowOK, Stages
  <2>4. \A m \in Nodes : mailbox'[m] # NoSelection => m \in nodes' /\ Resource(m)
    BY <1>1 DEF FlowOK, Stages
  <2>5. \A m \in Jobs : life'[m] \in {"waiting", "ready", "deferred", "handed"} => applied'[m].version > 0
    BY <1>4, <1>7 DEF FlowOK, Stages, Jobs
  <2>6. \A m \in Nodes : life'[m] \in {"none", "admitted", "removing", "gone"} => applied'[m] = NoSelection
    BY <1>4 DEF FlowOK, Stages
  <2> QED
    BY <2>1, <2>2, <2>3, <2>4, <2>5, <2>6 DEF Stages
<1>9. Flags'
  <2>1. HasMail(mailbox)' = HasMail(mailbox)
    BY <1>1 DEF HasMail
  <2> QED
    BY <1>1, <2>1 DEF FlowOK, Flags
<1>10. Traced' /\ Ties' /\ Newest'
  <2>1. \A m \in Nodes : Known(m)' \subseteq Known(m) \cup {NoSelection}
    <3> SUFFICES ASSUME NEW m \in Nodes PROVE Known(m)' \subseteq Known(m) \cup {NoSelection}
      OBVIOUS
    <3>1. applied'[m] \in {applied[m], copy[m]} /\ copy'[m] \in {copy[m], NoSelection}
      BY <1>4
    <3> QED
      BY <1>1, <3>1 DEF Known
  <2>2. \A t \in Threads : \A i \in DOMAIN changes'[t] :
          changes'[t][i].node \in nodes /\ Resource(changes'[t][i].node)
    BY <1>1 DEF FlowOK, Traced
  <2>3. ASSUME NEW m \in nodes, life'[m] # "removing"
        PROVE  life[m] # "removing" /\ \A s \in Known(m) : \E o \in Known(m)' : s.version <= o.version
    <3>1. m \in Nodes /\ life[m] # "removing"
      BY <1>1, <1>2, <1>4, <2>3
    <3>2. ASSUME NEW s \in Known(m) PROVE \E o \in Known(m)' : s.version <= o.version
      <4>1. s \in Selection
        BY <1>2, <3>1, KnownType DEF FlowOK
      <4>2. s.version <= s.version
        BY <4>1 DEF Selection
      <4>3. applied'[m] \in Known(m)'
        BY DEF Known
      <4>4. s = copy[m] \/ s = applied[m] \/ s \in Known(m)'
        BY <1>1 DEF Known
      <4>5. m # n => Known(m)' = Known(m)
        BY <1>1, <1>4, <3>1 DEF Known
      <4> QED
        BY <1>7, <4>2, <4>3, <4>4, <4>5
    <3> QED
      BY <3>1, <3>2
  <2> QED
    BY <1>1, <1>2, <1>4, <1>5, <2>1, <2>2, <2>3, FlowKept DEF FlowOK
<1> QED
  BY <1>1, <1>4, <1>5, <1>8, <1>9, <1>10 DEF FlowOK

\* A record that is being removed has no selection any more, and needs none.
LEMMA RetireFlow ==
  ASSUME GraphOK, FlowOK, ClassOK(Class), NEW n \in Nodes, Retire(n)
  PROVE  /\ FlowOK' /\ life' \in [Nodes -> Lives] /\ applied' \in [Nodes -> Selection]
         /\ \A m \in Nodes : m # n => life'[m] = life[m] /\ applied'[m] = applied[m]
         /\ life[n] = "claimed" /\ life'[n] = "removing"
<1>1. /\ life[n] = "claimed" /\ life' = [life EXCEPT ![n] = "removing"] /\ applied' = [applied EXCEPT ![n] = NoSelection]
      /\ UNCHANGED <<nodes, selection, front, back, dirty, demandPending, updatesPending, mailbox, transfer, changes,
                     done, copy, handedOff>>
  BY DEF Retire, graphVars, flagVars, threadVars, queueVars
<1>2. /\ applied \in [Nodes -> Selection] /\ nodes \subseteq Nodes /\ life \in [Nodes -> Lives]
  BY ClassTypes DEF GraphOK, GraphType
<1>3. NoSelection.version = 0 /\ NoSelection \in Selection
  BY DEF NoSelection, Selection
<1>4. /\ life' \in [Nodes -> Lives] /\ applied' \in [Nodes -> Selection]
      /\ \A m \in Nodes : m # n => life'[m] = life[m] /\ applied'[m] = applied[m]
      /\ applied'[n] = NoSelection /\ life'[n] = "removing"
  BY <1>1, <1>2, <1>3 DEF Lives
<1>5. StageType'
  BY <1>1 DEF FlowOK, StageType
<1>8. Stages'
  <2>1. \A m \in Nodes : copy'[m] # NoSelection => life'[m] = "registered"
    BY <1>1, <1>4 DEF FlowOK, Stages
  <2>2. \A m \in Nodes : life'[m] = "registered" => copy'[m].version > 0
    BY <1>1, <1>4 DEF FlowOK, Stages
  <2>3. \A m \in Nodes : life'[m] \in {"registered", "ready", "deferred", "handed"} => m \in Jobs
    BY <1>4 DEF FlowOK, Stages
  <2>4. \A m \in Nodes : mailbox'[m] # NoSelection => m \in nodes' /\ Resource(m)
    BY <1>1 DEF FlowOK, Stages
  <2>5. \A m \in Jobs : life'[m] \in {"waiting", "ready", "deferred", "handed"} => applied'[m].version > 0
    BY <1>4 DEF FlowOK, Stages, Jobs
  <2>6. \A m \in Nodes : life'[m] \in {"none", "admitted", "removing", "gone"} => applied'[m] = NoSelection
    BY <1>4 DEF FlowOK, Stages
  <2> QED
    BY <2>1, <2>2, <2>3, <2>4, <2>5, <2>6 DEF Stages
<1>9. Flags'
  <2>1. HasMail(mailbox)' = HasMail(mailbox)
    BY <1>1 DEF HasMail
  <2> QED
    BY <1>1, <2>1 DEF FlowOK, Flags
<1>10. Traced' /\ Ties' /\ Newest'
  <2>1. \A m \in Nodes : Known(m)' \subseteq Known(m) \cup {NoSelection}
    <3> SUFFICES ASSUME NEW m \in Nodes PROVE Known(m)' \subseteq Known(m) \cup {NoSelection}
      OBVIOUS
    <3>1. applied'[m] \in {applied[m], NoSelection}
      BY <1>4
    <3> QED
      BY <1>1, <3>1 DEF Known
  <2>2. \A t \in Threads : \A i \in DOMAIN changes'[t] :
          changes'[t][i].node \in nodes /\ Resource(changes'[t][i].node)
    BY <1>1 DEF FlowOK, Traced
  <2>3. ASSUME NEW m \in nodes, life'[m] # "removing"
        PROVE  life[m] # "removing" /\ \A s \in Known(m) : \E o \in Known(m)' : s.version <= o.version
    <3>1. m \in Nodes /\ m # n /\ life[m] # "removing"
      BY <1>2, <1>4, <2>3
    <3>2. Known(m)' = Known(m)
      BY <1>1, <1>4, <3>1 DEF Known
    <3>3. ASSUME NEW s \in Known(m) PROVE s.version <= s.version
      <4>1. s \in Selection
        BY <1>2, <3>1, KnownType DEF FlowOK
      <4> QED
        BY <4>1 DEF Selection
    <3> QED
      BY <3>1, <3>2, <3>3
  <2> QED
    BY <1>1, <1>2, <1>4, <1>5, <2>1, <2>2, <2>3, FlowKept DEF FlowOK
<1> QED
  BY <1>1, <1>4, <1>5, <1>8, <1>9, <1>10 DEF FlowOK

\* A change goes from the thread to the mailbox, which may have something newer.
LEMMA TransferFlow ==
  ASSUME GraphOK, FlowOK, ClassOK(Class), NEW t \in Threads, Transfer(t)
  PROVE  FlowOK'
<1> DEFINE h == Head(changes[t])
<1>1. /\ transfer = t /\ changes[t] # <<>> /\ mailbox' = Put(mailbox, h) /\ updatesPending' = TRUE
      /\ changes' = [changes EXCEPT ![t] = Tail(@)]
      /\ UNCHANGED <<nodes, selection, front, back, dirty, demandPending, transfer, life, applied, copy, done, handedOff>>
  BY DEF Transfer, graphVars, jobVars, queueVars
<1>2. /\ applied \in [Nodes -> Selection] /\ mailbox \in [Nodes -> Selection] /\ nodes \subseteq Nodes
      /\ changes \in [Threads -> Seq(Change)] /\ changes[t] \in Seq(Change)
  BY ClassTypes DEF FlowOK, StageType, GraphOK, GraphType
<1>3. /\ h \in Change /\ h = changes[t][1] /\ 1 \in DOMAIN changes[t] /\ Tail(changes[t]) \in Seq(Change)
      /\ \A i \in DOMAIN Tail(changes[t]) : i + 1 \in DOMAIN changes[t] /\ Tail(changes[t])[i] = changes[t][i + 1]
      /\ \A i \in DOMAIN changes[t] : i = 1 \/ (i - 1 \in DOMAIN Tail(changes[t]) /\ Tail(changes[t])[i - 1] = changes[t][i])
  BY <1>1, <1>2, TailElements
<1>4. h.node \in nodes /\ Resource(h.node)
  BY <1>3 DEF FlowOK, Traced
<1> HIDE DEF h
<1>5. h.node \in Nodes /\ h.selection \in Selection
  BY <1>3 DEF Change
<1>6. mailbox' = [mailbox EXCEPT ![h.node] =
                    IF mailbox[h.node].version < h.selection.version THEN h.selection ELSE mailbox[h.node]]
  BY <1>1 DEF Put
<1>7. /\ mailbox' \in [Nodes -> Selection]
      /\ \A n \in Nodes : n # h.node => mailbox'[n] = mailbox[n]
      /\ mailbox'[h.node] \in {mailbox[h.node], h.selection}
      /\ mailbox[h.node].version <= mailbox'[h.node].version /\ h.selection.version <= mailbox'[h.node].version
  <2>1. mailbox[h.node].version \in Nat /\ h.selection.version \in Nat
    BY <1>2, <1>5 DEF Selection
  <2>2. mailbox'[h.node] = IF mailbox[h.node].version < h.selection.version THEN h.selection ELSE mailbox[h.node]
    BY <1>2, <1>5, <1>6
  <2> QED
    BY <1>2, <1>5, <1>6, <2>1, <2>2
<1>8. /\ changes' \in [Threads -> Seq(Change)] /\ changes'[t] = Tail(changes[t])
      /\ \A u \in Threads \ {t} : changes'[u] = changes[u]
  BY <1>1, <1>2, <1>3
<1>9. StageType'
  BY <1>1, <1>7, <1>8 DEF FlowOK, StageType
<1>10. Stages'
  <2>1. \A n \in Nodes : mailbox'[n] # NoSelection => n \in nodes /\ Resource(n)
    BY <1>4, <1>7 DEF FlowOK, Stages
  <2> QED
    BY <1>1, <2>1 DEF FlowOK, Stages
<1>11. Flags'
  BY <1>1, <1>8 DEF FlowOK, Flags
<1>12. Traced' /\ Ties' /\ Newest'
  <2>1. ASSUME NEW n \in Nodes PROVE Known(n)' \subseteq Known(n) \cup {NoSelection}
    <3> SUFFICES ASSUME NEW o \in Known(n)' PROVE o \in Known(n)
      OBVIOUS
    <3>1. /\ copy[n] \in Known(n) /\ applied[n] \in Known(n) /\ mailbox[n] \in Known(n)
          /\ \A u \in Threads : \A i \in DOMAIN changes[u] : changes[u][i].node = n => changes[u][i].selection \in Known(n)
      BY <1>2, KnownType DEF FlowOK
    <3>2. \/ o \in {copy[n], applied[n], mailbox'[n]}
          \/ \E u \in Threads : \E i \in DOMAIN changes'[u] : changes'[u][i].node = n /\ o = changes'[u][i].selection
      BY <1>1 DEF Known
    <3>3. mailbox'[n] \in Known(n)
      BY <1>3, <1>7, <3>1
    <3>4. ASSUME NEW u \in Threads, NEW i \in DOMAIN changes'[u], changes'[u][i].node = n
          PROVE  changes'[u][i].selection \in Known(n)
      <4>1. CASE u = t
        <5>1. i + 1 \in DOMAIN changes[t] /\ changes'[t][i] = changes[t][i + 1]
          BY <1>3, <1>8, <3>4, <4>1
        <5> QED
          BY <3>1, <3>4, <4>1, <5>1
      <4>2. CASE u # t
        BY <1>8, <3>1, <3>4, <4>2
      <4> QED
        BY <4>1, <4>2
    <3> QED
      BY <3>1, <3>2, <3>3, <3>4
  <2>2. ASSUME NEW u \in Threads, NEW i \in DOMAIN changes'[u]
        PROVE  changes'[u][i].node \in nodes /\ Resource(changes'[u][i].node)
    <3>1. CASE u = t
      <4>1. i + 1 \in DOMAIN changes[t] /\ changes'[t][i] = changes[t][i + 1]
        BY <1>3, <1>8, <2>2, <3>1
      <4> QED
        BY <3>1, <4>1 DEF FlowOK, Traced
    <3>2. CASE u # t
      BY <1>8, <2>2, <3>2 DEF FlowOK, Traced
    <3> QED
      BY <3>1, <3>2
  <2>3. ASSUME NEW n \in nodes, NEW s \in Known(n) PROVE \E o \in Known(n)' : s.version <= o.version
    <3>1. n \in Nodes
      BY <1>2
    <3>2. s \in Selection
      BY <1>2, <3>1, KnownType DEF FlowOK
    <3>3. s.version <= s.version
      BY <3>2 DEF Selection
    <3>4. /\ copy[n] \in Known(n)' /\ applied[n] \in Known(n)' /\ mailbox'[n] \in Known(n)'
          /\ \A u \in Threads : \A i \in DOMAIN changes'[u] : changes'[u][i].node = n => changes'[u][i].selection \in Known(n)'
      <4>1. /\ copy'[n] \in Known(n)' /\ applied'[n] \in Known(n)' /\ mailbox'[n] \in Known(n)'
        BY DEF Known
      <4>2. \A u \in Threads : \A i \in DOMAIN changes'[u] : changes'[u][i].node = n => changes'[u][i].selection \in Known(n)'
        BY DEF Known
      <4>3. copy' = copy /\ applied' = applied
        BY <1>1
      <4> QED
        BY <4>1, <4>2, <4>3
    <3>5. CASE s \in {copy[n], applied[n]}
      BY <3>3, <3>4, <3>5
    <3>6. CASE s = mailbox[n]
      BY <1>7, <3>1, <3>3, <3>4, <3>6
    <3>7. ASSUME NEW u \in Threads, NEW i \in DOMAIN changes[u], changes[u][i].node = n, s = changes[u][i].selection
          PROVE  \E o \in Known(n)' : s.version <= o.version
      <4>1. CASE u # t
        BY <1>8, <3>3, <3>4, <3>7, <4>1
      <4>2. CASE u = t /\ i = 1
        BY <1>3, <1>7, <3>4, <3>7, <4>2
      <4>3. CASE u = t /\ i # 1
        <5>1. i - 1 \in DOMAIN changes'[t] /\ changes'[t][i - 1] = changes[t][i]
          BY <1>3, <1>8, <3>7, <4>3
        <5> QED
          BY <3>3, <3>4, <3>7, <4>3, <5>1
      <4> QED
        BY <4>1, <4>2, <4>3
    <3> QED
      BY <3>5, <3>6, <3>7, KnownFrom
  <2> QED
    BY <1>1, <1>2, <1>9, <2>1, <2>2, <2>3, FlowKept DEF FlowOK
<1> QED
  BY <1>9, <1>10, <1>11, <1>12 DEF FlowOK

LEMMA EndTransferFlow ==
  ASSUME GraphOK, FlowOK, ClassOK(Class), NEW t \in Threads, EndTransfer(t)
  PROVE  FlowOK'
<1>1. /\ transfer = t /\ changes[t] = <<>> /\ demandPending' = (dirty # <<>>) /\ transfer' = None
      /\ UNCHANGED <<nodes, selection, front, back, dirty, updatesPending, mailbox, changes, life, applied, copy,
                     done, handedOff>>
  BY DEF EndTransfer, PendingUpdates, graphVars, jobVars, queueVars
<1>2. StageType'
  BY <1>1 DEF FlowOK, StageType
<1>3. Stages'
  BY <1>1 DEF FlowOK, Stages
<1>4. Flags'
  <2>1. HasMail(mailbox)' = HasMail(mailbox)
    BY <1>1 DEF HasMail
  <2>2. \A u \in Threads : changes'[u] = <<>>
    BY <1>1 DEF FlowOK, Flags
  <2> QED
    BY <1>1, <2>1, <2>2 DEF FlowOK, Flags
<1>5. \A n \in Nodes : Known(n)' = Known(n)
  BY <1>1, KnownSame
<1>6. Traced'
  BY <1>1, <1>5 DEF FlowOK, Traced
<1>7. Ties'
  BY <1>1, <1>5 DEF FlowOK, Ties, All
<1>8. Newest'
  BY <1>1, <1>5 DEF FlowOK, Newest, GraphOK, GraphType
<1> QED
  BY <1>2, <1>3, <1>4, <1>6, <1>7, <1>8 DEF FlowOK

\* The new node's first selection is with its submitter.
LEMMA RegisterFlow ==
  ASSUME GraphOK, FlowOK, ClassOK(Class), NEW n \in Nodes, Register(n)
  PROVE  /\ FlowOK' /\ life' \in [Nodes -> Lives] /\ applied' = applied
         /\ \A m \in Nodes : m # n => life'[m] = life[m]
         /\ life[n] = "admitted" /\ life'[n] \in {"waiting", "registered"}
<1> DEFINE new == [rank |-> Baseline[n], active |-> Baseline[n] # NoRank, tie |-> back, version |-> 1]
<1>1. /\ nodes' = nodes \cup {n} /\ selection' = [selection EXCEPT ![n] = new] /\ back' = back + 1
      /\ life[n] = "admitted" /\ front' = front /\ demandPending' = TRUE
      /\ UNCHANGED <<updatesPending, mailbox, transfer, changes, applied, done, handedOff>>
  BY DEF Register, Fresh, threadVars, queueVars
<1>2. \/ n \in External /\ life' = [life EXCEPT ![n] = "waiting"] /\ copy' = copy
      \/ n \notin External /\ life' = [life EXCEPT ![n] = "registered"] /\ copy' = [copy EXCEPT ![n] = new]
  BY DEF Register, Fresh
<1>3. /\ applied \in [Nodes -> Selection] /\ nodes \subseteq Nodes /\ life \in [Nodes -> Lives]
      /\ copy \in [Nodes -> Selection] /\ selection \in [Nodes -> Selection] /\ back \in Int /\ front \in Int
  BY ClassTypes DEF FlowOK, StageType, GraphOK, GraphType
<1>4. Baseline[n] \in Ranks \cup {NoRank} /\ (Resource(n) => Baseline[n] \in Ranks)
  BY DemandAssumption DEF DemandAssumption, Resource
<1>5. new \in Selection /\ new.version = 1 /\ new.rank = Baseline[n] /\ new.tie = back
  BY <1>3, <1>4 DEF Selection
<1> HIDE DEF new
<1>6. n \notin nodes /\ selection[n] = NoSelection
  BY <1>1 DEF GraphOK, Placed
<1>7. NoSelection.version = 0 /\ NoSelection \in Selection
  BY DEF NoSelection, Selection
<1>8. Known(n) \subseteq {NoSelection}
  <2> SUFFICES ASSUME NEW o \in Known(n) PROVE o = NoSelection
    OBVIOUS
  <2>1. Behind(o, NoSelection)
    BY <1>6 DEF FlowOK, Traced
  <2>2. o.version \in Nat
    BY <1>3, KnownType DEF FlowOK, Selection
  <2> QED
    BY <1>7, <2>1, <2>2 DEF Behind
<1>9. /\ life' \in [Nodes -> Lives] /\ copy' \in [Nodes -> Selection] /\ selection' \in [Nodes -> Selection]
      /\ \A m \in Nodes : m # n => life'[m] = life[m] /\ copy'[m] = copy[m] /\ selection'[m] = selection[m]
      /\ selection'[n] = new
      /\ \/ n \in External /\ life'[n] = "waiting" /\ copy'[n] = copy[n]
         \/ n \notin External /\ life'[n] = "registered" /\ copy'[n] = new
  BY <1>1, <1>2, <1>3, <1>5 DEF Lives
<1>10. /\ copy[n] = NoSelection /\ applied[n] = NoSelection
  <2>1. copy[n] \in Known(n) /\ applied[n] \in Known(n)
    BY DEF Known
  <2> QED
    BY <1>8, <2>1
<1>11. StageType'
  BY <1>1, <1>9 DEF FlowOK, StageType
<1>12. Stages'
  <2>1. \A m \in Nodes : copy'[m] # NoSelection => life'[m] = "registered"
    BY <1>9, <1>10 DEF FlowOK, Stages
  <2>2. \A m \in Nodes : life'[m] = "registered" => copy'[m].version > 0
    BY <1>5, <1>9 DEF FlowOK, Stages
  <2>3. \A m \in Nodes : life'[m] \in {"registered", "ready", "deferred", "handed"} => m \in Jobs
    BY <1>9 DEF FlowOK, Stages, Jobs
  <2>4. \A m \in Nodes : mailbox'[m] # NoSelection => m \in nodes' /\ Resource(m)
    BY <1>1 DEF FlowOK, Stages
  <2>5. \A m \in Jobs : life'[m] \in {"waiting", "ready", "deferred", "handed"} => applied'[m].version > 0
    BY <1>1, <1>9 DEF FlowOK, Stages, Jobs
  <2>6. \A m \in Nodes : life'[m] \in {"none", "admitted", "removing", "gone"} => applied'[m] = NoSelection
    BY <1>1, <1>9 DEF FlowOK, Stages
  <2> QED
    BY <2>1, <2>2, <2>3, <2>4, <2>5, <2>6 DEF Stages
<1>13. Flags'
  <2>1. HasMail(mailbox)' = HasMail(mailbox)
    BY <1>1 DEF HasMail
  <2>2. dirty' # <<>>
    BY RegisterGraph, ClassTypes
  <2> QED
    BY <1>1, <2>1, <2>2 DEF FlowOK, Flags
<1>14. /\ \A m \in Nodes : m # n => Known(m)' = Known(m)
       /\ Known(n)' \subseteq {NoSelection, new}
       /\ n \notin External => new \in Known(n)'
  <2>1. ASSUME NEW m \in Nodes, m # n PROVE Known(m)' = Known(m)
    BY <1>1, <1>9, <2>1 DEF Known
  <2>2. Known(n)' \subseteq Known(n) \cup {copy'[n]}
    BY <1>1 DEF Known
  <2>3. copy'[n] \in Known(n)'
    BY DEF Known
  <2> QED
    BY <1>8, <1>9, <1>10, <2>1, <2>2, <2>3
<1>15. Traced'
  <2>1. ASSUME NEW m \in Nodes, NEW o \in Known(m)'
        PROVE  Behind(o, selection'[m]) /\ (Resource(m) /\ o.version > 0 => o.rank \in Ranks)
    <3>1. CASE m # n
      BY <1>9, <1>14, <2>1, <3>1 DEF FlowOK, Traced
    <3>2. CASE m = n
      <4>1. o \in {NoSelection, new} /\ selection'[m] = new
        BY <1>9, <1>14, <2>1, <3>2
      <4>2. Behind(NoSelection, new) /\ Behind(new, new)
        BY <1>5, <1>7 DEF Behind
      <4> QED
        BY <1>4, <1>5, <1>7, <3>2, <4>1, <4>2
    <3> QED
      BY <3>1, <3>2
  <2>2. \A t \in Threads : \A i \in DOMAIN changes'[t] :
          changes'[t][i].node \in nodes' /\ Resource(changes'[t][i].node)
    BY <1>1 DEF FlowOK, Traced
  <2> QED
    BY <2>1, <2>2 DEF Traced
<1>16. Newest'
  <2> SUFFICES ASSUME NEW m \in nodes', Resource(m), life'[m] # "removing"
               PROVE  \E s \in Known(m)' : s.version = selection'[m].version
    BY DEF Newest
  <2>1. CASE m = n
    BY <1>9, <1>14, <2>1 DEF Resource, Jobs
  <2>2. CASE m # n
    <3>1. m \in nodes /\ m \in Nodes
      BY <1>1, <1>3, <2>2
    <3> QED
      BY <1>9, <1>14, <2>2, <3>1 DEF FlowOK, Newest
  <2> QED
    BY <2>1, <2>2
<1>17. Ties'
  <2>1. ASSUME NEW m \in Nodes, NEW s \in All(m)', s.version > 0
        PROVE  (s \in All(m) /\ s.tie \in Int /\ front < s.tie /\ s.tie < back /\ s.tie # 0) \/ (m = n /\ s.tie = back)
    <3>1. CASE m # n
      <4>1. s \in All(m)
        BY <1>9, <1>14, <2>1, <3>1 DEF All
      <4>2. s \in Selection
        BY <1>3, <4>1, KnownType DEF All, FlowOK
      <4> QED
        BY <2>1, <4>1, <4>2 DEF FlowOK, Ties, Selection
    <3>2. CASE m = n
      BY <1>5, <1>7, <1>9, <1>14, <2>1, <3>2 DEF All
    <3> QED
      BY <3>1, <3>2
  <2>2. front < 0 /\ 0 < back
    BY DEF FlowOK, Ties
  <2>3. ASSUME NEW m \in Nodes, NEW s \in All(m)', s.version > 0
        PROVE  front < s.tie /\ s.tie < back + 1 /\ s.tie # 0
    BY <1>3, <2>1, <2>2, <2>3
  <2>4. ASSUME NEW m \in Nodes, NEW l \in Nodes, m # l, NEW s \in All(m)', NEW o \in All(l)',
               s.version > 0, o.version > 0
        PROVE  s.tie # o.tie
    <3>1. CASE s \in All(m) /\ o \in All(l)
      BY <2>4, <3>1 DEF FlowOK, Ties
    <3>2. (s \in All(m) /\ s.tie \in Int /\ s.tie < back) \/ (m = n /\ s.tie = back)
      BY <2>1, <2>4
    <3>3. (o \in All(l) /\ o.tie \in Int /\ o.tie < back) \/ (l = n /\ o.tie = back)
      BY <2>1, <2>4
    <3> QED
      BY <1>3, <2>4, <3>1, <3>2, <3>3
  <2>5. front' < 0 /\ 0 < back'
    BY <1>1, <1>3, <2>2
  <2> QED
    BY <1>1, <2>3, <2>4, <2>5 DEF Ties
<1> QED
  BY <1>1, <1>9, <1>11, <1>12, <1>13, <1>15, <1>16, <1>17 DEF FlowOK

\* A removed node leaves nothing on the way.
LEMMA RemoveFlow ==
  ASSUME GraphOK, FlowOK, ClassOK(Class), NEW n \in Nodes, RemoveNode(n)
  PROVE  /\ FlowOK' /\ life' \in [Nodes -> Lives] /\ applied' = applied
         /\ \A m \in Nodes : m # n => life'[m] = life[m]
         /\ life[n] = "removing" /\ life'[n] = "gone"
<1>1. /\ life[n] = "removing" /\ transfer = None
      /\ nodes' = nodes \ {n} /\ selection' = [selection EXCEPT ![n] = NoSelection]
      /\ demandPending' = (dirty' # <<>>) /\ mailbox' = Erased(n)
      /\ updatesPending' = IF Resource(n) THEN HasMail(Erased(n)) ELSE updatesPending
      /\ life' = [life EXCEPT ![n] = "gone"]
      /\ UNCHANGED <<front, back, transfer, changes, done, copy, applied, handedOff>>
  BY DEF RemoveNode, PendingUpdates, queueVars
<1>2. /\ applied \in [Nodes -> Selection] /\ mailbox \in [Nodes -> Selection] /\ copy \in [Nodes -> Selection]
      /\ nodes \subseteq Nodes /\ life \in [Nodes -> Lives] /\ selection \in [Nodes -> Selection]
  BY ClassTypes DEF FlowOK, StageType, GraphOK, GraphType
<1>3. NoSelection.version = 0 /\ NoSelection \in Selection
  BY DEF NoSelection, Selection
<1>4. /\ life' \in [Nodes -> Lives] /\ selection' \in [Nodes -> Selection]
      /\ \A m \in Nodes : m # n => life'[m] = life[m] /\ selection'[m] = selection[m]
      /\ selection'[n] = NoSelection /\ life'[n] = "gone"
  BY <1>1, <1>2, <1>3 DEF Lives
<1>5. /\ mailbox' \in [Nodes -> Selection] /\ mailbox'[n] = NoSelection
      /\ \A m \in Nodes : m # n => mailbox'[m] = mailbox[m]
  <2>1. CASE Resource(n)
    BY <1>1, <1>2, <1>3, <2>1 DEF Erased
  <2>2. CASE ~Resource(n)
    BY <1>1, <1>2, <2>2 DEF Erased, FlowOK, Stages
  <2> QED
    BY <2>1, <2>2
<1>6. copy[n] = NoSelection /\ applied[n] = NoSelection
  BY <1>1 DEF FlowOK, Stages
<1>7. ASSUME NEW t \in Threads PROVE changes[t] = <<>>
  <2>1. transfer # t
    BY <1>1, DemandAssumption DEF DemandAssumption
  <2> QED
    BY <2>1 DEF FlowOK, Flags
<1>8. \A t \in Threads : DOMAIN changes[t] = {}
  BY <1>7
<1>9. /\ \A m \in Nodes : m # n => Known(m)' = Known(m)
      /\ Known(n)' \subseteq {NoSelection}
  <2>1. ASSUME NEW m \in Nodes, m # n PROVE Known(m)' = Known(m)
    BY <1>1, <1>5, <2>1 DEF Known
  <2>2. Known(n)' \subseteq {NoSelection}
    BY <1>1, <1>5, <1>6, <1>8 DEF Known
  <2> QED
    BY <2>1, <2>2
<1>10. StageType'
  <2>1. demandPending' \in BOOLEAN
    BY <1>1
  <2>2. updatesPending' \in BOOLEAN
    <3>1. HasMail(Erased(n)) \in BOOLEAN
      BY DEF HasMail
    <3> QED
      BY <1>1, <3>1 DEF FlowOK, StageType
  <2> QED
    BY <1>1, <1>5, <2>1, <2>2 DEF FlowOK, StageType
<1>11. Stages'
  <2>1. \A m \in Nodes : copy'[m] # NoSelection => life'[m] = "registered"
    BY <1>1, <1>4, <1>6 DEF FlowOK, Stages
  <2>2. \A m \in Nodes : life'[m] = "registered" => copy'[m].version > 0
    BY <1>1, <1>4 DEF FlowOK, Stages
  <2>3. \A m \in Nodes : life'[m] \in {"registered", "ready", "deferred", "handed"} => m \in Jobs
    BY <1>4 DEF FlowOK, Stages
  <2>4. \A m \in Nodes : mailbox'[m] # NoSelection => m \in nodes' /\ Resource(m)
    BY <1>1, <1>5 DEF FlowOK, Stages
  <2>5. \A m \in Jobs : life'[m] \in {"waiting", "ready", "deferred", "handed"} => applied'[m].version > 0
    BY <1>1, <1>4 DEF FlowOK, Stages, Jobs
  <2>6. \A m \in Nodes : life'[m] \in {"none", "admitted", "removing", "gone"} => applied'[m] = NoSelection
    BY <1>1, <1>4, <1>6 DEF FlowOK, Stages
  <2> QED
    BY <2>1, <2>2, <2>3, <2>4, <2>5, <2>6 DEF Stages
<1>12. Flags'
  <2>1. HasMail(mailbox') => updatesPending'
    <3>1. CASE Resource(n)
      BY <1>1, <3>1
    <3>2. CASE ~Resource(n)
      BY <1>1, <3>2 DEF Erased, FlowOK, Flags
    <3> QED
      BY <3>1, <3>2
  <2>2. \A t \in Threads : changes'[t] = <<>>
    BY <1>1, <1>7
  <2>3. HasMail(mailbox)' = HasMail(mailbox')
    BY DEF HasMail
  <2> QED
    BY <1>1, <2>1, <2>2, <2>3 DEF Flags
<1>13. Traced'
  <2>1. ASSUME NEW m \in Nodes, NEW o \in Known(m)'
        PROVE  Behind(o, selection'[m]) /\ (Resource(m) /\ o.version > 0 => o.rank \in Ranks)
    <3>1. CASE m # n
      BY <1>4, <1>9, <2>1, <3>1 DEF FlowOK, Traced
    <3>2. CASE m = n
      <4>1. Behind(NoSelection, NoSelection)
        BY <1>3 DEF Behind
      <4> QED
        BY <1>3, <1>4, <1>9, <2>1, <3>2, <4>1
    <3> QED
      BY <3>1, <3>2
  <2>2. \A t \in Threads : \A i \in DOMAIN changes'[t] :
          changes'[t][i].node \in nodes' /\ Resource(changes'[t][i].node)
    BY <1>1, <1>8
  <2> QED
    BY <2>1, <2>2 DEF Traced
<1>14. Newest'
  <2> SUFFICES ASSUME NEW m \in nodes', Resource(m), life'[m] # "removing"
               PROVE  \E s \in Known(m)' : s.version = selection'[m].version
    BY DEF Newest
  <2>1. m \in nodes /\ m # n /\ m \in Nodes
    BY <1>1, <1>2
  <2> QED
    BY <1>4, <1>9, <2>1 DEF FlowOK, Newest
<1>15. Ties'
  <2>1. ASSUME NEW m \in Nodes, NEW s \in All(m)', s.version > 0 PROVE s \in All(m)
    <3>1. CASE m # n
      BY <1>4, <1>9, <2>1, <3>1 DEF All
    <3>2. CASE m = n
      BY <1>3, <1>4, <1>9, <2>1, <3>2 DEF All
    <3> QED
      BY <3>1, <3>2
  <2>2. \A m \in Nodes : \A s \in All(m)' : s.version > 0 => front < s.tie /\ s.tie < back /\ s.tie # 0
    BY <2>1 DEF FlowOK, Ties
  <2>3. \A m, l \in Nodes : m # l => \A s \in All(m)', o \in All(l)' : s.version > 0 /\ o.version > 0 => s.tie # o.tie
    BY <2>1 DEF FlowOK, Ties
  <2> QED
    BY <1>1, <2>2, <2>3 DEF FlowOK, Ties
<1> QED
  BY <1>1, <1>4, <1>10, <1>11, <1>12, <1>13, <1>14, <1>15 DEF FlowOK

\* What the visits changed is with the thread that holds the transfer.
LEMMA ServiceFlow ==
  ASSUME GraphOK, FlowOK, ClassOK(Class), NEW t \in Threads, Service(t)
  PROVE  FlowOK'
<1> DEFINE g == Serviced
<1>1. Sound(g) /\ selection' = g.selection
  BY ServiceGraph
<1>2. /\ demandPending /\ transfer = None /\ transfer' = t /\ changes' = [changes EXCEPT ![t] = g.changes]
      /\ UNCHANGED <<nodes, front, back, demandPending, updatesPending, mailbox, life, applied, copy, done, handedOff>>
  BY DEF Service, flagVars, jobVars, queueVars
<1> HIDE DEF g
<1>3. /\ applied \in [Nodes -> Selection] /\ nodes \subseteq Nodes /\ selection \in [Nodes -> Selection]
      /\ changes \in [Threads -> Seq(Change)] /\ dirty \in Seq(Nodes) /\ ToSet(dirty) \subseteq nodes
  BY ClassTypes DEF FlowOK, StageType, GraphOK, GraphType
<1>4. /\ g.changes \in Seq(Change) /\ g.selection \in [Nodes -> Selection]
      /\ \A n \in Nodes : Progressed(g, n)
      /\ \A i \in DOMAIN g.changes : NewChange(g, g.changes[i]) /\ Resource(g.changes[i].node)
  BY <1>1 DEF Sound, Round
<1>5. changes' \in [Threads -> Seq(Change)] /\ changes'[t] = g.changes /\ \A u \in Threads : u # t => changes'[u] = changes[u]
  BY <1>2, <1>3, <1>4
<1>6. ASSUME NEW u \in Threads PROVE changes[u] = <<>> /\ DOMAIN changes[u] = {}
  <2>1. transfer # u
    BY <1>2, DemandAssumption DEF DemandAssumption
  <2>2. changes[u] = <<>>
    BY <2>1 DEF FlowOK, Flags
  <2> QED
    BY <2>2
<1>7. StageType'
  BY <1>2, <1>5 DEF FlowOK, StageType
<1>8. Stages'
  BY <1>2 DEF FlowOK, Stages
<1>9. Flags'
  <2>1. dirty # <<>>
    BY <1>2 DEF FlowOK, Flags
  <2>2. nodes # {}
    BY <1>3, <2>1, Elements
  <2>3. HasMail(mailbox)' = HasMail(mailbox)
    BY <1>2 DEF HasMail
  <2>4. transfer' # None
    BY <1>2, DemandAssumption DEF DemandAssumption
  <2>5. \A u \in Threads : transfer' # u => changes'[u] = <<>>
    BY <1>2, <1>5, <1>6
  <2> QED
    BY <1>2, <2>2, <2>3, <2>4, <2>5 DEF FlowOK, Flags
<1>10. ASSUME NEW n \in Nodes, NEW o \in Known(n)'
       PROVE  \/ o \in Known(n)
              \/ \E i \in DOMAIN g.changes : g.changes[i].node = n /\ o = g.changes[i].selection
  <2>1. \/ o \in {copy[n], applied[n], mailbox[n]}
        \/ \E u \in Threads : \E i \in DOMAIN changes'[u] : changes'[u][i].node = n /\ o = changes'[u][i].selection
    BY <1>2 DEF Known
  <2>2. o \in {copy[n], applied[n], mailbox[n]} => o \in Known(n)
    BY DEF Known
  <2> QED
    BY <1>5, <1>6, <2>1, <2>2
<1>11. ASSUME NEW n \in Nodes PROVE Known(n) \subseteq Known(n)'
  <2>1. ASSUME NEW o \in Known(n) PROVE o \in {copy[n], applied[n], mailbox[n]}
    BY <1>6, KnownFrom
  <2> QED
    BY <1>2, <2>1 DEF Known
<1>12. \A n \in Nodes : selection[n].version \in Nat /\ g.selection[n].version \in Nat
  BY <1>3, <1>4 DEF Selection
<1>13. ASSUME NEW n \in Nodes, NEW o \in Known(n) PROVE Behind(o, g.selection[n])
  <2>1. Behind(o, selection[n])
    BY DEF FlowOK, Traced
  <2>2. Progressed(g, n)
    BY <1>4
  <2>3. o.version \in Nat
    BY <1>3, KnownType DEF FlowOK, Selection
  <2> QED
    BY <1>12, <2>1, <2>2, <2>3 DEF Behind, Progressed
<1>14. Traced'
  <2>1. ASSUME NEW n \in Nodes, NEW o \in Known(n)'
        PROVE  Behind(o, g.selection[n]) /\ (Resource(n) /\ o.version > 0 => o.rank \in Ranks)
    <3>1. CASE o \in Known(n)
      BY <1>13, <3>1 DEF FlowOK, Traced
    <3>2. ASSUME NEW i \in DOMAIN g.changes, g.changes[i].node = n, o = g.changes[i].selection
          PROVE  Behind(o, g.selection[n]) /\ (Resource(n) /\ o.version > 0 => o.rank \in Ranks)
      BY <1>4, <3>2 DEF NewChange
    <3> QED
      BY <1>10, <2>1, <3>1, <3>2
  <2>2. ASSUME NEW u \in Threads, NEW i \in DOMAIN changes'[u]
        PROVE  changes'[u][i].node \in nodes /\ Resource(changes'[u][i].node)
    <3>1. u = t
      BY <1>5, <1>6, <2>2
    <3>2. NewChange(g, g.changes[i]) /\ Resource(g.changes[i].node)
      BY <1>4, <1>5, <2>2, <3>1
    <3> QED
      BY <1>5, <3>1, <3>2 DEF NewChange
  <2> QED
    BY <1>1, <1>2, <2>1, <2>2 DEF Traced
<1>15. Newest'
  <2> SUFFICES ASSUME NEW n \in nodes, Resource(n), life[n] # "removing"
               PROVE  \E s \in Known(n)' : s.version = g.selection[n].version
    BY <1>1, <1>2 DEF Newest
  <2>1. n \in Nodes /\ Progressed(g, n)
    BY <1>3, <1>4
  <2>2. CASE g.selection[n] = selection[n]
    BY <1>11, <2>1, <2>2 DEF FlowOK, Newest
  <2>3. CASE Carries(g.changes, [node |-> n, selection |-> g.selection[n]])
    <3>1. PICK i \in DOMAIN g.changes : g.changes[i] = [node |-> n, selection |-> g.selection[n]]
      BY <2>3 DEF Carries
    <3>2. changes'[t][i].node = n /\ changes'[t][i].selection = g.selection[n] /\ i \in DOMAIN changes'[t]
      BY <1>5, <3>1
    <3>3. g.selection[n] \in Known(n)'
      BY <3>2 DEF Known
    <3> QED
      BY <3>3
  <2> QED
    BY <2>1, <2>2, <2>3 DEF Progressed
<1>16. Ties'
  <2>1. ASSUME NEW n \in Nodes, NEW s \in All(n)', s.version > 0
        PROVE  \E o \in All(n) : o.version > 0 /\ o.tie = s.tie
    <3>1. CASE s \in Known(n)
      BY <2>1, <3>1 DEF All
    <3>2. ASSUME NEW i \in DOMAIN g.changes, g.changes[i].node = n, s = g.changes[i].selection
          PROVE  \E o \in All(n) : o.version > 0 /\ o.tie = s.tie
      <4>1. n \in nodes /\ s.tie = selection[n].tie
        BY <1>4, <3>2 DEF NewChange
      <4>2. selection[n].version > 0
        BY <4>1 DEF GraphOK, Placed
      <4> QED
        BY <4>1, <4>2 DEF All
    <3>3. CASE s = g.selection[n]
      <4>1. Progressed(g, n)
        BY <1>4
      <4>2. s.tie = selection[n].tie
        BY <3>3, <4>1 DEF Progressed
      <4>3. selection[n].version > 0
        <5>1. n \in nodes => selection[n].version > 0
          BY DEF GraphOK, Placed
        <5> QED
          BY <2>1, <3>3, <4>1, <5>1 DEF Progressed
      <4> QED
        BY <4>2, <4>3 DEF All
    <3>4. s \in Known(n)' \/ s = g.selection[n]
      BY <1>1, <2>1 DEF All
    <3> QED
      BY <1>10, <3>1, <3>2, <3>3, <3>4
  <2>2. \A n \in Nodes : \A s \in All(n)' : s.version > 0 => front < s.tie /\ s.tie < back /\ s.tie # 0
    BY <2>1 DEF FlowOK, Ties
  <2>3. \A n, m \in Nodes : n # m => \A s \in All(n)', o \in All(m)' : s.version > 0 /\ o.version > 0 => s.tie # o.tie
    <3> SUFFICES ASSUME NEW n \in Nodes, NEW m \in Nodes, n # m, NEW s \in All(n)', NEW o \in All(m)',
                        s.version > 0, o.version > 0
                 PROVE  s.tie # o.tie
      OBVIOUS
    <3>1. PICK s0 \in All(n) : s0.version > 0 /\ s0.tie = s.tie
      BY <2>1
    <3>2. PICK o0 \in All(m) : o0.version > 0 /\ o0.tie = o.tie
      BY <2>1
    <3> QED
      BY <3>1, <3>2 DEF FlowOK, Ties
  <2> QED
    BY <1>2, <2>2, <2>3 DEF FlowOK, Ties
<1> QED
  BY <1>7, <1>8, <1>9, <1>14, <1>15, <1>16 DEF FlowOK

-----------------------------------------------------------------------------
(* The hooks and the readings of quiescence, step by step *)

HooksOK == HookType /\ Informed /\ Counted /\ Quiet

\* The announcements of one thread.
Tally(t, k) == {t} \X (1 .. k)

LEMMA TallySize ==
  ASSUME NEW t, NEW k \in Nat
  PROVE  IsFiniteSet(Tally(t, k)) /\ Cardinality(Tally(t, k)) = k
<1>1. IsFiniteSet(1 .. k) /\ Cardinality(1 .. k) = k
  BY FS_Interval
<1>2. IsFiniteSet({t}) /\ Cardinality({t}) = 1
  BY FS_Singleton
<1>3. IsFiniteSet(Tally(t, k)) /\ Cardinality(Tally(t, k)) = Cardinality({t}) * Cardinality(1 .. k)
  BY <1>1, <1>2, FS_Product DEF Tally
<1> QED
  BY <1>1, <1>2, <1>3

LEMMA AnnouncedTally ==
  ASSUME HookType, NEW t \in Threads, NEW p
  PROVE  /\ p \in Tally(t, counted[t]) <=> p \in Announced /\ p[1] = t
         /\ p \in Announced <=> p \in Threads \X Nat /\ p[2] \in 1 .. counted[p[1]]
<1>1. \A u \in Threads : counted[u] \in Nat
  BY DEF HookType
<1>2. p \in Announced <=> p \in Threads \X Nat /\ p[2] \in 1 .. counted[p[1]]
  BY <1>1 DEF Announced
<1>3. p \in Tally(t, counted[t]) => p \in Announced /\ p[1] = t
  BY <1>1, <1>2 DEF Tally
<1>4. p \in Announced /\ p[1] = t => p \in Tally(t, counted[t])
  BY <1>1, <1>2 DEF Tally
<1> QED
  BY <1>2, <1>3, <1>4

\* A thread with nothing announced announces its hooks.
LEMMA AnnouncedMore ==
  ASSUME HookType, Counted, NEW t \in Threads, counted[t] = 0, NEW k \in Nat,
         counted' = [counted EXCEPT ![t] = k], providerCallbacks' = providerCallbacks + k
  PROVE  IsFiniteSet(Announced') /\ providerCallbacks' = Cardinality(Announced') /\ providerCallbacks' \in Nat
<1>1. counted \in [Threads -> Nat] /\ counted' \in [Threads -> Nat] /\ providerCallbacks \in Nat
  BY DEF HookType
<1>2. IsFiniteSet(Tally(t, k)) /\ Cardinality(Tally(t, k)) = k
  BY TallySize
<1>3. Announced' = Announced \cup Tally(t, k)
  <2>1. ASSUME NEW p \in Announced' PROVE p \in Announced \cup Tally(t, k)
    BY <1>1 DEF Announced, Tally
  <2>2. ASSUME NEW p \in Announced PROVE p \in Announced'
    BY <1>1 DEF Announced
  <2>3. ASSUME NEW p \in Tally(t, k) PROVE p \in Announced'
    BY <1>1 DEF Announced, Tally
  <2> QED
    BY <2>1, <2>2, <2>3
<1>4. Announced \cap Tally(t, k) = {}
  BY <1>1 DEF Announced, Tally
<1>5. IsFiniteSet(Announced) /\ providerCallbacks = Cardinality(Announced)
  BY DEF Counted
<1>6. /\ IsFiniteSet(Announced')
      /\ Cardinality(Announced') = Cardinality(Announced) + k - Cardinality(Announced \cap Tally(t, k))
  BY <1>2, <1>3, <1>5, FS_Union
<1>7. Cardinality(Announced \cap Tally(t, k)) = 0
  BY <1>4, FS_EmptySet
<1> QED
  BY <1>1, <1>5, <1>6, <1>7

\* A thread takes its announcements back.
LEMMA AnnouncedLess ==
  ASSUME HookType, Counted, NEW t \in Threads,
         counted' = [counted EXCEPT ![t] = 0], providerCallbacks' = providerCallbacks - counted[t]
  PROVE  IsFiniteSet(Announced') /\ providerCallbacks' = Cardinality(Announced') /\ providerCallbacks' \in Nat
<1> DEFINE k == counted[t]
<1>1. counted \in [Threads -> Nat] /\ counted' \in [Threads -> Nat] /\ providerCallbacks \in Nat /\ k \in Nat
  BY DEF HookType
<1>2. IsFiniteSet(Tally(t, k)) /\ Cardinality(Tally(t, k)) = k
  BY <1>1, TallySize
<1>3. Announced' = Announced \ Tally(t, k)
  <2>1. ASSUME NEW p \in Announced' PROVE p \in Announced \ Tally(t, k)
    BY <1>1 DEF Announced, Tally
  <2>2. ASSUME NEW p \in Announced, p \notin Tally(t, k) PROVE p \in Announced'
    <3>1. p[1] # t
      BY <2>2, AnnouncedTally
    <3> QED
      BY <1>1, <2>2, <3>1 DEF Announced
  <2> QED
    BY <2>1, <2>2
<1>4. Announced \cap Tally(t, k) = Tally(t, k)
  BY AnnouncedTally
<1>5. IsFiniteSet(Announced) /\ providerCallbacks = Cardinality(Announced)
  BY DEF Counted
<1>6. /\ IsFiniteSet(Announced')
      /\ Cardinality(Announced') = Cardinality(Announced) - Cardinality(Announced \cap Tally(t, k))
  BY <1>3, <1>5, FS_Difference
<1>7. Cardinality(Announced') \in Nat
  BY <1>6, FS_CardinalityType
<1> QED
  BY <1>1, <1>2, <1>4, <1>5, <1>6, <1>7

\* Steps that call no hook and change no provider's node.
LEMMA HooksKept ==
  ASSUME HooksOK,
         UNCHANGED <<hooks, counted, providerCallbacks, seen, nodes, shown>>,
         \A n \in Nodes : /\ selection'[n].rank = selection[n].rank /\ selection'[n].active = selection[n].active
                          /\ selection'[n].version = selection[n].version,
         \A n \in Nodes : life[n] \notin {"none", "admitted"} => life'[n] \notin {"none", "admitted"}
  PROVE  Informed' /\ Counted'
<1>1. \A n : Told(n)' = Told(n)
  BY DEF Told
<1>2. Announced' = Announced
  BY DEF Announced
<1>3. Counted'
  BY <1>2 DEF HooksOK, Counted
<1>4. External \subseteq Nodes
  BY DemandAssumption DEF DemandAssumption
<1>5. \A n \in External \cap nodes' : \A o \in Told(n)' :
        Behind(o, selection'[n]) /\ (o.version = selection'[n].version => o.tie = shown'[n])
  BY <1>1, <1>4 DEF HooksOK, Informed, Behind
<1>6. \A n \in External \cap nodes' :
        shown'[n] = 0 \/ \E o \in Told(n)' : o.version = selection'[n].version
  BY <1>1, <1>4 DEF HooksOK, Informed
<1>7. \A t \in Threads : \A i \in DOMAIN hooks'[t] :
        hooks'[t][i].node \in External /\ life'[hooks'[t][i].node] \notin {"none", "admitted"}
  BY <1>4 DEF HooksOK, Informed
<1> QED
  BY <1>3, <1>5, <1>6, <1>7 DEF HooksOK, Informed

LEMMA NodesAreCharged ==
  ASSUME GraphOK, nodes # {}
  PROVE  Charged # {}
BY DEF GraphOK, GraphType, Placed, Charged

LEMMA QuietKept ==
  ASSUME Quiet, UNCHANGED reading,
         reading = "open" \/ \A n \in Nodes : life[n] \in {"none", "gone"} => life'[n] \in {"none", "gone"},
         demandPending' => demandPending \/ Charged # {},
         providerCallbacks = 0 /\ reading = "quiescent" => providerCallbacks' = 0
  PROVE  Quiet'
<1>1. reading # "open" => Charged = {} /\ Charged' = {}
  BY DEF Quiet, Charged
<1> QED
  BY <1>1 DEF Quiet

\* All steps that leave the hooks alone.
LEMMA HooksUntouched ==
  ASSUME GraphOK, HooksOK,
         UNCHANGED <<hooks, counted, providerCallbacks, seen, nodes, shown, reading>>,
         \A n \in Nodes : /\ selection'[n].rank = selection[n].rank /\ selection'[n].active = selection[n].active
                          /\ selection'[n].version = selection[n].version,
         \A n \in Nodes : life[n] \notin {"none", "admitted"} => life'[n] \notin {"none", "admitted"},
         reading = "open" \/ \A n \in Nodes : life[n] \in {"none", "gone"} => life'[n] \in {"none", "gone"},
         demandPending' => demandPending \/ nodes # {}
  PROVE  HooksOK'
<1>1. Informed' /\ Counted'
  BY HooksKept
<1>2. Quiet'
  BY NodesAreCharged, QuietKept DEF HooksOK
<1>3. HookType'
  BY DEF HooksOK, HookType
<1> QED
  BY <1>1, <1>2, <1>3 DEF HooksOK

LEMMA ToldType ==
  ASSUME HookType, NEW n \in Nodes
  PROVE  /\ Told(n) \subseteq Selection /\ seen[n] \in Told(n)
         /\ \A t \in Threads : \A i \in DOMAIN hooks[t] : hooks[t][i].node = n => hooks[t][i].selection \in Told(n)
<1>1. ASSUME NEW t \in Threads, NEW i \in DOMAIN hooks[t] PROVE hooks[t][i].selection \in Selection
  <2>1. hooks[t] \in Seq(Change)
    BY DEF HookType
  <2>2. hooks[t][i] \in Change
    BY <2>1, Elements
  <2> QED
    BY <2>2 DEF Change
<1>2. seen[n] \in Selection
  BY DEF HookType
<1>3. Told(n) \subseteq Selection
  BY <1>1, <1>2 DEF Told
<1> QED
  BY <1>3 DEF Told

LEMMA ToldFrom ==
  ASSUME NEW n, NEW o \in Told(n)
  PROVE  \/ o = seen[n]
         \/ \E t \in Threads : \E i \in DOMAIN hooks[t] : hooks[t][i].node = n /\ o = hooks[t][i].selection
BY DEF Told

\* What the visits changed of the providers' nodes is with the thread that calls their hooks.
LEMMA ServiceHooks ==
  ASSUME GraphOK, FlowOK, HooksOK, NEW t \in Threads, Service(t)
  PROVE  HooksOK'
<1> DEFINE g == Serviced
<1>1. Sound(g) /\ selection' = g.selection /\ shown' = g.shown
  BY ServiceGraph
<1>2. /\ demandPending /\ transfer = None /\ hooks[t] = <<>>
      /\ hooks' = [hooks EXCEPT ![t] = g.hooks] /\ counted' = [counted EXCEPT ![t] = Len(g.hooks)]
      /\ providerCallbacks' = providerCallbacks + Len(g.hooks)
      /\ UNCHANGED <<nodes, demandPending, seen, life, reading>>
  BY DEF Service, Idle, flagVars, jobVars
<1> HIDE DEF g
<1>3. /\ nodes \subseteq Nodes /\ selection \in [Nodes -> Selection] /\ External \subseteq Nodes
      /\ hooks \in [Threads -> Seq(Change)] /\ counted \in [Threads -> Nat] /\ seen \in [Nodes -> Selection]
  BY DemandAssumption DEF GraphOK, GraphType, HooksOK, HookType, DemandAssumption
<1>4. /\ g.hooks \in Seq(Change) /\ g.selection \in [Nodes -> Selection] /\ Len(g.hooks) \in Nat
      /\ \A n \in Nodes : Progressed(g, n)
      /\ \A i \in DOMAIN g.hooks : NewChange(g, g.hooks[i]) /\ g.hooks[i].node \in External
  BY <1>1, Elements DEF Sound, Round
<1>5. /\ hooks' \in [Threads -> Seq(Change)] /\ hooks'[t] = g.hooks /\ \A u \in Threads : u # t => hooks'[u] = hooks[u]
      /\ counted' \in [Threads -> Nat] /\ counted'[t] = Len(g.hooks) /\ \A u \in Threads : u # t => counted'[u] = counted[u]
  BY <1>2, <1>3, <1>4
<1>6. IsFiniteSet(Announced') /\ providerCallbacks' = Cardinality(Announced') /\ providerCallbacks' \in Nat
  <2>1. counted[t] = 0
    BY <1>2 DEF HooksOK, Counted
  <2> QED
    BY <1>2, <1>4, <2>1, AnnouncedMore DEF HooksOK
<1>7. HookType'
  BY <1>2, <1>5, <1>6 DEF HooksOK, HookType
<1>8. Counted'
  <2>1. ASSUME NEW u \in Threads PROVE Len(hooks'[u]) <= counted'[u] /\ (hooks'[u] = <<>> => counted'[u] = 0)
    <3>1. CASE u = t
      BY <1>4, <1>5, <3>1
    <3>2. CASE u # t
      BY <1>5, <3>2 DEF HooksOK, Counted
    <3> QED
      BY <3>1, <3>2
  <2> QED
    BY <1>6, <2>1 DEF Counted
<1>9. Quiet'
  <2>1. dirty # <<>>
    BY <1>2 DEF FlowOK, Flags
  <2>2. nodes # {}
    BY <2>1, Elements DEF GraphOK, GraphType
  <2>3. Charged # {}
    BY <2>2, NodesAreCharged
  <2>4. reading # "quiescent"
    BY <2>3 DEF HooksOK, Quiet
  <2> QED
    BY <1>2, <2>3, <2>4, QuietKept DEF HooksOK
<1>10. ASSUME NEW n \in Nodes, NEW o \in Told(n)'
       PROVE  \/ o \in Told(n)
              \/ \E i \in DOMAIN g.hooks : g.hooks[i].node = n /\ o = g.hooks[i].selection
  <2>1. \/ o = seen[n]
        \/ \E u \in Threads : \E i \in DOMAIN hooks'[u] : hooks'[u][i].node = n /\ o = hooks'[u][i].selection
    BY <1>2 DEF Told
  <2>2. seen[n] \in Told(n)
    BY DEF Told
  <2>3. ASSUME NEW u \in Threads, u # t, NEW i \in DOMAIN hooks'[u], hooks'[u][i].node = n
        PROVE  hooks'[u][i].selection \in Told(n)
    BY <1>5, <2>3 DEF Told
  <2> QED
    BY <1>5, <2>1, <2>2, <2>3
<1>11. ASSUME NEW n \in Nodes, NEW o \in Told(n) PROVE o \in Told(n)'
  <2>1. \/ o = seen[n]
        \/ \E u \in Threads : u # t /\ \E i \in DOMAIN hooks[u] : hooks[u][i].node = n /\ o = hooks[u][i].selection
    BY <1>2, ToldFrom
  <2>2. \A u \in Threads : u # t => hooks'[u] = hooks[u]
    BY <1>5
  <2>3. seen[n] \in Told(n)'
    BY <1>2 DEF Told
  <2>4. ASSUME NEW u \in Threads, u # t, NEW i \in DOMAIN hooks[u], hooks[u][i].node = n
        PROVE  hooks[u][i].selection \in Told(n)'
    BY <2>2, <2>4 DEF Told
  <2> QED
    BY <2>1, <2>3, <2>4
<1>12. \A n \in Nodes : selection[n].version \in Nat /\ g.selection[n].version \in Nat
  BY <1>3, <1>4 DEF Selection
<1>13. Informed'
  <2>1. ASSUME NEW u \in Threads, NEW i \in DOMAIN hooks'[u]
        PROVE  hooks'[u][i].node \in External /\ life[hooks'[u][i].node] \notin {"none", "admitted"}
    <3>1. CASE u = t
      <4>1. NewChange(g, g.hooks[i]) /\ g.hooks[i].node \in External
        BY <1>4, <1>5, <2>1, <3>1
      <4>2. g.hooks[i].node \in nodes
        BY <4>1 DEF NewChange
      <4>3. \A n \in nodes : life[n] \notin {"none", "admitted"}
        BY <1>3 DEF GraphOK, Placed
      <4> QED
        BY <1>5, <3>1, <4>1, <4>2, <4>3
    <3>2. CASE u # t
      BY <1>5, <2>1, <3>2 DEF HooksOK, Informed
    <3> QED
      BY <3>1, <3>2
  <2>2. ASSUME NEW n \in External \cap nodes, NEW o \in Told(n)'
        PROVE  Behind(o, g.selection[n]) /\ (o.version = g.selection[n].version => o.tie = g.shown[n])
    <3>1. n \in Nodes /\ Progressed(g, n)
      BY <1>3, <1>4
    <3>2. CASE o \in Told(n)
      <4>1. Behind(o, selection[n]) /\ (o.version = selection[n].version => o.tie = shown[n])
        BY <3>2 DEF HooksOK, Informed
      <4>2. o.version \in Nat
        BY <3>1, <3>2, ToldType DEF HooksOK, Selection
      <4>3. CASE g.selection[n] = selection[n] /\ g.shown[n] = shown[n]
        BY <4>1, <4>3
      <4>4. CASE selection[n].version < g.selection[n].version
        <5>1. o.version < g.selection[n].version
          BY <1>12, <3>1, <4>1, <4>2, <4>4 DEF Behind
        <5> QED
          BY <1>12, <3>1, <4>1, <4>2, <5>1 DEF Behind
      <4> QED
        BY <3>1, <4>3, <4>4 DEF Progressed
    <3>3. ASSUME NEW i \in DOMAIN g.hooks, g.hooks[i].node = n, o = g.hooks[i].selection
          PROVE  Behind(o, g.selection[n]) /\ (o.version = g.selection[n].version => o.tie = g.shown[n])
      <4>1. Behind(o, g.selection[n]) /\ selection[n].version < o.version /\ o.tie = selection[n].tie
        BY <1>4, <3>3 DEF NewChange
      <4>2. o.version = g.selection[n].version => g.selection[n] # selection[n]
        BY <1>12, <3>1, <4>1
      <4> QED
        BY <3>1, <4>1, <4>2 DEF Progressed
    <3> QED
      BY <1>10, <2>2, <3>1, <3>2, <3>3
  <2>3. ASSUME NEW n \in External \cap nodes
        PROVE  g.shown[n] = 0 \/ \E o \in Told(n)' : o.version = g.selection[n].version
    <3>1. n \in Nodes /\ Progressed(g, n)
      BY <1>3, <1>4
    <3>2. CASE g.selection[n] = selection[n] /\ g.shown[n] = shown[n]
      BY <1>11, <3>1, <3>2 DEF HooksOK, Informed
    <3>3. CASE Carries(g.hooks, [node |-> n, selection |-> g.selection[n]])
      <4>1. PICK i \in DOMAIN g.hooks : g.hooks[i] = [node |-> n, selection |-> g.selection[n]]
        BY <3>3 DEF Carries
      <4>2. hooks'[t][i].node = n /\ hooks'[t][i].selection = g.selection[n] /\ i \in DOMAIN hooks'[t]
        BY <1>5, <4>1
      <4>3. g.selection[n] \in Told(n)'
        BY <4>2 DEF Told
      <4> QED
        BY <4>3
    <3> QED
      BY <3>1, <3>2, <3>3 DEF Progressed
  <2>4. \A n \in External \ nodes : seen[n] = NoSelection
    BY DEF HooksOK, Informed
  <2> QED
    BY <1>1, <1>2, <2>1, <2>2, <2>3, <2>4 DEF Informed
<1> QED
  BY <1>7, <1>8, <1>9, <1>13 DEF HooksOK

\* A provider keeps the newest snapshot; the last hook takes the announcement back.
LEMMA CallHookHooks ==
  ASSUME GraphOK, HooksOK, NEW t \in Threads, CallHook(t)
  PROVE  HooksOK'
<1> DEFINE h == Head(hooks[t])
           last == Len(hooks[t]) = 1
<1>1. /\ hooks[t] # <<>>
      /\ seen' = [seen EXCEPT ![h.node] =
            IF h.node \in nodes /\ seen[h.node].version < h.selection.version THEN h.selection ELSE seen[h.node]]
      /\ providerCallbacks' = IF last THEN providerCallbacks - counted[t] ELSE providerCallbacks
      /\ counted' = IF last THEN [counted EXCEPT ![t] = 0] ELSE counted
      /\ hooks' = [hooks EXCEPT ![t] = Tail(@)]
      /\ UNCHANGED <<nodes, selection, shown, demandPending, life, reading>>
  BY DEF CallHook, graphVars, flagVars, jobVars
<1>2. /\ nodes \subseteq Nodes /\ selection \in [Nodes -> Selection] /\ External \subseteq Nodes
      /\ hooks \in [Threads -> Seq(Change)] /\ hooks[t] \in Seq(Change) /\ counted \in [Threads -> Nat]
      /\ seen \in [Nodes -> Selection] /\ providerCallbacks \in Nat
  BY DemandAssumption DEF GraphOK, GraphType, HooksOK, HookType, DemandAssumption
<1>3. /\ h \in Change /\ h = hooks[t][1] /\ 1 \in DOMAIN hooks[t] /\ Tail(hooks[t]) \in Seq(Change)
      /\ Len(Tail(hooks[t])) = Len(hooks[t]) - 1
      /\ \A i \in DOMAIN Tail(hooks[t]) : i + 1 \in DOMAIN hooks[t] /\ Tail(hooks[t])[i] = hooks[t][i + 1]
      /\ \A i \in DOMAIN hooks[t] : i = 1 \/ (i - 1 \in DOMAIN Tail(hooks[t]) /\ Tail(hooks[t])[i - 1] = hooks[t][i])
  BY <1>1, <1>2, TailElements
<1>4. Len(hooks[t]) \in Nat /\ Len(hooks[t]) # 0
  BY <1>1, <1>2, Elements
<1>5. h.node \in External /\ life[h.node] \notin {"none", "admitted"}
  BY <1>3 DEF HooksOK, Informed
<1>6. hooks[t][1].selection \in Told(h.node)
  BY <1>2, <1>3, <1>5, ToldType DEF HooksOK
<1> HIDE DEF h, last
<1>7. h.node \in Nodes /\ h.selection \in Selection /\ h.selection \in Told(h.node)
  BY <1>3, <1>6 DEF Change
<1>8. /\ seen' \in [Nodes -> Selection] /\ \A n \in Nodes : n # h.node => seen'[n] = seen[n]
      /\ seen'[h.node] \in {seen[h.node], h.selection}
      /\ h.node \in nodes => /\ seen[h.node].version <= seen'[h.node].version
                             /\ h.selection.version <= seen'[h.node].version
      /\ h.node \notin nodes => seen'[h.node] = seen[h.node]
  <2>1. seen[h.node].version \in Nat /\ h.selection.version \in Nat
    BY <1>2, <1>7 DEF Selection
  <2>2. seen'[h.node] = IF h.node \in nodes /\ seen[h.node].version < h.selection.version THEN h.selection ELSE seen[h.node]
    BY <1>1, <1>2, <1>7
  <2> QED
    BY <1>1, <1>2, <1>7, <2>1, <2>2
<1>9. /\ hooks' \in [Threads -> Seq(Change)] /\ hooks'[t] = Tail(hooks[t])
      /\ \A u \in Threads : u # t => hooks'[u] = hooks[u]
  BY <1>1, <1>2, <1>3
<1>10. IsFiniteSet(Announced') /\ providerCallbacks' = Cardinality(Announced') /\ providerCallbacks' \in Nat
  <2>1. CASE last
    BY <1>1, <2>1, AnnouncedLess DEF HooksOK
  <2>2. CASE ~last
    <3>1. Announced' = Announced /\ providerCallbacks' = providerCallbacks
      BY <1>1, <2>2 DEF Announced
    <3> QED
      BY <1>2, <3>1 DEF HooksOK, Counted
  <2> QED
    BY <2>1, <2>2
<1>11. /\ counted' \in [Threads -> Nat] /\ \A u \in Threads : u # t => counted'[u] = counted[u]
       /\ last => counted'[t] = 0
       /\ ~last => counted'[t] = counted[t]
  <2>1. CASE last
    BY <1>1, <1>2, <2>1
  <2>2. CASE ~last
    BY <1>1, <1>2, <2>2
  <2> QED
    BY <2>1, <2>2
<1>12. HookType'
  BY <1>1, <1>8, <1>9, <1>10, <1>11 DEF HooksOK, HookType
<1>13. Counted'
  <2>1. ASSUME NEW u \in Threads PROVE Len(hooks'[u]) <= counted'[u] /\ (hooks'[u] = <<>> => counted'[u] = 0)
    <3>1. CASE u # t
      <4>1. Len(hooks[u]) <= counted[u] /\ (hooks[u] = <<>> => counted[u] = 0)
        BY DEF HooksOK, Counted
      <4>2. hooks'[u] = hooks[u] /\ counted'[u] = counted[u]
        BY <1>9, <1>11, <3>1
      <4> QED
        BY <4>1, <4>2
    <3>2. Len(hooks'[t]) = Len(hooks[t]) - 1
      BY <1>3, <1>9
    <3>3. Len(hooks[t]) <= counted[t] /\ counted[t] \in Nat
      BY <1>2 DEF HooksOK, Counted
    <3>4. CASE last
      <4>1. Len(hooks'[t]) = 0
        BY <1>4, <3>2, <3>4 DEF last
      <4> QED
        BY <1>11, <3>1, <3>4, <4>1
    <3>5. CASE ~last
      <4>1. Len(hooks'[t]) <= counted[t]
        BY <1>4, <3>2, <3>3
      <4>2. hooks'[t] # <<>>
        <5>1. Len(hooks'[t]) # 0
          BY <1>4, <3>2, <3>5 DEF last
        <5>2. Len(<<>>) = 0
          OBVIOUS
        <5> QED
          BY <5>1, <5>2
      <4> QED
        BY <1>11, <3>1, <3>5, <4>1, <4>2
    <3> QED
      BY <3>4, <3>5
  <2> QED
    BY <1>10, <2>1 DEF Counted
<1>14. Quiet'
  <2>1. providerCallbacks = 0 => FALSE
    <3>1. counted[t] # 0
      <4>1. Len(hooks[t]) <= counted[t] /\ counted[t] \in Nat
        BY <1>2 DEF HooksOK, Counted
      <4> QED
        BY <1>4, <4>1
    <3>2. <<t, 1>> \in Announced
      BY <1>2, <3>1 DEF Announced
    <3>3. Announced # {} /\ IsFiniteSet(Announced)
      BY <3>2 DEF HooksOK, Counted
    <3>4. Cardinality(Announced) # 0
      BY <3>3, FS_EmptySet
    <3> QED
      BY <3>4 DEF HooksOK, Counted
  <2> QED
    BY <1>1, <2>1, QuietKept DEF HooksOK
<1>15. ASSUME NEW n \in Nodes, NEW o \in Told(n)' PROVE o \in Told(n)
  <2>1. \/ o = seen'[n]
        \/ \E u \in Threads : \E i \in DOMAIN hooks'[u] : hooks'[u][i].node = n /\ o = hooks'[u][i].selection
    BY DEF Told
  <2>2. /\ seen[n] \in Told(n)
        /\ \A u \in Threads : \A i \in DOMAIN hooks[u] : hooks[u][i].node = n => hooks[u][i].selection \in Told(n)
    BY ToldType DEF HooksOK
  <2>3. seen'[n] \in Told(n)
    BY <1>7, <1>8, <2>2
  <2>4. ASSUME NEW u \in Threads, NEW i \in DOMAIN hooks'[u], hooks'[u][i].node = n
        PROVE  hooks'[u][i].selection \in Told(n)
    <3>1. CASE u = t
      <4>1. i + 1 \in DOMAIN hooks[t] /\ hooks'[t][i] = hooks[t][i + 1]
        BY <1>3, <1>9, <2>4, <3>1
      <4> QED
        BY <2>2, <2>4, <3>1, <4>1
    <3>2. CASE u # t
      BY <1>9, <2>2, <2>4, <3>2
    <3> QED
      BY <3>1, <3>2
  <2> QED
    BY <2>1, <2>3, <2>4
<1>16. ASSUME NEW n \in External \cap nodes, NEW s \in Told(n) PROVE \E o \in Told(n)' : s.version <= o.version
  <2>1. n \in Nodes
    BY <1>2
  <2>2. s \in Selection
    BY <2>1, ToldType DEF HooksOK
  <2>3. s.version <= s.version
    BY <2>2 DEF Selection
  <2>4. seen'[n] \in Told(n)' /\ \A u \in Threads : \A i \in DOMAIN hooks'[u] :
          hooks'[u][i].node = n => hooks'[u][i].selection \in Told(n)'
    BY DEF Told
  <2>5. CASE s = seen[n]
    BY <1>8, <2>1, <2>3, <2>4, <2>5
  <2>6. ASSUME NEW u \in Threads, NEW i \in DOMAIN hooks[u], hooks[u][i].node = n, s = hooks[u][i].selection
        PROVE  \E o \in Told(n)' : s.version <= o.version
    <3>1. CASE u # t
      BY <1>9, <2>3, <2>4, <2>6, <3>1
    <3>2. CASE u = t /\ i = 1
      BY <1>3, <1>8, <2>4, <2>6, <3>2
    <3>3. CASE u = t /\ i # 1
      <4>1. i - 1 \in DOMAIN hooks'[t] /\ hooks'[t][i - 1] = hooks[t][i]
        BY <1>3, <1>9, <2>6, <3>3
      <4> QED
        BY <2>3, <2>4, <2>6, <3>3, <4>1
    <3> QED
      BY <3>1, <3>2, <3>3
  <2> QED
    BY <2>5, <2>6, ToldFrom
<1>17. Informed'
  <2>1. ASSUME NEW u \in Threads, NEW i \in DOMAIN hooks'[u]
        PROVE  hooks'[u][i].node \in External /\ life[hooks'[u][i].node] \notin {"none", "admitted"}
    <3>1. CASE u = t
      <4>1. i + 1 \in DOMAIN hooks[t] /\ hooks'[t][i] = hooks[t][i + 1]
        BY <1>3, <1>9, <2>1, <3>1
      <4> QED
        BY <3>1, <4>1 DEF HooksOK, Informed
    <3>2. CASE u # t
      BY <1>9, <2>1, <3>2 DEF HooksOK, Informed
    <3> QED
      BY <3>1, <3>2
  <2>2. \A n \in External \cap nodes : \A o \in Told(n)' :
          Behind(o, selection[n]) /\ (o.version = selection[n].version => o.tie = shown[n])
    BY <1>2, <1>15 DEF HooksOK, Informed
  <2>3. ASSUME NEW n \in External \cap nodes
        PROVE  shown[n] = 0 \/ \E o \in Told(n)' : o.version = selection[n].version
    <3>1. CASE shown[n] # 0
      <4>1. PICK s \in Told(n) : s.version = selection[n].version
        BY <3>1 DEF HooksOK, Informed
      <4>2. PICK o \in Told(n)' : s.version <= o.version
        BY <1>16
      <4>3. o.version <= selection[n].version
        BY <2>2 DEF Behind
      <4>4. o \in Told(n) /\ n \in Nodes
        BY <1>2, <1>15
      <4>5. o.version \in Nat /\ selection[n].version \in Nat
        BY <1>2, <4>4, ToldType DEF HooksOK, Selection
      <4> QED
        BY <4>1, <4>2, <4>3, <4>5
    <3> QED
      BY <3>1
  <2>4. \A n \in External \ nodes : seen'[n] = NoSelection
    BY <1>2, <1>8 DEF HooksOK, Informed
  <2> QED
    BY <1>1, <2>1, <2>2, <2>3, <2>4 DEF Informed
<1> QED
  BY <1>12, <1>13, <1>14, <1>17 DEF HooksOK
\* A record that is new in the graph has told its provider nothing yet.
LEMMA RegisterHooks ==
  ASSUME GraphOK, HooksOK, life \in [Nodes -> Lives], NEW n \in Nodes, Register(n)
  PROVE  HooksOK'
<1>1. /\ life[n] = "admitted" /\ nodes' = nodes \cup {n} /\ selection' = [selection EXCEPT ![n] = Fresh(n)]
      /\ \A m \in Nodes : m # n => life'[m] = life[m]
      /\ life'[n] \in {"waiting", "registered"}
      /\ UNCHANGED <<shown, hooks, counted, providerCallbacks, seen, reading>>
  BY DEF Register, threadVars
<1>2. nodes \subseteq Nodes /\ selection \in [Nodes -> Selection] /\ External \subseteq Nodes
  BY DemandAssumption DEF GraphOK, GraphType, DemandAssumption
<1>3. n \notin nodes /\ shown[n] = 0
  BY <1>1 DEF GraphOK, Placed
<1>4. selection'[n] = Fresh(n) /\ \A m \in Nodes : m # n => selection'[m] = selection[m]
  BY <1>1, <1>2
<1>5. \A m : Told(m)' = Told(m)
  BY <1>1 DEF Told
<1>6. Announced' = Announced /\ Counted'
  BY <1>1 DEF Announced, HooksOK, Counted
<1>7. ASSUME n \in External, NEW o \in Told(n) PROVE o = NoSelection
  <2>1. seen[n] = NoSelection
    BY <1>3, <1>7 DEF HooksOK, Informed
  <2>2. \A t \in Threads : \A i \in DOMAIN hooks[t] : hooks[t][i].node # n
    BY <1>1 DEF HooksOK, Informed
  <2> QED
    BY <1>7, <2>1, <2>2, ToldFrom
<1>8. \A m \in External \cap nodes' : \A o \in Told(m)' :
        Behind(o, selection'[m]) /\ (o.version = selection'[m].version => o.tie = shown'[m])
  <2>1. ASSUME NEW m \in External \cap nodes', NEW o \in Told(m)'
        PROVE  Behind(o, selection'[m]) /\ (o.version = selection'[m].version => o.tie = shown'[m])
    <3>1. CASE m = n
      <4>1. o = NoSelection
        BY <1>5, <1>7, <2>1, <3>1
      <4> QED
        <5>1. o = NoSelection /\ o.version = 0 /\ selection'[m].version = 1
          BY <1>4, <3>1, <4>1 DEF NoSelection, Fresh
        <5> QED
          BY <5>1 DEF Behind
    <3>2. CASE m # n
      <4>1. m \in External \cap nodes /\ o \in Told(m) /\ m \in Nodes
        BY <1>1, <1>2, <1>5, <2>1, <3>2
      <4>2. selection'[m] = selection[m] /\ shown'[m] = shown[m]
        BY <1>1, <1>4, <3>2, <4>1
      <4>3. Behind(o, selection[m]) /\ (o.version = selection[m].version => o.tie = shown[m])
        BY <4>1 DEF HooksOK, Informed
      <4> QED
        BY <4>2, <4>3
    <3> QED
      BY <3>1, <3>2
  <2> QED
    BY <2>1
<1>9. \A m \in External \cap nodes' :
        shown'[m] = 0 \/ \E o \in Told(m)' : o.version = selection'[m].version
  <2>1. ASSUME NEW m \in External \cap nodes', m # n
        PROVE  shown'[m] = 0 \/ \E o \in Told(m)' : o.version = selection'[m].version
    <3>1. m \in External \cap nodes /\ m \in Nodes
      BY <1>1, <1>2, <2>1
    <3>2. selection'[m] = selection[m] /\ shown'[m] = shown[m]
      BY <1>1, <1>4, <2>1, <3>1
    <3> QED
      BY <1>5, <3>1, <3>2 DEF HooksOK, Informed
  <2> QED
    BY <1>1, <1>3, <2>1
<1>10. /\ \A t \in Threads : \A i \in DOMAIN hooks'[t] :
            hooks'[t][i].node \in External /\ life'[hooks'[t][i].node] \notin {"none", "admitted"}
       /\ \A m \in External \ nodes' : seen'[m] = NoSelection
  BY <1>1, <1>2 DEF HooksOK, Informed
<1>11. Quiet'
  <2>1. Charged # {}
    BY <1>1 DEF Charged
  <2>2. \A m \in Nodes : life[m] \in {"none", "gone"} => life'[m] \in {"none", "gone"}
    BY <1>1
  <2> QED
    BY <1>1, <2>1, <2>2, QuietKept DEF HooksOK
<1>12. HookType'
  BY <1>1 DEF HooksOK, HookType
<1> QED
  BY <1>6, <1>8, <1>9, <1>10, <1>11, <1>12 DEF HooksOK, Informed

\* A record that is removed takes its provider's last snapshot with it.
LEMMA RemoveHooks ==
  ASSUME GraphOK, HooksOK, life \in [Nodes -> Lives], NEW n \in Nodes, RemoveNode(n)
  PROVE  HooksOK'
<1>1. /\ life[n] = "removing" /\ nodes' = nodes \ {n}
      /\ selection' = [selection EXCEPT ![n] = NoSelection] /\ shown' = [shown EXCEPT ![n] = 0]
      /\ seen' = [seen EXCEPT ![n] = NoSelection] /\ life' = [life EXCEPT ![n] = "gone"]
      /\ UNCHANGED <<hooks, counted, providerCallbacks, reading>>
  BY DEF RemoveNode
<1>2. /\ nodes \subseteq Nodes /\ selection \in [Nodes -> Selection] /\ External \subseteq Nodes
      /\ shown \in [Nodes -> Int] /\ seen \in [Nodes -> Selection]
  BY DemandAssumption DEF GraphOK, GraphType, HooksOK, HookType, DemandAssumption
<1>3. /\ \A m \in Nodes : m # n => /\ selection'[m] = selection[m] /\ shown'[m] = shown[m]
                                  /\ seen'[m] = seen[m] /\ life'[m] = life[m]
      /\ seen'[n] = NoSelection /\ life'[n] = "gone"
  BY <1>1, <1>2
<1>4. ASSUME NEW m \in Nodes, m # n PROVE Told(m)' = Told(m)
  BY <1>1, <1>3, <1>4 DEF Told
<1>5. Announced' = Announced /\ Counted'
  BY <1>1 DEF Announced, HooksOK, Counted
<1>6. \A m \in External \cap nodes' :
        /\ m \in External \cap nodes /\ Told(m)' = Told(m)
        /\ selection'[m] = selection[m] /\ shown'[m] = shown[m]
  BY <1>1, <1>2, <1>3, <1>4
<1>7. \A m \in External \cap nodes' : \A o \in Told(m)' :
        Behind(o, selection'[m]) /\ (o.version = selection'[m].version => o.tie = shown'[m])
  BY <1>6 DEF HooksOK, Informed
<1>8. \A m \in External \cap nodes' :
        shown'[m] = 0 \/ \E o \in Told(m)' : o.version = selection'[m].version
  BY <1>6 DEF HooksOK, Informed
<1>9. ASSUME NEW t \in Threads, NEW i \in DOMAIN hooks'[t]
      PROVE  hooks'[t][i].node \in External /\ life'[hooks'[t][i].node] \notin {"none", "admitted"}
  <2>1. hooks[t][i].node \in External /\ life[hooks[t][i].node] \notin {"none", "admitted"}
    BY <1>1, <1>9 DEF HooksOK, Informed
  <2> QED
    BY <1>1, <1>2, <1>3, <2>1
<1>10. \A m \in External \ nodes' : seen'[m] = NoSelection
  BY <1>1, <1>2, <1>3 DEF HooksOK, Informed
<1>11. Quiet'
  <2>1. Charged # {}
    BY <1>1 DEF Charged
  <2>2. \A m \in Nodes : life[m] \in {"none", "gone"} => life'[m] \in {"none", "gone"}
    BY <1>1, <1>3
  <2> QED
    BY <1>1, <2>1, <2>2, QuietKept DEF HooksOK
<1>12. HookType'
  <2>1. seen' \in [Nodes -> Selection]
    <3>1. seen' = [m \in Nodes |-> IF m = n THEN NoSelection ELSE seen[m]]
      BY <1>1, <1>2
    <3>2. NoSelection \in Selection
      BY DEF NoSelection, Selection
    <3> QED
      BY <1>2, <3>1, <3>2
  <2> QED
    BY <1>1, <2>1 DEF HooksOK, HookType
<1> QED
  BY <1>5, <1>7, <1>8, <1>9, <1>10, <1>11, <1>12 DEF HooksOK, Informed

\* The readings of quiescence stay true once no record is charged any more.
LEMMA ReadHooks ==
  ASSUME GraphOK, HooksOK, Read
  PROVE  HooksOK'
<1>1. /\ reading # "quiescent" /\ Charged = {}
      /\ reading' = CASE reading \in {"open", "closed"} -> "records"
                  [] reading = "records" -> IF ~demandPending THEN "pending" ELSE "closed"
                  [] reading = "pending" -> IF ~updatesPending THEN "updates" ELSE "closed"
                  [] reading = "updates" -> IF NoCallbacks THEN "quiescent" ELSE "closed"
      /\ UNCHANGED <<nodes, selection, shown, demandPending, hooks, counted, providerCallbacks, seen, life>>
  BY DEF Read, graphVars, flagVars, threadVars, jobVars
<1>2. Informed' /\ Counted'
  BY <1>1, HooksKept
<1>3. Charged' = {}
  BY <1>1 DEF Charged
<1>4. reading \in {"open", "closed", "records", "pending", "updates", "quiescent"}
  BY DEF HooksOK, HookType
<1>5. \/ reading' \in {"records", "closed"}
      \/ reading = "records" /\ ~demandPending /\ reading' = "pending"
      \/ reading = "pending" /\ reading' = "updates"
      \/ reading = "updates" /\ NoCallbacks /\ reading' = "quiescent"
  BY <1>1, <1>4
<1>6. Quiet'
  BY <1>1, <1>3, <1>5 DEF HooksOK, Quiet, NoCallbacks
<1>7. HookType'
  BY <1>1, <1>5 DEF HooksOK, HookType
<1> QED
  BY <1>2, <1>6, <1>7 DEF HooksOK

-----------------------------------------------------------------------------
(* The steps put together *)

NodesOK == GraphOK /\ FlowOK /\ ClassOK(Class) /\ HooksOK

\* Steps that move no demand: records come and complete, consumers are bound.
LEMMA QuietStep ==
  ASSUME NodesOK,
         UNCHANGED <<graphVars, flagVars, threadVars, copy, applied, entry, ready, deferred, rebalance, reading>>,
         done' \subseteq Nodes, handedOff' \subseteq Nodes, life' \in [Nodes -> Lives],
         \A n \in Nodes : \/ life'[n] = life[n]
                          \/ reading = "open" /\ life[n] = "none" /\ life'[n] = "admitted"
                          \/ life[n] \in {"claimed", "waiting"} /\ life'[n] = "claimed"
  PROVE  NodesOK'
<1>1. /\ UNCHANGED <<nodes, selection, front, back, dirty, flagVars, transfer, changes, copy, applied>>
      /\ UNCHANGED <<hooks, counted, providerCallbacks, seen, nodes, shown, reading, demandPending>>
  BY DEF graphVars, threadVars, flagVars
<1>2. GraphOK'
  <2>1. \A n \in Nodes : life'[n] \in {"none", "admitted", "gone"} <=> life[n] \in {"none", "admitted", "gone"}
    OBVIOUS
  <2> QED
    BY <2>1, GraphKept DEF NodesOK
<1>3. FlowOK'
  BY <1>1, QuietFlow DEF NodesOK
<1>4. ClassOK(Class)'
  <2>1. applied' \in [Nodes -> Selection]
    BY ClassTypes DEF NodesOK
  <2>2. \A n \in Nodes : life[n] \in {"ready", "deferred"} \/ life'[n] \in {"ready", "deferred"}
                             => life'[n] = life[n] /\ applied'[n] = applied[n]
    OBVIOUS
  <2> QED
    BY <2>1, <2>2, ClassKept DEF NodesOK
<1>5. HooksOK'
  <2>1. /\ \A n \in Nodes : life[n] \notin {"none", "admitted"} => life'[n] \notin {"none", "admitted"}
        /\ reading = "open" \/ \A n \in Nodes : life[n] \in {"none", "gone"} => life'[n] \in {"none", "gone"}
    OBVIOUS
  <2> QED
    BY <1>1, <2>1, HooksUntouched DEF NodesOK
<1> QED
  BY <1>2, <1>3, <1>4, <1>5 DEF NodesOK

LEMMA StandsStill ==
  ASSUME NodesOK,
         UNCHANGED <<graphVars, flagVars, threadVars, jobVars, entry, ready, deferred, rebalance, reading>>,
         handedOff' \subseteq handedOff
  PROVE  NodesOK'
<1>1. life' \in [Nodes -> Lives] /\ done' \subseteq Nodes /\ handedOff' \subseteq Nodes
  BY ClassTypes DEF NodesOK, FlowOK, StageType, jobVars
<1>2. UNCHANGED <<life, copy, applied>>
  BY DEF jobVars
<1> QED
  BY <1>1, <1>2, QuietStep

\* A change of a lease.
LEMMA LeaseNodes ==
  ASSUME NodesOK, NEW c \in Consumers, LeaseStep(c)
  PROVE  NodesOK'
<1>1. /\ UNCHANGED <<nodes, shown, threadVars, jobVars, queueVars, reading>> /\ Wants[c] \in nodes
      /\ \A n \in Nodes : /\ selection'[n].rank = selection[n].rank /\ selection'[n].active = selection[n].active
                          /\ selection'[n].version = selection[n].version
  BY DEF LeaseStep
<1>2. UNCHANGED <<hooks, counted, providerCallbacks, seen, life, applied, entry, ready, deferred, rebalance>>
  BY <1>1 DEF threadVars, jobVars, queueVars
<1>3. GraphOK' /\ FlowOK'
  BY LeaseGraph, LeaseFlow DEF NodesOK
<1>4. ClassOK(Class)'
  BY <1>2, ClassTypes, ClassKept DEF NodesOK
<1>5. HooksOK'
  BY <1>1, <1>2, HooksUntouched DEF NodesOK
<1> QED
  BY <1>3, <1>4, <1>5 DEF NodesOK

\* A step under the class's gate.
LEMMA ClassNodes ==
  ASSUME NodesOK, ClassStep, ClassOK(Class)', handedOff' \subseteq Nodes, UNCHANGED reading
  PROVE  NodesOK'
<1>1. /\ Advanced /\ UNCHANGED <<graphVars, demandPending, threadVars>>
  BY DEF ClassStep
<1>2. \A n \in Nodes : \/ life'[n] = life[n]
                       \/ /\ life[n] \in {"waiting", "ready", "deferred", "handed"}
                          /\ life'[n] \in {"ready", "deferred", "handed", "claimed"}
  BY <1>1 DEF Advanced
<1>3. UNCHANGED <<hooks, counted, providerCallbacks, seen, nodes, shown, selection, reading, demandPending>>
  BY <1>1 DEF graphVars, threadVars
<1>4. GraphOK'
  <2>1. \A n \in Nodes : life'[n] \in {"none", "admitted", "gone"} <=> life[n] \in {"none", "admitted", "gone"}
    BY <1>2
  <2> QED
    BY <1>1, <2>1, GraphKept DEF NodesOK
<1>5. FlowOK'
  BY ClassFlow DEF NodesOK
<1>6. HooksOK'
  <2>1. /\ \A n \in Nodes : life[n] \notin {"none", "admitted"} => life'[n] \notin {"none", "admitted"}
        /\ \A n \in Nodes : life[n] \in {"none", "gone"} => life'[n] \in {"none", "gone"}
    BY <1>2
  <2> QED
    BY <1>3, <2>1, HooksUntouched DEF NodesOK
<1> QED
  BY <1>4, <1>5, <1>6 DEF NodesOK

LEMMA JobSteps ==
  ASSUME NodesOK, NEW n \in Nodes, Activate(n) \/ Claim(n) \/ Suppress(n)
  PROVE  NodesOK'
<1>1. StageType /\ Traced /\ Ties /\ Stages /\ ClassOK(Class) /\ handedOff \subseteq Nodes
  BY DEF NodesOK, FlowOK, StageType
<1>2. CASE Activate(n)
  <2>1. handedOff' = handedOff /\ reading' = reading
    BY <1>2 DEF Activate
  <2> QED
    BY <1>1, <1>2, <2>1, ActivateStep, ClassNodes
<1>3. CASE Claim(n)
  <2>1. handedOff' = handedOff /\ reading' = reading
    BY <1>3 DEF Claim
  <2> QED
    BY <1>1, <1>3, <2>1, ClaimStep, ClassNodes
<1>4. CASE Suppress(n)
  <2>1. handedOff' = handedOff /\ reading' = reading
    BY <1>4 DEF Suppress
  <2> QED
    BY <1>1, <1>4, <2>1, SuppressStep, ClassNodes
<1> QED
  BY <1>2, <1>3, <1>4

LEMMA DispatchNodes ==
  ASSUME NodesOK, Dispatch
  PROVE  NodesOK'
<1>1. StageType /\ Traced /\ Ties /\ Stages /\ ClassOK(Class)
  BY DEF NodesOK, FlowOK
<1>2. ClassStep /\ ClassOK(Class)' /\ handedOff' \subseteq Nodes
  BY <1>1, DispatchStep
<1>3. reading' = reading
  BY DEF Dispatch
<1> QED
  BY <1>2, <1>3, ClassNodes

LEMMA CancelNodes ==
  ASSUME NodesOK, CancelSet
  PROVE  NodesOK'
<1>1. UNCHANGED <<graphVars, flagVars, threadVars, jobVars, queueVars, reading>>
  BY DEF CancelSet
<1>2. UNCHANGED <<entry, ready, deferred, rebalance, handedOff>>
  BY <1>1 DEF queueVars
<1> QED
  BY <1>1, <1>2, StandsStill

LEMMA ConsumerSteps ==
  ASSUME NodesOK, NEW c \in Consumers, NEW r \in Ranks,
         Consume(c) \/ Promote(c) \/ Refresh(c, r) \/ Defer(c) \/ DropHandle(c) \/ BindingStep(c)
  PROVE  NodesOK'
<1>1. CASE Consume(c) \/ Promote(c) \/ Refresh(c, r) \/ Defer(c)
  BY <1>1, LeaseActions, LeaseNodes DEF NodesOK
<1>2. ASSUME BindSet(c) \/ SetEnds(c) \/ CompletionEnds(c) \/ Subscribe(c) \/ StoreSubscription(c)
      PROVE  NodesOK'
  <2>1. UNCHANGED <<graphVars, flagVars, threadVars, jobVars, queueVars, reading>>
    BY <1>2 DEF BindSet, SetEnds, CompletionEnds, Subscribe, StoreSubscription
  <2>2. UNCHANGED <<entry, ready, deferred, rebalance, handedOff>>
    BY <2>1 DEF queueVars
  <2> QED
    BY <2>1, <2>2, StandsStill
<1>3. ASSUME DetachLease(c),
             UNCHANGED <<nodes, selection, shown, front, back, updatesPending, mailbox, threadVars, jobVars,
                         queueVars, present, reading>>
      PROVE  NodesOK'
  <2>1. CASE interest[c] \in Lease
    BY <1>3, <2>1, DetachIsLease, LeaseNodes DEF NodesOK
  <2>2. CASE interest[c] \notin Lease
    <3>1. UNCHANGED <<interest, rank, dirty, demandPending>>
      BY <1>3, <2>2, DetachIsNothing
    <3>2. /\ UNCHANGED <<graphVars, flagVars, threadVars, jobVars, reading>>
          /\ UNCHANGED <<entry, ready, deferred, rebalance, handedOff>>
      BY <1>3, <3>1 DEF graphVars, flagVars, queueVars
    <3> QED
      BY <3>2, StandsStill
  <2> QED
    BY <2>1, <2>2
<1>4. CASE EndDetach(c)
  <2>1. /\ DetachLease(c)
        /\ UNCHANGED <<nodes, selection, shown, front, back, updatesPending, mailbox, threadVars, jobVars,
                       queueVars, present, reading>>
    BY <1>4 DEF EndDetach
  <2> QED
    BY <1>3, <2>1
<1>5. CASE DropHandle(c)
  <2>1. UNCHANGED <<nodes, selection, shown, front, back, updatesPending, mailbox, threadVars, jobVars,
                    queueVars, present, reading>>
    BY <1>5 DEF DropHandle
  <2>2. DetachLease(c) \/ UNCHANGED <<interest, rank, dirty, demandPending>>
    BY <1>5 DEF DropHandle
  <2>3. CASE UNCHANGED <<interest, rank, dirty, demandPending>>
    <3>1. /\ UNCHANGED <<graphVars, flagVars, threadVars, jobVars, reading>>
          /\ UNCHANGED <<entry, ready, deferred, rebalance, handedOff>>
      BY <2>1, <2>3 DEF graphVars, flagVars, queueVars
    <3> QED
      BY <3>1, StandsStill
  <2> QED
    BY <1>3, <2>1, <2>2, <2>3
<1> QED
  BY <1>1, <1>2, <1>4, <1>5 DEF BindingStep

LEMMA RecordSteps ==
  ASSUME NodesOK, NEW n \in Nodes, Admit(n) \/ Publish(n) \/ EndWrapper(n) \/ Attach(n) \/ Retire(n)
  PROVE  NodesOK'
<1> USE DEF jobVars, queueVars
<1>1. life \in [Nodes -> Lives] /\ done \subseteq Nodes /\ handedOff \subseteq Nodes
  BY ClassTypes DEF NodesOK, FlowOK, StageType
<1>2. CASE EndWrapper(n)
  <2>1. /\ UNCHANGED <<graphVars, flagVars, threadVars, jobVars, entry, ready, deferred, rebalance, reading>>
        /\ handedOff' \subseteq handedOff
    BY <1>2 DEF EndWrapper
  <2> QED
    BY <2>1, StandsStill
<1>3. CASE Admit(n)
  <2>1. /\ UNCHANGED <<graphVars, flagVars, threadVars, copy, applied, entry, ready, deferred, rebalance, reading>>
        /\ done' = done /\ handedOff' = handedOff /\ life' = [life EXCEPT ![n] = "admitted"]
        /\ life[n] = "none" /\ reading = "open"
    BY <1>3 DEF Admit
  <2>2. /\ life' \in [Nodes -> Lives]
        /\ \A m \in Nodes : life'[m] = life[m] \/ (life[m] = "none" /\ life'[m] = "admitted")
    BY <1>1, <2>1 DEF Lives
  <2> QED
    BY <1>1, <2>1, <2>2, QuietStep
<1>4. CASE Publish(n)
  <2>1. /\ UNCHANGED <<graphVars, flagVars, threadVars, copy, applied, entry, ready, deferred, rebalance, reading>>
        /\ done' = done \cup {n} /\ handedOff' = handedOff /\ life' = [life EXCEPT ![n] = "claimed"]
        /\ life[n] \in {"claimed", "waiting"}
    BY <1>4 DEF Publish
  <2>2. /\ life' \in [Nodes -> Lives] /\ done' \subseteq Nodes
        /\ \A m \in Nodes : life'[m] = life[m] \/ (life[m] \in {"claimed", "waiting"} /\ life'[m] = "claimed")
    BY <1>1, <2>1 DEF Lives
  <2> QED
    BY <1>1, <2>1, <2>2, QuietStep
<1>5. ASSUME FlowOK', life' \in [Nodes -> Lives], applied' \in [Nodes -> Selection],
             \A m \in Nodes : m # n => life'[m] = life[m] /\ applied'[m] = applied[m],
             life[n] \in {"registered", "claimed"}, life'[n] \in {"waiting", "removing"},
             UNCHANGED <<graphVars, demandPending, threadVars, entry, ready, deferred, rebalance, reading>>
      PROVE  NodesOK'
  <2>1. UNCHANGED <<hooks, counted, providerCallbacks, seen, nodes, shown, selection, reading, demandPending>>
    BY <1>5 DEF graphVars, threadVars
  <2>2. \A m \in Nodes :
          /\ life'[m] \in {"none", "admitted", "gone"} <=> life[m] \in {"none", "admitted", "gone"}
          /\ life[m] \notin {"none", "admitted"} => life'[m] \notin {"none", "admitted"}
          /\ life[m] \in {"none", "gone"} => life'[m] \in {"none", "gone"}
          /\ life[m] \in {"ready", "deferred"} \/ life'[m] \in {"ready", "deferred"}
               => life'[m] = life[m] /\ applied'[m] = applied[m]
    BY <1>5
  <2>3. GraphOK'
    BY <1>5, <2>2, GraphKept DEF NodesOK
  <2>4. ClassOK(Class)'
    BY <1>5, <2>2, ClassKept DEF NodesOK
  <2>5. HooksOK'
    BY <2>1, <2>2, HooksUntouched DEF NodesOK
  <2> QED
    BY <1>5, <2>3, <2>4, <2>5 DEF NodesOK
<1>6. CASE Attach(n)
  <2>1. UNCHANGED <<graphVars, demandPending, threadVars, entry, ready, deferred, rebalance, reading>>
    BY <1>6 DEF Attach, flagVars
  <2> QED
    BY <1>5, <1>6, <2>1, AttachFlow DEF NodesOK
<1>7. CASE Retire(n)
  <2>1. UNCHANGED <<graphVars, demandPending, threadVars, entry, ready, deferred, rebalance, reading>>
    BY <1>7 DEF Retire, flagVars
  <2> QED
    BY <1>5, <1>7, <2>1, RetireFlow DEF NodesOK
<1> QED
  BY <1>2, <1>3, <1>4, <1>6, <1>7

LEMMA NodeChanges ==
  ASSUME NodesOK, NEW n \in Nodes, Register(n) \/ RemoveNode(n)
  PROVE  NodesOK'
<1>1. life \in [Nodes -> Lives] /\ applied \in [Nodes -> Selection]
  BY ClassTypes DEF NodesOK
<1>2. GraphOK'
  BY <1>1, RegisterGraph, RemoveGraph DEF NodesOK
<1>3. HooksOK'
  BY <1>1, RegisterHooks, RemoveHooks DEF NodesOK
<1>4. /\ FlowOK' /\ life' \in [Nodes -> Lives] /\ applied' = applied
      /\ \A m \in Nodes : m # n => life'[m] = life[m]
      /\ life[n] \in {"admitted", "removing"} /\ life'[n] \in {"waiting", "registered", "gone"}
  BY RegisterFlow, RemoveFlow DEF NodesOK
<1>5. UNCHANGED <<ready, deferred, rebalance, entry>>
  BY DEF Register, RemoveNode, queueVars
<1>6. ClassOK(Class)'
  <2>1. \A m \in Nodes : life[m] \in {"ready", "deferred"} \/ life'[m] \in {"ready", "deferred"}
                             => life'[m] = life[m] /\ applied'[m] = applied[m]
    BY <1>4
  <2> QED
    BY <1>1, <1>4, <1>5, <2>1, ClassKept DEF NodesOK
<1> QED
  BY <1>2, <1>3, <1>4, <1>6 DEF NodesOK

LEMMA ThreadSteps ==
  ASSUME NodesOK, NEW t \in Threads, ThreadStep(t)
  PROVE  NodesOK'
<1>1. UNCHANGED <<jobVars, queueVars>>
  BY DEF ThreadStep, Service, Transfer, EndTransfer, CallHook
<1>2. UNCHANGED <<life, done, copy, applied, entry, ready, deferred, rebalance, handedOff>>
  BY <1>1 DEF jobVars, queueVars
<1>3. life \in [Nodes -> Lives] /\ applied \in [Nodes -> Selection] /\ done \subseteq Nodes /\ handedOff \subseteq Nodes
  BY ClassTypes DEF NodesOK, FlowOK, StageType
<1>4. ClassOK(Class)'
  BY <1>2, <1>3, ClassKept DEF NodesOK
<1>5. CASE Service(t)
  BY <1>4, <1>5, ServiceGraph, ServiceFlow, ServiceHooks DEF NodesOK
<1>6. ASSUME UNCHANGED graphVars PROVE GraphOK'
  BY <1>2, <1>6, GraphKept DEF NodesOK
<1>7. CASE Transfer(t) \/ EndTransfer(t)
  <2>1. UNCHANGED <<graphVars, hooks, counted, providerCallbacks, seen, reading>>
    BY <1>7 DEF Transfer, EndTransfer
  <2>2. UNCHANGED <<nodes, shown, selection>>
    BY <2>1 DEF graphVars
  <2>3. demandPending' => demandPending \/ nodes # {}
    <3>1. CASE Transfer(t)
      BY <3>1 DEF Transfer
    <3>2. CASE EndTransfer(t)
      BY <3>2, DemandAssumption DEF EndTransfer, NodesOK, FlowOK, Flags, DemandAssumption
    <3> QED
      BY <1>7, <3>1, <3>2
  <2>4. HooksOK'
    BY <1>2, <2>1, <2>2, <2>3, HooksUntouched DEF NodesOK
  <2> QED
    BY <1>4, <1>6, <1>7, <2>1, <2>4, TransferFlow, EndTransferFlow DEF NodesOK
<1>8. ASSUME UNCHANGED <<graphVars, flagVars, transfer, changes>> PROVE FlowOK'
  <2>1. UNCHANGED <<nodes, selection, front, back, dirty, flagVars, transfer, changes, copy, applied>>
    BY <1>2, <1>8 DEF graphVars
  <2> QED
    BY <1>2, <1>3, <2>1, QuietFlow DEF NodesOK
<1>9. CASE CallHook(t)
  BY <1>4, <1>6, <1>8, <1>9, CallHookHooks DEF NodesOK, CallHook
<1> QED
  BY <1>5, <1>7, <1>9 DEF ThreadStep

LEMMA ReadNodes ==
  ASSUME NodesOK, Read
  PROVE  NodesOK'
<1>1. UNCHANGED <<graphVars, flagVars, threadVars, jobVars, queueVars>>
  BY DEF Read
<1>2. /\ UNCHANGED <<nodes, selection, front, back, dirty, flagVars, transfer, changes, copy, applied>>
      /\ UNCHANGED <<graphVars, life, done, entry, ready, deferred, rebalance, handedOff>>
  BY <1>1 DEF graphVars, threadVars, jobVars, queueVars
<1>3. life \in [Nodes -> Lives] /\ applied \in [Nodes -> Selection] /\ done \subseteq Nodes /\ handedOff \subseteq Nodes
  BY ClassTypes DEF NodesOK, FlowOK, StageType
<1>4. ClassOK(Class)'
  BY <1>2, <1>3, ClassKept DEF NodesOK
<1>5. GraphOK'
  BY <1>2, GraphKept DEF NodesOK
<1>6. FlowOK'
  BY <1>2, <1>3, QuietFlow DEF NodesOK
<1> QED
  BY <1>4, <1>5, <1>6, ReadHooks DEF NodesOK

IInv == NodesOK /\ BindingType /\ Held

LEMMA NextPreserves ==
  ASSUME IInv, [Next]_vars
  PROVE  IInv'
<1>1. CASE UNCHANGED vars
  <2>1. /\ UNCHANGED <<graphVars, flagVars, threadVars, jobVars, entry, ready, deferred, rebalance, reading>>
        /\ UNCHANGED <<handedOff, interest, binding, bound, subscription, ending>>
    BY <1>1 DEF vars, queueVars, graphVars, bindingVars
  <2>2. NodesOK'
    BY <2>1, StandsStill DEF IInv
  <2>3. BindingType' /\ Held'
    BY <2>1 DEF IInv, BindingType, Held
  <2> QED
    BY <2>2, <2>3 DEF IInv
<1>2. CASE Next
  <2>1. BindingType' /\ Held'
    BY <1>2, HeldSteps DEF IInv, NodesOK, GraphOK
  <2>2. ASSUME NEW n \in Nodes, Admit(n) \/ Suppress(n) \/ Claim(n) \/ Publish(n) \/ NodeStep(n) PROVE NodesOK'
    BY <2>2, JobSteps, RecordSteps, NodeChanges DEF IInv, NodeStep
  <2>3. ASSUME NEW c \in Consumers, NEW r \in Ranks, Refresh(c, r) PROVE NodesOK'
    BY <2>3, ConsumerSteps DEF IInv
  <2>4. ASSUME NEW c \in Consumers, Consume(c) \/ Promote(c) \/ Defer(c) \/ DropHandle(c) \/ BindingStep(c)
        PROVE  NodesOK'
    <3>1. Asks[c] \in Ranks
      BY DemandAssumption DEF DemandAssumption
    <3> QED
      BY <2>4, <3>1, ConsumerSteps DEF IInv
  <2>5. ASSUME NEW t \in Threads, ThreadStep(t) PROVE NodesOK'
    BY <2>5, ThreadSteps DEF IInv
  <2>6. ASSUME CancelSet PROVE NodesOK'
    BY <2>6, CancelNodes DEF IInv
  <2>7. ASSUME Dispatch PROVE NodesOK'
    BY <2>7, DispatchNodes DEF IInv
  <2>8. ASSUME Read PROVE NodesOK'
    BY <2>8, ReadNodes DEF IInv
  <2>9. NodesOK'
    BY <1>2, <2>2, <2>3, <2>4, <2>5, <2>6, <2>7, <2>8 DEF Next, Environment
  <2> QED
    BY <2>1, <2>9 DEF IInv
<1> QED
  BY <1>1, <1>2

-----------------------------------------------------------------------------
(* The initial states *)

\* Ties of what was there before: different for every two, and below the next one.
LEMMA SettledType ==
  ASSUME NEW n \in Nodes
  PROVE  /\ Settled(n) \in Selection /\ Settled(n).rank \in Ranks \cup {NoRank}
         /\ n \notin Present => Settled(n) = NoSelection /\ Settled(n).version = 0 /\ Settled(n).tie = 0
         /\ n \in Present => /\ Settled(n).version = 2 /\ Settled(n).tie \in 1 .. Cardinality(Present)
                             /\ Settled(n).tie = Cardinality({m \in Present : m <= n})
                             /\ Settled(n).rank = Baseline[n] /\ Settled(n).active = (Baseline[n] # NoRank)
         /\ Cardinality(Present) \in Nat
<1> DEFINE Below == {m \in Present : m <= n}
<1>1. Present \subseteq Nodes /\ IsFiniteSet(Present) /\ Nodes \subseteq Nat
  BY DemandAssumption, FS_Subset DEF Present, DemandAssumption, Jobs
<1>2. IsFiniteSet(Below) /\ Cardinality(Below) <= Cardinality(Present)
  BY <1>1, FS_Subset
<1>3. Cardinality(Below) \in Nat /\ Cardinality(Present) \in Nat
  BY <1>1, <1>2, FS_CardinalityType
<1>4. n \in Present => Cardinality(Below) # 0
  <2>1. n \in Present => n \in Below
    BY <1>1
  <2> QED
    BY <1>2, <2>1, FS_EmptySet
<1>5. Baseline[n] \in Ranks \cup {NoRank}
  BY DemandAssumption DEF DemandAssumption
<1> HIDE DEF Below
<1>6. n \notin Present => Settled(n) = NoSelection
  BY DEF Settled
<1>7. NoSelection \in Selection /\ NoSelection.rank = NoRank /\ NoSelection.version = 0 /\ NoSelection.tie = 0
  BY DEF NoSelection, Selection
<1>8. n \in Present =>
        Settled(n) = [rank |-> Baseline[n], active |-> Baseline[n] # NoRank, tie |-> Cardinality(Below), version |-> 2]
  BY DEF Settled, Below
<1>9. n \in Present => /\ Settled(n).rank = Baseline[n] /\ Settled(n).active = (Baseline[n] # NoRank)
                       /\ Settled(n).tie = Cardinality(Below) /\ Settled(n).version = 2
  BY <1>8
<1>10. n \in Present => Settled(n) \in Selection
  <2>1. (Baseline[n] # NoRank) \in BOOLEAN
    OBVIOUS
  <2>2. 2 \in Nat /\ Cardinality(Below) \in Int
    BY <1>3
  <2>3. [rank |-> Baseline[n], active |-> Baseline[n] # NoRank, tie |-> Cardinality(Below), version |-> 2] \in Selection
    BY <1>5, <2>1, <2>2, Zenon DEF Selection
  <2> QED
    BY <1>8, <2>3
<1>11. n \in Present => Settled(n).tie \in 1 .. Cardinality(Present)
  BY <1>2, <1>3, <1>4, <1>9
<1> QED
  BY <1>3, <1>5, <1>6, <1>7, <1>9, <1>10, <1>11 DEF Below

LEMMA SettledTies ==
  ASSUME NEW n \in Present, NEW m \in Present, n < m
  PROVE  Settled(n).tie # Settled(m).tie
<1> DEFINE B(x) == {y \in Present : y <= x}
<1>1. Present \subseteq Nodes /\ IsFiniteSet(Present) /\ Nodes \subseteq Nat
  BY DemandAssumption, FS_Subset DEF Present, DemandAssumption, Jobs
<1>2. B(n) \subseteq B(m) /\ m \in B(m) /\ m \notin B(n)
  <2>1. n \in Nat /\ m \in Nat /\ \A y \in Present : y \in Nat
    BY <1>1
  <2>2. ~(m <= n) /\ m <= m /\ \A y \in Present : y <= n => y <= m
    BY <2>1
  <2> QED
    BY <2>2
<1>3. IsFiniteSet(B(m))
  BY <1>1, FS_Subset
<1>4. Cardinality(B(n)) # Cardinality(B(m))
  <2> HIDE DEF B
  <2>1. B(n) # B(m)
    BY <1>2
  <2> QED
    BY <1>2, <1>3, <2>1, FS_Subset
<1> QED
  BY <1>1, <1>4, SettledType

LEMMA InitGraph ==
  ASSUME Init
  PROVE  GraphOK
<1>1. /\ nodes = Present /\ dirty = <<>> /\ selection = [n \in Nodes |-> Settled(n)]
      /\ shown = [n \in Nodes |-> Settled(n).tie] /\ interest = [c \in Consumers |-> "none"]
      /\ rank = [c \in Consumers |-> NoRank] /\ front = -1 /\ back = Cardinality(Present) + 1
      /\ life = [n \in Nodes |-> IF n \notin Present THEN "none" ELSE IF Resource(n) THEN "waiting" ELSE "claimed"]
  BY DEF Init
<1>2. Present \subseteq Early /\ Present \subseteq Nodes
  BY DemandAssumption DEF Present, DemandAssumption, Jobs
<1>3. Cardinality(Present) \in Nat
  <2>1. IsFiniteSet(Present)
    BY <1>2, DemandAssumption, FS_Subset DEF DemandAssumption
  <2> QED
    BY <2>1, FS_CardinalityType
<1>4. \A n \in Nodes : Settled(n) \in Selection /\ Settled(n).tie \in Int
  BY SettledType DEF Selection
<1>5. GraphType
  <2>1. selection \in [Nodes -> Selection] /\ shown \in [Nodes -> Int]
    BY <1>1, <1>4
  <2>2. dirty \in Seq(Nodes) /\ IsInjective(dirty) /\ ToSet(dirty) = {}
    BY <1>1, EmptyElements
  <2>3. /\ interest \in [Consumers -> Lease \cup {"none", "gone"}]
        /\ rank \in [Consumers -> Ranks \cup {NoRank}]
    BY <1>1
  <2> QED
    BY <1>1, <1>2, <1>3, <2>1, <2>2, <2>3 DEF GraphType
<1>6. Placed
  <2>1. \A c \in Consumers : interest[c] \notin Lease
    BY <1>1 DEF Lease
  <2>2. \A n \in Nodes : n \in nodes <=> life[n] \notin {"none", "admitted", "gone"}
    BY <1>1
  <2>3. ASSUME NEW n \in nodes PROVE selection[n].version > 0 /\ (Resource(n) => selection[n].rank \in Ranks)
    <3>1. n \in Nodes /\ n \in Present /\ selection[n] = Settled(n)
      BY <1>1, <1>2
    <3>2. Settled(n).version = 2 /\ Settled(n).rank = Baseline[n]
      BY <3>1, SettledType
    <3>3. Resource(n) => Baseline[n] \in Ranks
      BY <3>1, DemandAssumption DEF DemandAssumption, Resource
    <3> QED
      BY <3>1, <3>2, <3>3
  <2>4. \A n \in Nodes \ nodes : selection[n] = NoSelection /\ shown[n] = 0
    BY <1>1, SettledType
  <2> QED
    BY <2>1, <2>2, <2>3, <2>4 DEF Placed
<1>7. CleanIsCurrent
  <2>1. ASSUME NEW n \in nodes
        PROVE  /\ shown[n] = selection[n].tie
               /\ Aggregate(n, selection) = [rank |-> selection[n].rank, active |-> selection[n].active]
    <3>1. n \in Nodes /\ n \in Present /\ selection[n] = Settled(n) /\ shown[n] = Settled(n).tie
      BY <1>1, <1>2
    <3>2. Settled(n).rank = Baseline[n] /\ Settled(n).active = (Baseline[n] # NoRank)
      BY <3>1, SettledType
    <3>3. Children(n) = {}
      BY <1>1, <1>2, <3>1, DemandAssumption DEF Children, DemandAssumption
    <3>4. Attached(n) = {}
      BY <1>1 DEF Attached
    <3>5. WantedAt(n, selection, TRUE) = {} /\ WantedAt(n, selection, FALSE) = {}
      BY <3>3, <3>4 DEF WantedAt
    <3>6. Aggregate(n, selection) = [rank |-> Baseline[n], active |-> Baseline[n] # NoRank]
      BY <3>5 DEF Aggregate
    <3> QED
      BY <3>1, <3>2, <3>6
  <2> QED
    BY <2>1 DEF CleanIsCurrent
<1> QED
  BY <1>5, <1>6, <1>7 DEF GraphOK

LEMMA InitFlow ==
  ASSUME Init
  PROVE  FlowOK
<1>1. /\ nodes = Present /\ dirty = <<>> /\ selection = [n \in Nodes |-> Settled(n)]
      /\ front = -1 /\ back = Cardinality(Present) + 1
      /\ demandPending = FALSE /\ updatesPending = FALSE /\ mailbox = [n \in Nodes |-> NoSelection]
      /\ transfer = None /\ changes = [t \in Threads |-> <<>>] /\ done = {}
      /\ copy = [n \in Nodes |-> NoSelection] /\ applied = selection
      /\ handedOff = {n \in Present : ~Resource(n)}
      /\ life = [n \in Nodes |-> IF n \notin Present THEN "none" ELSE IF Resource(n) THEN "waiting" ELSE "claimed"]
  BY DEF Init
<1>2. Present \subseteq Nodes /\ Nodes \subseteq Nat
  BY DemandAssumption DEF Present, DemandAssumption, Jobs
<1>3. NoSelection \in Selection /\ NoSelection.version = 0
  BY DEF NoSelection, Selection
<1>4. \A n \in Nodes : selection[n] = Settled(n) /\ applied[n] = Settled(n) /\ Settled(n) \in Selection
  BY <1>1, SettledType
<1>5. StageType
  <2>1. mailbox \in [Nodes -> Selection] /\ copy \in [Nodes -> Selection]
    BY <1>1, <1>3
  <2>2. changes \in [Threads -> Seq(Change)]
    BY <1>1, EmptyElements
  <2> QED
    BY <1>1, <1>2, <2>1, <2>2 DEF StageType
<1>6. ASSUME NEW n \in Nodes, NEW o \in Known(n) PROVE o \in {NoSelection, Settled(n)}
  <2>1. \A t \in Threads : DOMAIN changes[t] = {}
    BY <1>1
  <2> QED
    BY <1>1, <1>4, <1>6, <2>1, KnownFrom
<1>7. ASSUME NEW n \in Nodes PROVE Settled(n) \in Known(n) /\ Known(n) \subseteq Selection
  <2>1. applied \in [Nodes -> Selection]
    BY <1>1, <1>4
  <2> QED
    BY <1>4, <1>5, <2>1, KnownType
<1>8. Traced
  <2>1. ASSUME NEW n \in Nodes, NEW o \in Known(n)
        PROVE  Behind(o, selection[n]) /\ (Resource(n) /\ o.version > 0 => o.rank \in Ranks)
    <3>1. CASE n \notin Present
      <4>1. o = NoSelection /\ selection[n] = NoSelection
        BY <1>4, <1>6, <3>1, SettledType
      <4> QED
        BY <1>3, <4>1 DEF Behind
    <3>2. CASE n \in Present
      <4>1. Settled(n).version = 2 /\ Settled(n).rank = Baseline[n] /\ selection[n] = Settled(n)
        BY <1>4, <3>2, SettledType
      <4>2. Resource(n) => Baseline[n] \in Ranks
        BY DemandAssumption DEF DemandAssumption, Resource
      <4>3. CASE o = NoSelection
        BY <1>3, <4>1, <4>3 DEF Behind
      <4>4. CASE o = Settled(n)
        BY <4>1, <4>2, <4>4 DEF Behind
      <4> QED
        BY <1>6, <4>3, <4>4
    <3> QED
      BY <3>1, <3>2
  <2>2. \A t \in Threads : DOMAIN changes[t] = {}
    BY <1>1
  <2> QED
    BY <2>1, <2>2 DEF Traced
<1>9. Ties
  <2>1. ASSUME NEW n \in Nodes, NEW s \in All(n), s.version > 0 PROVE n \in Present /\ s = Settled(n)
    <3>1. s = NoSelection \/ s = Settled(n)
      BY <1>4, <1>6, <2>1 DEF All
    <3>2. s # NoSelection
      BY <1>3, <2>1
    <3>3. n \notin Present => Settled(n) = NoSelection
      BY SettledType
    <3> QED
      BY <3>1, <3>2, <3>3
  <2>2. Cardinality(Present) \in Nat
    <3>1. IsFiniteSet(Present)
      BY <1>2, DemandAssumption, FS_Subset DEF DemandAssumption
    <3> QED
      BY <3>1, FS_CardinalityType
  <2>3. ASSUME NEW n \in Nodes, NEW s \in All(n), s.version > 0 PROVE front < s.tie /\ s.tie < back /\ s.tie # 0
    <3>1. s.tie \in 1 .. Cardinality(Present)
      BY <2>1, <2>3, SettledType
    <3> QED
      BY <1>1, <2>2, <3>1
  <2>4. ASSUME NEW n \in Nodes, NEW m \in Nodes, n # m, NEW s \in All(n), NEW o \in All(m), s.version > 0, o.version > 0
        PROVE  s.tie # o.tie
    <3>1. n \in Present /\ m \in Present /\ s = Settled(n) /\ o = Settled(m)
      BY <2>1, <2>4
    <3>2. n < m \/ m < n
      BY <1>2, <2>4
    <3> QED
      BY <3>1, <3>2, SettledTies
  <2>5. front < 0 /\ 0 < back
    BY <1>1, <2>2
  <2> QED
    BY <2>3, <2>4, <2>5 DEF Ties
<1>10. Stages
  <2>1. \A n \in Nodes : /\ copy[n] = NoSelection /\ mailbox[n] = NoSelection
                         /\ life[n] \in {"none", "waiting", "claimed"}
                         /\ life[n] = "none" <=> n \notin Present
    BY <1>1
  <2>2. \A n \in Jobs : life[n] \in {"waiting", "ready", "deferred", "handed"} => applied[n].version > 0
    <3>1. ASSUME NEW n \in Jobs, life[n] \in {"waiting", "ready", "deferred", "handed"} PROVE applied[n].version > 0
      <4>1. n \in Nodes /\ n \in Present
        BY <2>1, <3>1 DEF Jobs
      <4>2. applied[n].version = 2
        BY <1>4, <4>1, SettledType
      <4> QED
        BY <4>2
    <3> QED
      BY <3>1
  <2>3. \A n \in Nodes : life[n] \in {"none", "admitted", "removing", "gone"} => applied[n] = NoSelection
    BY <1>4, <2>1, SettledType
  <2> QED
    BY <2>1, <2>2, <2>3 DEF Stages
<1>11. Newest
  BY <1>1, <1>2, <1>4, <1>7 DEF Newest
<1>12. Flags
  BY <1>1, <1>3 DEF Flags, HasMail
<1> QED
  BY <1>5, <1>8, <1>9, <1>10, <1>11, <1>12 DEF FlowOK

LEMMA InitRest ==
  ASSUME Init
  PROVE  ClassOK(Class) /\ HooksOK /\ BindingType /\ Held
<1>1. /\ nodes = Present /\ selection = [n \in Nodes |-> Settled(n)] /\ applied = selection
      /\ entry = [n \in Nodes |-> NoSelection] /\ ready = EmptyQueue /\ deferred = EmptyQueue /\ rebalance = FALSE
      /\ hooks = [t \in Threads |-> <<>>] /\ counted = [t \in Threads |-> 0] /\ providerCallbacks = 0
      /\ seen = [n \in Nodes |-> NoSelection] /\ reading = "open"
      /\ life = [n \in Nodes |-> IF n \notin Present THEN "none" ELSE IF Resource(n) THEN "waiting" ELSE "claimed"]
  BY DEF Init
<1>2. NoSelection \in Selection
  BY DEF NoSelection, Selection
<1>3. EmptyQueue \in PendingQueue /\ EmptyQueue.ordinary = <<>> /\ EmptyQueue.resource = {}
  BY EmptyElements DEF EmptyQueue, PendingQueue
<1>4. \A n \in Nodes : life[n] \notin {"ready", "deferred"} /\ life[n] \in Lives
  BY <1>1 DEF Lives
<1>5. /\ life \in [Nodes -> Lives] /\ applied \in [Nodes -> Selection] /\ entry \in [Nodes -> Selection]
      /\ seen \in [Nodes -> Selection]
  BY <1>1, <1>2, <1>4, SettledType
<1>6. ClassOK(Class)
  <2>1. /\ Class.ready = EmptyQueue /\ Class.deferred = EmptyQueue /\ Class.life = life /\ Class.applied = applied
        /\ Class.entry = entry /\ Class.rebalance = FALSE
    BY <1>1 DEF Class
  <2>2. ClassType(Class)
    BY <1>3, <1>5, <2>1 DEF ClassType
  <2>3. Lined(EmptyQueue, life, "ready") /\ Lined(EmptyQueue, life, "deferred")
    BY <1>3, EmptyElements DEF Lined
  <2>4. InQueue(Class) = {}
    BY <1>4, <2>1 DEF InQueue
  <2>5. Keyed(Class) /\ InOrder(Class)
    BY <1>3, <2>1, <2>4 DEF Keyed, InOrder
  <2> QED
    BY <2>1, <2>2, <2>3, <2>5 DEF ClassOK
<1>7. HooksOK
  <2>1. External \cap nodes = {}
    BY <1>1, DemandAssumption DEF Present, DemandAssumption, Jobs
  <2>2. External \subseteq Nodes
    BY DemandAssumption DEF DemandAssumption
  <2>3. \A t \in Threads : hooks[t] = <<>> /\ DOMAIN hooks[t] = {} /\ counted[t] = 0 /\ Len(hooks[t]) = 0
    BY <1>1
  <2>4. Informed
    BY <1>1, <2>1, <2>2, <2>3 DEF Informed
  <2>5. Announced = {}
    BY <2>3 DEF Announced
  <2>6. Counted
    BY <1>1, <2>3, <2>5, FS_EmptySet DEF Counted
  <2>7. Quiet
    BY <1>1 DEF Quiet
  <2>8. HookType
    <3>1. hooks \in [Threads -> Seq(Change)]
      BY <1>1, EmptyElements
    <3> QED
      BY <1>1, <1>5, <3>1 DEF HookType
  <2> QED
    BY <2>4, <2>6, <2>7, <2>8 DEF HooksOK
<1>8. BindingType /\ Held
  BY DEF Init, BindingType, Held
<1> QED
  BY <1>6, <1>7, <1>8

-----------------------------------------------------------------------------
(* What the invariant says *)

LEMMA SameSelection ==
  ASSUME NEW a \in Selection, NEW b \in Selection,
         a.rank = b.rank, a.active = b.active, a.tie = b.tie, a.version = b.version
  PROVE  a = b
BY DEF Selection

LEMMA NewestOfInvariant ==
  ASSUME IInv
  PROVE  NewestArrives
<1>1. GraphOK /\ FlowOK /\ ClassOK(Class) /\ applied \in [Nodes -> Selection]
  BY ClassTypes DEF IInv, NodesOK
<1>2. ASSUME NEW n \in nodes, Resource(n), life[n] # "removing"
      PROVE  \E s \in Known(n) : /\ \A o \in Known(n) : o.version <= s.version
                                 /\ [s EXCEPT !.tie = selection[n].tie] = selection[n]
  <2>1. n \in Nodes /\ selection[n] \in Selection
    BY <1>1 DEF GraphOK, GraphType
  <2>2. PICK s \in Known(n) : s.version = selection[n].version
    BY <1>1, <1>2 DEF FlowOK, Newest
  <2>3. \A o \in Known(n) : Behind(o, selection[n])
    BY <1>1, <2>1 DEF FlowOK, Traced
  <2>4. \A o \in Known(n) : o.version <= s.version
    BY <2>2, <2>3 DEF Behind
  <2>5. s \in Selection
    BY <1>1, <2>1, KnownType DEF FlowOK
  <2>6. s.rank = selection[n].rank /\ s.active = selection[n].active
    BY <2>2, <2>3 DEF Behind
  <2> DEFINE moved == [s EXCEPT !.tie = selection[n].tie]
  <2>7. /\ moved.rank = s.rank /\ moved.active = s.active /\ moved.version = s.version
        /\ moved.tie = selection[n].tie /\ moved \in Selection
    BY <2>1, <2>5 DEF Selection
  <2>8. moved = selection[n]
    <3> HIDE DEF moved
    <3> QED
      BY <2>1, <2>2, <2>6, <2>7, SameSelection
  <2> QED
    BY <2>4, <2>8
<1>3. \A n \in Nodes : life[n] \in {"ready", "deferred"} => entry[n] = applied[n]
  BY <1>1, ClassIsRecord DEF ClassOK, Keyed
<1>4. \A n \in Nodes : mailbox[n] # NoSelection => n \in nodes
  BY <1>1 DEF FlowOK, Stages
<1> QED
  BY <1>1, <1>2, <1>3, <1>4 DEF NewestArrives, FlowOK, Flags

LEMMA WindowOfInvariant ==
  ASSUME IInv
  PROVE  WindowInOrder
<1>1. ClassOK(Class)
  BY DEF IInv, NodesOK
<1> QED
  BY <1>1, ClassIsRecord DEF WindowInOrder, ClassOK, InOrder

LEMMA ProvidersOfInvariant ==
  ASSUME IInv
  PROVE  ProvidersCatchUp
<1>1. GraphOK /\ FlowOK /\ HooksOK
  BY DEF IInv, NodesOK
<1>2. ASSUME dirty = <<>>, \A t \in Threads : hooks[t] = <<>>, NEW n \in External \cap nodes
      PROVE  seen[n] = selection[n]
  <2>1. n \in Nodes /\ selection[n] \in Selection /\ seen[n] \in Selection
    BY <1>1 DEF GraphOK, GraphType, HooksOK, HookType
  <2>2. shown[n] = selection[n].tie
    BY <1>1, <1>2, EmptyElements DEF GraphOK, CleanIsCurrent
  <2>3. selection[n].tie # 0
    <3>1. selection[n] \in All(n) /\ selection[n].version > 0
      BY <1>1 DEF All, GraphOK, Placed
    <3> QED
      BY <1>1, <2>1, <3>1 DEF FlowOK, Ties
  <2>4. PICK o \in Told(n) : o.version = selection[n].version
    BY <1>1, <2>2, <2>3 DEF HooksOK, Informed
  <2>5. o = seen[n]
    BY <1>2, ToldFrom
  <2>6. Behind(o, selection[n]) /\ o.tie = shown[n]
    BY <1>1, <2>4 DEF HooksOK, Informed
  <2> QED
    BY <2>1, <2>2, <2>4, <2>5, <2>6, SameSelection DEF Behind
<1>3. ASSUME reading = "quiescent"
      PROVE  nodes = {} /\ transfer = None /\ \A t \in Threads : hooks[t] = <<>> /\ changes[t] = <<>>
  <2>1. nodes = {} /\ providerCallbacks = 0
    BY <1>1, <1>3, NodesAreCharged DEF HooksOK, Quiet
  <2>2. transfer = None
    BY <1>1, <2>1 DEF FlowOK, Flags
  <2>3. \A t \in Threads : changes[t] = <<>>
    BY <1>1, <2>2, DemandAssumption DEF FlowOK, Flags, DemandAssumption
  <2>4. Announced = {}
    BY <1>1, <2>1, FS_EmptySet DEF HooksOK, Counted
  <2>5. ASSUME NEW t \in Threads PROVE hooks[t] = <<>>
    <3>1. counted[t] \in Nat /\ hooks[t] \in Seq(Change) /\ Len(hooks[t]) <= counted[t]
      BY <1>1 DEF HooksOK, HookType, Counted
    <3>2. counted[t] = 0
      <4>1. <<t, 1>> \notin Announced
        BY <2>4
      <4> QED
        BY <3>1, <4>1 DEF Announced
    <3> QED
      BY <3>1, <3>2, Elements
  <2> QED
    BY <2>1, <2>2, <2>3, <2>5
<1> QED
  BY <1>2, <1>3 DEF ProvidersCatchUp

\* The invariant holds: the graph, the selections on their way out of it, the
\* class's queues, the hooks and the consumers' bindings stay consistent whatever
\* the order of the threads, submitters, dispatchers and consumers.
THEOREM Invariance == Spec => []IInv
<1>1. Init => IInv
  BY InitGraph, InitFlow, InitRest DEF IInv, NodesOK
<1>2. IInv /\ [Next]_vars => IInv'
  BY NextPreserves
<1> QED
  BY <1>1, <1>2, PTL DEF Spec

\* A node nobody has marked dirty was published with the demand its leases and its
\* children have now: no change gets past the graph (mark_dirty, service, aggregate).
THEOREM CleanNodesAreCurrent == Spec => []CleanIsCurrent
<1>1. IInv => CleanIsCurrent
  BY DEF IInv, NodesOK, GraphOK
<1> QED
  BY <1>1, Invariance, PTL

\* The newest selection of every job is in its record or on its way there, a queued
\* job is queued by its record's, and every stage that holds something says so
\* (Put, Newer, apply_demand_updates, service_demand_chunk, remove_demand).
THEOREM NewestSelectionArrives == Spec => []NewestArrives
<1>1. IInv => NewestArrives
  BY NewestOfInvariant
<1> QED
  BY <1>1, Invariance, PTL

\* The runnable window never holds back a resource job behind one that its demand
\* comes before, unless it is marked to be rebuilt (update_resource, promote_locked).
THEOREM WindowStaysInOrder == Spec => []WindowInOrder
<1>1. IInv => WindowInOrder
  BY WindowOfInvariant
<1> QED
  BY <1>1, Invariance, PTL

\* Providers know their nodes' demand when nothing is dirty and no hook is being
\* called, and a runtime found quiescent has no node, no transfer and no hook left
\* (service_demand_chunk, quiescent).
THEOREM ProvidersKnow == Spec => []ProvidersCatchUp
<1>1. IInv => ProvidersCatchUp
  BY ProvidersOfInvariant
<1> QED
  BY <1>1, Invariance, PTL

\* A consumer whose binding has ended keeps neither a lease nor a subscription
\* (ConsumerBinding::end, bind_consumer).
THEOREM EndedConsumersLeave == Spec => []EndedConsumersGone
<1>1. IInv => EndedConsumersGone
  <2>1. Bound \subseteq Consumers
    BY DemandAssumption DEF DemandAssumption
  <2> QED
    BY <2>1 DEF IInv, Held, EndedConsumersGone, BindingType
<1> QED
  BY <1>1, Invariance, PTL

=============================================================================
