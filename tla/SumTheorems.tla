---------------------------- MODULE SumTheorems ----------------------------
(***************************************************************************)
(* Sums over finite sets, the last position of a set and arithmetic modulo *)
(* a width: what the proofs about counters and batches use.                *)
(***************************************************************************)
EXTENDS Sums, FiniteSetTheorems, WellFoundedInduction, TLAPS

Integral(f, S) == \A x \in S : f[x] \in Int

-----------------------------------------------------------------------------
(* Induction over a set of numbers.                                        *)

Less == {p \in Nat \X Nat : p[1] < p[2]}

LEMMA LessWellFounded == IsWellFoundedOn(Less, Nat)
  BY NatLessThanWellFounded, Zenon DEF Less, OpToRel

\* A set of numbers that has 0 and with every number the next has them all.
LEMMA Induction ==
  ASSUME NEW P \in SUBSET Nat, 0 \in P, \A n \in P : n + 1 \in P
  PROVE  P = Nat
  <1> SUFFICES ASSUME Nat \ P # {} PROVE FALSE
    OBVIOUS
  <1>1. PICK m \in Nat \ P : \A k \in Nat \ P : ~(<<k, m>> \in Less)
    <2>1. Nat \ P \subseteq Nat
      OBVIOUS
    <2> QED
      BY <2>1, LessWellFounded, WFMin
  <1>2. m # 0 /\ m - 1 \in Nat /\ <<m - 1, m>> \in Less
    BY DEF Less
  <1>3. m - 1 \in P
    BY <1>1, <1>2
  <1> QED
    BY <1>3, <1>2

-----------------------------------------------------------------------------
(* The recursion behind MapThenSumSet.                                     *)

SumPick(s) == CHOOSE x \in s : TRUE

SumStep(f, S, g) == [s \in SUBSET S |-> IF s = {} THEN 0 ELSE f[SumPick(s)] + g[s \ {SumPick(s)}]]

SumIter(f, S) == CHOOSE g : g = SumStep(f, S, g)

LEMMA TotalIter == \A f, S : Total(f, S) = SumIter(f, S)[S]
  BY DEF Total, SumIter, SumStep, SumPick, MapThenSumSet, MapThenFoldSet

LEMMA PickIn == \A s : s # {} => SumPick(s) \in s
  BY DEF SumPick

\* A subset of a finite set without its pick is smaller.
LEMMA PickRemoved ==
  ASSUME NEW S, IsFiniteSet(S), NEW s \in SUBSET S
  PROVE  /\ IsFiniteSet(s) /\ Cardinality(s) \in Nat /\ (Cardinality(s) = 0 <=> s = {})
         /\ \A x \in s : /\ s \ {x} \in SUBSET S /\ IsFiniteSet(s \ {x})
                         /\ Cardinality(s \ {x}) = Cardinality(s) - 1
  <1>1. IsFiniteSet(s)
    BY FS_Subset
  <1> QED
    BY <1>1, FS_CardinalityType, FS_EmptySet, FS_RemoveElement

\* The equation of the recursion holds up to size n.
SumSolves(g, f, S, n) == \A s \in SUBSET S : Cardinality(s) <= n => g[s] = SumStep(f, S, g)[s]

\* It can be solved up to any size ...
LEMMA StepUpTo ==
  ASSUME NEW S, IsFiniteSet(S), NEW f, Integral(f, S)
  PROVE  \A n \in Nat : \E g \in [SUBSET S -> Int] : SumSolves(g, f, S, n)
  <1> DEFINE P == {n \in Nat : \E g \in [SUBSET S -> Int] : SumSolves(g, f, S, n)}
  <1>1. 0 \in P
    <2> DEFINE g == [s \in SUBSET S |-> 0]
    <2>1. g \in [SUBSET S -> Int]
      OBVIOUS
    <2>2. ASSUME NEW s \in SUBSET S, Cardinality(s) <= 0 PROVE g[s] = SumStep(f, S, g)[s]
      <3>1. s = {}
        BY <2>2, PickRemoved
      <3> QED
        BY <3>1 DEF SumStep
    <2> QED
      BY <2>1, <2>2 DEF SumSolves
  <1>2. ASSUME NEW n \in P PROVE n + 1 \in P
    <2>1. PICK g \in [SUBSET S -> Int] : SumSolves(g, f, S, n)
      OBVIOUS
    <2> DEFINE h == SumStep(f, S, g)
    <2>2. h \in [SUBSET S -> Int]
      BY PickIn DEF SumStep, Integral
    <2>3. ASSUME NEW s \in SUBSET S, Cardinality(s) <= n + 1 PROVE h[s] = SumStep(f, S, h)[s]
      <3>1. CASE s = {}
        BY <3>1 DEF SumStep
      <3>2. CASE s # {}
        <4> DEFINE t == s \ {SumPick(s)}
        <4>1. t \in SUBSET S /\ Cardinality(t) <= n
          BY <2>3, <3>2, PickIn, PickRemoved
        <4>2. g[t] = h[t]
          BY <4>1, <2>1 DEF SumSolves
        <4>3. h[s] = f[SumPick(s)] + g[t]
          BY <3>2 DEF SumStep
        <4>4. SumStep(f, S, h)[s] = f[SumPick(s)] + h[t]
          BY <3>2 DEF SumStep
        <4> QED
          BY <4>2, <4>3, <4>4
      <3> QED
        BY <3>1, <3>2
    <2> QED
      BY <2>2, <2>3 DEF SumSolves
  <1>3. P = Nat
    <2>1. P \in SUBSET Nat
      OBVIOUS
    <2> HIDE DEF P
    <2> QED
      BY <1>1, <1>2, <2>1, Induction
  <1> QED
    BY <1>3


\* ... so the recursion of MapThenSumSet has a solution.
LEMMA IterStep ==
  ASSUME NEW S, IsFiniteSet(S), NEW f, Integral(f, S)
  PROVE  SumIter(f, S) = SumStep(f, S, SumIter(f, S)) /\ SumIter(f, S) \in [SUBSET S -> Int]
  <1>0. Cardinality(S) \in Nat
    BY FS_CardinalityType
  <1>1. PICK g \in [SUBSET S -> Int] : SumSolves(g, f, S, Cardinality(S))
    BY <1>0, StepUpTo
  <1>2. \A s \in SUBSET S : g[s] = SumStep(f, S, g)[s]
    BY <1>1, FS_Subset DEF SumSolves
  <1>3. g = SumStep(f, S, g)
    BY <1>2 DEF SumStep
  <1>4. SumIter(f, S) = SumStep(f, S, SumIter(f, S))
    BY <1>3 DEF SumIter
  <1> QED
    <2> DEFINE h == SumIter(f, S)
    <2> HIDE DEF h
    <2> DEFINE P == {n \in Nat : \A s \in SUBSET S : Cardinality(s) = n => h[s] \in Int}
    <2>0. h = SumStep(f, S, h)
      BY <1>4 DEF h
    <2>1. 0 \in P
      <3>1. ASSUME NEW s \in SUBSET S, Cardinality(s) = 0 PROVE h[s] = 0
        BY <3>1, <2>0, PickRemoved DEF SumStep
      <3> QED
        BY <3>1
    <2>2. ASSUME NEW n \in P PROVE n + 1 \in P
      <3>1. ASSUME NEW s \in SUBSET S, Cardinality(s) = n + 1 PROVE h[s] \in Int
        <4>1. s # {}
          BY <3>1, PickRemoved
        <4>2. s \ {SumPick(s)} \in SUBSET S /\ Cardinality(s \ {SumPick(s)}) = n
          BY <3>1, <4>1, PickIn, PickRemoved
        <4>3. h[s] = f[SumPick(s)] + h[s \ {SumPick(s)}]
          BY <2>0, <4>1 DEF SumStep
        <4>4. f[SumPick(s)] \in Int
          BY <4>1, PickIn DEF Integral
        <4>5. h[s \ {SumPick(s)}] \in Int
          BY <4>2
        <4> QED
          BY <4>3, <4>4, <4>5
      <3> QED
        BY <3>1
    <2>3. P = Nat
      <3>1. P \in SUBSET Nat
        OBVIOUS
      <3> HIDE DEF P
      <3> QED
        BY <2>1, <2>2, <3>1, Induction
    <2>4. \A s \in SUBSET S : h[s] \in Int
      BY <2>3, PickRemoved
    <2>5. h \in [SUBSET S -> Int]
      BY <2>0, <2>4 DEF SumStep
    <2> QED
      BY <1>4, <2>5 DEF h

\* The sum over a subset is the value of the same recursion at that subset,
\* also for another function with the same values.
LEMMA IterSubset ==
  ASSUME NEW S, IsFiniteSet(S), NEW f, Integral(f, S), NEW R \in SUBSET S,
         NEW e, \A x \in R : e[x] = f[x]
  PROVE  Total(e, R) = SumIter(f, S)[R]
  <1>1. IsFiniteSet(R) /\ Integral(e, R)
    BY FS_Subset DEF Integral
  <1> DEFINE g == SumIter(f, S)
             h == SumIter(e, R)
  <1>2. g = SumStep(f, S, g)
    BY IterStep
  <1>3. h = SumStep(e, R, h)
    BY <1>1, IterStep
  <1>4. Total(e, R) = h[R]
    BY TotalIter
  <1> HIDE DEF g, h
  <1> DEFINE P == {n \in Nat : \A s \in SUBSET R : Cardinality(s) = n => h[s] = g[s]}
  <1>5. 0 \in P
    <2>1. ASSUME NEW s \in SUBSET R, Cardinality(s) = 0 PROVE h[s] = g[s]
      <3>1. s = {} /\ s \in SUBSET S
        BY <1>1, <2>1, PickRemoved
      <3>2. h[s] = 0
        BY <3>1, <1>3 DEF SumStep
      <3>3. g[s] = 0
        BY <3>1, <1>2 DEF SumStep
      <3> QED
        BY <3>2, <3>3
    <2> QED
      BY <2>1
  <1>6. ASSUME NEW n \in P PROVE n + 1 \in P
    <2>1. ASSUME NEW s \in SUBSET R, Cardinality(s) = n + 1 PROVE h[s] = g[s]
      <3>1. s # {} /\ s \in SUBSET S
        BY <1>1, <2>1, PickRemoved
      <3>2. s \ {SumPick(s)} \in SUBSET R /\ Cardinality(s \ {SumPick(s)}) = n
        BY <1>1, <2>1, <3>1, PickIn, PickRemoved
      <3>3. h[s \ {SumPick(s)}] = g[s \ {SumPick(s)}]
        BY <3>2
      <3>4. h[s] = e[SumPick(s)] + h[s \ {SumPick(s)}]
        BY <3>1, <1>3 DEF SumStep
      <3>5. g[s] = f[SumPick(s)] + g[s \ {SumPick(s)}]
        BY <3>1, <1>2 DEF SumStep
      <3>6. e[SumPick(s)] = f[SumPick(s)]
        BY <3>1, PickIn
      <3> QED
        BY <3>3, <3>4, <3>5, <3>6
    <2> QED
      BY <2>1
  <1>7. P = Nat
    <2>1. P \in SUBSET Nat
      OBVIOUS
    <2> HIDE DEF P
    <2> QED
      BY <1>5, <1>6, <2>1, Induction
  <1>8. Cardinality(R) \in Nat /\ R \in SUBSET R
    BY <1>1, FS_CardinalityType
  <1>9. h[R] = g[R]
    BY <1>7, <1>8
  <1> QED
    BY <1>4, <1>9 DEF g

-----------------------------------------------------------------------------
(* What the proofs about the models use.                                   *)

\* The type of a sum, and the sum over nothing.
LEMMA TotalType ==
  ASSUME NEW S, IsFiniteSet(S), NEW f, Integral(f, S)
  PROVE  Total(f, S) \in Int /\ (S = {} => Total(f, S) = 0)
  <1>1. Total(f, S) = SumIter(f, S)[S]
    BY TotalIter
  <1>2. SumIter(f, S)[S] \in Int
    BY IterStep
  <1>3. ASSUME S = {} PROVE SumIter(f, S)[S] = 0
    <2> DEFINE g == SumIter(f, S)
    <2>1. g = SumStep(f, S, g)
      BY IterStep
    <2> HIDE DEF g
    <2>2. g[S] = 0
      BY <1>3, <2>1 DEF SumStep
    <2> QED
      BY <2>2 DEF g
  <1> QED
    BY <1>1, <1>2, <1>3

\* Functions with the same values have the same sum.
LEMMA TotalSame ==
  ASSUME NEW S, IsFiniteSet(S), NEW f, Integral(f, S), NEW e, \A x \in S : e[x] = f[x]
  PROVE  Total(e, S) = Total(f, S)
  <1>1. S \in SUBSET S
    OBVIOUS
  <1>2. Total(e, S) = SumIter(f, S)[S]
    BY <1>1, IterSubset
  <1> QED
    BY <1>2, TotalIter

\* An element may be taken out in any order.
LEMMA TotalRemove ==
  ASSUME NEW S, IsFiniteSet(S), NEW f, Integral(f, S), NEW y \in S
  PROVE  Total(f, S) = f[y] + Total(f, S \ {y})
  <1> DEFINE g == SumIter(f, S)
  <1>1. g = SumStep(f, S, g) /\ g \in [SUBSET S -> Int]
    BY IterStep
  <1>2. \A R \in SUBSET S : Total(f, R) = g[R]
    BY IterSubset
  <1> HIDE DEF g
  <1> DEFINE P == {n \in Nat : \A s \in SUBSET S : Cardinality(s) = n =>
                                 \A x \in s : g[s] = f[x] + g[s \ {x}]}
  <1>3. 0 \in P
    BY PickRemoved
  <1>4. ASSUME NEW n \in P PROVE n + 1 \in P
    <2>1. ASSUME NEW s \in SUBSET S, Cardinality(s) = n + 1, NEW x \in s
          PROVE  g[s] = f[x] + g[s \ {x}]
      <3> DEFINE p == SumPick(s)
      <3>1. p \in s
        BY PickIn
      <3>2. g[s] = f[p] + g[s \ {p}]
        BY <1>1, <2>1 DEF SumStep
      <3> HIDE DEF p
      <3>3. CASE x = p
        BY <3>2, <3>3
      <3>4. CASE x # p
        <4>1. /\ s \ {p} \in SUBSET S /\ Cardinality(s \ {p}) = n /\ x \in s \ {p}
              /\ s \ {x} \in SUBSET S /\ Cardinality(s \ {x}) = n /\ p \in s \ {x}
          BY <2>1, <3>1, <3>4, PickRemoved
        <4>2. g[s \ {p}] = f[x] + g[(s \ {p}) \ {x}]
          BY <4>1
        <4>3. g[s \ {x}] = f[p] + g[(s \ {x}) \ {p}]
          BY <4>1
        <4>4. (s \ {p}) \ {x} = (s \ {x}) \ {p} /\ (s \ {p}) \ {x} \in SUBSET S
          OBVIOUS
        <4>5. PICK i, j, k \in Int : f[x] = i /\ f[p] = j /\ g[(s \ {p}) \ {x}] = k
          BY <1>1, <3>1, <4>4 DEF Integral
        <4>6. g[s] = j + (i + k)
          BY <3>2, <4>2, <4>5
        <4>7. f[x] + g[s \ {x}] = i + (j + k)
          BY <4>3, <4>4, <4>5
        <4> QED
          BY <4>6, <4>7
      <3> QED
        BY <3>3, <3>4
    <2> QED
      BY <2>1
  <1>5. P = Nat
    <2>1. P \in SUBSET Nat
      OBVIOUS
    <2> HIDE DEF P
    <2> QED
      BY <1>3, <1>4, <2>1, Induction
  <1>6. Cardinality(S) \in Nat /\ S \in SUBSET S
    BY FS_CardinalityType
  <1>7. g[S] = f[y] + g[S \ {y}]
    BY <1>5, <1>6
  <1> QED
    BY <1>2, <1>7

LEMMA TotalAdd ==
  ASSUME NEW S, IsFiniteSet(S), NEW f, NEW y, y \notin S, Integral(f, S \cup {y})
  PROVE  Total(f, S \cup {y}) = f[y] + Total(f, S)
  <1>1. IsFiniteSet(S \cup {y}) /\ (S \cup {y}) \ {y} = S
    BY FS_AddElement
  <1> QED
    BY <1>1, TotalRemove

\* A sum may be taken over other names of the same elements.
LEMMA TotalReindex ==
  ASSUME NEW S, IsFiniteSet(S), NEW f, Integral(f, S), NEW h, NEW e,
         \A x, y \in S : h[x] = h[y] => x = y,
         \A x \in S : e[h[x]] = f[x]
  PROVE  Total(e, {h[x] : x \in S}) = Total(f, S)
  <1> DEFINE Img(s) == {h[x] : x \in s}
             P == {n \in Nat : \A s \in SUBSET S : Cardinality(s) = n => Total(e, Img(s)) = Total(f, s)}
  <1>1. ASSUME NEW s \in SUBSET S
        PROVE  /\ IsFiniteSet(s) /\ Integral(f, s)
               /\ IsFiniteSet(Img(s)) /\ Integral(e, Img(s))
    <2>1. IsFiniteSet(s)
      BY FS_Subset
    <2>2. IsFiniteSet(Img(s))
      <3> DEFINE g == [x \in s |-> h[x]]
      <3>1. g \in Surjection(s, Img(s))
        BY DEF Surjection
      <3> QED
        BY <2>1, <3>1, FS_Surjection
    <2>3. Integral(f, s)
      BY DEF Integral
    <2>4. Integral(e, Img(s))
      BY <2>3 DEF Integral
    <2> QED
      BY <2>1, <2>2, <2>3, <2>4
  <1>2. 0 \in P
    <2>1. ASSUME NEW s \in SUBSET S, Cardinality(s) = 0 PROVE Total(e, Img(s)) = Total(f, s)
      <3>1. s = {}
        BY <2>1, PickRemoved
      <3>2. Img(s) = {}
        BY <3>1
      <3>3. Total(f, s) = 0
        BY <1>1, <3>1, TotalType
      <3>4. Total(e, Img(s)) = 0
        BY <1>1, <3>2, TotalType
      <3> QED
        BY <3>3, <3>4
    <2> QED
      BY <2>1
  <1>3. ASSUME NEW n \in P PROVE n + 1 \in P
    <2>1. ASSUME NEW s \in SUBSET S, Cardinality(s) = n + 1 PROVE Total(e, Img(s)) = Total(f, s)
      <3>1. PICK p \in s : TRUE
        BY <2>1, PickRemoved
      <3> DEFINE t == s \ {p}
      <3>2. t \in SUBSET S /\ Cardinality(t) = n
        BY <2>1, PickRemoved
      <3>3. Img(s) \ {h[p]} = Img(t) /\ h[p] \in Img(s)
        OBVIOUS
      <3>4. Total(f, s) = f[p] + Total(f, t)
        <4>1. IsFiniteSet(s) /\ Integral(f, s)
          BY <1>1
        <4> QED
          BY <4>1, TotalRemove
      <3>5. Total(e, Img(s)) = e[h[p]] + Total(e, Img(t))
        <4>1. IsFiniteSet(Img(s)) /\ Integral(e, Img(s))
          BY <1>1
        <4> HIDE DEF Img, t
        <4> QED
          BY <3>3, <4>1, TotalRemove
      <3>6. Total(e, Img(t)) = Total(f, t)
        BY <3>2
      <3> QED
        BY <3>4, <3>5, <3>6
    <2> QED
      BY <2>1
  <1>4. P = Nat
    <2>1. P \in SUBSET Nat
      OBVIOUS
    <2> HIDE DEF P
    <2> QED
      BY <1>2, <1>3, <2>1, Induction
  <1>5. Cardinality(S) \in Nat /\ S \in SUBSET S
    BY FS_CardinalityType
  <1> QED
    BY <1>4, <1>5

-----------------------------------------------------------------------------
(* The largest element.                                                    *)

Bounds(m, s) == m \in s /\ \A y \in s : m >= y

\* A finite set of numbers that is not empty has a largest element.
LEMMA MaxIsBound ==
  ASSUME NEW S \in SUBSET Int, IsFiniteSet(S), S # {}
  PROVE  Bounds(Max(S), S)
  <1> DEFINE P == {n \in Nat : \A s \in SUBSET S : Cardinality(s) = n /\ s # {} => \E m \in Int : Bounds(m, s)}
  <1>1. 0 \in P
    BY PickRemoved
  <1>2. ASSUME NEW n \in P PROVE n + 1 \in P
    <2>1. ASSUME NEW s \in SUBSET S, Cardinality(s) = n + 1, s # {} PROVE \E m \in Int : Bounds(m, s)
      <3>1. PICK p \in s : TRUE
        BY <2>1
      <3>2. s \ {p} \in SUBSET S /\ Cardinality(s \ {p}) = n /\ p \in Int
        <4>1. Cardinality(s) \in Nat /\ Cardinality(s \ {p}) = Cardinality(s) - 1
          BY PickRemoved
        <4> QED
          BY <2>1, <4>1
      <3>3. CASE s \ {p} = {}
        BY <3>2, <3>3 DEF Bounds
      <3>4. CASE s \ {p} # {}
        <4>1. PICK m \in Int : Bounds(m, s \ {p})
          BY <3>2, <3>4
        <4>2. \A y \in s : y \in Int
          OBVIOUS
        <4>3. CASE m >= p
          BY <4>1, <4>2, <4>3 DEF Bounds
        <4>4. CASE p >= m
          BY <3>2, <4>1, <4>2, <4>4 DEF Bounds
        <4> QED
          BY <3>2, <4>3, <4>4
      <3> QED
        BY <3>3, <3>4
    <2> QED
      BY <2>1
  <1>3. P = Nat
    <2>1. P \in SUBSET Nat
      OBVIOUS
    <2> HIDE DEF P
    <2> QED
      BY <1>1, <1>2, <2>1, Induction
  <1>4. Cardinality(S) \in Nat /\ S \in SUBSET S
    BY FS_CardinalityType
  <1>5. \E m \in Int : Bounds(m, S)
    BY <1>3, <1>4
  <1> QED
    BY <1>5 DEF Max, Bounds

\* Nothing else is.
LEMMA MaxIs ==
  ASSUME NEW S \in SUBSET Int, IsFiniteSet(S), NEW m, Bounds(m, S)
  PROVE  Max(S) = m
  <1> DEFINE k == Max(S)
  <1>1. Bounds(k, S)
    BY MaxIsBound DEF Bounds
  <1> HIDE DEF k
  <1>2. k \in Int /\ m \in Int /\ k >= m /\ m >= k
    BY <1>1 DEF Bounds
  <1>3. k = m
    BY <1>2
  <1> QED
    BY <1>3 DEF k

-----------------------------------------------------------------------------
(* Arithmetic modulo a width.                                              *)

LEMMA DivMod ==
  ASSUME NEW w \in Nat \ {0}, NEW x \in Int
  PROVE  x % w \in 0 .. w - 1 /\ x \div w \in Int /\ x = w * (x \div w) + (x % w)
  OBVIOUS

LEMMA Multiples ==
  ASSUME NEW w \in Nat \ {0}, NEW a \in Int
  PROVE  (a >= 1 => w * a >= w) /\ (a <= -1 => w * a <= -w)
  OBVIOUS

\* The rest of a division is unique.
LEMMA ModOf ==
  ASSUME NEW w \in Nat \ {0}, NEW k \in Int, NEW r \in 0 .. w - 1
  PROVE  (w * k + r) % w = r
  <1> DEFINE x == w * k + r
             q == x \div w
             m == x % w
  <1>1. x \in Int /\ q \in Int /\ m \in 0 .. w - 1 /\ x = w * q + m
    BY DivMod
  <1>2. x = w * k + r
    OBVIOUS
  <1> HIDE DEF x, q, m
  <1>3. w * k + r = w * q + m
    BY <1>1, <1>2
  <1>4. w * (k - q) = m - r
    BY <1>1, <1>3
  <1>5. CASE k - q >= 1
    BY <1>1, <1>4, <1>5, Multiples
  <1>6. CASE k - q <= -1
    BY <1>1, <1>4, <1>6, Multiples
  <1>7. CASE k = q
    BY <1>1, <1>3, <1>7 DEF x, m
  <1> QED
    BY <1>1, <1>5, <1>6, <1>7

\* A number within the width stays.
LEMMA ModSmall ==
  ASSUME NEW w \in Nat \ {0}, NEW r \in 0 .. w - 1
  PROVE  r % w = r
  <1>1. (w * 0 + r) % w = r
    BY ModOf
  <1> QED
    BY <1>1

\* Reducing on the way changes nothing.
LEMMA ModAdd ==
  ASSUME NEW w \in Nat \ {0}, NEW x \in Int, NEW y \in Int
  PROVE  ((x % w) + y) % w = (x + y) % w
  <1> DEFINE q == x \div w
             m == x % w
             r == (m + y) % w
             p == (m + y) \div w
  <1>1. q \in Int /\ m \in 0 .. w - 1 /\ x = w * q + m
    BY DivMod
  <1>2. r \in 0 .. w - 1 /\ p \in Int /\ m + y = w * p + r
    <2>1. m + y \in Int
      BY <1>1
    <2> HIDE DEF m
    <2> QED
      BY <2>1, DivMod
  <1> HIDE DEF q, m, r, p
  <1>3. x + y = w * (q + p) + r
    BY <1>1, <1>2
  <1>4. (w * (q + p) + r) % w = r
    BY <1>1, <1>2, ModOf
  <1> QED
    BY <1>3, <1>4 DEF r, m

-----------------------------------------------------------------------------
(* Two's complement of the width of 2 * h values.                          *)

Wrapped(x, h) == ((x + h) % (2 * h)) - h

LEMMA WrappedType ==
  ASSUME NEW h \in Nat \ {0}, NEW x \in Int
  PROVE  Wrapped(x, h) \in (-h) .. (h - 1)
  <1> DEFINE w == 2 * h
             y == x + h
  <1>1. w \in Nat \ {0} /\ y \in Int
    OBVIOUS
  <1> HIDE DEF w, y
  <1>2. y % w \in 0 .. w - 1
    BY <1>1, DivMod
  <1>3. Wrapped(x, h) = (y % w) - h
    BY DEF Wrapped, w, y
  <1> QED
    BY <1>2, <1>3 DEF w

\* A number within the width stays.
LEMMA WrappedSmall ==
  ASSUME NEW h \in Nat \ {0}, NEW x \in (-h) .. (h - 1)
  PROVE  Wrapped(x, h) = x
  <1> DEFINE w == 2 * h
             y == x + h
  <1>1. w \in Nat \ {0} /\ y \in 0 .. w - 1 /\ x \in Int
    OBVIOUS
  <1>2. y % w = y
    <2> HIDE DEF w, y
    <2> QED
      BY <1>1, ModSmall
  <1> QED
    BY <1>1, <1>2 DEF Wrapped

\* Wrapping on the way changes nothing.
LEMMA WrappedAdd ==
  ASSUME NEW h \in Nat \ {0}, NEW x \in Int, NEW y \in Int
  PROVE  Wrapped(Wrapped(x, h) + y, h) = Wrapped(x + y, h)
  <1> DEFINE w == 2 * h
             z == x + h
             m == z % w
  <1>1. w \in Nat \ {0} /\ z \in Int
    OBVIOUS
  <1>2. (m + y) % w = (z + y) % w
    <2> HIDE DEF w, z
    <2> QED
      BY <1>1, ModAdd
  <1>3. m \in Int
    <2> HIDE DEF w, z
    <2> QED
      BY <1>1, DivMod
  <1>4. Wrapped(x, h) = m - h
    BY DEF Wrapped
  <1> HIDE DEF m
  <1>5. (m - h + y) + h = m + y /\ (x + y) + h = z + y
    BY <1>3
  <1>6. Wrapped(m - h + y, h) = ((m + y) % w) - h
    BY <1>5 DEF Wrapped
  <1>7. Wrapped(x + y, h) = ((z + y) % w) - h
    BY <1>5 DEF Wrapped
  <1> QED
    BY <1>2, <1>4, <1>6, <1>7
=============================================================================
