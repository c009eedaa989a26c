----------------------------- MODULE FoldFacts -----------------------------
(***************************************************************************)
(* Induction over data for the proofs of this project, in the form that    *)
(* they can use: over sets of numbers, and for the folds of SequencesExt   *)
(* with an operator that the instance of this module chooses.              *)
(***************************************************************************)
EXTENDS Integers, Sequences, SequencesExt, WellFoundedInduction, TLAPS

CONSTANT Op(_, _)

\* A set of numbers that is not empty has a least one.
LEMMA Least ==
  ASSUME NEW S \in SUBSET Nat, S # {}
  PROVE  \E n \in S : \A m \in S : n <= m
<1> DEFINE R == OpToRel(<, Nat)
<1>1. \A m, n \in Nat : m < n => <<m, n>> \in R
  BY DEF OpToRel
<1>2. IsWellFoundedOn(R, Nat)
  BY NatLessThanWellFounded
<1> HIDE DEF R
<1>3. PICK n \in S : \A m \in S : ~ (<<m, n>> \in R)
  BY <1>2, WFMin
<1>4. ASSUME NEW m \in S
      PROVE  n <= m
  <2>1. m \in Nat /\ n \in Nat /\ ~ (m < n)
    BY <1>1, <1>3
  <2> QED
    BY <2>1
<1> QED
  BY <1>4

\* A set with 0 in it and, with a number, the next has every number.
LEMMA Induction ==
  ASSUME NEW S, 0 \in S, \A n \in Nat : n \in S => n + 1 \in S
  PROVE  \A n \in Nat : n \in S
<1> SUFFICES ASSUME NEW k \in Nat, k \notin S PROVE FALSE
  OBVIOUS
<1>1. Nat \ S \subseteq Nat /\ Nat \ S # {}
  OBVIOUS
<1>2. PICK n \in Nat \ S : \A m \in Nat \ S : n <= m
  BY <1>1, Least
<1>3. n # 0 /\ n - 1 \in Nat /\ ~ (n <= n - 1)
  BY <1>2
<1>4. n - 1 \in S
  BY <1>2, <1>3
<1> QED
  BY <1>2, <1>3, <1>4

\* A function that looks further on, up to n.
CanLook(n, V, base, next, B) ==
  /\ n \in Nat /\ base \in [Nat -> V]
  /\ \A i \in Nat : i < n => next[i] \in Nat /\ next[i] > i
  /\ \A i \in Nat, v \in V : i < n => B[i][v] \in V
Looks(f, n, V, base, next, B) ==
  /\ f \in [Nat -> V]
  /\ \A i \in Nat : f[i] = IF i >= n THEN base[i] ELSE B[i][f[next[i]]]

\* A function whose values follow from those further on exists.
LEMMA LooksAhead ==
  ASSUME NEW n, NEW V, NEW base, NEW next, NEW B, CanLook(n, V, base, next, B)
  PROVE  \E f : Looks(f, n, V, base, next, B)
<1> USE DEF CanLook
<1> DEFINE D(m) == {i \in Nat : i + m >= n}
           Good(m) == \E f \in [D(m) -> V] :
                        f = [i \in D(m) |-> IF i >= n THEN base[i] ELSE B[i][f[next[i]]]]
           S == {m \in Nat : Good(m)}
<1>1. Good(0)
  <2> DEFINE f == [i \in D(0) |-> base[i]]
  <2>1. f \in [D(0) -> V]
    OBVIOUS
  <2>2. \A i \in D(0) : i >= n
    OBVIOUS
  <2>3. f = [i \in D(0) |-> IF i >= n THEN base[i] ELSE B[i][f[next[i]]]]
    BY <2>2
  <2> QED
    BY <2>1, <2>3
<1>2. ASSUME NEW m \in Nat, Good(m)
      PROVE  Good(m + 1)
  <2>1. PICK g \in [D(m) -> V] :
          g = [i \in D(m) |-> IF i >= n THEN base[i] ELSE B[i][g[next[i]]]]
    BY <1>2
  <2> DEFINE h == [i \in D(m + 1) |-> IF i >= n THEN base[i] ELSE B[i][g[next[i]]]]
  <2>2. ASSUME NEW i \in D(m + 1), ~ (i >= n)
        PROVE  next[i] \in D(m) /\ next[i] \in D(m + 1)
    BY <2>2
  <2>3. \A i \in D(m) : i \in D(m + 1)
    OBVIOUS
  <2>4. h \in [D(m + 1) -> V]
    <3>1. ASSUME NEW i \in D(m + 1)
          PROVE  (IF i >= n THEN base[i] ELSE B[i][g[next[i]]]) \in V
      <4>1. CASE i >= n
        BY <4>1
      <4>2. CASE ~ (i >= n)
        <5>1. g[next[i]] \in V
          BY <2>1, <2>2, <4>2
        <5>2. i \in Nat /\ i < n
          BY <4>2
        <5> QED
          BY <4>2, <5>1, <5>2
      <4> QED
        BY <4>1, <4>2
    <3> QED
      BY <3>1
  <2>5. \A i \in D(m) : h[i] = g[i]
    <3> TAKE i \in D(m)
    <3>1. h[i] = IF i >= n THEN base[i] ELSE B[i][g[next[i]]]
      BY <2>3
    <3>2. g[i] = IF i >= n THEN base[i] ELSE B[i][g[next[i]]]
      BY <2>1
    <3> QED
      BY <3>1, <3>2
  <2>6. \A i \in D(m + 1) : h[i] = IF i >= n THEN base[i] ELSE B[i][h[next[i]]]
    <3> TAKE i \in D(m + 1)
    <3>1. CASE i >= n
      BY <3>1
    <3>2. CASE ~ (i >= n)
      <4>1. h[next[i]] = g[next[i]]
        BY <2>2, <2>5, <3>2
      <4>2. h[i] = B[i][g[next[i]]]
        BY <3>2
      <4> HIDE DEF h
      <4> QED
        BY <3>2, <4>1, <4>2
    <3> QED
      BY <3>1, <3>2
  <2>7. h = [i \in D(m + 1) |-> h[i]]
    OBVIOUS
  <2> HIDE DEF h
  <2>8. h = [i \in D(m + 1) |-> IF i >= n THEN base[i] ELSE B[i][h[next[i]]]]
    BY <2>6, <2>7
  <2> QED
    BY <2>4, <2>8
<1>3. \A m \in Nat : m \in S
  <2> HIDE DEF Good
  <2>1. 0 \in S /\ \A m \in Nat : m \in S => m + 1 \in S
    BY <1>1, <1>2
  <2> HIDE DEF S
  <2> QED
    BY <2>1, Induction
<1>4. Good(n)
  BY <1>3
<1>5. PICK f \in [D(n) -> V] :
        f = [i \in D(n) |-> IF i >= n THEN base[i] ELSE B[i][f[next[i]]]]
  BY <1>4
<1>6. D(n) = Nat
  OBVIOUS
<1>7. \A i \in Nat : f[i] = IF i >= n THEN base[i] ELSE B[i][f[next[i]]]
  BY <1>5, <1>6
<1> QED
  BY <1>5, <1>6, <1>7 DEF Looks

\* The greatest of a finite set of numbers, which Max of FiniteSetsExt chooses.
LEMMA MaxProperties ==
  ASSUME NEW n \in Nat, NEW s \in SUBSET (1 .. n), s # {}
  PROVE  Max(s) \in s /\ \A y \in s : Max(s) >= y
<1> DEFINE S == {k \in Nat : \A t \in SUBSET (1 .. k) :
                               t # {} => \E x \in t : \A y \in t : x >= y}
<1>1. 0 \in S
  <2>1. \A t \in SUBSET (1 .. 0) : t = {}
    OBVIOUS
  <2> QED
    BY <2>1
<1>2. ASSUME NEW k \in Nat, k \in S
      PROVE  k + 1 \in S
  <2> SUFFICES ASSUME NEW t \in SUBSET (1 .. k + 1), t # {}
               PROVE  \E x \in t : \A y \in t : x >= y
    OBVIOUS
  <2>1. CASE k + 1 \in t
    BY <2>1
  <2>2. CASE k + 1 \notin t
    <3>1. t \in SUBSET (1 .. k)
      BY <2>2
    <3> QED
      BY <3>1, <1>2
  <2> QED
    BY <2>1, <2>2
<1>3. \A k \in Nat : k \in S
  <2> HIDE DEF S
  <2> QED
    BY <1>1, <1>2, Induction
<1>4. \E x \in s : \A y \in s : x >= y
  BY <1>3
<1> QED
  BY <1>4 DEF Max

\* The greatest of 0 .. n is n.
LEMMA MaxOf ==
  ASSUME NEW n \in Nat, NEW s \in SUBSET (1 .. n), n \in s
  PROVE  Max(s) = n
<1>1. s # {}
  OBVIOUS
<1>2. Max(s) \in s /\ \A y \in s : Max(s) >= y
  BY <1>1, MaxProperties
<1>3. Max(s) \in 1 .. n /\ Max(s) >= n
  BY <1>2
<1> QED
  BY <1>3

-----------------------------------------------------------------------------
\* FoldLeft, with the function it is defined by named.
Body(base, seq, g, s) == IF s = {} THEN base ELSE Op(g[s \ {Max(s)}], seq[Max(s)])
Iter(base, seq, S) == CHOOSE g : g = [s \in SUBSET S |-> Body(base, seq, g, s)]
Follows(g, base, seq, n) == g = [s \in SUBSET (1 .. n) |-> Body(base, seq, g, s)]

\* A fold of FoldLeft takes one element after the other.
LEMMA FoldIsIter ==
  ASSUME NEW base, NEW seq
  PROVE  FoldLeft(Op, base, seq) = Iter(base, seq, DOMAIN seq)[DOMAIN seq]
BY DEF FoldLeft, MapThenFoldSet, Iter, Body

\* There is such a function for every length.
LEMMA IterExists ==
  ASSUME NEW base, NEW seq, NEW n \in Nat
  PROVE  Follows(Iter(base, seq, 1 .. n), base, seq, n)
<1> DEFINE Has(m) == \E g : g = [s \in SUBSET (1 .. m) |-> Body(base, seq, g, s)]
           S == {m \in Nat : Has(m)}
<1>1. Has(0)
  <2> DEFINE g == [s \in SUBSET (1 .. 0) |-> base]
  <2>1. g = [s \in SUBSET (1 .. 0) |-> Body(base, seq, g, s)]
    BY DEF Body
  <2> QED
    BY <2>1
<1>2. ASSUME NEW m \in Nat, Has(m)
      PROVE  Has(m + 1)
  <2>1. PICK g : g = [s \in SUBSET (1 .. m) |-> Body(base, seq, g, s)]
    BY <1>2
  <2> DEFINE h == [s \in SUBSET (1 .. m + 1) |->
                     IF m + 1 \in s THEN Op(g[s \ {m + 1}], seq[m + 1]) ELSE g[s]]
  <2>2. ASSUME NEW s \in SUBSET (1 .. m + 1)
        PROVE  h[s] = Body(base, seq, h, s)
    <3>1. CASE m + 1 \in s
      <4>1. Max(s) = m + 1
        BY <3>1, MaxOf, m + 1 \in Nat
      <4>2. s \ {m + 1} \in SUBSET (1 .. m)
        BY <3>1
      <4>3. h[s \ {m + 1}] = g[s \ {m + 1}]
        BY <4>2
      <4> QED
        BY <3>1, <4>1, <4>3 DEF Body
    <3>2. CASE m + 1 \notin s
      <4>1. s \in SUBSET (1 .. m)
        BY <3>2
      <4>2. h[s] = g[s]
        BY <3>2
      <4>3. h[s \ {Max(s)}] = g[s \ {Max(s)}]
        <5>1. s \ {Max(s)} \in SUBSET (1 .. m + 1)
          BY <4>1
        <5>2. m + 1 \notin s \ {Max(s)}
          BY <3>2
        <5> QED
          BY <5>1, <5>2
      <4>4. g[s] = Body(base, seq, g, s)
        BY <2>1, <4>1
      <4> HIDE DEF h
      <4> QED
        BY <4>2, <4>3, <4>4 DEF Body
    <3> QED
      BY <3>1, <3>2
  <2>3. h = [s \in SUBSET (1 .. m + 1) |-> Body(base, seq, h, s)]
    <3>1. h = [s \in SUBSET (1 .. m + 1) |-> h[s]]
      OBVIOUS
    <3> HIDE DEF h
    <3> QED
      BY <2>2, <3>1
  <2> QED
    BY <2>3
<1>3. \A m \in Nat : m \in S
  <2> HIDE DEF Has
  <2>1. 0 \in S /\ \A m \in Nat : m \in S => m + 1 \in S
    BY <1>1, <1>2
  <2> HIDE DEF S
  <2> QED
    BY <2>1, Induction
<1>4. Has(n)
  BY <1>3
<1> QED
  BY <1>4 DEF Iter, Follows

\* The values a fold runs through, from the base to its result.
Runs(z, base, seq, n) == z[0] = base /\ \A k \in 1 .. n : z[k] = Op(z[k - 1], seq[k])

\* The function by which a fold is defined runs along the sequence.
LEMMA FoldRuns ==
  ASSUME NEW base, NEW n \in Nat, NEW seq, DOMAIN seq = 1 .. n
  PROVE  \E z : Runs(z, base, seq, n) /\ FoldLeft(Op, base, seq) = z[n]
<1>1. PICK it : it = Iter(base, seq, 1 .. n)
  OBVIOUS
<1> DEFINE z == [k \in 0 .. n |-> it[1 .. k]]
<1>2. FoldLeft(Op, base, seq) = z[n]
  BY <1>1, FoldIsIter
<1>6. Follows(it, base, seq, n)
  BY <1>1, IterExists
<1>5. it = [s \in SUBSET (1 .. n) |-> Body(base, seq, it, s)]
  BY <1>6 DEF Follows
<1>3. z[0] = base
  <2>1. 1 .. 0 = {} /\ 1 .. 0 \in SUBSET (1 .. n)
    OBVIOUS
  <2>2. it[1 .. 0] = base
    BY <1>5, <2>1 DEF Body
  <2> QED
    BY <2>2
<1>4. ASSUME NEW k \in 1 .. n
      PROVE  z[k] = Op(z[k - 1], seq[k])
  <2>1. 1 .. k \in SUBSET (1 .. n) /\ k \in 1 .. k /\ 1 .. k # {} /\ k \in Nat
    OBVIOUS
  <2>2. Max(1 .. k) = k
    BY <2>1, MaxOf
  <2>3. (1 .. k) \ {k} = 1 .. (k - 1)
    OBVIOUS
  <2>4. it[1 .. k] = Op(it[1 .. (k - 1)], seq[k])
    BY <1>5, <2>1, <2>2, <2>3 DEF Body
  <2> QED
    BY <2>4
<1> QED
  BY <1>2, <1>3, <1>4 DEF Runs

\* There is one such run only.
LEMMA RunsAgree ==
  ASSUME NEW base, NEW seq, NEW n \in Nat, NEW z, Runs(z, base, seq, n),
         NEW y, Runs(y, base, seq, n)
  PROVE  \A k \in 0 .. n : y[k] = z[k]
<1> DEFINE S == {k \in Nat : k <= n => y[k] = z[k]}
<1>1. 0 \in S
  BY DEF Runs
<1>2. ASSUME NEW k \in Nat, k \in S
      PROVE  k + 1 \in S
  <2> SUFFICES ASSUME k + 1 <= n
               PROVE  y[k + 1] = z[k + 1]
    OBVIOUS
  <2>1. k + 1 \in 1 .. n /\ y[k] = z[k] /\ (k + 1) - 1 = k
    BY <1>2
  <2> QED
    BY <2>1 DEF Runs
<1> HIDE DEF S
<1>3. \A k \in Nat : k \in S
  BY <1>1, <1>2, Induction
<1> QED
  BY <1>3 DEF S

\* A fold is the last value of whatever runs like it.
THEOREM FoldIs ==
  ASSUME NEW base, NEW n \in Nat, NEW seq, DOMAIN seq = 1 .. n,
         NEW z, Runs(z, base, seq, n)
  PROVE  FoldLeft(Op, base, seq) = z[n]
<1>1. PICK y : Runs(y, base, seq, n) /\ FoldLeft(Op, base, seq) = y[n]
  BY FoldRuns
<1> QED
  BY <1>1, RunsAgree, n \in 0 .. n

\* A fold over nothing is its base.
THEOREM FoldEmpty ==
  ASSUME NEW base, NEW seq, DOMAIN seq = {}
  PROVE  FoldLeft(Op, base, seq) = base
<1> DEFINE z == [k \in {0} |-> base]
<1>1. Runs(z, base, seq, 0)
  BY DEF Runs
<1>2. DOMAIN seq = 1 .. 0 /\ z[0] = base
  OBVIOUS
<1> HIDE DEF z
<1> QED
  BY <1>1, <1>2, FoldIs, 0 \in Nat

\* An element at the end is the last to be folded in.
IsStep(x, e, y) == y = Op(x, e)
IsLonger(longer, seq, n) == /\ DOMAIN seq = 1 .. n /\ DOMAIN longer = 1 .. n + 1
                            /\ \A i \in 1 .. n : longer[i] = seq[i]
THEOREM FoldLast ==
  ASSUME NEW base, NEW n \in Nat, NEW seq, NEW longer, IsLonger(longer, seq, n)
  PROVE  IsStep(FoldLeft(Op, base, seq), longer[n + 1], FoldLeft(Op, base, longer))
<1> USE DEF IsLonger, IsStep
<1>1. PICK z : Runs(z, base, longer, n + 1) /\ FoldLeft(Op, base, longer) = z[n + 1]
  BY FoldRuns, n + 1 \in Nat
<1>2. Runs(z, base, seq, n)
  <2>1. \A k \in 1 .. n : k \in 1 .. n + 1
    OBVIOUS
  <2> QED
    BY <1>1, <2>1 DEF Runs
<1>3. FoldLeft(Op, base, seq) = z[n]
  BY <1>2, FoldIs
<1>4. n + 1 \in 1 .. n + 1 /\ (n + 1) - 1 = n
  OBVIOUS
<1> QED
  BY <1>1, <1>3, <1>4 DEF Runs

\* The first element can be folded into the base.
IsRest(rest, seq, n) == /\ DOMAIN rest = 1 .. n /\ DOMAIN seq = 1 .. n + 1
                        /\ \A i \in 1 .. n : rest[i] = seq[i + 1]
THEOREM FoldFirst ==
  ASSUME NEW base, NEW n \in Nat, NEW rest, NEW seq, IsRest(rest, seq, n),
         NEW first, IsStep(base, seq[1], first)
  PROVE  FoldLeft(Op, base, seq) = FoldLeft(Op, first, rest)
<1> USE DEF IsRest
<1>1. PICK z : Runs(z, base, seq, n + 1) /\ FoldLeft(Op, base, seq) = z[n + 1]
  BY FoldRuns, n + 1 \in Nat
<1> DEFINE y == [k \in 0 .. n |-> z[k + 1]]
<1>2. Runs(y, first, rest, n)
  <2>1. y[0] = first
    <3>1. 1 \in 1 .. n + 1 /\ 1 - 1 = 0 /\ 0 + 1 = 1 /\ 0 \in 0 .. n
      OBVIOUS
    <3>2. y[0] = z[1] /\ z[1] = Op(base, seq[1])
      BY <1>1, <3>1 DEF Runs
    <3> HIDE DEF y
    <3> QED
      BY <3>2 DEF IsStep
  <2>2. ASSUME NEW k \in 1 .. n
        PROVE  y[k] = Op(y[k - 1], rest[k])
    <3>1. k + 1 \in 1 .. n + 1 /\ (k + 1) - 1 = k /\ (k - 1) + 1 = k
          /\ k \in 0 .. n /\ k - 1 \in 0 .. n
      OBVIOUS
    <3>2. z[k + 1] = Op(z[k], seq[k + 1])
      BY <1>1, <3>1 DEF Runs
    <3> QED
      BY <3>1, <3>2
  <2> HIDE DEF y
  <2> QED
    BY <2>1, <2>2 DEF Runs
<1>3. y[n] = z[n + 1]
  OBVIOUS
<1> HIDE DEF y
<1>4. FoldLeft(Op, first, rest) = y[n]
  BY <1>2, FoldIs
<1> QED
  BY <1>1, <1>3, <1>4

\* What the base is in and no element leads out of.
THEOREM FoldIn ==
  ASSUME NEW base, NEW n \in Nat, NEW seq, DOMAIN seq = 1 .. n,
         NEW S, base \in S, \A x \in S, i \in 1 .. n : Op(x, seq[i]) \in S
  PROVE  FoldLeft(Op, base, seq) \in S
<1>1. PICK z : Runs(z, base, seq, n) /\ FoldLeft(Op, base, seq) = z[n]
  BY FoldRuns
<1> DEFINE T == {k \in Nat : k <= n => z[k] \in S}
<1>2. 0 \in T
  BY <1>1 DEF Runs
<1>3. ASSUME NEW k \in Nat, k \in T
      PROVE  k + 1 \in T
  <2> SUFFICES ASSUME k + 1 <= n
               PROVE  z[k + 1] \in S
    OBVIOUS
  <2>1. k + 1 \in 1 .. n /\ (k + 1) - 1 = k /\ z[k] \in S
    BY <1>3
  <2>2. z[k + 1] = Op(z[k], seq[k + 1])
    BY <1>1, <2>1 DEF Runs
  <2> QED
    BY <2>1, <2>2
<1>4. \A k \in Nat : k \in T
  <2> HIDE DEF T
  <2> QED
    BY <1>2, <1>3, Induction
<1> QED
  BY <1>1, <1>4
=============================================================================
